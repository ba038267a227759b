SPECIFICATION Spec
CONSTANTS
  Client = {reader, owner}
  Loop = {loop}
  Thread = {reader, owner, loop}
  Handle = {h1, h2}
  Nobody = Nobody
  NoHandle = NoHandle
  MaxVersions = 1
CHECK_DEADLOCK FALSE
PROPERTY CloseReturns
