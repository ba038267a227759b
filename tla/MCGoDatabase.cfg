SPECIFICATION Spec
CONSTANTS
  Client = {reader, owner}
  Loop = {loop}
  Thread = {reader, owner, loop}
  Handle = {h1, h2}
  Nobody = Nobody
  NoHandle = NoHandle
  MaxVersions = 3
INVARIANT OneOwner
CHECK_DEADLOCK FALSE
PROPERTIES KeepsNativeRules CloseReturnsOr ChangeIsServed
