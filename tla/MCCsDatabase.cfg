SPECIFICATION DatabaseSpec
CONSTANTS
  Reader = {r1}
  Reloader = {t1, t2}
  MaxHandles = 4
  MaxVersions = 2
INVARIANTS CallsOnLive NothingLeaks SavesAreServed
CHECK_DEADLOCK FALSE
