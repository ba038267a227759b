SPECIFICATION MCSpec
CONSTANTS
  t1 = t1
  t2 = t2
  p1 = p1
  p2 = p2
  Thread = {t1, t2}
  Path = {p1, p2}
  MaxVersions = 5
  ThreadVersions = 4
  Watched = p1
  Caching = {TRUE}
  MaxCachedFiles = 1
  c1 = c1
  Compiler = {c1}
  MayFail = TRUE
  MaxRuns = 4
INVARIANTS CacheNeverOlder LoadsAreFresh NoneMeansCurrent CleanRunLeavesLockedPair ReportedIsOnDisk ReadsTheSettledRun
PROPERTY WatcherPicksUp
