CONSTANTS
  t1 = t1
  t2 = t2
  t3 = t3
  Threads = {t1, t2, t3}
  MaxMounts = 3
  MaxCalls = 6
  SingleThread = TRUE
  WaitForSession = FALSE
  MayFail = TRUE
SPECIFICATION FairSpec
INVARIANTS
  TypeOK
  CountMatchesList
  ServesLiveSession
PROPERTIES
  LinkedIsServed
\* A daemon that failed to start, or a request that a mount unlinked, leaves its callers asleep.
CHECK_DEADLOCK FALSE
