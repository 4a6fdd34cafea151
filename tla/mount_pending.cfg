CONSTANTS
  t1 = t1
  t2 = t2
  t3 = t3
  Threads = {t1, t2, t3}
  MaxMounts = 2
  MaxCalls = 2
  SingleThread = TRUE
  WaitForSession = TRUE
  MayFail = FALSE
SPECIFICATION Spec
INVARIANTS
  NothingPendingAtInit
CHECK_DEADLOCK FALSE
