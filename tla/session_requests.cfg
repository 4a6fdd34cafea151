CONSTANTS
  Workers = {w1, w2}
  MaxReqs = 3
  MaxRetrieves = 1
  Traffic <- TrafficBound
  Implemented <- ImplementedOps
SPECIFICATION FairSpec
CHECK_DEADLOCK FALSE
INVARIANTS TypeOK NoUseAfterFree RefsExact CallbackNotLost CallbackQuiet InterruptNotLost
PROPERTY EveryMessageConcluded
