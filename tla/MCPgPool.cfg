SPECIFICATION FairSpec
CONSTANTS
  Threads = {t1, t2, t3}
  MaxSize = 2
  MaxCalls = 2
INVARIANTS PoolInv DrainedMeansNone
PROPERTIES EveryWaitEnds
\* The threads stop checking out and the pool stays closed.
CHECK_DEADLOCK FALSE
