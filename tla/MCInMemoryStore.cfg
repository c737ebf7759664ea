SPECIFICATION FairSpec
CONSTANTS
  NoStamp = NoStamp
  Threads = {t1, t2}
  Vaults = {v1, v2}
  Ids = {a}
  MaxCalls = 4
  MaxClock = 1
  MaxBatch = 2
INVARIANT TypeOK
PROPERTIES StepsKeepContract EveryCallReturns
\* A purge and a batch can block each other for good, and the callers stop.
CHECK_DEADLOCK FALSE
