SPECIFICATION FairSpec
CONSTANTS
  NoStamp = NoStamp
  Threads = {t1, t2}
  Vaults = {v1, v2}
  Ids = {a}
  MaxCalls = 4
  MaxClock = 1
  MaxBatch = 2
\* A purge and a batch can block each other for good, and the callers stop.
CHECK_DEADLOCK FALSE
\* What the repository says of the code and the model refutes: each line below is violated.
\* Leave one to see its behaviour.
INVARIANTS
  NoLockCycle
  QuietLiveUnstamped
PROPERTIES
  KeepsContract
