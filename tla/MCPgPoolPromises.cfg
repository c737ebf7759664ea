SPECIFICATION FairSpec
CONSTANTS
  Threads = {t1, t2, t3}
  MaxSize = 2
  MaxCalls = 2
\* The threads stop checking out and the pool stays closed.
CHECK_DEADLOCK FALSE
\* What the repository says of the code and the model refutes: each line below is violated.
\* Leave one to see its behaviour.
INVARIANTS
  TimesOutOnlyForBusy
