SPECIFICATION Spec
CONSTANTS
  Vaults = {"v", "w"}
  Ids = {1, 2, 3}
  Ips = {"ip"}
  Requests = {q1, q2, q3}
  LastMinute = 1
  Migrators = {m1, m2}
  Scenarios <- MCScenarios
SYMMETRY Symmetry
CHECK_DEADLOCK FALSE
\* What the repository says of the code and the model refutes: each line below is violated.
\* Leave one to see its behaviour.
INVARIANTS
  LimitPerMinute
  PagesAlwaysComplete
  ServedMeansCurrent
PROPERTIES
  RetryMeansUndone
