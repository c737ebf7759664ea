SPECIFICATION Spec
CONSTANTS
  Vaults = {"v", "w"}
  Ids = {1, 2, 3}
  Ips = {"ip"}
  Requests = {q1, q2, q3}
  LastMinute = 1
  Migrators = {m1, m2}
  Scenarios <- MCScenarios
SYMMETRY Symmetry
INVARIANTS TypeOK RateHeld ConflictNamesOther PagesComplete MigratedMeansCurrent
CHECK_DEADLOCK FALSE
