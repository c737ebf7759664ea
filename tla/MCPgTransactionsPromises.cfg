SPECIFICATION Spec
CONSTANTS
  Vaults = {"old", "new"}
  Ids = {"x", "y"}
  Sessions = {s1, s2}
  Calls <- MCCalls
  Starts <- MCStarts
  Now = 2
CHECK_DEADLOCK FALSE
\* What the repository says of the code and the model refutes: each line below is violated.
\* Leave one to see its behaviour.
INVARIANTS
  TombstonesExpire
PROPERTIES
  FirstWriteConflicts
  RekeyEmptiesScope
