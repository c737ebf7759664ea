SPECIFICATION Spec
CONSTANTS
  NoTable = NoTable
  NoStamp = NoStamp
  Ids = {a, b}
  MaxRevision = 3
  MaxClock = 2
SYMMETRY Symmetry
\* What the repository says of the code and the model refutes: each line below is violated.
\* Leave one to see its behaviour.
INVARIANTS
  OpenKeepsStamps
