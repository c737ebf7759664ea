SPECIFICATION StoreSpec
CONSTANTS
  NoBody = NoBody
  NoStamp = NoStamp
  Vaults = {v1, v2}
  Ids = {a, b}
  Bodies = {x}
  MaxRevision = 3
  MaxClock = 2
  MaxBatch = 2
SYMMETRY Symmetry
\* What the repository says of the code and the model refutes: each line below is violated.
\* Leave one to see its behaviour.
PROPERTIES
  PurgeNowEmptiesTrash
