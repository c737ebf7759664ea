SPECIFICATION StoreSpec
CONSTANTS
  NoBody = NoBody
  NoStamp = NoStamp
  Vaults = {v1, v2}
  Ids = {a, b}
  Bodies = {x}
  MaxRevision = 3
  MaxClock = 2
  MaxBatch = 2
SYMMETRY Symmetry
INVARIANT StoreInv
PROPERTIES RowsLeaveByPurgeOrRekey ChangesRaiseRevision KeepsContract
