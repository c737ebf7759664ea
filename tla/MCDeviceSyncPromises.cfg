SPECIFICATION SyncSpec
CONSTANTS
  d1 = d1
  d2 = d2
  Pages = {d1, d2}
  Scenarios <- Everything
  MaxEdits = 3
  MaxWrites = 6
CHECK_DEADLOCK FALSE
\* What the repository says of the code and the model refutes: each line below is violated.
\* Leave one to see its behaviour.
PROPERTIES
  DroppedOnlyWhenDecided
  CreatedCopiesOverwriteNothing
  RolledBackStaysBack
  PendingNotLost
  RestoredCopiesOverwriteNothing
  FormsOverwriteNothing
  DroppedWriteWasSent
