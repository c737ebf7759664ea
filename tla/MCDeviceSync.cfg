SPECIFICATION SyncSpec
CONSTANTS
  d1 = d1
  d2 = d2
  Pages = {d1, d2}
  Scenarios <- MCScenarios
  MaxEdits = 2
  MaxWrites = 3
VIEW View
INVARIANTS SyncTypeOK AppliedOnce
PROPERTIES ListedCopiesOverwriteNothing DroppedOnlyWhenAnswered
CHECK_DEADLOCK FALSE
