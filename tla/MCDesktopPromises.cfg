SPECIFICATION Spec
CONSTANTS
  Dirs = {"a", "b"}
  Records <- MCRecords
  Pickers = {p1, p2}
  Menus = {m1}
  FoldsDuringCopy = TRUE
  DefaultKeep = 1
  MaxSnapshots = 2
  Starts <- MCStarts
  None = None
  Torn = Torn
SYMMETRY Symmetry
\* What the repository says of the code and the model refutes: each line below is violated.
\* Leave one to see its behaviour.
INVARIANTS
  MovedVaultIsCurrent
  SettingsNameServer
  LaunchSnapshotKept
  SnapshotIsSelfContained
  FailedCopyIsRemoved
  SettingsReadable
  SettingsNameWholeVault
  ExportHoldsVault
