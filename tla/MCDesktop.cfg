SPECIFICATION Spec
CONSTANTS
  Dirs = {"a", "b"}
  Records <- MCRecords
  Pickers = {p1}
  Menus = {m1}
  FoldsDuringCopy = FALSE
  DefaultKeep = 1
  MaxSnapshots = 2
  Starts <- MCStarts
  None = None
  Torn = Torn
VIEW View
INVARIANTS TypeOK SettingsNameWholeVault LaunchSnapshotKept ExportWhole
