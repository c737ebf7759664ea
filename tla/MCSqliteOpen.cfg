SPECIFICATION Spec
CONSTANTS
  NoTable = NoTable
  NoStamp = NoStamp
  Ids = {a, b}
  MaxRevision = 3
  MaxClock = 2
SYMMETRY Symmetry
INVARIANTS TypeOK NothingLost OpenShowsCommitted NeverPurgedEarly
