SPECIFICATION Spec
CONSTANTS
  NoTable = NoTable
  NoStamp = NoStamp
  Ids = {a, b}
  MaxRevision = 3
  MaxClock = 2
INVARIANT OpenNeverFails
