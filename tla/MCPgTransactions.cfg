SPECIFICATION Spec
CONSTANTS
  Vaults = {"old", "new"}
  Ids = {"x", "y"}
  Sessions = {s1, s2}
  Calls <- MCCalls
  Starts <- MCStarts
  Now = 2
INVARIANT TypeOK
PROPERTIES AcceptedAsIfAlone EveryCallReturns
CHECK_DEADLOCK FALSE
