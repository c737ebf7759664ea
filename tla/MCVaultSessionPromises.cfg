SPECIFICATION Spec
CONSTANTS
  Salts = {s1, s2}
  Passwords = {p1, p2}
  Tasks = {t1, t2}
  NoSalt = NoSalt
  Starts = {"bare", "legacy", "wrapped"}
  Mishaps <- Everything
  MaxRevision = 3
  MaxEdits = 2
\* What the repository says of the code and the model refutes: each line below
\* is violated.  Leave one to see its behaviour.
INVARIANTS
  VaultKept
  KeyOpens
  TakesWholeVault
  LockedHoldsNoKey
  FailedResetKeepsVault
