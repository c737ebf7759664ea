SPECIFICATION Spec
CONSTANTS
  Salts = {s1, s2, s3}
  Passwords = {p1, p2}
  Tasks = {t1}
  NoSalt = NoSalt
  Starts = {"bare", "legacy", "wrapped"}
  Mishaps = {"lost", "other"}
  MaxRevision = 2
  MaxEdits = 2
INVARIANTS SessionInv VaultFound ResetTakesWholeVault
