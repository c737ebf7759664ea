SPECIFICATION Spec
CONSTANTS
  Devices = {d1, d2}
  Passwords = {p1, p2}
  Kits = {k0, k1, k2}
  FirstKit = k0
  NoKit = NoKit
  Mistyping = FALSE
  Starts = {"wrapped", "legacy", "new"}
  MaxRevision = 3
SYMMETRY Interchangeable
INVARIANTS VaultInv MigrationKeepsKey
PROPERTIES KitStaysLive PasswordSetByUser
