SPECIFICATION Spec
CONSTANTS
  Devices = {d1, d2}
  Passwords = {p1, p2}
  Kits = {k0, k1, k2}
  FirstKit = k0
  NoKit = NoKit
  Mistyping = TRUE
  Starts = {"wrapped", "legacy", "new"}
  MaxRevision = 4
SYMMETRY Interchangeable
\* What the repository says of the code and the model refutes: each line below is violated.
\* Leave one to see its behaviour.
INVARIANTS
  WrappersOpenVault
  UserKeepsKit
  SomeKitOpens
PROPERTIES
  RegenerationRevokes
  RevokedStaysRevoked
  ReplacedPasswordStaysReplaced
