--------------------------- MODULE MCVaultSession ---------------------------
(* VaultSession on small sets, and with everything that may strike.        *)
EXTENDS VaultSession

Everything == MishapNames

=============================================================================
