----------------------------- MODULE MCVaultKeys -----------------------------
(* VaultKeys on small sets of devices, passwords and kits.                 *)
EXTENDS VaultKeys, TLC

\* Devices are interchangeable, and so are the kits no device starts with.
Interchangeable == Permutations(Devices) \cup Permutations(Kits \ {FirstKit})

=============================================================================
