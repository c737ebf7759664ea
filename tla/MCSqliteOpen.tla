----------------------------- MODULE MCSqliteOpen -----------------------------
(* SqliteOpen on a vault of two records that are interchangeable.          *)
EXTENDS SqliteOpen, TLC

Symmetry == Permutations(Ids)

=============================================================================
