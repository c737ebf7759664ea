---------------------------- MODULE MCRecordStore ----------------------------
(* RecordStore on two vaults of two ids, batches of two rows.              *)
EXTENDS RecordStore, TLC

Symmetry == Permutations(Vaults) \cup Permutations(Ids)

=============================================================================
