--------------------------- MODULE MCInMemoryStore ---------------------------
(* InMemoryStore with two threads on two vaults of one record each.        *)
EXTENDS InMemoryStore, TLC

=============================================================================
