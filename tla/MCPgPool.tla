------------------------------- MODULE MCPgPool -------------------------------
(* PgPool with more threads than connections.                              *)
EXTENDS PgPool, TLC

=============================================================================
