------------------------------- MODULE Results -------------------------------
(***************************************************************************)
(* What a function of the kernel or of the configuration crate answers: a  *)
(* value, or the code of what it refused.  QuadMax stands for 2^64 - 1,    *)
(* which TLC cannot count to.                                              *)
(***************************************************************************)
CONSTANT QuadMax

Ok(v) == [ok |-> TRUE, val |-> v]
Err(code) == [ok |-> FALSE, val |-> code]
=============================================================================
