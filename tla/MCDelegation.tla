--------------------------- MODULE MCDelegation ---------------------------
(* Delegation for TLC: the cfg gives the children. *)
EXTENDS Delegation

CONSTANTS t1, t2, t3
=============================================================================
