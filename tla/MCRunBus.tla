------------------------------ MODULE MCRunBus ------------------------------
(***************************************************************************)
(* Instances of RunBus for TLC.                                            *)
(***************************************************************************)
EXTENDS RunBus

CONSTANTS loop, pool, c1
=============================================================================
