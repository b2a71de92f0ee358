-------------------------- MODULE MCComputerTask --------------------------
(***************************************************************************)
(* Instances of ComputerTask for TLC: the second state falls back to the   *)
(* first, so that failures can go round.                                   *)
(***************************************************************************)
EXTENDS ComputerTask

FallsBack == <<0, 1>>
=============================================================================
