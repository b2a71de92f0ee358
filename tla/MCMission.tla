----------------------------- MODULE MCMission -----------------------------
(***************************************************************************)
(* Instances of Mission for TLC.                                           *)
(***************************************************************************)
EXTENDS Mission

CONSTANTS e1
=============================================================================
