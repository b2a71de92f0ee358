----------------------------- MODULE MCRetention -----------------------------
(* Model values for Retention. *)
EXTENDS Retention

CONSTANT key
OneKey == {key}
=============================================================================
