------------------------------ MODULE MCCron ------------------------------
(* Model values for Cron: a one-shot and a schedule that runs twice. *)
EXTENDS Cron

Limits == [j \in Jobs |-> IF j \in OneShots THEN 9 ELSE 2]
=============================================================================
