------------------------------ MODULE JobLedger ------------------------------
(***************************************************************************)
(* What the gateway job queue promises about one durable job record, with  *)
(* lanes, slots, timers and threads left out.  A job id is accepted once,  *)
(* is executed at most MaxAttempts times per process, may fall back to the *)
(* queue between two executions, and gets at most one verdict, which       *)
(* nothing overwrites: not a late handler, a cancel, a retry timer, a      *)
(* drain or a restart.  JobQueue implements it through its durable log.    *)
(***************************************************************************)
EXTENDS Integers

CONSTANTS
  Jobs,         \* job ids
  MaxAttempts   \* job id -> how many executions its submitter allowed

VARIABLES
  record,       \* job id -> status folded from the durable log
  tries         \* job id -> executions so far in this process

ledgerVars == <<record, tries>>

InFlight == {"queued", "running"}
Verdicts == {"succeeded", "failed", "cancelled", "interrupted"}

Init ==
  /\ record = [j \in Jobs |-> "none"]
  /\ tries  = [j \in Jobs |-> 0]

Accept(j) ==
  /\ record[j] = "none"
  /\ record' = [record EXCEPT ![j] = "queued"]
  /\ UNCHANGED tries

Execute(j) ==
  /\ record[j] = "queued"
  /\ tries[j] < MaxAttempts[j]
  /\ record' = [record EXCEPT ![j] = "running"]
  /\ tries'  = [tries EXCEPT ![j] = @ + 1]

Retry(j) ==
  /\ record[j] = "running"
  /\ tries[j] < MaxAttempts[j]
  /\ record' = [record EXCEPT ![j] = "queued"]
  /\ UNCHANGED tries

\* One or more jobs get their verdict together: a stopping lane cancels
\* everything it still holds in one go.
Settle(S, verdict) ==
  /\ S # {}
  /\ \A j \in S : record[j] \in InFlight
  /\ record' = [j \in Jobs |-> IF j \in S THEN verdict ELSE record[j]]
  /\ UNCHANGED tries

\* The process dies: the records survive, the attempt counters do not.
Forget ==
  /\ tries' = [j \in Jobs |-> 0]
  /\ UNCHANGED record

Next ==
  \/ \E j \in Jobs : Accept(j) \/ Execute(j) \/ Retry(j)
  \/ \E S \in SUBSET Jobs, verdict \in Verdicts : Settle(S, verdict)
  \/ Forget

Spec == Init /\ [][Next]_ledgerVars
=============================================================================
