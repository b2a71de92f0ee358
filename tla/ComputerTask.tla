---------------------------- MODULE ComputerTask ----------------------------
(***************************************************************************)
(* One desktop task: the thread that works through its visual states       *)
(* (core/computer/state_machine.py, core/computer/computer_agent.py) and   *)
(* the callers that pause, resume, cancel and stop it                      *)
(* (core/computer/task_control.py, gateway/routes_computer.py,             *)
(* core/computer/remote.py).                                               *)
(*                                                                         *)
(* The thread looks at the requests only between two states, each of them  *)
(* in a critical section of its own; retries and repairs of a state do not *)
(* look.  Two latches stop the desktop: stop, which the thread reads       *)
(* between states, and halted, which the controller reads before every     *)
(* action.  The routes set one, the other or both.                         *)
(*                                                                         *)
(* Screen, planner, verifier and repair engine answer anything.            *)
(***************************************************************************)
EXTENDS Integers

CONSTANTS
  Steps,      \* number of planned states with an action; two terminal ones follow
  OnFailure,  \* planned state -> on_failure, 0 when the plan gives none
  MaxRetries, \* max_retries of a state (2)
  MaxReplans, \* max_replans (3)
  MaxRuns     \* bound: runs of the task

Success == Steps + 1
Failure == Steps + 2
MaxMoves == (Steps + 2) * (MaxRetries + 2) + 4

ASSUME TaskAssumption ==
  /\ Steps \in Nat \ {0}
  /\ OnFailure \in [1..Steps -> 0..Failure]
  /\ {MaxRetries, MaxReplans, MaxRuns} \subseteq Nat

VARIABLES
  ctrl,      \* control_state of the registered task, "none" without one
  pauseReq,  \* pause_requested
  cancelReq, \* cancel_requested
  stop,      \* _emergency_stop_active of the task control
  halted,    \* the controller's emergency stop
  pc,        \* where the thread stands
  cur,       \* the current state
  attempt,   \* attempts of it so far
  moves,     \* transitions
  replans,   \* replan_count
  report,    \* how the last run of the plan ended, "none" before
  afterStop, \* states begun since stop was set (history)
  afterCancel, \* states begun since the cancel request (history)
  runs       \* runs so far (bound)

ctx == <<ctrl, pauseReq, cancelReq>>
latches == <<stop, halted>>
graph == <<cur, attempt, moves, replans>>
history == <<afterStop, afterCancel, runs>>
vars == <<ctx, latches, pc, graph, report, history>>

Init ==
  /\ ctrl = "none" /\ pauseReq = FALSE /\ cancelReq = FALSE
  /\ stop = FALSE /\ halted = FALSE
  /\ pc = "idle" /\ report = "none"
  /\ cur = 1 /\ attempt = 0 /\ moves = 0 /\ replans = 0
  /\ afterStop = 0 /\ afterCancel = 0 /\ runs = 0

-----------------------------------------------------------------------------
(* Callers: each is one critical section of the task control *)

RequestPause ==
  /\ ctrl = "running"
  /\ ctrl' = "pausing"
  /\ pauseReq' = TRUE
  /\ UNCHANGED <<cancelReq, latches, pc, graph, report, history>>

ResumeTask ==
  /\ ctrl = "paused"
  /\ ctrl' = "running"
  /\ UNCHANGED <<pauseReq, cancelReq, latches, pc, graph, report, history>>

RequestCancel ==
  /\ ctrl \in {"running", "pausing", "paused"}
  /\ ctrl' = "cancelling"
  /\ cancelReq' = TRUE
  /\ afterCancel' = 0
  /\ UNCHANGED <<pauseReq, latches, pc, graph, report, afterStop, runs>>

\* /computer/control/emergency-stop and the remote stop; only a RUNNING task
\* is marked.  The remote stop sets the controller's latch too, just before.
EmergencyStop ==
  /\ stop' = TRUE
  /\ ctrl' = IF ctrl = "running" THEN "interrupted" ELSE ctrl
  /\ afterStop' = IF stop THEN afterStop ELSE 0
  /\ UNCHANGED <<pauseReq, cancelReq, halted, pc, graph, report, afterCancel, runs>>

Release ==
  /\ stop
  /\ stop' = FALSE
  /\ UNCHANGED <<ctx, halted, pc, graph, report, history>>

\* /computer/stop and /computer/release, and the remote ones on the way.
Halt ==
  /\ halted' = ~halted
  /\ UNCHANGED <<ctx, stop, pc, graph, report, history>>

-----------------------------------------------------------------------------
(* ComputerAgent.run *)

Goto(label) == pc' = label

\* register_task overwrites whatever context the id has.
Register ==
  /\ pc = "idle" /\ runs < MaxRuns
  /\ runs' = runs + 1
  /\ ctrl' = "running" /\ pauseReq' = FALSE /\ cancelReq' = FALSE
  /\ report' = "none"
  /\ replans' = 0
  /\ Goto("registered")
  /\ UNCHANGED <<latches, cur, attempt, moves, afterStop, afterCancel>>

\* With the stop set the run returns at once and leaves its registration.
Refuse ==
  /\ pc = "registered" /\ stop
  /\ Goto("idle")
  /\ UNCHANGED <<ctx, latches, graph, report, history>>

Admit ==
  /\ pc = "registered" /\ ~stop
  /\ Goto("enter")
  /\ UNCHANGED <<ctx, latches, graph, report, history>>

\* VisualStateMachine.run begins.
Enter ==
  /\ pc = "enter"
  /\ IF stop THEN /\ report' = "stopped" /\ Goto("decide")
                  /\ UNCHANGED graph
     ELSE /\ Goto("boundary")
          /\ cur' = 1 /\ attempt' = 0 /\ moves' = 0
          /\ UNCHANGED <<replans, report>>
  /\ UNCHANGED <<ctx, latches, history>>

End(result) == report' = result /\ Goto("decide")

-----------------------------------------------------------------------------
(* VisualStateMachine.run: the boundary between two states *)

\* Fault: transitions are not counted.
BoundaryUncounted ==
  /\ pc = "boundary"
  /\ IF stop THEN End("stopped") ELSE Goto("cancel?") /\ UNCHANGED report
  /\ UNCHANGED <<ctx, latches, graph, history>>

\* Fault: the stop is read when a run begins, and not between its states.
BoundaryBlind ==
  /\ pc = "boundary"
  /\ IF moves = MaxMoves THEN End("failed") /\ UNCHANGED moves
     ELSE Goto("cancel?") /\ moves' = moves + 1 /\ UNCHANGED report
  /\ UNCHANGED <<ctx, latches, cur, attempt, replans, history>>

Boundary ==
  /\ pc = "boundary"
  /\ CASE moves = MaxMoves -> End("failed") /\ UNCHANGED moves
       [] moves < MaxMoves /\ stop -> End("stopped") /\ moves' = moves + 1
       [] OTHER -> /\ Goto("cancel?") /\ moves' = moves + 1
                   /\ UNCHANGED report
  /\ UNCHANGED <<ctx, latches, cur, attempt, replans, history>>

\* Fault: a cancel is noticed only while the task is paused.
CheckCancelNever ==
  /\ pc = "cancel?"
  /\ Goto("pause?")
  /\ UNCHANGED <<ctx, latches, graph, report, history>>

CheckCancel ==
  /\ pc = "cancel?"
  /\ Goto(IF cancelReq THEN "confirmCancel" ELSE "pause?")
  /\ UNCHANGED <<ctx, latches, graph, report, history>>

ConfirmCancel ==
  /\ pc = "confirmCancel"
  /\ ctrl' = "cancelled"
  /\ cancelReq' = FALSE
  /\ End("cancelled")
  /\ UNCHANGED <<pauseReq, latches, graph, history>>

CheckPause ==
  /\ pc = "pause?"
  /\ Goto(IF pauseReq THEN "confirmPause" ELSE "begin")
  /\ UNCHANGED <<ctx, latches, graph, report, history>>

\* Fault: the request survives the pause it asked for.
ConfirmPauseKeepsRequest ==
  /\ pc = "confirmPause"
  /\ ctrl' = "paused"
  /\ Goto("waiting")
  /\ UNCHANGED <<pauseReq, cancelReq, latches, graph, report, history>>

\* Whatever the control state is by now.
ConfirmPause ==
  /\ pc = "confirmPause"
  /\ ctrl' = "paused"
  /\ pauseReq' = FALSE
  /\ Goto("waiting")
  /\ UNCHANGED <<cancelReq, latches, graph, report, history>>

\* while is_task_paused: ...; afterwards the stop is read once more.
Waiting ==
  /\ pc = "waiting"
  /\ IF ctrl = "paused" THEN Goto("woken") /\ UNCHANGED report
     ELSE IF stop THEN End("stopped")
     ELSE Goto("begin") /\ UNCHANGED report
  /\ UNCHANGED <<ctx, latches, graph, history>>

\* After a second of sleep: the stop, then a cancel request.
Woken ==
  /\ pc = "woken"
  /\ IF stop THEN End("stopped")
     ELSE /\ Goto(IF cancelReq THEN "confirmCancel" ELSE "waiting")
          /\ UNCHANGED report
  /\ UNCHANGED <<ctx, latches, graph, history>>

-----------------------------------------------------------------------------
(* VisualStateMachine.run: one state *)

\* The boundary is behind: a terminal state ends the run, another one begins.
Begin ==
  /\ pc = "begin"
  /\ IF cur > Steps
     THEN /\ End(IF cur = Success THEN "done" ELSE "failed")
          /\ UNCHANGED <<attempt, afterStop, afterCancel>>
     ELSE /\ Goto("act")
          /\ attempt' = 1
          /\ afterStop' = IF stop THEN afterStop + 1 ELSE afterStop
          /\ afterCancel' = IF cancelReq THEN afterCancel + 1 ELSE afterCancel
          /\ UNCHANGED report
  /\ UNCHANGED <<ctx, latches, cur, moves, replans, runs>>

\* _failure_transition: the plan's on_failure, unless there is none or a loop.
Fallback ==
  IF OnFailure[cur] \in {0, cur} THEN End("failed") /\ UNCHANGED cur
  ELSE cur' = OnFailure[cur] /\ Goto("boundary") /\ UNCHANGED report

\* A precondition, or the condition of a state without action, never shows.
NotReached ==
  /\ pc = "act" /\ attempt = 1
  /\ Fallback
  /\ UNCHANGED <<ctx, latches, attempt, moves, replans, history>>

\* The action is done and verified; a plan goes on with its next state.
Succeed ==
  /\ pc = "act" /\ ~halted
  /\ cur' = cur + 1
  /\ Goto("boundary")
  /\ UNCHANGED <<ctx, latches, attempt, moves, replans, report, history>>

\* It fails (at the gate, when halted) and is not to be tried again.
FailState ==
  /\ pc = "act"
  /\ Fallback
  /\ UNCHANGED <<ctx, latches, attempt, moves, replans, history>>

\* Fault: one attempt too many.
RetryOnceMore ==
  /\ pc = "act" /\ attempt <= MaxRetries + 1
  /\ \/ Goto("repair") /\ UNCHANGED attempt
     \/ attempt' = attempt + 1 /\ UNCHANGED pc
  /\ UNCHANGED <<ctx, latches, cur, moves, replans, report, history>>

\* It fails and is tried again, with a repair or without one.
Retry ==
  /\ pc = "act" /\ attempt <= MaxRetries
  /\ \/ Goto("repair") /\ UNCHANGED attempt
     \/ attempt' = attempt + 1 /\ UNCHANGED pc
  /\ UNCHANGED <<ctx, latches, cur, moves, replans, report, history>>

\* _execute_repair: the original action is replayed only after a good repair.
Repair ==
  /\ pc = "repair"
  /\ \/ /\ ~halted
        /\ attempt' = attempt + 1 /\ Goto("act")
        /\ UNCHANGED <<cur, report>>
     \/ Fallback /\ UNCHANGED attempt
  /\ UNCHANGED <<ctx, latches, moves, replans, history>>

-----------------------------------------------------------------------------
(* ComputerAgent.run: replanning and the end *)

\* Cancel and stop are looked at once, before the first replan.
MayReplan ==
  /\ report \in {"failed", "cancelled", "stopped"}
  /\ replans = 0 => report = "failed" /\ ~cancelReq /\ ~stop
  /\ replans + 1 < MaxReplans

Replan ==
  /\ pc = "decide" /\ MayReplan
  /\ replans' = replans + 1
  /\ Goto("enter")
  /\ UNCHANGED <<ctx, latches, cur, attempt, moves, report, history>>

\* complete_task and unregister_task; a replan may also come up with nothing.
Finish ==
  /\ pc = "decide"
  /\ ctrl' = "none" /\ pauseReq' = FALSE /\ cancelReq' = FALSE
  /\ Goto("idle")
  /\ UNCHANGED <<latches, graph, report, history>>

Work ==
  \/ Refuse \/ Admit \/ Enter \/ Boundary \/ CheckCancel \/ ConfirmCancel
  \/ CheckPause \/ ConfirmPause \/ Waiting \/ Woken \/ Begin \/ NotReached
  \/ Succeed \/ FailState \/ Retry \/ Repair \/ Replan \/ Finish

Next ==
  \/ Work \/ Register
  \/ RequestPause \/ ResumeTask \/ RequestCancel
  \/ EmergencyStop \/ Release \/ Halt

\* The task's thread goes on: actions, watchers and planner have time limits.
Spec == Init /\ [][Next]_vars /\ WF_vars(Work)

-----------------------------------------------------------------------------
(* Properties *)

\* Every variable keeps its type; a state is tried no more often than its
\* retries allow, and transitions and replans stay within their limits.
TypeOK ==
  /\ ctrl \in {"none", "running", "pausing", "paused", "cancelling",
               "cancelled", "interrupted"}
  /\ pauseReq \in BOOLEAN /\ cancelReq \in BOOLEAN
  /\ stop \in BOOLEAN /\ halted \in BOOLEAN
  /\ pc \in {"idle", "registered", "enter", "boundary", "cancel?", "pause?",
             "confirmCancel", "confirmPause", "waiting", "woken", "begin",
             "act", "repair", "decide"}
  /\ cur \in 1..Failure
  /\ attempt \in 0..MaxRetries + 1
  /\ moves \in 0..MaxMoves
  /\ replans \in Nat /\ (replans = 0 \/ replans < MaxReplans)
  /\ report \in {"none", "done", "failed", "cancelled", "stopped"}
  /\ runs \in 0..MaxRuns

\* The thread touches the desktop: an action or a repair step is carried out.
Acts == ~halted /\ (Succeed \/ Retry \/ Repair)

\* While the stop stays set the thread begins at most one more state: the one
\* whose boundary check it had already passed.
StopHolds == stop => afterStop <= 1

\* A cancel request that waits for its confirmation lets at most one more
\* state begin, paused or not, in the first plan or in a replanned one.
CancelHolds == cancelReq => afterCancel <= 1

\* A failing task comes to an end although on_failure may lead back to an
\* earlier state: retries, transitions and replans are all bounded, and only a
\* pause may hold it.
TaskEnds == (pc # "idle") ~> (pc = "idle" \/ ctrl = "paused")

\* A pause request is used up by one pause or by the end of the task.
PauseAnswered == (pc # "idle" /\ pauseReq) ~> (~pauseReq \/ pc = "idle")

\* "Cancel = terminate task and mark it cancelled": a task that is marked
\* cancelled touches the desktop no more.
CancelIsFinal == [][Acts => ctrl # "cancelled"]_vars
=============================================================================
