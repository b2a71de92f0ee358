------------------------- MODULE ComputerTaskProofs -------------------------
(***************************************************************************)
(* Proofs about ComputerTask, for any plan, any on_failure and any limits: *)
(* how far a task gets after a stop or after a cancel request.             *)
(***************************************************************************)
EXTENDS ComputerTask, TLAPS

\* The number of transitions a run may make.
LEMMA LimitIsNat == MaxMoves \in Nat /\ Steps \in Nat \ {0}
<1>1. Steps \in Nat \ {0} /\ MaxRetries \in Nat
  BY TaskAssumption
<1>2. (Steps + 2) * (MaxRetries + 2) \in Nat
  BY <1>1
<1> QED  BY <1>1, <1>2 DEF MaxMoves

-----------------------------------------------------------------------------
(* Types *)

\* Only a planned state has an action to try, and a repair a retry to follow.
Acting ==
  /\ pc \in {"act", "repair"} => cur \in 1..Steps
  /\ pc = "repair" => attempt <= MaxRetries

TaskInv == TypeOK /\ Acting

\* The plan leads from a state to another one of the plan.
LEMMA FallbackOK ==
  ASSUME TaskInv, pc \in {"act", "repair"}, Fallback
  PROVE  /\ cur' \in 1..Failure /\ pc' \in {"decide", "boundary"}
         /\ report' \in {"none", "done", "failed", "cancelled", "stopped"}
<1>1. cur \in 1..Steps /\ Failure = Steps + 2 /\ Steps \in Nat
  BY LimitIsNat DEF TaskInv, Acting, Failure
<1>2. OnFailure[cur] \in 0..Failure
  BY <1>1, TaskAssumption
<1>3. CASE OnFailure[cur] \in {0, cur}
  BY <1>1, <1>3 DEF Fallback, End, Goto, TaskInv, TypeOK
<1>4. CASE OnFailure[cur] \notin {0, cur}
  <2>1. cur' = OnFailure[cur] /\ pc' = "boundary" /\ report' = report
    BY <1>4 DEF Fallback, Goto
  <2> QED  BY <1>1, <1>2, <1>4, <2>1 DEF TaskInv, TypeOK
<1> QED  BY <1>3, <1>4

LEMMA TypeInit == Init => TaskInv
<1>1. /\ MaxMoves \in Nat /\ Steps \in Nat \ {0} /\ MaxRetries \in Nat
      /\ MaxReplans \in Nat /\ MaxRuns \in Nat /\ Failure = Steps + 2
  BY LimitIsNat, TaskAssumption DEF Failure
<1> SUFFICES ASSUME Init PROVE TaskInv
  OBVIOUS
<1>2. /\ pauseReq \in BOOLEAN /\ cancelReq \in BOOLEAN
      /\ stop \in BOOLEAN /\ halted \in BOOLEAN
  BY DEF Init
<1>3. /\ cur = 1 /\ attempt = 0 /\ moves = 0 /\ replans = 0 /\ runs = 0
      /\ ctrl = "none" /\ pc = "idle" /\ report = "none"
  BY DEF Init
<1> QED  BY <1>1, <1>2, <1>3 DEF TaskInv, TypeOK, Acting

LEMMA TypeStep ==
  ASSUME TaskInv, [Next]_vars
  PROVE  TaskInv'
<1> USE DEF TaskInv, TypeOK, Acting, ctx, latches, graph, history, Goto, End
<1>0. /\ MaxMoves \in Nat /\ Steps \in Nat \ {0} /\ MaxRetries \in Nat
      /\ MaxReplans \in Nat /\ MaxRuns \in Nat /\ Failure = Steps + 2
  BY LimitIsNat, TaskAssumption DEF Failure
<1>1. CASE UNCHANGED vars
  BY <1>1 DEF vars
<1>2. CASE RequestPause
  BY <1>0, <1>2 DEF RequestPause
<1>3. CASE ResumeTask
  BY <1>0, <1>3 DEF ResumeTask
<1>4. CASE RequestCancel
  BY <1>0, <1>4 DEF RequestCancel
<1>5. CASE EmergencyStop
  BY <1>0, <1>5 DEF EmergencyStop
<1>6. CASE Release
  <2>1. stop' \in BOOLEAN /\ UNCHANGED <<ctx, halted, pc, graph, report, history>>
    BY <1>6 DEF Release
  <2> QED  BY <2>1
<1>7. CASE Halt
  BY <1>0, <1>7 DEF Halt
<1>8. CASE Register
  <2>1. pauseReq' \in BOOLEAN /\ cancelReq' \in BOOLEAN /\ UNCHANGED latches
    BY <1>8 DEF Register
  <2>2. /\ runs < MaxRuns /\ runs' = runs + 1 /\ replans' = 0
        /\ ctrl' = "running" /\ report' = "none" /\ pc' = "registered"
        /\ UNCHANGED <<cur, attempt, moves>>
    BY <1>8 DEF Register
  <2> QED  BY <1>0, <2>1, <2>2
<1>9. CASE Refuse
  BY <1>0, <1>9 DEF Refuse
<1>10. CASE Admit
  BY <1>0, <1>10 DEF Admit
<1>11. CASE Enter
  BY <1>0, <1>11 DEF Enter
<1>12. CASE Boundary
  BY <1>0, <1>12 DEF Boundary
<1>13. CASE CheckCancel
  BY <1>0, <1>13 DEF CheckCancel
<1>14. CASE ConfirmCancel
  BY <1>0, <1>14 DEF ConfirmCancel
<1>15. CASE CheckPause
  BY <1>0, <1>15 DEF CheckPause
<1>16. CASE ConfirmPause
  BY <1>0, <1>16 DEF ConfirmPause
<1>17. CASE Waiting
  BY <1>0, <1>17 DEF Waiting
<1>18. CASE Woken
  BY <1>0, <1>18 DEF Woken
<1>19. CASE Begin
  BY <1>0, <1>19 DEF Begin
<1>20. CASE NotReached
  <2>1. pc = "act" /\ Fallback /\ UNCHANGED <<ctx, latches, attempt, moves, replans, history>>
    BY <1>20 DEF NotReached
  <2> QED  BY <1>0, <2>1, FallbackOK
<1>21. CASE FailState
  <2>1. pc = "act" /\ Fallback /\ UNCHANGED <<ctx, latches, attempt, moves, replans, history>>
    BY <1>21 DEF FailState
  <2> QED  BY <1>0, <2>1, FallbackOK
<1>22. CASE Succeed
  BY <1>0, <1>22 DEF Succeed
<1>23. CASE Retry
  BY <1>0, <1>23 DEF Retry
<1>24. CASE Repair
  <2>1. CASE Fallback /\ attempt' = attempt
    BY <1>0, <1>24, <2>1, FallbackOK DEF Repair
  <2>2. CASE pc' = "act" /\ attempt' = attempt + 1 /\ UNCHANGED <<cur, report>>
    <3>1. attempt <= MaxRetries
      BY <1>0, <1>24 DEF Repair
    <3> QED  BY <1>0, <1>24, <2>2, <3>1 DEF Repair
  <2> QED  BY <1>24, <2>1, <2>2 DEF Repair
<1>25. CASE Replan
  BY <1>0, <1>25 DEF Replan, MayReplan
<1>26. CASE Finish
  BY <1>0, <1>26 DEF Finish
<1> QED
  BY <1>1, <1>2, <1>3, <1>4, <1>5, <1>6, <1>7, <1>8, <1>9, <1>10, <1>11, <1>12, <1>13,
     <1>14, <1>15, <1>16, <1>17, <1>18, <1>19, <1>20, <1>21, <1>22, <1>23, <1>24, <1>25, <1>26
  DEF Next, Work

-----------------------------------------------------------------------------
(* The stop and the cancel request *)

\* Where the thread has its last look at the stop behind it.
PastStop == {"cancel?", "pause?", "confirmCancel", "confirmPause", "waiting",
             "woken", "begin"}

\* After a state that began under the stop the thread is kept from the others.
StopInv ==
  stop => /\ afterStop \in {0, 1}
          /\ afterStop = 1 => pc \notin PastStop

\* Likewise for the cancel request: it is read at the next boundary.
CancelInv ==
  cancelReq =>
    /\ afterCancel \in {0, 1}
    /\ afterCancel = 1 =>
         pc \notin {"pause?", "confirmPause", "waiting", "woken", "begin"}

LEMMA StopInit == Init => StopInv /\ CancelInv
  BY DEF Init, StopInv, CancelInv

LEMMA StopStep ==
  ASSUME TaskInv, StopInv, [Next]_vars
  PROVE  StopInv'
<1> USE DEF StopInv, PastStop, ctx, latches, graph, history, Goto, End
<1>1. CASE UNCHANGED vars
  BY <1>1 DEF vars
<1>2. CASE RequestPause
  BY <1>2 DEF RequestPause
<1>3. CASE ResumeTask
  BY <1>3 DEF ResumeTask
<1>4. CASE RequestCancel
  BY <1>4 DEF RequestCancel
<1>5. CASE EmergencyStop
  BY <1>5 DEF EmergencyStop
<1>6. CASE Release
  BY <1>6 DEF Release
<1>7. CASE Halt
  BY <1>7 DEF Halt
<1>8. CASE Register
  BY <1>8 DEF Register
<1>9. CASE Refuse
  BY <1>9 DEF Refuse
<1>10. CASE Admit
  BY <1>10 DEF Admit
<1>11. CASE Enter
  BY <1>11 DEF Enter
<1>12. CASE Boundary
  BY LimitIsNat, <1>12 DEF Boundary, TaskInv, TypeOK
<1>13. CASE CheckCancel
  BY <1>13 DEF CheckCancel
<1>14. CASE ConfirmCancel
  BY <1>14 DEF ConfirmCancel
<1>15. CASE CheckPause
  BY <1>15 DEF CheckPause
<1>16. CASE ConfirmPause
  BY <1>16 DEF ConfirmPause
<1>17. CASE Waiting
  BY <1>17 DEF Waiting
<1>18. CASE Woken
  BY <1>18 DEF Woken
<1>19. CASE Begin
  BY <1>19 DEF Begin
<1>20. CASE NotReached
  BY <1>20 DEF NotReached, Fallback
<1>21. CASE FailState
  BY <1>21 DEF FailState, Fallback
<1>22. CASE Succeed
  BY <1>22 DEF Succeed
<1>23. CASE Retry
  BY <1>23 DEF Retry
<1>24. CASE Repair
  BY <1>24 DEF Repair, Fallback
<1>25. CASE Replan
  BY <1>25 DEF Replan
<1>26. CASE Finish
  BY <1>26 DEF Finish
<1> QED
  BY <1>1, <1>2, <1>3, <1>4, <1>5, <1>6, <1>7, <1>8, <1>9, <1>10, <1>11, <1>12, <1>13,
     <1>14, <1>15, <1>16, <1>17, <1>18, <1>19, <1>20, <1>21, <1>22, <1>23, <1>24, <1>25, <1>26
  DEF Next, Work

LEMMA CancelStep ==
  ASSUME CancelInv, [Next]_vars
  PROVE  CancelInv'
<1> USE DEF CancelInv, ctx, latches, graph, history, Goto, End
<1>1. CASE UNCHANGED vars
  BY <1>1 DEF vars
<1>2. CASE RequestPause
  BY <1>2 DEF RequestPause
<1>3. CASE ResumeTask
  BY <1>3 DEF ResumeTask
<1>4. CASE RequestCancel
  BY <1>4 DEF RequestCancel
<1>5. CASE EmergencyStop
  BY <1>5 DEF EmergencyStop
<1>6. CASE Release
  BY <1>6 DEF Release
<1>7. CASE Halt
  BY <1>7 DEF Halt
<1>8. CASE Register
  BY <1>8 DEF Register
<1>9. CASE Refuse
  BY <1>9 DEF Refuse
<1>10. CASE Admit
  BY <1>10 DEF Admit
<1>11. CASE Enter
  BY <1>11 DEF Enter
<1>12. CASE Boundary
  BY <1>12 DEF Boundary
<1>13. CASE CheckCancel
  BY <1>13 DEF CheckCancel
<1>14. CASE ConfirmCancel
  BY <1>14 DEF ConfirmCancel
<1>15. CASE CheckPause
  BY <1>15 DEF CheckPause
<1>16. CASE ConfirmPause
  BY <1>16 DEF ConfirmPause
<1>17. CASE Waiting
  BY <1>17 DEF Waiting
<1>18. CASE Woken
  BY <1>18 DEF Woken
<1>19. CASE Begin
  BY <1>19 DEF Begin
<1>20. CASE NotReached
  BY <1>20 DEF NotReached, Fallback
<1>21. CASE FailState
  BY <1>21 DEF FailState, Fallback
<1>22. CASE Succeed
  BY <1>22 DEF Succeed
<1>23. CASE Retry
  BY <1>23 DEF Retry
<1>24. CASE Repair
  BY <1>24 DEF Repair, Fallback
<1>25. CASE Replan
  BY <1>25 DEF Replan
<1>26. CASE Finish
  BY <1>26 DEF Finish
<1> QED
  BY <1>1, <1>2, <1>3, <1>4, <1>5, <1>6, <1>7, <1>8, <1>9, <1>10, <1>11, <1>12, <1>13,
     <1>14, <1>15, <1>16, <1>17, <1>18, <1>19, <1>20, <1>21, <1>22, <1>23, <1>24, <1>25, <1>26
  DEF Next, Work

-----------------------------------------------------------------------------
(* The theorems *)

\* A task of any plan keeps its types and its limits: a state is tried no more
\* often than its retries allow, transitions and replans stay bounded.
THEOREM TaskTyped == Spec => []TypeOK
<1>1. TaskInv /\ [Next]_vars => TaskInv'
  BY TypeStep
<1>2. TaskInv => TypeOK
  BY DEF TaskInv
<1> QED  BY TypeInit, <1>1, <1>2, PTL DEF Spec

\* While the stop stays set the thread begins at most one more state.
THEOREM StopHoldsAlways == Spec => []StopHolds
<1>1. Init => TaskInv /\ StopInv
  BY TypeInit, StopInit
<1>2. TaskInv /\ StopInv /\ [Next]_vars => TaskInv' /\ StopInv'
  BY TypeStep, StopStep
<1>3. StopInv => StopHolds
  BY DEF StopInv, StopHolds
<1> QED  BY <1>1, <1>2, <1>3, PTL DEF Spec

\* A pending cancel request lets at most one more state begin.
THEOREM CancelHoldsAlways == Spec => []CancelHolds
<1>1. Init => CancelInv
  BY StopInit
<1>2. CancelInv /\ [Next]_vars => CancelInv'
  BY CancelStep
<1>3. CancelInv => CancelHolds
  BY DEF CancelInv, CancelHolds
<1> QED  BY <1>1, <1>2, <1>3, PTL DEF Spec
=============================================================================
