------------------------------ MODULE Mission ------------------------------
(***************************************************************************)
(* The life of one mission (core/mission.py, core/agent_dag.py): the       *)
(* report on disk, the engine threads that run it and the caller that      *)
(* extends its budget.                                                     *)
(*                                                                         *)
(* An engine loads the report once and then works on its own copy, rep[e], *)
(* with the stage graph beside it, dag[e]; every save overwrites the file  *)
(* with the whole copy.  start_mission makes the file, resume_mission and  *)
(* extend_budget read it in one step and write it in a later one.          *)
(*                                                                         *)
(* The stages of a mission form a chain.  PENDING and READY are one status *)
(* here, "todo": no line of the code tells them apart.  A report without a *)
(* dag_state stands for one whose stages are all to do, which is how       *)
(* resume_mission reads it.  Verifier, critic and stage executor answer    *)
(* anything they can answer.                                               *)
(***************************************************************************)
EXTENDS Integers, FiniteSets

CONSTANTS
  Engines,       \* threads that may run the mission
  N,             \* number of stages
  InitialSteps,  \* budget_steps (48)
  MaxRounds,     \* max_rounds of one execute_dag call (15)
  MaxRepairs,    \* max_repairs (3)
  MaxExtensions, \* max_extensions (2)
  MaxEmergency,  \* max_emergency_extensions (2)
  AutoSteps,     \* steps of an automatic extension (10)
  RestartSteps,  \* steps a restart adds (8)
  ExtendSteps,   \* steps a caller of extend_budget asks for (10)
  MaxUnfunded,   \* bound: resumes of one report that are granted nothing on request
  SavesFail      \* whether a save may fail (it is reported and skipped)

ASSUME MissionAssumption ==
  /\ {N, InitialSteps, MaxRounds, AutoSteps, RestartSteps, ExtendSteps}
       \subseteq Nat \ {0}
  /\ {MaxRepairs, MaxExtensions, MaxEmergency, MaxUnfunded} \subseteq Nat
  /\ SavesFail \in BOOLEAN

VARIABLES
  disk,    \* the report in the mission file
  pc,      \* engine -> where its run stands
  rep,     \* engine -> its copy of the report
  dag,     \* engine -> status of each stage in its graph
  rounds,  \* engine -> rounds of the present execute_dag call
  prev,    \* engine -> prev_completed
  resumed, \* engine -> whether resume_mission runs it
  cancel,  \* engine -> should_cancel() is true
  edit     \* the report extend_budget has loaded and changed, in a set

vars == <<disk, pc, rep, dag, rounds, prev, resumed, cancel, edit>>

Stages == 1..N
Phases == {"planning", "execution", "verification", "repair", "emergency"}
Todo == [n \in Stages |-> "todo"]
Deps(n) == {n - 1} \cap Stages
Done(d) == {n \in Stages : d[n] = "completed"}
AllDone(d) == Done(d) = Stages

-----------------------------------------------------------------------------
(* The budget *)

Share == [planning |-> 8, execution |-> 55, verification |-> 12,
          repair |-> 20, emergency |-> 5]
Minimum == [planning |-> 1, execution |-> 4, verification |-> 2,
            repair |-> 1, emergency |-> 1]

\* Python's round(): x hundredths to the nearest integer, ties to even.
Rounded(x) ==
  LET q == x \div 100
      r == x % 100
  IN IF r > 50 \/ (r = 50 /\ q % 2 = 1) THEN q + 1 ELSE q

AtLeast(a, b) == IF a >= b THEN a ELSE b
Alloc(total) ==
  [p \in Phases |-> AtLeast(Minimum[p], Rounded(total * Share[p]))]

\* unfunded is history: the times the mission was resumed with its budget used
\* up and a caller who asked for 0 steps.
NewBudget(steps) ==
  [initial |-> steps, bonus |-> 0, consumed |-> 0, repairs |-> 0, ext |-> 0,
   emer |-> 0, unfunded |-> 0, limit |-> Alloc(steps), used |-> [p \in Phases |-> 0]]

Total(b) == b.initial + b.bonus
Out(b) == b.consumed >= Total(b)
Exhausted(b, p) == b.limit[p] <= b.used[p]

\* __post_init__ allocates again whenever a report is read.
Reload(b) ==
  LET fresh == Alloc(Total(b))
  IN [b EXCEPT !.limit = [p \in Phases |-> AtLeast(@[p], fresh[p])]]

\* A phase that runs dry borrows from the reserve, or is overdrawn.
Spend(b, p, s) ==
  LET short == b.limit[p] - b.used[p] < s
      lent  == IF short /\ b.limit["emergency"] - b.used["emergency"] >= s
               THEN s ELSE 0
  IN [b EXCEPT !.limit["emergency"] = @ - lent,
               !.limit[p] = @ + lent,
               !.used[p] = @ + s,
               !.consumed = @ + s]

GrantExtension(b, s) ==
  LET exec == AtLeast(1, (s * 6) \div 10)
  IN [b EXCEPT !.ext = @ + 1, !.bonus = @ + s,
               !.limit["execution"] = @ + exec,
               !.limit["emergency"] = @ + AtLeast(1, s - exec)]

GrantEmergency(b, s) ==
  IF b.emer >= MaxEmergency THEN b
  ELSE [b EXCEPT !.emer = @ + 1, !.bonus = @ + s,
                 !.limit["emergency"] = @ + s]

\* What resume_mission adds: a slot, else the reserve, else nothing.
GrantAny(b, s) ==
  IF b.ext < MaxExtensions THEN GrantExtension(b, s) ELSE GrantEmergency(b, s)

\* Fault: every failure is restartable.
HasSlotAlways(b) == TRUE
HasSlot(b) == b.ext < MaxExtensions \/ b.emer < MaxEmergency

-----------------------------------------------------------------------------
(* The report *)

Report(state, d, b) ==
  [state |-> state, dag |-> d, budget |-> b, recoverable |-> TRUE]

NoReport == Report("none", Todo, NewBudget(InitialSteps))
Terminal == {"completed", "cancelled"}
Set(e, r) == rep' = [rep EXCEPT ![e] = r]

\* _save_mission: the whole report, or nothing when the write fails.
Save(r) == disk' = r \/ (SavesFail /\ disk' = disk)

Init ==
  /\ disk = NoReport
  /\ pc = [e \in Engines |-> "idle"]
  /\ rep = [e \in Engines |-> NoReport]
  /\ dag = [e \in Engines |-> Todo]
  /\ rounds = [e \in Engines |-> 0]
  /\ prev = [e \in Engines |-> -1]
  /\ resumed = [e \in Engines |-> FALSE]
  /\ cancel = [e \in Engines |-> FALSE]
  /\ edit = {}

Goto(e, label) == pc' = [pc EXCEPT ![e] = label]

\* The call returns: its copies are gone.
Return(e) ==
  /\ Goto(e, "idle")
  /\ Set(e, NoReport)
  /\ dag' = [dag EXCEPT ![e] = Todo]
  /\ rounds' = [rounds EXCEPT ![e] = 0]
  /\ prev' = [prev EXCEPT ![e] = -1]
  /\ resumed' = [resumed EXCEPT ![e] = FALSE]
  /\ cancel' = [cancel EXCEPT ![e] = FALSE]

\* _run_autonomous_loop begins: planning is charged, after the caller's save.
Enter(e, r, d, isResume) ==
  /\ Save(r)
  /\ Set(e, [r EXCEPT !.budget = Spend(@, "planning", 1)])
  /\ dag' = [dag EXCEPT ![e] = d]
  /\ resumed' = [resumed EXCEPT ![e] = isResume]
  /\ Goto(e, "top")
  /\ UNCHANGED <<rounds, prev, cancel, edit>>

Start(e) ==
  /\ disk.state = "none"
  /\ \A f \in Engines : pc[f] = "idle"
  /\ Enter(e, Report("planning", Todo, NewBudget(InitialSteps)), Todo, FALSE)

\* Pre-flight finds an approval missing: the mission is recorded, not run.
StartBlocked(e) ==
  /\ disk.state = "none"
  /\ \A f \in Engines : pc[f] = "idle"
  /\ Save(Report("blocked", Todo, NewBudget(0)))
  /\ UNCHANGED <<pc, rep, dag, rounds, prev, resumed, cancel, edit>>

-----------------------------------------------------------------------------
(* _run_autonomous_loop *)

\* The end of the loop: budget or repairs exhausted.
Fail(e) ==
  /\ Save([rep[e] EXCEPT !.state = "failed",
                         !.recoverable = HasSlot(rep[e].budget)])
  /\ Return(e)
  /\ UNCHANGED edit

OutOfBudget(e) == pc[e] = "top" /\ Out(rep[e].budget) /\ Fail(e)

Cancelled(e) ==
  /\ pc[e] = "top" /\ ~Out(rep[e].budget)
  /\ cancel[e]
  /\ Save([rep[e] EXCEPT !.state = "cancelled"])
  /\ Return(e)
  /\ UNCHANGED edit

Execute(e) ==
  /\ pc[e] = "top" /\ ~Out(rep[e].budget)
  /\ ~cancel[e]
  /\ Set(e, [rep[e] EXCEPT !.state = "executing"])
  /\ Save(rep'[e])
  /\ rounds' = [rounds EXCEPT ![e] = 0]
  /\ Goto(e, "dag")
  /\ UNCHANGED <<dag, prev, resumed, cancel, edit>>

\* Fault: a stage runs once those before it have ended, however they ended.
ReadyAfterAnyEnd(d) ==
  {n \in Stages : d[n] = "todo" /\ \A m \in Deps(n) : d[m] # "todo"}

\* get_ready_nodes: the stages to run, and those a failed one rules out.
Ready(d) ==
  {n \in Stages : d[n] = "todo" /\ \A m \in Deps(n) : d[m] = "completed"}
RuledOut(d) ==
  {n \in Stages : d[n] = "todo"
                  /\ \E m \in Deps(n) : d[m] \in {"failed", "blocked"}}

\* One round of execute_dag; no stage has retries left (max_retries = 0).
\* Once should_cancel() holds, the executor answers "cancelled" at once.
Round(e) ==
  /\ pc[e] = "dag"
  /\ \E out \in [Ready(dag[e]) -> IF cancel[e] THEN {"failed"}
                                  ELSE {"completed", "failed", "blocked"}] :
       dag' = [dag EXCEPT ![e] = [n \in Stages |->
                 CASE n \in Ready(@) -> out[n]
                   [] n \in RuledOut(@) -> "skipped"
                   [] OTHER -> @[n]]]
  /\ rounds' = [rounds EXCEPT ![e] = @ + 1]
  /\ IF Ready(dag[e]) = {} \/ rounds'[e] = MaxRounds
     THEN Goto(e, "account") ELSE UNCHANGED pc
  /\ UNCHANGED <<disk, rep, prev, resumed, cancel, edit>>

\* Fault: dag_state is not refreshed after the round.
AccountStale(e) ==
  /\ pc[e] = "account"
  /\ Set(e, [rep[e] EXCEPT
       !.budget = Spend(@, "execution", AtLeast(1, Cardinality(Done(dag[e]))))])
  /\ Save(rep'[e])
  /\ Goto(e, "assess")
  /\ UNCHANGED <<dag, rounds, prev, resumed, cancel, edit>>

Account(e) ==
  /\ pc[e] = "account"
  /\ Set(e, [rep[e] EXCEPT
       !.budget = Spend(@, "execution", AtLeast(1, Cardinality(Done(dag[e])))),
       !.dag = dag[e]])
  /\ Save(rep'[e])
  /\ Goto(e, "assess")
  /\ UNCHANGED <<dag, rounds, prev, resumed, cancel, edit>>

\* More stages than in the round before: one more extension, if there is one.
Extended(e) ==
  LET b == rep[e].budget
  IN IF prev[e] >= 0 /\ Cardinality(Done(dag[e])) > prev[e]
        /\ b.ext < MaxExtensions
     THEN [rep[e] EXCEPT !.budget = GrantExtension(b, AutoSteps)]
     ELSE rep[e]

IsBlocked(e) == \E n \in Stages : dag[e][n] = "blocked"

Block(e) ==
  /\ pc[e] = "assess" /\ IsBlocked(e)
  /\ Save([Extended(e) EXCEPT !.state = "blocked"])
  /\ Return(e)
  /\ UNCHANGED edit

Observe(e) ==
  /\ pc[e] = "assess" /\ ~IsBlocked(e)
  /\ Set(e, [Extended(e) EXCEPT !.state = "verifying",
                                !.budget = Spend(@, "verification", 1)])
  /\ prev' = [prev EXCEPT ![e] = Cardinality(Done(dag[e]))]
  /\ Goto(e, "verify")
  /\ UNCHANGED <<disk, dag, rounds, resumed, cancel, edit>>

\* Verifier and critic are satisfied and every stage is completed.
Complete(e) ==
  /\ pc[e] = "verify"
  /\ AllDone(dag[e])
  /\ Save([rep[e] EXCEPT !.state = "completed"])
  /\ Return(e)
  /\ UNCHANGED edit

CountRepair(b) == [b EXCEPT !.repairs = @ + 1]
CanRepair(b) == b.repairs < MaxRepairs /\ ~Exhausted(b, "repair")

\* The repaired graph is in memory only: dag_state keeps the graph that failed.
Repair(e) ==
  /\ pc[e] = "verify"
  /\ CanRepair(rep[e].budget)
  /\ Set(e, [rep[e] EXCEPT !.state = "planning",
        !.budget = Spend(CountRepair(@), "repair", 1)])
  /\ Save(rep'[e])
  /\ dag' = [dag EXCEPT ![e] = Todo]
  /\ Goto(e, "top")
  /\ UNCHANGED <<rounds, prev, resumed, cancel, edit>>

GiveUp(e) == pc[e] = "verify" /\ ~CanRepair(rep[e].budget) /\ Fail(e)

\* The verifier raises: start_mission records it, resume_mission does not.
Raise(e) ==
  /\ pc[e] = "verify"
  /\ IF resumed[e] THEN UNCHANGED disk
     ELSE Save([rep[e] EXCEPT !.state = "failed", !.recoverable = TRUE])
  /\ Return(e)
  /\ UNCHANGED edit

-----------------------------------------------------------------------------
(* The callers *)

Cancel(e) ==
  /\ pc[e] # "idle" /\ ~resumed[e]
  /\ cancel' = [cancel EXCEPT ![e] = TRUE]
  /\ UNCHANGED <<disk, pc, rep, dag, rounds, prev, resumed, edit>>

\* Fault: a cancelled mission can be resumed.
ResumableCancelled(r, restart) ==
  /\ r.state \notin {"none", "completed"}
  /\ r.state = "failed" => restart /\ r.recoverable
Resumable(r, restart) ==
  /\ r.state \notin Terminal \cup {"none"}
  /\ r.state = "failed" => restart /\ r.recoverable

\* Fault: skipped stages stay skipped.
RedoNotSkipped(status) ==
  IF status \in {"blocked", "failed"} THEN "todo" ELSE status
Redo(status) == IF status \in {"blocked", "failed", "skipped"} THEN "todo"
                ELSE status

\* What resume_mission adds for steps: "some", 0, or none named (None), which
\* means RestartSteps where the mission has failed or has nothing left.
Funded(b, steps, failed) ==
  CASE steps = "some" \/ (steps = "none" /\ (failed \/ Out(b))) -> GrantAny(b, RestartSteps)
    [] steps = "zero" /\ Out(b) -> [b EXCEPT !.unfunded = @ + 1]
    [] OTHER -> b

Resume(e) ==
  \E restart \in BOOLEAN, steps \in {"none", "zero", "some"} :
    LET failed == disk.state = "failed"
        b == Funded(Reload(disk.budget), steps, failed)
        d == [n \in Stages |-> Redo(disk.dag[n])]
    IN /\ pc[e] = "idle"
       /\ Resumable(disk, restart)
       /\ b.unfunded <= MaxUnfunded
       /\ Enter(e, [disk EXCEPT !.state = "continuing",
                                !.recoverable = @ \/ failed,
                                !.budget = b],
                d, TRUE)

\* The engine's process dies.
Kill(e) == pc[e] # "idle" /\ Return(e) /\ UNCHANGED <<disk, edit>>

\* extend_budget reads the report and changes its copy ...
ExtendLoad ==
  \E emergency \in BOOLEAN :
    LET b == Reload(disk.budget)
    IN /\ edit = {}
       /\ disk.state \notin {"none", "completed"}
       /\ IF emergency THEN b.emer < MaxEmergency ELSE b.ext < MaxExtensions
       /\ edit' = {[disk EXCEPT
             !.recoverable = @ \/ disk.state = "failed",
             !.budget = IF emergency THEN GrantEmergency(b, ExtendSteps)
                        ELSE GrantExtension(b, ExtendSteps)]}
       /\ UNCHANGED <<disk, pc, rep, dag, rounds, prev, resumed, cancel>>

\* ... and writes it, whatever the file holds by now.
ExtendSave ==
  /\ \E r \in edit : Save(r)
  /\ edit' = {}
  /\ UNCHANGED <<pc, rep, dag, rounds, prev, resumed, cancel>>

Next ==
  \/ \E e \in Engines :
       \/ Start(e) \/ StartBlocked(e) \/ Resume(e) \/ Cancel(e) \/ Kill(e)
       \/ OutOfBudget(e) \/ Cancelled(e) \/ Execute(e) \/ Round(e) \/ Account(e)
       \/ Block(e) \/ Observe(e) \/ Complete(e) \/ Repair(e) \/ GiveUp(e) \/ Raise(e)
  \/ ExtendLoad
  \/ ExtendSave

Spec == Init /\ [][Next]_vars

-----------------------------------------------------------------------------
(* Properties *)

\* The reports that exist: on disk, in an engine, in an extender's hands.
Copies == {disk} \cup {rep[e] : e \in Engines} \cup edit

\* The loop tests its bound once a turn, so a mission overspends by at most
\* the stages of one turn, its verification and its repair, and by one planning
\* step of a resume that finds no extension left, or one for each resume that
\* asked for 0 steps when nothing was left: however often it is killed, resumed,
\* restarted and extended, nothing else of it adds up.
OverspendBounded ==
  \A r \in Copies :
    r.budget.consumed <= Total(r.budget) + N + 1 + AtLeast(1, r.budget.unfunded)

\* A stage is completed only on the results of the stages it depends on: in
\* every graph, persisted or not, through skips, repairs and resumes.
StageAfterItsInputs ==
  \A d \in {dag[e] : e \in Engines} \cup {r.dag : r \in Copies} :
    \A n \in Done(d) : Deps(n) \subseteq Done(d)

\* A report says completed only if its own dag_state shows every stage done,
\* although a repair leaves dag_state behind the graph in memory.
CompletedMeansAllStages ==
  \A r \in Copies : r.state = "completed" => AllDone(r.dag)

\* A final verdict on disk is overwritten only by somebody who read the file
\* before it was written and still holds that copy.
VerdictOutlivesReaders ==
  [][ disk.state \in Terminal /\ disk' # disk
      => edit # {} \/ \E e \in Engines : pc[e] # "idle" ]_vars

\* When execute_dag has run out of ready stages, every stage is completed or
\* there is one that says why not: no skipped stage is left for nobody to run.
NoStageStranded ==
  \A e \in Engines :
    pc[e] = "account" /\ N < MaxRounds
    => AllDone(dag[e]) \/ \E n \in Stages : dag[e][n] \in {"failed", "blocked"}
=============================================================================
