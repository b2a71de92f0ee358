---------------------------- MODULE MissionProofs ----------------------------
(***************************************************************************)
(* Proofs about Mission, for any number of engines and stages and any      *)
(* budget: what the stage graphs, persisted or not, say about the stages.  *)
(***************************************************************************)
EXTENDS Mission, FiniteSetTheorems, WellFoundedInduction, TLAPS

Status == {"todo", "completed", "failed", "blocked", "skipped"}

\* A graph whose completed stages have the results they depend on.
Chained(d) ==
  /\ d \in [Stages -> Status]
  /\ \A n \in Stages : d[n] = "completed" =>
       \A m \in Deps(n) : d[m] = "completed"

Fields == {"state", "dag", "budget", "recoverable"}
Sound(r) == DOMAIN r = Fields /\ Chained(r.dag)

\* What an engine holds; while it assesses and verifies, its copy of the report
\* has the stages of its graph.
Held(e) ==
  /\ Sound(rep[e]) /\ rep[e].state # "completed"
  /\ Chained(dag[e])
  /\ pc[e] \in {"assess", "verify"} => rep[e].dag = dag[e]

\* What a save may leave in the file.
Valid(r) == Sound(r) /\ (r.state = "completed" => AllDone(r.dag))

MissionInv ==
  /\ DOMAIN rep = Engines /\ DOMAIN dag = Engines /\ DOMAIN pc = Engines
  /\ \A e \in Engines : Held(e)
  /\ Valid(disk)
  /\ \A r \in edit : Sound(r) /\ r.state # "completed"

-----------------------------------------------------------------------------
(* Graphs and reports *)

LEMMA TodoChained == Chained(Todo)
  BY DEF Chained, Todo, Status, Deps

LEMMA NewReport ==
  ASSUME NEW s, NEW d, NEW b, Chained(d)
  PROVE  /\ Sound(Report(s, d, b)) /\ Report(s, d, b).state = s
         /\ Report(s, d, b).dag = d
  BY DEF Sound, Fields, Report

\* The fields the engine changes are not the graph.
LEMMA Changed ==
  ASSUME NEW r, Sound(r), NEW s, NEW b, NEW c
  PROVE  /\ Sound([r EXCEPT !.state = s])
         /\ [r EXCEPT !.state = s].state = s
         /\ [r EXCEPT !.state = s].dag = r.dag
         /\ Sound([r EXCEPT !.budget = b])
         /\ [r EXCEPT !.budget = b].state = r.state
         /\ [r EXCEPT !.budget = b].dag = r.dag
         /\ Sound([r EXCEPT !.recoverable = c])
         /\ [r EXCEPT !.recoverable = c].state = r.state
         /\ [r EXCEPT !.recoverable = c].dag = r.dag
  BY DEF Sound, Fields

\* A resume sends the stages that did not complete to be done again.
LEMMA RedoChained ==
  ASSUME NEW d, Chained(d)
  PROVE  Chained([n \in Stages |-> Redo(d[n])])
<1>1. \A n \in Stages : Redo(d[n]) \in Status
                        /\ (Redo(d[n]) = "completed" <=> d[n] = "completed")
  BY DEF Chained, Redo, Status
<1>2. \A n \in Stages : Deps(n) \subseteq Stages
  BY DEF Deps
<1> QED  BY <1>1, <1>2 DEF Chained

\* A round completes only stages that are ready, and reopens none.
LEMMA RoundChained ==
  ASSUME NEW d, Chained(d), NEW out \in [Ready(d) -> Status]
  PROVE  Chained([n \in Stages |-> CASE n \in Ready(d) -> out[n]
                                     [] n \in RuledOut(d) -> "skipped"
                                     [] OTHER -> d[n]])
<1> DEFINE new == [n \in Stages |-> CASE n \in Ready(d) -> out[n]
                                      [] n \in RuledOut(d) -> "skipped"
                                      [] OTHER -> d[n]]
<1>1. \A n \in Ready(d) : n \notin RuledOut(d)
  BY DEF Ready, RuledOut
<1>2. \A n \in Stages : Deps(n) \subseteq Stages
  BY DEF Deps
<1>3. \A n \in Stages : d[n] = "completed" => n \notin Ready(d) \cup RuledOut(d)
  BY DEF Ready, RuledOut
<1>4. \A n \in Stages :
        /\ n \in Ready(d) => new[n] = out[n]
        /\ n \in RuledOut(d) => new[n] = "skipped"
        /\ n \notin Ready(d) \cup RuledOut(d) => new[n] = d[n]
  BY <1>1
<1>5. new \in [Stages -> Status]
  BY <1>4 DEF Chained, Status
<1>6. ASSUME NEW n \in Stages, new[n] = "completed", NEW m \in Deps(n)
      PROVE  new[m] = "completed"
  <2>1. d[m] = "completed"
    BY <1>4, <1>6 DEF Ready, Chained
  <2> QED  BY <1>2, <1>3, <1>4, <2>1
<1> HIDE DEF new
<1>7. Chained(new)
  BY <1>5, <1>6 DEF Chained
<1> QED  BY <1>7 DEF new

-----------------------------------------------------------------------------
(* Every step *)

LEMMA MissionInit == Init => MissionInv
  BY TodoChained, NewReport DEF Init, MissionInv, NoReport, Held, Valid

\* A step of one engine.
LEMMA Move ==
  ASSUME MissionInv, NEW e \in Engines, edit' = edit,
         DOMAIN rep' = Engines, DOMAIN dag' = Engines, DOMAIN pc' = Engines,
         \A f \in Engines \ {e} : rep'[f] = rep[f] /\ dag'[f] = dag[f] /\ pc'[f] = pc[f],
         Held(e)', disk' = disk \/ Valid(disk')
  PROVE  MissionInv'
<1>1. \A f \in Engines \ {e} : Held(f)'
  BY DEF MissionInv, Held
<1>2. \A f \in Engines : Held(f)'
  BY <1>1
<1> QED  BY <1>2 DEF MissionInv

\* A call that returns after a valid save.
LEMMA Leave ==
  ASSUME MissionInv, NEW e \in Engines, edit' = edit, Return(e),
         disk' = disk \/ Valid(disk')
  PROVE  MissionInv'
<1>1. /\ DOMAIN rep' = Engines /\ DOMAIN dag' = Engines /\ DOMAIN pc' = Engines
      /\ \A f \in Engines \ {e} : rep'[f] = rep[f] /\ dag'[f] = dag[f] /\ pc'[f] = pc[f]
      /\ rep'[e] = NoReport /\ dag'[e] = Todo /\ pc'[e] = "idle"
  BY DEF MissionInv, Return, Set, Goto
<1>2. Held(e)'
  BY <1>1, TodoChained, NewReport DEF Held, NoReport
<1> QED  BY <1>1, <1>2, Move

\* A call that begins.
LEMMA Begun ==
  ASSUME MissionInv, NEW e \in Engines, NEW r, NEW d, NEW isResume \in BOOLEAN,
         Sound(r), r.state # "completed", Chained(d), Enter(e, r, d, isResume)
  PROVE  MissionInv'
<1> DEFINE x == [r EXCEPT !.budget = Spend(@, "planning", 1)]
<1>1. Sound(x) /\ x.state # "completed"
  BY Changed
<1>2. rep' = [rep EXCEPT ![e] = x]
  BY DEF Enter, Set
<1> HIDE DEF x
<1>3. /\ DOMAIN rep' = Engines /\ DOMAIN dag' = Engines /\ DOMAIN pc' = Engines
      /\ \A f \in Engines \ {e} : rep'[f] = rep[f] /\ dag'[f] = dag[f] /\ pc'[f] = pc[f]
      /\ rep'[e] = x /\ dag'[e] = d /\ pc'[e] = "top"
  BY <1>2 DEF MissionInv, Enter, Goto
<1>4. Held(e)'
  BY <1>1, <1>3 DEF Held
<1>5. edit' = edit /\ (disk' = disk \/ disk' = r)
  BY DEF Enter, Save
<1> QED  BY <1>3, <1>4, <1>5, Move DEF Valid

LEMMA FailKeeps ==
  ASSUME MissionInv, NEW e \in Engines, Fail(e)
  PROVE  MissionInv'
<1> DEFINE y == [rep[e] EXCEPT !.state = "failed"]
<1>1. Sound(rep[e])
  BY DEF MissionInv, Held
<1>2. Sound(y) /\ y.state = "failed"
  BY <1>1, Changed
<1>3. [rep[e] EXCEPT !.state = "failed", !.recoverable = HasSlot(rep[e].budget)]
        = [y EXCEPT !.recoverable = HasSlot(rep[e].budget)]
  OBVIOUS
<1> HIDE DEF y
<1>4. disk' = disk \/ disk' = [y EXCEPT !.recoverable = HasSlot(rep[e].budget)]
  BY <1>3 DEF Fail, Save
<1>5. \A c : /\ Sound([y EXCEPT !.recoverable = c])
             /\ [y EXCEPT !.recoverable = c].state = "failed"
  BY <1>2, Changed
<1>6. disk' = disk \/ Valid(disk')
  BY <1>4, <1>5 DEF Valid
<1> QED  BY <1>6, Leave DEF Fail

\* A save of a report that differs in its state.
LEMMA SaveState ==
  ASSUME NEW r, Sound(r), NEW s, s # "completed", Save([r EXCEPT !.state = s])
  PROVE  disk' = disk \/ Valid(disk')
<1> DEFINE y == [r EXCEPT !.state = s]
<1>1. Sound(y) /\ y.state = s
  BY Changed
<1>2. disk' = disk \/ disk' = y
  BY DEF Save
<1> HIDE DEF y
<1> QED  BY <1>1, <1>2 DEF Valid

\* The engine goes on with another report and the graph it has.
LEMMA Continue ==
  ASSUME MissionInv, NEW e \in Engines, NEW x, NEW d, NEW l, edit' = edit,
         rep' = [rep EXCEPT ![e] = x], pc' = [pc EXCEPT ![e] = l],
         DOMAIN dag' = Engines, \A f \in Engines \ {e} : dag'[f] = dag[f], dag'[e] = d,
         Sound(x), x.state # "completed", Chained(d),
         l \in {"assess", "verify"} => x.dag = d,
         disk' = disk \/ disk' = x
  PROVE  MissionInv'
<1>1. /\ DOMAIN rep' = Engines /\ DOMAIN dag' = Engines /\ DOMAIN pc' = Engines
      /\ \A f \in Engines \ {e} : rep'[f] = rep[f] /\ dag'[f] = dag[f] /\ pc'[f] = pc[f]
      /\ rep'[e] = x /\ dag'[e] = d /\ pc'[e] = l
  BY DEF MissionInv
<1>2. Held(e)'
  BY <1>1 DEF Held
<1>3. disk' = disk \/ Valid(disk')
  BY DEF Valid
<1> QED  BY <1>1, <1>2, <1>3, Move

\* Extended leaves the stages and the verdict alone.
LEMMA ExtendedSound ==
  ASSUME MissionInv, NEW e \in Engines
  PROVE  /\ Sound(Extended(e)) /\ Extended(e).state = rep[e].state
         /\ Extended(e).dag = rep[e].dag
<1>1. Sound(rep[e])
  BY DEF MissionInv, Held
<1>2. \A b : /\ Sound([rep[e] EXCEPT !.budget = b])
             /\ [rep[e] EXCEPT !.budget = b].state = rep[e].state
             /\ [rep[e] EXCEPT !.budget = b].dag = rep[e].dag
  BY <1>1, Changed
<1>3. Extended(e) = rep[e]
      \/ \E b : Extended(e) = [rep[e] EXCEPT !.budget = b]
  BY DEF Extended
<1> QED  BY <1>1, <1>2, <1>3

LEMMA ResumeKeeps ==
  ASSUME MissionInv, NEW e \in Engines, Resume(e)
  PROVE  MissionInv'
<1>1. PICK restart \in BOOLEAN, steps \in {"none", "zero", "some"} :
        Enter(e, [disk EXCEPT
               !.state = "continuing",
               !.recoverable = @ \/ disk.state = "failed",
               !.budget = Funded(Reload(disk.budget), steps, disk.state = "failed")],
             [n \in Stages |-> Redo(disk.dag[n])], TRUE)
  BY DEF Resume
<1> DEFINE r == [disk EXCEPT
               !.state = "continuing",
               !.recoverable = @ \/ disk.state = "failed",
               !.budget = Funded(Reload(disk.budget), steps, disk.state = "failed")]
           d == [n \in Stages |-> Redo(disk.dag[n])]
<1>2. Sound(disk)
  BY DEF MissionInv, Valid
<1>3. Sound(r) /\ r.state = "continuing"
  BY <1>2 DEF Sound, Fields
<1>4. Chained(d)
  BY <1>2, RedoChained DEF Sound
<1>5. Enter(e, r, d, TRUE)
  BY <1>1
<1> HIDE DEF r, d
<1> QED  BY <1>3, <1>4, <1>5, Begun

LEMMA MissionStep ==
  ASSUME MissionInv, [Next]_vars
  PROVE  MissionInv'
<1> USE DEF Goto, Set
<1>1. CASE UNCHANGED vars
  BY <1>1 DEF vars, MissionInv, Held
<1>2. ASSUME NEW e \in Engines, Start(e)
      PROVE  MissionInv'
  <2> DEFINE r == Report("planning", Todo, NewBudget(InitialSteps))
  <2>1. Sound(r) /\ r.state = "planning"
    BY TodoChained, NewReport
  <2>2. Enter(e, r, Todo, FALSE)
    BY <1>2 DEF Start
  <2> HIDE DEF r
  <2> QED  BY <2>1, <2>2, TodoChained, Begun
<1>3. ASSUME NEW e \in Engines, StartBlocked(e)
      PROVE  MissionInv'
  <2> DEFINE r == Report("blocked", Todo, NewBudget(0))
  <2>1. Sound(r) /\ r.state = "blocked"
    BY TodoChained, NewReport
  <2>2. disk' = disk \/ disk' = r
    BY <1>3 DEF StartBlocked, Save
  <2> HIDE DEF r
  <2>3. Held(e)'
    BY <1>3 DEF StartBlocked, MissionInv, Held
  <2> QED  BY <1>3, <2>1, <2>2, <2>3, Move DEF StartBlocked, Valid, MissionInv
<1>4. ASSUME NEW e \in Engines, Cancel(e)
      PROVE  MissionInv'
  BY <1>4 DEF Cancel, MissionInv, Held
<1>5. ASSUME NEW e \in Engines, Kill(e)
      PROVE  MissionInv'
  BY <1>5, Leave DEF Kill
<1>6. ASSUME NEW e \in Engines, OutOfBudget(e) \/ GiveUp(e)
      PROVE  MissionInv'
  BY <1>6, FailKeeps DEF OutOfBudget, GiveUp
<1>7. ASSUME NEW e \in Engines, Cancelled(e)
      PROVE  MissionInv'
  <2>1. Sound(rep[e])
    BY DEF MissionInv, Held
  <2>2. disk' = disk \/ Valid(disk')
    BY <1>7, <2>1, SaveState DEF Cancelled
  <2> QED  BY <1>7, <2>2, Leave DEF Cancelled
<1>8. ASSUME NEW e \in Engines, Execute(e)
      PROVE  MissionInv'
  <2> DEFINE x == [rep[e] EXCEPT !.state = "executing"]
  <2>0. Sound(rep[e]) /\ Chained(dag[e])
    BY DEF MissionInv, Held
  <2>1. Sound(x) /\ x.state = "executing"
    BY <2>0, Changed
  <2>2. rep' = [rep EXCEPT ![e] = x] /\ (disk' = disk \/ disk' = x)
    BY <1>8 DEF Execute, Save, MissionInv
  <2>3. /\ dag' = dag /\ DOMAIN dag = Engines /\ pc' = [pc EXCEPT ![e] = "dag"]
        /\ edit' = edit
    BY <1>8 DEF Execute, MissionInv
  <2> HIDE DEF x
  <2> QED  BY <2>0, <2>1, <2>2, <2>3, Continue
<1>9. ASSUME NEW e \in Engines, Round(e)
      PROVE  MissionInv'
  <2>1. Chained(dag[e]) /\ Sound(rep[e]) /\ rep[e].state # "completed"
    BY DEF MissionInv, Held
  <2>2. PICK out \in [Ready(dag[e]) -> IF cancel[e] THEN {"failed"}
                                       ELSE {"completed", "failed", "blocked"}] :
          dag' = [dag EXCEPT ![e] = [n \in Stages |->
                    CASE n \in Ready(dag[e]) -> out[n]
                      [] n \in RuledOut(dag[e]) -> "skipped"
                      [] OTHER -> dag[e][n]]]
    BY <1>9 DEF Round
  <2>0. out \in [Ready(dag[e]) -> Status]
    BY <2>2 DEF Status
  <2> DEFINE d == [n \in Stages |-> CASE n \in Ready(dag[e]) -> out[n]
                                      [] n \in RuledOut(dag[e]) -> "skipped"
                                      [] OTHER -> dag[e][n]]
  <2>3. Chained(d)
    BY <2>0, <2>1, RoundChained
  <2>4. dag' = [dag EXCEPT ![e] = d]
    BY <2>2
  <2> HIDE DEF d
  <2>5. /\ pc' = [pc EXCEPT ![e] = "account"] \/ pc' = pc
        /\ pc[e] = "dag" /\ rep' = rep /\ edit' = edit /\ disk' = disk
    BY <1>9 DEF Round
  <2>6. /\ DOMAIN rep' = Engines /\ DOMAIN dag' = Engines /\ DOMAIN pc' = Engines
        /\ \A f \in Engines \ {e} : rep'[f] = rep[f] /\ dag'[f] = dag[f] /\ pc'[f] = pc[f]
        /\ dag'[e] = d /\ pc'[e] \in {"dag", "account"}
    BY <2>4, <2>5 DEF MissionInv
  <2>7. Held(e)'
    BY <2>1, <2>3, <2>5, <2>6 DEF Held
  <2> QED  BY <2>5, <2>6, <2>7, Move
<1>10. ASSUME NEW e \in Engines, Account(e)
       PROVE  MissionInv'
  <2> DEFINE x == [rep[e] EXCEPT
       !.budget = Spend(@, "execution", AtLeast(1, Cardinality(Done(dag[e])))),
       !.dag = dag[e]]
  <2>1. Sound(rep[e]) /\ rep[e].state # "completed" /\ Chained(dag[e])
    BY DEF MissionInv, Held
  <2>2. Sound(x) /\ x.state = rep[e].state /\ x.dag = dag[e]
    BY <2>1 DEF Sound, Fields
  <2>3. rep' = [rep EXCEPT ![e] = x] /\ (disk' = disk \/ disk' = x)
    BY <1>10 DEF Account, Save, MissionInv
  <2>4. /\ dag' = dag /\ DOMAIN dag = Engines /\ pc' = [pc EXCEPT ![e] = "assess"]
        /\ edit' = edit
    BY <1>10 DEF Account, MissionInv
  <2> HIDE DEF x
  <2> QED  BY <2>1, <2>2, <2>3, <2>4, Continue
<1>11. ASSUME NEW e \in Engines, Block(e)
       PROVE  MissionInv'
  <2>1. disk' = disk \/ Valid(disk')
    BY <1>11, ExtendedSound, SaveState DEF Block
  <2> QED  BY <1>11, <2>1, Leave DEF Block
<1>12. ASSUME NEW e \in Engines, Observe(e)
       PROVE  MissionInv'
  <2> DEFINE x == [Extended(e) EXCEPT !.state = "verifying",
                                      !.budget = Spend(@, "verification", 1)]
  <2>1. Sound(Extended(e)) /\ Extended(e).dag = rep[e].dag
    BY ExtendedSound
  <2>2. Sound(x) /\ x.state = "verifying" /\ x.dag = rep[e].dag
    BY <2>1 DEF Sound, Fields
  <2>3. Chained(dag[e]) /\ rep[e].dag = dag[e]
    BY <1>12 DEF Observe, MissionInv, Held
  <2>4. /\ rep' = [rep EXCEPT ![e] = x] /\ disk' = disk /\ edit' = edit
        /\ dag' = dag /\ DOMAIN dag = Engines /\ pc' = [pc EXCEPT ![e] = "verify"]
    BY <1>12 DEF Observe, MissionInv
  <2> HIDE DEF x
  <2> QED  BY <2>2, <2>3, <2>4, Continue
<1>13. ASSUME NEW e \in Engines, Complete(e)
       PROVE  MissionInv'
  <2> DEFINE y == [rep[e] EXCEPT !.state = "completed"]
  <2>1. Sound(rep[e]) /\ rep[e].dag = dag[e]
    BY <1>13 DEF Complete, MissionInv, Held
  <2>2. Sound(y) /\ y.dag = dag[e]
    BY <2>1, Changed
  <2>3. (disk' = disk \/ disk' = y) /\ AllDone(dag[e])
    BY <1>13 DEF Complete, Save
  <2> HIDE DEF y
  <2>4. disk' = disk \/ Valid(disk')
    BY <2>2, <2>3 DEF Valid
  <2> QED  BY <1>13, <2>4, Leave DEF Complete
<1>14. ASSUME NEW e \in Engines, Repair(e)
       PROVE  MissionInv'
  <2> DEFINE x == [rep[e] EXCEPT !.state = "planning",
        !.budget = Spend(CountRepair(@), "repair", 1)]
  <2>1. Sound(rep[e])
    BY DEF MissionInv, Held
  <2>2. Sound(x) /\ x.state = "planning"
    BY <2>1 DEF Sound, Fields
  <2>3. /\ rep' = [rep EXCEPT ![e] = x] /\ (disk' = disk \/ disk' = x)
        /\ dag'[e] = Todo /\ DOMAIN dag' = Engines
        /\ \A f \in Engines \ {e} : dag'[f] = dag[f]
        /\ pc' = [pc EXCEPT ![e] = "top"] /\ edit' = edit
    BY <1>14 DEF Repair, Save, MissionInv
  <2> HIDE DEF x
  <2> QED  BY <2>2, <2>3, TodoChained, Continue
<1>15. ASSUME NEW e \in Engines, Raise(e)
       PROVE  MissionInv'
  <2> DEFINE y == [rep[e] EXCEPT !.state = "failed", !.recoverable = TRUE]
  <2>1. Sound(rep[e])
    BY DEF MissionInv, Held
  <2>2. Sound(y) /\ y.state = "failed"
    BY <2>1 DEF Sound, Fields
  <2>3. disk' = disk \/ disk' = y
    BY <1>15 DEF Raise, Save
  <2> HIDE DEF y
  <2>4. disk' = disk \/ Valid(disk')
    BY <2>2, <2>3 DEF Valid
  <2> QED  BY <1>15, <2>4, Leave DEF Raise
<1>16. CASE ExtendLoad
  <2>1. PICK b : edit' = {[disk EXCEPT !.recoverable = @ \/ disk.state = "failed",
                                       !.budget = b]}
    BY <1>16 DEF ExtendLoad
  <2> DEFINE y == [disk EXCEPT !.recoverable = @ \/ disk.state = "failed",
                               !.budget = b]
  <2>2. Sound(y) /\ y.state = disk.state
    BY DEF MissionInv, Valid, Sound, Fields
  <2>3. edit' = {y}
    BY <2>1
  <2> HIDE DEF y
  <2>4. disk.state # "completed" /\ UNCHANGED <<disk, pc, rep, dag>>
    BY <1>16 DEF ExtendLoad
  <2> QED  BY <2>2, <2>3, <2>4 DEF MissionInv, Held
<1>17. CASE ExtendSave
  <2>1. disk' = disk \/ disk' \in edit
    BY <1>17 DEF ExtendSave, Save
  <2>2. edit' = {} /\ UNCHANGED <<pc, rep, dag>>
    BY <1>17 DEF ExtendSave
  <2>3. Valid(disk')
    BY <2>1 DEF MissionInv, Valid
  <2> QED  BY <2>2, <2>3 DEF MissionInv, Held
<1>18. ASSUME NEW e \in Engines, Resume(e)
       PROVE  MissionInv'
  BY <1>18, ResumeKeeps
<1> QED
  BY <1>1, <1>2, <1>3, <1>4, <1>5, <1>6, <1>7, <1>8, <1>9, <1>10, <1>11, <1>12,
     <1>13, <1>14, <1>15, <1>16, <1>17, <1>18 DEF Next

-----------------------------------------------------------------------------
(* The budget *)

Entries == {"initial", "bonus", "consumed", "repairs", "ext", "emer", "unfunded",
            "limit", "used"}
Money(b) ==
  /\ DOMAIN b = Entries
  /\ b.initial \in Nat /\ b.bonus \in Nat /\ b.consumed \in Nat
  /\ b.ext \in Nat /\ b.emer \in Nat /\ b.unfunded \in Nat
Over(b) == b.consumed - Total(b)

\* How far a report in the file may be overspent while somebody may still go
\* on with it, and how far once the planning step of a run is charged: without
\* an extension left the last step is not made up for.
Slack(b) == AtLeast(1, b.unfunded)
Line(b) == IF HasSlot(b) THEN N + 1 + b.unfunded ELSE N + Slack(b)
Top(b) == IF HasSlot(b) THEN N + 1 + b.unfunded ELSE N + 1 + Slack(b)

LEMMA ConstantsOK ==
  /\ N \in Nat \ {0} /\ InitialSteps \in Nat \ {0} /\ AutoSteps \in Nat \ {0}
  /\ RestartSteps \in Nat \ {0} /\ ExtendSteps \in Nat \ {0}
  /\ MaxExtensions \in Nat /\ MaxEmergency \in Nat
  BY MissionAssumption

LEMMA Lines ==
  ASSUME NEW b, Money(b)
  PROVE  /\ Slack(b) \in Nat /\ 1 <= Slack(b) /\ b.unfunded <= Slack(b)
         /\ Line(b) \in Int /\ Top(b) \in Int
         /\ N + 1 <= Line(b) /\ Line(b) <= Top(b) /\ Top(b) <= N + 1 + Slack(b)
  BY ConstantsOK DEF Money, Slack, Line, Top, AtLeast

LEMMA OverIsInt == ASSUME NEW b, Money(b) PROVE Over(b) \in Int
  BY DEF Money, Over, Total

LEMMA NewOver ==
  ASSUME NEW s \in Nat
  PROVE  /\ Money(NewBudget(s)) /\ Over(NewBudget(s)) = -s
         /\ NewBudget(s).unfunded = 0
  BY DEF Money, NewBudget, Entries, Over, Total

LEMMA SpendOver ==
  ASSUME NEW b, Money(b), NEW p, NEW s \in Nat
  PROVE  /\ Money(Spend(b, p, s)) /\ Over(Spend(b, p, s)) = Over(b) + s
         /\ HasSlot(Spend(b, p, s)) = HasSlot(b)
         /\ Spend(b, p, s).unfunded = b.unfunded
  BY DEF Money, Entries, Spend, Over, Total, HasSlot

LEMMA RepairsOver ==
  ASSUME NEW b, Money(b), NEW x
  PROVE  Money([b EXCEPT !.repairs = x]) /\ Over([b EXCEPT !.repairs = x]) = Over(b)
  BY DEF Money, Entries, Over, Total

LEMMA ReloadOver ==
  ASSUME NEW b, Money(b)
  PROVE  /\ Money(Reload(b)) /\ Over(Reload(b)) = Over(b)
         /\ Reload(b).ext = b.ext /\ Reload(b).emer = b.emer
         /\ HasSlot(Reload(b)) = HasSlot(b) /\ Reload(b).unfunded = b.unfunded
  BY DEF Money, Entries, Reload, Over, Total, HasSlot

LEMMA ExtensionOver ==
  ASSUME NEW b, Money(b), NEW s \in Nat
  PROVE  /\ Money(GrantExtension(b, s)) /\ Over(GrantExtension(b, s)) = Over(b) - s
         /\ GrantExtension(b, s).unfunded = b.unfunded
  BY DEF Money, Entries, GrantExtension, Over, Total

LEMMA EmergencyOver ==
  ASSUME NEW b, Money(b), NEW s \in Nat
  PROVE  /\ Money(GrantEmergency(b, s)) /\ GrantEmergency(b, s).unfunded = b.unfunded
         /\ b.emer < MaxEmergency => Over(GrantEmergency(b, s)) = Over(b) - s
         /\ ~(b.emer < MaxEmergency) => GrantEmergency(b, s) = b
  BY ConstantsOK DEF Money, Entries, GrantEmergency, Over, Total

LEMMA AnyOver ==
  ASSUME NEW b, Money(b), NEW s \in Nat
  PROVE  /\ Money(GrantAny(b, s)) /\ GrantAny(b, s).unfunded = b.unfunded
         /\ HasSlot(b) => Over(GrantAny(b, s)) = Over(b) - s
         /\ ~HasSlot(b) => GrantAny(b, s) = b
  BY ConstantsOK, ExtensionOver, EmergencyOver DEF GrantAny, HasSlot, Money

\* A turn of the loop executes no more stages than there are.
LEMMA TurnCost ==
  ASSUME NEW d
  PROVE  AtLeast(1, Cardinality(Done(d))) \in 1..N
<1>1. IsFiniteSet(Stages) /\ Cardinality(Stages) = N
  BY ConstantsOK, FS_Interval DEF Stages
<1>2. Done(d) \subseteq Stages
  BY DEF Done
<1>3. Cardinality(Done(d)) \in Nat /\ Cardinality(Done(d)) <= N
  BY <1>1, <1>2, FS_Subset, FS_CardinalityType
<1> QED  BY <1>3, ConstantsOK DEF AtLeast

-----------------------------------------------------------------------------
(* Every step of the budget *)

\* A report in the file owes its last step only when nobody may go on with it.
Owed(r) ==
  /\ Money(r.budget)
  /\ \/ Over(r.budget) <= Line(r.budget)
     \/ /\ Over(r.budget) <= Top(r.budget) /\ ~HasSlot(r.budget)
        /\ r.state = "failed" /\ r.recoverable = FALSE

\* What an engine may have overspent by where its loop stands.
Paid(e) ==
  /\ pc[e] \in {"idle", "top", "dag", "account", "assess", "verify"}
  /\ Money(rep[e].budget)
  /\ pc[e] = "idle" => Over(rep[e].budget) <= N + 1
  /\ pc[e] = "top" => Over(rep[e].budget) <= Top(rep[e].budget)
  /\ pc[e] \in {"dag", "account"} => Over(rep[e].budget) <= -1
  /\ pc[e] = "assess" => Over(rep[e].budget) <= N - 1
  /\ pc[e] = "verify" => Over(rep[e].budget) <= N

BudgetInv ==
  /\ \A e \in Engines : Paid(e)
  /\ Owed(disk)
  /\ \A r \in edit : Money(r.budget) /\ Over(r.budget) <= N + Slack(r.budget)

LEMMA NoReportPaid ==
  /\ Money(NoReport.budget) /\ Over(NoReport.budget) <= N + 1
  /\ Over(NoReport.budget) <= Line(NoReport.budget)
<1>1. NoReport.budget = NewBudget(InitialSteps)
  BY DEF NoReport, Report
<1> QED  BY <1>1, NewOver, Lines, ConstantsOK

LEMMA BudgetInit == Init => BudgetInv
  BY NoReportPaid DEF Init, BudgetInv, Paid, Owed

LEMMA Pay ==
  ASSUME MissionInv, BudgetInv, NEW e \in Engines, NEW x, NEW l, edit' = edit,
         rep' = [rep EXCEPT ![e] = x], pc' = [pc EXCEPT ![e] = l],
         l \in {"idle", "top", "dag", "account", "assess", "verify"}, Money(x.budget),
         l = "idle" => Over(x.budget) <= N + 1,
         l = "top" => Over(x.budget) <= Top(x.budget),
         l \in {"dag", "account"} => Over(x.budget) <= -1,
         l = "assess" => Over(x.budget) <= N - 1,
         l = "verify" => Over(x.budget) <= N,
         disk' = disk \/ Owed(disk')
  PROVE  BudgetInv'
<1>1. /\ rep'[e] = x /\ pc'[e] = l
      /\ \A f \in Engines \ {e} : rep'[f] = rep[f] /\ pc'[f] = pc[f]
  BY DEF MissionInv
<1>2. Paid(e)'
  BY <1>1 DEF Paid
<1>3. \A f \in Engines \ {e} : Paid(f)'
  BY <1>1 DEF Paid, BudgetInv
<1>4. \A f \in Engines : Paid(f)'
  BY <1>2, <1>3
<1>5. Owed(disk)'
  BY DEF BudgetInv
<1> QED  BY <1>4, <1>5 DEF BudgetInv

LEMMA PayAndLeave ==
  ASSUME MissionInv, BudgetInv, NEW e \in Engines, edit' = edit, Return(e),
         disk' = disk \/ Owed(disk')
  PROVE  BudgetInv'
  BY NoReportPaid, Pay DEF Return, Set, Goto

\* A save of a report that is not overspent beyond its line.
LEMMA SaveLine ==
  ASSUME NEW r, Money(r.budget), Over(r.budget) <= Line(r.budget), Save(r)
  PROVE  disk' = disk \/ Owed(disk')
  BY DEF Save, Owed

LEMMA SaveOwed ==
  ASSUME NEW r, Money(r.budget), Over(r.budget) <= N + 1, Save(r)
  PROVE  disk' = disk \/ Owed(disk')
  BY SaveLine, OverIsInt, Lines, ConstantsOK

\* What an engine holds when it is somewhere.
LEMMA PaidFor ==
  ASSUME MissionInv, BudgetInv, NEW e \in Engines
  PROVE  /\ Sound(rep[e]) /\ Money(rep[e].budget) /\ Over(rep[e].budget) \in Int
         /\ Paid(e) /\ Line(rep[e].budget) \in Int /\ N + 1 <= Line(rep[e].budget)
         /\ Top(rep[e].budget) \in Int /\ N + 1 <= Top(rep[e].budget)
  BY OverIsInt, Lines, ConstantsOK DEF MissionInv, Held, BudgetInv, Paid

LEMMA FailPays ==
  ASSUME MissionInv, BudgetInv, NEW e \in Engines, Fail(e),
         Over(rep[e].budget) <= Top(rep[e].budget)
  PROVE  BudgetInv'
<1> DEFINE y == [rep[e] EXCEPT !.state = "failed",
                               !.recoverable = HasSlot(rep[e].budget)]
<1>1. /\ y.budget = rep[e].budget /\ y.state = "failed"
      /\ ~HasSlot(rep[e].budget) => y.recoverable = FALSE
  BY PaidFor DEF Sound, Fields
<1>2. disk' = disk \/ disk' = y
  BY DEF Fail, Save
<1> HIDE DEF y
<1>3. disk' = disk \/ Owed(disk')
  BY <1>1, <1>2, PaidFor DEF Owed, Line, Top
<1> QED  BY <1>3, PayAndLeave DEF Fail

\* The planning step of a run is charged to a report that is short of its line
\* by that step, or has no extension left.
LEMMA BeginPays ==
  ASSUME MissionInv, BudgetInv, NEW e \in Engines, NEW r, NEW d,
         NEW isResume \in BOOLEAN, Sound(r), Money(r.budget),
         Over(r.budget) + 1 <= Top(r.budget), Enter(e, r, d, isResume)
  PROVE  BudgetInv'
<1> DEFINE x == [r EXCEPT !.budget = Spend(@, "planning", 1)]
<1>1. x.budget = Spend(r.budget, "planning", 1)
  BY DEF Sound, Fields
<1>2. rep' = [rep EXCEPT ![e] = x] /\ pc' = [pc EXCEPT ![e] = "top"] /\ edit' = edit
  BY DEF Enter, Set, Goto
<1> HIDE DEF x
<1>3. /\ Money(x.budget) /\ Over(x.budget) = Over(r.budget) + 1
      /\ HasSlot(x.budget) = HasSlot(r.budget)
      /\ x.budget.unfunded = r.budget.unfunded
  BY <1>1, SpendOver
<1>4. Over(x.budget) <= Top(x.budget)
  BY <1>3 DEF Top, Slack
<1>5. Over(r.budget) <= Line(r.budget)
  BY OverIsInt, Lines, ConstantsOK DEF Line, Top
<1>6. disk' = disk \/ Owed(disk')
  BY <1>5, SaveLine DEF Enter
<1> QED  BY <1>2, <1>3, <1>4, <1>6, Pay

\* Whatever the caller asks for, the planning step of a resume is within the
\* budget, made up for by a grant, counted as unfunded, or the last one.
LEMMA FundedPays ==
  ASSUME NEW b, Money(b), Over(b) <= Line(b), NEW failed \in BOOLEAN,
         NEW steps \in {"none", "zero", "some"}
  PROVE  /\ Money(Funded(b, steps, failed))
         /\ Over(Funded(b, steps, failed)) + 1 <= Top(Funded(b, steps, failed))
<1> SUFFICES ASSUME NEW g, g = Funded(b, steps, failed)
             PROVE  Money(g) /\ Over(g) + 1 <= Top(g)
  OBVIOUS
<1> DEFINE grant == steps = "some" \/ (steps = "none" /\ (failed \/ Out(b)))
<1>1. Over(b) \in Int /\ (Out(b) <=> Over(b) >= 0) /\ b.unfunded \in Nat
  BY OverIsInt DEF Out, Over, Total, Money
<1>2. CASE grant
  <2>1. g = GrantAny(b, RestartSteps)
    BY <1>2 DEF Funded
  <2>2. Money(g) /\ g.unfunded = b.unfunded
    BY <2>1, AnyOver, ConstantsOK
  <2>3. CASE HasSlot(b)
    <3>1. Over(g) = Over(b) - RestartSteps
      BY <2>1, <2>3, AnyOver, ConstantsOK
    <3>2. Over(g) + 1 <= N + 1 + g.unfunded
      BY <1>1, <2>2, <2>3, <3>1, ConstantsOK DEF Line
    <3>3. Over(g) \in Int /\ g.unfunded \in Nat /\ Slack(g) \in Nat /\ g.unfunded <= Slack(g)
      BY <1>1, <2>2, OverIsInt, Lines
    <3> QED  BY <2>2, <3>2, <3>3, ConstantsOK DEF Top
  <2>4. CASE ~HasSlot(b)
    <3>1. g = b
      BY <2>1, <2>4, AnyOver, ConstantsOK
    <3>2. Slack(b) \in Nat
      BY Lines
    <3> QED  BY <1>1, <2>4, <3>1, <3>2, ConstantsOK DEF Line, Top
  <2> QED  BY <2>3, <2>4
<1>3. CASE ~grant /\ steps = "zero" /\ Out(b)
  <2>1. g = [b EXCEPT !.unfunded = @ + 1]
    BY <1>3 DEF Funded
  <2>2. /\ Money(g) /\ Over(g) = Over(b) /\ HasSlot(g) = HasSlot(b)
        /\ g.unfunded = b.unfunded + 1
    BY <2>1 DEF Money, Entries, Over, Total, HasSlot
  <2>3. /\ Slack(b) \in Nat /\ Slack(g) \in Nat
        /\ Slack(b) <= Slack(g) /\ b.unfunded + 1 <= Slack(g)
    BY <1>1, <2>2 DEF Slack, AtLeast
  <2> QED  BY <1>1, <2>2, <2>3, ConstantsOK DEF Line, Top
<1>4. CASE ~grant /\ ~(steps = "zero" /\ Out(b))
  <2>1. g = b /\ Over(b) < 0
    BY <1>1, <1>4 DEF Funded
  <2>2. Top(b) \in Int /\ N + 1 <= Top(b)
    BY Lines, ConstantsOK
  <2> QED  BY <1>1, <2>1, <2>2, ConstantsOK
<1> QED  BY <1>2, <1>3, <1>4

LEMMA ResumePays ==
  ASSUME MissionInv, BudgetInv, NEW e \in Engines, Resume(e)
  PROVE  BudgetInv'
<1> DEFINE failed == disk.state = "failed"
           b(steps) == Funded(Reload(disk.budget), steps, failed)
           r(steps) == [disk EXCEPT !.state = "continuing",
                                    !.recoverable = @ \/ failed,
                                    !.budget = b(steps)]
           d == [n \in Stages |-> Redo(disk.dag[n])]
<1>1. PICK restart \in BOOLEAN, steps \in {"none", "zero", "some"} :
        Resumable(disk, restart) /\ Enter(e, r(steps), d, TRUE)
  BY DEF Resume
<1>2. Sound(disk) /\ Owed(disk)
  BY DEF MissionInv, Valid, BudgetInv
<1>3. Over(disk.budget) <= Line(disk.budget) /\ Money(disk.budget)
  BY <1>1, <1>2 DEF Owed, Resumable
<1>4. /\ Money(Reload(disk.budget))
      /\ Over(Reload(disk.budget)) <= Line(Reload(disk.budget))
  BY <1>3, ReloadOver DEF Line, Slack
<1>5. Money(b(steps)) /\ Over(b(steps)) + 1 <= Top(b(steps))
  BY <1>4, FundedPays
<1>6. Sound(r(steps)) /\ r(steps).budget = b(steps)
  BY <1>2 DEF Sound, Fields
<1> HIDE DEF r, d, b
<1> QED  BY <1>1, <1>5, <1>6, BeginPays

LEMMA ExtendedPays ==
  ASSUME MissionInv, BudgetInv, NEW e \in Engines
  PROVE  /\ Money(Extended(e).budget) /\ Over(Extended(e).budget) \in Int
         /\ Over(Extended(e).budget) <= Over(rep[e].budget)
<1> DEFINE b == rep[e].budget
<1>1. \/ Extended(e) = rep[e]
      \/ Extended(e) = [rep[e] EXCEPT !.budget = GrantExtension(b, AutoSteps)]
  BY DEF Extended
<1>2. [rep[e] EXCEPT !.budget = GrantExtension(b, AutoSteps)].budget
        = GrantExtension(b, AutoSteps)
  BY PaidFor DEF Sound, Fields
<1>3. Extended(e).budget = b \/ Extended(e).budget = GrantExtension(b, AutoSteps)
  BY <1>1, <1>2
<1>4. Money(GrantExtension(b, AutoSteps)) /\ Over(GrantExtension(b, AutoSteps)) = Over(b) - AutoSteps
  BY PaidFor, ExtensionOver, ConstantsOK
<1> QED  BY <1>3, <1>4, PaidFor, ConstantsOK

LEMMA BudgetStep ==
  ASSUME MissionInv, BudgetInv, [Next]_vars
  PROVE  BudgetInv'
<1> USE DEF Goto, Set
<1>1. CASE UNCHANGED vars
  BY <1>1 DEF vars, BudgetInv, Paid
<1>2. ASSUME NEW e \in Engines, Start(e)
      PROVE  BudgetInv'
  <2> DEFINE r == Report("planning", Todo, NewBudget(InitialSteps))
  <2>1. Sound(r) /\ r.budget = NewBudget(InitialSteps)
    BY TodoChained, NewReport DEF Report
  <2>2. Enter(e, r, Todo, FALSE)
    BY <1>2 DEF Start
  <2> HIDE DEF r
  <2>3. Money(r.budget) /\ Over(r.budget) + 1 <= N + 1
    BY <2>1, NewOver, ConstantsOK
  <2>4. Over(r.budget) + 1 <= Top(r.budget)
    BY <2>3, OverIsInt, Lines, ConstantsOK
  <2> QED  BY <2>1, <2>2, <2>3, <2>4, BeginPays
<1>3. ASSUME NEW e \in Engines, StartBlocked(e)
      PROVE  BudgetInv'
  <2> DEFINE r == Report("blocked", Todo, NewBudget(0))
  <2>1. r.budget = NewBudget(0)
    BY DEF Report
  <2>2. Save(r) /\ UNCHANGED <<pc, rep, edit>>
    BY <1>3 DEF StartBlocked
  <2> HIDE DEF r
  <2>3. Money(r.budget) /\ Over(r.budget) <= N + 1
    BY <2>1, NewOver, ConstantsOK
  <2> QED  BY <2>2, <2>3, SaveOwed DEF BudgetInv, Paid
<1>4. ASSUME NEW e \in Engines, Cancel(e)
      PROVE  BudgetInv'
  BY <1>4 DEF Cancel, BudgetInv, Paid
<1>5. ASSUME NEW e \in Engines, Kill(e)
      PROVE  BudgetInv'
  BY <1>5, PayAndLeave DEF Kill
<1>6. ASSUME NEW e \in Engines, OutOfBudget(e)
      PROVE  BudgetInv'
  BY <1>6, PaidFor, FailPays DEF OutOfBudget, Paid
<1>7. ASSUME NEW e \in Engines, GiveUp(e)
      PROVE  BudgetInv'
  BY <1>7, PaidFor, FailPays, ConstantsOK DEF GiveUp, Paid
<1>8. ASSUME NEW e \in Engines, Cancelled(e)
      PROVE  BudgetInv'
  <2> DEFINE y == [rep[e] EXCEPT !.state = "cancelled"]
  <2>1. y.budget = rep[e].budget
    BY PaidFor DEF Sound, Fields
  <2>2. Save(y) /\ Over(rep[e].budget) < 0
    BY <1>8, PaidFor DEF Cancelled, Out, Over, Total, Money
  <2> HIDE DEF y
  <2>3. disk' = disk \/ Owed(disk')
    BY <2>1, <2>2, PaidFor, SaveOwed, ConstantsOK
  <2> QED  BY <1>8, <2>3, PayAndLeave DEF Cancelled
<1>9. ASSUME NEW e \in Engines, Execute(e)
      PROVE  BudgetInv'
  <2> DEFINE x == [rep[e] EXCEPT !.state = "executing"]
  <2>1. x.budget = rep[e].budget
    BY PaidFor DEF Sound, Fields
  <2>2. Over(rep[e].budget) < 0
    BY <1>9, PaidFor DEF Execute, Out, Over, Total, Money
  <2>3. /\ rep' = [rep EXCEPT ![e] = x] /\ Save(x)
        /\ pc' = [pc EXCEPT ![e] = "dag"] /\ edit' = edit
    BY <1>9 DEF Execute, MissionInv
  <2> HIDE DEF x
  <2>4. Money(x.budget) /\ Over(x.budget) <= -1 /\ Over(x.budget) <= N + 1
    BY <2>1, <2>2, PaidFor, ConstantsOK
  <2> QED  BY <2>3, <2>4, SaveOwed, Pay
<1>10. ASSUME NEW e \in Engines, Round(e)
       PROVE  BudgetInv'
  <2>1. /\ pc' = [pc EXCEPT ![e] = "account"] \/ pc' = pc
        /\ pc[e] = "dag" /\ rep' = rep /\ edit' = edit /\ disk' = disk
    BY <1>10 DEF Round
  <2>2. \A f \in Engines : pc'[f] = pc[f] \/ (pc[f] = "dag" /\ pc'[f] = "account")
    BY <2>1 DEF MissionInv
  <2> QED  BY <2>1, <2>2 DEF BudgetInv, Paid
<1>11. ASSUME NEW e \in Engines, Account(e)
       PROVE  BudgetInv'
  <2> DEFINE s == AtLeast(1, Cardinality(Done(dag[e])))
             x == [rep[e] EXCEPT !.budget = Spend(@, "execution", s), !.dag = dag[e]]
  <2>1. x.budget = Spend(rep[e].budget, "execution", s)
    BY PaidFor DEF Sound, Fields
  <2>2. /\ rep' = [rep EXCEPT ![e] = x] /\ Save(x)
        /\ pc' = [pc EXCEPT ![e] = "assess"] /\ edit' = edit
    BY <1>11 DEF Account, MissionInv
  <2>3. s \in 1..N
    BY TurnCost
  <2>4. Over(rep[e].budget) <= -1
    BY <1>11, PaidFor DEF Account, Paid
  <2> HIDE DEF s, x
  <2>5. Money(x.budget) /\ Over(x.budget) <= N - 1 /\ Over(x.budget) <= N + 1
    BY <2>1, <2>3, <2>4, PaidFor, SpendOver, ConstantsOK
  <2> QED  BY <2>2, <2>5, SaveOwed, Pay
<1>12. ASSUME NEW e \in Engines, Block(e)
       PROVE  BudgetInv'
  <2> DEFINE y == [Extended(e) EXCEPT !.state = "blocked"]
  <2>1. y.budget = Extended(e).budget
    BY ExtendedSound DEF Sound, Fields
  <2>2. Save(y) /\ Over(rep[e].budget) <= N - 1
    BY <1>12, PaidFor DEF Block, Paid
  <2> HIDE DEF y
  <2>3. disk' = disk \/ Owed(disk')
    BY <2>1, <2>2, ExtendedPays, PaidFor, SaveOwed, ConstantsOK
  <2> QED  BY <1>12, <2>3, PayAndLeave DEF Block
<1>13. ASSUME NEW e \in Engines, Observe(e)
       PROVE  BudgetInv'
  <2> DEFINE x == [Extended(e) EXCEPT !.state = "verifying",
                                      !.budget = Spend(@, "verification", 1)]
  <2>1. x.budget = Spend(Extended(e).budget, "verification", 1)
    BY ExtendedSound DEF Sound, Fields
  <2>2. /\ rep' = [rep EXCEPT ![e] = x] /\ disk' = disk /\ edit' = edit
        /\ pc' = [pc EXCEPT ![e] = "verify"]
    BY <1>13 DEF Observe, MissionInv
  <2>3. Over(rep[e].budget) <= N - 1
    BY <1>13, PaidFor DEF Observe, Paid
  <2> HIDE DEF x
  <2>4. Money(x.budget) /\ Over(x.budget) <= N
    BY <2>1, <2>3, ExtendedPays, PaidFor, SpendOver, ConstantsOK
  <2> QED  BY <2>2, <2>4, Pay
<1>14. ASSUME NEW e \in Engines, Complete(e)
       PROVE  BudgetInv'
  <2> DEFINE y == [rep[e] EXCEPT !.state = "completed"]
  <2>1. y.budget = rep[e].budget
    BY PaidFor DEF Sound, Fields
  <2>2. Save(y) /\ Over(rep[e].budget) <= N
    BY <1>14, PaidFor DEF Complete, Paid
  <2> HIDE DEF y
  <2>3. disk' = disk \/ Owed(disk')
    BY <2>1, <2>2, PaidFor, SaveOwed, ConstantsOK
  <2> QED  BY <1>14, <2>3, PayAndLeave DEF Complete
<1>15. ASSUME NEW e \in Engines, Repair(e)
       PROVE  BudgetInv'
  <2> DEFINE b == CountRepair(rep[e].budget)
             x == [rep[e] EXCEPT !.state = "planning", !.budget = Spend(b, "repair", 1)]
  <2>1. x.budget = Spend(b, "repair", 1)
    BY PaidFor DEF Sound, Fields
  <2>2. /\ rep' = [rep EXCEPT ![e] = x] /\ Save(x)
        /\ pc' = [pc EXCEPT ![e] = "top"] /\ edit' = edit
    BY <1>15 DEF Repair, MissionInv
  <2>3. Over(rep[e].budget) <= N
    BY <1>15, PaidFor DEF Repair, Paid
  <2>4. Money(b) /\ Over(b) = Over(rep[e].budget)
    BY PaidFor, RepairsOver DEF CountRepair
  <2> HIDE DEF b, x
  <2>5. Money(x.budget) /\ Over(x.budget) <= N + 1
    BY <2>1, <2>3, <2>4, PaidFor, SpendOver, ConstantsOK
  <2>6. Over(x.budget) <= Top(x.budget)
    BY <2>5, OverIsInt, Lines, ConstantsOK
  <2> QED  BY <2>2, <2>5, <2>6, SaveOwed, Pay
<1>16. ASSUME NEW e \in Engines, Raise(e)
       PROVE  BudgetInv'
  <2> DEFINE y == [rep[e] EXCEPT !.state = "failed", !.recoverable = TRUE]
  <2>1. y.budget = rep[e].budget
    BY PaidFor DEF Sound, Fields
  <2>2. (disk' = disk \/ Save(y)) /\ Over(rep[e].budget) <= N
    BY <1>16, PaidFor DEF Raise, Paid
  <2> HIDE DEF y
  <2>3. disk' = disk \/ Owed(disk')
    BY <2>1, <2>2, PaidFor, SaveOwed, ConstantsOK
  <2> QED  BY <1>16, <2>3, PayAndLeave DEF Raise
<1>17. CASE ExtendLoad
  <2>1. PICK emergency \in BOOLEAN :
          LET b == Reload(disk.budget)
          IN /\ IF emergency THEN b.emer < MaxEmergency ELSE b.ext < MaxExtensions
             /\ edit' = {[disk EXCEPT
                   !.recoverable = @ \/ disk.state = "failed",
                   !.budget = IF emergency THEN GrantEmergency(b, ExtendSteps)
                              ELSE GrantExtension(b, ExtendSteps)]}
    BY <1>17 DEF ExtendLoad
  <2> DEFINE b == Reload(disk.budget)
             g == IF emergency THEN GrantEmergency(b, ExtendSteps)
                  ELSE GrantExtension(b, ExtendSteps)
             y == [disk EXCEPT !.recoverable = @ \/ disk.state = "failed", !.budget = g]
  <2>2. Sound(disk) /\ Owed(disk)
    BY DEF MissionInv, Valid, BudgetInv
  <2>3. y.budget = g
    BY <2>2 DEF Sound, Fields
  <2>4. edit' = {y}
    BY <2>1
  <2>5. IF emergency THEN b.emer < MaxEmergency ELSE b.ext < MaxExtensions
    BY <2>1
  <2>6. /\ Money(b) /\ Over(b) \in Int /\ Over(b) = Over(disk.budget)
        /\ HasSlot(disk.budget) /\ b.unfunded = disk.budget.unfunded
    BY <2>2, <2>5, ReloadOver, OverIsInt DEF Owed, HasSlot
  <2>7. Over(b) <= N + 1 + b.unfunded /\ b.unfunded \in Nat
    BY <2>2, <2>6 DEF Owed, Line, Money
  <2> HIDE DEF b, y
  <2>9. Money(g) /\ Over(g) = Over(b) - ExtendSteps /\ g.unfunded = b.unfunded
    BY <2>5, <2>6, ExtensionOver, EmergencyOver, ConstantsOK
  <2> HIDE DEF g
  <2>10. g.unfunded <= Slack(g) /\ Slack(g) \in Nat
    BY <2>9, Lines
  <2>8. Money(g) /\ Over(g) <= N + Slack(g)
    BY <2>6, <2>7, <2>9, <2>10, ConstantsOK
  <2> QED  BY <1>17, <2>3, <2>4, <2>8 DEF ExtendLoad, BudgetInv, Paid
<1>18. CASE ExtendSave
  <2>1. PICK r \in edit : Save(r)
    BY <1>18 DEF ExtendSave
  <2>2. disk' = disk \/ Owed(disk')
    <3>0. Money(r.budget) /\ Over(r.budget) <= N + Slack(r.budget)
      BY DEF BudgetInv
    <3>1. Over(r.budget) <= Line(r.budget)
      BY <3>0, OverIsInt, Lines, ConstantsOK DEF Line, Slack, AtLeast, Money
    <3> QED  BY <2>1, <3>1, SaveLine DEF BudgetInv
  <2> QED  BY <1>18, <2>2 DEF ExtendSave, BudgetInv, Paid
<1>19. ASSUME NEW e \in Engines, Resume(e)
       PROVE  BudgetInv'
  BY <1>19, ResumePays
<1> QED
  BY <1>1, <1>2, <1>3, <1>4, <1>5, <1>6, <1>7, <1>8, <1>9, <1>10, <1>11, <1>12,
     <1>13, <1>14, <1>15, <1>16, <1>17, <1>18, <1>19 DEF Next

-----------------------------------------------------------------------------
(* The rounds of execute_dag *)

\* A set of natural numbers has a least one: what stands in for induction here.
LEMMA LeastNatural ==
  ASSUME NEW S \in SUBSET Nat, S # {}
  PROVE  \E n \in S : \A m \in S : n <= m
<1> DEFINE R == OpToRel(<, Nat)
<1>1. IsWellFoundedOn(R, Nat)
  BY NatLessThanWellFounded
<1>2. \A x, y \in Nat : x < y => <<x, y>> \in R
  BY DEF OpToRel
<1> HIDE DEF R
<1>3. PICK n \in S : \A m \in S : ~(<<m, n>> \in R)
  BY <1>1, WFMin
<1>4. \A m \in S : ~(m < n)
  BY <1>2, <1>3
<1>5. \A m \in S : n <= m
  BY <1>4
<1> QED  BY <1>3, <1>5

\* A stage that says why the graph does not go on; a graph without one, whose
\* stages are all to do or done.
Stuck(d) == \E n \in Stages : d[n] \in {"failed", "blocked"}
Open(d) == \A n \in Stages : d[n] \in {"todo", "completed"}

\* Until a stage fails, every round of one call has completed a stage.
Turn(e) ==
  /\ pc[e] = "top" => Open(dag[e])
  /\ pc[e] = "dag" => \/ Stuck(dag[e])
                      \/ Open(dag[e]) /\ rounds[e] <= Cardinality(Done(dag[e]))
  /\ pc[e] = "account" /\ N < MaxRounds => AllDone(dag[e]) \/ Stuck(dag[e])

RoundInv == rounds \in [Engines -> Nat] /\ \A e \in Engines : Turn(e)

\* Where nothing failed, the first stage to do is ready.
LEMMA NothingReady ==
  ASSUME NEW d, Open(d), Ready(d) = {}
  PROVE  AllDone(d)
<1> DEFINE S == {n \in Stages : d[n] = "todo"}
<1>1. S \subseteq Nat
  BY DEF Stages
<1>2. ASSUME S # {} PROVE FALSE
  <2>1. PICK n \in S : \A m \in S : n <= m
    BY <1>1, <1>2, LeastNatural
  <2>2. \A m \in Deps(n) : m \in Stages /\ m < n
    BY ConstantsOK DEF Deps, Stages
  <2>3. \A m \in Deps(n) : d[m] = "completed"
    BY <2>1, <2>2 DEF Open, Stages
  <2> QED  BY <2>1, <2>3 DEF Ready
<1> QED  BY <1>2 DEF AllDone, Done, Open

\* The stages are finitely many, and so are those done.
LEMMA DoneBound ==
  ASSUME NEW d
  PROVE  IsFiniteSet(Stages) /\ Cardinality(Done(d)) \in Nat /\ Cardinality(Done(d)) <= N
<1>1. IsFiniteSet(Stages) /\ Cardinality(Stages) = N /\ Done(d) \subseteq Stages
  BY ConstantsOK, FS_Interval DEF Stages, Done
<1> QED  BY <1>1, FS_Subset, FS_CardinalityType

\* A round on an open graph with a stage ready gets stuck or completes one more.
LEMMA RoundCompletes ==
  ASSUME NEW d, Open(d), Ready(d) # {}, NEW new,
         NEW out \in [Ready(d) -> {"completed", "failed", "blocked"}],
         new = [n \in Stages |-> CASE n \in Ready(d) -> out[n]
                                   [] n \in RuledOut(d) -> "skipped"
                                   [] OTHER -> d[n]]
  PROVE  \/ Stuck(new)
         \/ Open(new) /\ Cardinality(Done(d)) + 1 <= Cardinality(Done(new))
<1>1. RuledOut(d) = {} /\ Ready(d) \subseteq Stages
  BY DEF Open, RuledOut, Deps, Ready
<1>2. \A n \in Stages : new[n] = IF n \in Ready(d) THEN out[n] ELSE d[n]
  BY <1>1
<1>3. CASE \E n \in Ready(d) : out[n] # "completed"
  BY <1>1, <1>2, <1>3 DEF Stuck
<1>4. CASE \A n \in Ready(d) : out[n] = "completed"
  <2>1. Open(new)
    BY <1>2, <1>4 DEF Open
  <2>2. PICK r : r \in Ready(d)
    OBVIOUS
  <2>3. r \notin Done(d) /\ Done(d) \cup {r} \subseteq Done(new)
    BY <1>1, <1>2, <1>4, <2>2 DEF Done, Ready
  <2>4. IsFiniteSet(Stages) /\ Done(d) \subseteq Stages /\ Done(new) \subseteq Stages
    <3>1. IsFiniteSet(Stages)
      BY DoneBound
    <3> QED  BY <3>1 DEF Done
  <2>5. /\ IsFiniteSet(Done(d)) /\ IsFiniteSet(Done(new))
        /\ Cardinality(Done(d) \cup {r}) <= Cardinality(Done(new))
    BY <2>3, <2>4, FS_Subset
  <2>6. Cardinality(Done(d) \cup {r}) = Cardinality(Done(d)) + 1
    BY <2>3, <2>5, FS_AddElement
  <2> QED  BY <2>1, <2>5, <2>6
<1> QED  BY <1>3, <1>4

\* A graph that is stuck stays so: no round takes up a failed stage.
LEMMA RoundStaysStuck ==
  ASSUME NEW d, Stuck(d), NEW new, NEW out,
         new = [n \in Stages |-> CASE n \in Ready(d) -> out[n]
                                   [] n \in RuledOut(d) -> "skipped"
                                   [] OTHER -> d[n]]
  PROVE  Stuck(new)
<1>1. PICK n \in Stages : d[n] \in {"failed", "blocked"}
  BY DEF Stuck
<1>2. n \notin Ready(d) /\ n \notin RuledOut(d)
  BY <1>1 DEF Ready, RuledOut
<1>3. new[n] = d[n]
  BY <1>2
<1> QED  BY <1>1, <1>3 DEF Stuck

\* A step of one engine.
LEMMA RoundMove ==
  ASSUME RoundInv, NEW e \in Engines, rounds' \in [Engines -> Nat],
         \A f \in Engines \ {e} :
           dag'[f] = dag[f] /\ pc'[f] = pc[f] /\ rounds'[f] = rounds[f],
         Turn(e)'
  PROVE  RoundInv'
<1>1. \A f \in Engines \ {e} : Turn(f)'
  BY DEF RoundInv, Turn
<1>2. \A f \in Engines : Turn(f)'
  BY <1>1
<1> QED  BY <1>2 DEF RoundInv

LEMMA RoundLeave ==
  ASSUME MissionInv, RoundInv, NEW e \in Engines, Return(e)
  PROVE  RoundInv'
<1>1. /\ rounds' \in [Engines -> Nat] /\ pc'[e] = "idle"
      /\ \A f \in Engines \ {e} :
           dag'[f] = dag[f] /\ pc'[f] = pc[f] /\ rounds'[f] = rounds[f]
  BY DEF Return, Goto, Set, MissionInv, RoundInv
<1>2. Turn(e)'
  BY <1>1 DEF Turn
<1> QED  BY <1>1, <1>2, RoundMove

\* An engine goes to another place of its loop with graph d.
LEMMA RoundGoes ==
  ASSUME MissionInv, RoundInv, NEW e \in Engines, NEW l, NEW d,
         pc' = [pc EXCEPT ![e] = l],
         dag' = [dag EXCEPT ![e] = d] \/ (dag' = dag /\ d = dag[e]),
         rounds' = rounds \/ rounds' = [rounds EXCEPT ![e] = 0],
         l \in {"top", "assess", "verify"} \/ (l = "dag" /\ rounds'[e] = 0),
         l \in {"top", "dag"} => Open(d)
  PROVE  RoundInv'
<1>1. /\ rounds' \in [Engines -> Nat] /\ pc'[e] = l /\ dag'[e] = d
      /\ \A f \in Engines \ {e} :
           dag'[f] = dag[f] /\ pc'[f] = pc[f] /\ rounds'[f] = rounds[f]
  BY DEF MissionInv, RoundInv
<1>2. Cardinality(Done(d)) \in Nat
  BY DoneBound
<1>3. Turn(e)'
  BY <1>1, <1>2 DEF Turn
<1> QED  BY <1>1, <1>3, RoundMove

LEMMA RoundKeeps ==
  ASSUME MissionInv, RoundInv, NEW e \in Engines, Round(e)
  PROVE  RoundInv'
<1> DEFINE d == dag[e]
<1>1. PICK out \in [Ready(d) -> IF cancel[e] THEN {"failed"}
                                ELSE {"completed", "failed", "blocked"}] :
        dag' = [dag EXCEPT ![e] = [n \in Stages |->
                  CASE n \in Ready(d) -> out[n]
                    [] n \in RuledOut(d) -> "skipped"
                    [] OTHER -> d[n]]]
  BY DEF Round
<1>2. /\ pc[e] = "dag" /\ rounds' = [rounds EXCEPT ![e] = @ + 1]
      /\ IF Ready(d) = {} \/ rounds'[e] = MaxRounds
         THEN pc' = [pc EXCEPT ![e] = "account"] ELSE pc' = pc
  BY DEF Round, Goto
<1> DEFINE new == [n \in Stages |-> CASE n \in Ready(d) -> out[n]
                                     [] n \in RuledOut(d) -> "skipped"
                                     [] OTHER -> d[n]]
<1>3. dag' = [dag EXCEPT ![e] = new]
  BY <1>1
<1>4. out \in [Ready(d) -> {"completed", "failed", "blocked"}]
  BY <1>1
<1>5. /\ Open(d) /\ Ready(d) # {} =>
           \/ Stuck(new)
           \/ Open(new) /\ Cardinality(Done(d)) + 1 <= Cardinality(Done(new))
      /\ Stuck(d) => Stuck(new)
      /\ Open(d) /\ Ready(d) = {} => AllDone(d)
  BY <1>4, RoundCompletes, RoundStaysStuck, NothingReady
<1>6. AllDone(d) => AllDone(new)
  <2> SUFFICES ASSUME AllDone(d) PROVE AllDone(new)
    OBVIOUS
  <2>1. \A n \in Stages : d[n] = "completed"
    BY DEF AllDone, Done
  <2>2. \A n \in Stages : n \notin Ready(d) /\ n \notin RuledOut(d)
    BY <2>1 DEF Ready, RuledOut
  <2>3. \A n \in Stages : new[n] = d[n]
    BY <2>2
  <2> QED  BY <2>1, <2>3 DEF AllDone, Done
<1> HIDE DEF new
<1>7. \/ Stuck(d)
      \/ Open(d) /\ rounds[e] <= Cardinality(Done(d))
  BY <1>2 DEF RoundInv, Turn
<1>8. /\ rounds' \in [Engines -> Nat] /\ rounds'[e] = rounds[e] + 1 /\ rounds[e] \in Nat
      /\ dag'[e] = new
      /\ \A f \in Engines \ {e} :
           dag'[f] = dag[f] /\ pc'[f] = pc[f] /\ rounds'[f] = rounds[f]
  BY <1>2, <1>3 DEF MissionInv, RoundInv
<1>9. /\ MaxRounds \in Nat /\ N \in Nat
      /\ Cardinality(Done(d)) \in Nat /\ Cardinality(Done(new)) \in 0..N
  BY MissionAssumption, DoneBound
<1>10. CASE Ready(d) = {} \/ rounds'[e] = MaxRounds
  <2>1. pc'[e] = "account"
    BY <1>2, <1>10 DEF MissionInv
  <2>2. N < MaxRounds => AllDone(new) \/ Stuck(new)
    BY <1>5, <1>6, <1>7, <1>8, <1>9, <1>10
  <2>3. Turn(e)'
    BY <1>8, <2>1, <2>2 DEF Turn
  <2> QED  BY <1>8, <2>3, RoundMove
<1>11. CASE ~(Ready(d) = {} \/ rounds'[e] = MaxRounds)
  <2>1. pc'[e] = "dag"
    BY <1>2, <1>11
  <2>2. Stuck(new) \/ (Open(new) /\ rounds[e] + 1 <= Cardinality(Done(new)))
    BY <1>5, <1>7, <1>8, <1>9, <1>11
  <2>3. Turn(e)'
    BY <1>8, <2>1, <2>2 DEF Turn
  <2> QED  BY <1>8, <2>3, RoundMove
<1> QED  BY <1>10, <1>11

LEMMA RoundStep ==
  ASSUME MissionInv, RoundInv, [Next]_vars
  PROVE  RoundInv'
<1> USE DEF Goto
<1>1. ASSUME UNCHANGED <<pc, dag, rounds>> PROVE RoundInv'
  BY <1>1 DEF RoundInv, Turn
<1>2. Open(Todo)
  BY DEF Open, Todo
<1>3. ASSUME NEW e \in Engines, Start(e) PROVE RoundInv'
  BY <1>2, <1>3, RoundGoes DEF Start, Enter
<1>4. ASSUME NEW e \in Engines, Resume(e) PROVE RoundInv'
  <2> DEFINE d == [n \in Stages |-> Redo(disk.dag[n])]
  <2>1. /\ pc' = [pc EXCEPT ![e] = "top"] /\ dag' = [dag EXCEPT ![e] = d]
        /\ rounds' = rounds
    BY <1>4 DEF Resume, Enter
  <2>2. Chained(disk.dag)
    BY DEF MissionInv, Valid, Sound
  <2>3. Open(d)
    BY <2>2 DEF Open, Redo, Chained, Status
  <2> HIDE DEF d
  <2> QED  BY <2>1, <2>3, RoundGoes
<1>5. ASSUME NEW e \in Engines, Execute(e) PROVE RoundInv'
  <2>1. /\ pc[e] = "top" /\ dag' = dag
        /\ pc' = [pc EXCEPT ![e] = "dag"] /\ rounds' = [rounds EXCEPT ![e] = 0]
        /\ rounds'[e] = 0
    BY <1>5 DEF Execute, MissionInv, RoundInv
  <2>2. Open(dag[e])
    BY <2>1 DEF RoundInv, Turn
  <2> QED  BY <2>1, <2>2, RoundGoes
<1>6. ASSUME NEW e \in Engines, Round(e) PROVE RoundInv'
  BY <1>6, RoundKeeps
<1>7. ASSUME NEW e \in Engines, Account(e) \/ Observe(e) PROVE RoundInv'
  <2>1. /\ dag' = dag /\ rounds' = rounds
        /\ \E l \in {"assess", "verify"} : pc' = [pc EXCEPT ![e] = l]
    BY <1>7 DEF Account, Observe, MissionInv
  <2> QED  BY <2>1, RoundGoes
<1>8. ASSUME NEW e \in Engines, Repair(e) PROVE RoundInv'
  BY <1>2, <1>8, RoundGoes DEF Repair
<1>9. ASSUME NEW e \in Engines,
             \/ Kill(e) \/ OutOfBudget(e) \/ Cancelled(e) \/ Block(e)
             \/ Complete(e) \/ GiveUp(e) \/ Raise(e)
      PROVE  RoundInv'
  BY <1>9, RoundLeave
  DEF Kill, OutOfBudget, Cancelled, Block, Complete, GiveUp, Raise, Fail
<1>10. ASSUME NEW e \in Engines, StartBlocked(e) \/ Cancel(e) PROVE RoundInv'
  BY <1>1, <1>10 DEF StartBlocked, Cancel
<1>11. CASE ExtendLoad \/ ExtendSave \/ UNCHANGED vars
  BY <1>1, <1>11 DEF ExtendLoad, ExtendSave, vars
<1> QED
  BY <1>3, <1>4, <1>5, <1>6, <1>7, <1>8, <1>9, <1>10, <1>11 DEF Next

-----------------------------------------------------------------------------
(* The theorems *)

LEMMA MissionInvariant == Spec => []MissionInv
<1>1. MissionInv /\ [Next]_vars => MissionInv'
  BY MissionStep
<1> QED  BY MissionInit, <1>1, PTL DEF Spec

\* However engines, repairs, resumes and extensions interleave, a stage is
\* completed only on the results of those it depends on (get_ready_nodes).
THEOREM StagesFollowInputs == Spec => []StageAfterItsInputs
<1>1. MissionInv => StageAfterItsInputs
  <2> SUFFICES ASSUME MissionInv,
                      NEW d \in {dag[e] : e \in Engines} \cup {r.dag : r \in Copies},
                      NEW n \in Done(d)
               PROVE  Deps(n) \subseteq Done(d)
    BY DEF StageAfterItsInputs
  <2>1. \A r \in Copies : Sound(r)
    BY DEF MissionInv, Held, Valid, Copies
  <2>2. Chained(d)
    BY <2>1 DEF MissionInv, Held, Sound
  <2> QED  BY <2>2 DEF Chained, Done, Deps
<1> QED  BY <1>1, MissionInvariant, PTL

\* No report, in the file or in anybody's hands, says completed while its
\* dag_state has a stage that is not.
THEOREM CompletedIsComplete == Spec => []CompletedMeansAllStages
<1>1. MissionInv => CompletedMeansAllStages
  BY DEF MissionInv, Held, Valid, Copies, CompletedMeansAllStages
<1> QED  BY <1>1, MissionInvariant, PTL

\* Kills, resumes, restarts, repairs and extensions in any order never add up
\* to more than N + 2 steps beyond a report's budget, or N + 1 and one for each
\* resume that asked for 0 steps when nothing was left.
THEOREM OverspendingIsBounded == Spec => []OverspendBounded
<1>1. Init => MissionInv /\ BudgetInv
  BY MissionInit, BudgetInit
<1>2. MissionInv /\ BudgetInv /\ [Next]_vars => MissionInv' /\ BudgetInv'
  BY MissionStep, BudgetStep
<1>3. MissionInv /\ BudgetInv => OverspendBounded
  <2> SUFFICES ASSUME MissionInv, BudgetInv, NEW r \in Copies
               PROVE  r.budget.consumed <= Total(r.budget) + N + 1 + Slack(r.budget)
    BY DEF OverspendBounded, Slack
  <2>1. Money(r.budget)
    BY DEF Copies, BudgetInv, Paid, Owed
  <2>2. /\ Over(r.budget) \in Int /\ Slack(r.budget) \in Nat /\ 1 <= Slack(r.budget)
        /\ Line(r.budget) \in Int /\ Line(r.budget) <= Top(r.budget)
        /\ Top(r.budget) \in Int /\ Top(r.budget) <= N + 1 + Slack(r.budget)
    BY <2>1, OverIsInt, Lines
  <2>3. Over(r.budget) <= N + 1 + Slack(r.budget)
    <3>1. CASE \E e \in Engines : r = rep[e]
      BY <2>2, <3>1, ConstantsOK DEF BudgetInv, Paid
    <3>2. CASE r = disk
      BY <2>2, <3>2, ConstantsOK DEF BudgetInv, Owed
    <3>3. CASE r \in edit
      BY <2>2, <3>3, ConstantsOK DEF BudgetInv
    <3> QED  BY <3>1, <3>2, <3>3 DEF Copies
  <2> QED  BY <2>1, <2>2, <2>3, ConstantsOK DEF Over, Total, Money
<1> QED  BY <1>1, <1>2, <1>3, PTL DEF Spec

\* Who overwrites a final verdict on disk is an engine that runs or an extender
\* that read the file before it: nobody who comes later does.
THEOREM VerdictsOutliveReaders == Spec => VerdictOutlivesReaders
<1>1. [Next]_vars => [disk.state \in Terminal /\ disk' # disk
                      => edit # {} \/ \E e \in Engines : pc[e] # "idle"]_vars
  <2> SUFFICES ASSUME Next, disk.state \in Terminal, disk' # disk, edit = {},
                      \A e \in Engines : pc[e] = "idle"
               PROVE  FALSE
    OBVIOUS
  <2>1. ~(ExtendLoad \/ ExtendSave)
    BY DEF ExtendLoad, ExtendSave
  <2>2. \A e \in Engines : ~(Start(e) \/ StartBlocked(e) \/ Resume(e))
    BY DEF Start, StartBlocked, Resume, Resumable, Terminal
  <2>3. \A e \in Engines :
          ~(\/ Cancel(e) \/ Kill(e) \/ OutOfBudget(e) \/ Cancelled(e) \/ Execute(e)
            \/ Round(e) \/ Account(e) \/ Block(e) \/ Observe(e) \/ Complete(e)
            \/ Repair(e) \/ GiveUp(e) \/ Raise(e))
    BY DEF Cancel, Kill, OutOfBudget, Cancelled, Execute, Round, Account, Block,
           Observe, Complete, Repair, GiveUp, Raise
  <2> QED  BY <2>1, <2>2, <2>3 DEF Next
<1> QED  BY <1>1, PTL DEF Spec, VerdictOutlivesReaders

\* When execute_dag stops for want of a ready stage, or of rounds, every stage
\* is completed or one of them failed or was blocked: none is left waiting or
\* skipped without a reason.
THEOREM StagesAreNotStranded == Spec => []NoStageStranded
<1>1. Init => RoundInv
  BY DEF Init, RoundInv, Turn
<1>2. MissionInv /\ RoundInv /\ [Next]_vars => RoundInv'
  BY RoundStep
<1>3. RoundInv => NoStageStranded
  BY DEF RoundInv, Turn, NoStageStranded, Stuck
<1> QED  BY <1>1, <1>2, <1>3, MissionInvariant, PTL DEF Spec
=============================================================================
