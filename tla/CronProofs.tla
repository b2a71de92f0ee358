----------------------------- MODULE CronProofs -----------------------------
(***************************************************************************)
(* Proofs about Cron, for any schedules, limits and bounds: how often a    *)
(* schedule runs, and that its trigger agrees with its flag.               *)
(***************************************************************************)
EXTENDS Cron, TLAPS

\* The functions of schedules that TypeOK does not speak of.
CountsOK ==
  /\ DOMAIN jobs \subseteq Jobs
  /\ submitted \in [Jobs -> Nat] /\ lost \in [Jobs -> Nat] /\ again \in [Jobs -> Nat]
  /\ armed \subseteq born
  /\ \A j \in Jobs : pc[j] # "idle" => j \in born
  /\ \A j \in Jobs \ born : submitted[j] = 0 /\ lost[j] = 0

\* An accepted firing has a run left.
RunLeft == \A j \in Known : pc[j] = "accepted" => jobs[j].runs < Limit[j]

CountInv == TypeOK /\ CountsOK /\ RunLeft /\ RunsAreCounted

\* A one-shot may yet submit: it is to be added, enabled, or on its way.
Chance(j) ==
  IF j \notin born \/ pc[j] = "accepted" \/ (j \in Enabled /\ pc[j] # "submitted")
  THEN 1 ELSE 0

\* Every submission and every chance of one is the first, or stands for a lost
\* one or for a user who enabled the schedule again.
OneShotInv == \A j \in OneShots : submitted[j] + Chance(j) <= 1 + lost[j] + again[j]

\* A recurring schedule whose expression is taken keeps its trigger while it is
\* enabled.
TriggerInv == ArmedAsEnabled /\ (up => Enabled \ (OneShots \cup Refused) \subseteq armed)

-----------------------------------------------------------------------------
(* Every step counts *)

LEMMA CountInit == Init => CountInv
<1> SUFFICES ASSUME Init PROVE CountInv
  OBVIOUS
<1>1. DOMAIN jobs = {}
  BY DEF Init
<1>2. TypeOK
  BY <1>1 DEF Init, TypeOK, Known, NoFiring
<1>3. CountsOK
  BY <1>1 DEF Init, CountsOK, NoFiring
<1>4. RunLeft /\ RunsAreCounted
  BY <1>1 DEF RunLeft, RunsAreCounted, Known
<1> QED  BY <1>2, <1>3, <1>4 DEF CountInv

\* A step that changes the record of j at most, and not what was counted.
LEMMA CountEdit ==
  ASSUME CountInv, NEW j \in Known, NEW r \in [enabled : BOOLEAN, runs : {jobs[j].runs}, sound : BOOLEAN],
         jobs' = [jobs EXCEPT ![j] = r], pc' = pc \/ (Goto(j, "idle") /\ pc[j] = "due"),
         up' = up, armed' \subseteq armed \cup {j}, stranded' \subseteq stranded,
         born' = born, submitted' = submitted, lost' = lost, again' \in [Jobs -> Nat]
  PROVE  CountInv'
<1>1. /\ Known' = Known /\ j \in Jobs /\ j \in born
      /\ \A i \in Known : jobs'[i].runs = jobs[i].runs
      /\ \A i \in Known : jobs'[i] \in [enabled : BOOLEAN, runs : 0..Limit[i], sound : BOOLEAN]
  BY DEF CountInv, TypeOK, CountsOK, Known
<1>2. /\ pc' \in [Jobs -> {"idle", "due", "accepted", "submitted"}]
      /\ \A i \in Jobs : pc'[i] = pc[i] \/ (pc'[i] = "idle" /\ pc[i] = "due")
  BY <1>1 DEF CountInv, TypeOK, Goto
<1>3. TypeOK'
  BY <1>1, <1>2 DEF CountInv, TypeOK, CountsOK, Known
<1>4. CountsOK'
  BY <1>1, <1>2 DEF CountInv, TypeOK, CountsOK, Known
<1>5. RunLeft' /\ RunsAreCounted'
  BY <1>1, <1>2 DEF CountInv, TypeOK, CountsOK, RunLeft, RunsAreCounted, Known
<1> QED  BY <1>3, <1>4, <1>5 DEF CountInv

\* A step that leaves records and submissions alone.
LEMMA CountMove ==
  ASSUME CountInv, UNCHANGED <<jobs, born, submitted, lost, again>>, up' \in BOOLEAN,
         armed' \subseteq born, stranded' \subseteq OneShots,
         pc' \in [Jobs -> {"idle", "due", "accepted", "submitted"}],
         \A j \in Jobs : pc'[j] # pc[j] =>
            /\ j \in born /\ pc[j] # "submitted" /\ pc'[j] # "submitted"
            /\ pc'[j] = "accepted" => j \in Enabled /\ ~Spent(j)
  PROVE  CountInv'
<1>1. TypeOK'
  BY DEF CountInv, TypeOK, Known
<1>2. CountsOK'
  BY DEF CountInv, TypeOK, CountsOK
<1>3. Known' = Known /\ Known \subseteq Jobs
  BY DEF CountInv, CountsOK, Known
<1>4. RunLeft'
  <2> SUFFICES ASSUME NEW j \in Known, pc'[j] = "accepted" PROVE jobs[j].runs < Limit[j]
    BY <1>3 DEF RunLeft
  <2>1. CASE pc'[j] = pc[j]
    BY <2>1 DEF CountInv, RunLeft
  <2>2. CASE pc'[j] # pc[j]
    <3>1. ~(jobs[j].runs >= Limit[j])
      BY <1>3, <2>2 DEF Spent
    <3>2. jobs[j].runs \in Nat /\ Limit[j] \in Nat
      BY <1>3, CronAssumption DEF CountInv, TypeOK
    <3> QED  BY <3>1, <3>2
  <2> QED  BY <2>1, <2>2
<1>5. RunsAreCounted'
  BY <1>3 DEF CountInv, RunsAreCounted
<1> QED  BY <1>1, <1>2, <1>4, <1>5 DEF CountInv

LEMMA CountAdd ==
  ASSUME CountInv, NEW j \in Jobs, NEW enabled \in BOOLEAN, NEW sound \in BOOLEAN,
         Add(j, enabled, sound)
  PROVE  CountInv'
<1>1. /\ Known' = Known \cup {j} /\ j \notin Known /\ j \notin born
      /\ jobs'[j] = [enabled |-> enabled, runs |-> 0, sound |-> sound]
      /\ \A i \in Known : jobs'[i] = jobs[i]
      /\ submitted[j] = 0 /\ lost[j] = 0 /\ pc[j] = "idle"
      /\ Limit[j] \in Nat
  BY CronAssumption DEF CountInv, TypeOK, CountsOK, Add, Known
<1>2. TypeOK'
  BY <1>1 DEF CountInv, TypeOK, Add, Arm
<1>3. CountsOK'
  BY <1>1 DEF CountInv, TypeOK, CountsOK, Add, Arm, Known
<1>4. RunLeft'
  BY <1>1 DEF CountInv, RunLeft, Add
<1>5. RunsAreCounted'
  BY <1>1 DEF CountInv, RunsAreCounted, Add
<1> QED  BY <1>2, <1>3, <1>4, <1>5 DEF CountInv

LEMMA CountRemove ==
  ASSUME CountInv, NEW j, Remove(j)
  PROVE  CountInv'
<1>1. /\ Known' = Known \ {j}
      /\ \A i \in Known' : jobs'[i] = jobs[i]
      /\ pc' = pc /\ UNCHANGED history /\ armed' = armed \ {j} /\ up' = up
  BY DEF Remove, Known, Disarm
<1>2. TypeOK' /\ CountsOK'
  BY <1>1 DEF CountInv, TypeOK, CountsOK, history, Known
<1>3. RunLeft' /\ RunsAreCounted'
  BY <1>1 DEF CountInv, RunLeft, RunsAreCounted, history
<1> QED  BY <1>2, <1>3 DEF CountInv

LEMMA CountCrash ==
  ASSUME CountInv, Crash
  PROVE  CountInv'
<1>1. /\ \A j \in Jobs : pc'[j] = "idle"
      /\ pc' \in [Jobs -> {"idle", "due", "accepted", "submitted"}]
      /\ lost' \in [Jobs -> Nat]
      /\ \A j \in Jobs : lost'[j] = IF pc[j] = "submitted" THEN lost[j] + 1 ELSE lost[j]
      /\ UNCHANGED <<jobs, born, submitted, again, stranded>>
      /\ armed' = {} /\ up' = FALSE
  BY DEF CountInv, TypeOK, CountsOK, Crash, NoFiring
<1>2. Known' = Known /\ Known \subseteq Jobs
  BY <1>1 DEF CountInv, CountsOK, Known
<1>3. TypeOK'
  BY <1>1, <1>2 DEF CountInv, TypeOK
<1>4. CountsOK'
  BY <1>1 DEF CountInv, TypeOK, CountsOK
<1>5. RunLeft'
  BY <1>1, <1>2 DEF RunLeft
<1>6. RunsAreCounted'
  BY <1>1, <1>2, CronAssumption DEF CountInv, CountsOK, TypeOK, RunsAreCounted
<1> QED  BY <1>3, <1>4, <1>5, <1>6 DEF CountInv

LEMMA CountSubmit ==
  ASSUME CountInv, NEW j \in Jobs, Submit(j)
  PROVE  CountInv'
<1>1. CASE submitted' = submitted
  BY <1>1, CountMove DEF CountInv, TypeOK, CountsOK, Submit, Goto
<1>2. CASE submitted' # submitted
  <2>1. /\ pc' = [pc EXCEPT ![j] = "submitted"] /\ pc[j] = "accepted"
        /\ submitted' = [submitted EXCEPT ![j] = @ + 1]
        /\ UNCHANGED <<jobs, up, armed, born, lost, again, stranded>>
    BY <1>2 DEF Submit, Goto
  <2>2. TypeOK' /\ CountsOK'
    BY <2>1 DEF CountInv, TypeOK, CountsOK, Known
  <2>3. RunLeft'
    BY <2>1 DEF CountInv, TypeOK, CountsOK, RunLeft, Known
  <2>4. RunsAreCounted'
    <3> SUFFICES ASSUME NEW i \in Known
                 PROVE /\ submitted'[i] = jobs[i].runs + lost[i]
                                          + (IF pc'[i] = "submitted" THEN 1 ELSE 0)
                       /\ submitted'[i] <= Limit[i] + lost[i]
      BY <2>1 DEF RunsAreCounted, Known
    <3>1. /\ i \in Jobs /\ jobs[i].runs \in Nat /\ Limit[i] \in Nat
          /\ lost[i] \in Nat /\ submitted[i] \in Nat
          /\ submitted[i] = jobs[i].runs + lost[i] + (IF pc[i] = "submitted" THEN 1 ELSE 0)
          /\ submitted[i] <= Limit[i] + lost[i]
          /\ pc[i] = "accepted" => jobs[i].runs < Limit[i]
      BY CronAssumption DEF CountInv, TypeOK, CountsOK, RunLeft, RunsAreCounted, Known
    <3>2. CASE i = j
      BY <2>1, <3>1, <3>2 DEF CountInv, TypeOK, CountsOK
    <3>3. CASE i # j
      BY <2>1, <3>1, <3>3 DEF CountInv, TypeOK, CountsOK
    <3> QED  BY <3>2, <3>3
  <2> QED  BY <2>2, <2>3, <2>4 DEF CountInv
<1> QED  BY <1>1, <1>2

LEMMA CountRecord ==
  ASSUME CountInv, NEW j \in Jobs, Record(j)
  PROVE  CountInv'
<1>1. /\ pc' = [pc EXCEPT ![j] = "idle"] /\ pc[j] = "submitted"
      /\ UNCHANGED <<up, born, submitted, lost, again, stranded>>
      /\ armed' \subseteq armed
      /\ pc' \in [Jobs -> {"idle", "due", "accepted", "submitted"}]
      /\ \A i \in Jobs : i # j => pc'[i] = pc[i]
      /\ pc'[j] = "idle"
  BY DEF CountInv, TypeOK, Record, Goto, Disarm, history
<1>2. CASE j \notin Known
  <2>1. jobs' = jobs
    BY <1>2 DEF Record, Counted
  <2>2. TypeOK' /\ CountsOK'
    BY <1>1, <2>1 DEF CountInv, TypeOK, CountsOK, Known
  <2>3. RunLeft' /\ RunsAreCounted'
    BY <1>1, <1>2, <2>1 DEF CountInv, CountsOK, RunLeft, RunsAreCounted, Known
  <2> QED  BY <2>2, <2>3 DEF CountInv
<1>3. CASE j \in Known
  <2> DEFINE runs == jobs[j].runs + 1
             enabled == jobs[j].enabled /\ ~LastOf(j, runs)
  <2>1. jobs' = [jobs EXCEPT ![j] = [enabled |-> enabled, runs |-> runs,
                                     sound |-> jobs[j].sound]]
    BY <1>3 DEF Record, Counted, Edit
  <2>2. /\ jobs[j].runs \in Nat /\ Limit[j] \in Nat /\ lost[j] \in Nat
        /\ submitted[j] = jobs[j].runs + lost[j] + 1
        /\ submitted[j] <= Limit[j] + lost[j]
    <3>1. j \in Jobs /\ jobs[j].runs \in Nat /\ Limit[j] \in Nat /\ lost[j] \in Nat
      BY <1>3, CronAssumption DEF CountInv, TypeOK, CountsOK
    <3>2. /\ submitted[j] = jobs[j].runs + lost[j]
                              + (IF pc[j] = "submitted" THEN 1 ELSE 0)
          /\ submitted[j] <= Limit[j] + lost[j]
      BY <1>3 DEF CountInv, RunsAreCounted
    <3> QED  BY <1>1, <3>1, <3>2
  <2>3. runs \in 0..Limit[j] /\ enabled \in BOOLEAN
    BY <1>3, <2>2 DEF CountInv, TypeOK
  <2>4. /\ Known' = Known
        /\ jobs'[j] = [enabled |-> enabled, runs |-> runs, sound |-> jobs[j].sound]
        /\ \A i \in Known : i # j => jobs'[i] = jobs[i]
    BY <1>3, <2>1 DEF Known
  <2> HIDE DEF enabled
  <2>5. TypeOK'
    BY <1>1, <2>3, <2>4 DEF CountInv, TypeOK
  <2>6. CountsOK'
    BY <1>1, <2>4 DEF CountInv, TypeOK, CountsOK, Known
  <2>7. RunLeft'
    BY <1>1, <2>4 DEF CountInv, CountsOK, RunLeft, Known
  <2>8. RunsAreCounted'
    BY <1>1, <2>2, <2>4 DEF CountInv, CountsOK, RunsAreCounted, Known
  <2> QED  BY <2>5, <2>6, <2>7, <2>8 DEF CountInv
<1> QED  BY <1>2, <1>3

LEMMA CountStep ==
  ASSUME CountInv, [Next]_vars
  PROVE  CountInv'
<1> USE DEF CountInv, TypeOK, CountsOK
<1>1. CASE UNCHANGED vars
  BY <1>1 DEF vars, history, RunLeft, RunsAreCounted, Known
<1>2. CASE Start
  BY <1>2, CountMove DEF Start, Enabled, Known
<1>3. CASE Crash
  BY <1>3, CountCrash
<1>4. ASSUME NEW j \in Jobs, NEW enabled \in BOOLEAN, NEW sound \in BOOLEAN,
             Add(j, enabled, sound)
      PROVE  CountInv'
  BY <1>4, CountAdd
<1>5. ASSUME NEW j \in Jobs, NEW enabled \in BOOLEAN, SetEnabled(j, enabled)
      PROVE  CountInv'
  <2>1. again' \in [Jobs -> Nat]
    BY <1>5 DEF SetEnabled
  <2>2. armed' \subseteq armed \cup {j} /\ stranded' \subseteq stranded
    BY <1>5 DEF SetEnabled, Arm, Disarm
  <2>3. /\ j \in Known /\ Edit(j, enabled, jobs[j].runs)
        /\ pc' = pc /\ up' = up /\ born' = born
        /\ submitted' = submitted /\ lost' = lost
    BY <1>5 DEF SetEnabled
  <2> DEFINE r == [enabled |-> enabled, runs |-> jobs[j].runs, sound |-> jobs[j].sound]
  <2>4. r \in [enabled : BOOLEAN, runs : {jobs[j].runs}, sound : BOOLEAN]
    BY <2>3
  <2>5. jobs' = [jobs EXCEPT ![j] = r]
    BY <2>3 DEF Edit
  <2> HIDE DEF r, CountInv, TypeOK, CountsOK
  <2> QED  BY <2>1, <2>2, <2>3, <2>4, <2>5, CountEdit
<1>6. ASSUME NEW j \in Jobs, Remove(j)
      PROVE  CountInv'
  BY <1>6, CountRemove
<1>7. ASSUME NEW j \in Jobs, Fire(j)
      PROVE  CountInv'
  BY <1>7, CountMove DEF Fire, Goto, Disarm, history
<1>8. ASSUME NEW j \in Jobs, Misfire(j)
      PROVE  CountInv'
  BY <1>8, CountMove DEF Misfire, Disarm
<1>9. ASSUME NEW j \in Jobs, Refuse(j)
      PROVE  CountInv'
  <2>1. CASE jobs' = jobs
    BY <1>9, <2>1, CountMove DEF Refuse, Goto, history
  <2>2. CASE j \in Known /\ Edit(j, FALSE, jobs[j].runs)
    <3> DEFINE r == [enabled |-> FALSE, runs |-> jobs[j].runs, sound |-> jobs[j].sound]
    <3>1. /\ r \in [enabled : BOOLEAN, runs : {jobs[j].runs}, sound : BOOLEAN]
          /\ jobs' = [jobs EXCEPT ![j] = r]
      BY <2>2 DEF Edit
    <3>2. /\ pc[j] = "due" /\ Goto(j, "idle")
          /\ UNCHANGED <<up, armed, history>> /\ again' \in [Jobs -> Nat]
      BY <1>9 DEF Refuse, history
    <3> HIDE DEF r, CountInv, TypeOK, CountsOK
    <3> QED  BY <2>2, <3>1, <3>2, CountEdit DEF history
  <2> QED  BY <1>9, <2>1, <2>2 DEF Refuse, Enabled
<1>10. ASSUME NEW j \in Jobs, Defer(j)
       PROVE  CountInv'
  BY <1>10, CountMove DEF Defer, Goto, Arm, Endless
<1>11. ASSUME NEW j \in Jobs, Accept(j)
       PROVE  CountInv'
  BY <1>11, CountMove DEF Accept, Goto, history
<1>12. ASSUME NEW j \in Jobs, Submit(j)
       PROVE  CountInv'
  BY <1>12, CountSubmit
<1>13. ASSUME NEW j \in Jobs, Record(j)
       PROVE  CountInv'
  BY <1>13, CountRecord
<1> QED
  BY <1>1, <1>2, <1>3, <1>4, <1>5, <1>6, <1>7, <1>8, <1>9, <1>10, <1>11,
     <1>12, <1>13 DEF Next, Step

-----------------------------------------------------------------------------
(* Every step keeps the one-shots and the triggers *)

LEMMA OneShotInit == Init => OneShotInv
  BY CronAssumption DEF Init, OneShotInv, Chance

LEMMA OneShotStep ==
  ASSUME CountInv, CountInv', OneShotInv, [Next]_vars
  PROVE  OneShotInv'
<1> SUFFICES ASSUME NEW j \in OneShots
             PROVE  submitted'[j] + Chance(j)' <= 1 + lost'[j] + again'[j]
  BY DEF OneShotInv
<1>1. /\ j \in Jobs
      /\ submitted[j] \in Nat /\ lost[j] \in Nat /\ again[j] \in Nat
      /\ submitted'[j] \in Nat /\ lost'[j] \in Nat /\ again'[j] \in Nat
      /\ submitted[j] + Chance(j) <= 1 + lost[j] + again[j]
      /\ pc[j] # "idle" => j \in born
  BY CronAssumption DEF CountInv, CountsOK, OneShotInv
<1>2. CASE UNCHANGED vars
  BY <1>1, <1>2 DEF vars, history, Chance, Enabled, Known
<1>3. CASE Start
  BY <1>1, <1>3 DEF Start, Chance, Enabled, Known
<1>4. CASE Crash
  BY <1>1, <1>4 DEF Crash, NoFiring, Chance, Enabled, Known
<1>5. ASSUME NEW i \in Jobs, NEW enabled \in BOOLEAN, NEW sound \in BOOLEAN,
             Add(i, enabled, sound)
      PROVE  submitted'[j] + Chance(j)' <= 1 + lost'[j] + again'[j]
  BY <1>1, <1>5 DEF Add, Chance, Enabled, Known
<1>6. ASSUME NEW i \in Jobs, NEW enabled \in BOOLEAN, SetEnabled(i, enabled)
      PROVE  submitted'[j] + Chance(j)' <= 1 + lost'[j] + again'[j]
  BY <1>1, <1>6 DEF SetEnabled, Edit, Chance, Enabled, Known, CountInv, CountsOK
<1>7. ASSUME NEW i \in Jobs, Remove(i)
      PROVE  submitted'[j] + Chance(j)' <= 1 + lost'[j] + again'[j]
  BY <1>1, <1>7 DEF Remove, history, Chance, Enabled, Known
<1>8. ASSUME NEW i \in Jobs, Fire(i) \/ Misfire(i) \/ Defer(i) \/ Accept(i)
      PROVE  submitted'[j] + Chance(j)' <= 1 + lost'[j] + again'[j]
  BY <1>1, <1>8 DEF Fire, Misfire, Defer, Accept, Goto, history, Chance,
                    Enabled, Known, CountInv, TypeOK
<1>9. ASSUME NEW i \in Jobs, Refuse(i)
      PROVE  submitted'[j] + Chance(j)' <= 1 + lost'[j] + again'[j]
  BY <1>1, <1>9 DEF Refuse, Edit, Goto, history, Chance, Enabled, Known, CountInv, TypeOK
<1>10. ASSUME NEW i \in Jobs, Submit(i)
       PROVE  submitted'[j] + Chance(j)' <= 1 + lost'[j] + again'[j]
  BY <1>1, <1>10 DEF Submit, Goto, Chance, Enabled, Known, CountInv, TypeOK, CountsOK
<1>11. ASSUME NEW i \in Jobs, Record(i)
       PROVE  submitted'[j] + Chance(j)' <= 1 + lost'[j] + again'[j]
  BY <1>1, <1>11 DEF Record, Counted, LastOf, Edit, Goto, history, Chance,
                     Enabled, Known, CountInv, TypeOK
<1> QED
  BY <1>2, <1>3, <1>4, <1>5, <1>6, <1>7, <1>8, <1>9, <1>10, <1>11 DEF Next, Step

LEMMA TriggerInit == Init => TriggerInv
  BY DEF Init, TriggerInv, ArmedAsEnabled

LEMMA TriggerStep ==
  ASSUME CountInv, TriggerInv, [Next]_vars
  PROVE  TriggerInv'
<1> USE DEF TriggerInv, ArmedAsEnabled, Enabled, Known, Spent, Refused
<1>1. CASE UNCHANGED vars
  BY <1>1 DEF vars, history
<1>2. CASE Start
  BY <1>2 DEF Start
<1>3. CASE Crash
  BY <1>3 DEF Crash
<1>4. ASSUME NEW j \in Jobs, NEW enabled \in BOOLEAN, NEW sound \in BOOLEAN,
             Add(j, enabled, sound)
      PROVE  TriggerInv'
  BY <1>4 DEF Add, Arm, CountInv, TypeOK
<1>5. ASSUME NEW j \in Jobs, NEW enabled \in BOOLEAN, SetEnabled(j, enabled)
      PROVE  TriggerInv'
  BY <1>5 DEF SetEnabled, Edit, Arm, Disarm
<1>6. ASSUME NEW j \in Jobs, Remove(j)
      PROVE  TriggerInv'
  BY <1>6 DEF Remove, Disarm, history
<1>7. ASSUME NEW j \in Jobs, Fire(j)
      PROVE  TriggerInv'
  BY <1>7 DEF Fire, Goto, Disarm, history, CountInv, TypeOK
<1>8. ASSUME NEW j \in Jobs, Misfire(j)
      PROVE  TriggerInv'
  BY <1>8 DEF Misfire, Disarm
<1>9. ASSUME NEW j \in Jobs, Refuse(j)
      PROVE  TriggerInv'
  BY <1>9 DEF Refuse, Edit, Goto, history, CountInv, TypeOK
<1>10. ASSUME NEW j \in Jobs, Defer(j)
       PROVE  TriggerInv'
  BY <1>10 DEF Defer, Arm, Endless, Goto, CountInv, TypeOK
<1>11. ASSUME NEW j \in Jobs, Accept(j)
       PROVE  TriggerInv'
  BY <1>11 DEF Accept, Goto, history, CountInv, TypeOK
<1>12. ASSUME NEW j \in Jobs, Submit(j)
       PROVE  TriggerInv'
  BY <1>12 DEF Submit, Goto, CountInv, TypeOK
<1>13. ASSUME NEW j \in Jobs, Record(j)
       PROVE  TriggerInv'
  <2>1. CASE j \notin Known
    BY <1>13, <2>1 DEF Record, Counted, Goto, history, CountInv, TypeOK
  <2>2. CASE j \in Known
    <3> DEFINE runs == jobs[j].runs + 1
               enabled == jobs[j].enabled /\ ~LastOf(j, runs)
    <3>1. /\ jobs' = [jobs EXCEPT ![j] = [enabled |-> enabled, runs |-> runs,
                                          sound |-> jobs[j].sound]]
          /\ IF enabled THEN armed' = armed ELSE armed' = armed \ {j}
          /\ pc' = [pc EXCEPT ![j] = "idle"]
          /\ up' = up /\ stranded' = stranded
      BY <1>13, <2>2 DEF Record, Counted, Edit, Disarm, Goto, history
    <3>2. enabled => jobs[j].enabled /\ j \notin OneShots
      BY DEF LastOf
    <3>3. enabled \in BOOLEAN
      BY <2>2 DEF CountInv, TypeOK
    <3> HIDE DEF enabled, runs
    <3>4. /\ DOMAIN jobs' = DOMAIN jobs
          /\ jobs'[j].enabled = enabled /\ jobs'[j].sound = jobs[j].sound
          /\ \A i \in Known : i # j => jobs'[i] = jobs[i]
      BY <2>2, <3>1
    <3>5. \A i \in Jobs : i # j => pc'[i] = pc[i]
      BY <3>1 DEF CountInv, TypeOK
    <3>6. Known \subseteq Jobs
      BY DEF CountInv, CountsOK
    <3>7. CASE ~up
      BY <3>1, <3>7
    <3>8. CASE up /\ enabled
      BY <2>2, <3>1, <3>2, <3>4, <3>5, <3>6, <3>8
    <3>9. CASE up /\ ~enabled
      BY <2>2, <3>1, <3>4, <3>5, <3>6, <3>9
    <3> QED  BY <3>7, <3>8, <3>9
  <2> QED  BY <2>1, <2>2
<1> QED
  BY <1>1, <1>2, <1>3, <1>4, <1>5, <1>6, <1>7, <1>8, <1>9, <1>10, <1>11,
     <1>12, <1>13 DEF Next, Step

-----------------------------------------------------------------------------
(* The theorems *)

CronInv == CountInv /\ OneShotInv /\ TriggerInv

LEMMA CronInvariant == Spec => []CronInv
<1>1. Init => CronInv
  BY CountInit, OneShotInit, TriggerInit DEF CronInv
<1>2. CronInv /\ [Next]_vars => CronInv'
  BY CountStep, OneShotStep, TriggerStep DEF CronInv
<1> QED  BY <1>1, <1>2, PTL DEF Spec

\* Every variable of the scheduler keeps its type, and no run_count passes
\* max_runs.
THEOREM CronTyped == Spec => []TypeOK
<1>1. CronInv => TypeOK
  BY DEF CronInv, CountInv
<1> QED  BY <1>1, CronInvariant, PTL

\* run_count misses no submission but those of a process that ended between
\* the submission and its count (_execute_job).
THEOREM RunsCounted == Spec => []RunsAreCounted
<1>1. CronInv => RunsAreCounted
  BY DEF CronInv, CountInv
<1> QED  BY <1>1, CronInvariant, PTL

\* A one-shot submits once, but for crashes and for users who enable it again.
THEOREM OneShotsOnce == Spec => []OneShotOnce
<1>1. CronInv => OneShotOnce
  <2> SUFFICES ASSUME CronInv, NEW j \in OneShots
               PROVE  submitted[j] <= 1 + lost[j] + again[j]
    BY DEF OneShotOnce
  <2>1. submitted[j] \in Nat /\ lost[j] \in Nat /\ again[j] \in Nat
    BY CronAssumption DEF CronInv, CountInv, CountsOK
  <2>2. Chance(j) \in Nat /\ submitted[j] + Chance(j) <= 1 + lost[j] + again[j]
    BY DEF CronInv, OneShotInv, Chance
  <2> QED  BY <2>1, <2>2
<1> QED  BY <1>1, CronInvariant, PTL

\* The triggers in APScheduler follow the enabled flags of the schedules, but for
\* stranded one-shots and refused expressions.
THEOREM TriggersFollowFlags == Spec => []ArmedAsEnabled
<1>1. CronInv => ArmedAsEnabled
  BY DEF CronInv, TriggerInv
<1> QED  BY <1>1, CronInvariant, PTL
=============================================================================
