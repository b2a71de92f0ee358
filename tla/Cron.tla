-------------------------------- MODULE Cron --------------------------------
(***************************************************************************)
(* The durable scheduler (scheduler/cron.py): schedules are added, enabled,*)
(* disabled and removed under a lock, fire on the threads of APScheduler,  *)
(* and each firing submits a job to the queue between two holds of that    *)
(* lock.  Every hold ends with a save of the whole list.                   *)
(*                                                                         *)
(* One process at a time opens the file.  Every CLI command opens it, too,  *)
(* with a manager of its own, and saves the list it loaded over the        *)
(* gateway's: with two processes none of the properties below holds.       *)
(*                                                                         *)
(* External: APScheduler keeps a trigger per id, runs one firing of an id  *)
(* at a time (max_instances = 1), forgets a date trigger once it is due,   *)
(* and skips a firing that is over 120 s late (misfire_grace_time).        *)
(***************************************************************************)
EXTENDS Integers, FiniteSets

CONSTANTS
  Jobs,       \* ids of schedules
  OneShots,   \* those of type "date"; the others recur
  Limit,      \* schedule -> max_runs
  MaxFires,   \* bound: firings of one schedule
  MaxDefers,  \* bound: deferrals by quiet hours of one schedule
  MaxEdits,   \* bound: times a schedule is enabled or disabled by a user
  MaxCrashes  \* bound: ends of a process

ASSUME CronAssumption ==
  /\ OneShots \subseteq Jobs
  /\ Limit \in [Jobs -> Nat \ {0}]
  /\ {MaxFires, MaxDefers, MaxEdits, MaxCrashes} \subseteq Nat

VARIABLES
  jobs,      \* _jobs, and the file: schedule -> its record (sound: see Refused
             \* and Endless)
  up,        \* whether the process runs
  armed,     \* schedules with a trigger in APScheduler
  pc,        \* schedule -> where its firing is
  born,      \* schedules ever added (history)
  submitted, \* schedule -> jobs submitted for it (history)
  lost,      \* schedule -> submissions whose process ended before they were counted
  again,     \* schedule -> times a user enabled it (history)
  stranded,  \* one-shots whose trigger was used up without a submission (history)
  used       \* counters of the bounds

history == <<born, submitted, lost, again, stranded>>
vars == <<jobs, up, armed, pc, history, used>>

NoFiring == [j \in Jobs |-> "idle"]

Init ==
  /\ jobs = [j \in {} |-> 0]
  /\ up = FALSE /\ armed = {} /\ pc = NoFiring
  /\ born = {} /\ stranded = {}
  /\ submitted = [j \in Jobs |-> 0]
  /\ lost = [j \in Jobs |-> 0]
  /\ again = [j \in Jobs |-> 0]
  /\ used = [fires |-> [j \in Jobs |-> 0], defers |-> [j \in Jobs |-> 0],
             edits |-> 0, crashes |-> 0]

Known == DOMAIN jobs
Enabled == {j \in Known : jobs[j].enabled}
\* Recurring ones whose cron expression CronTrigger refuses: the parser makes
\* */60 of "every 60 minutes".
Refused == {j \in Known \ OneShots : ~jobs[j].sound}
\* One-shots whose quiet hours end at no hour of a clock (24).
Endless == {j \in Known \cap OneShots : ~jobs[j].sound}
Edit(j, enabled, runs) ==
  jobs' = [jobs EXCEPT ![j] = [enabled |-> enabled, runs |-> runs, sound |-> @.sound]]
Disarm(j) == armed' = armed \ {j}

\* _schedule removes the trigger first and swallows what the new one raises.
Arm(j, sound) ==
  armed' = IF j \in OneShots \/ sound THEN armed \cup {j} ELSE armed \ {j}
Goto(j, at) == pc' = [pc EXCEPT ![j] = at]

\* Fault: one run too many.
SpentLate(j) == jobs[j].runs > Limit[j]
Spent(j) == jobs[j].runs >= Limit[j]

-----------------------------------------------------------------------------
(* The process *)

\* __init__: load the file, start APScheduler, schedule what is enabled.
Start ==
  /\ ~up /\ up' = TRUE
  /\ armed' = Enabled \ Refused
  /\ stranded' = stranded \ Enabled
  /\ UNCHANGED <<jobs, pc, born, submitted, lost, again, used>>

\* The process ends, with the triggers and the firings it had.
Crash ==
  /\ up /\ used.crashes < MaxCrashes
  /\ used' = [used EXCEPT !.crashes = @ + 1]
  /\ up' = FALSE /\ armed' = {} /\ pc' = NoFiring
  /\ lost' = [j \in Jobs |-> IF pc[j] = "submitted" THEN lost[j] + 1 ELSE lost[j]]
  /\ UNCHANGED <<jobs, born, submitted, again, stranded>>

-----------------------------------------------------------------------------
(* add_job, set_enabled, remove_job *)

Add(j, enabled, sound) ==
  /\ up /\ j \notin born /\ born' = born \cup {j}
  /\ jobs' = [i \in Known \cup {j} |->
               IF i = j THEN [enabled |-> enabled, runs |-> 0, sound |-> sound]
               ELSE jobs[i]]
  /\ IF enabled THEN Arm(j, sound) ELSE UNCHANGED armed
  /\ UNCHANGED <<up, pc, submitted, lost, again, stranded, used>>

\* Fault: only the flag is set.
SetEnabledFlag(j, enabled) ==
  /\ up /\ j \in Known /\ used.edits < MaxEdits
  /\ used' = [used EXCEPT !.edits = @ + 1]
  /\ Edit(j, enabled, jobs[j].runs)
  /\ again' = IF enabled THEN [again EXCEPT ![j] = @ + 1] ELSE again
  /\ UNCHANGED <<up, armed, pc, born, submitted, lost, stranded>>

\* A one-shot of the past is armed too: it fires if it is at most 120 s late.
SetEnabled(j, enabled) ==
  /\ up /\ j \in Known /\ used.edits < MaxEdits
  /\ used' = [used EXCEPT !.edits = @ + 1]
  /\ Edit(j, enabled, jobs[j].runs)
  /\ IF enabled THEN Arm(j, jobs[j].sound) ELSE Disarm(j)
  /\ again' = IF enabled THEN [again EXCEPT ![j] = @ + 1] ELSE again
  /\ stranded' = IF enabled THEN stranded \ {j} ELSE stranded
  /\ UNCHANGED <<up, pc, born, submitted, lost>>

Remove(j) ==
  /\ up /\ j \in Known
  /\ jobs' = [i \in Known \ {j} |-> jobs[i]]
  /\ Disarm(j)
  /\ UNCHANGED <<up, pc, history, used>>

-----------------------------------------------------------------------------
(* A firing *)

\* The trigger is due; that of a one-shot is gone with it.
Fire(j) ==
  /\ up /\ j \in armed /\ pc[j] = "idle"
  /\ used.fires[j] < MaxFires
  /\ used' = [used EXCEPT !.fires[j] = @ + 1]
  /\ Goto(j, "due")
  /\ IF j \in OneShots THEN Disarm(j) ELSE UNCHANGED armed
  /\ UNCHANGED <<jobs, up, history>>

\* A one-shot that is too late is skipped.
Misfire(j) ==
  /\ up /\ j \in armed \cap OneShots
  /\ Disarm(j)
  /\ stranded' = stranded \cup {j}
  /\ UNCHANGED <<jobs, up, pc, born, submitted, lost, again, used>>

\* _execute_job up to its first release of the lock.
Refuse(j) ==
  /\ pc[j] = "due" /\ Goto(j, "idle")
  /\ \/ j \notin Enabled /\ UNCHANGED jobs
     \/ j \in Enabled /\ Spent(j) /\ Edit(j, FALSE, jobs[j].runs)
  /\ UNCHANGED <<up, armed, history, used>>

\* Fault: a deferred one-shot is not scheduled again.
DeferOnly(j) ==
  /\ pc[j] = "due" /\ Goto(j, "idle")
  /\ j \in Enabled /\ ~Spent(j) /\ used.defers[j] < MaxDefers
  /\ used' = [used EXCEPT !.defers[j] = @ + 1]
  /\ UNCHANGED <<jobs, armed, up, history>>

\* In quiet hours a one-shot is scheduled for their end; if there is no such
\* time, replace raises.
Defer(j) ==
  /\ pc[j] = "due" /\ Goto(j, "idle")
  /\ j \in Enabled /\ ~Spent(j) /\ used.defers[j] < MaxDefers
  /\ used' = [used EXCEPT !.defers[j] = @ + 1]
  /\ IF j \in OneShots \ Endless THEN Arm(j, jobs[j].sound) ELSE UNCHANGED armed
  /\ stranded' = stranded \cup ({j} \cap Endless)
  /\ UNCHANGED <<jobs, up, born, submitted, lost, again>>

Accept(j) ==
  /\ pc[j] = "due" /\ Goto(j, "accepted")
  /\ j \in Enabled /\ ~Spent(j)
  /\ UNCHANGED <<jobs, up, armed, history, used>>

\* job_queue.submit, outside the lock; it may raise.
Submit(j) ==
  /\ pc[j] = "accepted"
  /\ \/ /\ Goto(j, "submitted")
        /\ submitted' = [submitted EXCEPT ![j] = @ + 1]
        /\ UNCHANGED stranded
     \/ /\ Goto(j, "idle")
        /\ stranded' = stranded \cup ({j} \cap OneShots)
        /\ UNCHANGED submitted
  /\ UNCHANGED <<jobs, up, armed, born, lost, again, used>>

\* Fault: a one-shot stays enabled.
LastByLimit(j, runs) == runs >= Limit[j]
LastOf(j, runs) == j \in OneShots \/ runs >= Limit[j]

\* Fault: a submission is counted only for an enabled schedule.
CountedEnabled(j) == j \in Enabled
Counted(j) == j \in Known

\* The second hold of the lock: the submission is counted.
Record(j) ==
  /\ pc[j] = "submitted" /\ Goto(j, "idle")
  /\ IF Counted(j)
     THEN LET runs == jobs[j].runs + 1
              enabled == jobs[j].enabled /\ ~LastOf(j, runs)
          IN /\ Edit(j, enabled, runs)
             /\ IF enabled THEN UNCHANGED armed ELSE Disarm(j)
     ELSE UNCHANGED <<jobs, armed>>
  /\ UNCHANGED <<up, history, used>>

Step(j) == Refuse(j) \/ Defer(j) \/ Accept(j) \/ Submit(j) \/ Record(j)

Next ==
  \/ Start \/ Crash
  \/ \E j \in Jobs :
       \/ \E enabled, sound \in BOOLEAN : Add(j, enabled, sound)
       \/ \E enabled \in BOOLEAN : SetEnabled(j, enabled)
       \/ Remove(j)
       \/ Fire(j) \/ Misfire(j) \/ Step(j)

Spec == Init /\ [][Next]_vars

\* Triggers come due, and a thread that runs goes on.
FairSpec == Spec /\ \A j \in Jobs : WF_vars(Fire(j)) /\ WF_vars(Step(j))

-----------------------------------------------------------------------------
(* Properties *)

\* Types of the variables; no run_count passes max_runs.
TypeOK ==
  /\ up \in BOOLEAN /\ Known \subseteq born /\ born \subseteq Jobs
  /\ armed \subseteq Jobs /\ stranded \subseteq OneShots
  /\ pc \in [Jobs -> {"idle", "due", "accepted", "submitted"}]
  /\ \A j \in Known : jobs[j] \in [enabled : BOOLEAN, runs : 0..Limit[j], sound : BOOLEAN]

\* run_count misses no submission but those of a process that ended in between,
\* whoever disables, enables or removes the schedule meanwhile; so max_runs holds
\* across restarts and re-enabling, but for those.
RunsAreCounted ==
  \A j \in Known :
    /\ submitted[j] = jobs[j].runs + lost[j] + (IF pc[j] = "submitted" THEN 1 ELSE 0)
    /\ submitted[j] <= Limit[j] + lost[j]

\* A one-shot submits once, but for crashes and for a user who enables it again.
OneShotOnce == \A j \in OneShots : submitted[j] <= 1 + lost[j] + again[j]

\* An enabled schedule has a trigger, or a firing under way that decides about
\* it, whatever fires, is edited or starts again meanwhile.  Two kinds have
\* neither: a one-shot that misfired, was not submitted or not deferred, and a
\* schedule whose expression is refused, which looks enabled and never fires.
\* One that is disabled or removed has no trigger, but a recurring one found spent.
ArmedAsEnabled ==
  up => /\ \A j \in Enabled \ Refused : j \in armed \/ pc[j] # "idle" \/ j \in stranded
        /\ \A j \in armed : j \in Known \ Refused /\ (jobs[j].enabled \/ Spent(j))

\* An enabled one-shot comes to an end, unless it is stranded: quiet hours that
\* end only delay it.
OneShotSettles ==
  \A j \in OneShots :
    up /\ j \in Enabled ~>
      \/ ~up \/ j \notin Enabled \/ j \in stranded \/ used.fires[j] = MaxFires
=============================================================================
