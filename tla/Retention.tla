------------------------------ MODULE Retention ------------------------------
(***************************************************************************)
(* What the gateway remembers: the queue's table of jobs with its dedupe   *)
(* keys (gateway/queue.py) and the bus's table of runs (core/run_events.py)*)
(* composed.  Both tables drop old entries when they are full, each by an  *)
(* order of ids that is itself a bounded deque.                            *)
(*                                                                         *)
(* Jobs are numbered in the order of their submission, and job j has its   *)
(* own run j, as submit creates it by default.  How a job is executed is   *)
(* the subject of JobQueue: here it is queued, runs, and ends; a time-out  *)
(* leaves its thread behind, late, which may still publish.                *)
(***************************************************************************)
EXTENDS Integers, Sequences, SequencesExt, Positions

CONSTANTS
  Keys,     \* dedupe keys
  NoKey,    \* the empty one
  MaxSize,  \* JobQueue.maxsize
  Batch,    \* jobs one eviction may drop (200)
  MaxRuns,  \* RunBus max_runs
  MaxJobs,  \* bound: jobs ever accepted
  MaxLate   \* bound: late threads at a time

ASSUME RetentionAssumption ==
  /\ NoKey \notin Keys
  /\ {MaxSize, Batch, MaxRuns} \subseteq Nat \ {0} /\ {MaxJobs, MaxLate} \subseteq Nat

VARIABLES
  jobs,    \* id -> its record
  order,   \* ids, oldest first, at most MaxSize
  recent,  \* key -> id of the job last accepted under it
  bus,     \* [run: id -> its record, order: ids, oldest first, at most MaxRuns]
  late,    \* jobs with a thread that went on after their time-out
  count,   \* jobs accepted so far (history)
  told,    \* jobs in flight that somebody asked to stop (history)
  opened,  \* keys whose entry an eviction took from a job in flight (history)
  ghosts   \* runs that a late event created anew (history)

vars == <<jobs, order, recent, bus, late, count, told, opened, ghosts>>

InFlight == {"queued", "running"}
Flying == {j \in DOMAIN jobs : jobs[j].status \in InFlight}
Empty == [x \in {} |-> 0]
Without(f, S) == [x \in DOMAIN f \ S |-> f[x]]
With(f, x, v) == [y \in DOMAIN f \cup {x} |-> IF y = x THEN v ELSE f[y]]

\* deque(maxlen=max).append
Pushed(ids, j, max) == IF Len(ids) < max THEN Append(ids, j) ELSE Append(Tail(ids), j)

\* The first n of the ids in S, or all of them.
FirstOf(ids, S, n) ==
  LET found == {m \in DOMAIN ids : ids[m] \in S}
      N == Cardinality(found)
  IN {ids[Nth(found, i)] : i \in 1..IF n < N THEN n ELSE N}

\* The ids but those in S, in their order.
Dropped(ids, S) == Picked(ids, {m \in DOMAIN ids : ids[m] \notin S})

Init ==
  /\ jobs = Empty /\ order = <<>> /\ recent = Empty
  /\ bus = [run |-> Empty, order |-> <<>>]
  /\ late = {} /\ count = 0
  /\ told = {} /\ opened = {} /\ ghosts = {}

-----------------------------------------------------------------------------
(* The table of runs *)

\* Fault: a run goes whether it has ended or not.
VictimsOfAnyStatus(run, ids, excess) == FirstOf(ids, DOMAIN run, excess)

\* The oldest runs that have ended, as many as there are too many.
Victims(run, ids, excess) ==
  FirstOf(ids, {r \in DOMAIN run : run[r].status = "ended"}, excess)

\* RunBus.start
Started(b, r) ==
  LET new == [status |-> "running", cancel |-> FALSE] IN
  IF r \in DOMAIN b.run
  THEN [b EXCEPT !.run[r] = new]
  ELSE LET ids == Pushed(b.order, r, MaxRuns)
           run == With(b.run, r, new)
           gone == Victims(run, ids, Cardinality(DOMAIN run) - MaxRuns)
       IN [run |-> Without(run, gone), order |-> Dropped(ids, gone)]

\* publish creates a run it does not know.
Published(b, r) == IF r \in DOMAIN b.run THEN b ELSE Started(b, r)

\* _finalize: publish job_finished, then finish.
Ended(b, r) == [Published(b, r) EXCEPT !.run[r].status = "ended"]

\* bus.cancel
Cancelled(b, r) == IF r \in DOMAIN b.run THEN [b EXCEPT !.run[r].cancel = TRUE] ELSE b

-----------------------------------------------------------------------------
(* The table of jobs *)

\* Fault: the ids stay in the order.
EvictedKeepsOrder(full) ==
  LET gone == IF full THEN FirstOf(order, DOMAIN jobs \ Flying, Batch) ELSE {}
      keys == {jobs[j].key : j \in gone}
  IN [jobs |-> Without(jobs, gone), order |-> order, recent |-> Without(recent, keys),
      opened |-> {k \in keys \cap DOMAIN recent : recent[k] \in Flying}]

\* _evict_old, when the table is full.  The key of a job that goes is forgotten,
\* whoever has taken it since.
Evicted(full) ==
  LET gone == IF full THEN FirstOf(order, DOMAIN jobs \ Flying, Batch) ELSE {}
      keys == {jobs[j].key : j \in gone}
  IN [jobs |-> Without(jobs, gone), order |-> Dropped(order, gone),
      recent |-> Without(recent, keys),
      opened |-> {k \in keys \cap DOMAIN recent : recent[k] \in Flying}]

\* Fault: a job that waits is no twin.
TwinRunning(e, k) ==
  k \in DOMAIN e.recent /\ e.recent[k] \in {j \in DOMAIN e.jobs : e.jobs[j].status = "running"}

\* The job under the key is known and in flight.
Twin(e, k) ==
  k \in DOMAIN e.recent /\ e.recent[k] \in {j \in DOMAIN e.jobs : e.jobs[j].status \in InFlight}

\* submit
Submit(k) ==
  LET e == Evicted(Cardinality(DOMAIN jobs) >= 2 * MaxSize)
      j == count + 1
  IN /\ count < MaxJobs
     /\ opened' = opened \cup e.opened
     /\ \/ /\ Twin(e, k)
           /\ jobs' = e.jobs /\ order' = e.order /\ recent' = e.recent
           /\ UNCHANGED <<bus, count>>
        \/ /\ ~Twin(e, k)
           /\ jobs' = With(e.jobs, j, [status |-> "queued", key |-> k])
           /\ order' = Pushed(e.order, j, MaxSize)
           /\ recent' = IF k = NoKey THEN e.recent ELSE With(e.recent, k, j)
           /\ bus' = Started(bus, j)
           /\ count' = j
     /\ UNCHANGED <<late, told, ghosts>>

Begin(j) ==
  /\ jobs[j].status = "queued"
  /\ jobs' = [jobs EXCEPT ![j].status = "running"]
  /\ bus' = Published(bus, j)
  /\ UNCHANGED <<order, recent, late, count, told, opened, ghosts>>

\* _finalize, on bus b.
Settle(j, b) ==
  /\ jobs' = [jobs EXCEPT ![j].status = "ended"]
  /\ bus' = Ended(b, j)
  /\ told' = told \ {j}
  /\ UNCHANGED <<order, recent, count, opened, ghosts>>

\* The handler returns or raises.
Finish(j) == jobs[j].status = "running" /\ Settle(j, bus) /\ UNCHANGED late

\* The handler is told to stop, and outlives its grace.
TimeOut(j) ==
  /\ jobs[j].status = "running" /\ Cardinality(late) < MaxLate
  /\ Settle(j, Cancelled(bus, j))
  /\ late' = late \cup {j}

\* cancel: a job that waits is settled at once, one that runs is told.
Cancel(j) ==
  \/ jobs[j].status = "queued" /\ Settle(j, bus) /\ UNCHANGED late
  \/ /\ jobs[j].status = "running"
     /\ bus' = Cancelled(bus, j)
     /\ told' = told \cup {j}
     /\ UNCHANGED <<jobs, order, recent, late, count, opened, ghosts>>

\* A thread nobody waits for publishes; its run may have been dropped.
LatePublish(j) ==
  /\ j \in late
  /\ bus' = Published(bus, j)
  /\ ghosts' = IF j \in DOMAIN bus.run THEN ghosts ELSE ghosts \cup {j}
  /\ UNCHANGED <<jobs, order, recent, late, count, told, opened>>

LateEnds(j) ==
  /\ j \in late /\ late' = late \ {j}
  /\ UNCHANGED <<jobs, order, recent, bus, count, told, opened, ghosts>>

Next ==
  \/ \E k \in Keys \cup {NoKey} : Submit(k)
  \/ \E j \in DOMAIN jobs : Begin(j) \/ Finish(j) \/ TimeOut(j) \/ Cancel(j)
  \/ \E j \in late : LatePublish(j) \/ LateEnds(j)

Spec == Init /\ [][Next]_vars

-----------------------------------------------------------------------------
(* Properties *)

\* However many jobs and runs come and go, a job in flight can be found, its run
\* says "running" and knows whether it was told to stop; and a run says "running"
\* for nobody else, but the ones that late events created anew.
RunsTellJobs ==
  /\ \A j \in Flying :
       /\ j \in DOMAIN bus.run /\ bus.run[j].status = "running"
       /\ bus.run[j].cancel = (j \in told)
  /\ \A r \in DOMAIN bus.run :
       bus.run[r].status = "running" => r \in Flying \cup ghosts
  /\ told \subseteq Flying

\* Two jobs in flight have one key only if an eviction took the key of the first
\* away, and keys always lead to jobs that are known.
KeysLeadToJobs ==
  /\ \A i, j \in Flying :
       i # j /\ jobs[i].key = jobs[j].key => jobs[i].key \in {NoKey} \cup opened
  /\ \A k \in DOMAIN recent : recent[k] \in DOMAIN jobs /\ jobs[recent[k]].key = k

\* An eviction finds every job but the oldest: the order names known jobs, oldest
\* first, and what it no longer names is older than all it names.
OnlyOldestForgotten ==
  /\ \A m, n \in DOMAIN order : m < n => order[m] < order[n]
  /\ \A m \in DOMAIN order : order[m] \in DOMAIN jobs
  /\ \A j \in DOMAIN jobs \ ToSet(order) : \A m \in DOMAIN order : j < order[m]
=============================================================================
