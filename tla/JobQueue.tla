------------------------------ MODULE JobQueue ------------------------------
(***************************************************************************)
(* The in-process job queue of the gateway (gateway/queue.py): durable     *)
(* intake with de-duplication, one serial lane per session, a semaphore of *)
(* worker slots, handlers that run in pool threads, cooperative cancel,    *)
(* time-outs with a grace period, retries on a timer, drain on shutdown,   *)
(* and recovery of the append-only log by a new process.                   *)
(*                                                                         *)
(* Everything but Submit, ZombieEnds and Crash is a callback of the        *)
(* asyncio loop.  A callback that goes on after a handler returned runs to *)
(* its next await without letting another one in: busy names the lane in   *)
(* that position.  Submit is also called from plain threads (the cron      *)
(* thread, asyncio.to_thread), so busy does not hold it back.              *)
(***************************************************************************)
EXTENDS Integers, Sequences, SequencesExt, FiniteSets

CONSTANTS
  Jobs,         \* job ids
  Sessions,     \* session keys ("platform:user")
  Keys,         \* dedupe keys
  NoJob, NoSession, NoKey,
  SessionOf,    \* job -> its session key
  PriorityOf,   \* job -> its priority, 0 for ordinary work
  KeyOf,        \* job -> its dedupe key or NoKey
  MaxAttempts,  \* job -> executions allowed
  Timed,        \* the jobs with a time-out (timeout # 0)
  Coroutine,    \* the jobs whose handler is a coroutine function
  Aborting,     \* the jobs whose handler may raise asyncio.CancelledError
  Workers,      \* slots of the semaphore
  MayCutDrain   \* may the drain time-out of stop() run out?

ASSUME SentinelAssumption ==
  /\ NoJob \notin Jobs
  /\ NoSession \notin Sessions
  /\ NoKey \notin Keys
ASSUME JobAssumption ==
  /\ SessionOf \in [Jobs -> Sessions]
  /\ PriorityOf \in [Jobs -> Int]
  /\ KeyOf \in [Jobs -> Keys \cup {NoKey}]
  /\ MaxAttempts \in [Jobs -> Nat \ {0}]
  /\ Timed \subseteq Jobs
  /\ Coroutine \subseteq Jobs
  /\ Aborting \subseteq Jobs
ASSUME QueueAssumption ==
  /\ Workers \in Nat \ {0}
  /\ MayCutDrain \in BOOLEAN

VARIABLES
  status,     \* Job.status in self.jobs ("none": no entry)
  attempts,   \* Job.attempts
  outcome,    \* how the last invocation of the handler ended, if it has
  cancelled,  \* cancel flag of the job's run on the run bus
  log,        \* what the durable JSONL log, folded by read_records, says
  order,      \* job ids in the order the log first mentions them
  recent,     \* _recent_keys: dedupe key -> latest job accepted with it
  pending,    \* Lane.pending of each session
  lane,       \* where the drain task of the lane stands; "idle": not running
  current,    \* the job the drain task has popped
  busy,       \* the lane that holds the loop between two awaits
  free,       \* free slots of the semaphore
  waiters,    \* lanes queued at the semaphore, FIFO
  live,       \* <<job, attempt>>: handler invocations still executing
  backoff,    \* jobs whose retry timer (loop.call_later) is armed
  started,    \* _started
  stopped     \* _stopped and _draining, which always change together

jobVars   == <<status, attempts, outcome, cancelled, log>>
laneVars  == <<pending, lane, current, busy>>
slotVars  == <<free, waiters>>
lifeVars  == <<started, stopped>>
vars == <<jobVars, order, recent, laneVars, slotVars, live, backoff, lifeVars>>

InFlight  == {"queued", "running"}
Terminal  == {"succeeded", "failed", "cancelled", "interrupted"}
Statuses  == {"none"} \cup InFlight \cup Terminal
Outcomes  == {"none", "ok", "error", "stop", "crash", "abort", "timeout"}
LaneSteps == {"idle", "ready", "wait", "granted", "exec", "grace"}
Executing == {"exec", "grace"}

\* _load_durable_log reads a "deduped" line of an unknown id as "queued".
Folded(j) == IF log[j] = "deduped" THEN "queued" ELSE log[j]

\* The invocation <<j, a>> is the one the lane of j is waiting for.
Owned(j, a) ==
  /\ lane[SessionOf[j]] \in Executing
  /\ current[SessionOf[j]] = j
  /\ attempts[j] = a

Init ==
  /\ status    = [j \in Jobs |-> "none"]
  /\ attempts  = [j \in Jobs |-> 0]
  /\ outcome   = [j \in Jobs |-> "none"]
  /\ cancelled = [j \in Jobs |-> FALSE]
  /\ log       = [j \in Jobs |-> "none"]
  /\ order     = <<>>
  /\ recent    = [k \in Keys |-> NoJob]
  /\ pending   = [s \in Sessions |-> <<>>]
  /\ lane      = [s \in Sessions |-> "idle"]
  /\ current   = [s \in Sessions |-> NoJob]
  /\ busy      = NoSession
  /\ free      = Workers
  /\ waiters   = <<>>
  /\ live      = {}
  /\ backoff   = {}
  /\ started   = FALSE
  /\ stopped   = FALSE

-----------------------------------------------------------------------------
(* Pieces the handlers share *)

\* A status change that is written to the log in the same breath.
Mark(j, st) ==
  /\ status' = [status EXCEPT ![j] = st]
  /\ log'    = [log EXCEPT ![j] = st]

\* Seeded fault: newest first.
InsertPointsAnywhere(q, j) == {0}

\* _kick: behind the last waiting job of at least this priority; priority 0
\* goes to the tail whatever waits there.
InsertPoints(q, j) ==
  {i \in 0..Len(q) :
     IF PriorityOf[j] = 0 THEN i = Len(q)
     ELSE /\ i > 0 => PriorityOf[q[i]] >= PriorityOf[j]
          /\ \A k \in (i + 1)..Len(q) : PriorityOf[q[k]] < PriorityOf[j]}

Kick(j) ==
  LET s == SessionOf[j] IN
  /\ \E i \in InsertPoints(pending[s], j) :
       pending' = [pending EXCEPT ![s] = InsertAt(@, i + 1, j)]
  /\ lane' = [lane EXCEPT ![s] = IF @ = "idle" /\ started THEN "ready" ELSE @]

\* The head of _execute: the attempt is counted and logged, and the one
\* invocation of the handler begins.
Begin(j) ==
  /\ Mark(j, "running")
  /\ attempts' = [attempts EXCEPT ![j] = @ + 1]
  /\ outcome'  = [outcome EXCEPT ![j] = "none"]
  /\ live'     = live \cup {<<j, attempts[j] + 1>>}

\* Seeded fault: the first waiter is not woken.
ReleaseSilently(s, step) ==
  /\ free' = free + 1
  /\ lane' = [lane EXCEPT ![s] = step]
  /\ UNCHANGED waiters

\* asyncio.Semaphore.release: the slot goes straight to the first waiter.
\* The lane that gives it up goes on to step.
Release(s, step) ==
  IF waiters = <<>>
  THEN /\ free' = free + 1
       /\ lane' = [lane EXCEPT ![s] = step]
       /\ UNCHANGED waiters
  ELSE /\ lane' = [lane EXCEPT ![s] = step, ![Head(waiters)] = "granted"]
       /\ waiters' = Tail(waiters)
       /\ UNCHANGED free

\* Seeded faults: the status is not reset; one attempt too many.
RetryOrFailStale(j, raised) ==
  IF attempts[j] < MaxAttempts[j] /\ raised # "stop"
  THEN /\ log' = [log EXCEPT ![j] = "queued"] /\ UNCHANGED status
       /\ backoff' = backoff \cup {j}
  ELSE Mark(j, "failed") /\ UNCHANGED backoff
RetryOrFailOnceMore(j, raised) ==
  IF attempts[j] <= MaxAttempts[j] /\ raised # "stop"
  THEN Mark(j, "queued") /\ backoff' = backoff \cup {j}
  ELSE Mark(j, "failed") /\ UNCHANGED backoff

\* The exception branch of _execute: back to the queue behind a timer while
\* attempts are left, unless the exception is one of _NO_RETRY_ERRORS.
RetryOrFail(j, raised) ==
  IF attempts[j] < MaxAttempts[j] /\ raised # "stop"
  THEN Mark(j, "queued") /\ backoff' = backoff \cup {j}
  ELSE Mark(j, "failed") /\ UNCHANGED backoff

\* Seeded fault: no release on the way out.
ContinueLeaks(s) ==
  /\ lane' = [lane EXCEPT ![s] = "ready"]
  /\ current' = [current EXCEPT ![s] = NoJob]
  /\ busy' = s
  /\ UNCHANGED slotVars

\* The lane's job is settled: the finally of _drain_lane releases the slot
\* and the drain loop goes on, still without an await.
Continue(s) ==
  /\ Release(s, "ready")
  /\ current' = [current EXCEPT ![s] = NoJob]
  /\ busy' = s

-----------------------------------------------------------------------------
(* Intake *)

\* Seeded fault: a running twin is overlooked.
TwinQueued(j) ==
  /\ KeyOf[j] # NoKey
  /\ recent[KeyOf[j]] # NoJob
  /\ status[recent[KeyOf[j]]] = "queued"

Twin(j) ==
  /\ KeyOf[j] # NoKey
  /\ recent[KeyOf[j]] # NoJob
  /\ status[recent[KeyOf[j]]] \in InFlight

\* The queue has started whenever it has handlers, see README.
Fresh(j) == started /\ ~stopped /\ status[j] = "none" /\ log[j] = "none"

\* submit(): a job in flight with the same key is returned instead, and the
\* log is told that the new id was folded into it.
SubmitDuplicate(j) ==
  /\ Fresh(j) /\ Twin(j)
  /\ log' = [log EXCEPT ![j] = "deduped"]
  /\ order' = Append(order, j)
  /\ UNCHANGED <<status, attempts, outcome, cancelled, recent, laneVars,
                 slotVars, live, backoff, lifeVars>>

Submit(j) ==
  /\ Fresh(j) /\ ~Twin(j)
  /\ Mark(j, "queued")
  /\ order' = Append(order, j)
  /\ recent' = IF KeyOf[j] = NoKey THEN recent
                                   ELSE [recent EXCEPT ![KeyOf[j]] = j]
  /\ Kick(j)
  /\ UNCHANGED <<attempts, outcome, cancelled, current, busy, slotVars, live,
                 backoff, lifeVars>>

-----------------------------------------------------------------------------
(* The drain task of a lane *)

HasLoop(s) == busy \in {NoSession, s}

\* Shutdown: everything the lane still holds is cancelled and it ends.
LaneFlush(s) ==
  /\ lane[s] = "ready" /\ HasLoop(s) /\ stopped /\ pending[s] # <<>>
  /\ LET S == ToSet(pending[s])
         Settled(f) == [j \in Jobs |-> IF j \in S THEN "cancelled" ELSE f[j]]
     IN  status' = Settled(status) /\ log' = Settled(log)
  /\ pending' = [pending EXCEPT ![s] = <<>>]
  /\ lane' = [lane EXCEPT ![s] = "idle"]
  /\ busy' = NoSession
  /\ UNCHANGED <<attempts, outcome, cancelled, order, recent, current,
                 slotVars, live, backoff, lifeVars>>

LaneEnds(s) ==
  /\ lane[s] = "ready" /\ HasLoop(s) /\ pending[s] = <<>>
  /\ lane' = [lane EXCEPT ![s] = "idle"]
  /\ busy' = NoSession
  /\ UNCHANGED <<jobVars, order, recent, pending, current, slotVars, live,
                 backoff, lifeVars>>

Pop(s) ==
  /\ lane[s] = "ready" /\ HasLoop(s) /\ ~stopped /\ pending[s] # <<>>
  /\ current' = [current EXCEPT ![s] = Head(pending[s])]
  /\ pending' = [pending EXCEPT ![s] = Tail(@)]
  /\ busy' = NoSession

\* acquire() finds a free slot and does not suspend: the job starts at once.
LaneStarts(s) ==
  /\ Pop(s)
  /\ free > 0 /\ waiters = <<>>
  /\ Begin(Head(pending[s]))
  /\ free' = free - 1
  /\ lane' = [lane EXCEPT ![s] = "exec"]
  /\ UNCHANGED <<cancelled, order, recent, waiters, backoff, lifeVars>>

\* No slot: the popped job belongs to no queue while its lane waits.
LaneWaits(s) ==
  /\ Pop(s)
  /\ ~(free > 0 /\ waiters = <<>>)
  /\ waiters' = Append(waiters, s)
  /\ lane' = [lane EXCEPT ![s] = "wait"]
  /\ UNCHANGED <<jobVars, order, recent, free, live, backoff, lifeVars>>

\* Seeded fault: the slot that was handed over is counted once more.
LaneResumesTwice(s) ==
  /\ lane[s] = "granted" /\ busy = NoSession
  /\ Begin(current[s])
  /\ free' = free - 1
  /\ lane' = [lane EXCEPT ![s] = "exec"]
  /\ UNCHANGED <<cancelled, order, recent, pending, current, busy, waiters,
                 backoff, lifeVars>>

\* The lane was handed a slot and runs the job it popped, even though a
\* drain or a cancel may have come in between: neither is looked at again.
LaneResumes(s) ==
  /\ lane[s] = "granted" /\ busy = NoSession
  /\ Begin(current[s])
  /\ lane' = [lane EXCEPT ![s] = "exec"]
  /\ UNCHANGED <<cancelled, order, recent, pending, current, busy, slotVars,
                 backoff, lifeVars>>

-----------------------------------------------------------------------------
(* How an execution ends *)

HandlerReturns(s) ==
  LET j == current[s] IN
  /\ lane[s] \in Executing /\ busy = NoSession
  /\ live' = live \ {<<j, attempts[j]>>}
  /\ outcome' = [outcome EXCEPT ![j] = "ok"]
  /\ Mark(j, "succeeded")
  /\ Continue(s)
  /\ UNCHANGED <<attempts, cancelled, order, recent, pending, backoff, lifeVars>>

\* "error": an ordinary exception; "stop": CancelledRun or CancelledError_.
\* Inside the grace period both are wrapped in a TimeoutError.
HandlerRaises(s, raised) ==
  LET j == current[s] IN
  /\ lane[s] \in Executing /\ busy = NoSession
  /\ live' = live \ {<<j, attempts[j]>>}
  /\ outcome' = [outcome EXCEPT ![j] = raised]
  /\ RetryOrFail(j, IF lane[s] = "grace" THEN "timeout" ELSE raised)
  /\ Continue(s)
  /\ UNCHANGED <<attempts, cancelled, order, recent, pending, lifeVars>>

\* Any other BaseException (SystemExit, KeyboardInterrupt): no retry.
HandlerCrashes(s) ==
  LET j == current[s] IN
  /\ lane[s] \in Executing /\ busy = NoSession
  /\ live' = live \ {<<j, attempts[j]>>}
  /\ outcome' = [outcome EXCEPT ![j] = "crash"]
  /\ Mark(j, "failed")
  /\ Continue(s)
  /\ UNCHANGED <<attempts, cancelled, order, recent, pending, backoff, lifeVars>>

\* The handler itself raises asyncio.CancelledError (a pool thread's
\* concurrent.futures.CancelledError becomes one): _execute re-raises it,
\* which ends the drain task whatever its lane still holds.
HandlerAborts(s) ==
  LET j == current[s] IN
  /\ lane[s] \in Executing /\ busy = NoSession /\ j \in Aborting
  /\ live' = live \ {<<j, attempts[j]>>}
  /\ outcome' = [outcome EXCEPT ![j] = "abort"]
  /\ Mark(j, "cancelled")
  /\ Release(s, "idle")
  /\ current' = [current EXCEPT ![s] = NoJob]
  /\ UNCHANGED <<attempts, cancelled, order, recent, pending, busy, backoff,
                 lifeVars>>

\* wait_for gives up on a coroutine handler and cancels it.
TimeoutCoroutine(s) ==
  LET j == current[s] IN
  /\ lane[s] = "exec" /\ busy = NoSession /\ j \in Timed \cap Coroutine
  /\ live' = live \ {<<j, attempts[j]>>}
  /\ outcome' = [outcome EXCEPT ![j] = "timeout"]
  /\ RetryOrFail(j, "timeout")
  /\ Continue(s)
  /\ UNCHANGED <<attempts, cancelled, order, recent, pending, lifeVars>>

\* Seeded fault: the thread is not told.
TimeoutThreadUntold(s) ==
  LET j == current[s] IN
  /\ lane[s] = "exec" /\ busy = NoSession /\ j \in Timed \ Coroutine
  /\ lane' = [lane EXCEPT ![s] = "grace"]
  /\ UNCHANGED <<jobVars, order, recent, pending, current, busy, slotVars,
                 live, backoff, lifeVars>>

\* A thread cannot be stopped: its run is flagged and it gets cancel_grace.
TimeoutThread(s) ==
  LET j == current[s] IN
  /\ lane[s] = "exec" /\ busy = NoSession /\ j \in Timed \ Coroutine
  /\ cancelled' = [cancelled EXCEPT ![j] = TRUE]
  /\ lane' = [lane EXCEPT ![s] = "grace"]
  /\ UNCHANGED <<status, attempts, outcome, log, order, recent, pending,
                 current, busy, slotVars, live, backoff, lifeVars>>

\* Seeded fault: the thread is awaited without a bound.
GraceNeverExpires(s) == FALSE /\ UNCHANGED vars

\* The grace period runs out as well: the lane goes on, the thread too.
GraceExpires(s) ==
  LET j == current[s] IN
  /\ lane[s] = "grace" /\ busy = NoSession
  /\ outcome' = [outcome EXCEPT ![j] = "timeout"]
  /\ RetryOrFail(j, "timeout")
  /\ Continue(s)
  /\ UNCHANGED <<attempts, cancelled, order, recent, pending, live, lifeVars>>

\* A thread no lane waits for any more returns: nobody looks at its result.
ZombieEnds(j, a) ==
  /\ <<j, a>> \in live /\ ~Owned(j, a)
  /\ live' = live \ {<<j, a>>}
  /\ UNCHANGED <<jobVars, order, recent, laneVars, slotVars, backoff, lifeVars>>

-----------------------------------------------------------------------------
(* Timers and control *)

\* _requeue, the callback of the retry timer.
RequeueRefused(j) ==
  /\ j \in backoff /\ busy = NoSession /\ stopped
  /\ Mark(j, "interrupted")
  /\ backoff' = backoff \ {j}
  /\ UNCHANGED <<attempts, outcome, cancelled, order, recent, laneVars,
                 slotVars, live, lifeVars>>

Requeue(j) ==
  /\ j \in backoff /\ busy = NoSession /\ ~stopped
  /\ Kick(j)
  /\ backoff' = backoff \ {j}
  /\ UNCHANGED <<jobVars, order, recent, current, busy, slotVars, live, lifeVars>>

\* cancel() of a job that still stands in its lane.
CancelPending(j) ==
  LET s == SessionOf[j] IN
  /\ busy = NoSession /\ status[j] = "queued"
  /\ \E i \in DOMAIN pending[s] :
       /\ pending[s][i] = j
       /\ pending' = [pending EXCEPT ![s] = RemoveAt(@, i)]
  /\ Mark(j, "cancelled")
  /\ UNCHANGED <<attempts, outcome, cancelled, order, recent, lane, current,
                 busy, slotVars, live, backoff, lifeVars>>

\* cancel() of a job that is running, popped or between two attempts: only
\* its run is flagged.  (An interrupted job passes the guard of the code as
\* well; it has no handler left to tell.)
CancelCooperative(j) ==
  /\ busy = NoSession
  /\ status[j] \in InFlight
  /\ ~(status[j] = "queued" /\ j \in ToSet(pending[SessionOf[j]]))
  /\ cancelled' = [cancelled EXCEPT ![j] = TRUE]
  /\ UNCHANGED <<status, attempts, outcome, log, order, recent, laneVars,
                 slotVars, live, backoff, lifeVars>>

-----------------------------------------------------------------------------
(* The life of the queue *)

\* start(): a new semaphore; the log's jobs that self.jobs lacks come back,
\* those without a verdict as interrupted.
Start ==
  /\ ~started
  /\ status' = [j \in Jobs |->
                  IF status[j] # "none" \/ log[j] = "none" THEN status[j]
                  ELSE IF Folded(j) \in InFlight THEN "interrupted"
                  ELSE log[j]]
  /\ free' = Workers
  /\ waiters' = <<>>
  /\ started' = TRUE
  /\ stopped' = FALSE
  /\ UNCHANGED <<attempts, outcome, cancelled, log, order, recent, laneVars,
                 live, backoff>>

\* stop(): intake is closed, then the drain tasks are waited for.
Stop ==
  /\ started /\ ~stopped /\ busy = NoSession
  /\ stopped' = TRUE
  /\ UNCHANGED <<jobVars, order, recent, laneVars, slotVars, live, backoff,
                 started>>

AllIdle == \A s \in Sessions : lane[s] = "idle"

\* Seeded fault: the drain tasks are not waited for.
StopReturnsAtOnce ==
  /\ started /\ stopped /\ busy = NoSession
  /\ started' = FALSE
  /\ UNCHANGED <<jobVars, order, recent, laneVars, slotVars, live, backoff,
                 stopped>>

StopReturns ==
  /\ started /\ stopped /\ busy = NoSession
  /\ AllIdle
  /\ started' = FALSE
  /\ UNCHANGED <<jobVars, order, recent, laneVars, slotVars, live, backoff,
                 stopped>>

\* The drain times out and every drain task is cancelled where it awaits: a
\* running job gets its verdict, one that was popped and waits for a slot is
\* dropped without one, and what is still pending stays in its lane.
StopCutsDrain ==
  LET S == {j \in Jobs : \E s \in Sessions :
                           lane[s] \in Executing /\ current[s] = j}
      Settled(f) == [j \in Jobs |-> IF j \in S THEN "cancelled" ELSE f[j]]
  IN
  /\ MayCutDrain
  /\ started /\ stopped /\ busy = NoSession
  /\ ~AllIdle /\ \A s \in Sessions : lane[s] # "ready"
  /\ status' = Settled(status)
  /\ log'    = Settled(log)
  /\ live'   = {i \in live : ~(i[1] \in S \cap Coroutine /\ i[2] = attempts[i[1]])}
  /\ lane'    = [s \in Sessions |-> "idle"]
  /\ current' = [s \in Sessions |-> NoJob]
  /\ free'    = Workers
  /\ waiters' = <<>>
  /\ started' = FALSE
  /\ UNCHANGED <<attempts, outcome, cancelled, order, recent, pending, busy,
                 backoff, stopped>>

\* The process dies; only the log is left.
Crash ==
  /\ status'    = [j \in Jobs |-> "none"]
  /\ attempts'  = [j \in Jobs |-> 0]
  /\ outcome'   = [j \in Jobs |-> "none"]
  /\ cancelled' = [j \in Jobs |-> FALSE]
  /\ recent'    = [k \in Keys |-> NoJob]
  /\ pending'   = [s \in Sessions |-> <<>>]
  /\ lane'      = [s \in Sessions |-> "idle"]
  /\ current'   = [s \in Sessions |-> NoJob]
  /\ busy'      = NoSession
  /\ free'      = Workers
  /\ waiters'   = <<>>
  /\ live'      = {}
  /\ backoff'   = {}
  /\ started'   = FALSE
  /\ stopped'   = FALSE
  /\ UNCHANGED <<log, order>>

-----------------------------------------------------------------------------
Ends(s) ==
  \/ HandlerReturns(s)
  \/ \E raised \in {"error", "stop"} : HandlerRaises(s, raised)
  \/ HandlerCrashes(s)
  \/ HandlerAborts(s)
  \/ TimeoutCoroutine(s)
  \/ GraceExpires(s)

LaneTurn(s) ==
  LaneFlush(s) \/ LaneEnds(s) \/ LaneStarts(s) \/ LaneWaits(s) \/ LaneResumes(s)

JobStep(j) ==
  \/ SubmitDuplicate(j) \/ Submit(j)
  \/ RequeueRefused(j) \/ Requeue(j)
  \/ CancelPending(j) \/ CancelCooperative(j)

Next ==
  \/ \E j \in Jobs : JobStep(j)
  \/ \E s \in Sessions : LaneTurn(s) \/ TimeoutThread(s) \/ Ends(s)
  \/ \E i \in live : ZombieEnds(i[1], i[2])
  \/ Start \/ Stop \/ StopReturns \/ StopCutsDrain
  \/ Crash

Spec == Init /\ [][Next]_vars

\* The loop runs every callback that is due and every timer fires.  Nothing
\* is assumed of handlers: they may run for ever.
Fairness ==
  /\ \A s \in Sessions :
       /\ WF_vars(LaneTurn(s))
       /\ WF_vars(TimeoutThread(s) \/ TimeoutCoroutine(s))
       /\ WF_vars(GraceExpires(s))
  /\ \A j \in Jobs : WF_vars(RequeueRefused(j) \/ Requeue(j))
  /\ WF_vars(StopReturns)
  /\ WF_vars(StopCutsDrain)
  /\ WF_vars(Start)

FairSpec == Spec /\ Fairness

-----------------------------------------------------------------------------
(* Properties *)

TypeOK ==
  /\ status    \in [Jobs -> Statuses]
  /\ attempts  \in [Jobs -> Nat]
  /\ outcome   \in [Jobs -> Outcomes]
  /\ cancelled \in [Jobs -> BOOLEAN]
  /\ log       \in [Jobs -> Statuses \cup {"deduped"}]
  /\ order     \in Seq(Jobs)
  /\ recent    \in [Keys -> Jobs \cup {NoJob}]
  /\ pending   \in [Sessions -> Seq(Jobs)]
  /\ lane      \in [Sessions -> LaneSteps]
  /\ current   \in [Sessions -> Jobs \cup {NoJob}]
  /\ busy      \in Sessions \cup {NoSession}
  /\ free      \in Nat
  /\ waiters   \in Seq(Sessions)
  /\ live      \subseteq Jobs \X Nat
  /\ backoff   \subseteq Jobs
  /\ started   \in BOOLEAN
  /\ stopped   \in BOOLEAN

\* A job is shown as running exactly while the lane of its session waits for
\* it: no status is left behind by a retry, a time-out, a cut drain or a
\* process that died.
RunningIsOwned ==
  \A j \in Jobs :
    status[j] = "running" <=> /\ lane[SessionOf[j]] \in Executing
                              /\ current[SessionOf[j]] = j

SlotHolders == {s \in Sessions : lane[s] \in {"granted"} \cup Executing}

\* No slot is leaked or released twice, whichever way an execution ends, and
\* no lane sleeps at the semaphore while a slot is free.
SlotsConserved ==
  /\ free + Cardinality(SlotHolders) = Workers
  /\ waiters # <<>> => free = 0
  /\ ToSet(waiters) = {s \in Sessions : lane[s] = "wait"}

\* Cancel comes before abandon: an invocation that goes on after its lane
\* gave up on it has been told to stop (should_cancel() is true for it).
ZombieToldToStop ==
  \A i \in live :
    Owned(i[1], i[2]) \/ cancelled[i[1]] \/ status[i[1]] = "cancelled"

\* Work submitted under one dedupe key is in flight at most once.
DedupeExclusive ==
  \A j, k \in Jobs :
    /\ j # k /\ KeyOf[j] # NoKey /\ KeyOf[j] = KeyOf[k]
    => ~(status[j] \in InFlight /\ status[k] \in InFlight)

\* Within a session, jobs of equal priority have their first start in the
\* order of submission, whatever the time-outs, retries and other sessions do.
FirstStartInOrder ==
  ~MayCutDrain =>
    \A m, n \in DOMAIN order :
      LET j == order[m]  k == order[n] IN
      /\ m < n
      /\ SessionOf[j] = SessionOf[k] /\ PriorityOf[j] = PriorityOf[k]
      /\ attempts[k] > 0
      /\ status[j] \in InFlight
      => attempts[j] > 0

\* What the log says of a job is what the queue says of it, except that a
\* restart calls interrupted what the log left without a verdict.
LogAgrees ==
  \A j \in Jobs :
    \/ status[j] = "none"
    \/ status[j] = log[j]
    \/ status[j] = "interrupted" /\ Folded(j) \in InFlight

\* A verdict in the log is never overwritten, by a late handler, a cancel, a
\* retry timer, a drain or a new process.
VerdictIsFinal ==
  [][\A j \in Jobs : log[j] \in Terminal => log'[j] = log[j]]_vars

\* A lane of which some handler may raise asyncio.CancelledError.
MayAbort(s) == \E j \in Aborting : SessionOf[j] = s

\* When stop() has come back by itself, nothing of the queue is left running
\* and nothing is left to be started: what has no verdict yet is on a retry
\* timer, which will find the queue stopped, or stands in a lane whose drain
\* task an asyncio.CancelledError of a handler ended.
DrainLeavesNothing ==
  ~MayCutDrain /\ stopped /\ ~started =>
    \A j \in Jobs : status[j] \in InFlight =>
      /\ status[j] = "queued"
      /\ \/ j \in backoff
         \/ MayAbort(SessionOf[j]) /\ j \in ToSet(pending[SessionOf[j]])

\* Every job that was accepted gets a verdict: through its handler, its
\* time-outs, the drain or, after a crash, the restart.
EveryJobSettles ==
  \A j \in Jobs : status[j] = "queued" ~> status[j] \in Terminal

\* stop() comes back, however long the handlers take.
StopComesBack == (started /\ stopped) ~> ~started

\* The durable log implements the ledger.
Ledger == INSTANCE JobLedger WITH
  record <- [j \in Jobs |-> IF log[j] = "deduped" THEN "none" ELSE log[j]],
  tries  <- attempts
ImplementsLedger == Ledger!Spec

-----------------------------------------------------------------------------
(* The inductive invariant behind the theorems of JobQueueProofs *)

Holding == {"wait", "granted"} \cup Executing

\* A drain task past its pop holds a job of its own session, lanes queue once
\* at the semaphore, and a queue that is not started has no drain task.
LaneInv ==
  /\ \A s \in Sessions :
       IF lane[s] \in Holding THEN current[s] \in Jobs /\ SessionOf[current[s]] = s
                             ELSE current[s] = NoJob
  /\ \A s \in Sessions : \A i \in DOMAIN pending[s] : SessionOf[pending[s][i]] = s
  /\ \A i \in DOMAIN waiters : lane[waiters[i]] = "wait"
  /\ \A i, k \in DOMAIN waiters : waiters[i] = waiters[k] => i = k
  /\ ~started => AllIdle

\* A job stands at most once in its lane's deque, and while it does, or is
\* popped, or waits for its retry timer, it is queued and nowhere else.
PlaceInv ==
  /\ \A s \in Sessions : \A i \in DOMAIN pending[s] :
       /\ status[pending[s][i]] = "queued"
       /\ pending[s][i] \notin backoff
       /\ pending[s][i] # current[s]
  /\ \A s \in Sessions : \A i, k \in DOMAIN pending[s] :
       pending[s][i] = pending[s][k] => i = k
  /\ \A j \in backoff : status[j] = "queued" /\ current[SessionOf[j]] # j
  /\ \A s \in Sessions :
       lane[s] \in {"wait", "granted"} => status[current[s]] = "queued"

\* A thread in its grace period has been told to stop.
GraceInv == \A s \in Sessions : lane[s] = "grace" => cancelled[current[s]]

\* A queued job has an attempt left; one that is unknown has had none.
AttemptInv ==
  \A j \in Jobs :
    /\ status[j] = "queued" => attempts[j] < MaxAttempts[j]
    /\ status[j] = "none" => attempts[j] = 0

\* The job in flight under a dedupe key is the one recorded for the key.
KeyInv ==
  \A j \in Jobs : KeyOf[j] # NoKey /\ status[j] \in InFlight => recent[KeyOf[j]] = j

SlotInv ==
  /\ IsFiniteSet(SlotHolders)
  /\ SlotsConserved

\* The job waits for its timer, is popped, or stands in its lane.
Stands(j) ==
  \/ j \in backoff
  \/ current[SessionOf[j]] = j
  \/ j \in ToSet(pending[SessionOf[j]])

\* Unless a drain is cut short, a queued job has a place, a lane without a drain
\* task is empty, but for an abort, and a queue that never ran has no timers.
StandInv ==
  ~MayCutDrain =>
    /\ \A j \in Jobs : status[j] = "queued" => Stands(j)
    /\ \A s \in Sessions : lane[s] = "idle" /\ pending[s] # <<>> => MayAbort(s)
    /\ ~started /\ ~stopped => backoff = {}

\* A job that waits for its first start.
Waiting(j) == status[j] = "queued" /\ attempts[j] = 0

\* j was submitted before k, to the same lane and with the same priority.
Before(j, k) ==
  /\ SessionOf[j] = SessionOf[k] /\ PriorityOf[j] = PriorityOf[k]
  /\ \E m, n \in DOMAIN order : m < n /\ order[m] = j /\ order[n] = k

\* An id is mentioned first once; while a job waits for its first start, those
\* that came after it have not started, are not popped and stand behind it.
TurnInv ==
  /\ \A j \in Jobs : status[j] = "running" \/ j \in backoff => attempts[j] > 0
  /\ \A m \in DOMAIN order : log[order[m]] # "none"
  /\ \A m, n \in DOMAIN order : order[m] = order[n] => m = n
  /\ ~MayCutDrain =>
       \A j, k \in Jobs : Waiting(j) /\ Before(j, k) =>
         LET s == SessionOf[j] IN
         /\ attempts[k] = 0 /\ current[s] # k
         /\ \A a, b \in DOMAIN pending[s] :
              pending[s][a] = j /\ pending[s][b] = k => a < b

Inv ==
  /\ LaneInv /\ PlaceInv /\ RunningIsOwned
  /\ GraceInv /\ ZombieToldToStop
  /\ AttemptInv /\ KeyInv /\ LogAgrees /\ SlotInv
  /\ StandInv /\ TurnInv

-----------------------------------------------------------------------------
(* What the documentation says and the code does not do *)

\* CancelledRun and CancelledError_ never retry.
StopIsNotRetried ==
  \A j \in Jobs : outcome[j] = "stop" => status[j] # "queued"
=============================================================================
