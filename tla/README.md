# Verification of Hermus

TLA+ modules, TLC runs and TLAPS proofs about the parts of this repository that
keep state under concurrency, failure or retries. The modules are translated from
the source; `PROJECT.json` names, for every definition, the lines it stands for.

## 1. The system

Hermus is an agent runtime in one Python process: an HTTP/WebSocket gateway
accepts work, a queue runs it in pool threads, agent loops call models and tools,
and a run bus streams what happens to clients. The inventory below follows the
source; `PROJECT.json` lists every component with its status.

| Component | State it keeps | Operations and interactions | What is hard | What makes it correct |
|---|---|---|---|---|
| Gateway job queue, `gateway/queue.py` | job table, dedupe keys, a lane (deque and drain task) per session, semaphore, retry timers, JSONL log | `submit` from the loop and from threads; drain tasks on the loop; handlers in pool threads; `cancel`; `start`/`stop`; recovery from the log | threads that outlive a time-out, retries outside the lane, drain against waiting lanes, crash and recovery | every job keeps a place and gets one verdict; slots conserved; session order; dedupe; the log is true |
| Run bus, `core/run_events.py` | per run: event ring, sequence number, status, cancel flag, steering inbox, subscribers; a table of runs | `start`, `publish`, `finish`, `cancel`, `steer`, `subscribe` from any thread; the queue starts, cancels and finishes runs | delivery outside the lock, slow consumers, eviction of runs, late publishers | a subscriber gets every event once; streams end; a run in flight is never evicted |
| Gateway lifecycle, `gateway/lifecycle.py`, `gateway/gateway.py` | readiness and drain flags | startup registers handlers, then starts queue and cron; shutdown stops them | order of shutdown | nothing accepted after the drain began |
| Redis transport, `gateway/redis_backend.py` | consumer group position | reads entries and calls `submit`, acknowledges | acknowledgement of a refused entry, delivery twice | at least once into the queue |
| Cron, `scheduler/cron.py` | job list and file, triggers in APScheduler | API and CLI edit; a firing checks, submits to the queue and records, holding the lock twice | edits and crashes between submission and record, quiet hours, one-shots | runs are counted; a one-shot submits once; triggers match flags |
| Distributed board, `core/distributed.py` | nodes with tokens, assignments with leases, one JSON file | register, heartbeat, assign, renew, fail over, complete | late calls of a worker that lost its lease, stale nodes, stop read before the lock | only the current ticket renews or completes; one live lease per job |
| Reliability helpers, `core/reliability.py` | breaker state, receipts of the idempotency store | run through a breaker, `begin`/`finish` of a receipt | concurrent callers in the half-open state, death between begin and finish | one probe; one execution per key |
| Missions, `core/mission.py`, `core/agent_dag.py` | report on disk (state, budget, graph), a copy in the engine's thread | start, execute rounds, verify, repair, resume, restart, extend | death between saves, saves that fail, two copies of the graph, budget arithmetic across extensions | bounded overspending; stages after their inputs; completed means all stages |
| Agent pool, `core/agents/` | agents by id, `agents.json`, keys with slots, runs of a team, message history | create, assign, run a task, sleep, wake, destroy, clean up, stop and restore; orchestrate | two tasks on one agent, clean-up and restore around a task that runs | slots per key; no agent cleaned up while it works; what is persisted comes back |
| Computer task control, `core/computer/task_control.py`, `state_machine.py`, `computer_agent.py` | control state, requests, two stop latches; current state, attempts, transitions, replans | pause, resume, cancel, stop and release from routes; the task's thread looks at them between states | requests between the checks, retries and replans that do not look | at most one more state after stop or cancel; pauses answered; the task ends |
| Approvals, `core/approval.py` | requests, bundles and grants, one JSON file each, read and rewritten without a lock | request, resolve, bundle, revoke, consume a use | a rewrite from a stale read; death between the grant and the request | one answer per request; uses are counted |
| Rollback, `core/rollback.py` | checkpoints (copies of files), one git transaction and its file | checkpoint, restore, delete; start, commit, abort | files that cannot be copied, a merge that conflicts, death inside a transaction | restore gives back the checkpoint; committed work is kept |
| Emergency stop, `core/emergency_stop.py` | latch | set, clear, check | runs that start meanwhile | nothing proceeds while set |
| Provider keys, `core/multi_key.py` | per-key cooldowns | pick, report | everyone exhausted, clock | no key used in its cooldown |
| Delegation, `core/delegation.py` | tree and node statuses, clients at hand, pending requests, worker processes | `fanout` over a thread pool, JSON-RPC to workers, fallback in process, `cancel_tree` | worker death, late answers, time-outs that lead to a second execution | bounded workers, none left behind; at most two executions; the fan-out returns |
| MCP client, executive, world state, presence, sentinel | smaller caches and counters | see `PROJECT.json` | time-outs, limits | per component |
| Agent loop, LLM access, memory, web, android, computer vision, tools, UI, installers | - | I/O, ranking, presentation | - | not modelled |

How they interact: routes, channels, cron and the Redis consumer call
`JobQueue.submit`; the queue calls `RunBus.start/publish/cancel/finish`; handlers
in pool threads poll `RunBus.is_cancelled`; clients subscribe to the bus; shutdown
calls `JobQueue.stop`, and the supervisor (`docker-compose.yml`, `restart:
unless-stopped`) starts a new process, whose `JobQueue.start` reads the log.
A firing of cron submits a job to the queue; a queue handler may run a mission or
an agent, whose tools delegate and drive the desktop. Missions, the board, cron
and the desktop control meet only through the queue and the emergency stop, so
each has a module of its own; the queue's tables and the bus's table, which do act on
each other, are composed in `Retention`.

## 2. Plan

1. `JobQueue` with its ledger, runs and proofs; `RunBus`, the stream of one run
   (done).
2. `Retention`, the job table composed with the table of runs; `Mission`,
   `ComputerTask`, `Distributed`, `Cron` and `Delegation`, each with its proofs (done).
3. A theorem for every invariant and action property that a run checks, and for the
   refinement (done). Left: abstract specifications of the run's stream and of the board,
   and their refinement proofs.
4. Further components with state worth a model: the agent pool with its teams first
   (`core/agents/`), then the MCP client, approvals, rollback, provider keys, and the
   circuit breaker and idempotency store of `core/reliability.py`, which only routes of their
   own reach; `LaneThreads`, `_kick` from a plain thread against `_drain_lane`, split into
   their accesses.

Abstract specification: `JobLedger` for the log of the queue.

## 3. Modules

### JobQueue

One module for `gateway/queue.py`. A callback of the asyncio loop runs to its next
`await` undisturbed, so it is one action, with two refinements:

* after a handler has returned, `_execute` finishes the job, `_drain_lane`
  releases the slot and takes the next job without awaiting. This run is
  split into its parts and `busy` names the lane that holds the loop in between:
  other lanes, timers, `cancel` and `stop` wait for it, `submit` does not, because
  cron and `asyncio.to_thread` call it from plain threads;
* `asyncio.Semaphore.acquire` suspends only when no slot is free: `LaneStarts`
  is the path without suspension, `LaneWaits` and `LaneResumes` the other.
  `Release` hands the slot to the first waiter (Python 3.11).

| Variable | In the code |
|---|---|
| `status`, `attempts` | `Job.status`, `Job.attempts` in `self.jobs` |
| `outcome` | how the last handler invocation ended (history, read by one property) |
| `cancelled` | the cancel flag of the job's run on the bus |
| `log`, `order` | the JSONL log as `read_records` folds it, and its order of ids |
| `recent` | `_recent_keys` |
| `pending`, `lane`, `current` | `Lane.pending`, the point the drain task has reached, its local `job` |
| `free`, `waiters` | the semaphore |
| `live` | invocations `<<job, attempt>>` still executing, in a thread or as a coroutine |
| `backoff` | armed `loop.call_later(_requeue)` timers |
| `started`, `stopped` | `_started`; `_stopped` and `_draining`, set together |

The actions are the operations: `Submit`, `SubmitDuplicate`; `LaneFlush`,
`LaneEnds`, `LaneStarts`, `LaneWaits`, `LaneResumes` for `_drain_lane`;
`HandlerReturns`, `HandlerRaises`, `HandlerCrashes`, `HandlerAborts`,
`TimeoutCoroutine`, `TimeoutThread`, `GraceExpires`, `ZombieEnds` for `_execute`;
`RequeueRefused`, `Requeue`; `CancelPending`, `CancelCooperative`; `Start`,
`Stop`, `StopReturns`, `StopCutsDrain`; `Crash`.

Abstractions, each with its reason:

* A job has one fixed session, priority, key and attempt limit (constants), and its
  own run on the bus, as `submit` creates it by default.
* `submit` has no guard of its own on the start of the queue (`Fresh` has `started`):
  `realtime.startup` registers the handlers and calls `start` without awaiting in
  between, before that `submit` raises `KeyError`, and after `stop` it refuses. So
  `submit` of an unknown kind and a handler that disappears are left out, too; section
  6 names the processes that register handlers and start no queue.
* A handler's own `TimeoutError` is indistinguishable from the time-out in the
  code; it is `TimeoutThread` followed by `HandlerRaises`.
* The pool always has a thread. Saturation only delays a start.
* `StopCutsDrain` delivers the cancellation to all drain tasks in one step and only
  when none is about to take a turn. `drain_timeout = 0` is the same as a drain
  that is cut at once without cancelling, and is left out.
* A crash falls between two steps; a torn last line of the log is skipped by
  `read_records` and equals a crash before the write.
* The job table's limits are in `Retention`. `replay_limit`, `tail`, result files
  and lookups that only read are left out; the Redis consumer is another caller of
  `submit`.
* The steps inside `_kick` called from a plain thread are one step here; the race
  is for `LaneThreads`.
* Attempts and jobs are bounded by the constants, so no counter needs a cap.

### JobLedger

What the log promises about one job, without lanes, slots, timers or threads:
accepted once, executed at most `MaxAttempts` times per process, possibly back to
the queue between executions, at most one verdict, never overwritten. `JobQueue`
implements it through `record <- log` (a `deduped` line is no record) and
`tries <- attempts`.

### RunBus

The stream of one run (`core/run_events.py`) and the clients that follow it
(`_stream_run` in `gateway/realtime.py`, behind every SSE route and the WebSocket).
A call of the bus is several critical sections with plain code in between, and
each is an action: `Publish`, `Finish`, `Restart` (`start` on a run that exists),
`Cancel`, `Steer` and `PendingSteers` are the first section of their calls,
`Continue` each later publication, `Offer` one `call_soon_threadsafe` outside the
lock. `Subscribe`, `PutNowait`, `Receive`, `ReceiveClosed` and `Leave` run on the
asyncio loop and wait while the loop thread is itself inside a call.

| Variable | In the code |
|---|---|
| `seq`, `ring`, `status`, `cancelled`, `steers` | `Run.seq`, `events`, `status`, `cancel`, `steer_inbox` |
| `gen` | how often `start` found the run in place (history) |
| `plan`, `sending`, `targets` | what a thread's call has still to publish, the item it delivers, the subscribers left in its copy |
| `client`, `since`, `joins` | subscribed or not (`Run.subscribers`), the parameter `after`, subscriptions so far |
| `ready`, `inbox` | callbacks the loop owes to the client's queue; the `asyncio.Queue` |
| `got`, `dropped` | what the client received through this subscription; the ids a limit cost it (history) |
| `given`, `pushed`, `asked` | instructions handed out, pushed out of a full inbox, accepted (history) |

Abstractions: only `run_finished` and the end marker change what a stream does,
so all other events are "progress", and the three ended statuses are one. A
client resumes after the last id it received, or from 0. The message that is
being sent when a client disconnects is lost to it or not; the model lets the client
leave before or after it. What the queue of a client that left still receives is
forgotten. Sinks, queries that only read and the issue log are left out; the
table of runs and its eviction are in `Retention`. The replay picks the events after
the cursor by their positions (`Positions`): a filter of a sequence without
recursion, which the proofs can count.

### Retention

`JobQueue.jobs`, `_order`, `_recent_keys` and `_evict_old`, composed with
`RunBus._runs` and `_order`. Both orders are deques with a `maxlen`, so they forget
the oldest id although its entry stays in the dictionary; `Pushed` does that.

| Variable | In the code |
|---|---|
| `jobs`, `order`, `recent` | `self.jobs`, `self._order`, `self._recent_keys` |
| `bus` | `RunBus._runs` and `RunBus._order` |
| `late` | threads that outlived their job's time-out |
| `told`, `opened`, `ghosts` | jobs somebody asked to stop, keys an eviction took from a job in flight, runs created anew by a late event (history) |

`Submit` is `submit` from the capacity check to `bus.start`; `Begin`, `Finish`,
`TimeOut`, `Cancel`, `LatePublish` and `LateEnds` keep of `JobQueue`'s actions what
they do to the tables. Jobs have one attempt (the default) and a run of their own.
`FirstOf` and `Dropped` walk an order from its oldest id on, by `Nth` of `Positions`.

### Mission

One mission: the report on disk, the engine that runs it and a caller of
`extend_budget`. An engine reads the report once and saves its whole copy; a save
may fail, and the process may die at any step (`Kill`).

| Variable | In the code |
|---|---|
| `disk` | the mission's JSON file: state, `dag_state`, budget, `recoverable` |
| `rep`, `dag` | the engine's `report` and `AgentDAG` |
| `pc`, `rounds`, `prev`, `resumed`, `cancel` | place in the loop, rounds of the present `execute_dag`, `prev_completed`, whether `resume_mission` runs it, `should_cancel()` |
| `edit` | the report `extend_budget` has loaded and not yet saved |

`Start`, `StartBlocked`, `Resume`, `ExtendLoad`, `ExtendSave` are the calls; `Execute`,
`Round`, `Account`, `Block`, `Observe`, `Complete`, `Repair`, `GiveUp`, `Raise`,
`OutOfBudget`, `Cancelled` are the loop. The budget is arithmetic, not abstracted:
shares and minima per phase, rounding, borrowing from the reserve, extensions,
re-allocation on load. Abstracted: stages form a chain; a stage completes, fails or
blocks; the verifier and critic answer anything; only callers of `start_mission`
pass `should_cancel`. A caller of `Resume` names no extra steps, some, or 0, and `Funded`
says what each adds: 0 adds nothing, to a failed mission neither. `unfunded` in the
budget counts the resumes that were granted nothing although the budget was used up
(history).

### ComputerTask

One desktop task: `ComputerAgent.run`, the loop of `VisualStateMachine.run` and the
requests of `TaskControlManager`. Each check of the loop (stop, cancel, pause) is
its own step, because each takes the lock on its own.

| Variable | In the code |
|---|---|
| `ctrl`, `pauseReq`, `cancelReq` | the task's `control_state`, `pause_requested`, `cancel_requested` |
| `stop`, `halted` | `_emergency_stop_active`; the controller's latch, which refuses every action |
| `pc`, `cur`, `attempt`, `moves`, `replans`, `report` | the thread's place, current state, attempts, `transitions`, `replan_count`, result of the last run of the plan |
| `afterStop`, `afterCancel`, `runs` | states begun since the stop or cancel (history); bound |

A plan is a sequence of states with optional `on_failure`; verification, repair and
planner answer anything. The checkpoint store and the recording are left out.

### Distributed

`DistributedCoordinator`: every operation, the HTTP completion route, the check of
the emergency stop before the lock (`Ask`), a restart that reloads the file
(`Restart`) and the clock. `_save` writes the newest 500 assignments of all jobs. The
module follows some jobs; how many assignments of others were made meanwhile is not
represented, so `Restart` forgets the oldest assignments up to any one.

| Variable | In the code |
|---|---|
| `node`, `board` | `self.nodes` (status, heartbeat, `fencing_token`), `self.assignments` |
| `clock`, `brake` | `time.time()`, the emergency stop |
| `asked` | calls between the check of the stop and the lock |
| `tickets`, `held`, `tainted`, `late` | tickets given out, leases as their workers know them, jobs whose exclusion was given up, tickets given since the stop (history) |

Capabilities are left out (every node fits); a caller that names a node gets it
whatever its status, as in the code.

### Cron

`CronManager` with its file (every hold of the lock ends with a save, so list and
file are one variable), APScheduler's triggers (`armed`) and the firings (`pc`). A
firing is `Fire`, then one of `Refuse`, `Defer`, `Accept` (first hold of the lock),
`Submit` (no lock), `Record` (second hold). `born`, `submitted`, `lost`, `again` and
`stranded` are history. Schedules recur or are one-shots; times are abstract. Each is
`sound` or not: the expression of a recurring one may be refused by `CronTrigger`, which
`_schedule` swallows after it has removed the old trigger (`Arm`), and the quiet hours of
a one-shot may end at an hour no clock shows, on which `replace` raises (`Defer`).

### Delegation

`Delegation.fanout`: pool threads (`pc`, `status`), worker processes (`worker`), their
pipes (`stdin`, `stdout`), the pending request and its answer box of each client, and
the tree. A worker is a loop that reads and answers one message at a time, so a
cancel is read only after the run it should cancel.

### The modules of proofs

`JobQueueProofs`, `RunBusProofs`, `RetentionProofs`, `MissionProofs`,
`ComputerTaskProofs`, `DistributedProofs`, `CronProofs` and `DelegationProofs`.

The theorems; see section 5. `MC*.tla` hold the values of constants for TLC.

## 4. Runs

No state constraint is used. Every property of a passing run has a mutant (a "Fault"
next to the definition it replaces) that makes TLC find it violated.

| Run | Question | Result |
|---|---|---|
| `queue` | `TypeOK`, `RunningIsOwned`, `SlotsConserved`, `ZombieToldToStop`, `FirstStartInOrder`, `DrainLeavesNothing`: no slot leaks, abandoned threads have been told, first starts keep the order of submission, a completed drain leaves nothing; `EveryJobSettles`, `StopComesBack` under fairness | holds |
| `ledger` | with a key two jobs share, mixed priorities, a drain that may be cut and a handler that may abort: `DedupeExclusive`, and `JobQueue` implements `JobLedger` | holds |
| `stop_retry` | `CancelledRun` and `CancelledError_` never retry | violated |
| `stream` | `EveryEventOnce`, `RingIsTail`: replay and live delivery meet without loss or repetition, whatever the limits drop | holds |
| `stream_live` | `StreamEnds`: an open stream of an ended run ends; `SteersOnce` with two agents draining an inbox of one place | holds |
| `retention` | `RunsTellJobs`, `KeysLeadToJobs`, `OnlyOldestForgotten` when every table overflows | holds |
| `mission` | `OverspendBounded`, `StageAfterItsInputs`, `CompletedMeansAllStages`, `NoStageStranded`, `VerdictOutlivesReaders` | holds |
| `computer` | `TypeOK`, `StopHolds`, `CancelHolds`; `TaskEnds`, `PauseAnswered` under fairness | holds |
| `computer_cancel` | a task marked cancelled touches the desktop no more | violated |
| `distributed` | `TypeOK`, `TicketsDiffer`, `LeaseExclusive`, `StopLimitsLateWork` | holds |
| `cron` | `TypeOK`, `RunsAreCounted`, `OneShotOnce`, `ArmedAsEnabled`; `OneShotSettles` under fairness | holds |
| `delegation` | `TypeOK`, `WorkersBounded`, `AtMostTwice`; `FanoutEnds` under fairness | holds |

The violated ones are disagreements between what the repository says and what the
code does (`findings` in `PROJECT.json`):

* **stop_retry.** Within the grace period `CancelledRun` is wrapped in a
  `TimeoutError` (`gateway/queue.py` line 551) and the job is retried although its
  handler stopped as asked.
* **computer_cancel.** The replan loop (`computer_agent.py` lines 407-412) looks for a
  cancel once, before the first replan. A run cancelled in a replanned branch is
  confirmed as cancelled, planned again and acts on; the cancel request was used up by
  the confirmation.

### Bounds, and why they are enough

* **Queue** (`MCJobQueue`): three jobs in two sessions, one slot, up to two attempts.
  One slot makes two sessions compete; two jobs of one session give a lane with a
  waiting job while its other job runs, waits for the slot or for its retry; all code
  paths treat a third attempt like the second.
* **Run bus** (`MCRunBus`): the loop thread and one pool thread are enough for two
  publishers to overtake one another; one client, since no step of a client touches
  another's variables; three calls, of which `finish` publishes up to three items. In
  `stream` the ring holds three events, replay and queue two, so every limit is
  reached; in `stream_live` they are not.
* **Retention**: orders of two places, tables that evict at four jobs and three runs,
  five jobs: each table overflows while jobs of every status are in it.
* **Mission**: three stages with five steps, so that the budget runs out in every
  place; one repair and one extension of each kind (all are used up and refused); four
  rounds for three stages, so that a full execution fits and a further one is cut; two
  resumes that are granted nothing (`MaxUnfunded`), so that they add up.
  One engine: nothing prevents two, see section 6.
* **Computer**: two states, the second falls back to the first; one retry; two replans
  at most; two runs of the task, so that a request of the first may meet the second.
* **Distributed**: two nodes, one job, time up to two with leases of one, three tickets
  and one call between check and lock: enough for a failover away and back, and for a job
  that a restart forgets and that is assigned again. A node may leave and does not come
  back (`MaxJoins`); that is left to the proofs. Two assignments never read each other
  except through a job already in hand, and those that crowd the file are in `Restart`,
  so one job suffices; the proofs cover any number. Nodes are symmetric. States in which
  the job's exclusion is given up and the last ticket is out are checked but not left
  (`Undecided`): `LeaseExclusive` no longer speaks of that job, and no ticket comes that
  could be confused with another.
* **Cron**: a recurring schedule with two runs and a one-shot, each sound or not, three firings each, one
  deferral, two edits, one crash: a crash falls into every step of a firing and an
  edit into every gap between two holds of the lock.
* **Delegation**: three children on one thread, so that one waits while another is
  reaped; one death. More threads only run independent copies of `_run_child`.

Models that use up their calls stop (`CHECK_DEADLOCK FALSE`): all but the queue's.

### Fairness

* **Queue** (`FairSpec`): weak fairness of each drain task's turn, of both time-outs and
  of the retry timers, because the asyncio loop runs every callback that is due; of
  `StopReturns` and `StopCutsDrain`, the two ways `stop()` goes on; of `Start`,
  because the supervisor restarts the process. Nothing is assumed of handlers, of
  callers or of `Crash`. The run gives every job a time-out (`gateway_queue_timeout`
  is 300 s by default): a job with `timeout=0` may run for ever and so may the queue
  behind it. It lets no handler raise `asyncio.CancelledError` and does not cut the
  drain, which loses the job a lane holds while it waits for a slot.
* **Run bus**: a call that has begun goes on (nothing in it blocks), the loop runs
  its callbacks, and a stream takes what is in its queue; a client that stops reading
  is disconnected in the end, which is `Leave`.
* **Computer**: the task's thread goes on (actions, watchers and planner have time
  limits). `TaskEnds` excepts a pause, which may last as long as the user likes.
* **Cron**: triggers come due, and a firing that has begun goes on. Nothing is
  assumed of users, of the process or of `Start`.
* **Delegation**: the parent's threads go on: a wait has its time-out, an agent its
  step budget, `close` its grace. Nothing is assumed of the workers.

### Reading the properties

* `FirstStartInOrder` is about first starts on purpose: a retry waits on a timer outside
  its lane and rejoins at the tail, so retries are overtaken by later jobs.
* `DrainLeavesNothing` excepts a lane whose drain task a handler ended with
  `asyncio.CancelledError`: its jobs stay in the lane (`MayAbort`). It says nothing of a
  drain that was cut.
* `EveryEventOnce` and `RingIsTail` speak of a run that was started once. The first says
  where each event after the cursor is: on the path to the client (sent, in its queue,
  with the loop), owed by the thread that publishes it, or lost to a limit in this
  subscription; in one of the three, and once.
  `StreamEnds` is checked for clients that start from the beginning and with queues
  that do not overflow: 2000 events published after the end could push the end marker
  out of a queue nobody reads.
* `OverspendBounded` gives the slack exactly: the stages of one turn, verification and
  repair, and one planning step; and one planning step for each resume by which a caller
  asks for 0 steps when the budget is used up. Such a mission fails at once, stays
  recoverable and can be resumed the same way without limit, so the bound counts them.
  Without `recoverable` in the restart's guard it fails.
* `VerdictOutlivesReaders` excepts those who read the file before the verdict was
  written: an engine that is resumed twice, or `extend_budget`, can overwrite it.
* `LeaseExclusive` excepts jobs whose exclusion the code gives up: completion through
  the HTTP route, which passes no ticket; failover of a finished assignment;
  a token used twice after a node left and came back; and a running lease that was not
  among the newest 500 assignments when the coordinator restarted. `tainted` names
  exactly those.
* `ArmedAsEnabled` excepts schedules whose expression is refused: they stay enabled, have
  no trigger and never fire. `OneShotSettles` excepts stranded one-shots: one that
  misfired, could not be submitted, or could not be deferred.
* `KeysLeadToJobs` excepts a key that an eviction took from a job in flight
  (`opened`): dropping a finished job drops its key, whoever owns it by then.
* `RunsAreCounted` excepts submissions whose process died before the record.

### Known differences between documents and code, not run

* A thread that ignores its time-out and its grace cannot be stopped; its lane starts
  the next job of the session beside it (`gateway/queue.py` line 12 says that memory
  must not interleave).
* A deduplicated submission is logged with its own id, and `read_records` makes an
  interrupted job of it after a restart.
* A handler that raises `asyncio.CancelledError` is taken for the cancellation of the
  drain task, which ends with jobs still in the lane.
* Of two publishers the later may deliver first; a client that leaves in between and
  resumes after the later id never gets the earlier event.
* `start` on a run id a client is already attached to numbers from 1 again.
* `RunBus.start` says "keep memory flat", but a run whose id left the order while it was
  running is never evicted.
* A retry begins with the cancel flag of the attempt that timed out still set.
* An extension granted to a running mission is overwritten by the engine's next save.
* `resume_mission` says that a restart "grants a fresh step allowance" (`core/mission.py`
  line 2014); with `extra_steps=0`, which the HTTP route passes on, it grants none.
* The coordinator saves the newest 500 assignments (`core/distributed.py` line 276). After
  a restart an older one whose worker still renews it is unknown, and `assign` gives its
  job out again.
* `cron.py` parses "every 60 minutes" to `*/60`, "every 24 hours" to `0 */24`, and takes
  "every monday at 9 am" for an expression of five fields; each trigger is refused, and the
  schedule is reported as enabled.
* The finished job whose id `_order` dropped at its limit is never evicted, like the run
  above.
* Every CLI command on schedules opens a manager of its own and saves its list over
  the gateway's.
* `gateway/redis_backend.py` (lines 3-6) promises at-least-once delivery and a pending
  list that shows a crash; `_handle` acknowledges as soon as `submit` has returned or
  raised, and entries read by a consumer that died are never claimed by another.
* `core/rollback.py` (line 7) promises crash recovery and automatic rollback; a
  transaction found at start-up is loaded and left as it is, the result of `git commit`
  is not looked at, and after a merge that failed the branch is deleted all the same.
* A task of `core/agents/collaboration.py` whose dependency failed stays pending, and
  the loop of its mission, which waits until every task has completed or failed, never
  ends; `cancel` is overwritten by that loop. No route starts such a mission.

## 5. Proofs

### Queue

Proved by TLAPS for all constants that satisfy `SentinelAssumption`,
`JobAssumption` and `QueueAssumption` - any number of jobs, sessions, keys, slots
and attempts, `Jobs` and `Sessions` not necessarily finite:

| Theorem | States |
|---|---|
| `TypeCorrect` | `Spec => []TypeOK` |
| `RunningMeansOwned` | `Spec => []RunningIsOwned` |
| `LogAgreesAlways` | `Spec => []LogAgrees` |
| `VerdictsAreFinal` | `Spec => VerdictIsFinal` |
| `DedupeIsExclusive` | `Spec => []DedupeExclusive` |
| `LogImplementsLedger` | `Spec => ImplementsLedger` |
| `ZombiesAreTold` | `Spec => []ZombieToldToStop` |
| `SlotsAreConserved` | `Spec => []SlotsConserved` |
| `DrainsLeaveNothing` | `Spec => []DrainLeavesNothing` |
| `FirstStartsInOrder` | `Spec => []FirstStartInOrder` |

The argument. None of these is inductive alone. `LaneInv` says that a drain
task past its pop holds a job of its own session, that lanes queue once at the
semaphore and that a queue which is not started has no drain task. `PlaceInv`
says that a job in a deque, popped, or on a retry timer is queued and in no second
place: without it a job could be started while another lane position still
held it. With `TypeOK` and `RunningIsOwned` these form the core invariant
(`CoreInvariant`). `EndShape` brings the seven ways an execution ends into one
form, and `RecordShape` says what any step may do to the records of jobs: begin,
fall back, settle a set of jobs in flight, accept, restart, crash. From it follow
`LogAgrees`, `AttemptInv` (a queued job has an attempt left), `KeyInv` (the job in
flight under a key is the one recorded for it), the action property and the
refinement. `ThreadInv` adds that a thread in its grace period has been flagged,
and `SlotInv` that the lanes holding a slot are finitely many, so that the count
is meaningful even with infinitely many sessions.

`LogAgrees` and `VerdictIsFinal` are proved and not run: the refinement `ledger`
checks is the stronger statement about the log. `Inv` of `JobQueue` collects the parts
of the invariant.

`DrainsLeaveNothing` and `FirstStartsInOrder` rest on where a queued job stands.
`StandInv`: while no drain may be cut, a queued job is on its timer, popped or in its
lane, and a lane without a drain task is empty - unless a handler of its session may
raise `asyncio.CancelledError`, which ends the drain task with jobs still in the lane.
`DrainLeavesNothing` was stated without that exception first; the proof showed the
case. `TurnInv` relates the log to the lanes: while a job waits for its first start, the
jobs of its session and priority that came after it have not started, are not popped
and stand behind it. An insertion scans from the tail and stops at the first job of no
greater priority number, which keeps this; a requeued job has started before.

Only model-checked: `EveryJobSettles` and `StopComesBack`, which are liveness.

### Run bus

Under `BusAssumption`, for any threads, clients and limits:

| Theorem | States |
|---|---|
| `RingHasNoGaps` | `Spec => []RingIsTail` |
| `SteersAreHandedOutOnce` | `Spec => []SteersOnce` |
| `EventsAreDeliveredOnce` | `Spec => []EveryEventOnce` |

`RingInv` adds the types of number, ring and plans: only `Emit` touches the ring of
a run that is not started again (`EmitStep`). `SteerInv` takes `SteersOnce` apart:
what was handed out and what waits are each ascending, the first below the second,
and with what was pushed out they make up all that was accepted; `NewestFacts`,
`OldestFacts` and `AscendingConcat` are the lemmas about bounded deques and
concatenation.

`EventsAreDeliveredOnce` keeps books (`StreamInv`): for each subscription, the ids on the
path, those owed and those lost are disjoint, each once, and together are the ids
from the cursor to the last (`Accounted`). Each step is one posting: `AccountedEmit`
(a new event is owed to those in the copy of the subscribers), `AccountedOffer` (owed
becomes on the path), `AccountedPut` (what a full queue pushes out is lost),
`PathReceived` (nothing moves); a new subscription opens with the replay, which has,
because the ring is the gapless tail, exactly the ids after the cursor that are not out
of reach (`ReplayFacts`). Two facts make this inductive: nothing is on its way to a
client that is not subscribed (`Detached`), so that a new subscription starts clean; and
no two threads owe one client the same event (`OffersApart`), so that an offer settles
the debt. Ids of sequences are handled by `ConcatOnce`: a concatenation has the ids of
its parts, each once if they have none in common. After a restart of the run the
numbers begin again and an id no longer names an event; that is the condition `gen = 0`.

Only model-checked: `StreamEnds`.

### Retention

Under `RetentionAssumption`, for tables of any size, any number of jobs, keys and late
threads:

| Theorem | States |
|---|---|
| `RunsAlwaysTellJobs` | `Spec => []RunsTellJobs` |
| `KeysAlwaysLeadToJobs` | `Spec => []KeysLeadToJobs` |
| `OnlyOldestAreForgotten` | `Spec => []OnlyOldestForgotten` |

`RetentionInv` joins the three with the types of the tables and with `Owners`: a job in
flight is the one recorded for its key while no eviction took the entry, so that the next
submission under the key finds it. The lemmas are about filters: `Ranks` numbers the
positions of a finite set from the front without a gap, `NthFacts` turns that into the
function `Nth`, and `DroppedFacts` says that an eviction keeps the other ids, all of
them and in their order. An eviction takes only what it was asked for (`FirstOfFacts`),
finished jobs and ended runs, so it cannot touch what the first two are about, except
the keys in `opened`.

### Distributed board

Under `BoardAssumption` (a positive time-out, bounds that are numbers), for any nodes
and jobs:

| Theorem | States |
|---|---|
| `TicketsAreFenced` | `Spec => []TicketsDiffer` |
| `BoardTyped` | `Spec => []TypeOK` |
| `LeasesExclude` | `Spec => []LeaseExclusive` |
| `StopLimitsWork` | `Spec => []StopLimitsLateWork` |

`FenceInv` adds to `TicketsDiffer` that every ticket of a registration carries a token
no larger than the node's present one, so that the next is new. `CountInv` numbers the
tickets, so that the next assignment has a number nobody had, forgotten ones included.
`LeaseInv` joins what a worker believes to what the board says: `BoardInv` (types and numbers),
`HolderInv` (the ticket of a live lease of an untainted job is the one on the board),
`FitInv` (of the tickets of an untainted job no two look alike to the board) and
`JobInv` (one active assignment per untainted job). A restart keeps it because a running
lease it forgets taints the job (`LeaseRestart`). `BrakeInv` counts: tickets given
since the stop and calls that have passed its check are together at most `Callers`.

### Missions

Under `MissionAssumption`, for any engines, any number of stages and any budget:

| Theorem | States |
|---|---|
| `StagesFollowInputs` | `Spec => []StageAfterItsInputs` |
| `CompletedIsComplete` | `Spec => []CompletedMeansAllStages` |
| `OverspendingIsBounded` | `Spec => []OverspendBounded` |
| `StagesAreNotStranded` | `Spec => []NoStageStranded` |
| `VerdictsOutliveReaders` | `Spec => VerdictOutlivesReaders` |

`MissionInv` says of every graph, in memory or in a report, that it is `Chained`, and
that an engine between the accounting of a round and the verdict has in its report
the graph it works on - the link by which a verdict about the graph is one about the
file. Rounds and resumes keep `Chained` (`RoundChained`, `RedoChained`). `BudgetInv`
bounds the overspending by where the loop stands (`Paid`), with `unfunded` added to
each: nothing at a turn's begin, N - 1 after its stages, N after the verification, N + 1
after the repair. A resume pays for its planning step by a grant or counts as unfunded
(`FundedPays`), but for the last one: the step of a resume that finds no extension left
ends in a report that nobody may resume (`Owed`). `RoundInv` counts: until a stage fails, each round of a call has
completed one, so with more rounds than stages a call ends with all completed or with
one that says why not. While nothing failed some stage is ready (`NothingReady`): the
least one not completed, which exists because the naturals are well-founded
(`LeastNatural`). `VerdictOutlivesReaders` needs no invariant.

### Desktop task

Under `TaskAssumption`, for any plan, any `on_failure` and any limits:

| Theorem | States |
|---|---|
| `TaskTyped` | `Spec => []TypeOK` |
| `StopHoldsAlways` | `Spec => []StopHolds` |
| `CancelHoldsAlways` | `Spec => []CancelHolds` |

`StopInv` and `CancelInv` add where the thread may be once a state has begun after
the request: nowhere between the check it has passed and the begin of a state.
`Acting` says that only planned states are acted on and that a repair leaves room for
the attempt it ends in.

### Schedules

Under `CronAssumption`, for any schedules, limits and bounds:

| Theorem | States |
|---|---|
| `CronTyped` | `Spec => []TypeOK` |
| `RunsCounted` | `Spec => []RunsAreCounted` |
| `OneShotsOnce` | `Spec => []OneShotOnce` |
| `TriggersFollowFlags` | `Spec => []ArmedAsEnabled` |

`RunLeft` carries the limit from the first hold of the lock to the second: an accepted
firing has a run left, because nobody else counts runs of that schedule meanwhile.
`OneShotInv` counts with the submissions of a one-shot the `Chance` of one more.
`TriggerInv` adds that an enabled recurring schedule always has its trigger, unless its
expression is refused.

### Delegation

Under `DelegationAssumption` (finitely many children, a pool with a thread):

| Theorem | States |
|---|---|
| `DelegationTyped` | `Spec => []TypeOK` |
| `ExecutedAtMostTwice` | `Spec => []AtMostTwice` |
| `WorkersAreBounded` | `Spec => []WorkersBounded` |

`TypeInv` types the pipes and says that a reply in the box answers the request its
thread stands at. `RunsInv` counts what has been executed together with what still
may be, once in the worker and once in the parent; the request to run is in the pipe at
most once. `WorkerInv` ties processes and clients to the threads at work.

### Only model-checked

The seven liveness properties (`EveryJobSettles`, `StopComesBack`, `StreamEnds`, `TaskEnds`,
`PauseAnswered`, `OneShotSettles`, `FanoutEnds`): they rest on fairness and ENABLED, which
are out of the prover's reach. The invariants, the action property and the refinement
of all passing runs are theorems. Arguments that count upwards are made by a least
counterexample or by cardinalities, since the library's induction theorems take an
operator as a parameter and cannot be used here.

## 6. Not modelled

See the component list in `PROJECT.json`. The large parts left out are I/O and
presentation (vision, web, android, UI, tools, installers), ranking and storage
of memory, and the agent loop itself, whose moves are chosen by a model and whose
effects on shared state go through the queue and the bus.

Of the components with a protocol of their own, the agent pool, approvals, rollback, the
MCP client, provider keys, the executive loop and the Redis transport are read and
described in section 1 and `PROJECT.json` and have no module. They were put after the
queue, the bus and what runs on them because they hold no state those depend on: a
job's fate is the same whichever agent, key or server answers it.

Known gaps inside modelled components:

* An instruction that `RunBus.steer` accepts after the agent's last drain, or after
  the end of the run, stays in the inbox, and one drained in the agent's last budgeted
  step is dropped (`core/agent.py`).
* The accesses of `_kick` from a plain thread, and of `submit` from two threads, are
  one step.
* Missions: two concurrent `resume_mission` calls on one mission are possible in the
  code and are checked with one engine only; a restart after `repairs_exhausted`
  whose stages are all completed executes nothing and goes straight to verification;
  a chain longer than `max_rounds` takes several turns; an exception in a resumed run
  is not recorded (modelled by `Raise`); that a mission ends is not stated.
* Computer tasks: a task in state INTERRUPTED can be neither paused nor cancelled; the
  stop of `/computer/control/emergency-stop` does not set the controller's latch, so
  retries of the present state still act (modelled, and the reason why `StopHolds`
  counts states and not actions).
* Distributed: a caller that names a node gets it whatever its status, tokens start
  again when a node leaves, and a heartbeat may carry any status, "stale" included; all
  are modelled.
* Saves whose error is swallowed are modelled for missions only (`SavesFail`). A write that
  fails in `JobQueue._record` (`gateway/queue.py` line 781), in the board's `_save` or in
  that of `CronManager` (line 412) leaves a file older than the memory; what is said there
  about crashes and restarts holds while the writes succeed.
* A process that registers handlers and starts no queue accepts jobs that never run
  (`core/agent_manager.py` line 240, from the command line).
* Cron: a one-shot that misfires stays enabled without a trigger until the next
  start (`stranded`).
* Delegation: a worker that cannot be spawned has no fallback, and `$/cancel` names no
  request; both are modelled.
