------------------------------- MODULE RunBus -------------------------------
(***************************************************************************)
(* The event stream of one run (core/run_events.py) and the clients that   *)
(* watch it (gateway/realtime.py, _stream_run).                            *)
(*                                                                         *)
(* Any thread calls the bus.  A call is a few critical sections under the  *)
(* bus lock with plain code in between: publish takes the sequence number, *)
(* appends to the ring and copies the subscribers under the lock, but      *)
(* delivers outside it.  plan[t] lists what thread t has still to publish, *)
(* targets[t] the subscribers it has still to offer sending[t] to.         *)
(*                                                                         *)
(* Loop is the thread of the asyncio loop.  It calls the bus too, and      *)
(* while it is inside a call no callback and no client coroutine runs.     *)
(***************************************************************************)
EXTENDS Integers, Sequences, SequencesExt, FiniteSets, Positions

CONSTANTS
  Threads,     \* the threads that call the bus
  Loop,        \* the one that runs the asyncio loop
  Clients,     \* SSE and WebSocket clients
  RingMax,     \* max_events: length of the event ring (2000)
  ReplayMax,   \* events replayed to a new subscriber (500)
  QueueMax,    \* queue_max: length of a subscriber's queue (2000)
  InboxMax,    \* length of the steering inbox (100)
  MaxCalls,    \* bound: calls of the bus that publish
  MaxSteers,   \* bound: steering instructions among them
  MaxRestarts, \* bound: start() calls on a run that exists
  MaxJoins     \* bound: subscriptions of one client

ASSUME BusAssumption ==
  /\ Loop \in Threads
  /\ RingMax \in Nat \ {0}
  /\ ReplayMax \in Nat \ {0}
  /\ QueueMax \in Nat \ {0}
  /\ InboxMax \in Nat \ {0}
  /\ ReplayMax <= QueueMax
  /\ {MaxCalls, MaxSteers, MaxRestarts, MaxJoins} \subseteq Nat

VARIABLES
  seq,       \* Run.seq
  gen,       \* how often start() found the run in place (history)
  ring,      \* Run.events
  status,    \* Run.status: "running" or "ended"
  cancelled, \* Run.cancel
  plan,      \* thread -> what its call has still to publish
  sending,   \* thread -> the item its call delivers at present
  targets,   \* thread -> the subscribers it has still to offer it to
  client,    \* client -> "away", "on" (subscribed) or "done" (saw the end)
  since,     \* client -> the parameter after of its subscription
  ready,     \* client -> call_soon_threadsafe callbacks the loop owes it
  inbox,     \* client -> its asyncio.Queue
  got,       \* client -> events received through this subscription
  dropped,   \* client -> ids a limit cost this subscription (history)
  joins,     \* client -> subscriptions so far
  steers,    \* Run.steer_inbox: instructions, numbered as they were accepted
  given,     \* the instructions handed to the agent (history)
  pushed,    \* the instructions pushed out of a full inbox (history)
  asked,     \* number of instructions accepted
  calls      \* calls so far (bound)

runVars    == <<seq, gen, ring, status, cancelled>>
threadVars == <<plan, sending, targets>>
clientVars == <<client, since, ready, inbox, got, dropped, joins>>
steerVars  == <<steers, given, pushed, asked>>
vars == <<runVars, threadVars, clientVars, steerVars, calls>>

\* Only the end marker matters to a stream; other kinds are "progress".
Kinds  == {"progress", "run_finished"}
Event  == [id : Nat \ {0}, gen : Nat, kind : Kinds]
Closed == [id |-> 0, gen |-> 0, kind |-> "__closed__"]
Stages == Kinds \cup {"__closed__"}

\* The last n elements of s: a deque(maxlen=n), or the slice s[-n:].
Newest(s, n) == SubSeq(s, IF Len(s) > n THEN Len(s) - n + 1 ELSE 1, Len(s))
Oldest(s, n) == SubSeq(s, 1, IF Len(s) > n THEN Len(s) - n ELSE 0)

Ids(s) == {e.id : e \in ToSet(s)} \ {0}

Subscribers == {c \in Clients : client[c] = "on"}

\* The run as submit() or POST /command has just entered it, its run_started
\* still to be published.
Init ==
  /\ seq = 0 /\ gen = 0 /\ ring = <<>>
  /\ status = "running" /\ cancelled = FALSE
  /\ plan = [t \in Threads |-> IF t = Loop THEN <<"progress">> ELSE <<>>]
  /\ sending = [t \in Threads |-> Closed]
  /\ targets = [t \in Threads |-> {}]
  /\ client  = [c \in Clients |-> "away"]
  /\ since   = [c \in Clients |-> 0]
  /\ ready   = [c \in Clients |-> <<>>]
  /\ inbox   = [c \in Clients |-> <<>>]
  /\ got     = [c \in Clients |-> <<>>]
  /\ dropped = [c \in Clients |-> {}]
  /\ joins   = [c \in Clients |-> 0]
  /\ steers = <<>> /\ given = <<>> /\ pushed = {} /\ asked = 0
  /\ calls = 0

-----------------------------------------------------------------------------
(* Calls of the bus *)

Idle(t) == plan[t] = <<>> /\ targets[t] = {}

\* The call begins: at most MaxCalls of them.
Call(t) == Idle(t) /\ calls < MaxCalls /\ calls' = calls + 1

Then(t, stages) == plan' = [plan EXCEPT ![t] = stages]

\* Deliver item to those who are subscribed at this moment.
SendTo(t, item) ==
  /\ targets' = [targets EXCEPT ![t] = Subscribers]
  /\ sending' = [sending EXCEPT ![t] = IF Subscribers = {} THEN Closed ELSE item]

\* Seeded fault: the number is taken before the lock, here by another thread
\* that publishes in between.
EmitStaleNumber(t, kind) ==
  LET event == [id |-> seq + 1, gen |-> gen, kind |-> kind] IN
  /\ seq' \in {seq, seq + 1}
  /\ ring' = Newest(Append(ring, event), RingMax)
  /\ SendTo(t, event)

\* The critical section of publish: number, append, copy the subscribers.
Emit(t, kind) ==
  LET event == [id |-> seq + 1, gen |-> gen, kind |-> kind] IN
  /\ seq' = seq + 1
  /\ ring' = Newest(Append(ring, event), RingMax)
  /\ SendTo(t, event)

Publish(t) ==
  /\ Call(t)
  /\ Emit(t, "progress")
  /\ UNCHANGED <<gen, status, cancelled, plan, clientVars, steerVars>>

\* finish: the status under the lock, then run_error for a failed run,
\* run_finished, and the end marker for those subscribed by then.
Finish(t) ==
  /\ Call(t)
  /\ status' = "ended"
  /\ \E failed \in BOOLEAN :
       Then(t, (IF failed THEN <<"progress">> ELSE <<>>) \o <<"run_finished", "__closed__">>)
  /\ UNCHANGED <<seq, gen, ring, cancelled, sending, targets, clientVars, steerVars>>

\* start on a run that exists: the numbers begin anew, the ring stays.
Restart(t) ==
  /\ gen < MaxRestarts
  /\ Call(t)
  /\ gen' = gen + 1
  /\ seq' = 0
  /\ status' = "running"
  /\ cancelled' = FALSE
  /\ Then(t, <<"progress">>)
  /\ UNCHANGED <<ring, sending, targets, clientVars, steerVars>>

Cancel(t) ==
  /\ Call(t)
  /\ cancelled' = TRUE
  /\ Then(t, <<"progress">>)
  /\ UNCHANGED <<seq, gen, ring, status, sending, targets, clientVars, steerVars>>

\* steer: into the inbox, which forgets its oldest when full.
Steer(t) ==
  /\ asked < MaxSteers
  /\ Call(t)
  /\ asked' = asked + 1
  /\ steers' = Newest(Append(steers, asked'), InboxMax)
  /\ pushed' = pushed \cup ToSet(Oldest(Append(steers, asked'), InboxMax))
  /\ Then(t, <<"progress">>)
  /\ UNCHANGED <<runVars, sending, targets, clientVars, given>>

\* Seeded fault: the inbox is copied, and cleared by a later call.
PendingSteersInTwo(t) ==
  /\ Idle(t)
  /\ steers # <<>>
  /\ \/ given' = given \o steers /\ UNCHANGED steers
     \/ steers' = <<>> /\ UNCHANGED given
  /\ Then(t, <<"progress">>)
  /\ UNCHANGED <<runVars, sending, targets, clientVars, pushed, asked, calls>>

\* pending_steers, called by the agent loop at a step boundary.
PendingSteers(t) ==
  /\ Idle(t)
  /\ steers # <<>>
  /\ given' = given \o steers
  /\ steers' = <<>>
  /\ Then(t, <<"progress">>)
  /\ UNCHANGED <<runVars, sending, targets, clientVars, pushed, asked, calls>>

\* The call goes on to its next publication.
Continue(t) ==
  /\ targets[t] = {} /\ plan[t] # <<>>
  /\ IF Head(plan[t]) = "__closed__"
     THEN SendTo(t, Closed) /\ UNCHANGED <<seq, ring>>
     ELSE Emit(t, Head(plan[t]))
  /\ Then(t, Tail(plan[t]))
  /\ UNCHANGED <<gen, status, cancelled, clientVars, steerVars, calls>>

\* _offer: one call_soon_threadsafe, outside the lock.
Offer(t, c) ==
  /\ c \in targets[t]
  /\ ready' = [ready EXCEPT ![c] = Append(@, sending[t])]
  /\ targets' = [targets EXCEPT ![t] = @ \ {c}]
  /\ sending' = [sending EXCEPT ![t] = IF targets'[t] = {} THEN Closed ELSE @]
  /\ UNCHANGED <<runVars, plan, client, since, inbox, got, dropped, joins,
                 steerVars, calls>>

-----------------------------------------------------------------------------
(* The asyncio loop and the clients *)

\* No callback runs while the loop thread is inside a call.
LoopFree == Idle(Loop)

\* Events a new subscriber cannot have: out of the ring or of the replay.
OutOfReach(after) ==
  {n \in (after + 1)..seq : n <= seq - ReplayMax \/ n <= seq - RingMax}

Replay(after) ==
  Newest(Picked(ring, {i \in DOMAIN ring : ring[i].id > after}), ReplayMax)

\* Seeded fault: the replay is taken first and the subscriber entered later.
SubscribeInTwo(c) ==
  /\ LoopFree
  /\ \/ /\ client[c] = "away" /\ joins[c] < MaxJoins
        /\ client' = [client EXCEPT ![c] = "joining"]
        /\ since'  = [since EXCEPT ![c] = 0]
        /\ joins'  = [joins EXCEPT ![c] = @ + 1]
        /\ inbox'  = [inbox EXCEPT ![c] = Replay(0)]
        /\ got'    = [got EXCEPT ![c] = <<>>]
        /\ dropped' = [dropped EXCEPT ![c] = OutOfReach(0)]
     \/ /\ client[c] = "joining"
        /\ client' = [client EXCEPT ![c] = "on"]
        /\ UNCHANGED <<since, joins, inbox, got, dropped>>
  /\ UNCHANGED <<runVars, threadVars, ready, steerVars, calls>>

\* subscribe: replay and registration under the lock.  A client starts from
\* the beginning or resumes after the last id it received.
Subscribe(c) ==
  /\ client[c] = "away" /\ joins[c] < MaxJoins
  /\ LoopFree
  /\ \E after \in {0, since[c]} :
       /\ since'   = [since EXCEPT ![c] = after]
       /\ inbox'   = [inbox EXCEPT ![c] = Replay(after)]
       /\ dropped' = [dropped EXCEPT ![c] = OutOfReach(after)]
  /\ client' = [client EXCEPT ![c] = "on"]
  /\ joins'  = [joins EXCEPT ![c] = @ + 1]
  /\ UNCHANGED <<runVars, threadVars, ready, got, steerVars, calls>>

\* unsubscribe: the queue is abandoned with all that is on its way to it.
Unsubscribe(c, as) ==
  /\ client'  = [client EXCEPT ![c] = as]
  /\ ready'   = [ready EXCEPT ![c] = <<>>]
  /\ inbox'   = [inbox EXCEPT ![c] = <<>>]
  /\ targets' = [t \in Threads |-> targets[t] \ {c}]
  /\ sending' = [t \in Threads |-> IF targets'[t] = {} THEN Closed ELSE sending[t]]

\* _put_nowait on the loop: the oldest item makes room.
PutNowait(c) ==
  /\ ready[c] # <<>>
  /\ LoopFree
  /\ ready' = [ready EXCEPT ![c] = Tail(@)]
  /\ inbox' = [inbox EXCEPT ![c] = Newest(Append(@, Head(ready[c])), QueueMax)]
  /\ dropped' = [dropped EXCEPT ![c] =
       @ \cup Ids(Oldest(Append(inbox[c], Head(ready[c])), QueueMax))]
  /\ UNCHANGED <<runVars, threadVars, client, since, got, joins, steerVars, calls>>

\* _stream_run takes an event, sends it, and stops after run_finished.
Receive(c) ==
  /\ inbox[c] # <<>> /\ Head(inbox[c]) # Closed
  /\ LoopFree
  /\ LET event == Head(inbox[c]) IN
     IF event.kind = "run_finished"
     THEN Unsubscribe(c, "done") /\ got' = [got EXCEPT ![c] = <<>>]
     ELSE /\ got'   = [got EXCEPT ![c] = Append(@, event)]
          /\ inbox' = [inbox EXCEPT ![c] = Tail(@)]
          /\ UNCHANGED <<client, ready, targets, sending>>
  /\ UNCHANGED <<runVars, plan, since, dropped, joins, steerVars, calls>>

ReceiveClosed(c) ==
  /\ inbox[c] # <<>> /\ Head(inbox[c]) = Closed
  /\ LoopFree
  /\ Unsubscribe(c, "done")
  /\ got' = [got EXCEPT ![c] = <<>>]
  /\ UNCHANGED <<runVars, plan, since, dropped, joins, steerVars, calls>>

\* The client disconnects or the stream reaches its time limit.  It may come
\* back with the id of the last event it received.
Leave(c) ==
  /\ client[c] = "on"
  /\ LoopFree
  /\ Unsubscribe(c, "away")
  /\ since' = [since EXCEPT ![c] = IF got[c] = <<>> THEN @ ELSE Last(got[c]).id]
  /\ got' = [got EXCEPT ![c] = <<>>]
  /\ UNCHANGED <<runVars, plan, dropped, joins, steerVars, calls>>

-----------------------------------------------------------------------------
ThreadStep(t) ==
  \/ Publish(t) \/ Finish(t) \/ Restart(t) \/ Cancel(t)
  \/ Steer(t) \/ PendingSteers(t) \/ Continue(t)
  \/ \E c \in Clients : Offer(t, c)

ClientStep(c) ==
  \/ Subscribe(c) \/ PutNowait(c) \/ Receive(c) \/ ReceiveClosed(c) \/ Leave(c)

Next ==
  \/ \E t \in Threads : ThreadStep(t)
  \/ \E c \in Clients : ClientStep(c)

Spec == Init /\ [][Next]_vars

\* A call that has begun goes on, the loop runs its callbacks and the
\* coroutine of a stream takes what is in its queue.
Fairness ==
  /\ \A t \in Threads :
       WF_vars(Continue(t)) /\ \A c \in Clients : WF_vars(Offer(t, c))
  /\ \A c \in Clients :
       WF_vars(PutNowait(c)) /\ WF_vars(Receive(c) \/ ReceiveClosed(c))

FairSpec == Spec /\ Fairness

-----------------------------------------------------------------------------
(* Properties *)

\* What c was sent, what is in its queue and what the loop has yet to put there.
Path(c) == got[c] \o inbox[c] \o ready[c]

\* What threads have still to offer to c.
OwedTo(c) == {sending[t].id : t \in {u \in Threads : c \in targets[u]}} \ {0}

\* No event is in s twice; the end marker may be, if the run ended twice.
Once(s) == \A i, j \in DOMAIN s : i # j /\ s[i].id = s[j].id => s[i] = Closed

\* subscribe(): "Holding the run lock across both makes every event land in
\* exactly one of the two paths" (replay or live).  An event after the
\* client's cursor is, once: received, in its queue, with the loop, or with
\* the thread that publishes it - or lost to a limit that was reached.
EveryEventOnce ==
  gen = 0 => \A c \in Subscribers :
    /\ Once(Path(c))
    /\ Ids(Path(c)) \cap OwedTo(c) = {}
    /\ dropped[c] \cap (Ids(Path(c)) \cup OwedTo(c)) = {}
    /\ Ids(Path(c)) \cup OwedTo(c) \cup dropped[c] = (since[c] + 1)..seq

\* The ring is the gapless tail of what was published, with any number of
\* threads publishing, so that a replay has no holes.
RingIsTail ==
  gen = 0 =>
    /\ Len(ring) = IF seq < RingMax THEN seq ELSE RingMax
    /\ \A i \in DOMAIN ring : ring[i].id = seq - Len(ring) + i

\* Two agents may drain the inbox of one run (a retry beside a thread that
\* outlived its time-out): an accepted instruction is handed out once, in
\* order, unless a full inbox pushed it out.
SteersOnce ==
  LET all == given \o steers IN
  /\ \A i, j \in DOMAIN all : i < j => all[i] < all[j]
  /\ ToSet(all) \cup pushed = 1..asked
  /\ ToSet(all) \cap pushed = {}

\* No client hangs "on a dead stream": while the run stays ended, a stream
\* that is open comes to an end.
StreamEnds ==
  \A c \in Clients :
    (client[c] = "on" /\ status = "ended") ~> (client[c] # "on" \/ status = "running")
=============================================================================
