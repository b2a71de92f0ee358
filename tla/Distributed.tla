---------------------------- MODULE Distributed ----------------------------
(***************************************************************************)
(* The coordinator of the distributed task board (core/distributed.py):    *)
(* nodes that register and send heartbeats, assignments of jobs to nodes   *)
(* under a lease, renewal, failover and completion.                        *)
(*                                                                         *)
(* A ticket is what a worker is told of its assignment: the assignment,    *)
(* its node and the fencing token.  tickets is the history of those given  *)
(* out, held the ones still being worked on with the lease last granted.   *)
(*                                                                         *)
(* Every operation saves the board under the same lock before it answers,  *)
(* but the file has room for the newest 500 assignments only: a restart    *)
(* forgets the others.  Jobs are those looked at; the assignments of other *)
(* jobs, which take room in the file, are not represented.  Failing writes *)
(* are not modelled.  All nodes declare the capability the jobs ask for.   *)
(***************************************************************************)
EXTENDS Integers, FiniteSets

CONSTANTS
  Nodes,      \* ids of nodes
  Jobs,       \* ids of jobs
  Timeout,    \* heartbeat_timeout: also the length of a lease (90 s)
  MaxClock,   \* bound: time
  MaxIssued,  \* bound: tickets given out
  Callers,    \* bound: calls between the check of the brake and the lock
  MaxJoins    \* bound: registrations of one node after it left

ASSUME BoardAssumption ==
  /\ Timeout \in Nat \ {0}
  /\ {MaxClock, MaxIssued, Callers, MaxJoins} \subseteq Nat

VARIABLES
  clock,   \* time.time()
  brake,   \* the emergency stop
  node,    \* node -> its record
  board,   \* assignment -> its record; the assignments are numbered as they come
  asked,   \* calls that have passed the check of the brake
  tickets, \* every ticket given out (history)
  held,    \* ticket not yet completed -> end of its lease as its worker knows it
           \* (history)
  tainted, \* jobs whose exclusion was given up: completed without a ticket,
           \* revived after their end, under a token used twice, or forgotten by
           \* a restart while the lease ran (history)
  late     \* tickets given out since the brake was pulled (history)

vars == <<clock, brake, node, board, asked, tickets, held, tainted, late>>

Absent == [status |-> "absent", beat |-> 0, token |-> 0, joins |-> 0]
Active == {"assigned", "running"}
Slots == DOMAIN board

Init ==
  /\ clock = 0 /\ brake = FALSE
  /\ node = [n \in Nodes |-> Absent]
  /\ board = <<>>
  /\ asked = {} /\ tickets = {} /\ held = <<>> /\ tainted = {}
  /\ late = 0

\* _mark_stale
Marked(nd) ==
  [n \in Nodes |-> IF nd[n].status = "online" /\ clock - nd[n].beat > Timeout
                   THEN [nd[n] EXCEPT !.status = "stale"] ELSE nd[n]]

\* _select: the online node heard of last.
Selected(nd) ==
  {n \in Nodes : /\ nd[n].status = "online"
                 /\ \A m \in Nodes : nd[m].status = "online" => nd[m].beat <= nd[n].beat}

-----------------------------------------------------------------------------
(* Nodes *)

\* A node that is known keeps its token; one that left starts again from 0.
Register(n) ==
  /\ node[n].status = "absent" => node[n].joins <= MaxJoins
  /\ node' = [node EXCEPT ![n] =
       [status |-> "online", beat |-> clock, token |-> @.token,
        joins |-> IF @.status = "absent" THEN @.joins + 1 ELSE @.joins]]
  /\ UNCHANGED <<clock, brake, board, asked, tickets, held, tainted, late>>

\* The status is any text the caller sends; the code tells "online" from the
\* rest, for which "stale" stands.
Heartbeat(n) ==
  /\ node[n].status # "absent"
  /\ \E status \in {"online", "stale"} :
       node' = [node EXCEPT ![n] = [status |-> status, beat |-> clock,
                                    token |-> @.token, joins |-> @.joins]]
  /\ UNCHANGED <<clock, brake, board, asked, tickets, held, tainted, late>>

Unregister(n) ==
  /\ node[n].status # "absent"
  /\ node' = [node EXCEPT ![n] = [Absent EXCEPT !.joins = node[n].joins]]
  /\ UNCHANGED <<clock, brake, board, asked, tickets, held, tainted, late>>

-----------------------------------------------------------------------------
(* Assignments *)

\* Fault: nobody looks at the brake.
AskBlind(op) ==
  /\ Cardinality(asked) < Callers
  /\ asked' = asked \cup {op}
  /\ node' = Marked(node)
  /\ UNCHANGED <<clock, brake, board, tickets, held, tainted, late>>

\* assign and failover look at the brake and mark stale nodes before they take
\* the lock.
Ask(op) ==
  /\ Cardinality(asked) < Callers /\ ~brake
  /\ asked' = asked \cup {op}
  /\ node' = Marked(node)
  /\ UNCHANGED <<clock, brake, board, tickets, held, tainted, late>>

\* Fault: the token of the node stays as it is.
GiveSameToken(s, job, n) ==
  LET t == [slot |-> s, job |-> job, node |-> n, joins |-> node[n].joins,
            token |-> node[n].token, no |-> Cardinality(tickets)]
  IN /\ Cardinality(tickets) < MaxIssued
     /\ board' = [i \in Slots \cup {s} |->
          IF i = s THEN [job |-> job, node |-> n, token |-> t.token,
                         lease |-> clock + Timeout, status |-> "assigned"]
          ELSE board[i]]
     /\ tickets' = tickets \cup {t}
     /\ held' = [u \in DOMAIN held \cup {t} |-> IF u = t THEN clock + Timeout ELSE held[u]]
     /\ late' = IF brake THEN late + 1 ELSE late
     /\ UNCHANGED node

\* Assignment s goes to node n under a new token.
Give(s, job, n) ==
  LET t == [slot |-> s, job |-> job, node |-> n, joins |-> node[n].joins,
            token |-> node[n].token + 1, no |-> Cardinality(tickets)]
  IN /\ Cardinality(tickets) < MaxIssued
     /\ node' = [node EXCEPT ![n].token = @ + 1]
     /\ board' = [i \in Slots \cup {s} |->
          IF i = s THEN [job |-> job, node |-> n, token |-> t.token,
                         lease |-> clock + Timeout, status |-> "assigned"]
          ELSE board[i]]
     /\ tickets' = tickets \cup {t}
     /\ held' = [u \in DOMAIN held \cup {t} |-> IF u = t THEN clock + Timeout ELSE held[u]]
     /\ late' = IF brake THEN late + 1 ELSE late

InHand(job) == \E s \in Slots : board[s].job = job /\ board[s].status \in Active

\* A job in hand is not assigned again; a node asked for by id is taken
\* whatever its status.
Assign(job) ==
  /\ <<"assign", job>> \in asked
  /\ asked' = asked \ {<<"assign", job>>}
  /\ \/ /\ ~InHand(job)
        /\ \E n \in {m \in Nodes : node[m].status # "absent"} :
             Give(Cardinality(tickets) + 1, job, n)
     \/ UNCHANGED <<node, board, tickets, held, late>>
  /\ UNCHANGED <<clock, brake, tainted>>

\* Fault: a lease that still runs is taken over.
ExpiredAlways(s) == TRUE

\* The lease has run out.  Nothing asks whether the assignment is finished.
Expired(s) == board[s].lease <= clock

\* Node n has left and come back, and is about to repeat a token it had for s.
Reused(s, n) ==
  \E t \in tickets : t.slot = s /\ t.node = n /\ t.token = node[n].token + 1

Failover(s) ==
  /\ <<"failover", s>> \in asked
  /\ asked' = asked \ {<<"failover", s>>}
  /\ \/ /\ Expired(s)
        /\ \E n \in Selected(node) :
             /\ Give(s, board[s].job, n)
             /\ tainted' = IF board[s].status \in Active /\ ~Reused(s, n) THEN tainted
                           ELSE tainted \cup {board[s].job}
     \/ /\ ~Expired(s) \/ Selected(node) = {}
        /\ UNCHANGED <<node, board, tickets, held, tainted, late>>
  /\ UNCHANGED <<clock, brake>>

\* The ticket is the current one of an assignment on the board.
Fits(t) ==
  t.slot \in Slots /\ board[t.slot].node = t.node /\ board[t.slot].token = t.token

\* Fault: the time is added to the end of the lease, not to the time of the call.
RenewStacked(t) ==
  /\ t \in DOMAIN held /\ Fits(t)
  /\ node[t.node].status # "absent"
  /\ board[t.slot].status \in Active
  /\ board' = [board EXCEPT ![t.slot].status = "running",
                            ![t.slot].lease = @ + Timeout]
  /\ held' = [held EXCEPT ![t] = board[t.slot].lease + Timeout]
  /\ UNCHANGED <<clock, brake, node, asked, tickets, tainted, late>>

Renew(t) ==
  /\ t \in DOMAIN held /\ Fits(t)
  /\ node[t.node].status # "absent"
  /\ board[t.slot].status \in Active
  /\ board' = [board EXCEPT ![t.slot].status = "running",
                            ![t.slot].lease = clock + Timeout]
  /\ held' = [held EXCEPT ![t] = clock + Timeout]
  /\ UNCHANGED <<clock, brake, node, asked, tickets, tainted, late>>

\* "succeeded" or "failed": nothing tells them apart.
Settle(s) ==
  board' = [board EXCEPT ![s] = [job |-> @.job, node |-> @.node, token |-> @.token,
                                 lease |-> 0, status |-> "ended"]]

\* complete_assignment with node and token.
Complete(t) ==
  /\ t \in DOMAIN held /\ Fits(t)
  /\ Settle(t.slot)
  /\ held' = [u \in DOMAIN held \ {t} |-> held[u]]
  /\ UNCHANGED <<clock, brake, node, asked, tickets, tainted, late>>

\* The HTTP route passes neither.
CompleteByRoute(s) ==
  /\ Settle(s)
  /\ tainted' = tainted \cup {board[s].job}
  /\ UNCHANGED <<clock, brake, node, asked, tickets, held, late>>

Brake ==
  /\ brake' = ~brake
  /\ late' = 0
  /\ UNCHANGED <<clock, node, board, asked, tickets, held, tainted>>

Tick ==
  /\ clock < MaxClock
  /\ clock' = clock + 1
  /\ UNCHANGED <<brake, node, board, asked, tickets, held, tainted, late>>

\* list_nodes and status, too, mark what is stale.
ListNodes ==
  /\ node' = Marked(node)
  /\ UNCHANGED <<clock, brake, board, asked, tickets, held, tainted, late>>

\* A new coordinator loads the file; the calls on their way are lost.  So are
\* the assignments up to last: since then 500 more were made, most of other jobs.
Restart ==
  /\ asked' = {}
  /\ \E last \in {0} \cup Slots :
       LET lost == {s \in Slots : s <= last}
       IN /\ board' = [s \in Slots \ lost |-> board[s]]
          /\ tainted' = tainted \cup
               {board[s].job : s \in {r \in lost : board[r].lease > clock}}
  /\ UNCHANGED <<clock, brake, node, tickets, held, late>>

Next ==
  \/ \E n \in Nodes : Register(n) \/ Heartbeat(n) \/ Unregister(n)
  \/ \E op \in ({"assign"} \X Jobs) \cup ({"failover"} \X Slots) : Ask(op)
  \/ \E job \in Jobs : Assign(job)
  \/ \E s \in Slots : Failover(s) \/ CompleteByRoute(s)
  \/ \E t \in DOMAIN held : Renew(t) \/ Complete(t)
  \/ ListNodes \/ Restart
  \/ Brake
  \/ Tick

Spec == Init /\ [][Next]_vars

-----------------------------------------------------------------------------
(* Properties *)

\* Every variable keeps its type; no lease, on the board or in a worker's hands,
\* reaches further than one Timeout from now, however often it was renewed.
TypeOK ==
  /\ clock \in 0..MaxClock /\ brake \in BOOLEAN /\ late \in Nat
  /\ \A n \in Nodes : /\ node[n].status \in {"absent", "online", "stale"}
                     /\ node[n].token \in 0..MaxIssued
                     /\ node[n].beat <= clock
  /\ \A s \in Slots : /\ board[s].job \in Jobs /\ board[s].node \in Nodes
                     /\ board[s].status \in Active \cup {"ended"}
                     /\ board[s].lease <= clock + Timeout
  /\ DOMAIN held \subseteq tickets
  /\ \A t \in DOMAIN held : held[t] <= clock + Timeout
  /\ tainted \subseteq Jobs

\* A node that keeps its registration never holds two tickets of one assignment
\* that the board cannot tell apart: after a failover away and back, the ticket
\* of the first time does not renew or complete the second (fencing_token).
TicketsDiffer ==
  \A t, u \in tickets :
    /\ t.slot = u.slot /\ t.node = u.node
    /\ t.joins = u.joins /\ t.token = u.token
    => t = u

\* Two workers who both hold a running lease do not work on one job: neither a
\* takeover nor a renewal by the old worker nor a restart gives that, unless the
\* exclusion of the job was given up (tainted; a restart does so for a running
\* lease that is not among the newest 500 assignments).
LeaseExclusive ==
  \A t, u \in DOMAIN held :
    /\ t.job = u.job /\ t.job \notin tainted
    /\ held[t] > clock /\ held[u] > clock
    => t = u

\* The emergency stop lets through the calls that had already passed its check,
\* and none more.
StopLimitsLateWork == late <= Callers
=============================================================================
