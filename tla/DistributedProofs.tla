------------------------- MODULE DistributedProofs -------------------------
(***************************************************************************)
(* Proofs about Distributed, for any number of nodes and jobs, any length  *)
(* of a lease and any bound.                                               *)
(***************************************************************************)
EXTENDS Distributed, FiniteSetTheorems, TLAPS

NodeRec == [status : {"absent", "online", "stale"}, beat : Nat, token : Nat, joins : Nat]

\* A ticket is of the node's present registration or an earlier one, and its
\* token is not above the token the node has reached in the present one.
TicketInv ==
  /\ clock \in Nat
  /\ node \in [Nodes -> NodeRec]
  /\ \A t \in tickets :
       /\ t.node \in Nodes /\ t.joins \in Nat /\ t.token \in Nat
       /\ t.joins <= node[t.node].joins
       /\ node[t.node].status # "absent" /\ t.joins = node[t.node].joins
          => t.token <= node[t.node].token

\* What TicketsDiffer says, across assignments as well.
NodeTokensDiffer ==
  \A t, u \in tickets :
    t.node = u.node /\ t.joins = u.joins /\ t.token = u.token => t = u

FenceInv == TicketInv /\ NodeTokensDiffer

-----------------------------------------------------------------------------

LEMMA FenceInit == Init => FenceInv
  BY DEF Init, FenceInv, TicketInv, NodeTokensDiffer, NodeRec, Absent

\* Giving out a ticket to a registered node keeps the tokens apart.
LEMMA FenceGive ==
  ASSUME FenceInv, NEW s, NEW job, NEW n \in Nodes, node[n].status # "absent",
         Give(s, job, n), UNCHANGED clock
  PROVE  FenceInv'
<1> DEFINE new == [slot |-> s, job |-> job, node |-> n, joins |-> node[n].joins,
                   token |-> node[n].token + 1, no |-> Cardinality(tickets)]
<1>1. /\ node' = [node EXCEPT ![n].token = @ + 1] /\ tickets' = tickets \cup {new}
      /\ clock' = clock
  BY DEF Give
<1>2. new.node = n /\ new.joins = node[n].joins /\ new.token = node[n].token + 1
  OBVIOUS
<1> HIDE DEF new
<1>3. /\ node' \in [Nodes -> NodeRec]
      /\ node'[n].joins = node[n].joins /\ node'[n].token = node[n].token + 1
      /\ \A m \in Nodes : m # n => node'[m] = node[m]
  BY <1>1 DEF FenceInv, TicketInv, NodeRec
<1>4. TicketInv'
  BY <1>1, <1>2, <1>3 DEF FenceInv, TicketInv, NodeRec
<1>5. \A t \in tickets : ~(t.node = n /\ t.joins = node[n].joins /\ t.token = node[n].token + 1)
  BY DEF FenceInv, TicketInv, NodeRec
<1>6. NodeTokensDiffer'
  BY <1>1, <1>2, <1>5 DEF FenceInv, NodeTokensDiffer
<1> QED  BY <1>4, <1>6 DEF FenceInv

LEMMA FenceStep == FenceInv /\ [Next]_vars => FenceInv'
<1> SUFFICES ASSUME FenceInv, [Next]_vars PROVE FenceInv'
  OBVIOUS
<1> USE DEF FenceInv
<1>1. ASSUME NEW n \in Nodes, Register(n) PROVE FenceInv'
  BY <1>1 DEF Register, TicketInv, NodeTokensDiffer, NodeRec
<1>2. ASSUME NEW n \in Nodes, Heartbeat(n) PROVE FenceInv'
  BY <1>2 DEF Heartbeat, TicketInv, NodeTokensDiffer, NodeRec
<1>3. ASSUME NEW n \in Nodes, Unregister(n) PROVE FenceInv'
  BY <1>3 DEF Unregister, TicketInv, NodeTokensDiffer, NodeRec, Absent
<1>4. ASSUME NEW op, Ask(op) PROVE FenceInv'
  BY <1>4 DEF Ask, Marked, TicketInv, NodeTokensDiffer, NodeRec
<1>5. ASSUME NEW job \in Jobs, Assign(job) PROVE FenceInv'
  <2>1. CASE UNCHANGED <<node, tickets>>
    BY <1>5, <2>1 DEF Assign, TicketInv, NodeTokensDiffer
  <2>2. CASE \E n \in {m \in Nodes : node[m].status # "absent"} :
               Give(Cardinality(tickets) + 1, job, n)
    BY <1>5, <2>2, FenceGive DEF Assign
  <2> QED  BY <1>5, <2>1, <2>2 DEF Assign
<1>6. ASSUME NEW s, Failover(s) PROVE FenceInv'
  <2>1. CASE UNCHANGED <<node, tickets>>
    BY <1>6, <2>1 DEF Failover, TicketInv, NodeTokensDiffer
  <2>2. CASE \E n \in Selected(node) : Give(s, board[s].job, n)
    BY <1>6, <2>2, FenceGive DEF Failover, Selected
  <2> QED  BY <1>6, <2>1, <2>2 DEF Failover
<1>7. ASSUME UNCHANGED <<clock, node, tickets>> PROVE FenceInv'
  BY <1>7 DEF TicketInv, NodeTokensDiffer
<1>8. ASSUME NEW s, CompleteByRoute(s) PROVE FenceInv'
  BY <1>7, <1>8 DEF CompleteByRoute
<1>9. ASSUME NEW t, Renew(t) \/ Complete(t) PROVE FenceInv'
  BY <1>7, <1>9 DEF Renew, Complete
<1>10. CASE Brake
  BY <1>7, <1>10 DEF Brake
<1>11. CASE Tick
  BY <1>11 DEF Tick, TicketInv, NodeTokensDiffer
<1>12. CASE UNCHANGED vars
  BY <1>7, <1>12 DEF vars
<1>13. CASE ListNodes
  BY <1>13 DEF ListNodes, Marked, TicketInv, NodeTokensDiffer, NodeRec
<1>14. CASE Restart
  BY <1>7, <1>14 DEF Restart
<1> HIDE DEF FenceInv
<1> QED
  BY <1>1, <1>2, <1>3, <1>4, <1>5, <1>6, <1>8, <1>9, <1>10, <1>11, <1>12, <1>13, <1>14
  DEF Next

\* The fencing token tells the tickets of one registration apart.
THEOREM TicketsAreFenced == Spec => []TicketsDiffer
<1>1. FenceInv => TicketsDiffer
  BY DEF FenceInv, NodeTokensDiffer, TicketsDiffer
<1> QED  BY FenceInit, FenceStep, <1>1, PTL DEF Spec
-----------------------------------------------------------------------------
(* Counting tickets *)

\* A ticket's number is the count of those given out before it, so each one
\* given out is new; no node can have counted further than that.
CountInv ==
  /\ IsFiniteSet(tickets) /\ Cardinality(tickets) <= MaxIssued
  /\ \A t \in tickets : t.no \in Nat /\ t.no < Cardinality(tickets)
  /\ \A n \in Nodes : node[n].token <= Cardinality(tickets)

LEMMA CountGive ==
  ASSUME FenceInv, CountInv, NEW s, NEW job, NEW n \in Nodes, Give(s, job, n)
  PROVE  CountInv' /\ Cardinality(tickets) \in Nat /\ Cardinality(tickets') = Cardinality(tickets) + 1
<1> DEFINE new == [slot |-> s, job |-> job, node |-> n, joins |-> node[n].joins,
                   token |-> node[n].token + 1, no |-> Cardinality(tickets)]
<1>1. /\ node' = [node EXCEPT ![n].token = @ + 1] /\ tickets' = tickets \cup {new}
      /\ Cardinality(tickets) < MaxIssued
  BY DEF Give
<1>2. new.no = Cardinality(tickets)
  OBVIOUS
<1> HIDE DEF new
<1>3. Cardinality(tickets) \in Nat /\ MaxIssued \in Nat
  BY FS_CardinalityType, BoardAssumption DEF CountInv
<1>4. new \notin tickets
  BY <1>2, <1>3 DEF CountInv
<1>5. IsFiniteSet(tickets') /\ Cardinality(tickets') = Cardinality(tickets) + 1
  BY <1>1, <1>4, FS_AddElement DEF CountInv
<1>6. \A t \in tickets' : t.no \in Nat /\ t.no < Cardinality(tickets')
  BY <1>1, <1>2, <1>3, <1>5 DEF CountInv
<1>7. \A m \in Nodes : node'[m].token <= Cardinality(tickets')
  BY <1>1, <1>3, <1>5 DEF CountInv, FenceInv, TicketInv, NodeRec
<1>8. Cardinality(tickets') <= MaxIssued
  BY <1>1, <1>3, <1>5
<1> QED  BY <1>3, <1>5, <1>6, <1>7, <1>8 DEF CountInv

LEMMA CountInit == Init => CountInv
<1> SUFFICES ASSUME Init PROVE CountInv
  OBVIOUS
<1>1. IsFiniteSet({}) /\ Cardinality({}) = 0
  BY FS_EmptySet
<1>2. MaxIssued \in Nat /\ \A n \in Nodes : node[n] = Absent
  BY BoardAssumption DEF Init
<1> QED  BY <1>1, <1>2 DEF Init, CountInv, Absent

LEMMA CountStep == FenceInv /\ CountInv /\ [Next]_vars => CountInv'
<1> SUFFICES ASSUME FenceInv, CountInv, [Next]_vars PROVE CountInv'
  OBVIOUS
<1>0. Cardinality(tickets) \in Nat
  BY FS_CardinalityType DEF CountInv
<1>1. ASSUME tickets' = tickets,
             \A n \in Nodes : node'[n].token \in {0, node[n].token}
      PROVE  CountInv'
  BY <1>0, <1>1 DEF CountInv
<1>2. ASSUME UNCHANGED <<node, tickets>> PROVE CountInv'
  BY <1>2 DEF CountInv
<1>3. ASSUME NEW n \in Nodes, Register(n) \/ Heartbeat(n) \/ Unregister(n) PROVE CountInv'
  BY <1>1, <1>3 DEF Register, Heartbeat, Unregister, Absent, FenceInv, TicketInv, NodeRec
<1>4. ASSUME node' = Marked(node), tickets' = tickets PROVE CountInv'
  BY <1>1, <1>4 DEF Marked, FenceInv, TicketInv, NodeRec
<1>5. ASSUME NEW op, Ask(op) PROVE CountInv'
  BY <1>4, <1>5 DEF Ask
<1>6. ASSUME NEW job \in Jobs, Assign(job) PROVE CountInv'
  BY <1>2, <1>6, CountGive DEF Assign
<1>7. ASSUME NEW s, Failover(s) PROVE CountInv'
  BY <1>2, <1>7, CountGive DEF Failover, Selected
<1>8. ASSUME NEW s, CompleteByRoute(s) PROVE CountInv'
  BY <1>2, <1>8 DEF CompleteByRoute
<1>9. ASSUME NEW t, Renew(t) \/ Complete(t) PROVE CountInv'
  BY <1>2, <1>9 DEF Renew, Complete
<1>10. CASE ListNodes
  BY <1>4, <1>10 DEF ListNodes
<1>11. CASE Restart \/ Brake \/ Tick \/ UNCHANGED vars
  BY <1>2, <1>11 DEF Restart, Brake, Tick, vars
<1> QED
  BY <1>3, <1>5, <1>6, <1>7, <1>8, <1>9, <1>10, <1>11 DEF Next

-----------------------------------------------------------------------------
(* Exclusion under a lease *)

BoardRec == [job : Jobs, node : Nodes, token : Int, lease : Int,
             status : {"assigned", "running", "ended"}]

\* An assignment's number is not above the count of tickets, so the next one is
\* free, also of assignments that a restart forgot; a ticket knows the job of an
\* assignment on the board.
BoardInv ==
  /\ clock \in Nat
  /\ \A s \in Slots : board[s] \in BoardRec /\ s \in 1..Cardinality(tickets)
  /\ \A t \in tickets : /\ t.slot \in 1..Cardinality(tickets)
                        /\ t.slot \in Slots => t.job = board[t.slot].job
  /\ DOMAIN held \subseteq tickets
  /\ \A t \in DOMAIN held : held[t] \in Int

\* Whoever holds a running lease on a job that was not given up is the one the
\* board names, until then.
HolderInv ==
  \A t \in DOMAIN held :
    t.job \notin tainted /\ held[t] > clock =>
      /\ Fits(t) /\ board[t.slot].status \in Active
      /\ board[t.slot].lease = held[t]

\* A ticket that fits an assignment not given up is the only one that does.
FitInv ==
  \A t, u \in tickets :
    /\ t.slot = u.slot /\ t.node = u.node /\ t.token = u.token
    /\ t.job \notin tainted
    => t = u

\* A job that was not given up has at most one active assignment.
JobInv ==
  \A r, s \in Slots :
    /\ board[r].job = board[s].job /\ board[r].job \notin tainted
    /\ board[r].status \in Active /\ board[s].status \in Active
    => r = s

LeaseInv == BoardInv /\ HolderInv /\ FitInv /\ JobInv

LEMMA LeaseInit == Init => LeaseInv
<1> SUFFICES ASSUME Init PROVE LeaseInv
  OBVIOUS
<1>1. DOMAIN board = {} /\ DOMAIN held = {}
  BY DEF Init
<1> QED
  BY <1>1 DEF Init, LeaseInv, BoardInv, HolderInv, FitInv, JobInv, Slots

\* What Give does with a new ticket, without the notation for functions.
GivesTicket(s, job, n, new) ==
  /\ new.slot = s /\ new.job = job /\ new.node = n
  /\ new.token = node[n].token + 1
  /\ tickets' = tickets \cup {new}
  /\ DOMAIN held' = DOMAIN held \cup {new}
  /\ held'[new] = clock + Timeout
  /\ \A t \in DOMAIN held : t # new => held'[t] = held[t]
  /\ Slots' = Slots \cup {s}
  /\ board'[s] = [job |-> job, node |-> n, token |-> new.token,
                  lease |-> clock + Timeout, status |-> "assigned"]
  /\ \A r \in Slots : r # s => board'[r] = board[r]

LEMMA GiveFacts ==
  ASSUME NEW s, NEW job, NEW n, Give(s, job, n)
  PROVE  \E new : GivesTicket(s, job, n, new)
<1> DEFINE new == [slot |-> s, job |-> job, node |-> n, joins |-> node[n].joins,
                   token |-> node[n].token + 1, no |-> Cardinality(tickets)]
<1>1. /\ new.slot = s /\ new.job = job /\ new.node = n
      /\ new.token = node[n].token + 1
  OBVIOUS
<1>2. /\ tickets' = tickets \cup {new}
      /\ held' = [u \in DOMAIN held \cup {new} |-> IF u = new THEN clock + Timeout ELSE held[u]]
      /\ board' = [i \in Slots \cup {s} |->
                    IF i = s THEN [job |-> job, node |-> n, token |-> new.token,
                                   lease |-> clock + Timeout, status |-> "assigned"]
                    ELSE board[i]]
  BY DEF Give
<1> HIDE DEF new
<1>3. /\ DOMAIN held' = DOMAIN held \cup {new}
      /\ held'[new] = clock + Timeout
      /\ \A t \in DOMAIN held : t # new => held'[t] = held[t]
  BY <1>2
<1>4. /\ Slots' = Slots \cup {s}
      /\ board'[s] = [job |-> job, node |-> n, token |-> new.token,
                      lease |-> clock + Timeout, status |-> "assigned"]
      /\ \A r \in Slots : r # s => board'[r] = board[r]
  BY <1>2 DEF Slots
<1>5. GivesTicket(s, job, n, new)
  BY <1>1, <1>2, <1>3, <1>4 DEF GivesTicket
<1> QED  BY <1>5

\* A job that is not in hand gets an assignment of its own.
LEMMA LeaseAssign ==
  ASSUME LeaseInv, NEW job \in Jobs, NEW n \in Nodes, node[n].token \in Int,
         NEW s, s = Cardinality(tickets) + 1, ~InHand(job), Give(s, job, n),
         Cardinality(tickets) \in Nat, Cardinality(tickets') = Cardinality(tickets) + 1,
         UNCHANGED <<clock, tainted>>
  PROVE  LeaseInv'
<1>1. \A i \in 1..Cardinality(tickets) : i \in 1..Cardinality(tickets') /\ i # s
  OBVIOUS
<1>2. s \in 1..Cardinality(tickets')
  OBVIOUS
<1>3. s \notin Slots /\ \A t \in tickets : t.slot # s
  BY <1>1 DEF LeaseInv, BoardInv
<1>40. PICK new : GivesTicket(s, job, n, new)
  BY GiveFacts
<1>4. /\ new.slot = s /\ new.job = job /\ new.node = n
      /\ new.token = node[n].token + 1
      /\ tickets' = tickets \cup {new}
      /\ DOMAIN held' = DOMAIN held \cup {new}
      /\ held'[new] = clock + Timeout
      /\ \A t \in DOMAIN held : t # new => held'[t] = held[t]
      /\ Slots' = Slots \cup {s}
      /\ board'[s] = [job |-> job, node |-> n, token |-> new.token,
                      lease |-> clock + Timeout, status |-> "assigned"]
      /\ \A r \in Slots : r # s => board'[r] = board[r]
  BY <1>40 DEF GivesTicket
<1>6. clock' = clock /\ tainted' = tainted /\ clock + Timeout \in Int
  BY BoardAssumption DEF LeaseInv, BoardInv
<1>5. /\ board'[s].job = job /\ board'[s].node = n /\ board'[s].token = new.token
      /\ board'[s].lease = clock + Timeout /\ board'[s].status \in Active
      /\ board'[s] \in BoardRec
  BY <1>4, <1>6 DEF Active, BoardRec
<1>7. BoardInv'
  <2>2. \A r \in Slots' : board'[r] \in BoardRec /\ r \in 1..Cardinality(tickets')
    BY <1>1, <1>2, <1>4, <1>5 DEF LeaseInv, BoardInv
  <2>3. \A t \in tickets' : /\ t.slot \in 1..Cardinality(tickets')
                            /\ t.slot \in Slots' => t.job = board'[t.slot].job
    BY <1>1, <1>2, <1>3, <1>4, <1>5 DEF LeaseInv, BoardInv
  <2>4. DOMAIN held' \subseteq tickets' /\ \A t \in DOMAIN held' : held'[t] \in Int
    BY <1>4, <1>6 DEF LeaseInv, BoardInv
  <2> QED  BY <1>6, <2>2, <2>3, <2>4 DEF LeaseInv, BoardInv
<1>8. HolderInv'
  <2> SUFFICES ASSUME NEW t \in DOMAIN held', t.job \notin tainted, held'[t] > clock
               PROVE  /\ t.slot \in Slots'
                      /\ board'[t.slot].node = t.node /\ board'[t.slot].token = t.token
                      /\ board'[t.slot].status \in Active
                      /\ board'[t.slot].lease = held'[t]
    BY <1>6 DEF HolderInv, Fits
  <2>1. CASE t = new
    BY <1>4, <1>5, <2>1
  <2>2. CASE t # new
    BY <1>3, <1>4, <2>2 DEF LeaseInv, BoardInv, HolderInv, Fits
  <2> QED  BY <2>1, <2>2
<1>9. FitInv'
  BY <1>3, <1>4, <1>6 DEF LeaseInv, BoardInv, FitInv
<1>10. JobInv'
  BY <1>3, <1>4, <1>5, <1>6 DEF LeaseInv, JobInv, InHand
<1> QED  BY <1>7, <1>8, <1>9, <1>10 DEF LeaseInv

\* A takeover ends what the old holder had: his lease has run out.
LEMMA LeaseFailover ==
  ASSUME LeaseInv, NEW s \in Slots, NEW n \in Nodes, node[n].token \in Int,
         NEW job, job = board[s].job, Expired(s), Give(s, job, n),
         tainted' = IF board[s].status \in Active /\ ~Reused(s, n) THEN tainted
                    ELSE tainted \cup {job},
         Cardinality(tickets) \in Nat, Cardinality(tickets') = Cardinality(tickets) + 1,
         UNCHANGED clock
  PROVE  LeaseInv'
<1>10. PICK new : GivesTicket(s, job, n, new)
  BY GiveFacts
<1>1. /\ new.slot = s /\ new.job = job /\ new.node = n
      /\ new.token = node[n].token + 1
      /\ tickets' = tickets \cup {new}
      /\ DOMAIN held' = DOMAIN held \cup {new}
      /\ held'[new] = clock + Timeout
      /\ \A t \in DOMAIN held : t # new => held'[t] = held[t]
      /\ Slots' = Slots \cup {s}
      /\ board'[s] = [job |-> job, node |-> n, token |-> new.token,
                      lease |-> clock + Timeout, status |-> "assigned"]
      /\ \A r \in Slots : r # s => board'[r] = board[r]
  BY <1>10 DEF GivesTicket
<1>3. /\ clock' = clock /\ clock + Timeout \in Int /\ Slots' = Slots
      /\ board[s] \in BoardRec
  BY <1>1, BoardAssumption DEF LeaseInv, BoardInv
<1>2. /\ board'[s].job = job /\ board'[s].node = n /\ board'[s].token = new.token
      /\ board'[s].lease = clock + Timeout /\ board'[s].status \in Active
      /\ board'[s] \in BoardRec
  BY <1>1, <1>3 DEF Active, BoardRec
<1>4. tainted \subseteq tainted'
  OBVIOUS
<1>5. job \notin tainted' => board[s].status \in Active /\ ~Reused(s, n) /\ tainted' = tainted
  OBVIOUS
<1>11. \A i \in 1..Cardinality(tickets) : i \in 1..Cardinality(tickets')
  OBVIOUS
<1>6. BoardInv'
  BY <1>1, <1>2, <1>3, <1>11 DEF LeaseInv, BoardInv
<1>7. HolderInv'
  <2> SUFFICES ASSUME NEW t \in DOMAIN held', t.job \notin tainted', held'[t] > clock
               PROVE  /\ t.slot \in Slots'
                      /\ board'[t.slot].node = t.node /\ board'[t.slot].token = t.token
                      /\ board'[t.slot].status \in Active
                      /\ board'[t.slot].lease = held'[t]
    BY <1>3 DEF HolderInv, Fits
  <2>1. CASE t = new
    BY <1>1, <1>2, <2>1
  <2>2. CASE t # new
    <3>1. /\ t \in DOMAIN held /\ held'[t] = held[t] /\ t.job \notin tainted
      BY <1>1, <1>4, <2>2 DEF LeaseInv, BoardInv
    <3>2. t.slot # s
      BY <3>1 DEF LeaseInv, BoardInv, HolderInv, Expired
    <3> QED  BY <1>1, <3>1, <3>2 DEF LeaseInv, HolderInv, Fits
  <2> QED  BY <2>1, <2>2
<1>8. FitInv'
  <2>1. \A t \in tickets : t.slot = s => t.job = job
    BY DEF LeaseInv, BoardInv
  <2>2. job \notin tainted' =>
          \A t \in tickets : ~(t.slot = s /\ t.node = n /\ t.token = new.token)
    BY <1>1, <1>5 DEF Reused
  <2> QED  BY <1>1, <1>4, <2>1, <2>2 DEF LeaseInv, FitInv
<1>9. JobInv'
  BY <1>1, <1>2, <1>3, <1>4, <1>5 DEF LeaseInv, JobInv
<1> QED  BY <1>6, <1>7, <1>8, <1>9 DEF LeaseInv

\* A renewal moves the lease of the one ticket that fits.
LEMMA LeaseRenew ==
  ASSUME LeaseInv, NEW t, Renew(t)
  PROVE  LeaseInv'
<1>1. /\ t \in DOMAIN held /\ Fits(t) /\ board[t.slot].status \in Active
      /\ held' = [held EXCEPT ![t] = clock + Timeout]
      /\ tickets' = tickets /\ tainted' = tainted /\ clock' = clock
      /\ t \in tickets /\ t.slot \in Slots /\ board[t.slot] \in BoardRec
  BY DEF Renew, Fits, LeaseInv, BoardInv
<1>3. clock + Timeout \in Int
  BY BoardAssumption DEF LeaseInv, BoardInv
<1> DEFINE rec == [board[t.slot] EXCEPT !.status = "running", !.lease = clock + Timeout]
<1>a. /\ rec \in BoardRec /\ rec.job = board[t.slot].job /\ rec.node = board[t.slot].node
      /\ rec.token = board[t.slot].token /\ rec.status = "running"
      /\ rec.lease = clock + Timeout
  BY <1>1, <1>3 DEF BoardRec
<1>b. board' = [board EXCEPT ![t.slot] = rec]
  BY <1>1 DEF Renew, Slots, BoardRec
<1> HIDE DEF rec
<1>2. /\ Slots' = Slots
      /\ \A s \in Slots : /\ board'[s].job = board[s].job
                          /\ board'[s].node = board[s].node
                          /\ board'[s].token = board[s].token
                          /\ s # t.slot => board'[s] = board[s]
      /\ board'[t.slot].status = "running"
      /\ board'[t.slot].lease = clock + Timeout /\ board'[t.slot] \in BoardRec
  BY <1>1, <1>a, <1>b DEF Slots
<1>4. /\ DOMAIN held' = DOMAIN held /\ held'[t] = clock + Timeout
      /\ \A u \in DOMAIN held : u # t => held'[u] = held[u]
  BY <1>1
<1>5. BoardInv'
  BY <1>1, <1>2, <1>3, <1>4 DEF LeaseInv, BoardInv
<1>6. HolderInv'
  <2> SUFFICES ASSUME NEW u \in DOMAIN held, u.job \notin tainted, held'[u] > clock
               PROVE  /\ u.slot \in Slots
                      /\ board'[u.slot].node = u.node /\ board'[u.slot].token = u.token
                      /\ board'[u.slot].status \in Active
                      /\ board'[u.slot].lease = held'[u]
    BY <1>1, <1>2, <1>4 DEF HolderInv, Fits
  <2>1. CASE u = t
    BY <1>1, <1>2, <1>4, <2>1 DEF Fits, Active
  <2>2. CASE u # t
    <3>1. /\ Fits(u) /\ board[u.slot].status \in Active
          /\ board[u.slot].lease = held[u] /\ u \in tickets /\ u.slot \in Slots
      BY <1>4, <2>2 DEF LeaseInv, BoardInv, HolderInv, Fits
    <3>2. u.slot # t.slot
      BY <1>1, <2>2, <3>1 DEF LeaseInv, FitInv, Fits
    <3> QED  BY <1>2, <1>4, <2>2, <3>1, <3>2 DEF Fits
  <2> QED  BY <2>1, <2>2
<1>7. FitInv'
  BY <1>1 DEF LeaseInv, FitInv
<1>8. JobInv'
  BY <1>1, <1>2 DEF LeaseInv, JobInv
<1> QED  BY <1>5, <1>6, <1>7, <1>8 DEF LeaseInv

\* The end of an assignment, by its worker or without a ticket.
LEMMA LeaseSettle ==
  ASSUME LeaseInv, NEW s \in Slots, Settle(s), tickets' = tickets, clock' = clock,
         tainted \subseteq tainted', DOMAIN held' \subseteq DOMAIN held,
         \A u \in DOMAIN held' : held'[u] = held[u],
         \A u \in DOMAIN held' : u.slot = s /\ u.job \notin tainted' => held[u] <= clock
  PROVE  LeaseInv'
<1>a. board[s] \in BoardRec
  BY DEF LeaseInv, BoardInv
<1> DEFINE rec == [job |-> board[s].job, node |-> board[s].node, token |-> board[s].token,
                   lease |-> 0, status |-> "ended"]
<1>b. /\ rec \in BoardRec /\ rec.job = board[s].job /\ rec.status = "ended"
  BY <1>a DEF BoardRec
<1>c. board' = [board EXCEPT ![s] = rec]
  BY DEF Settle
<1>1. /\ Slots' = Slots
      /\ \A r \in Slots : /\ board'[r].job = board[r].job
                          /\ r # s => board'[r] = board[r]
      /\ board'[s].status = "ended" /\ board'[s] \in BoardRec
  BY <1>a, <1>b, <1>c DEF Slots
<1>2. BoardInv'
  BY <1>1 DEF LeaseInv, BoardInv
<1>3. HolderInv'
  <2> SUFFICES ASSUME NEW u \in DOMAIN held', u.job \notin tainted', held[u] > clock
               PROVE  /\ u.slot \in Slots
                      /\ board'[u.slot].node = u.node /\ board'[u.slot].token = u.token
                      /\ board'[u.slot].status \in Active
                      /\ board'[u.slot].lease = held[u]
    BY <1>1 DEF HolderInv, Fits
  <2>1. u.slot # s
    BY DEF LeaseInv, BoardInv
  <2> QED  BY <1>1, <2>1 DEF LeaseInv, BoardInv, HolderInv, Fits
<1>4. FitInv'
  BY DEF LeaseInv, FitInv
<1>5. JobInv'
  BY <1>1 DEF LeaseInv, JobInv, Active
<1> QED  BY <1>2, <1>3, <1>4, <1>5 DEF LeaseInv

\* A restart gives up the exclusion of the jobs whose running lease it forgets;
\* the tickets of the others still fit.
LEMMA LeaseRestart ==
  ASSUME LeaseInv, Restart
  PROVE  LeaseInv'
<1>1. PICK last \in {0} \cup Slots :
        /\ board' = [s \in Slots \ {r \in Slots : r <= last} |-> board[s]]
        /\ tainted' = tainted \cup
             {board[s].job : s \in {r \in {q \in Slots : q <= last} : board[r].lease > clock}}
  BY DEF Restart
<1>2. UNCHANGED <<clock, tickets, held>> /\ tainted \subseteq tainted'
  BY <1>1 DEF Restart
<1>3. Slots' \subseteq Slots /\ \A s \in Slots' : board'[s] = board[s]
  BY <1>1 DEF Slots
<1>4. \A s \in Slots : s \notin Slots' /\ board[s].lease > clock => board[s].job \in tainted'
  BY <1>1 DEF Slots
<1>5. BoardInv'
  BY <1>2, <1>3 DEF LeaseInv, BoardInv
<1>6. HolderInv'
  <2> SUFFICES ASSUME NEW t \in DOMAIN held, t.job \notin tainted', held[t] > clock
               PROVE  /\ t.slot \in Slots'
                      /\ board'[t.slot].node = t.node /\ board'[t.slot].token = t.token
                      /\ board'[t.slot].status \in Active
                      /\ board'[t.slot].lease = held[t]
    BY <1>2 DEF HolderInv, Fits
  <2>1. /\ Fits(t) /\ board[t.slot].status \in Active /\ board[t.slot].lease = held[t]
        /\ t.slot \in Slots /\ t.job = board[t.slot].job
    BY <1>2 DEF LeaseInv, BoardInv, HolderInv, Fits
  <2>2. t.slot \in Slots'
    BY <1>4, <2>1
  <2> QED  BY <1>3, <2>1, <2>2 DEF Fits
<1>7. FitInv' /\ JobInv'
  BY <1>2, <1>3 DEF LeaseInv, FitInv, JobInv
<1> QED  BY <1>5, <1>6, <1>7 DEF LeaseInv

LEMMA LeaseStep == FenceInv /\ CountInv /\ LeaseInv /\ [Next]_vars => LeaseInv'
<1> SUFFICES ASSUME FenceInv, CountInv, LeaseInv, [Next]_vars PROVE LeaseInv'
  OBVIOUS
<1>0. \A n \in Nodes : node[n].token \in Int
  BY DEF FenceInv, TicketInv, NodeRec
<1>1. ASSUME UNCHANGED <<clock, board, tickets, held, tainted>> PROVE LeaseInv'
  BY <1>1 DEF LeaseInv, BoardInv, HolderInv, FitInv, JobInv, Fits, Slots
<1>2. ASSUME NEW n, Register(n) \/ Heartbeat(n) \/ Unregister(n) PROVE LeaseInv'
  BY <1>1, <1>2 DEF Register, Heartbeat, Unregister
<1>3. ASSUME NEW op, Ask(op) PROVE LeaseInv'
  BY <1>1, <1>3 DEF Ask
<1>4. ASSUME NEW job \in Jobs, Assign(job) PROVE LeaseInv'
  <2>1. CASE UNCHANGED <<board, tickets, held>>
    BY <1>1, <1>4, <2>1 DEF Assign
  <2>2. CASE /\ ~InHand(job)
             /\ \E n \in Nodes : Give(Cardinality(tickets) + 1, job, n)
    <3>1. PICK s : s = Cardinality(tickets) + 1
      OBVIOUS
    <3>2. PICK n \in Nodes : Give(s, job, n)
      BY <2>2, <3>1
    <3>3. /\ Cardinality(tickets) \in Nat
          /\ Cardinality(tickets') = Cardinality(tickets) + 1
      BY <3>2, CountGive
    <3> QED  BY <1>0, <1>4, <2>2, <3>1, <3>2, <3>3, LeaseAssign DEF Assign
  <2> QED  BY <1>4, <2>1, <2>2 DEF Assign
<1>5. ASSUME NEW s \in Slots, Failover(s) PROVE LeaseInv'
  <2>1. CASE UNCHANGED <<board, tickets, held, tainted>>
    BY <1>1, <1>5, <2>1 DEF Failover
  <2>2. CASE /\ Expired(s)
             /\ \E n \in Selected(node) :
                  /\ Give(s, board[s].job, n)
                  /\ tainted' = IF board[s].status \in Active /\ ~Reused(s, n) THEN tainted
                                ELSE tainted \cup {board[s].job}
    <3>1. PICK job : job = board[s].job
      OBVIOUS
    <3>2. PICK n \in Nodes :
            /\ Give(s, job, n)
            /\ tainted' = IF board[s].status \in Active /\ ~Reused(s, n) THEN tainted
                          ELSE tainted \cup {job}
      BY <2>2, <3>1 DEF Selected
    <3>3. /\ Cardinality(tickets) \in Nat
          /\ Cardinality(tickets') = Cardinality(tickets) + 1
      BY <3>2, CountGive
    <3> QED  BY <1>0, <1>5, <2>2, <3>1, <3>2, <3>3, LeaseFailover DEF Failover
  <2> QED  BY <1>5, <2>1, <2>2 DEF Failover
<1>6. ASSUME NEW t, Renew(t) PROVE LeaseInv'
  BY <1>6, LeaseRenew
<1>7. ASSUME NEW t, Complete(t) PROVE LeaseInv'
  <2>1. /\ t \in DOMAIN held /\ t \in tickets /\ t.slot \in Slots /\ Fits(t)
        /\ Settle(t.slot) /\ tickets' = tickets /\ clock' = clock /\ tainted' = tainted
        /\ held' = [u \in DOMAIN held \ {t} |-> held[u]]
    BY <1>7 DEF Complete, Fits, LeaseInv, BoardInv
  <2>2. /\ DOMAIN held' = DOMAIN held \ {t}
        /\ \A u \in DOMAIN held' : held'[u] = held[u]
    BY <2>1
  <2>3. \A u \in DOMAIN held' : u.slot = t.slot /\ u.job \notin tainted' => held[u] <= clock
    BY <2>1, <2>2 DEF LeaseInv, BoardInv, HolderInv, FitInv, Fits
  <2> QED  BY <2>1, <2>2, <2>3, LeaseSettle
<1>8. ASSUME NEW s \in Slots, CompleteByRoute(s) PROVE LeaseInv'
  <2>1. /\ Settle(s) /\ tickets' = tickets /\ clock' = clock /\ held' = held
        /\ tainted' = tainted \cup {board[s].job}
    BY <1>8 DEF CompleteByRoute
  <2>2. \A u \in DOMAIN held' : u.slot = s => u.job \in tainted'
    BY <2>1 DEF LeaseInv, BoardInv
  <2> QED  BY <2>1, <2>2, LeaseSettle
<1>9. CASE Brake
  BY <1>1, <1>9 DEF Brake
<1>10. CASE Tick
  <2>1. clock' = clock + 1 /\ UNCHANGED <<board, tickets, held, tainted>>
    BY <1>10 DEF Tick
  <2>2. clock \in Nat /\ clock' \in Nat /\ \A t \in DOMAIN held : held[t] > clock' => held[t] > clock
    BY <2>1 DEF LeaseInv, BoardInv
  <2> QED  BY <2>1, <2>2 DEF LeaseInv, BoardInv, HolderInv, FitInv, JobInv, Fits, Slots
<1>11. CASE UNCHANGED vars
  BY <1>1, <1>11 DEF vars
<1>12. CASE ListNodes
  BY <1>1, <1>12 DEF ListNodes
<1>13. CASE Restart
  BY <1>13, LeaseRestart
<1> QED
  BY <1>2, <1>3, <1>4, <1>5, <1>6, <1>7, <1>8, <1>9, <1>10, <1>11, <1>12, <1>13 DEF Next

\* Two holders of running leases never work on one job that was not given up:
\* through takeovers, renewals and restarts.
THEOREM LeasesExclude == Spec => []LeaseExclusive
<1>1. LeaseInv => LeaseExclusive
  BY DEF LeaseInv, BoardInv, HolderInv, FitInv, JobInv, LeaseExclusive, Fits
<1> QED  BY FenceInit, FenceStep, CountInit, CountStep, LeaseInit, LeaseStep, <1>1, PTL DEF Spec

-----------------------------------------------------------------------------
(* The emergency stop *)

\* What has passed the check of the brake, and what was given out since, are
\* together no more than the callers.
BrakeInv ==
  /\ IsFiniteSet(asked) /\ late \in Nat
  /\ late + Cardinality(asked) <= Callers
  /\ ~brake => late = 0

LEMMA BrakeStep == BrakeInv /\ [Next]_vars => BrakeInv'
<1> SUFFICES ASSUME BrakeInv, [Next]_vars PROVE BrakeInv'
  OBVIOUS
<1>0. Cardinality(asked) \in Nat /\ Callers \in Nat
  BY FS_CardinalityType, BoardAssumption DEF BrakeInv
<1>1. ASSUME UNCHANGED <<brake, asked, late>> PROVE BrakeInv'
  BY <1>1 DEF BrakeInv
<1>2. ASSUME NEW n, Register(n) \/ Heartbeat(n) \/ Unregister(n) PROVE BrakeInv'
  BY <1>1, <1>2 DEF Register, Heartbeat, Unregister
<1>3. ASSUME NEW op, Ask(op) PROVE BrakeInv'
  <2>1. /\ IsFiniteSet(asked \cup {op})
        /\ Cardinality(asked \cup {op}) \in {Cardinality(asked), Cardinality(asked) + 1}
    BY FS_AddElement DEF BrakeInv
  <2> QED  BY <1>0, <1>3, <2>1 DEF Ask, BrakeInv
<1>4. ASSUME NEW op \in asked, asked' = asked \ {op}, brake' = brake,
             late' = late \/ late' = (IF brake THEN late + 1 ELSE late)
      PROVE  BrakeInv'
  <2>1. /\ IsFiniteSet(asked \ {op})
        /\ Cardinality(asked \ {op}) = Cardinality(asked) - 1
    BY FS_RemoveElement DEF BrakeInv
  <2> QED  BY <1>0, <1>4, <2>1 DEF BrakeInv
<1>5. ASSUME NEW job, Assign(job) PROVE BrakeInv'
  BY <1>4, <1>5 DEF Assign, Give
<1>6. ASSUME NEW s, Failover(s) PROVE BrakeInv'
  BY <1>4, <1>6 DEF Failover, Give
<1>7. ASSUME NEW t, Renew(t) \/ Complete(t) PROVE BrakeInv'
  BY <1>1, <1>7 DEF Renew, Complete
<1>8. ASSUME NEW s, CompleteByRoute(s) PROVE BrakeInv'
  BY <1>1, <1>8 DEF CompleteByRoute
<1>9. CASE Brake
  BY <1>0, <1>9 DEF Brake, BrakeInv
<1>10. CASE Tick
  BY <1>1, <1>10 DEF Tick
<1>11. CASE UNCHANGED vars
  BY <1>1, <1>11 DEF vars
<1>12. CASE ListNodes
  BY <1>1, <1>12 DEF ListNodes
<1>13. CASE Restart
  BY <1>0, <1>13, FS_EmptySet DEF Restart, BrakeInv
<1> QED
  BY <1>2, <1>3, <1>5, <1>6, <1>7, <1>8, <1>9, <1>10, <1>11, <1>12, <1>13 DEF Next

\* No call that begins after the stop gives work out.
THEOREM StopLimitsWork == Spec => []StopLimitsLateWork
<1>1. Init => BrakeInv
  BY FS_EmptySet, BoardAssumption DEF Init, BrakeInv
<1>2. BrakeInv => StopLimitsLateWork
  BY FS_CardinalityType, BoardAssumption DEF BrakeInv, StopLimitsLateWork
<1> QED  BY BrakeStep, <1>1, <1>2, PTL DEF Spec

-----------------------------------------------------------------------------
(* Types and bounds *)

\* Nothing was heard, and no lease was granted, later than now.
TimeInv ==
  /\ clock <= MaxClock /\ brake \in BOOLEAN /\ tainted \subseteq Jobs
  /\ \A n \in Nodes : node[n].beat <= clock
  /\ \A s \in Slots : board[s].lease <= clock + Timeout
  /\ \A t \in DOMAIN held : held[t] <= clock + Timeout

\* A new ticket's lease ends a Timeout from now, and only its node is touched.
LEMMA TimeGive ==
  ASSUME FenceInv, LeaseInv, TimeInv, NEW s, NEW job, NEW n \in Nodes, Give(s, job, n),
         clock' = clock, brake' = brake, tainted' \subseteq Jobs
  PROVE  TimeInv'
<1>1. PICK new : GivesTicket(s, job, n, new)
  BY GiveFacts
<1>2. clock + Timeout \in Int /\ clock \in Nat
  BY BoardAssumption DEF LeaseInv, BoardInv
<1>3. \A m \in Nodes : node'[m].beat = node[m].beat /\ node'[m].status = node[m].status
  BY DEF Give, FenceInv, TicketInv, NodeRec
<1>4. \A r \in Slots' : board'[r].lease <= clock + Timeout
  BY <1>1, <1>2 DEF GivesTicket, TimeInv
<1>5. \A t \in DOMAIN held' : held'[t] <= clock + Timeout
  BY <1>1, <1>2 DEF GivesTicket, TimeInv
<1> QED  BY <1>3, <1>4, <1>5 DEF TimeInv

LEMMA TimeStep == FenceInv /\ LeaseInv /\ TimeInv /\ [Next]_vars => TimeInv'
<1> SUFFICES ASSUME FenceInv, LeaseInv, TimeInv, [Next]_vars PROVE TimeInv'
  OBVIOUS
<1>0. /\ clock \in Nat /\ Timeout \in Nat /\ Timeout > 0
      /\ \A s \in Slots : board[s] \in BoardRec
      /\ \A t \in DOMAIN held : held[t] \in Int /\ t \in tickets
      /\ node \in [Nodes -> NodeRec]
  BY BoardAssumption DEF LeaseInv, BoardInv, FenceInv, TicketInv
<1>1. ASSUME UNCHANGED <<clock, brake, board, held, tainted>>,
             \A n \in Nodes : node'[n].beat \in {node[n].beat, clock, 0}
      PROVE  TimeInv'
  BY <1>0, <1>1 DEF TimeInv, Slots
<1>2. ASSUME node' = node, clock' = clock, brake' \in BOOLEAN, tainted' \subseteq Jobs,
             Slots' = Slots, DOMAIN held' \subseteq DOMAIN held,
             \A s \in Slots : board'[s].lease \in {board[s].lease, 0, clock + Timeout},
             \A t \in DOMAIN held' : held'[t] \in {held[t], clock + Timeout}
      PROVE  TimeInv'
  BY <1>0, <1>2 DEF TimeInv, BoardRec
<1>3. ASSUME NEW n \in Nodes, Register(n) \/ Heartbeat(n) \/ Unregister(n) PROVE TimeInv'
  <2>1. \A m \in Nodes : node'[m].beat \in {node[m].beat, clock, 0}
    BY <1>0, <1>3 DEF Register, Heartbeat, Unregister, Absent, NodeRec
  <2> QED  BY <1>1, <1>3, <2>1 DEF Register, Heartbeat, Unregister, TimeInv
<1>4. ASSUME node' = Marked(node), UNCHANGED <<clock, brake, board, held, tainted>>
      PROVE  TimeInv'
  <2>1. \A m \in Nodes : node'[m].beat = node[m].beat
    BY <1>0, <1>4 DEF Marked, NodeRec
  <2> QED  BY <1>1, <1>4, <2>1 DEF TimeInv
<1>5. ASSUME NEW op, Ask(op) PROVE TimeInv'
  BY <1>4, <1>5 DEF Ask
<1>6. ASSUME NEW job \in Jobs, Assign(job) PROVE TimeInv'
  <2>1. CASE UNCHANGED <<node, board, held>>
    BY <1>0, <1>2, <1>6, <2>1 DEF Assign, TimeInv, Slots
  <2>2. CASE \E n \in Nodes : Give(Cardinality(tickets) + 1, job, n)
    BY <1>6, <2>2, TimeGive DEF Assign, TimeInv
  <2> QED  BY <1>6, <2>1, <2>2 DEF Assign
<1>7. ASSUME NEW s \in Slots, Failover(s) PROVE TimeInv'
  <2>1. CASE UNCHANGED <<node, board, held, tainted>>
    BY <1>0, <1>2, <1>7, <2>1 DEF Failover, TimeInv, Slots
  <2>2. CASE \E n \in Selected(node) :
               /\ Give(s, board[s].job, n)
               /\ tainted' = IF board[s].status \in Active /\ ~Reused(s, n) THEN tainted
                             ELSE tainted \cup {board[s].job}
    <3>1. PICK n \in Nodes :
            /\ Give(s, board[s].job, n)
            /\ tainted' = tainted \/ tainted' = tainted \cup {board[s].job}
      BY <2>2 DEF Selected
    <3>2. tainted' \subseteq Jobs
      BY <1>0, <3>1 DEF TimeInv, BoardRec
    <3> QED  BY <1>7, <3>1, <3>2, TimeGive DEF Failover
  <2> QED  BY <1>7, <2>1, <2>2 DEF Failover
<1>8. ASSUME NEW s \in Slots, Settle(s), UNCHANGED <<clock, brake, node>>,
             tainted' \subseteq Jobs, DOMAIN held' \subseteq DOMAIN held,
             \A t \in DOMAIN held' : held'[t] = held[t]
      PROVE  TimeInv'
  <2>1. /\ Slots' = Slots
        /\ \A r \in Slots : board'[r].lease \in {board[r].lease, 0}
    BY <1>8 DEF Settle, Slots
  <2> QED  BY <1>2, <1>8, <2>1 DEF TimeInv
<1>9. ASSUME NEW s \in Slots, CompleteByRoute(s) PROVE TimeInv'
  <2>1. tainted' \subseteq Jobs
    BY <1>0, <1>9 DEF CompleteByRoute, TimeInv, BoardRec
  <2> QED  BY <1>8, <1>9, <2>1 DEF CompleteByRoute
<1>10. ASSUME NEW t, Complete(t) PROVE TimeInv'
  BY <1>0, <1>8, <1>10 DEF Complete, Fits, TimeInv
<1>11. ASSUME NEW t, Renew(t) PROVE TimeInv'
  <2>1. /\ t \in DOMAIN held /\ t.slot \in Slots
        /\ Slots' = Slots /\ DOMAIN held' = DOMAIN held
        /\ \A u \in DOMAIN held' : held'[u] \in {held[u], clock + Timeout}
    BY <1>0, <1>11 DEF Renew, Slots, Fits
  <2>2. \A s \in Slots : board'[s].lease \in {board[s].lease, clock + Timeout}
    BY <1>0, <1>11, <2>1 DEF Renew, Slots, BoardRec
  <2> QED  BY <1>2, <1>11, <2>1, <2>2 DEF Renew, TimeInv
<1>12. CASE Brake
  <2>1. UNCHANGED <<clock, node, board, held, tainted>> /\ brake' \in BOOLEAN
    BY <1>12 DEF Brake
  <2> QED  BY <1>2, <2>1 DEF TimeInv, Slots
<1>13. CASE Tick
  <2>1. clock' = clock + 1 /\ clock < MaxClock /\ UNCHANGED <<brake, node, board, held, tainted>>
    BY <1>13 DEF Tick
  <2> QED  BY <1>0, <2>1, BoardAssumption DEF TimeInv, Slots, NodeRec, BoardRec
<1>14. CASE ListNodes
  BY <1>4, <1>14 DEF ListNodes
<1>15. CASE Restart
  <2>1. /\ UNCHANGED <<clock, brake, node, held>>
        /\ Slots' \subseteq Slots /\ \A s \in Slots' : board'[s] = board[s]
    BY <1>15 DEF Restart, Slots
  <2>2. tainted' \subseteq Jobs
    BY <1>0, <1>15 DEF Restart, TimeInv, BoardRec
  <2> QED  BY <2>1, <2>2 DEF TimeInv
<1>16. CASE UNCHANGED vars
  BY <1>16 DEF vars, TimeInv, Slots
<1> QED
  BY <1>3, <1>5, <1>6, <1>7, <1>9, <1>10, <1>11, <1>12, <1>13, <1>14, <1>15, <1>16 DEF Next

\* The board keeps its types; no lease, on the board or in a worker's hands,
\* reaches further than one Timeout from now, and no token counts more than was
\* given out.
THEOREM BoardTyped == Spec => []TypeOK
<1>1. Init => TimeInv /\ BrakeInv
  <2> SUFFICES ASSUME Init PROVE TimeInv /\ BrakeInv
    OBVIOUS
  <2>1. IsFiniteSet({}) /\ Cardinality({}) = 0
    BY FS_EmptySet
  <2>2. DOMAIN board = {} /\ DOMAIN held = {}
    BY DEF Init
  <2>3. /\ {MaxIssued, MaxClock, Callers} \subseteq Nat
        /\ \A n \in Nodes : node[n] = Absent
    BY BoardAssumption DEF Init
  <2>5. TimeInv
    <3>1. clock = 0 /\ 0 <= MaxClock /\ brake = FALSE /\ tainted = {}
      BY <2>3 DEF Init
    <3>2. \A n \in Nodes : node[n].beat = 0
      BY <2>3 DEF Absent
    <3>3. clock <= MaxClock /\ brake \in BOOLEAN /\ tainted \subseteq Jobs
      BY <3>1
    <3>4. \A n \in Nodes : node[n].beat <= clock
      BY <3>1, <3>2
    <3>5. (\A s \in Slots : FALSE) /\ (\A t \in DOMAIN held : FALSE)
      BY <2>2 DEF Slots
    <3> QED  BY <3>3, <3>4, <3>5 DEF TimeInv
  <2>6. BrakeInv
    BY <2>1, <2>3 DEF Init, BrakeInv
  <2> QED  BY <2>5, <2>6
<1>2. FenceInv /\ LeaseInv /\ CountInv /\ TimeInv /\ BrakeInv => TypeOK
  <2> SUFFICES ASSUME FenceInv, LeaseInv, CountInv, TimeInv, BrakeInv PROVE TypeOK
    OBVIOUS
  <2>1. Cardinality(tickets) \in Nat /\ {MaxClock, MaxIssued} \subseteq Nat
    BY FS_CardinalityType, BoardAssumption DEF CountInv
  <2>2. clock \in 0..MaxClock /\ brake \in BOOLEAN /\ late \in Nat
    BY <2>1 DEF FenceInv, TicketInv, TimeInv, BrakeInv
  <2>3. \A n \in Nodes : /\ node[n].status \in {"absent", "online", "stale"}
                         /\ node[n].token \in 0..MaxIssued
    BY <2>1 DEF FenceInv, TicketInv, NodeRec, CountInv
  <2>4. \A s \in Slots : /\ board[s].job \in Jobs /\ board[s].node \in Nodes
                         /\ board[s].status \in Active \cup {"ended"}
    BY DEF LeaseInv, BoardInv, BoardRec, Active
  <2> QED  BY <2>2, <2>3, <2>4 DEF TypeOK, TimeInv, LeaseInv, BoardInv
<1> QED
  BY FenceInit, FenceStep, CountInit, CountStep, LeaseInit, LeaseStep, TimeStep, BrakeStep,
     <1>1, <1>2, PTL
  DEF Spec
=============================================================================
