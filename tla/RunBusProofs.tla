---------------------------- MODULE RunBusProofs ----------------------------
(***************************************************************************)
(* Theorems about RunBus, for any set of threads and clients and every     *)
(* value of its limits and bounds.                                         *)
(***************************************************************************)
EXTENDS RunBus, SequenceTheorems, FiniteSetTheorems, TLAPS

\* deque(maxlen=n) after one append: what stays, and what was pushed out.
LEMMA NewestFacts ==
  ASSUME NEW S, NEW s \in Seq(S), NEW e \in S, NEW n \in Nat \ {0}, Len(s) <= n
  PROVE  LET u == Newest(Append(s, e), n) IN
         /\ u \in Seq(S)
         /\ Len(u) = IF Len(s) < n THEN Len(s) + 1 ELSE n
         /\ \A i \in 1..Len(u) :
              u[i] = IF i = Len(u) THEN e ELSE s[i + (Len(s) + 1 - Len(u))]
<1> DEFINE a == Append(s, e)
           k == IF Len(a) > n THEN Len(a) - n + 1 ELSE 1
<1>1. /\ a \in Seq(S) /\ Len(a) = Len(s) + 1 /\ Len(s) \in Nat
      /\ \A i \in 1..Len(a) : a[i] = IF i = Len(a) THEN e ELSE s[i]
  OBVIOUS
<1> HIDE DEF a
<1>2. k \in 1..Len(a)
  BY <1>1
<1>6. Newest(a, n) = SubSeq(a, k, Len(a))
  BY DEF Newest
<1>7. Len(a) - k + 1 = IF Len(s) < n THEN Len(s) + 1 ELSE n
  <2>1. Len(s) \in Nat /\ Len(a) = Len(s) + 1 /\ n \in Nat /\ Len(s) <= n
    BY <1>1
  <2>2. CASE Len(s) < n
    <3>1. k = 1
      BY <2>1, <2>2
    <3> HIDE DEF k
    <3> QED  BY <2>1, <2>2, <3>1
  <2>3. CASE Len(s) = n
    <3>1. k = 2
      BY <2>1, <2>3
    <3> HIDE DEF k
    <3> QED  BY <2>1, <2>3, <3>1
  <2>4. Len(s) < n \/ Len(s) = n
    BY <2>1
  <2> HIDE DEF k
  <2> QED  BY <2>2, <2>3, <2>4
<1> HIDE DEF k
<1>3. SubSeq(a, k, Len(a)) \in Seq(S)
  BY <1>1, <1>2
<1>4. Len(SubSeq(a, k, Len(a))) = Len(a) - k + 1
  BY <1>1, <1>2
<1>5. ASSUME NEW i \in 1..(Len(a) - k + 1)
      PROVE  SubSeq(a, k, Len(a))[i] = a[k + i - 1]
  BY <1>1, <1>2
<1>8. ASSUME NEW i \in 1..(Len(a) - k + 1)
      PROVE  a[k + i - 1] = IF i = Len(a) - k + 1 THEN e
                            ELSE s[i + (Len(s) + 1 - (Len(a) - k + 1))]
  <2>1. k + i - 1 \in 1..Len(a) /\ (k + i - 1 = Len(a) <=> i = Len(a) - k + 1)
    BY <1>1, <1>2
  <2>2. k + i - 1 = i + (Len(s) + 1 - (Len(a) - k + 1))
    BY <1>1, <1>2
  <2> QED  BY <1>1, <2>1, <2>2
<1> QED
  BY <1>3, <1>4, <1>5, <1>6, <1>7, <1>8 DEF a

LEMMA OldestFacts ==
  ASSUME NEW S, NEW s \in Seq(S), NEW e \in S, NEW n \in Nat \ {0}, Len(s) <= n
  PROVE  ToSet(Oldest(Append(s, e), n)) = IF Len(s) < n THEN {} ELSE {s[1]}
<1> DEFINE a == Append(s, e)
<1>1. /\ a \in Seq(S) /\ Len(a) = Len(s) + 1 /\ Len(s) \in Nat
      /\ \A i \in 1..Len(s) : a[i] = s[i]
  OBVIOUS
<1> HIDE DEF a
<1>2. CASE Len(s) < n
  <2>1. Oldest(a, n) = SubSeq(a, 1, 0)
    BY <1>1, <1>2 DEF Oldest
  <2>2. SubSeq(a, 1, 0) = <<>>
    BY <1>1
  <2> QED  BY <1>2, <2>1, <2>2 DEF ToSet, a
<1>3. CASE Len(s) = n
  <2>1. Oldest(a, n) = SubSeq(a, 1, 1)
    BY <1>1, <1>3 DEF Oldest
  <2>2. /\ SubSeq(a, 1, 1) \in Seq(S) /\ Len(SubSeq(a, 1, 1)) = 1
        /\ SubSeq(a, 1, 1)[1] = s[1]
    BY <1>1, <1>3
  <2>3. DOMAIN SubSeq(a, 1, 1) = {1}
    BY <2>2
  <2> QED  BY <1>3, <2>1, <2>2, <2>3 DEF ToSet, a
<1> QED
  BY <1>1, <1>2, <1>3

-----------------------------------------------------------------------------
(* The ring *)

RingTypes ==
  /\ seq \in Nat /\ gen \in Nat
  /\ ring \in Seq(Event) /\ Len(ring) <= RingMax
  /\ plan \in [Threads -> Seq(Stages)]

RingInv == RingTypes /\ RingIsTail

LEMMA EmitStep ==
  ASSUME RingInv, NEW t \in Threads, NEW kind \in Kinds, Emit(t, kind), gen' = gen
  PROVE  /\ seq' \in Nat /\ gen' \in Nat
         /\ ring' \in Seq(Event) /\ Len(ring') <= RingMax
         /\ RingIsTail'
<1> DEFINE e == [id |-> seq + 1, gen |-> gen, kind |-> kind]
<1>0. /\ seq \in Nat /\ gen \in Nat /\ RingMax \in Nat \ {0}
      /\ ring \in Seq(Event) /\ Len(ring) <= RingMax /\ RingIsTail
  BY BusAssumption DEF RingInv, RingTypes
<1>1. e \in Event /\ seq \in Nat /\ RingMax \in Nat \ {0}
  BY <1>0 DEF Event
<1>2. ring' = Newest(Append(ring, e), RingMax) /\ seq' = seq + 1
  BY DEF Emit
<1>3. e.id = seq + 1
  OBVIOUS
<1> HIDE DEF e
<1>4. /\ ring' \in Seq(Event)
      /\ Len(ring') = IF Len(ring) < RingMax THEN Len(ring) + 1 ELSE RingMax
      /\ \A i \in 1..Len(ring') :
           ring'[i] = IF i = Len(ring') THEN e ELSE ring[i + (Len(ring) + 1 - Len(ring'))]
  <2>1. ring \in Seq(Event) /\ Len(ring) <= RingMax
    BY <1>0
  <2>2. LET u == Newest(Append(ring, e), RingMax) IN
        /\ u \in Seq(Event)
        /\ Len(u) = IF Len(ring) < RingMax THEN Len(ring) + 1 ELSE RingMax
        /\ \A i \in 1..Len(u) :
             u[i] = IF i = Len(u) THEN e ELSE ring[i + (Len(ring) + 1 - Len(u))]
    BY <2>1, <1>1, NewestFacts
  <2> QED  BY <2>2, <1>2
<1>5. Len(ring) \in Nat /\ Len(ring') \in Nat /\ Len(ring') <= RingMax
  BY <1>0, <1>1, <1>4
<1>6. ASSUME gen' = 0
      PROVE  /\ Len(ring') = IF seq' < RingMax THEN seq' ELSE RingMax
             /\ \A i \in DOMAIN ring' : ring'[i].id = seq' - Len(ring') + i
  <2>1. /\ Len(ring) = IF seq < RingMax THEN seq ELSE RingMax
        /\ \A i \in 1..Len(ring) : ring[i].id = seq - Len(ring) + i
    BY <1>0, <1>6 DEF RingIsTail
  <2>2. Len(ring') = IF seq' < RingMax THEN seq' ELSE RingMax
    BY <1>1, <1>2, <1>4, <1>5, <2>1
  <2>3. ASSUME NEW i \in 1..Len(ring')
        PROVE  ring'[i].id = seq' - Len(ring') + i
    <3>1. CASE i = Len(ring')
      <4>1. ring'[i].id = seq + 1
        BY <3>1, <1>3, <1>4
      <4>2. seq' - Len(ring') + i = seq + 1
        BY <3>1, <1>1, <1>2, <1>5
      <4> QED  BY <4>1, <4>2
    <3>2. CASE i # Len(ring')
      <4> DEFINE m == i + (Len(ring) + 1 - Len(ring'))
      <4>1. m \in 1..Len(ring)
        BY <3>2, <1>4, <1>5, <1>1
      <4>2. ring'[i] = ring[m]
        BY <3>2, <1>4
      <4>3. ring[m].id = seq - Len(ring) + m
        BY <4>1, <2>1
      <4>4. seq - Len(ring) + m = seq' - Len(ring') + i
        BY <1>1, <1>2, <1>5
      <4> QED  BY <4>2, <4>3, <4>4
    <3> QED  BY <3>1, <3>2
  <2> QED  BY <2>2, <2>3, <1>4
<1>7. RingIsTail'
  BY <1>6 DEF RingIsTail
<1>8. seq' \in Nat /\ gen' \in Nat
  BY <1>0, <1>2
<1> QED
  BY <1>4, <1>5, <1>7, <1>8

\* The stages a call leaves behind are stages.
LEMMA ThenType ==
  ASSUME RingTypes, NEW t \in Threads, NEW s \in Seq(Stages), Then(t, s)
  PROVE  plan' \in [Threads -> Seq(Stages)]
BY DEF RingTypes, Then

LEMMA RingStep ==
  ASSUME RingInv, [Next]_vars
  PROVE  RingInv'
<1>0. /\ <<"progress">> \in Seq(Stages) /\ <<>> \in Seq(Stages)
      /\ <<"run_finished", "__closed__">> \in Seq(Stages)
      /\ "progress" \in Kinds
  BY DEF Stages, Kinds
<1>00. RingTypes
  BY DEF RingInv
<1>1. ASSUME UNCHANGED <<seq, gen, ring>>, plan' \in [Threads -> Seq(Stages)]
      PROVE  RingInv'
  BY <1>1 DEF RingInv, RingTypes, RingIsTail
<1>2. ASSUME NEW t \in Threads, ThreadStep(t)
      PROVE  RingInv'
  <2>1. CASE Publish(t)
    <3>1. Emit(t, "progress") /\ gen' = gen /\ plan' = plan
      BY <2>1 DEF Publish
    <3> QED  BY <3>1, <1>0, EmitStep DEF RingInv, RingTypes
  <2>2. CASE Finish(t)
    <3>1. UNCHANGED <<seq, gen, ring>>
      BY <2>2 DEF Finish
    <3>2. PICK failed \in BOOLEAN :
            Then(t, (IF failed THEN <<"progress">> ELSE <<>>) \o <<"run_finished", "__closed__">>)
      BY <2>2 DEF Finish
    <3>3. (IF failed THEN <<"progress">> ELSE <<>>) \o <<"run_finished", "__closed__">> \in Seq(Stages)
      BY <1>0, ConcatProperties
    <3> QED  BY <3>1, <3>2, <3>3, <1>00, <1>1, ThenType
  <2>3. CASE Restart(t)
    <3>1. /\ seq' = 0 /\ gen' = gen + 1 /\ ring' = ring
          /\ Then(t, <<"progress">>)
      BY <2>3 DEF Restart
    <3>2. plan' \in [Threads -> Seq(Stages)]
      BY <3>1, <1>0, <1>00, ThenType
    <3> QED  BY <3>1, <3>2 DEF RingInv, RingTypes, RingIsTail
  <2>4. CASE Cancel(t)
    BY <2>4, <1>0, <1>00, <1>1, ThenType DEF Cancel
  <2>5. CASE Steer(t)
    BY <2>5, <1>0, <1>00, <1>1, ThenType DEF Steer, runVars
  <2>6. CASE PendingSteers(t)
    BY <2>6, <1>0, <1>00, <1>1, ThenType DEF PendingSteers, runVars
  <2>7. CASE Continue(t)
    <3>1. plan[t] \in Seq(Stages) /\ plan[t] # <<>>
      BY <2>7, <1>00 DEF Continue, RingTypes
    <3>2. Head(plan[t]) \in Stages /\ Tail(plan[t]) \in Seq(Stages)
      BY <3>1
    <3>3. plan' \in [Threads -> Seq(Stages)] /\ gen' = gen
      BY <2>7, <3>2, <1>00, ThenType DEF Continue
    <3>4. CASE Head(plan[t]) = "__closed__"
      BY <2>7, <3>3, <3>4, <1>1 DEF Continue
    <3>5. CASE Head(plan[t]) # "__closed__"
      <4>1. Emit(t, Head(plan[t])) /\ Head(plan[t]) \in Kinds
        BY <2>7, <3>2, <3>5 DEF Continue, Stages
      <4> QED  BY <4>1, <3>3, EmitStep DEF RingInv, RingTypes
    <3> QED  BY <3>4, <3>5
  <2>8. ASSUME NEW c \in Clients, Offer(t, c)
        PROVE  RingInv'
    BY <2>8, <1>00, <1>1 DEF Offer, runVars, RingTypes
  <2> QED  BY <1>2, <2>1, <2>2, <2>3, <2>4, <2>5, <2>6, <2>7, <2>8 DEF ThreadStep
<1>3. ASSUME NEW c \in Clients, ClientStep(c)
      PROVE  RingInv'
  <2>1. UNCHANGED <<seq, gen, ring, plan>>
    BY <1>3 DEF ClientStep, Subscribe, PutNowait, Receive, ReceiveClosed, Leave,
                runVars, threadVars
  <2> QED  BY <2>1, <1>00, <1>1 DEF RingTypes
<1>4. CASE UNCHANGED vars
  BY <1>4, <1>00, <1>1 DEF vars, runVars, threadVars, RingTypes
<1> QED
  BY <1>2, <1>3, <1>4 DEF Next

LEMMA InitRing == Init => RingInv
<1> SUFFICES ASSUME Init PROVE RingInv
  OBVIOUS
<1>1. plan \in [Threads -> Seq(Stages)]
  <2>1. <<"progress">> \in Seq(Stages) /\ <<>> \in Seq(Stages)
    BY DEF Stages, Kinds
  <2> QED  BY <2>1 DEF Init
<1> QED
  BY <1>1, BusAssumption DEF Init, RingInv, RingTypes, RingIsTail

\* With any number of threads in publish() at once, the ring of a run that
\* was started once is the gapless tail of what was published.
THEOREM RingHasNoGaps == Spec => []RingIsTail
<1>1. Init => RingInv
  BY InitRing
<1>2. RingInv /\ [Next]_vars => RingInv'
  BY RingStep
<1>3. RingInv => RingIsTail
  BY DEF RingInv
<1> QED
  BY <1>1, <1>2, <1>3, PTL DEF Spec

-----------------------------------------------------------------------------
(* The steering inbox *)

Ascending(s) == \A i, j \in DOMAIN s : i < j => s[i] < s[j]

SteerTypes ==
  /\ asked \in Nat /\ pushed \subseteq Nat
  /\ given \in Seq(Nat) /\ steers \in Seq(Nat) /\ Len(steers) <= InboxMax

\* SteersOnce, taken apart into the instructions handed out and those waiting.
SteerParts ==
  /\ Ascending(given) /\ Ascending(steers)
  /\ \A i \in DOMAIN given, j \in DOMAIN steers : given[i] < steers[j]
  /\ ToSet(given) \cup ToSet(steers) \cup pushed = 1..asked
  /\ ToSet(given) \cap pushed = {} /\ ToSet(steers) \cap pushed = {}

SteerInv == SteerTypes /\ SteerParts

\* Putting ascending sequences together.
LEMMA AscendingConcat ==
  ASSUME NEW s \in Seq(Nat), NEW u \in Seq(Nat), Ascending(s), Ascending(u),
         \A i \in DOMAIN s, j \in DOMAIN u : s[i] < u[j]
  PROVE  /\ s \o u \in Seq(Nat)
         /\ Ascending(s \o u)
         /\ ToSet(s \o u) = ToSet(s) \cup ToSet(u)
<1>1. /\ s \o u \in Seq(Nat) /\ Len(s \o u) = Len(s) + Len(u)
      /\ \A i \in 1..(Len(s) + Len(u)) :
           (s \o u)[i] = IF i <= Len(s) THEN s[i] ELSE u[i - Len(s)]
  BY ConcatProperties
<1>2. /\ Len(s) \in Nat /\ Len(u) \in Nat
      /\ DOMAIN s = 1..Len(s) /\ DOMAIN u = 1..Len(u)
      /\ DOMAIN (s \o u) = 1..(Len(s) + Len(u))
  BY <1>1
<1> DEFINE w == s \o u
<1>3. /\ \A i \in 1..Len(s) : w[i] = s[i]
      /\ \A i \in 1..Len(u) : w[i + Len(s)] = u[i]
      /\ \A i \in 1..(Len(s) + Len(u)) :
           i <= Len(s) \/ (i - Len(s) \in 1..Len(u) /\ w[i] = u[i - Len(s)])
  <2>1. ASSUME NEW i \in 1..Len(s) PROVE w[i] = s[i]
    BY <1>1, <1>2
  <2>2. ASSUME NEW i \in 1..Len(u) PROVE w[i + Len(s)] = u[i]
    <3>1. i + Len(s) \in 1..(Len(s) + Len(u)) /\ ~(i + Len(s) <= Len(s)) /\ (i + Len(s)) - Len(s) = i
      BY <1>2
    <3> QED  BY <3>1, <1>1
  <2>3. ASSUME NEW i \in 1..(Len(s) + Len(u)), ~(i <= Len(s))
        PROVE  i - Len(s) \in 1..Len(u) /\ w[i] = u[i - Len(s)]
    BY <2>3, <1>1, <1>2
  <2> QED  BY <2>1, <2>2, <2>3
<1> HIDE DEF w
<1>4. DOMAIN w = 1..(Len(s) + Len(u)) /\ w \in Seq(Nat)
  BY <1>1, <1>2 DEF w
<1>5. ASSUME NEW i \in DOMAIN w, NEW j \in DOMAIN w, i < j
      PROVE  w[i] < w[j]
  <2>1. CASE j <= Len(s)
    <3>1. i \in 1..Len(s) /\ j \in 1..Len(s)
      BY <1>2, <1>4, <1>5, <2>1
    <3> QED  BY <3>1, <1>2, <1>3, <1>5 DEF Ascending
  <2>2. CASE i <= Len(s) /\ ~(j <= Len(s))
    <3>1. i \in 1..Len(s)
      BY <1>2, <1>4, <2>2
    <3>2. j - Len(s) \in 1..Len(u) /\ w[j] = u[j - Len(s)]
      BY <1>3, <1>4, <2>2
    <3> QED  BY <3>1, <3>2, <1>2, <1>3
  <2>3. CASE ~(i <= Len(s))
    <3>1. j - Len(s) \in 1..Len(u) /\ w[j] = u[j - Len(s)]
      <4>1. ~(j <= Len(s))
        BY <1>2, <1>4, <1>5, <2>3
      <4> QED  BY <4>1, <1>3, <1>4
    <3>2. i - Len(s) \in 1..Len(u) /\ w[i] = u[i - Len(s)]
      BY <1>3, <1>4, <2>3
    <3>3. i - Len(s) < j - Len(s)
      BY <1>2, <1>4, <1>5
    <3> QED  BY <3>1, <3>2, <3>3, <1>2 DEF Ascending
  <2> QED
    <3>1. i <= Len(s) \/ ~(i <= Len(s))
      OBVIOUS
    <3> QED  BY <3>1, <2>1, <2>2, <2>3
<1>6. ToSet(w) = ToSet(s) \cup ToSet(u)
  <2>1. ToSet(w) \subseteq ToSet(s) \cup ToSet(u)
    <3> SUFFICES ASSUME NEW i \in DOMAIN w PROVE w[i] \in ToSet(s) \cup ToSet(u)
      BY DEF ToSet
    <3>1. CASE i <= Len(s)
      <4>1. i \in 1..Len(s)
        BY <1>2, <1>4, <3>1
      <4> QED  BY <4>1, <1>2, <1>3 DEF ToSet
    <3>2. CASE ~(i <= Len(s))
      <4>1. i - Len(s) \in 1..Len(u) /\ w[i] = u[i - Len(s)]
        BY <1>3, <1>4, <3>2
      <4> QED  BY <4>1, <1>2 DEF ToSet
    <3> QED  BY <3>1, <3>2
  <2>2. ToSet(s) \subseteq ToSet(w)
    <3> SUFFICES ASSUME NEW i \in 1..Len(s) PROVE s[i] \in ToSet(w)
      BY <1>2 DEF ToSet
    <3>1. i \in DOMAIN w /\ w[i] = s[i]
      BY <1>2, <1>3, <1>4
    <3> QED  BY <3>1 DEF ToSet
  <2>3. ToSet(u) \subseteq ToSet(w)
    <3> SUFFICES ASSUME NEW i \in 1..Len(u) PROVE u[i] \in ToSet(w)
      BY <1>2 DEF ToSet
    <3>1. i + Len(s) \in DOMAIN w /\ w[i + Len(s)] = u[i]
      BY <1>2, <1>3, <1>4
    <3> QED  BY <3>1 DEF ToSet
  <2> QED  BY <2>1, <2>2, <2>3
<1> QED
  BY <1>4, <1>5, <1>6 DEF w, Ascending

\* An accepted instruction goes behind all others; a full inbox gives up its
\* first.
LEMMA SteerStep ==
  ASSUME SteerInv, NEW t \in Threads, Steer(t)
  PROVE  SteerInv'
<1>1. /\ asked \in Nat /\ pushed \subseteq Nat
      /\ given \in Seq(Nat) /\ steers \in Seq(Nat) /\ Len(steers) <= InboxMax
      /\ InboxMax \in Nat \ {0}
  BY BusAssumption DEF SteerInv, SteerTypes
<1>2. /\ asked' = asked + 1 /\ given' = given
      /\ steers' = Newest(Append(steers, asked'), InboxMax)
      /\ pushed' = pushed \cup ToSet(Oldest(Append(steers, asked'), InboxMax))
  BY DEF Steer
<1>3. asked' \in Nat
  BY <1>1, <1>2
<1> DEFINE l == Len(steers)
           d == l + 1 - Len(steers')
<1>4. /\ steers' \in Seq(Nat)
      /\ Len(steers') = IF l < InboxMax THEN l + 1 ELSE InboxMax
      /\ \A i \in 1..Len(steers') :
           steers'[i] = IF i = Len(steers') THEN asked' ELSE steers[i + d]
  <2>1. LET u == Newest(Append(steers, asked'), InboxMax) IN
        /\ u \in Seq(Nat)
        /\ Len(u) = IF Len(steers) < InboxMax THEN Len(steers) + 1 ELSE InboxMax
        /\ \A i \in 1..Len(u) :
             u[i] = IF i = Len(u) THEN asked'
                    ELSE steers[i + (Len(steers) + 1 - Len(u))]
    <3> DEFINE N == Nat
    <3>1. asked' \in N /\ steers \in Seq(N) /\ InboxMax \in Nat \ {0} /\ Len(steers) <= InboxMax
      BY <1>1, <1>3
    <3> HIDE DEF N
    <3>2. LET u == Newest(Append(steers, asked'), InboxMax) IN
          /\ u \in Seq(N)
          /\ Len(u) = IF Len(steers) < InboxMax THEN Len(steers) + 1 ELSE InboxMax
          /\ \A i \in 1..Len(u) :
               u[i] = IF i = Len(u) THEN asked'
                      ELSE steers[i + (Len(steers) + 1 - Len(u))]
      BY <3>1, NewestFacts
    <3> QED  BY <3>2 DEF N
  <2> QED  BY <2>1, <1>2
<1>5. pushed' = pushed \cup (IF l < InboxMax THEN {} ELSE {steers[1]})
  <2>1. ToSet(Oldest(Append(steers, asked'), InboxMax)) = IF l < InboxMax THEN {} ELSE {steers[1]}
    BY <1>1, <1>3, OldestFacts
  <2> QED  BY <2>1, <1>2
<1>6. /\ l \in Nat /\ Len(steers') \in 1..InboxMax
      /\ d = IF l < InboxMax THEN 0 ELSE 1
      /\ Len(steers') = l + 1 - d
      /\ DOMAIN steers = 1..l /\ DOMAIN steers' = 1..Len(steers')
      /\ \A i \in 1..l : steers[i] \in Nat
  <2>1. l \in Nat /\ l <= InboxMax /\ InboxMax \in Nat \ {0} /\ DOMAIN steers = 1..l
    BY <1>1
  <2>2. Len(steers') \in Nat /\ DOMAIN steers' = 1..Len(steers')
    BY <1>4
  <2> HIDE DEF l
  <2>3. CASE l < InboxMax
    <3>1. Len(steers') = l + 1
      BY <1>4, <2>3
    <3> QED  BY <3>1, <2>1, <2>2, <2>3, <1>1 DEF l
  <2>4. CASE l = InboxMax
    <3>1. Len(steers') = l
      BY <1>4, <2>1, <2>4
    <3> QED  BY <3>1, <2>1, <2>2, <2>4, <1>1 DEF l
  <2> QED  BY <2>1, <2>3, <2>4
<1>7. SteerParts
  BY DEF SteerInv
<1> HIDE DEF l, d
<1>8. d \in {0, 1} /\ \A i \in 1..Len(steers') : i # Len(steers') => i + d \in 1..l
  BY <1>6
<1>9. /\ \A i \in 1..l : steers[i] < asked'
      /\ \A i \in DOMAIN given : given[i] \in Nat /\ given[i] < asked'
  <2>1. \A x \in ToSet(given) \cup ToSet(steers) : x \in Nat /\ x < asked'
    BY <1>1, <1>2, <1>7 DEF SteerParts
  <2> QED  BY <2>1, <1>6 DEF ToSet
<1>10. SteerTypes'
  <2>1. pushed' \subseteq Nat
    <3>1. ~(l < InboxMax) => steers[1] \in Nat
      BY <1>1, <1>6
    <3> QED  BY <3>1, <1>1, <1>5
  <2>2. Len(steers') <= InboxMax
    BY <1>1, <1>6
  <2> QED  BY <2>1, <2>2, <1>1, <1>2, <1>3, <1>4 DEF SteerTypes
<1>11. Ascending(steers')
  <2> SUFFICES ASSUME NEW i \in 1..Len(steers'), NEW j \in 1..Len(steers'), i < j
               PROVE  steers'[i] < steers'[j]
    BY <1>6 DEF Ascending
  <2>1. i # Len(steers') /\ i + d \in 1..l /\ steers'[i] = steers[i + d]
    BY <1>4, <1>6, <1>8
  <2>2. CASE j = Len(steers')
    BY <2>1, <2>2, <1>4, <1>9
  <2>3. CASE j # Len(steers')
    <3>1. j + d \in 1..l /\ steers'[j] = steers[j + d] /\ i + d < j + d
      BY <2>3, <1>4, <1>6, <1>8
    <3> QED  BY <2>1, <3>1, <1>6, <1>7 DEF SteerParts, Ascending
  <2> QED  BY <2>2, <2>3
<1>12. ASSUME NEW i \in DOMAIN given, NEW j \in DOMAIN steers'
       PROVE  given[i] < steers'[j]
  <2>1. CASE j = Len(steers')
    BY <2>1, <1>4, <1>6, <1>9
  <2>2. CASE j # Len(steers')
    <3>1. j + d \in DOMAIN steers /\ steers'[j] = steers[j + d]
      BY <2>2, <1>4, <1>6, <1>8
    <3> QED  BY <3>1, <1>7 DEF SteerParts
  <2> QED  BY <2>1, <2>2
<1> DEFINE out == IF l < InboxMax THEN {} ELSE {steers[1]}
<1>13. /\ ToSet(steers') \cup out = ToSet(steers) \cup {asked'}
       /\ ToSet(steers') \cap out = {}
       /\ ToSet(given) \cap out = {}
       /\ asked' \notin out
  <2>1. ToSet(steers') \subseteq ToSet(steers) \cup {asked'}
    <3> SUFFICES ASSUME NEW i \in 1..Len(steers') PROVE steers'[i] \in ToSet(steers) \cup {asked'}
      BY <1>6 DEF ToSet
    <3> QED  BY <1>4, <1>6, <1>8 DEF ToSet
  <2>2. asked' \in ToSet(steers')
    <3>1. Len(steers') \in 1..Len(steers')
      BY <1>6
    <3> QED  BY <3>1, <1>4, <1>6 DEF ToSet
  <2>3. ASSUME NEW i \in 1..l, i > d PROVE steers[i] \in ToSet(steers')
    <3>1. i - d \in 1..Len(steers') /\ i - d # Len(steers') /\ (i - d) + d = i
      BY <2>3, <1>6, <1>8
    <3>2. steers'[i - d] = steers[i]
      BY <3>1, <1>4
    <3> QED  BY <3>1, <3>2, <1>6 DEF ToSet
  <2>4. CASE l < InboxMax
    <3>1. d = 0 /\ out = {}
      BY <1>6, <2>4
    <3>2. ToSet(steers) \subseteq ToSet(steers')
      <4> SUFFICES ASSUME NEW i \in 1..l PROVE steers[i] \in ToSet(steers')
        BY <1>6 DEF ToSet
      <4> QED  BY <2>3, <3>1
    <3> QED  BY <2>1, <2>2, <3>1, <3>2
  <2>5. CASE ~(l < InboxMax)
    <3>1. d = 1 /\ out = {steers[1]} /\ 1 \in 1..l
      BY <1>1, <1>6, <2>5
    <3>2. ToSet(steers) \subseteq ToSet(steers') \cup {steers[1]}
      <4> SUFFICES ASSUME NEW i \in 1..l PROVE steers[i] \in ToSet(steers') \cup {steers[1]}
        BY <1>6 DEF ToSet
      <4>1. i = 1 \/ i > d
        BY <3>1, <1>6
      <4> QED  BY <4>1, <2>3
    <3>3. steers[1] \in ToSet(steers)
      BY <3>1, <1>6 DEF ToSet
    <3>4. steers[1] \in Nat /\ steers[1] < asked'
      BY <3>1, <1>6, <1>9
    <3>5. ASSUME NEW j \in 1..Len(steers') PROVE steers'[j] # steers[1]
      <4>1. CASE j = Len(steers')
        BY <4>1, <3>4, <1>3, <1>4
      <4>2. CASE j # Len(steers')
        <5>1. j + 1 \in 1..l /\ 1 < j + 1 /\ steers'[j] = steers[j + 1]
          BY <4>2, <3>1, <1>4, <1>6, <1>8
        <5>2. steers[1] < steers[j + 1]
          BY <5>1, <3>1, <1>6, <1>7 DEF SteerParts, Ascending
        <5> QED  BY <5>1, <5>2, <3>4, <1>6
      <4> QED  BY <4>1, <4>2
    <3>6. steers[1] \notin ToSet(steers')
      BY <3>5, <1>6 DEF ToSet
    <3>7. steers[1] \notin ToSet(given)
      <4> SUFFICES ASSUME NEW i \in DOMAIN given PROVE given[i] # steers[1]
        BY DEF ToSet
      <4>1. given[i] < steers[1]
        BY <3>1, <1>6, <1>7 DEF SteerParts
      <4> QED  BY <4>1, <3>4, <1>9
    <3>8. asked' # steers[1]
      BY <3>4, <1>3
    <3> QED  BY <2>1, <2>2, <3>1, <3>2, <3>3, <3>6, <3>7, <3>8
  <2> QED  BY <2>4, <2>5
<1>14. /\ ToSet(given) \cup ToSet(steers) \cup pushed = 1..asked
       /\ ToSet(given) \cap pushed = {} /\ ToSet(steers) \cap pushed = {}
  BY <1>7 DEF SteerParts
<1>15. 1..asked' = (1..asked) \cup {asked'} /\ asked' \notin 1..asked
  BY <1>1, <1>2
<1>16. pushed' = pushed \cup out
  BY <1>5
<1> HIDE DEF out
<1>17. /\ ToSet(given) \cup ToSet(steers') \cup pushed' = 1..asked'
       /\ ToSet(given) \cap pushed' = {} /\ ToSet(steers') \cap pushed' = {}
  BY <1>13, <1>14, <1>15, <1>16
<1> QED
  BY <1>2, <1>7, <1>10, <1>11, <1>12, <1>17 DEF SteerInv, SteerParts

\* The agent takes all that waits.
LEMMA DrainStep ==
  ASSUME SteerInv, NEW t \in Threads, PendingSteers(t)
  PROVE  SteerInv'
<1>1. /\ given' = given \o steers /\ steers' = <<>>
      /\ pushed' = pushed /\ asked' = asked
  BY DEF PendingSteers
<1>2. /\ given' \in Seq(Nat) /\ Ascending(given')
      /\ ToSet(given') = ToSet(given) \cup ToSet(steers)
  <2>1. /\ given \in Seq(Nat) /\ steers \in Seq(Nat)
        /\ Ascending(given) /\ Ascending(steers)
        /\ \A i \in DOMAIN given, j \in DOMAIN steers : given[i] < steers[j]
    BY DEF SteerInv, SteerTypes, SteerParts
  <2> QED  BY <1>1, <2>1, AscendingConcat
<1>3. /\ steers' \in Seq(Nat) /\ Len(steers') = 0
      /\ DOMAIN steers' = {} /\ ToSet(steers') = {} /\ Ascending(steers')
  BY <1>1 DEF ToSet, Ascending
<1>4. SteerTypes'
  BY <1>1, <1>2, <1>3, BusAssumption DEF SteerInv, SteerTypes
<1>5. SteerParts'
  BY <1>1, <1>2, <1>3 DEF SteerInv, SteerParts
<1> QED
  BY <1>4, <1>5 DEF SteerInv

\* However many agents drain the inbox of a run, an accepted instruction is
\* handed out once and in order unless a full inbox pushed it out.
THEOREM SteersAreHandedOutOnce == Spec => []SteersOnce
<1>1. Init => SteerInv
  <2> SUFFICES ASSUME Init PROVE SteerInv
    OBVIOUS
  <2>1. asked = 0 /\ pushed = {} /\ given = <<>> /\ steers = <<>>
    BY DEF Init
  <2>2. <<>> \in Seq(Nat) /\ Len(<<>>) = 0 /\ ToSet(<<>>) = {} /\ Ascending(<<>>)
    BY DEF ToSet, Ascending
  <2> QED  BY <2>1, <2>2, BusAssumption DEF SteerInv, SteerTypes, SteerParts
<1>2. SteerInv /\ [Next]_vars => SteerInv'
  <2> SUFFICES ASSUME SteerInv, [Next]_vars PROVE SteerInv'
    OBVIOUS
  <2>1. ASSUME UNCHANGED steerVars PROVE SteerInv'
    BY <2>1 DEF SteerInv, SteerTypes, SteerParts, steerVars
  <2>2. ASSUME NEW t \in Threads, ThreadStep(t) PROVE SteerInv'
    <3>1. CASE Steer(t)
      BY <3>1, SteerStep
    <3>2. CASE PendingSteers(t)
      BY <3>2, DrainStep
    <3>3. CASE ~Steer(t) /\ ~PendingSteers(t)
      BY <2>1, <2>2, <3>3
         DEF ThreadStep, Publish, Finish, Restart, Cancel, Continue, Offer
    <3> QED  BY <3>1, <3>2, <3>3
  <2>3. ASSUME NEW c \in Clients, ClientStep(c) PROVE SteerInv'
    BY <2>1, <2>3 DEF ClientStep, Subscribe, PutNowait, Receive, ReceiveClosed, Leave
  <2>4. CASE UNCHANGED vars
    BY <2>1, <2>4 DEF vars
  <2> QED  BY <2>2, <2>3, <2>4 DEF Next
<1>3. SteerInv => SteersOnce
  <2> SUFFICES ASSUME SteerInv PROVE SteersOnce
    OBVIOUS
  <2>1. /\ given \in Seq(Nat) /\ steers \in Seq(Nat)
        /\ Ascending(given) /\ Ascending(steers)
        /\ \A i \in DOMAIN given, j \in DOMAIN steers : given[i] < steers[j]
    BY DEF SteerInv, SteerTypes, SteerParts
  <2>2. Ascending(given \o steers) /\ ToSet(given \o steers) = ToSet(given) \cup ToSet(steers)
    BY <2>1, AscendingConcat
  <2> QED  BY <2>2 DEF SteerInv, SteerParts, SteersOnce, Ascending
<1> QED
  BY <1>1, <1>2, <1>3, PTL DEF Spec

-----------------------------------------------------------------------------
(* Sequences of events and end markers *)

Item == Event \cup {Closed}

\* A deque with room for n is the tail of what was put there, and what it
\* pushed out is the rest.
LEMMA SplitFacts ==
  ASSUME NEW S, NEW s \in Seq(S), NEW n \in Nat \ {0}
  PROVE  /\ Oldest(s, n) \in Seq(S) /\ Newest(s, n) \in Seq(S)
         /\ s = Oldest(s, n) \o Newest(s, n)
<1>1. Len(s) \in Nat
  OBVIOUS
<1>2. CASE Len(s) > n
  <2> DEFINE k == Len(s) - n
  <2>1. k \in 0..Len(s) /\ k + 1 \in 1..(Len(s) + 1)
    BY <1>1, <1>2
  <2>2. Oldest(s, n) = SubSeq(s, 1, k) /\ Newest(s, n) = SubSeq(s, k + 1, Len(s))
    BY <1>2 DEF Oldest, Newest
  <2> HIDE DEF k
  <2>3. \A i \in 1..Len(s) : s[i] \in S
    OBVIOUS
  <2>4. SubSeq(s, 1, k) \in Seq(S) /\ SubSeq(s, k + 1, Len(s)) \in Seq(S)
    <3>1. (\A i \in 1..k : s[i] \in S) /\ (\A i \in (k + 1)..Len(s) : s[i] \in S)
      BY <2>1, <2>3
    <3> QED  BY <3>1, <2>1, <1>1, SubSeqProperties
  <2>5. SubSeq(s, 1, k) \o SubSeq(s, k + 1, Len(s)) = SubSeq(s, 1, Len(s))
    <3>1. 1 \in 1..(Len(s) + 1) /\ k \in (1 - 1)..Len(s) /\ Len(s) \in k..Len(s)
      BY <2>1, <1>1
    <3> QED  BY <3>1, ConcatAdjacentSubSeq
  <2>6. SubSeq(s, 1, Len(s)) = s
    BY SubSeqFull
  <2> QED  BY <2>2, <2>4, <2>5, <2>6
<1>3. CASE ~(Len(s) > n)
  <2>1. Oldest(s, n) = SubSeq(s, 1, 0) /\ Newest(s, n) = SubSeq(s, 1, Len(s))
    BY <1>3 DEF Oldest, Newest
  <2>2. SubSeq(s, 1, 0) = <<>> /\ SubSeq(s, 1, Len(s)) = s
    BY SubSeqFull, SubSeqEmpty
  <2>3. <<>> \in Seq(S) /\ <<>> \o s = s
    BY ConcatEmptySeq
  <2> QED  BY <2>1, <2>2, <2>3
<1> QED
  BY <1>2, <1>3

\* The ids in a sequence, by its positions.
LEMMA IdsFacts ==
  ASSUME NEW s \in Seq(Item)
  PROVE  /\ Ids(s) \subseteq Nat \ {0}
         /\ \A n : n \in Ids(s) <=> n # 0 /\ \E i \in DOMAIN s : s[i].id = n
         /\ \A i \in DOMAIN s : s[i] \in Item /\ s[i].id \in Nat
         /\ \A i \in DOMAIN s : s[i].id = 0 <=> s[i] = Closed
<1>1. \A e \in Item : e.id \in Nat /\ (e.id = 0 <=> e = Closed)
  BY DEF Item, Event, Closed
<1>2. \A i \in DOMAIN s : s[i] \in Item
  OBVIOUS
<1>3. \A n : n \in Ids(s) <=> n # 0 /\ \E i \in DOMAIN s : s[i].id = n
  BY DEF Ids, ToSet
<1> QED
  BY <1>1, <1>2, <1>3

\* A concatenation has the ids of its parts, each once if the parts do and
\* have none in common.
LEMMA ConcatOnce ==
  ASSUME NEW s \in Seq(Item), NEW u \in Seq(Item)
  PROVE  /\ s \o u \in Seq(Item)
         /\ Ids(s \o u) = Ids(s) \cup Ids(u)
         /\ Once(s \o u) <=> Once(s) /\ Once(u) /\ Ids(s) \cap Ids(u) = {}
<1> DEFINE w == s \o u
           l == Len(s)
           m == Len(u)
<1>1. /\ w \in Seq(Item) /\ l \in Nat /\ m \in Nat
      /\ DOMAIN s = 1..l /\ DOMAIN u = 1..m /\ DOMAIN w = 1..(l + m)
      /\ \A i \in 1..(l + m) : w[i] = IF i <= l THEN s[i] ELSE u[i - l]
  <2>1. /\ w \in Seq(Item) /\ Len(w) = l + m
        /\ \A i \in 1..(l + m) : w[i] = IF i <= l THEN s[i] ELSE u[i - l]
    BY ConcatProperties
  <2> QED  BY <2>1
<1> HIDE DEF w, l, m
<1>2. /\ \A i \in 1..l : i \in 1..(l + m) /\ w[i] = s[i]
      /\ \A i \in 1..m : i + l \in 1..(l + m) /\ w[i + l] = u[i]
      /\ \A i \in 1..(l + m) : i \notin 1..l => i - l \in 1..m /\ w[i] = u[i - l]
  <2>1. \A i \in 1..l : i \in 1..(l + m) /\ w[i] = s[i]
    BY <1>1
  <2>2. \A i \in 1..m : i + l \in 1..(l + m) /\ w[i + l] = u[i]
    <3> SUFFICES ASSUME NEW i \in 1..m
                 PROVE  i + l \in 1..(l + m) /\ w[i + l] = u[i]
      OBVIOUS
    <3>1. i + l \in 1..(l + m) /\ ~(i + l <= l) /\ (i + l) - l = i
      BY <1>1
    <3> QED  BY <3>1, <1>1
  <2>3. \A i \in 1..(l + m) : i \notin 1..l => i - l \in 1..m /\ w[i] = u[i - l]
    BY <1>1
  <2> QED  BY <2>1, <2>2, <2>3
<1>3. /\ \A n : n \in Ids(w) <=> n # 0 /\ \E i \in 1..(l + m) : w[i].id = n
      /\ \A n : n \in Ids(s) <=> n # 0 /\ \E i \in 1..l : s[i].id = n
      /\ \A n : n \in Ids(u) <=> n # 0 /\ \E i \in 1..m : u[i].id = n
  <2>1. \A n : n \in Ids(w) <=> n # 0 /\ \E i \in DOMAIN w : w[i].id = n
    BY <1>1, IdsFacts
  <2>2. \A n : n \in Ids(s) <=> n # 0 /\ \E i \in DOMAIN s : s[i].id = n
    BY IdsFacts
  <2>3. \A n : n \in Ids(u) <=> n # 0 /\ \E i \in DOMAIN u : u[i].id = n
    BY IdsFacts
  <2> QED  BY <2>1, <2>2, <2>3, <1>1
<1>4. Ids(w) = Ids(s) \cup Ids(u)
  <2>1. ASSUME NEW n \in Ids(w) PROVE n \in Ids(s) \cup Ids(u)
    <3>1. n # 0 /\ \E i \in 1..(l + m) : w[i].id = n
      BY <2>1, <1>3
    <3>2. PICK i \in 1..(l + m) : w[i].id = n
      BY <3>1
    <3> QED  BY <3>1, <3>2, <1>3, <1>2
  <2>2. ASSUME NEW n \in Ids(s) PROVE n \in Ids(w)
    BY <2>2, <1>3, <1>2
  <2>3. ASSUME NEW n \in Ids(u) PROVE n \in Ids(w)
    BY <2>3, <1>3, <1>2
  <2> QED  BY <2>1, <2>2, <2>3
<1>5. ASSUME Once(w) PROVE Once(s) /\ Once(u) /\ Ids(s) \cap Ids(u) = {}
  <2>0. \A i, j \in 1..(l + m) : i # j /\ w[i].id = w[j].id => w[i] = Closed
    BY <1>1, <1>5 DEF Once
  <2>1. Once(s)
    BY <2>0, <1>1, <1>2 DEF Once
  <2>2. Once(u)
    <3> SUFFICES ASSUME NEW i \in 1..m, NEW j \in 1..m, i # j, u[i].id = u[j].id
                 PROVE  u[i] = Closed
      BY <1>1 DEF Once
    <3>1. i + l # j + l
      BY <1>1
    <3> QED  BY <3>1, <2>0, <1>2
  <2>3. ASSUME NEW n \in Ids(s) \cap Ids(u) PROVE FALSE
    <3>1. n # 0 /\ \E i \in 1..l : s[i].id = n
      BY <2>3, <1>3
    <3>2. \E j \in 1..m : u[j].id = n
      BY <2>3, <1>3
    <3>3. PICK i \in 1..l : s[i].id = n
      BY <3>1
    <3>4. PICK j \in 1..m : u[j].id = n
      BY <3>2
    <3>5. i # j + l
      BY <1>1
    <3>6. w[i] = Closed
      BY <3>3, <3>4, <3>5, <2>0, <1>2
    <3> QED  BY <3>1, <3>3, <3>6, <1>2 DEF Closed
  <2> QED  BY <2>1, <2>2, <2>3
<1>6. ASSUME Once(s), Once(u), Ids(s) \cap Ids(u) = {} PROVE Once(w)
  <2> SUFFICES ASSUME NEW i \in 1..(l + m), NEW j \in 1..(l + m), i # j, w[i].id = w[j].id
               PROVE  w[i] = Closed
    BY <1>1 DEF Once
  <2>1. ASSUME NEW a \in 1..l, NEW b \in 1..m, s[a].id = u[b].id
        PROVE  s[a] = Closed /\ u[b] = Closed
    <3>1. s[a].id = 0
      <4>1. s[a].id # 0 => s[a].id \in Ids(s)
        BY <1>3
      <4>2. s[a].id # 0 => s[a].id \in Ids(u)
        BY <2>1, <1>3
      <4> QED  BY <4>1, <4>2, <1>6
    <3> QED  BY <3>1, <2>1, <1>1, IdsFacts
  <2>2. CASE i \in 1..l /\ j \in 1..l
    BY <2>2, <1>1, <1>2, <1>6 DEF Once
  <2>3. CASE i \in 1..l /\ j \notin 1..l
    BY <2>1, <2>3, <1>2
  <2>4. CASE i \notin 1..l /\ j \in 1..l
    <3>1. s[j].id = u[i - l].id /\ i - l \in 1..m /\ w[i] = u[i - l]
      BY <2>4, <1>2
    <3> QED  BY <3>1, <2>1, <2>4
  <2>5. CASE i \notin 1..l /\ j \notin 1..l
    <3>1. /\ i - l \in 1..m /\ j - l \in 1..m /\ i - l # j - l
          /\ w[i] = u[i - l] /\ w[j] = u[j - l]
      BY <2>5, <1>1, <1>2
    <3> QED  BY <3>1, <1>1, <1>6 DEF Once
  <2> QED  BY <2>2, <2>3, <2>4, <2>5
<1> QED
  BY <1>1, <1>4, <1>5, <1>6 DEF w
-----------------------------------------------------------------------------
(* The replay of a run that was started once *)

\* Picking a sequence from position a on.
LEMMA PickedFacts ==
  ASSUME NEW S, NEW s \in Seq(S), NEW a \in 1..(Len(s) + 1)
  PROVE  /\ Picked(s, a..Len(s)) \in Seq(S)
         /\ Len(Picked(s, a..Len(s))) = Len(s) - a + 1
         /\ \A i \in 1..(Len(s) - a + 1) : Picked(s, a..Len(s))[i] = s[a + i - 1]
<1> DEFINE P == a..Len(s)
           N == Len(s) - a + 1
<1>1. /\ Len(s) \in Nat /\ N \in Nat /\ a \in Nat \ {0}
      /\ \A i \in 1..Len(s) : s[i] \in S
  OBVIOUS
<1>2. Cardinality(P) = N
  <2>0. a \in Int /\ Len(s) \in Int
    BY <1>1
  <2>1. Cardinality(P) = IF a > Len(s) THEN 0 ELSE Len(s) - a + 1
    BY <2>0, FS_Interval
  <2> QED  BY <2>1, <1>1
<1>3. \A m \in P : Cardinality({l \in P : l <= m}) = m - a + 1
  <2> SUFFICES ASSUME NEW m \in P PROVE Cardinality({l \in P : l <= m}) = m - a + 1
    OBVIOUS
  <2>0. a \in Int /\ m \in Int /\ a <= m
    BY <1>1
  <2>1. {l \in P : l <= m} = a..m
    BY <1>1
  <2>2. Cardinality(a..m) = IF a > m THEN 0 ELSE m - a + 1
    BY <2>0, FS_Interval
  <2>3. Cardinality(a..m) = m - a + 1
    BY <2>0, <2>2
  <2> HIDE DEF P
  <2> QED  BY <2>1, <2>3
<1>4. \A i \in 1..N : Nth(P, i) = a + i - 1
  <2> SUFFICES ASSUME NEW i \in 1..N PROVE Nth(P, i) = a + i - 1
    OBVIOUS
  <2>1. a + i - 1 \in P /\ (a + i - 1) - a + 1 = i
    BY <1>1
  <2>2. \A m \in P : m - a + 1 = i => m = a + i - 1
    BY <1>1
  <2> HIDE DEF P, N
  <2>3. Nth(P, i) \in P /\ Cardinality({l \in P : l <= Nth(P, i)}) = i
    BY <2>1, <1>3 DEF Nth
  <2> QED  BY <2>2, <2>3, <1>3
<1>5. Picked(s, P) = [i \in 1..N |-> s[Nth(P, i)]]
  BY <1>2 DEF Picked
<1>6. \A i \in 1..N : a + i - 1 \in 1..Len(s)
  BY <1>1
<1> HIDE DEF P, N
<1>7. Picked(s, P) \in [1..N -> S]
  BY <1>1, <1>4, <1>5, <1>6
<1>8. Picked(s, P) \in Seq(S) /\ Len(Picked(s, P)) = N
  BY <1>1, <1>7
<1>9. \A i \in 1..N : Picked(s, P)[i] = s[a + i - 1]
  BY <1>4, <1>5
<1> QED
  BY <1>8, <1>9 DEF P, N

\* The ids of s are consecutive, the first of them is a.
Consecutive(s, a) == \A i \in DOMAIN s : s[i].id = a + i - 1

\* The newest n of consecutive events have the last n ids, each once.
LEMMA ConsecutiveFacts ==
  ASSUME NEW s \in Seq(Event), NEW a \in Nat \ {0}, NEW b \in Nat, NEW n \in Nat \ {0},
         Consecutive(s, a), b = a + Len(s) - 1
  PROVE  /\ Newest(s, n) \in Seq(Item)
         /\ Once(Newest(s, n))
         /\ \A m : m \in Ids(Newest(s, n)) <=> m \in a..b /\ m > b - n
<1> DEFINE k == IF Len(s) > n THEN Len(s) - n + 1 ELSE 1
           u == Newest(s, n)
<1>1. Len(s) \in Nat /\ k \in Nat \ {0} /\ k <= Len(s) + 1
  OBVIOUS
<1>2. u = SubSeq(s, k, Len(s))
  BY DEF Newest
<1>3. \A m \in 1..Len(s) : m >= k <=> a + m - 1 > b - n
  BY <1>1
<1> HIDE DEF k, u
<1>4. \A i \in 1..Len(s) : s[i] \in Event /\ s[i].id = a + i - 1
  BY DEF Consecutive
<1>5. /\ u \in Seq(Event)
      /\ Len(u) = IF k <= Len(s) THEN Len(s) - k + 1 ELSE 0
      /\ \A i \in 1..(Len(s) - k + 1) : u[i] = s[k + i - 1]
  <2>1. \A i \in k..Len(s) : s[i] \in Event
    BY <1>1, <1>4
  <2> QED  BY <2>1, <1>1, <1>2, SubSeqProperties
<1>6. Len(u) = Len(s) - k + 1 /\ DOMAIN u = 1..(Len(s) - k + 1)
  BY <1>1, <1>5
<1>7. \A i \in DOMAIN u : k + i - 1 \in 1..Len(s) /\ u[i].id = a + k + i - 2
  <2> SUFFICES ASSUME NEW i \in 1..(Len(s) - k + 1)
               PROVE  k + i - 1 \in 1..Len(s) /\ u[i].id = a + k + i - 2
    BY <1>6
  <2>1. k + i - 1 \in 1..Len(s)
    BY <1>1
  <2>2. s[k + i - 1].id = a + (k + i - 1) - 1
    BY <2>1, <1>4
  <2>3. a + (k + i - 1) - 1 = a + k + i - 2
    BY <1>1
  <2>4. u[i] = s[k + i - 1]
    BY <1>5
  <2> QED  BY <2>1, <2>2, <2>3, <2>4
<1>8. u \in Seq(Item)
  <2>1. Event \subseteq Item
    BY DEF Item
  <2> QED  BY <2>1, <1>5
<1>9. Once(u)
  <2> SUFFICES ASSUME NEW i \in DOMAIN u, NEW j \in DOMAIN u, i # j PROVE u[i].id # u[j].id
    BY DEF Once
  <2>1. i \in Int /\ j \in Int
    BY <1>6
  <2>2. u[i].id = a + k + i - 2 /\ u[j].id = a + k + j - 2
    BY <1>7
  <2> QED  BY <2>1, <2>2, <1>1
<1>10. \A m : m \in Ids(u) <=> m # 0 /\ \E i \in DOMAIN u : u[i].id = m
  BY <1>8, IdsFacts
<1>11. ASSUME NEW m \in Ids(u) PROVE m \in a..b /\ m > b - n
  <2>1. PICK i \in DOMAIN u : u[i].id = m
    BY <1>10, <1>11
  <2>2. k + i - 1 \in 1..Len(s) /\ m = a + (k + i - 1) - 1 /\ i \in 1..(Len(s) - k + 1)
    BY <2>1, <1>1, <1>6, <1>7
  <2>3. k + i - 1 >= k
    BY <2>2, <1>1
  <2>4. m > b - n
    BY <2>2, <2>3, <1>3
  <2>5. m \in a..b
    BY <2>2, <1>1
  <2> QED  BY <2>4, <2>5
<1>12. ASSUME NEW m \in a..b, m > b - n PROVE m \in Ids(u)
  <2> DEFINE p == m - a + 1
             i == p - k + 1
  <2>1. p \in 1..Len(s) /\ a + p - 1 = m
    BY <1>1
  <2>2. p >= k
    BY <2>1, <1>3, <1>12
  <2>3. i \in DOMAIN u /\ a + k + i - 2 = m /\ m # 0
    BY <2>1, <2>2, <1>1, <1>6
  <2> QED  BY <2>3, <1>7, <1>10
<1> QED
  BY <1>8, <1>9, <1>11, <1>12 DEF u

\* A new subscriber finds each event after its cursor in the replay, or the
\* event is out of reach.
LEMMA ReplayFacts ==
  ASSUME RingInv, gen = 0, NEW after \in 0..seq
  PROVE  /\ Replay(after) \in Seq(Item)
         /\ Once(Replay(after))
         /\ Ids(Replay(after)) \cap OutOfReach(after) = {}
         /\ Ids(Replay(after)) \cup OutOfReach(after) = (after + 1)..seq
<1> DEFINE L == Len(ring)
           f == IF after < seq - L THEN 1 ELSE after - (seq - L) + 1
           kept == {i \in DOMAIN ring : ring[i].id > after}
           s == Picked(ring, kept)
<1>1. /\ seq \in Nat /\ ring \in Seq(Event) /\ L \in Nat
      /\ RingMax \in Nat \ {0} /\ ReplayMax \in Nat \ {0}
      /\ L = IF seq < RingMax THEN seq ELSE RingMax
      /\ \A i \in 1..L : ring[i].id = seq - L + i
  BY BusAssumption DEF RingInv, RingTypes, RingIsTail
<1>2. L <= seq /\ f \in 1..(L + 1)
  BY <1>1
<1>3. kept = f..L
  <2>1. DOMAIN ring = 1..L
    BY <1>1
  <2>2. \A i \in 1..L : seq - L + i > after <=> i >= f
    BY <1>1
  <2> HIDE DEF L, f
  <2> QED  BY <1>1, <1>2, <2>1, <2>2
<1>4. /\ s \in Seq(Event) /\ Len(s) = L - f + 1
      /\ \A i \in 1..(L - f + 1) : s[i] = ring[f + i - 1]
  <2> HIDE DEF kept, f, s
  <2>1. f \in 1..(Len(ring) + 1) /\ ring \in Seq(Event)
    BY <1>1, <1>2 DEF L
  <2>2. /\ Picked(ring, f..Len(ring)) \in Seq(Event)
        /\ Len(Picked(ring, f..Len(ring))) = Len(ring) - f + 1
        /\ \A i \in 1..(Len(ring) - f + 1) : Picked(ring, f..Len(ring))[i] = ring[f + i - 1]
    BY <2>1, PickedFacts
  <2>3. s = Picked(ring, f..Len(ring))
    BY <1>3 DEF s, L
  <2> QED  BY <2>2, <2>3 DEF L
<1> HIDE DEF s, kept
<1> DEFINE a == seq - L + f
<1>5. a \in Nat \ {0} /\ seq = a + Len(s) - 1
  <2> HIDE DEF f, L
  <2>1. f \in Nat \ {0} /\ Len(s) = L - f + 1 /\ L \in Nat /\ seq \in Nat /\ L <= seq
    BY <1>1, <1>2, <1>4
  <2> QED  BY <2>1
<1>6. Consecutive(s, a)
  <2> SUFFICES ASSUME NEW i \in 1..(L - f + 1) PROVE s[i].id = a + i - 1
    <3>1. DOMAIN s = 1..(L - f + 1)
      BY <1>4
    <3> QED  BY <3>1 DEF Consecutive
  <2>1. f + i - 1 \in 1..L
    BY <1>1, <1>2
  <2>2. s[i].id = seq - L + (f + i - 1)
    BY <2>1, <1>1, <1>4
  <2> HIDE DEF L, f, s
  <2> QED  BY <2>1, <2>2, <1>1, <1>2
<1>7. \A m \in (after + 1)..seq : (m \in a..seq /\ m > seq - ReplayMax)
                                  <=> ~(m <= seq - ReplayMax \/ m <= seq - RingMax)
  BY <1>1
<1>8. \A m : m \in a..seq => m \in (after + 1)..seq
  BY <1>1
<1> HIDE DEF a, s, f, kept, L
<1>9. /\ Newest(s, ReplayMax) \in Seq(Item)
      /\ Once(Newest(s, ReplayMax))
      /\ \A m : m \in Ids(Newest(s, ReplayMax)) <=> m \in a..seq /\ m > seq - ReplayMax
  BY <1>1, <1>4, <1>5, <1>6, ConsecutiveFacts
<1>10. Replay(after) = Newest(s, ReplayMax)
  BY DEF Replay, s, kept
<1>11. \A m : m \in OutOfReach(after) <=>
              m \in (after + 1)..seq /\ (m <= seq - ReplayMax \/ m <= seq - RingMax)
  BY DEF OutOfReach
<1>12. \A m : m \in Ids(Replay(after)) <=> m \in (after + 1)..seq /\ m \notin OutOfReach(after)
  BY <1>7, <1>8, <1>9, <1>10, <1>11
<1> QED
  BY <1>9, <1>10, <1>11, <1>12
-----------------------------------------------------------------------------
(* What one subscription accounts for *)

\* The events after the cursor, up to the last: on the path to the client,
\* owed to it by a thread, or lost to a limit; each in one place and once.
Accounted(path, owed, lost, after, last) ==
  /\ Once(path)
  /\ Ids(path) \cap owed = {}
  /\ lost \cap (Ids(path) \cup owed) = {}
  /\ Ids(path) \cup owed \cup lost = (after + 1)..last

LEMMA SingleFacts ==
  ASSUME NEW e \in Item
  PROVE  <<e>> \in Seq(Item) /\ Ids(<<e>>) = {e.id} \ {0} /\ Once(<<e>>)
<1>1. <<e>> \in Seq(Item) /\ DOMAIN <<e>> = {1} /\ <<e>>[1] = e
  OBVIOUS
<1>2. ToSet(<<e>>) = {e}
  BY <1>1 DEF ToSet
<1> QED
  BY <1>1, <1>2 DEF Ids, Once

LEMMA EmptyFacts ==
  <<>> \in Seq(Item) /\ Ids(<<>>) = {} /\ Once(<<>>)
<1>1. <<>> \in Seq(Item) /\ DOMAIN <<>> = {}
  OBVIOUS
<1>2. ToSet(<<>>) = {}
  BY <1>1 DEF ToSet
<1> QED
  BY <1>1, <1>2 DEF Ids, Once

\* A new event is owed to those subscribed.
LEMMA AccountedEmit ==
  ASSUME NEW path, NEW owed, NEW lost, NEW after \in Nat, NEW last \in Nat, after <= last,
         Accounted(path, owed, lost, after, last)
  PROVE  Accounted(path, owed \cup {last + 1}, lost, after, last + 1)
<1>1. (after + 1)..(last + 1) = ((after + 1)..last) \cup {last + 1}
  OBVIOUS
<1>2. last + 1 \notin (after + 1)..last
  OBVIOUS
<1> QED
  BY <1>1, <1>2 DEF Accounted

\* A thread hands over what it owes.
LEMMA AccountedOffer ==
  ASSUME NEW path \in Seq(Item), NEW owed, NEW lost, NEW after \in Nat, NEW last \in Nat,
         NEW e \in Item, Accounted(path, owed, lost, after, last), e.id # 0 => e.id \in owed
  PROVE  Accounted(path \o <<e>>, owed \ {e.id}, lost, after, last)
<1>1. <<e>> \in Seq(Item) /\ Ids(<<e>>) = {e.id} \ {0} /\ Once(<<e>>)
  BY SingleFacts
<1>2. Ids(path \o <<e>>) = Ids(path) \cup ({e.id} \ {0})
  BY <1>1, ConcatOnce
<1>3. Ids(path) \cap ({e.id} \ {0}) = {}
  BY DEF Accounted
<1>4. Once(path \o <<e>>)
  BY <1>1, <1>3, ConcatOnce DEF Accounted
<1>5. 0 \notin (after + 1)..last
  OBVIOUS
<1>6. 0 \notin owed
  BY <1>5 DEF Accounted
<1>7. owed = (owed \ {e.id}) \cup ({e.id} \ {0})
  BY <1>6
<1> QED
  BY <1>2, <1>3, <1>4, <1>7 DEF Accounted

\* The three parts of a path.
LEMMA PathFacts ==
  ASSUME NEW g \in Seq(Item), NEW i \in Seq(Item), NEW r \in Seq(Item)
  PROVE  /\ g \o i \o r \in Seq(Item)
         /\ Ids(g \o i \o r) = Ids(g) \cup Ids(i) \cup Ids(r)
         /\ Once(g \o i \o r) <=>
              /\ Once(g) /\ Once(i) /\ Once(r)
              /\ Ids(g) \cap Ids(i) = {} /\ (Ids(g) \cup Ids(i)) \cap Ids(r) = {}
<1> DEFINE w == g \o i
<1>1. /\ w \in Seq(Item) /\ Ids(w) = Ids(g) \cup Ids(i)
      /\ Once(w) <=> Once(g) /\ Once(i) /\ Ids(g) \cap Ids(i) = {}
  BY ConcatOnce
<1> HIDE DEF w
<1>2. /\ w \o r \in Seq(Item) /\ Ids(w \o r) = Ids(w) \cup Ids(r)
      /\ Once(w \o r) <=> Once(w) /\ Once(r) /\ Ids(w) \cap Ids(r) = {}
  BY <1>1, ConcatOnce
<1> QED
  BY <1>1, <1>2 DEF w

\* What a full queue pushes out is lost, and nothing else is.
LEMMA AccountedPut ==
  ASSUME NEW g \in Seq(Item), NEW i \in Seq(Item), NEW r \in Seq(Item), r # <<>>,
         NEW owed, NEW lost, NEW after, NEW last, NEW n \in Nat \ {0},
         Accounted(g \o i \o r, owed, lost, after, last)
  PROVE  LET full == Append(i, Head(r)) IN
         /\ Newest(full, n) \in Seq(Item) /\ Tail(r) \in Seq(Item)
         /\ Ids(Oldest(full, n)) \subseteq Nat
         /\ Accounted(g \o Newest(full, n) \o Tail(r), owed,
                      lost \cup Ids(Oldest(full, n)), after, last)
<1> DEFINE full == Append(i, Head(r))
           old == Oldest(full, n)
           new == Newest(full, n)
           tail == Tail(r)
           h == Head(r)
<1>1. h \in Item /\ tail \in Seq(Item) /\ full \in Seq(Item)
  OBVIOUS
<1>2. r = <<h>> \o tail
  <2>1. <<h>> \in Seq(Item) /\ Len(<<h>>) = 1
    OBVIOUS
  <2>2. <<h>> \o tail \in Seq(Item) /\ Len(<<h>> \o tail) = Len(r)
    BY <1>1, <2>1, ConcatProperties
  <2>3. ASSUME NEW m \in 1..Len(r) PROVE r[m] = (<<h>> \o tail)[m]
    BY <1>1, <2>1, <2>3, ConcatProperties
  <2> QED  BY <2>2, <2>3, SeqEqual
<1>3. full = i \o <<h>>
  BY <1>1, AppendIsConcat
<1>4. old \in Seq(Item) /\ new \in Seq(Item) /\ full = old \o new
  BY <1>1, SplitFacts
<1> HIDE DEF full, old, new, tail, h
<1>5. <<h>> \in Seq(Item)
  BY <1>1
<1>6. Ids(g \o i \o r) = Ids(g) \cup Ids(old) \cup Ids(new) \cup Ids(tail)
  <2>1. Ids(g \o i \o r) = Ids(g) \cup Ids(i) \cup Ids(r)
    BY PathFacts
  <2>2. Ids(r) = Ids(<<h>>) \cup Ids(tail)
    BY <1>1, <1>2, <1>5, ConcatOnce
  <2>3. Ids(full) = Ids(i) \cup Ids(<<h>>)
    BY <1>3, <1>5, ConcatOnce
  <2>4. Ids(full) = Ids(old) \cup Ids(new)
    BY <1>4, ConcatOnce
  <2> QED  BY <2>1, <2>2, <2>3, <2>4
<1>7. Ids(g \o new \o tail) = Ids(g) \cup Ids(new) \cup Ids(tail)
  BY <1>1, <1>4, PathFacts
<1>8. /\ Once(g \o new \o tail)
      /\ Ids(old) \cap (Ids(g) \cup Ids(new) \cup Ids(tail)) = {}
  <2>1. /\ Once(g) /\ Once(i) /\ Once(r)
        /\ Ids(g) \cap Ids(i) = {} /\ (Ids(g) \cup Ids(i)) \cap Ids(r) = {}
    BY PathFacts DEF Accounted
  <2>2. /\ Once(<<h>>) /\ Once(tail) /\ Ids(<<h>>) \cap Ids(tail) = {}
        /\ Ids(r) = Ids(<<h>>) \cup Ids(tail)
    BY <1>1, <1>2, <1>5, <2>1, ConcatOnce
  <2>3. /\ Once(full) /\ Ids(full) = Ids(i) \cup Ids(<<h>>)
    <3>1. Ids(i) \cap Ids(<<h>>) = {}
      BY <2>1, <2>2
    <3> QED  BY <1>3, <1>5, <2>1, <2>2, <3>1, ConcatOnce
  <2>4. /\ Once(old) /\ Once(new) /\ Ids(old) \cap Ids(new) = {}
        /\ Ids(full) = Ids(old) \cup Ids(new)
    BY <1>4, <2>3, ConcatOnce
  <2>5. /\ Ids(g) \cap Ids(new) = {} /\ Ids(g) \cap Ids(old) = {}
        /\ (Ids(g) \cup Ids(old) \cup Ids(new)) \cap Ids(tail) = {}
    BY <2>1, <2>2, <2>3, <2>4
  <2>6. Once(g \o new \o tail)
    <3>1. (Ids(g) \cup Ids(new)) \cap Ids(tail) = {}
      BY <2>5
    <3> QED  BY <1>1, <1>4, <2>1, <2>2, <2>4, <2>5, <3>1, PathFacts
  <2> QED  BY <2>4, <2>5, <2>6
<1>9. Accounted(g \o new \o tail, owed, lost \cup Ids(old), after, last)
  BY <1>6, <1>7, <1>8 DEF Accounted
<1>10. Ids(old) \subseteq Nat
  BY <1>4, IdsFacts
<1> QED
  BY <1>1, <1>4, <1>9, <1>10 DEF full, old, new, tail, h

\* What the loop is handed comes last.
LEMMA PathExtended ==
  ASSUME NEW g \in Seq(Item), NEW i \in Seq(Item), NEW r \in Seq(Item), NEW e \in Item
  PROVE  g \o i \o Append(r, e) = (g \o i \o r) \o <<e>>
<1> DEFINE w == g \o i
           l == <<e>>
<1>1. w \in Seq(Item) /\ l \in Seq(Item)
  BY ConcatProperties, SingleFacts
<1>2. Append(r, e) = r \o l
  BY AppendIsConcat
<1> HIDE DEF w, l
<1>3. (w \o r) \o l = w \o (r \o l)
  BY <1>1, ConcatAssociative
<1> QED
  BY <1>2, <1>3 DEF w, l

\* Receiving an event leaves the path as it is.
LEMMA PathReceived ==
  ASSUME NEW g \in Seq(Item), NEW i \in Seq(Item), NEW r \in Seq(Item), i # <<>>
  PROVE  /\ Append(g, Head(i)) \in Seq(Item) /\ Tail(i) \in Seq(Item)
         /\ Append(g, Head(i)) \o Tail(i) \o r = g \o i \o r
<1> DEFINE h == Head(i)
           tail == Tail(i)
<1>1. h \in Item /\ tail \in Seq(Item) /\ <<h>> \in Seq(Item) /\ Len(<<h>>) = 1
  OBVIOUS
<1>2. i = <<h>> \o tail
  <2>1. <<h>> \o tail \in Seq(Item) /\ Len(<<h>> \o tail) = Len(i)
    BY <1>1, ConcatProperties
  <2>2. ASSUME NEW m \in 1..Len(i) PROVE i[m] = (<<h>> \o tail)[m]
    BY <1>1, <2>2, ConcatProperties
  <2> QED  BY <2>1, <2>2, SeqEqual
<1>3. Append(g, h) = g \o <<h>> /\ Append(g, h) \in Seq(Item)
  BY <1>1, AppendIsConcat
<1> HIDE DEF h, tail
<1>4. (g \o <<h>>) \o tail = g \o (<<h>> \o tail)
  BY <1>1, ConcatAssociative
<1> QED
  BY <1>1, <1>2, <1>3, <1>4 DEF h, tail
-----------------------------------------------------------------------------
(* Every subscription accounts for every event *)

StreamTypes ==
  /\ client \in [Clients -> {"away", "on", "done"}]
  /\ since \in [Clients -> Nat] /\ dropped \in [Clients -> SUBSET Nat]
  /\ got \in [Clients -> Seq(Item)] /\ inbox \in [Clients -> Seq(Item)]
  /\ ready \in [Clients -> Seq(Item)]
  /\ sending \in [Threads -> Item] /\ targets \in [Threads -> SUBSET Clients]

\* Nothing is on its way to a client that is not subscribed.
Detached ==
  /\ \A t \in Threads : targets[t] \subseteq Subscribers
  /\ \A c \in Clients : client[c] # "on" => got[c] = <<>> /\ inbox[c] = <<>> /\ ready[c] = <<>>

\* No two threads owe a client the same event.
OffersApart ==
  \A c \in Clients, t, u \in Threads :
    /\ t # u /\ c \in targets[t] /\ c \in targets[u]
    /\ sending[t].id = sending[u].id
    => sending[t].id = 0

\* No cursor is ahead of the run.
CursorsReached == \A c \in Clients : since[c] <= seq

Balanced(c) == Accounted(Path(c), OwedTo(c), dropped[c], since[c], seq)

Books ==
  /\ OffersApart
  /\ CursorsReached
  /\ \A c \in Clients : client[c] = "on" => Balanced(c)

Kept == StreamTypes /\ Detached /\ Books

\* A restart may bring the replay of a client out of order, which is why all
\* of this is about a run that was started once.
StreamInv == RingInv /\ (gen = 0 => Kept)

LEMMA OwedMembers ==
  ASSUME NEW c
  PROVE  /\ \A n : n \in OwedTo(c) <=>
                   n # 0 /\ \E t \in Threads : c \in targets[t] /\ n = sending[t].id
         /\ \A n : n \in OwedTo(c)' <=>
                   n # 0 /\ \E t \in Threads : c \in targets'[t] /\ n = sending'[t].id
BY DEF OwedTo

LEMMA SubscribersAre ==
  /\ \A c : c \in Subscribers <=> c \in Clients /\ client[c] = "on"
  /\ \A c : c \in Subscribers' <=> c \in Clients /\ client'[c] = "on"
BY DEF Subscribers

\* A step that touches neither the offers nor the clients.
LEMMA QuietStep ==
  ASSUME RingInv, Kept, gen = 0, UNCHANGED <<sending, targets, clientVars>>,
         UNCHANGED seq
  PROVE  Kept'
<1>1. StreamTypes' /\ Detached'
  BY DEF Kept, StreamTypes, Detached, Subscribers, clientVars
<1>2. Books'
  <2>1. Books
    BY DEF Kept
  <2>2. OffersApart' /\ CursorsReached'
    BY <2>1 DEF Books, OffersApart, CursorsReached, clientVars
  <2>3. \A c \in Clients : client'[c] = "on" => Balanced(c)'
    BY <2>1 DEF Books, Balanced, Path, OwedTo, clientVars
  <2> QED  BY <2>2, <2>3 DEF Books
<1> QED
  BY <1>1, <1>2 DEF Kept

\* An item for those subscribed: a new event, or the end marker.
LEMMA SendStep ==
  ASSUME RingInv, Kept, gen = 0, NEW t \in Threads, NEW item \in Item, targets[t] = {},
         SendTo(t, item), UNCHANGED clientVars,
         (item.id = 0 /\ seq' = seq) \/ (item.id = seq + 1 /\ seq' = seq + 1)
  PROVE  Kept'
<1>0. /\ StreamTypes /\ Detached /\ seq \in Nat
      /\ UNCHANGED <<client, since, ready, inbox, got, dropped>>
  BY DEF Kept, RingInv, RingTypes, clientVars
<1>1. /\ Subscribers' = Subscribers /\ Subscribers \subseteq Clients
      /\ targets' = [targets EXCEPT ![t] = Subscribers]
      /\ sending' = [sending EXCEPT ![t] = IF Subscribers = {} THEN Closed ELSE item]
      /\ Closed \in Item
  BY <1>0 DEF SendTo, Subscribers, Item
<1>2. StreamTypes'
  BY <1>0, <1>1 DEF StreamTypes
<1>3. Detached'
  BY <1>0, <1>1 DEF Detached, StreamTypes
<1>4. Books'
  <2>1. OffersApart /\ CursorsReached /\ \A c \in Clients : client[c] = "on" => Balanced(c)
    BY DEF Kept, Books
  <2>2. CursorsReached'
    BY <1>0, <2>1 DEF CursorsReached, StreamTypes
  <2>3. /\ \A c \in Clients : client[c] = "on" =>
             /\ c \in targets'[t] /\ sending'[t] = item
             /\ \A u \in Threads : u # t => targets'[u] = targets[u] /\ sending'[u] = sending[u]
      /\ \A c \in Clients, u \in Threads : c \in targets'[u] => client[c] = "on"
    BY <1>0, <1>1, <1>3 DEF StreamTypes, Detached, Subscribers
  <2>4. \A c \in Clients : client[c] = "on" => seq + 1 \notin OwedTo(c)
    <3> SUFFICES ASSUME NEW c \in Clients, client[c] = "on" PROVE seq + 1 \notin OwedTo(c)
      OBVIOUS
    <3>1. OwedTo(c) \subseteq (since[c] + 1)..seq
      BY <2>1 DEF Balanced, Accounted
    <3>2. since[c] \in Nat
      BY <1>0 DEF StreamTypes
    <3>3. seq + 1 \notin (since[c] + 1)..seq
      BY <1>0, <3>2
    <3> QED  BY <3>1, <3>3
  <2>5. OffersApart'
    <3> SUFFICES ASSUME NEW c \in Clients, NEW u \in Threads, NEW v \in Threads,
                        u # v, c \in targets'[u], c \in targets'[v],
                        sending'[u].id = sending'[v].id, sending'[u].id # 0
                 PROVE  FALSE
      BY DEF OffersApart
    <3>1. client[c] = "on"
      BY <2>3
    <3>2. CASE u # t /\ v # t
      BY <2>1, <2>3, <3>1, <3>2 DEF OffersApart
    <3>3. ASSUME NEW w \in Threads, w # t, c \in targets'[w], sending'[w].id = item.id,
                 item.id # 0
          PROVE  FALSE
      <4>1. c \in targets[w] /\ sending[w].id = seq + 1
        BY <2>3, <3>1, <3>3
      <4>2. seq + 1 \in OwedTo(c)
        BY <4>1, <3>3, OwedMembers
      <4> QED  BY <4>2, <2>4, <3>1
    <3>4. CASE u = t
      BY <3>1, <3>3, <3>4, <2>3
    <3>5. CASE v = t
      BY <3>1, <3>3, <3>5, <2>3
    <3> QED  BY <3>2, <3>4, <3>5
  <2>6. ASSUME NEW c \in Clients, client'[c] = "on" PROVE Balanced(c)'
    <3>1. client[c] = "on" /\ Path(c)' = Path(c) /\ since' = since /\ dropped' = dropped
      BY <2>6, <1>0 DEF Path
    <3>2. Accounted(Path(c), OwedTo(c), dropped[c], since[c], seq)
      BY <2>1, <3>1 DEF Balanced
    <3>3. OwedTo(c)' = OwedTo(c) \cup ({item.id} \ {0})
      <4>1. \A n : (\E u \in Threads : c \in targets'[u] /\ n = sending'[u].id) <=>
                   n = item.id \/ \E u \in Threads : c \in targets[u] /\ n = sending[u].id
        BY <2>3, <3>1
      <4> QED  BY <4>1, OwedMembers
    <3>4. CASE item.id = 0 /\ seq' = seq
      <4>1. OwedTo(c)' = OwedTo(c)
        BY <3>3, <3>4
      <4> QED  BY <3>1, <3>2, <3>4, <4>1 DEF Balanced
    <3>5. CASE item.id = seq + 1 /\ seq' = seq + 1
      <4>1. since[c] \in Nat /\ since[c] <= seq
        BY <1>0, <2>1 DEF StreamTypes, CursorsReached
      <4>2. Accounted(Path(c), OwedTo(c) \cup {seq + 1}, dropped[c], since[c], seq + 1)
        BY <1>0, <3>2, <4>1, AccountedEmit
      <4>3. OwedTo(c)' = OwedTo(c) \cup {seq + 1}
        BY <1>0, <3>3, <3>5
      <4> QED  BY <3>1, <3>5, <4>2, <4>3 DEF Balanced
    <3> QED  BY <3>4, <3>5
  <2> QED  BY <2>2, <2>5, <2>6 DEF Books
<1> QED
  BY <1>2, <1>3, <1>4 DEF Kept
\* A thread hands its item to the loop of one subscriber.
LEMMA OfferStep ==
  ASSUME RingInv, Kept, gen = 0, NEW t \in Threads, NEW c \in Clients, Offer(t, c)
  PROVE  Kept'
<1> DEFINE e == sending[t]
<1>0. /\ StreamTypes /\ Detached /\ c \in targets[t] /\ client[c] = "on"
      /\ UNCHANGED <<seq, client, since, inbox, got, dropped>>
      /\ ready' = [ready EXCEPT ![c] = Append(@, e)]
      /\ targets' = [targets EXCEPT ![t] = @ \ {c}]
      /\ sending' = [sending EXCEPT ![t] = IF targets'[t] = {} THEN Closed ELSE @]
  BY DEF Kept, Offer, runVars, Detached, Subscribers
<1>1. /\ e \in Item /\ Closed \in Item /\ e.id \in Nat
      /\ Append(ready[c], e) \in Seq(Item)
  BY <1>0 DEF StreamTypes, Item, Event, Closed
<1> HIDE DEF e
<1>2. StreamTypes'
  BY <1>0, <1>1 DEF StreamTypes
<1>3. \A u \in Threads : targets'[u] = IF u = t THEN targets[t] \ {c} ELSE targets[u]
  BY <1>0 DEF StreamTypes
<1>4. Detached'
  BY <1>0, <1>3 DEF Detached, Subscribers, StreamTypes
<1>5. \A b \in Clients, u \in Threads : b \in targets'[u] =>
        b \in targets[u] /\ sending'[u] = sending[u] /\ ~(b = c /\ u = t)
  BY <1>0, <1>3 DEF StreamTypes
<1>6. \A b \in Clients, u \in Threads : b \in targets[u] /\ ~(b = c /\ u = t) => b \in targets'[u]
  BY <1>3
<1>7. Books'
  <2>1. OffersApart /\ CursorsReached /\ \A b \in Clients : client[b] = "on" => Balanced(b)
    BY DEF Kept, Books
  <2>2. CursorsReached'
    BY <1>0, <2>1 DEF CursorsReached
  <2>3. OffersApart'
    <3> SUFFICES ASSUME NEW b \in Clients, NEW u \in Threads, NEW v \in Threads,
                        u # v, b \in targets'[u], b \in targets'[v],
                        sending'[u].id = sending'[v].id
                 PROVE  sending'[u].id = 0
      BY DEF OffersApart
    <3> QED  BY <2>1, <1>5 DEF OffersApart
  <2>4. ASSUME NEW b \in Clients, b # c, client'[b] = "on" PROVE Balanced(b)'
    <3>1. Balanced(b)
      BY <2>1, <2>4, <1>0
    <3>2. \A n : (\E u \in Threads : b \in targets'[u] /\ n = sending'[u].id) <=>
                 (\E u \in Threads : b \in targets[u] /\ n = sending[u].id)
      BY <2>4, <1>5, <1>6
    <3>3. OwedTo(b)' = OwedTo(b)
      <4>1. \A n : n \in OwedTo(b)' <=> n \in OwedTo(b)
        BY <3>2, OwedMembers
      <4> QED  BY <4>1
    <3>4. Path(b)' = Path(b)
      BY <1>0, <2>4 DEF Path, StreamTypes
    <3> QED  BY <1>0, <3>1, <3>3, <3>4 DEF Balanced
  <2>5. Balanced(c)'
    <3>1. Accounted(Path(c), OwedTo(c), dropped[c], since[c], seq)
      BY <2>1, <1>0 DEF Balanced
    <3>2. \A n : n # 0 =>
            ((\E u \in Threads : c \in targets'[u] /\ n = sending'[u].id) <=>
             n # e.id /\ \E u \in Threads : c \in targets[u] /\ n = sending[u].id)
      <4>1. ASSUME NEW n, n # 0, NEW u \in Threads, c \in targets'[u], n = sending'[u].id
            PROVE  n # e.id /\ \E v \in Threads : c \in targets[v] /\ n = sending[v].id
        <5>1. u # t /\ c \in targets[u] /\ n = sending[u].id
          BY <4>1, <1>5
        <5>2. n # e.id
          BY <4>1, <5>1, <1>0, <2>1 DEF OffersApart, e
        <5> QED  BY <5>1, <5>2
      <4>2. ASSUME NEW n, n # e.id, NEW u \in Threads, c \in targets[u], n = sending[u].id
            PROVE  \E v \in Threads : c \in targets'[v] /\ n = sending'[v].id
        <5>1. u # t
          BY <4>2 DEF e
        <5>2. c \in targets'[u] /\ sending'[u] = sending[u]
          BY <4>2, <5>1, <1>5, <1>6
        <5> QED  BY <4>2, <5>2
      <4> QED  BY <4>1, <4>2
    <3>3. OwedTo(c)' = OwedTo(c) \ {e.id}
      BY <3>2, OwedMembers
    <3>4. e.id # 0 => e.id \in OwedTo(c)
      BY <1>0, OwedMembers DEF e
    <3>5. Path(c) \in Seq(Item) /\ Path(c)' = Path(c) \o <<e>>
      <4>1. got[c] \in Seq(Item) /\ inbox[c] \in Seq(Item) /\ ready[c] \in Seq(Item)
        BY <1>0 DEF StreamTypes
      <4>2. Path(c)' = got[c] \o inbox[c] \o Append(ready[c], e)
        BY <1>0 DEF Path, StreamTypes
      <4>3. /\ got[c] \o inbox[c] \o ready[c] \in Seq(Item)
            /\ got[c] \o inbox[c] \o Append(ready[c], e) = (got[c] \o inbox[c] \o ready[c]) \o <<e>>
        <5> DEFINE g == got[c]
                   i == inbox[c]
                   r == ready[c]
        <5>1. g \in Seq(Item) /\ i \in Seq(Item) /\ r \in Seq(Item)
          BY <4>1
        <5> HIDE DEF g, i, r
        <5>2. g \o i \o r \in Seq(Item)
          BY <5>1, PathFacts
        <5>3. g \o i \o Append(r, e) = (g \o i \o r) \o <<e>>
          BY <5>1, <1>1, PathExtended
        <5> QED  BY <5>2, <5>3 DEF g, i, r
      <4> QED  BY <4>2, <4>3 DEF Path
    <3>6. since[c] \in Nat /\ seq \in Nat
      BY <1>0 DEF StreamTypes, Kept, RingInv, RingTypes
    <3>7. Accounted(Path(c) \o <<e>>, OwedTo(c) \ {e.id}, dropped[c], since[c], seq)
      BY <1>1, <3>1, <3>4, <3>5, <3>6, AccountedOffer
    <3> QED  BY <1>0, <3>3, <3>5, <3>7 DEF Balanced
  <2> QED  BY <2>2, <2>3, <2>4, <2>5 DEF Books
<1> QED
  BY <1>2, <1>4, <1>7 DEF Kept

\* A step that changes what one subscription holds, and no offer.
LEMMA ClientOnlyStep ==
  ASSUME RingInv, Kept, gen = 0, NEW c \in Clients, client'[c] = "on",
         UNCHANGED <<seq, sending, targets>>,
         \A b \in Clients : b # c =>
           /\ client'[b] = client[b] /\ since'[b] = since[b] /\ dropped'[b] = dropped[b]
           /\ got'[b] = got[b] /\ inbox'[b] = inbox[b] /\ ready'[b] = ready[b],
         StreamTypes',
         since'[c] <= seq /\ Balanced(c)'
  PROVE  Kept'
<1>0. StreamTypes /\ Detached
  BY DEF Kept
<1>1. Detached'
  BY <1>0 DEF Detached, Subscribers, StreamTypes
<1>2. Books'
  <2>1. Books
    BY DEF Kept
  <2>2. OffersApart' /\ CursorsReached'
    BY <2>1 DEF Books, OffersApart, CursorsReached
  <2>3. ASSUME NEW b \in Clients, b # c, client'[b] = "on" PROVE Balanced(b)'
    <3>1. Balanced(b)
      BY <2>1, <2>3 DEF Books
    <3>2. Path(b)' = Path(b) /\ OwedTo(b)' = OwedTo(b)
      BY <2>3 DEF Path, OwedTo
    <3> QED  BY <2>3, <3>1, <3>2 DEF Balanced
  <2> QED  BY <2>1, <2>2, <2>3 DEF Books
<1> QED
  BY <1>1, <1>2 DEF Kept

LEMMA SubscribeStep ==
  ASSUME RingInv, Kept, gen = 0, NEW c \in Clients, Subscribe(c)
  PROVE  Kept'
<1>0. /\ StreamTypes /\ Detached /\ RingInv /\ client[c] = "away"
      /\ UNCHANGED <<seq, sending, targets, ready, got>>
      /\ client' = [client EXCEPT ![c] = "on"]
  BY DEF Kept, Subscribe, runVars, threadVars
<1>1. PICK after \in {0, since[c]} :
        /\ since' = [since EXCEPT ![c] = after]
        /\ inbox' = [inbox EXCEPT ![c] = Replay(after)]
        /\ dropped' = [dropped EXCEPT ![c] = OutOfReach(after)]
  BY DEF Subscribe
<1>2. /\ after \in Nat /\ after \in 0..seq /\ seq \in Nat
      /\ got[c] = <<>> /\ ready[c] = <<>>
  BY <1>0, <1>1 DEF StreamTypes, Detached, RingInv, RingTypes, Kept, Books, CursorsReached
<1>3. OutOfReach(after) \in SUBSET Nat
  BY <1>2 DEF OutOfReach
<1>4. /\ Replay(after) \in Seq(Item)
      /\ Once(Replay(after))
      /\ Ids(Replay(after)) \cap OutOfReach(after) = {}
      /\ Ids(Replay(after)) \cup OutOfReach(after) = (after + 1)..seq
  BY <1>2, ReplayFacts
<1>5. StreamTypes'
  BY <1>0, <1>1, <1>2, <1>3, <1>4 DEF StreamTypes
<1>6. since'[c] <= seq /\ Balanced(c)'
  <2>3. OwedTo(c)' = {}
    <3>1. \A t \in Threads : c \notin targets'[t]
      BY <1>0 DEF Detached, Subscribers
    <3> QED  BY <3>1, OwedMembers
  <2>4. Path(c)' = Replay(after)
    <3>1. Path(c)' = <<>> \o Replay(after) \o <<>>
      BY <1>0, <1>1, <1>2 DEF Path, StreamTypes
    <3>2. <<>> \o Replay(after) = Replay(after) /\ Replay(after) \o <<>> = Replay(after)
      BY <1>4, ConcatEmptySeq
    <3> QED  BY <3>1, <3>2
  <2>5. since'[c] = after /\ dropped'[c] = OutOfReach(after)
    BY <1>0, <1>1 DEF StreamTypes
  <2>6. Accounted(Replay(after), {}, OutOfReach(after), after, seq)
    BY <1>4 DEF Accounted
  <2> QED  BY <1>0, <1>2, <2>3, <2>4, <2>5, <2>6 DEF Balanced
<1>7. /\ client'[c] = "on"
      /\ \A b \in Clients : b # c =>
           /\ client'[b] = client[b] /\ since'[b] = since[b] /\ dropped'[b] = dropped[b]
           /\ got'[b] = got[b] /\ inbox'[b] = inbox[b] /\ ready'[b] = ready[b]
  BY <1>0, <1>1 DEF StreamTypes
<1> QED
  BY <1>0, <1>5, <1>6, <1>7, ClientOnlyStep

LEMMA PutStep ==
  ASSUME RingInv, Kept, gen = 0, NEW c \in Clients, PutNowait(c)
  PROVE  Kept'
<1> DEFINE full == Append(inbox[c], Head(ready[c]))
<1>0. /\ StreamTypes /\ Detached /\ ready[c] # <<>>
      /\ UNCHANGED <<seq, sending, targets, client, since, got>>
      /\ ready' = [ready EXCEPT ![c] = Tail(@)]
      /\ inbox' = [inbox EXCEPT ![c] = Newest(full, QueueMax)]
      /\ dropped' = [dropped EXCEPT ![c] = @ \cup Ids(Oldest(full, QueueMax))]
  BY DEF Kept, PutNowait, runVars, threadVars
<1>1. /\ got[c] \in Seq(Item) /\ inbox[c] \in Seq(Item) /\ ready[c] \in Seq(Item)
      /\ dropped[c] \in SUBSET Nat /\ QueueMax \in Nat \ {0} /\ client[c] = "on"
  BY <1>0, BusAssumption DEF StreamTypes, Detached
<1>2. /\ Newest(full, QueueMax) \in Seq(Item) /\ Tail(ready[c]) \in Seq(Item)
      /\ Ids(Oldest(full, QueueMax)) \subseteq Nat
  <2>1. Head(ready[c]) \in Item /\ Tail(ready[c]) \in Seq(Item)
    BY <1>0, <1>1
  <2>2. full \in Seq(Item)
    BY <1>1, <2>1
  <2> HIDE DEF full
  <2>3. Oldest(full, QueueMax) \in Seq(Item) /\ Newest(full, QueueMax) \in Seq(Item)
    BY <1>1, <2>2, SplitFacts
  <2> QED  BY <2>1, <2>3, IdsFacts
<1>3. StreamTypes'
  <2> HIDE DEF full
  <2> QED  BY <1>0, <1>1, <1>2 DEF StreamTypes
<1>4. since'[c] <= seq /\ Balanced(c)'
  <2>1. /\ since[c] <= seq
        /\ Accounted(got[c] \o inbox[c] \o ready[c], OwedTo(c), dropped[c], since[c], seq)
    BY <1>1 DEF Kept, Books, CursorsReached, Balanced, Path
  <2>2. Accounted(got[c] \o Newest(full, QueueMax) \o Tail(ready[c]), OwedTo(c),
                  dropped[c] \cup Ids(Oldest(full, QueueMax)), since[c], seq)
    BY <1>0, <1>1, <2>1, AccountedPut
  <2> HIDE DEF full
  <2>3. /\ Path(c)' = got[c] \o Newest(full, QueueMax) \o Tail(ready[c])
        /\ OwedTo(c)' = OwedTo(c)
        /\ dropped'[c] = dropped[c] \cup Ids(Oldest(full, QueueMax))
    BY <1>0 DEF Path, OwedTo, StreamTypes
  <2> QED  BY <1>0, <2>1, <2>2, <2>3 DEF Balanced
<1>5. /\ client'[c] = "on"
      /\ \A b \in Clients : b # c =>
           /\ client'[b] = client[b] /\ since'[b] = since[b] /\ dropped'[b] = dropped[b]
           /\ got'[b] = got[b] /\ inbox'[b] = inbox[b] /\ ready'[b] = ready[b]
  BY <1>0, <1>1 DEF StreamTypes
<1> HIDE DEF full
<1> QED
  BY <1>0, <1>3, <1>4, <1>5, ClientOnlyStep

\* _stream_run takes an event that does not end the stream.
LEMMA TakeStep ==
  ASSUME RingInv, Kept, gen = 0, NEW c \in Clients, inbox[c] # <<>>,
         got' = [got EXCEPT ![c] = Append(@, Head(inbox[c]))],
         inbox' = [inbox EXCEPT ![c] = Tail(@)],
         UNCHANGED <<seq, sending, targets, client, since, ready, dropped>>
  PROVE  Kept'
<1>0. StreamTypes /\ Detached
  BY DEF Kept
<1>1. /\ got[c] \in Seq(Item) /\ inbox[c] \in Seq(Item) /\ ready[c] \in Seq(Item)
      /\ client[c] = "on"
  BY <1>0 DEF StreamTypes, Detached
<1>2. /\ Append(got[c], Head(inbox[c])) \in Seq(Item) /\ Tail(inbox[c]) \in Seq(Item)
      /\ Append(got[c], Head(inbox[c])) \o Tail(inbox[c]) \o ready[c]
           = got[c] \o inbox[c] \o ready[c]
  <2> DEFINE g == got[c]
             i == inbox[c]
             r == ready[c]
  <2>1. g \in Seq(Item) /\ i \in Seq(Item) /\ r \in Seq(Item) /\ i # <<>>
    BY <1>1
  <2> HIDE DEF g, i, r
  <2>2. /\ Append(g, Head(i)) \in Seq(Item) /\ Tail(i) \in Seq(Item)
        /\ Append(g, Head(i)) \o Tail(i) \o r = g \o i \o r
    BY <2>1, PathReceived
  <2> QED  BY <2>2 DEF g, i, r
<1>3. StreamTypes'
  BY <1>0, <1>2 DEF StreamTypes
<1>4. since'[c] <= seq /\ Balanced(c)'
  <2>1. Path(c)' = Path(c) /\ OwedTo(c)' = OwedTo(c)
    BY <1>0, <1>2 DEF Path, OwedTo, StreamTypes
  <2> QED  BY <1>1, <2>1 DEF Kept, Books, CursorsReached, Balanced
<1>5. /\ client'[c] = "on"
      /\ \A b \in Clients : b # c =>
           /\ client'[b] = client[b] /\ since'[b] = since[b] /\ dropped'[b] = dropped[b]
           /\ got'[b] = got[b] /\ inbox'[b] = inbox[b] /\ ready'[b] = ready[b]
  BY <1>0, <1>1 DEF StreamTypes
<1> QED
  BY <1>3, <1>4, <1>5, ClientOnlyStep

\* The subscription ends; what was on its way is abandoned.
LEMMA DetachStep ==
  ASSUME RingInv, Kept, gen = 0, NEW c \in Clients, NEW as \in {"away", "done"},
         Unsubscribe(c, as), got' = [got EXCEPT ![c] = <<>>],
         NEW cursor \in 0..seq, since' = [since EXCEPT ![c] = cursor],
         UNCHANGED <<seq, dropped>>
  PROVE  Kept'
<1>0. /\ StreamTypes /\ Detached
      /\ client' = [client EXCEPT ![c] = as]
      /\ ready' = [ready EXCEPT ![c] = <<>>]
      /\ inbox' = [inbox EXCEPT ![c] = <<>>]
      /\ targets' = [t \in Threads |-> targets[t] \ {c}]
      /\ sending' = [t \in Threads |-> IF targets'[t] = {} THEN Closed ELSE sending[t]]
  BY DEF Kept, Unsubscribe
<1>1. <<>> \in Seq(Item) /\ Closed \in Item
  BY DEF Item
<1>2. StreamTypes'
  <2>1. cursor \in Nat
    BY DEF RingInv, RingTypes
  <2> QED  BY <1>0, <1>1, <2>1 DEF StreamTypes
<1>3. Detached'
  BY <1>0 DEF Detached, Subscribers, StreamTypes
<1>4. \A b \in Clients, t \in Threads : b \in targets'[t] =>
        b # c /\ b \in targets[t] /\ sending'[t] = sending[t]
  BY <1>0
<1>5. Books'
  <2>1. Books
    BY DEF Kept
  <2>2. CursorsReached'
    BY <1>0, <2>1 DEF Books, CursorsReached, StreamTypes
  <2>3. OffersApart'
    <3> SUFFICES ASSUME NEW b \in Clients, NEW u \in Threads, NEW v \in Threads,
                        u # v, b \in targets'[u], b \in targets'[v],
                        sending'[u].id = sending'[v].id
                 PROVE  sending'[u].id = 0
      BY DEF OffersApart
    <3> QED  BY <2>1, <1>4 DEF Books, OffersApart
  <2>4. ASSUME NEW b \in Clients, client'[b] = "on" PROVE Balanced(b)'
    <3>1. b # c /\ Balanced(b)
      BY <2>1, <2>4, <1>0 DEF Books, StreamTypes
    <3>2. \A t \in Threads : b \in targets[t] => b \in targets'[t]
      BY <1>0, <3>1
    <3>3. \A n : (\E t \in Threads : b \in targets'[t] /\ n = sending'[t].id) <=>
                 (\E t \in Threads : b \in targets[t] /\ n = sending[t].id)
      BY <1>4, <3>2
    <3>4. OwedTo(b)' = OwedTo(b)
      <4>1. \A n : n \in OwedTo(b)' <=> n \in OwedTo(b)
        BY <3>3, OwedMembers
      <4> QED  BY <4>1
    <3>5. Path(b)' = Path(b) /\ since'[b] = since[b]
      BY <1>0, <3>1 DEF Path, StreamTypes
    <3> QED  BY <3>1, <3>4, <3>5 DEF Balanced
  <2> QED  BY <2>2, <2>3, <2>4 DEF Books
<1> QED
  BY <1>2, <1>3, <1>5 DEF Kept

\* publish: the event is numbered and owed to those subscribed.
LEMMA EmitKeeps ==
  ASSUME RingInv, Kept, gen = 0, NEW t \in Threads, NEW kind \in Kinds,
         targets[t] = {}, Emit(t, kind), UNCHANGED clientVars
  PROVE  Kept'
<1> DEFINE e == [id |-> seq + 1, gen |-> gen, kind |-> kind]
<1>1. seq \in Nat /\ gen \in Nat
  BY DEF RingInv, RingTypes
<1>2. e \in Item /\ e.id = seq + 1
  BY <1>1 DEF Item, Event
<1>3. SendTo(t, e) /\ seq' = seq + 1
  BY DEF Emit
<1> HIDE DEF e
<1> QED
  BY <1>2, <1>3, SendStep

\* The stream has ended: the cursor stays.
LEMMA EndKeeps ==
  ASSUME RingInv, Kept, gen = 0, NEW c \in Clients, Unsubscribe(c, "done"),
         got' = [got EXCEPT ![c] = <<>>], UNCHANGED <<seq, since, dropped>>
  PROVE  Kept'
<1>1. since[c] \in 0..seq /\ since' = [since EXCEPT ![c] = since[c]]
  BY DEF RingInv, RingTypes, Kept, Books, CursorsReached, StreamTypes
<1> QED
  BY <1>1, DetachStep

LEMMA StreamStep ==
  ASSUME StreamInv, [Next]_vars
  PROVE  StreamInv'
<1>0. RingInv /\ RingInv' /\ RingTypes /\ (gen = 0 => Kept)
  BY RingStep DEF StreamInv, RingInv
<1>1. SUFFICES ASSUME gen' = 0 PROVE Kept'
  BY <1>0 DEF StreamInv
<1>2. ASSUME NEW t \in Threads, ThreadStep(t)
      PROVE  Kept'
  <2>1. CASE Publish(t)
    <3>1. /\ targets[t] = {} /\ gen' = gen /\ UNCHANGED clientVars
          /\ Emit(t, "progress")
      BY <2>1 DEF Publish, Call, Idle
    <3> QED  BY <1>0, <1>1, <3>1, EmitKeeps DEF Kinds
  <2>2. CASE Finish(t) \/ Cancel(t) \/ Steer(t) \/ PendingSteers(t)
    <3>1. UNCHANGED <<sending, targets, clientVars, seq, gen>>
      BY <2>2 DEF Finish, Cancel, Steer, PendingSteers, runVars
    <3> QED  BY <1>0, <1>1, <3>1, QuietStep
  <2>3. CASE Restart(t)
    <3>1. gen \in Nat /\ gen' = gen + 1
      BY <1>0, <2>3 DEF Restart, RingTypes
    <3> QED  BY <1>1, <3>1
  <2>4. CASE Continue(t)
    <3>1. targets[t] = {} /\ gen' = gen /\ UNCHANGED clientVars
      BY <2>4 DEF Continue
    <3>2. CASE Head(plan[t]) = "__closed__"
      <4>1. SendTo(t, Closed) /\ UNCHANGED seq
        BY <2>4, <3>2 DEF Continue
      <4>2. Closed \in Item /\ Closed.id = 0
        BY DEF Item, Closed
      <4> QED  BY <1>0, <1>1, <3>1, <4>1, <4>2, SendStep
    <3>3. CASE Head(plan[t]) # "__closed__"
      <4>1. Emit(t, Head(plan[t])) /\ plan[t] # <<>> /\ plan[t] \in Seq(Stages)
        BY <1>0, <2>4, <3>3 DEF Continue, RingTypes
      <4>2. Head(plan[t]) \in Kinds
        <5>1. Head(plan[t]) \in Stages
          BY <4>1
        <5> QED  BY <3>3, <5>1 DEF Stages
      <4> QED  BY <1>0, <1>1, <3>1, <4>1, <4>2, EmitKeeps
    <3> QED  BY <3>2, <3>3
  <2>5. ASSUME NEW c \in Clients, Offer(t, c)
        PROVE  Kept'
    <3>1. gen = 0
      BY <1>1, <2>5 DEF Offer, runVars
    <3> QED  BY <1>0, <2>5, <3>1, OfferStep
  <2> QED  BY <1>2, <2>1, <2>2, <2>3, <2>4, <2>5 DEF ThreadStep
<1>3. ASSUME NEW c \in Clients, ClientStep(c)
      PROVE  Kept'
  <2>1. gen = 0 /\ UNCHANGED <<seq, gen>>
    BY <1>1, <1>3 DEF ClientStep, Subscribe, PutNowait, Receive, ReceiveClosed, Leave, runVars
  <2>2. Kept /\ seq \in Nat /\ StreamTypes /\ CursorsReached
    BY <1>0, <2>1 DEF Kept, RingTypes, Books
  <2>4. CASE Subscribe(c)
    BY <1>0, <2>1, <2>2, <2>4, SubscribeStep
  <2>5. CASE PutNowait(c)
    BY <1>0, <2>1, <2>2, <2>5, PutStep
  <2>6. CASE Receive(c)
    <3>1. CASE Head(inbox[c]).kind = "run_finished"
      <4>1. /\ Unsubscribe(c, "done") /\ got' = [got EXCEPT ![c] = <<>>]
            /\ UNCHANGED <<since, dropped>>
        BY <2>6, <3>1 DEF Receive
      <4> QED  BY <1>0, <2>1, <2>2, <4>1, EndKeeps
    <3>2. CASE Head(inbox[c]).kind # "run_finished"
      <4>1. /\ inbox[c] # <<>>
            /\ got' = [got EXCEPT ![c] = Append(@, Head(inbox[c]))]
            /\ inbox' = [inbox EXCEPT ![c] = Tail(@)]
            /\ UNCHANGED <<sending, targets, client, since, ready, dropped>>
        BY <2>6, <3>2 DEF Receive
      <4> QED  BY <1>0, <2>1, <2>2, <4>1, TakeStep
    <3> QED  BY <3>1, <3>2
  <2>7. CASE ReceiveClosed(c)
    <3>1. /\ Unsubscribe(c, "done") /\ got' = [got EXCEPT ![c] = <<>>]
          /\ UNCHANGED <<since, dropped>>
      BY <2>7 DEF ReceiveClosed
    <3> QED  BY <1>0, <2>1, <2>2, <3>1, EndKeeps
  <2>8. CASE Leave(c)
    <3> DEFINE cursor == IF got[c] = <<>> THEN since[c] ELSE Last(got[c]).id
    <3>1. /\ Unsubscribe(c, "away") /\ got' = [got EXCEPT ![c] = <<>>]
          /\ since' = [since EXCEPT ![c] = cursor] /\ UNCHANGED dropped
          /\ client[c] = "on"
      BY <2>8 DEF Leave
    <3>2. cursor \in 0..seq
      <4>1. CASE got[c] = <<>>
        BY <2>2, <4>1 DEF StreamTypes, CursorsReached
      <4>2. CASE got[c] # <<>>
        <5>1. /\ got[c] \in Seq(Item) /\ inbox[c] \in Seq(Item) /\ ready[c] \in Seq(Item)
              /\ since[c] \in Nat
          BY <2>2 DEF StreamTypes
        <5>2. Len(got[c]) \in DOMAIN got[c] /\ Last(got[c]) = got[c][Len(got[c])]
          BY <4>2, <5>1 DEF Last
        <5>3. Last(got[c]).id \in Nat /\ (Last(got[c]).id # 0 => Last(got[c]).id \in Ids(got[c]))
          BY <5>1, <5>2, IdsFacts
        <5>4. Ids(got[c]) \subseteq (since[c] + 1)..seq
          <6>1. Accounted(Path(c), OwedTo(c), dropped[c], since[c], seq)
            BY <2>2, <3>1 DEF Kept, Books, Balanced
          <6>2. Ids(got[c]) \subseteq Ids(Path(c))
            BY <5>1, PathFacts DEF Path
          <6> QED  BY <6>1, <6>2 DEF Accounted
        <5>5. Last(got[c]).id \in 0..seq
          <6>1. \A n \in (since[c] + 1)..seq : n \in 0..seq
            BY <2>2, <5>1
          <6> QED  BY <2>2, <5>3, <5>4, <6>1
        <5> QED  BY <4>2, <5>5
      <4> QED  BY <4>1, <4>2
    <3> HIDE DEF cursor
    <3> QED  BY <1>0, <2>1, <2>2, <3>1, <3>2, DetachStep
  <2> QED  BY <1>3, <2>4, <2>5, <2>6, <2>7, <2>8 DEF ClientStep
<1>4. CASE UNCHANGED vars
  <2>1. UNCHANGED <<sending, targets, clientVars, seq, gen>>
    BY <1>4 DEF vars, runVars, threadVars
  <2> QED  BY <1>0, <1>1, <2>1, QuietStep
<1> QED
  BY <1>2, <1>3, <1>4 DEF Next

\* subscribe(): "Holding the run lock across both makes every event land in
\* exactly one of the two paths".  For any number of threads that publish and
\* clients that join, leave and resume, and for any length of the ring, the
\* replay and the queues: of a run that was started once, a subscriber gets
\* every event after its cursor once, unless a named limit took it.
THEOREM EventsAreDeliveredOnce == Spec => []EveryEventOnce
<1>1. Init => StreamInv
  <2> SUFFICES ASSUME Init PROVE StreamInv
    OBVIOUS
  <2>1. RingInv
    BY InitRing
  <2>2. <<>> \in Seq(Item) /\ Closed \in Item
    BY DEF Item
  <2>3. StreamTypes
    BY <2>2 DEF Init, StreamTypes
  <2>4. Detached /\ Books
    BY DEF Init, Detached, Books, OffersApart, CursorsReached
  <2> QED  BY <2>1, <2>3, <2>4 DEF StreamInv, Kept
<1>2. StreamInv /\ [Next]_vars => StreamInv'
  BY StreamStep
<1>3. StreamInv => EveryEventOnce
  <2> SUFFICES ASSUME StreamInv, gen = 0, NEW c \in Subscribers
               PROVE  Balanced(c)
    BY DEF EveryEventOnce, Balanced, Accounted
  <2> QED  BY SubscribersAre DEF StreamInv, Kept, Books
<1> QED
  BY <1>1, <1>2, <1>3, PTL DEF Spec
=============================================================================
