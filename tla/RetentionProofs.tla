--------------------------- MODULE RetentionProofs ---------------------------
(***************************************************************************)
(* Theorems about Retention, for any number of jobs, keys and late         *)
(* threads, and tables of any size: what an eviction from the table of     *)
(* jobs or from the table of runs never takes away.                        *)
(***************************************************************************)
EXTENDS Retention, FunctionTheorems, FiniteSetTheorems, TLAPS

-----------------------------------------------------------------------------
(* Positions *)

Rank(P, m) == Cardinality({l \in P : l <= m})

\* Counting the positions up to m numbers them from the front, without a gap.
LEMMA Ranks ==
  ASSUME NEW n \in Nat, NEW P \in SUBSET (1..n)
  PROVE  /\ IsFiniteSet(P) /\ Cardinality(P) \in Nat
         /\ \A m \in P : Rank(P, m) \in 1..Cardinality(P)
         /\ \A l, m \in P : l < m => Rank(P, l) < Rank(P, m)
         /\ \A i \in 1..Cardinality(P) : \E m \in P : Rank(P, m) = i
<1> DEFINE N == Cardinality(P)
           Up(m) == {l \in P : l <= m}
<1>1. IsFiniteSet(P) /\ N \in Nat
  <2>1. IsFiniteSet(1..n)
    BY FS_Interval
  <2> QED  BY <2>1, FS_Subset, FS_CardinalityType
<1>2. \A m \in P : IsFiniteSet(Up(m)) /\ Cardinality(Up(m)) \in 0..N
  <2> SUFFICES ASSUME NEW m \in P PROVE IsFiniteSet(Up(m)) /\ Cardinality(Up(m)) \in 0..N
    OBVIOUS
  <2>1. Up(m) \in SUBSET P
    OBVIOUS
  <2> HIDE DEF Up
  <2>2. IsFiniteSet(Up(m)) /\ Cardinality(Up(m)) <= N
    BY <1>1, <2>1, FS_Subset
  <2> QED  BY <1>1, <2>2, FS_CardinalityType
<1>3. \A m \in P : Cardinality(Up(m)) # 0
  <2> SUFFICES ASSUME NEW m \in P PROVE Cardinality(Up(m)) # 0
    OBVIOUS
  <2>1. m \in Up(m)
    OBVIOUS
  <2> HIDE DEF Up
  <2> QED  BY <1>2, <2>1, FS_EmptySet
<1>4. \A l, m \in P : l < m => Cardinality(Up(l)) < Cardinality(Up(m))
  <2> SUFFICES ASSUME NEW l \in P, NEW m \in P, l < m
               PROVE  Cardinality(Up(l)) < Cardinality(Up(m))
    OBVIOUS
  <2>0. l \in Int /\ m \in Int /\ \A k \in P : k \in Int
    OBVIOUS
  <2>1. Up(l) \in SUBSET Up(m) /\ m \in Up(m) /\ m \notin Up(l)
    <3>1. (\A k \in P : k <= l => k <= m) /\ m <= m /\ ~(m <= l)
      BY <2>0
    <3> QED  BY <3>1
  <2> HIDE DEF Up
  <2>2. /\ IsFiniteSet(Up(m)) /\ Cardinality(Up(l)) \in Nat /\ Cardinality(Up(m)) \in Nat
    BY <1>1, <1>2
  <2>3. /\ Cardinality(Up(l)) <= Cardinality(Up(m))
        /\ Cardinality(Up(m)) = Cardinality(Up(l)) => Up(m) = Up(l)
    BY <2>1, <2>2, FS_Subset
  <2> QED  BY <2>1, <2>2, <2>3
<1>5. \A m \in P : Rank(P, m) = Cardinality(Up(m))
  BY DEF Rank
<1> HIDE DEF Up, N
<1>6. /\ \A m \in P : Rank(P, m) \in 1..N
      /\ \A l, m \in P : l < m => Rank(P, l) < Rank(P, m)
  BY <1>1, <1>2, <1>3, <1>4, <1>5
<1> DEFINE f == [m \in P |-> Rank(P, m)]
<1>7. f \in Injection(P, 1..N)
  <2>1. f \in [P -> 1..N]
    BY <1>6
  <2>2. \A l, m \in P : f[l] = f[m] => l = m
    <3> SUFFICES ASSUME NEW l \in P, NEW m \in P, l # m PROVE f[l] # f[m]
      OBVIOUS
    <3>1. l < m \/ m < l
      OBVIOUS
    <3>2. f[l] \in 1..N /\ f[m] \in 1..N /\ (f[l] < f[m] \/ f[m] < f[l])
      BY <1>6, <3>1
    <3> QED  BY <1>1, <3>2
  <2> QED  BY <2>1, <2>2 DEF Injection, IsInjective
<1>8. IsFiniteSet(1..N) /\ Cardinality(1..N) = N
  BY <1>1, FS_Interval
<1>9. f \in Surjection(P, 1..N)
  BY <1>7, <1>8, FS_Injection DEF N
<1>10. \A i \in 1..N : \E m \in P : f[m] = i
  BY <1>9 DEF Surjection
<1> QED  BY <1>1, <1>6, <1>10 DEF N

\* Nth finds the position of each rank, and the rank of each position finds it.
LEMMA NthFacts ==
  ASSUME NEW n \in Nat, NEW P \in SUBSET (1..n)
  PROVE  /\ Cardinality(P) \in Nat
         /\ \A i \in 1..Cardinality(P) : Nth(P, i) \in P
         /\ \A i, k \in 1..Cardinality(P) : i < k => Nth(P, i) < Nth(P, k)
         /\ \A m \in P : \E i \in 1..Cardinality(P) : Nth(P, i) = m
<1> DEFINE N == Cardinality(P)
<1>1. /\ N \in Nat
      /\ \A m \in P : Rank(P, m) \in 1..N
      /\ \A l, m \in P : l < m => Rank(P, l) < Rank(P, m)
      /\ \A i \in 1..N : \E m \in P : Rank(P, m) = i
  BY Ranks
<1> HIDE DEF N
<1>2. \A i \in 1..N : Nth(P, i) \in P /\ Rank(P, Nth(P, i)) = i
  <2> SUFFICES ASSUME NEW i \in 1..N PROVE Nth(P, i) \in P /\ Rank(P, Nth(P, i)) = i
    OBVIOUS
  <2>1. PICK m \in P : Rank(P, m) = i
    BY <1>1
  <2> QED  BY <2>1 DEF Nth, Rank
<1>3. \A l, m \in P : Rank(P, l) = Rank(P, m) => l = m
  <2> SUFFICES ASSUME NEW l \in P, NEW m \in P, l # m PROVE Rank(P, l) # Rank(P, m)
    OBVIOUS
  <2>1. l < m \/ m < l
    OBVIOUS
  <2> QED  BY <1>1, <2>1
<1>4. \A m \in P : Nth(P, Rank(P, m)) = m
  BY <1>1, <1>2, <1>3
<1>5. ASSUME NEW i \in 1..N, NEW k \in 1..N, i < k
      PROVE  Nth(P, i) < Nth(P, k)
  <2> DEFINE a == Nth(P, i)
             b == Nth(P, k)
  <2>1. a \in P /\ b \in P /\ Rank(P, a) = i /\ Rank(P, b) = k
    BY <1>2
  <2> HIDE DEF a, b
  <2>2. ~(b < a) /\ a # b
    BY <1>1, <1>5, <2>1
  <2>3. a < b
    BY <2>1, <2>2
  <2> QED  BY <2>3 DEF a, b
<1> QED  BY <1>1, <1>2, <1>4, <1>5 DEF N

\* FirstOf returns nothing it was not asked for.
LEMMA FirstOfFacts ==
  ASSUME NEW T, NEW ids \in Seq(T), NEW S, NEW n \in Int
  PROVE  FirstOf(ids, S, n) \subseteq S
<1> DEFINE found == {m \in DOMAIN ids : ids[m] \in S}
           N == Cardinality(found)
<1>1. Len(ids) \in Nat /\ found \in SUBSET (1..Len(ids))
  OBVIOUS
<1> HIDE DEF found
<1>2. N \in Nat /\ \A i \in 1..N : Nth(found, i) \in found
  BY <1>1, NthFacts
<1>3. \A i \in 1..(IF n < N THEN n ELSE N) : i \in 1..N
  BY <1>2
<1>4. FirstOf(ids, S, n) = {ids[Nth(found, i)] : i \in 1..(IF n < N THEN n ELSE N)}
  BY DEF FirstOf, found
<1>5. \A m \in found : ids[m] \in S
  BY DEF found
<1> QED  BY <1>2, <1>3, <1>4, <1>5

\* Dropped keeps the other ids, all of them and in their order.
LEMMA DroppedFacts ==
  ASSUME NEW T, NEW ids \in Seq(T), NEW S
  PROVE  LET new == Dropped(ids, S) IN
         /\ new \in Seq(T)
         /\ \A a, b \in DOMAIN new : a < b =>
              \E l, m \in DOMAIN ids : l < m /\ new[a] = ids[l] /\ new[b] = ids[m]
         /\ \A a \in DOMAIN new : \E m \in DOMAIN ids : new[a] = ids[m] /\ ids[m] \notin S
         /\ \A m \in DOMAIN ids : ids[m] \notin S => \E a \in DOMAIN new : new[a] = ids[m]
<1> DEFINE kept == {m \in DOMAIN ids : ids[m] \notin S}
           N == Cardinality(kept)
           new == Dropped(ids, S)
<1>1. Len(ids) \in Nat /\ kept \in SUBSET (1..Len(ids)) /\ kept \subseteq DOMAIN ids
  OBVIOUS
<1>2. new = [i \in 1..N |-> ids[Nth(kept, i)]]
  BY DEF Dropped, Picked
<1>3. \A m \in DOMAIN ids : ids[m] \in T
  OBVIOUS
<1>4. \A m \in DOMAIN ids : m \in kept <=> ids[m] \notin S
  OBVIOUS
<1> HIDE DEF kept, new
<1>5. /\ N \in Nat
      /\ \A i \in 1..N : Nth(kept, i) \in kept
      /\ \A i, k \in 1..N : i < k => Nth(kept, i) < Nth(kept, k)
      /\ \A m \in kept : \E i \in 1..N : Nth(kept, i) = m
  BY <1>1, NthFacts
<1> HIDE DEF N
<1>6. DOMAIN new = 1..N /\ \A i \in 1..N : new[i] = ids[Nth(kept, i)]
  BY <1>2
<1>7. new \in Seq(T)
  <2>1. new \in [1..N -> T]
    BY <1>1, <1>2, <1>3, <1>5
  <2> QED  BY <1>5, <2>1
<1>8. \A a, b \in DOMAIN new : a < b =>
        \E l, m \in DOMAIN ids : l < m /\ new[a] = ids[l] /\ new[b] = ids[m]
  BY <1>1, <1>5, <1>6
<1>9. \A a \in DOMAIN new : \E m \in DOMAIN ids : new[a] = ids[m] /\ ids[m] \notin S
  BY <1>1, <1>4, <1>5, <1>6
<1>10. \A m \in DOMAIN ids : ids[m] \notin S => \E a \in DOMAIN new : new[a] = ids[m]
  BY <1>4, <1>5, <1>6
<1> QED  BY <1>7, <1>8, <1>9, <1>10 DEF new

-----------------------------------------------------------------------------
(* The inductive invariant *)

JobRecord == [status : {"queued", "running", "ended"}, key : Keys \cup {NoKey}]
RunRecord == [status : {"running", "ended"}, cancel : BOOLEAN]

\* A table of runs as RunBus keeps it.
RunTable(b) ==
  /\ DOMAIN b = {"run", "order"}
  /\ b.order \in Seq(Nat)
  /\ IsFiniteSet(DOMAIN b.run)
  /\ \A r \in DOMAIN b.run : b.run[r] \in RunRecord

\* Ids are given out in order; late threads are of jobs that were accepted.
TableInv ==
  /\ count \in Nat
  /\ DOMAIN jobs \subseteq 1..count
  /\ \A j \in DOMAIN jobs : jobs[j] \in JobRecord
  /\ order \in Seq(Nat)
  /\ RunTable(bus) /\ DOMAIN bus.run \subseteq 1..count
  /\ late \subseteq 1..count

\* A job in flight is the one recorded for its key, while the key is guarded.
Owners ==
  \A i \in Flying :
    jobs[i].key \notin {NoKey} \cup opened =>
      jobs[i].key \in DOMAIN recent /\ recent[jobs[i].key] = i

\* Which known jobs an order of ids names.
Names(D, ids) ==
  /\ \A m, n \in DOMAIN ids : m < n => ids[m] < ids[n]
  /\ \A m \in DOMAIN ids : ids[m] \in D
  /\ \A j \in D \ ToSet(ids) : \A m \in DOMAIN ids : j < ids[m]

RetentionInv ==
  /\ TableInv /\ RunsTellJobs /\ Owners /\ KeysLeadToJobs /\ Names(DOMAIN jobs, order)

-----------------------------------------------------------------------------
(* The table of runs *)

LEMMA PushedFacts ==
  ASSUME NEW ids \in Seq(Nat), NEW j \in Nat, NEW max \in Nat \ {0}
  PROVE  Pushed(ids, j, max) \in Seq(Nat)
<1>1. CASE Len(ids) < max
  BY <1>1 DEF Pushed
<1>2. CASE ~(Len(ids) < max)
  <2>1. ids # <<>>
    BY <1>2
  <2>2. Tail(ids) \in Seq(Nat)
    BY <2>1
  <2>3. Append(Tail(ids), j) \in Seq(Nat)
    BY <2>2
  <2> QED  BY <1>2, <2>3 DEF Pushed
<1> QED  BY <1>1, <1>2

\* A new run comes in, and no run that says "running" goes.
LEMMA StartedFacts ==
  ASSUME NEW b, RunTable(b), NEW r \in Nat, r \notin DOMAIN b.run
  PROVE  LET c == Started(b, r) IN
         /\ RunTable(c) /\ DOMAIN c.run \subseteq DOMAIN b.run \cup {r}
         /\ r \in DOMAIN c.run /\ c.run[r] = [status |-> "running", cancel |-> FALSE]
         /\ \A x \in DOMAIN b.run : b.run[x].status = "running" => x \in DOMAIN c.run
         /\ \A x \in DOMAIN c.run : x # r => x \in DOMAIN b.run /\ c.run[x] = b.run[x]
<1> DEFINE new  == [status |-> "running", cancel |-> FALSE]
           ids  == Pushed(b.order, r, MaxRuns)
           run  == With(b.run, r, new)
           size == Cardinality(DOMAIN run) - MaxRuns
           gone == Victims(run, ids, size)
           c    == Started(b, r)
<1>1. MaxRuns \in Nat \ {0}
  BY RetentionAssumption
<1>2. ids \in Seq(Nat)
  BY <1>1, PushedFacts DEF RunTable
<1>3. /\ DOMAIN run = DOMAIN b.run \cup {r} /\ run[r] = new
      /\ \A x \in DOMAIN b.run : run[x] = b.run[x]
  BY DEF With
<1>4. IsFiniteSet(DOMAIN run) /\ size \in Int
  <2>1. IsFiniteSet(DOMAIN run)
    BY <1>3, FS_AddElement DEF RunTable
  <2> HIDE DEF run
  <2>2. Cardinality(DOMAIN run) \in Nat
    BY <2>1, FS_CardinalityType
  <2> QED  BY <1>1, <2>1, <2>2
<1>5. c = [run |-> Without(run, gone), order |-> Dropped(ids, gone)]
  BY DEF Started
<1> HIDE DEF c, ids, run, size
<1>6. gone \subseteq {x \in DOMAIN run : run[x].status = "ended"}
  BY <1>2, <1>4, FirstOfFacts DEF Victims
<1> HIDE DEF gone
<1>7. /\ DOMAIN c = {"run", "order"} /\ c.run = Without(run, gone)
      /\ c.order = Dropped(ids, gone)
  BY <1>5
<1>8. c.order \in Seq(Nat)
  BY <1>2, <1>7, DroppedFacts
<1>9. /\ DOMAIN c.run = DOMAIN run \ gone
      /\ \A x \in DOMAIN c.run : c.run[x] = run[x]
  BY <1>7 DEF Without
<1>10. IsFiniteSet(DOMAIN c.run)
  BY <1>4, <1>9, FS_Difference
<1>11. r \notin gone /\ \A x \in DOMAIN b.run : b.run[x].status = "running" => x \notin gone
  BY <1>3, <1>6
<1>12. \A x \in DOMAIN c.run : c.run[x] \in RunRecord
  <2>1. new \in RunRecord
    BY DEF RunRecord
  <2>2. \A x \in DOMAIN run : run[x] \in RunRecord
    BY <1>3, <2>1 DEF RunTable
  <2> QED  BY <1>9, <2>2
<1> QED
  BY <1>3, <1>7, <1>8, <1>9, <1>10, <1>11, <1>12 DEF RunTable, c

\* cancel and finish change one field of one run.
LEMMA CancelledFacts ==
  ASSUME NEW b, RunTable(b), NEW r \in DOMAIN b.run
  PROVE  LET c == Cancelled(b, r) IN
         /\ RunTable(c) /\ DOMAIN c.run = DOMAIN b.run
         /\ c.run[r].status = b.run[r].status /\ c.run[r].cancel = TRUE
         /\ \A x \in DOMAIN b.run : x # r => c.run[x] = b.run[x]
<1> DEFINE c == Cancelled(b, r)
<1>1. c = [b EXCEPT !.run[r].cancel = TRUE]
  BY DEF Cancelled
<1>2. b.run[r] \in RunRecord
  BY DEF RunTable
<1> HIDE DEF c
<1>3. /\ DOMAIN c = DOMAIN b /\ c.order = b.order
      /\ c.run = [b.run EXCEPT ![r].cancel = TRUE]
  BY <1>1 DEF RunTable
<1>4. /\ DOMAIN c.run = DOMAIN b.run
      /\ c.run[r] = [b.run[r] EXCEPT !.cancel = TRUE]
      /\ \A x \in DOMAIN b.run : x # r => c.run[x] = b.run[x]
  BY <1>3
<1>5. c.run[r] \in RunRecord /\ c.run[r].status = b.run[r].status /\ c.run[r].cancel = TRUE
  BY <1>2, <1>4 DEF RunRecord
<1> QED  BY <1>3, <1>4, <1>5 DEF RunTable, c

LEMMA EndedFacts ==
  ASSUME NEW b, RunTable(b), NEW r \in DOMAIN b.run
  PROVE  LET c == Ended(b, r) IN
         /\ RunTable(c) /\ DOMAIN c.run = DOMAIN b.run
         /\ c.run[r].status = "ended"
         /\ \A x \in DOMAIN b.run : x # r => c.run[x] = b.run[x]
<1> DEFINE c == Ended(b, r)
<1>1. c = [b EXCEPT !.run[r].status = "ended"]
  BY DEF Ended, Published
<1>2. b.run[r] \in RunRecord
  BY DEF RunTable
<1> HIDE DEF c
<1>3. /\ DOMAIN c = DOMAIN b /\ c.order = b.order
      /\ c.run = [b.run EXCEPT ![r].status = "ended"]
  BY <1>1 DEF RunTable
<1>4. /\ DOMAIN c.run = DOMAIN b.run
      /\ c.run[r] = [b.run[r] EXCEPT !.status = "ended"]
      /\ \A x \in DOMAIN b.run : x # r => c.run[x] = b.run[x]
  BY <1>3
<1>5. c.run[r] \in RunRecord /\ c.run[r].status = "ended"
  BY <1>2, <1>4 DEF RunRecord
<1> QED  BY <1>3, <1>4, <1>5 DEF RunTable, c

-----------------------------------------------------------------------------
(* The table of jobs *)

\* An eviction leaves the jobs in flight.
LEMMA EvictedFacts ==
  ASSUME TableInv, NEW full \in BOOLEAN
  PROVE  LET e == Evicted(full) IN
         \E gone \in SUBSET (DOMAIN jobs \ Flying) :
           /\ e.jobs = Without(jobs, gone)
           /\ e.order = Dropped(order, gone)
           /\ e.recent = Without(recent, {jobs[j].key : j \in gone})
           /\ e.opened = {k \in {jobs[j].key : j \in gone} \cap DOMAIN recent :
                            recent[k] \in Flying}
<1> DEFINE gone == IF full THEN FirstOf(order, DOMAIN jobs \ Flying, Batch) ELSE {}
<1>1. Batch \in Int
  BY RetentionAssumption
<1>2. gone \subseteq DOMAIN jobs \ Flying
  BY <1>1, FirstOfFacts DEF TableInv
<1>3. Evicted(full) =
        [jobs |-> Without(jobs, gone), order |-> Dropped(order, gone),
         recent |-> Without(recent, {jobs[j].key : j \in gone}),
         opened |-> {k \in {jobs[j].key : j \in gone} \cap DOMAIN recent :
                       recent[k] \in Flying}]
  BY DEF Evicted
<1> DEFINE e == Evicted(full)
<1> HIDE DEF gone, e
<1>4. /\ e.jobs = Without(jobs, gone)
      /\ e.order = Dropped(order, gone)
      /\ e.recent = Without(recent, {jobs[j].key : j \in gone})
      /\ e.opened = {k \in {jobs[j].key : j \in gone} \cap DOMAIN recent :
                       recent[k] \in Flying}
  BY <1>3 DEF e
<1>5. gone \in SUBSET (DOMAIN jobs \ Flying)
  BY <1>2
<1> QED  BY <1>4, <1>5 DEF e

\* Dropping known jobs from the table and from the order keeps the naming.
LEMMA NamesDropped ==
  ASSUME NEW D, NEW ids \in Seq(Nat), Names(D, ids), NEW S
  PROVE  Names(D \ S, Dropped(ids, S))
<1> DEFINE new == Dropped(ids, S)
<1>1. /\ new \in Seq(Nat)
      /\ \A a, b \in DOMAIN new : a < b =>
           \E l, m \in DOMAIN ids : l < m /\ new[a] = ids[l] /\ new[b] = ids[m]
      /\ \A a \in DOMAIN new : \E m \in DOMAIN ids : new[a] = ids[m] /\ ids[m] \notin S
      /\ \A m \in DOMAIN ids : ids[m] \notin S => \E a \in DOMAIN new : new[a] = ids[m]
  BY DroppedFacts
<1> HIDE DEF new
<1>2. \A a, b \in DOMAIN new : a < b => new[a] < new[b]
  BY <1>1 DEF Names
<1>3. \A a \in DOMAIN new : new[a] \in D \ S
  BY <1>1 DEF Names
<1>4. \A j \in (D \ S) \ ToSet(new) : j \notin ToSet(ids)
  BY <1>1 DEF ToSet
<1>5. \A j \in (D \ S) \ ToSet(new) : \A a \in DOMAIN new : j < new[a]
  BY <1>1, <1>4 DEF Names
<1> QED  BY <1>2, <1>3, <1>5 DEF Names, new

\* A new id comes last; a full order forgets its first, the oldest it names.
LEMMA NamesPushed ==
  ASSUME NEW D \in SUBSET Nat, NEW ids \in Seq(Nat), Names(D, ids),
         NEW j \in Nat, \A d \in D : d < j, NEW max \in Nat \ {0}
  PROVE  Names(D \cup {j}, Pushed(ids, j, max))
<1> DEFINE n == Len(ids)
           new == Pushed(ids, j, max)
<1>1. n \in Nat /\ DOMAIN ids = 1..n /\ \A m \in 1..n : ids[m] \in Nat
  OBVIOUS
<1>2. \A m \in 1..n : ids[m] \in D /\ ids[m] < j
  BY <1>1 DEF Names
<1>3. /\ \A l, m \in 1..n : l < m => ids[l] < ids[m]
      /\ \A d \in D : (\A m \in 1..n : ids[m] # d) => \A m \in 1..n : d < ids[m]
  BY <1>1 DEF Names, ToSet
<1>4. CASE n < max
  <2>1. new = Append(ids, j)
    BY <1>4 DEF Pushed
  <2>2. /\ DOMAIN new = 1..(n + 1) /\ new[n + 1] = j
        /\ \A m \in 1..n : new[m] = ids[m]
    BY <2>1
  <2> HIDE DEF n, new
  <2>3. 1..(n + 1) = (1..n) \cup {n + 1} /\ \A m \in 1..n : m < n + 1 /\ ~(n + 1 < m)
    BY <1>1
  <2>4. \A a, b \in DOMAIN new : a < b => new[a] < new[b]
    BY <1>1, <1>2, <1>3, <2>2, <2>3
  <2>5. \A a \in DOMAIN new : new[a] \in D \cup {j}
    BY <1>2, <2>2, <2>3
  <2>6. \A d \in (D \cup {j}) \ ToSet(new) : \A a \in DOMAIN new : d < new[a]
    <3>1. j \in ToSet(new) /\ \A m \in 1..n : ids[m] \in ToSet(new)
      BY <2>2, <2>3 DEF ToSet
    <3> QED  BY <1>3, <2>2, <2>3, <3>1
  <2> QED  BY <2>4, <2>5, <2>6 DEF Names, new
<1>5. CASE ~(n < max)
  <2>1. n > 0 /\ ids # <<>> /\ new = Append(Tail(ids), j)
    BY <1>1, <1>5 DEF Pushed
  <2>2. /\ Tail(ids) \in Seq(Nat) /\ Len(Tail(ids)) = n - 1
        /\ \A m \in 1..(n - 1) : Tail(ids)[m] = ids[m + 1]
    BY <2>1
  <2>3. /\ DOMAIN new = 1..n /\ new[n] = j
        /\ \A m \in 1..(n - 1) : new[m] = ids[m + 1]
    BY <1>1, <2>1, <2>2
  <2> HIDE DEF n, new
  <2>4. /\ 1..n = (1..(n - 1)) \cup {n}
        /\ \A m \in 1..(n - 1) : m < n /\ ~(n < m) /\ m + 1 \in 1..n /\ 1 < m + 1
    BY <1>1, <2>1
  <2>5. \A l, m \in 1..(n - 1) : l < m => l + 1 < m + 1
    BY <1>1
  <2>6. \A a, b \in DOMAIN new : a < b => new[a] < new[b]
    <3>1. \A l, m \in 1..(n - 1) : l < m => new[l] < new[m]
      BY <1>3, <2>3, <2>4, <2>5
    <3>2. \A l \in 1..(n - 1) : new[l] < new[n]
      BY <1>2, <2>3, <2>4
    <3> QED  BY <1>1, <2>3, <2>4, <3>1, <3>2
  <2>7. \A a \in DOMAIN new : new[a] \in D \cup {j}
    BY <1>2, <2>3, <2>4
  <2>8. \A d \in (D \cup {j}) \ ToSet(new) : \A a \in DOMAIN new : d < new[a]
    <3>1. j \in ToSet(new) /\ \A m \in 1..(n - 1) : ids[m + 1] \in ToSet(new)
      BY <2>3, <2>4 DEF ToSet
    <3>2. \A m \in 1..n : m = 1 \/ (m - 1 \in 1..(n - 1) /\ (m - 1) + 1 = m)
      BY <1>1
    <3>3. \A m \in 1..n : m = 1 \/ ids[m] \in ToSet(new)
      BY <3>1, <3>2
    <3>4. 1 \in 1..n
      BY <1>1, <2>1
    <3> SUFFICES ASSUME NEW d \in D, d \notin ToSet(new), NEW a \in DOMAIN new
                 PROVE  d < new[a]
      BY <3>1
    <3>5. d < j
      OBVIOUS
    <3>6. CASE a = n
      BY <2>3, <3>5, <3>6
    <3>7. CASE a \in 1..(n - 1)
      <4>1. new[a] = ids[a + 1] /\ a + 1 \in 1..n /\ 1 < a + 1
        BY <2>3, <2>4, <3>7
      <4>2. CASE d = ids[1]
        BY <1>3, <3>4, <4>1, <4>2
      <4>3. CASE d # ids[1]
        <5>1. \A m \in 1..n : ids[m] # d
          BY <3>3, <4>3
        <5> QED  BY <1>3, <4>1, <5>1
      <4> QED  BY <4>2, <4>3
    <3> QED  BY <2>3, <2>4, <3>6, <3>7
  <2> QED  BY <2>6, <2>7, <2>8 DEF Names, new
<1> QED  BY <1>4, <1>5

-----------------------------------------------------------------------------
(* The steps *)

LEMMA InitRetention == Init => RetentionInv
<1> SUFFICES ASSUME Init PROVE RetentionInv
  OBVIOUS
<1>1. /\ DOMAIN jobs = {} /\ DOMAIN recent = {} /\ DOMAIN order = {}
      /\ order \in Seq(Nat) /\ Flying = {}
  BY DEF Init, Empty, Flying
<1>2. /\ DOMAIN bus = {"run", "order"} /\ DOMAIN bus.run = {}
      /\ bus.order \in Seq(Nat)
  BY DEF Init, Empty
<1>3. IsFiniteSet({})
  BY FS_EmptySet
<1>4. TableInv
  BY <1>1, <1>2, <1>3 DEF Init, TableInv, RunTable
<1>5. RunsTellJobs /\ Owners /\ KeysLeadToJobs /\ Names(DOMAIN jobs, order)
  BY <1>1, <1>2 DEF Init, RunsTellJobs, Owners, KeysLeadToJobs, Names
<1> QED  BY <1>4, <1>5 DEF RetentionInv

\* What a job is, after a change of its status.
LEMMA StatusFacts ==
  ASSUME TableInv, NEW j \in DOMAIN jobs, NEW st \in {"queued", "running", "ended"},
         jobs' = [jobs EXCEPT ![j].status = st]
  PROVE  /\ DOMAIN jobs' = DOMAIN jobs
         /\ \A i \in DOMAIN jobs : jobs'[i] \in JobRecord /\ jobs'[i].key = jobs[i].key
         /\ Flying' = IF st \in InFlight THEN Flying \cup {j} ELSE Flying \ {j}
<1>1. \A i \in DOMAIN jobs : jobs[i] \in JobRecord
  BY DEF TableInv
<1>2. /\ DOMAIN jobs' = DOMAIN jobs
      /\ jobs'[j] = [jobs[j] EXCEPT !.status = st]
      /\ \A i \in DOMAIN jobs : i # j => jobs'[i] = jobs[i]
  OBVIOUS
<1>3. jobs'[j] \in JobRecord /\ jobs'[j].key = jobs[j].key /\ jobs'[j].status = st
  BY <1>1, <1>2 DEF JobRecord
<1> QED  BY <1>1, <1>2, <1>3 DEF Flying

\* A job in flight gets its verdict, and its run ends.
LEMMA RetentionSettles ==
  ASSUME RetentionInv, NEW j \in Flying, NEW b, Settle(j, b), RunTable(b),
         DOMAIN b.run = DOMAIN bus.run,
         \A x \in DOMAIN bus.run : x # j => b.run[x] = bus.run[x],
         late' \subseteq 1..count
  PROVE  RetentionInv'
<1>1. /\ TableInv /\ RunsTellJobs /\ Owners /\ KeysLeadToJobs /\ Names(DOMAIN jobs, order)
      /\ j \in DOMAIN jobs /\ j \in DOMAIN b.run
  BY DEF RetentionInv, Flying, RunsTellJobs
<1>2. /\ jobs' = [jobs EXCEPT ![j].status = "ended"] /\ bus' = Ended(b, j)
      /\ told' = told \ {j} /\ UNCHANGED <<order, recent, count, opened, ghosts>>
  BY DEF Settle
<1>3. /\ DOMAIN jobs' = DOMAIN jobs
      /\ \A i \in DOMAIN jobs : jobs'[i] \in JobRecord /\ jobs'[i].key = jobs[i].key
      /\ Flying' = Flying \ {j}
  BY <1>1, <1>2, StatusFacts DEF InFlight
<1>4. /\ RunTable(bus') /\ DOMAIN bus'.run = DOMAIN bus.run
      /\ bus'.run[j].status = "ended"
      /\ \A x \in DOMAIN bus.run : x # j => bus'.run[x] = bus.run[x]
  BY <1>1, <1>2, EndedFacts
<1>5. TableInv'
  BY <1>1, <1>2, <1>3, <1>4 DEF TableInv, RunTable
<1>6. RunsTellJobs'
  BY <1>1, <1>2, <1>3, <1>4 DEF RunsTellJobs
<1>7. Owners' /\ KeysLeadToJobs' /\ Names(DOMAIN jobs, order)'
  BY <1>1, <1>2, <1>3 DEF Owners, KeysLeadToJobs, Names, Flying
<1> QED  BY <1>5, <1>6, <1>7 DEF RetentionInv

LEMMA RetentionBegins ==
  ASSUME RetentionInv, NEW j \in DOMAIN jobs, Begin(j)
  PROVE  RetentionInv'
<1>1. /\ TableInv /\ RunsTellJobs /\ Owners /\ KeysLeadToJobs /\ Names(DOMAIN jobs, order)
      /\ j \in Flying
  BY DEF RetentionInv, Flying, Begin, InFlight
<1>2. bus' = bus
  BY <1>1 DEF Begin, Published, RunsTellJobs
<1>3. /\ DOMAIN jobs' = DOMAIN jobs
      /\ \A i \in DOMAIN jobs : jobs'[i] \in JobRecord /\ jobs'[i].key = jobs[i].key
      /\ Flying' = Flying
  <2>1. jobs' = [jobs EXCEPT ![j].status = "running"] /\ "running" \in InFlight
    BY DEF Begin, InFlight
  <2>2. Flying' = Flying \cup {j}
    BY <1>1, <2>1, StatusFacts DEF InFlight
  <2> QED  BY <1>1, <2>1, <2>2, StatusFacts
<1>4. UNCHANGED <<order, recent, late, count, told, opened, ghosts>>
  BY DEF Begin
<1>5. TableInv'
  BY <1>1, <1>2, <1>3, <1>4 DEF TableInv, RunTable
<1>6. RunsTellJobs'
  BY <1>1, <1>2, <1>3, <1>4 DEF RunsTellJobs
<1>7. Owners' /\ KeysLeadToJobs' /\ Names(DOMAIN jobs, order)'
  BY <1>1, <1>3, <1>4 DEF Owners, KeysLeadToJobs, Names, Flying
<1> QED  BY <1>5, <1>6, <1>7 DEF RetentionInv

\* A job that runs is told to stop.
LEMMA RetentionTells ==
  ASSUME RetentionInv, NEW j \in Flying,
         bus' = Cancelled(bus, j), told' = told \cup {j},
         UNCHANGED <<jobs, order, recent, late, count, opened, ghosts>>
  PROVE  RetentionInv'
<1>1. /\ TableInv /\ RunsTellJobs /\ Owners /\ KeysLeadToJobs /\ Names(DOMAIN jobs, order)
      /\ j \in DOMAIN bus.run
  BY DEF RetentionInv, RunsTellJobs
<1>2. /\ RunTable(bus') /\ DOMAIN bus'.run = DOMAIN bus.run
      /\ bus'.run[j].status = bus.run[j].status /\ bus'.run[j].cancel = TRUE
      /\ \A x \in DOMAIN bus.run : x # j => bus'.run[x] = bus.run[x]
  BY <1>1, CancelledFacts DEF TableInv
<1>3. Flying' = Flying
  BY DEF Flying
<1>4. TableInv'
  BY <1>1, <1>2 DEF TableInv, RunTable
<1>5. RunsTellJobs'
  <2>1. \A i \in Flying : bus'.run[i].cancel = (i \in told')
    <3> SUFFICES ASSUME NEW i \in Flying PROVE bus'.run[i].cancel = (i \in told')
      OBVIOUS
    <3>1. CASE i = j
      <4>1. i \in told'
        BY <3>1
      <4> QED  BY <1>2, <3>1, <4>1
    <3>2. CASE i # j
      <4>1. bus'.run[i].cancel = (i \in told)
        BY <1>1, <1>2, <3>2 DEF RunsTellJobs
      <4>2. (i \in told') = (i \in told)
        BY <3>2
      <4> QED  BY <4>1, <4>2
    <3> QED  BY <3>1, <3>2
  <2> QED  BY <1>1, <1>2, <1>3, <2>1 DEF RunsTellJobs
<1>6. Owners' /\ KeysLeadToJobs' /\ Names(DOMAIN jobs, order)'
  BY <1>1, <1>3 DEF Owners, KeysLeadToJobs, Names
<1> QED  BY <1>4, <1>5, <1>6 DEF RetentionInv

\* A late thread publishes, under a run that may be gone.
LEMMA RetentionHearsLate ==
  ASSUME RetentionInv, NEW j \in late, LatePublish(j)
  PROVE  RetentionInv'
<1>1. /\ TableInv /\ RunsTellJobs /\ Owners /\ KeysLeadToJobs /\ Names(DOMAIN jobs, order)
      /\ j \in 1..count /\ j \in Nat
  BY DEF RetentionInv, TableInv
<1>2. /\ bus' = Published(bus, j)
      /\ ghosts' = IF j \in DOMAIN bus.run THEN ghosts ELSE ghosts \cup {j}
      /\ UNCHANGED <<jobs, order, recent, late, count, told, opened>>
  BY DEF LatePublish
<1>3. Flying' = Flying
  BY <1>2 DEF Flying
<1>4. Owners' /\ KeysLeadToJobs' /\ Names(DOMAIN jobs, order)'
  BY <1>1, <1>2, <1>3 DEF Owners, KeysLeadToJobs, Names
<1>5. TableInv' /\ RunsTellJobs'
  <2>1. CASE j \in DOMAIN bus.run
    <3>1. bus' = bus /\ ghosts' = ghosts
      BY <1>2, <2>1 DEF Published
    <3> QED  BY <1>1, <1>2, <1>3, <3>1 DEF TableInv, RunTable, RunsTellJobs
  <2>2. CASE j \notin DOMAIN bus.run
    <3>1. bus' = Started(bus, j) /\ ghosts' = ghosts \cup {j}
      BY <1>2, <2>2 DEF Published
    <3>2. /\ RunTable(bus') /\ DOMAIN bus'.run \subseteq DOMAIN bus.run \cup {j}
          /\ \A x \in DOMAIN bus.run : bus.run[x].status = "running" => x \in DOMAIN bus'.run
          /\ \A x \in DOMAIN bus'.run : x # j => x \in DOMAIN bus.run /\ bus'.run[x] = bus.run[x]
      BY <1>1, <2>2, <3>1, StartedFacts DEF TableInv
    <3>3. j \notin Flying
      BY <1>1, <2>2 DEF RunsTellJobs
    <3>4. TableInv'
      BY <1>1, <1>2, <3>2 DEF TableInv, RunTable
    <3>5. RunsTellJobs'
      BY <1>1, <1>2, <1>3, <3>1, <3>2, <3>3 DEF RunsTellJobs
    <3> QED  BY <3>4, <3>5
  <2> QED  BY <2>1, <2>2
<1> QED  BY <1>4, <1>5 DEF RetentionInv

\* submit, after its eviction.
LEMMA RetentionSubmits ==
  ASSUME RetentionInv, NEW k \in Keys \cup {NoKey}, Submit(k)
  PROVE  RetentionInv'
<1> DEFINE e == Evicted(Cardinality(DOMAIN jobs) >= 2 * MaxSize)
           j == count + 1
<1>0. /\ TableInv /\ RunsTellJobs /\ Owners /\ KeysLeadToJobs /\ Names(DOMAIN jobs, order)
      /\ count \in Nat /\ j \in Nat /\ MaxSize \in Nat \ {0}
  BY RetentionAssumption DEF RetentionInv, TableInv
<1>1. PICK gone \in SUBSET (DOMAIN jobs \ Flying) :
        /\ e.jobs = Without(jobs, gone)
        /\ e.order = Dropped(order, gone)
        /\ e.recent = Without(recent, {jobs[i].key : i \in gone})
        /\ e.opened = {l \in {jobs[i].key : i \in gone} \cap DOMAIN recent :
                         recent[l] \in Flying}
  <2>1. (Cardinality(DOMAIN jobs) >= 2 * MaxSize) \in BOOLEAN
    OBVIOUS
  <2> QED  BY <1>0, <2>1, EvictedFacts
<1> DEFINE keys == {jobs[i].key : i \in gone}
           kept == DOMAIN jobs \ gone
<1>2. /\ opened' = opened \cup e.opened /\ UNCHANGED <<late, told, ghosts>>
      /\ \/ /\ Twin(e, k)
            /\ jobs' = e.jobs /\ order' = e.order /\ recent' = e.recent
            /\ UNCHANGED <<bus, count>>
         \/ /\ ~Twin(e, k)
            /\ jobs' = With(e.jobs, j, [status |-> "queued", key |-> k])
            /\ order' = Pushed(e.order, j, MaxSize)
            /\ recent' = IF k = NoKey THEN e.recent ELSE With(e.recent, k, j)
            /\ bus' = Started(bus, j)
            /\ count' = j
  BY DEF Submit
<1> HIDE DEF e
<1>3. /\ DOMAIN e.jobs = kept /\ \A i \in kept : e.jobs[i] = jobs[i]
      /\ DOMAIN e.recent = DOMAIN recent \ keys
      /\ \A l \in DOMAIN e.recent : e.recent[l] = recent[l]
      /\ Flying \subseteq kept
  BY <1>1 DEF Without, Flying
<1>4. Names(kept, e.order) /\ e.order \in Seq(Nat)
  BY <1>0, <1>1, NamesDropped, DroppedFacts DEF TableInv
<1>5. \A i \in Flying : jobs[i].key \notin {NoKey} \cup opened' =>
        jobs[i].key \in DOMAIN e.recent /\ e.recent[jobs[i].key] = i
  BY <1>0, <1>1, <1>2, <1>3 DEF Owners
<1>6. \A l \in DOMAIN e.recent : e.recent[l] \in kept /\ jobs[e.recent[l]].key = l
  BY <1>0, <1>3 DEF KeysLeadToJobs
<1> HIDE DEF keys
<1>7. CASE Twin(e, k) /\ jobs' = e.jobs /\ order' = e.order /\ recent' = e.recent
           /\ UNCHANGED <<bus, count>>
  <2>1. Flying' = Flying
    BY <1>3, <1>7 DEF Flying
  <2>2. TableInv'
    BY <1>0, <1>2, <1>3, <1>4, <1>7 DEF TableInv, RunTable
  <2>3. RunsTellJobs'
    BY <1>0, <1>2, <1>7, <2>1 DEF RunsTellJobs
  <2>4. Owners'
    BY <1>3, <1>5, <1>7, <2>1 DEF Owners
  <2>5. KeysLeadToJobs'
    <3>1. \A l \in DOMAIN recent' : recent'[l] \in DOMAIN jobs' /\ jobs'[recent'[l]].key = l
      BY <1>3, <1>6, <1>7
    <3>2. \A a, b \in Flying' : a # b /\ jobs'[a].key = jobs'[b].key =>
            jobs'[a].key \in {NoKey} \cup opened'
      BY <2>4 DEF Owners
    <3> QED  BY <3>1, <3>2 DEF KeysLeadToJobs
  <2>6. Names(DOMAIN jobs, order)'
    BY <1>3, <1>4, <1>7
  <2> QED  BY <2>2, <2>3, <2>4, <2>5, <2>6 DEF RetentionInv
<1>8. CASE /\ ~Twin(e, k)
           /\ jobs' = With(e.jobs, j, [status |-> "queued", key |-> k])
           /\ order' = Pushed(e.order, j, MaxSize)
           /\ recent' = IF k = NoKey THEN e.recent ELSE With(e.recent, k, j)
           /\ bus' = Started(bus, j)
           /\ count' = j
  <2>1. /\ 1..j = (1..count) \cup {j} /\ j \notin 1..count
        /\ \A i \in DOMAIN jobs : i \in Nat /\ i < j
        /\ j \notin DOMAIN jobs /\ j \notin DOMAIN bus.run
    BY <1>0 DEF TableInv
  <2>2. /\ DOMAIN jobs' = kept \cup {j}
        /\ jobs'[j] = [status |-> "queued", key |-> k]
        /\ \A i \in kept : jobs'[i] = jobs[i]
    BY <1>3, <1>8, <2>1 DEF With
  <2>3. Flying' = Flying \cup {j}
    BY <1>3, <2>2 DEF Flying, InFlight
  <2>4. /\ RunTable(bus') /\ DOMAIN bus'.run \subseteq DOMAIN bus.run \cup {j}
        /\ j \in DOMAIN bus'.run /\ bus'.run[j] = [status |-> "running", cancel |-> FALSE]
        /\ \A x \in DOMAIN bus.run : bus.run[x].status = "running" => x \in DOMAIN bus'.run
        /\ \A x \in DOMAIN bus'.run : x # j => x \in DOMAIN bus.run /\ bus'.run[x] = bus.run[x]
    BY <1>0, <1>8, <2>1, StartedFacts DEF TableInv
  <2>5. TableInv'
    <3>1. /\ count' \in Nat /\ late' \subseteq 1..count' /\ DOMAIN jobs' \subseteq 1..count'
          /\ DOMAIN bus'.run \subseteq 1..count'
      BY <1>0, <1>2, <1>8, <2>1, <2>2, <2>4 DEF TableInv
    <3>2. \A i \in DOMAIN jobs' : jobs'[i] \in JobRecord
      BY <1>0, <2>2 DEF TableInv, JobRecord
    <3>3. order' \in Seq(Nat)
      BY <1>0, <1>4, <1>8, PushedFacts
    <3> QED  BY <2>4, <3>1, <3>2, <3>3 DEF TableInv
  <2>6. RunsTellJobs'
    <3>1. j \notin told' /\ told' \subseteq Flying'
      BY <1>0, <1>2, <2>1, <2>3 DEF RunsTellJobs, Flying
    <3>2. \A i \in Flying : i # j /\ bus'.run[i] = bus.run[i] /\ i \in DOMAIN bus'.run
      BY <1>0, <2>1, <2>4 DEF RunsTellJobs, Flying
    <3>3. \A i \in Flying' : /\ i \in DOMAIN bus'.run /\ bus'.run[i].status = "running"
                             /\ bus'.run[i].cancel = (i \in told')
      <4>1. /\ bus'.run[j].status = "running" /\ bus'.run[j].cancel = FALSE
            /\ (j \in told') = FALSE
        BY <2>4, <3>1
      <4>2. \A i \in Flying : /\ bus'.run[i].status = "running"
                              /\ bus'.run[i].cancel = (i \in told)
        BY <1>0, <3>2 DEF RunsTellJobs
      <4> QED  BY <1>2, <2>3, <2>4, <3>2, <4>1, <4>2
    <3>4. \A r \in DOMAIN bus'.run : bus'.run[r].status = "running" => r \in Flying' \cup ghosts'
      BY <1>0, <1>2, <2>3, <2>4 DEF RunsTellJobs
    <3> QED  BY <3>1, <3>3, <3>4 DEF RunsTellJobs
  <2>7. k # NoKey =>
          /\ DOMAIN recent' = DOMAIN e.recent \cup {k} /\ recent'[k] = j
          /\ \A l \in DOMAIN e.recent : l # k => recent'[l] = e.recent[l]
    BY <1>8 DEF With
  <2>8. Owners'
    <3> SUFFICES ASSUME NEW i \in Flying', jobs'[i].key \notin {NoKey} \cup opened'
                 PROVE  jobs'[i].key \in DOMAIN recent' /\ recent'[jobs'[i].key] = i
      BY DEF Owners
    <3>1. CASE i = j
      BY <2>2, <2>7, <3>1
    <3>2. CASE i # j
      <4>1. i \in Flying /\ jobs'[i] = jobs[i]
        BY <1>3, <2>2, <2>3, <3>2
      <4>2. jobs[i].key \in DOMAIN e.recent /\ e.recent[jobs[i].key] = i
        BY <1>5, <4>1
      <4>3. jobs[i].key # k
        BY <1>3, <1>8, <4>1, <4>2 DEF Twin, Flying
      <4> QED  BY <1>8, <2>7, <4>1, <4>2, <4>3
    <3> QED  BY <3>1, <3>2
  <2>9. KeysLeadToJobs'
    <3>1. \A l \in DOMAIN recent' : recent'[l] \in DOMAIN jobs' /\ jobs'[recent'[l]].key = l
      BY <1>6, <1>8, <2>2, <2>7
    <3>2. \A a, b \in Flying' : a # b /\ jobs'[a].key = jobs'[b].key =>
            jobs'[a].key \in {NoKey} \cup opened'
      BY <2>8 DEF Owners
    <3> QED  BY <3>1, <3>2 DEF KeysLeadToJobs
  <2>10. Names(DOMAIN jobs, order)'
    <3>1. kept \in SUBSET Nat /\ \A d \in kept : d < j
      BY <2>1
    <3> HIDE DEF kept, j
    <3>2. Names(kept \cup {j}, Pushed(e.order, j, MaxSize))
      BY <1>0, <1>4, <3>1, NamesPushed
    <3> QED  BY <1>8, <2>2, <3>2
  <2> QED  BY <2>5, <2>6, <2>8, <2>9, <2>10 DEF RetentionInv
<1> QED  BY <1>2, <1>7, <1>8

LEMMA RetentionStep ==
  ASSUME RetentionInv, [Next]_vars
  PROVE  RetentionInv'
<1>0. TableInv /\ RunsTellJobs
  BY DEF RetentionInv
<1>1. CASE UNCHANGED vars
  <2>1. Flying' = Flying
    BY <1>1 DEF vars, Flying
  <2> QED
    BY <1>1, <2>1 DEF vars, RetentionInv, TableInv, RunTable, RunsTellJobs, Owners,
                      KeysLeadToJobs, Names
<1>2. ASSUME NEW k \in Keys \cup {NoKey}, Submit(k) PROVE RetentionInv'
  BY <1>2, RetentionSubmits
<1>3. ASSUME NEW j \in DOMAIN jobs, Begin(j) PROVE RetentionInv'
  BY <1>3, RetentionBegins
<1>4. ASSUME NEW j \in Flying, Settle(j, bus), UNCHANGED late PROVE RetentionInv'
  BY <1>0, <1>4, RetentionSettles DEF TableInv
<1>5. ASSUME NEW j \in DOMAIN jobs, Finish(j) PROVE RetentionInv'
  BY <1>4, <1>5 DEF Finish, Flying, InFlight
<1>6. ASSUME NEW j \in DOMAIN jobs, TimeOut(j) PROVE RetentionInv'
  <2>1. j \in Flying /\ Settle(j, Cancelled(bus, j)) /\ late' = late \cup {j}
    BY <1>6 DEF TimeOut, Flying, InFlight
  <2>2. j \in DOMAIN bus.run /\ j \in 1..count
    BY <1>0, <2>1 DEF RunsTellJobs, TableInv
  <2>3. /\ RunTable(Cancelled(bus, j)) /\ DOMAIN Cancelled(bus, j).run = DOMAIN bus.run
        /\ \A x \in DOMAIN bus.run : x # j => Cancelled(bus, j).run[x] = bus.run[x]
    BY <1>0, <2>2, CancelledFacts DEF TableInv
  <2>4. late' \subseteq 1..count
    BY <1>0, <2>1, <2>2 DEF TableInv
  <2> QED  BY <2>1, <2>3, <2>4, RetentionSettles
<1>7. ASSUME NEW j \in DOMAIN jobs, Cancel(j) PROVE RetentionInv'
  <2>1. j \in Flying
    BY <1>7 DEF Cancel, Flying, InFlight
  <2> QED  BY <1>4, <1>7, <2>1, RetentionTells DEF Cancel
<1>8. ASSUME NEW j \in late, LatePublish(j) PROVE RetentionInv'
  BY <1>8, RetentionHearsLate
<1>9. ASSUME NEW j \in late, LateEnds(j) PROVE RetentionInv'
  <2>1. late' \subseteq late /\ UNCHANGED <<jobs, order, recent, bus, count, told, opened, ghosts>>
    BY <1>9 DEF LateEnds
  <2>2. Flying' = Flying
    BY <2>1 DEF Flying
  <2> QED
    BY <2>1, <2>2 DEF RetentionInv, TableInv, RunTable, RunsTellJobs, Owners,
                      KeysLeadToJobs, Names
<1> QED
  BY <1>1, <1>2, <1>3, <1>5, <1>6, <1>7, <1>8, <1>9 DEF Next

-----------------------------------------------------------------------------
(* The theorems *)

LEMMA RetentionInvariant == Spec => []RetentionInv
<1>1. RetentionInv /\ [Next]_vars => RetentionInv'
  BY RetentionStep
<1> QED  BY InitRetention, <1>1, PTL DEF Spec

\* Whatever the two tables forget, a job in flight has its run, which says so
\* and says whether it was told to stop (start, cancel and _finalize).
THEOREM RunsAlwaysTellJobs == Spec => []RunsTellJobs
BY RetentionInvariant, PTL DEF RetentionInv

\* A key leads to a known job, and guards its job unless an eviction took the
\* key away with an older job of that key (_evict_old).
THEOREM KeysAlwaysLeadToJobs == Spec => []KeysLeadToJobs
BY RetentionInvariant, PTL DEF RetentionInv

\* _evict_old finds every known job but the oldest, which _order forgot.
THEOREM OnlyOldestAreForgotten == Spec => []OnlyOldestForgotten
<1>1. RetentionInv => OnlyOldestForgotten
  BY DEF RetentionInv, Names, OnlyOldestForgotten
<1> QED  BY <1>1, RetentionInvariant, PTL

=============================================================================
