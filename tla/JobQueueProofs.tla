--------------------------- MODULE JobQueueProofs ---------------------------
(***************************************************************************)
(* Theorems about JobQueue, for every set of jobs and sessions, every      *)
(* number of slots and every assignment of time-outs, attempts, keys and   *)
(* priorities.                                                             *)
(***************************************************************************)
EXTENDS JobQueue, FiniteSetTheorems, SequenceTheorems, TLAPS

-----------------------------------------------------------------------------
(* Sequences *)

\* What InsertAt returns, element by element.
LEMMA InsertAtFacts ==
  ASSUME NEW S, NEW q \in Seq(S), NEW e \in S, NEW i \in 0..Len(q)
  PROVE  /\ InsertAt(q, i + 1, e) \in Seq(S)
         /\ Len(InsertAt(q, i + 1, e)) = Len(q) + 1
         /\ \A k \in 1..(Len(q) + 1) :
              InsertAt(q, i + 1, e)[k] =
                IF k <= i THEN q[k] ELSE IF k = i + 1 THEN e ELSE q[k - 1]
<1> DEFINE l == SubSeq(q, 1, i)
           r == SubSeq(q, i + 1, Len(q))
<1>1. InsertAt(q, i + 1, e) = (l \o <<e>>) \o r
  BY (i + 1) - 1 = i DEF InsertAt
<1>2. l \in Seq(S) /\ Len(l) = i /\ \A k \in 1..i : l[k] = q[k]
  OBVIOUS
<1>3. r \in Seq(S) /\ Len(r) = Len(q) - i /\ \A k \in 1..(Len(q) - i) : r[k] = q[i + k]
  OBVIOUS
<1> DEFINE m == l \o <<e>>
<1>4. m \in Seq(S) /\ Len(m) = i + 1 /\ \A k \in 1..(i + 1) : m[k] = IF k <= i THEN q[k] ELSE e
  <2> HIDE DEF l, r
  <2> QED  BY <1>2
<1> HIDE DEF l, r, m
<1>5. m \o r \in Seq(S) /\ Len(m \o r) = Len(m) + Len(r)
  BY <1>3, <1>4, ConcatProperties
<1>7. \A k \in 1..(Len(m) + Len(r)) :
        (m \o r)[k] = IF k <= Len(m) THEN m[k] ELSE r[k - Len(m)]
  BY <1>3, <1>4, ConcatProperties
<1>8. ASSUME NEW k \in 1..(Len(q) + 1)
      PROVE  (m \o r)[k] = IF k <= i THEN q[k] ELSE IF k = i + 1 THEN e ELSE q[k - 1]
  <2>1. CASE k <= i + 1
    BY <2>1, <1>3, <1>4, <1>7
  <2>2. CASE k > i + 1
    <3>1. k - (i + 1) \in 1..(Len(q) - i) /\ i + (k - (i + 1)) = k - 1
      BY <2>2
    <3>2. r[k - (i + 1)] = q[k - 1]
      BY <3>1, <1>3
    <3>3. /\ k \in 1..(Len(m) + Len(r))
          /\ ~(k <= Len(m))
          /\ k - Len(m) = k - (i + 1)
      BY <2>2, <1>3, <1>4
    <3>4. (m \o r)[k] = r[k - (i + 1)]
      BY <3>3, <1>7
    <3>5. ~(k <= i) /\ k # i + 1
      BY <2>2
    <3> QED  BY <3>2, <3>4, <3>5
  <2>3. k <= i + 1 \/ k > i + 1
    OBVIOUS
  <2> QED  BY <2>1, <2>2, <2>3
<1>9. InsertAt(q, i + 1, e) = m \o r
  BY <1>1 DEF m
<1>10. Len(m \o r) = Len(q) + 1
  <2>1. Len(q) \in Nat /\ Len(m) = i + 1 /\ Len(r) = Len(q) - i
    BY <1>3, <1>4
  <2> QED  BY <2>1, <1>5
<1> QED
  BY <1>5, <1>8, <1>9, <1>10

\* What RemoveAt returns, element by element.
LEMMA RemoveAtFacts ==
  ASSUME NEW S, NEW q \in Seq(S), NEW i \in 1..Len(q)
  PROVE  /\ RemoveAt(q, i) \in Seq(S)
         /\ Len(RemoveAt(q, i)) = Len(q) - 1
         /\ \A k \in 1..(Len(q) - 1) :
              RemoveAt(q, i)[k] = IF k < i THEN q[k] ELSE q[k + 1]
<1> DEFINE l == SubSeq(q, 1, i - 1)
           r == SubSeq(q, i + 1, Len(q))
<1>1. RemoveAt(q, i) = l \o r
  BY DEF RemoveAt
<1>2. l \in Seq(S) /\ Len(l) = i - 1 /\ \A k \in 1..(i - 1) : l[k] = q[k]
  OBVIOUS
<1>3. r \in Seq(S) /\ Len(r) = Len(q) - i /\ \A k \in 1..(Len(q) - i) : r[k] = q[i + k]
  OBVIOUS
<1> HIDE DEF l, r
<1>4. l \o r \in Seq(S) /\ Len(l \o r) = Len(l) + Len(r)
  BY <1>2, <1>3, ConcatProperties
<1>5. \A k \in 1..(Len(l) + Len(r)) :
        (l \o r)[k] = IF k <= Len(l) THEN l[k] ELSE r[k - Len(l)]
  BY <1>2, <1>3, ConcatProperties
<1>6. ASSUME NEW k \in 1..(Len(q) - 1)
      PROVE  (l \o r)[k] = IF k < i THEN q[k] ELSE q[k + 1]
  <2>1. CASE k < i
    BY <2>1, <1>2, <1>3, <1>5
  <2>2. CASE k >= i
    <3>1. k - (i - 1) \in 1..(Len(q) - i) /\ i + (k - (i - 1)) = k + 1
      BY <2>2
    <3>2. r[k - (i - 1)] = q[k + 1]
      BY <3>1, <1>3
    <3>3. k \in 1..(Len(l) + Len(r)) /\ ~(k <= Len(l)) /\ k - Len(l) = k - (i - 1)
      BY <2>2, <1>2, <1>3
    <3>4. (l \o r)[k] = r[k - (i - 1)]
      BY <3>3, <1>5
    <3> QED  BY <2>2, <3>2, <3>4
  <2>3. k < i \/ k >= i
    <3>1. k \in Int /\ i \in Int
      OBVIOUS
    <3> QED  BY <3>1
  <2> QED  BY <2>1, <2>2, <2>3
<1>7. Len(l \o r) = Len(q) - 1
  <2>1. Len(q) \in Nat /\ Len(l) = i - 1 /\ Len(r) = Len(q) - i
    BY <1>2, <1>3
  <2> QED  BY <2>1, <1>4
<1> QED
  BY <1>1, <1>4, <1>6, <1>7

-----------------------------------------------------------------------------
(* Types *)

\* _kick keeps lanes sequences of jobs.
LEMMA KickType ==
  ASSUME TypeOK, NEW j \in Jobs, Kick(j)
  PROVE  /\ pending' \in [Sessions -> Seq(Jobs)]
         /\ lane' \in [Sessions -> LaneSteps]
<1>1. SessionOf[j] \in Sessions
  BY JobAssumption
<1>2. PICK i \in InsertPoints(pending[SessionOf[j]], j) :
        pending' = [pending EXCEPT ![SessionOf[j]] = InsertAt(@, i + 1, j)]
  BY DEF Kick
<1>3. pending[SessionOf[j]] \in Seq(Jobs) /\ i \in 0..Len(pending[SessionOf[j]])
  BY <1>1 DEF TypeOK, InsertPoints
<1>4. InsertAt(pending[SessionOf[j]], i + 1, j) \in Seq(Jobs)
  BY <1>3, InsertAtFacts
<1> QED
  BY <1>1, <1>2, <1>4 DEF TypeOK, Kick, LaneSteps

LEMMA ReleaseType ==
  ASSUME TypeOK, NEW s \in Sessions, NEW step \in LaneSteps, Release(s, step)
  PROVE  /\ lane' \in [Sessions -> LaneSteps]
         /\ free' \in Nat
         /\ waiters' \in Seq(Sessions)
<1>1. CASE waiters = <<>>
  <2>1. /\ free' = free + 1
        /\ lane' = [lane EXCEPT ![s] = step]
        /\ waiters' = waiters
    BY <1>1 DEF Release
  <2> QED  BY <2>1 DEF TypeOK, LaneSteps
<1>2. CASE waiters # <<>>
  <2>1. Head(waiters) \in Sessions /\ Tail(waiters) \in Seq(Sessions)
    BY <1>2 DEF TypeOK
  <2> QED  BY <1>2, <2>1 DEF TypeOK, Release, LaneSteps
<1> QED
  BY <1>1, <1>2

\* The two ways a failed attempt goes on.
LEMMA RetryOrFailCases ==
  ASSUME NEW j, NEW raised, RetryOrFail(j, raised)
  PROVE  \/ /\ Mark(j, "queued")
            /\ backoff' = backoff \cup {j}
            /\ attempts[j] < MaxAttempts[j]
         \/ Mark(j, "failed") /\ backoff' = backoff
<1>1. CASE attempts[j] < MaxAttempts[j] /\ raised # "stop"
  BY <1>1 DEF RetryOrFail
<1>2. CASE ~(attempts[j] < MaxAttempts[j] /\ raised # "stop")
  BY <1>2 DEF RetryOrFail
<1> QED
  BY <1>1, <1>2

LEMMA InitType == Init => TypeOK
<1> SUFFICES ASSUME Init PROVE TypeOK
  OBVIOUS
<1>1. /\ status \in [Jobs -> Statuses]
      /\ attempts \in [Jobs -> Nat]
      /\ outcome \in [Jobs -> Outcomes]
      /\ cancelled \in [Jobs -> BOOLEAN]
      /\ log \in [Jobs -> Statuses \cup {"deduped"}]
  BY DEF Init, Statuses, Outcomes
<1>2. /\ order \in Seq(Jobs)
      /\ waiters \in Seq(Sessions)
      /\ pending \in [Sessions -> Seq(Jobs)]
  BY DEF Init
<1>3. /\ recent \in [Keys -> Jobs \cup {NoJob}]
      /\ lane \in [Sessions -> LaneSteps]
      /\ current \in [Sessions -> Jobs \cup {NoJob}]
  BY DEF Init, LaneSteps
<1>4. /\ busy \in Sessions \cup {NoSession}
      /\ free \in Nat
      /\ live \subseteq Jobs \X Nat
      /\ backoff \subseteq Jobs
      /\ started \in BOOLEAN
      /\ stopped \in BOOLEAN
  BY QueueAssumption DEF Init
<1> QED
  BY <1>1, <1>2, <1>3, <1>4 DEF TypeOK

LEMMA TypeStep ==
  ASSUME TypeOK, LaneInv, [Next]_vars
  PROVE  TypeOK'
<1> USE DEF Statuses, Outcomes, LaneSteps, InFlight, Terminal
<1>1. CASE UNCHANGED vars
  BY <1>1 DEF TypeOK, vars, jobVars, laneVars, slotVars, lifeVars
<1>2. ASSUME NEW j \in Jobs, JobStep(j)
      PROVE  TypeOK'
  <2>1. CASE SubmitDuplicate(j)
    BY <2>1 DEF TypeOK, SubmitDuplicate, laneVars, slotVars, lifeVars
  <2>2. CASE Submit(j)
    <3>1. Kick(j)
      BY <2>2 DEF Submit
    <3>2. pending' \in [Sessions -> Seq(Jobs)] /\ lane' \in [Sessions -> LaneSteps]
      BY <3>1, KickType
    <3>3. recent' \in [Keys -> Jobs \cup {NoJob}]
      BY <2>2, JobAssumption DEF TypeOK, Submit
    <3>4. order' \in Seq(Jobs)
      BY <2>2 DEF TypeOK, Submit
    <3> QED  BY <2>2, <3>2, <3>3, <3>4 DEF TypeOK, Submit, Mark, slotVars, lifeVars
  <2>3. CASE RequeueRefused(j)
    BY <2>3 DEF TypeOK, RequeueRefused, Mark, laneVars, slotVars, lifeVars
  <2>4. CASE Requeue(j)
    BY <2>4, KickType DEF TypeOK, Requeue, jobVars, slotVars, lifeVars
  <2>5. CASE CancelPending(j)
    <3>1. PICK i \in DOMAIN pending[SessionOf[j]] :
            pending' = [pending EXCEPT ![SessionOf[j]] = RemoveAt(@, i)]
      BY <2>5 DEF CancelPending
    <3>2. SessionOf[j] \in Sessions /\ pending[SessionOf[j]] \in Seq(Jobs)
      BY JobAssumption DEF TypeOK
    <3>3. RemoveAt(pending[SessionOf[j]], i) \in Seq(Jobs)
      BY <3>1, <3>2, RemoveAtFacts
    <3>4. pending' \in [Sessions -> Seq(Jobs)]
      BY <3>1, <3>2, <3>3 DEF TypeOK
    <3> QED  BY <2>5, <3>4 DEF TypeOK, CancelPending, Mark, slotVars, lifeVars
  <2>6. CASE CancelCooperative(j)
    BY <2>6 DEF TypeOK, CancelCooperative, laneVars, slotVars, lifeVars
  <2> QED  BY <1>2, <2>1, <2>2, <2>3, <2>4, <2>5, <2>6 DEF JobStep
<1>3. ASSUME NEW s \in Sessions, LaneTurn(s)
      PROVE  TypeOK'
  <2>1. CASE LaneFlush(s)
    BY <2>1 DEF TypeOK, LaneFlush, slotVars, lifeVars
  <2>2. CASE LaneEnds(s)
    BY <2>2 DEF TypeOK, LaneEnds, jobVars, slotVars, lifeVars
  <2>3. CASE LaneStarts(s)
    <3>1. Head(pending[s]) \in Jobs /\ Tail(pending[s]) \in Seq(Jobs)
      BY <2>3 DEF TypeOK, LaneStarts, Pop
    <3> QED  BY <2>3, <3>1 DEF TypeOK, LaneStarts, Pop, Begin, Mark, lifeVars
  <2>4. CASE LaneWaits(s)
    <3>1. Head(pending[s]) \in Jobs /\ Tail(pending[s]) \in Seq(Jobs)
      BY <2>4 DEF TypeOK, LaneWaits, Pop
    <3>2. pending' \in [Sessions -> Seq(Jobs)] /\ current' \in [Sessions -> Jobs \cup {NoJob}]
      BY <2>4, <3>1 DEF TypeOK, LaneWaits, Pop
    <3>3. lane' \in [Sessions -> LaneSteps] /\ waiters' \in Seq(Sessions)
      BY <2>4 DEF TypeOK, LaneWaits
    <3>4. busy' = NoSession
      BY <2>4 DEF LaneWaits, Pop
    <3> QED  BY <2>4, <3>2, <3>3, <3>4 DEF TypeOK, LaneWaits, jobVars, lifeVars
  <2>5. CASE LaneResumes(s)
    <3>1. current[s] \in Jobs
      BY <2>5 DEF LaneInv, LaneResumes, Holding
    <3> QED  BY <2>5, <3>1 DEF TypeOK, LaneResumes, Begin, Mark, slotVars, lifeVars
  <2> QED  BY <1>3, <2>1, <2>2, <2>3, <2>4, <2>5 DEF LaneTurn
<1>4. ASSUME NEW s \in Sessions, TimeoutThread(s)
      PROVE  TypeOK'
  BY <1>4 DEF TypeOK, TimeoutThread, slotVars, lifeVars
<1>5. ASSUME NEW s \in Sessions, Ends(s)
      PROVE  TypeOK'
  <2>1. current[s] \in Jobs
    BY <1>5 DEF LaneInv, Holding, Executing, Ends, HandlerReturns, HandlerRaises,
         HandlerCrashes, HandlerAborts, TimeoutCoroutine, GraceExpires
  <2>2. ASSUME NEW raised, RetryOrFail(current[s], raised)
        PROVE  /\ status' \in [Jobs -> Statuses]
               /\ log' \in [Jobs -> Statuses \cup {"deduped"}]
               /\ backoff' \subseteq Jobs
    <3>1. CASE Mark(current[s], "queued") /\ backoff' = backoff \cup {current[s]}
      BY <2>1, <3>1 DEF TypeOK, Mark
    <3>2. CASE Mark(current[s], "failed") /\ backoff' = backoff
      BY <2>1, <3>2 DEF TypeOK, Mark
    <3> QED  BY <2>2, <3>1, <3>2, RetryOrFailCases
  <2>3. ASSUME Continue(s)
        PROVE  /\ lane' \in [Sessions -> LaneSteps] /\ free' \in Nat
               /\ waiters' \in Seq(Sessions)
               /\ current' \in [Sessions -> Jobs \cup {NoJob}]
               /\ busy' \in Sessions \cup {NoSession}
    BY <2>3, ReleaseType DEF TypeOK, Continue
  <2>4. CASE HandlerReturns(s)
    BY <2>1, <2>3, <2>4 DEF TypeOK, HandlerReturns, Mark, lifeVars
  <2>5. ASSUME NEW raised \in {"error", "stop"}, HandlerRaises(s, raised)
        PROVE  TypeOK'
    BY <2>1, <2>2, <2>3, <2>5 DEF TypeOK, HandlerRaises, lifeVars
  <2>6. CASE HandlerCrashes(s)
    BY <2>1, <2>3, <2>6 DEF TypeOK, HandlerCrashes, Mark, lifeVars
  <2>7. CASE HandlerAborts(s)
    <3>1. Release(s, "idle")
      BY <2>7 DEF HandlerAborts
    <3>2. /\ lane' \in [Sessions -> LaneSteps] /\ free' \in Nat
          /\ waiters' \in Seq(Sessions)
      BY <3>1, ReleaseType
    <3> QED  BY <2>1, <2>7, <3>2 DEF TypeOK, HandlerAborts, Mark, lifeVars
  <2>8. CASE TimeoutCoroutine(s)
    BY <2>1, <2>2, <2>3, <2>8 DEF TypeOK, TimeoutCoroutine, lifeVars
  <2>9. CASE GraceExpires(s)
    BY <2>1, <2>2, <2>3, <2>9 DEF TypeOK, GraceExpires, lifeVars
  <2> QED  BY <1>5, <2>4, <2>5, <2>6, <2>7, <2>8, <2>9 DEF Ends
<1>6. ASSUME NEW i \in live, ZombieEnds(i[1], i[2])
      PROVE  TypeOK'
  BY <1>6 DEF TypeOK, ZombieEnds, jobVars, laneVars, slotVars, lifeVars
<1>7. CASE Start
  <2>1. status' \in [Jobs -> Statuses]
    BY <1>7 DEF TypeOK, Start, Folded
  <2>2. free' \in Nat /\ waiters' \in Seq(Sessions)
    BY <1>7, QueueAssumption DEF Start
  <2> QED  BY <1>7, <2>1, <2>2 DEF TypeOK, Start, laneVars
<1>8. CASE Stop
  BY <1>8 DEF TypeOK, Stop, jobVars, laneVars, slotVars
<1>9. CASE StopReturns
  BY <1>9 DEF TypeOK, StopReturns, jobVars, laneVars, slotVars
<1>10. CASE StopCutsDrain
  <2>1. /\ status' \in [Jobs -> Statuses]
        /\ log' \in [Jobs -> Statuses \cup {"deduped"}]
    BY <1>10 DEF TypeOK, StopCutsDrain
  <2>2. live' \subseteq Jobs \X Nat
    BY <1>10 DEF TypeOK, StopCutsDrain
  <2>3. /\ lane' \in [Sessions -> LaneSteps]
        /\ current' \in [Sessions -> Jobs \cup {NoJob}]
        /\ free' \in Nat /\ waiters' \in Seq(Sessions)
    BY <1>10, QueueAssumption DEF StopCutsDrain
  <2> QED  BY <1>10, <2>1, <2>2, <2>3 DEF TypeOK, StopCutsDrain
<1>11. CASE Crash
  <2>1. /\ status' \in [Jobs -> Statuses]
        /\ attempts' \in [Jobs -> Nat]
        /\ outcome' \in [Jobs -> Outcomes]
        /\ cancelled' \in [Jobs -> BOOLEAN]
    BY <1>11 DEF Crash
  <2>2. /\ waiters' \in Seq(Sessions)
        /\ pending' \in [Sessions -> Seq(Jobs)]
    BY <1>11 DEF Crash
  <2>3. /\ recent' \in [Keys -> Jobs \cup {NoJob}]
        /\ lane' \in [Sessions -> LaneSteps]
        /\ current' \in [Sessions -> Jobs \cup {NoJob}]
    BY <1>11 DEF Crash
  <2>4. /\ busy' \in Sessions \cup {NoSession}
        /\ free' \in Nat
        /\ live' \subseteq Jobs \X Nat
        /\ backoff' \subseteq Jobs
        /\ started' \in BOOLEAN
        /\ stopped' \in BOOLEAN
    BY <1>11, QueueAssumption DEF Crash
  <2> QED  BY <1>11, <2>1, <2>2, <2>3, <2>4 DEF TypeOK, Crash
<1> QED
  BY <1>1, <1>2, <1>3, <1>4, <1>5, <1>6, <1>7, <1>8, <1>9, <1>10, <1>11 DEF Next

-----------------------------------------------------------------------------
(* What the shared pieces do to lanes and waiters *)

\* _kick inserts the job at one place of its lane and leaves the rest alone.
LEMMA KickFacts ==
  ASSUME TypeOK, NEW j \in Jobs, Kick(j)
  PROVE  LET s == SessionOf[j] IN
         /\ s \in Sessions
         /\ \A t \in Sessions : t # s => pending'[t] = pending[t]
         /\ \E i \in 0..Len(pending[s]) :
              /\ Len(pending'[s]) = Len(pending[s]) + 1
              /\ \A k \in 1..(Len(pending[s]) + 1) :
                   pending'[s][k] = IF k <= i THEN pending[s][k]
                                    ELSE IF k = i + 1 THEN j ELSE pending[s][k - 1]
         /\ \A t \in Sessions :
              \/ lane'[t] = lane[t]
              \/ t = s /\ lane[t] = "idle" /\ lane'[t] = "ready" /\ started
<1> DEFINE s == SessionOf[j]
           q == pending[s]
<1>1. s \in Sessions
  BY JobAssumption
<1>2. q \in Seq(Jobs)
  BY <1>1 DEF TypeOK
<1>3. PICK i \in InsertPoints(q, j) :
        pending' = [pending EXCEPT ![s] = InsertAt(q, i + 1, j)]
  BY DEF Kick
<1>4. i \in 0..Len(q)
  BY <1>3 DEF InsertPoints
<1>5. pending'[s] = InsertAt(q, i + 1, j) /\ \A t \in Sessions : t # s => pending'[t] = pending[t]
  BY <1>1, <1>3 DEF TypeOK
<1>6. /\ Len(InsertAt(q, i + 1, j)) = Len(q) + 1
      /\ \A k \in 1..(Len(q) + 1) :
           InsertAt(q, i + 1, j)[k] =
             IF k <= i THEN q[k] ELSE IF k = i + 1 THEN j ELSE q[k - 1]
  BY <1>2, <1>4, InsertAtFacts
<1>7. \A t \in Sessions :
         \/ lane'[t] = lane[t]
         \/ t = s /\ lane[t] = "idle" /\ lane'[t] = "ready" /\ started
  BY <1>1 DEF Kick, TypeOK
<1> HIDE DEF s, q
<1>8. /\ Len(pending'[s]) = Len(q) + 1
      /\ \A k \in 1..(Len(q) + 1) :
           pending'[s][k] = IF k <= i THEN q[k] ELSE IF k = i + 1 THEN j ELSE q[k - 1]
  BY <1>5, <1>6
<1> QED
  BY <1>1, <1>4, <1>5, <1>7, <1>8 DEF s, q

\* Nothing but the job itself is new in a lane.
LEMMA KickElements ==
  ASSUME TypeOK, NEW j \in Jobs, Kick(j)
  PROVE  \A t \in Sessions : \A k \in DOMAIN pending'[t] :
           \/ t = SessionOf[j] /\ pending'[t][k] = j
           \/ \E m \in DOMAIN pending[t] : pending'[t][k] = pending[t][m]
<1> DEFINE s == SessionOf[j]
<1>1. PICK i \in 0..Len(pending[s]) :
        /\ Len(pending'[s]) = Len(pending[s]) + 1
        /\ \A k \in 1..(Len(pending[s]) + 1) :
             pending'[s][k] = IF k <= i THEN pending[s][k]
                              ELSE IF k = i + 1 THEN j ELSE pending[s][k - 1]
  BY KickFacts
<1>2. s \in Sessions /\ \A t \in Sessions : t # s => pending'[t] = pending[t]
  BY KickFacts
<1>3. pending[s] \in Seq(Jobs) /\ pending'[s] \in Seq(Jobs)
  BY <1>2, KickType DEF TypeOK
<1> HIDE DEF s
<1>4. ASSUME NEW k \in DOMAIN pending'[s]
      PROVE  pending'[s][k] = j \/ \E m \in DOMAIN pending[s] : pending'[s][k] = pending[s][m]
  <2>1. k \in 1..(Len(pending[s]) + 1)
    BY <1>1, <1>3
  <2>2. CASE k <= i
    BY <2>1, <2>2, <1>1, <1>3
  <2>3. CASE k = i + 1
    BY <2>1, <2>3, <1>1
  <2>4. CASE k > i + 1
    <3>1. k - 1 \in DOMAIN pending[s] /\ pending'[s][k] = pending[s][k - 1]
      BY <2>1, <2>4, <1>1, <1>3
    <3> QED  BY <3>1
  <2>5. k <= i \/ k = i + 1 \/ k > i + 1
    BY <2>1
  <2> QED  BY <2>2, <2>3, <2>4, <2>5
<1> QED
  BY <1>2, <1>4 DEF s

\* Release gives the slot of s away and touches no other lane but the first
\* waiter, which is granted it.
LEMMA ReleaseFacts ==
  ASSUME TypeOK, LaneInv, NEW s \in Sessions, lane[s] \in Executing,
         NEW step \in {"ready", "idle"}, Release(s, step)
  PROVE  /\ lane'[s] = step
         /\ \A t \in Sessions : t # s =>
              lane'[t] = lane[t] \/ (lane[t] = "wait" /\ lane'[t] = "granted")
         /\ \A i \in DOMAIN waiters' : lane'[waiters'[i]] = "wait"
         /\ \A i, k \in DOMAIN waiters' : waiters'[i] = waiters'[k] => i = k
<1>1. CASE waiters = <<>>
  <2>1. lane' = [lane EXCEPT ![s] = step] /\ waiters' = waiters
    BY <1>1 DEF Release
  <2> QED  BY <1>1, <2>1 DEF TypeOK
<1>2. CASE waiters # <<>>
  <2> DEFINE h == Head(waiters)
  <2>1. /\ lane' = [lane EXCEPT ![s] = step, ![h] = "granted"]
        /\ waiters' = Tail(waiters)
    BY <1>2 DEF Release
  <2>2. waiters \in Seq(Sessions) /\ 1 \in DOMAIN waiters /\ h = waiters[1]
    BY <1>2 DEF TypeOK
  <2>3. h \in Sessions /\ lane[h] = "wait" /\ h # s
    BY <2>2 DEF LaneInv, TypeOK, Executing
  <2>4. /\ Len(waiters') = Len(waiters) - 1
        /\ \A i \in DOMAIN waiters' : i + 1 \in DOMAIN waiters /\ waiters'[i] = waiters[i + 1]
    BY <1>2, <2>1, <2>2
  <2>5. \A i \in DOMAIN waiters' : waiters'[i] # h /\ waiters'[i] # s
    <3>1. DOMAIN waiters' \subseteq Nat \ {0}
      BY <2>1, <2>2, <1>2
    <3> QED  BY <2>2, <2>3, <2>4, <3>1 DEF LaneInv, Executing
  <2> HIDE DEF h
  <2>6. \A i \in DOMAIN waiters' : lane'[waiters'[i]] = "wait"
    BY <2>1, <2>2, <2>4, <2>5 DEF LaneInv, TypeOK
  <2>7. \A i, k \in DOMAIN waiters' : waiters'[i] = waiters'[k] => i = k
    <3>1. DOMAIN waiters' \subseteq Nat
      BY <2>1, <2>2, <1>2
    <3> QED  BY <2>4, <3>1 DEF LaneInv
  <2>8. lane'[s] = step /\ lane'[h] = "granted" /\ \A t \in Sessions : t # s /\ t # h => lane'[t] = lane[t]
    BY <2>1, <2>3 DEF TypeOK
  <2> QED  BY <2>3, <2>6, <2>7, <2>8
<1> QED
  BY <1>1, <1>2

-----------------------------------------------------------------------------
(* LaneInv *)

LEMMA InitLane == Init => LaneInv
  BY DEF Init, LaneInv, Holding, Executing, AllIdle

\* LaneInv survives a step that leaves lanes, waiters and life alone.
LEMMA LaneQuiet ==
  ASSUME LaneInv, UNCHANGED <<pending, lane, current, waiters, started>>
  PROVE  LaneInv'
  BY DEF LaneInv, AllIdle

\* An execution that ended, with the slot given back.
LEMMA LaneAfterRelease ==
  ASSUME TypeOK, LaneInv, NEW s \in Sessions, lane[s] \in Executing,
         NEW step \in {"ready", "idle"}, Release(s, step),
         current' = [current EXCEPT ![s] = NoJob],
         UNCHANGED <<pending, started>>
  PROVE  LaneInv'
<1>1. /\ lane'[s] = step
      /\ \A t \in Sessions : t # s =>
           lane'[t] = lane[t] \/ (lane[t] = "wait" /\ lane'[t] = "granted")
      /\ \A i \in DOMAIN waiters' : lane'[waiters'[i]] = "wait"
      /\ \A i, k \in DOMAIN waiters' : waiters'[i] = waiters'[k] => i = k
  BY ReleaseFacts
<1>2. current'[s] = NoJob /\ \A t \in Sessions : t # s => current'[t] = current[t]
  BY DEF TypeOK
<1>3. started'
  BY DEF LaneInv, AllIdle, Executing
<1>4. \A t \in Sessions :
        IF lane'[t] \in Holding THEN current'[t] \in Jobs /\ SessionOf[current'[t]] = t
                               ELSE current'[t] = NoJob
  BY <1>1, <1>2 DEF LaneInv, Holding, Executing
<1> QED
  BY <1>1, <1>3, <1>4 DEF LaneInv

LEMMA LaneStep ==
  ASSUME TypeOK, LaneInv, [Next]_vars
  PROVE  LaneInv'
<1> USE DEF Executing, Holding
<1>1. CASE UNCHANGED vars
  BY <1>1, LaneQuiet DEF vars, laneVars, slotVars, lifeVars
<1>2. ASSUME NEW j \in Jobs, Kick(j), UNCHANGED <<current, slotVars, started>>
      PROVE  LaneInv'
  <2>1. \A t \in Sessions : \A k \in DOMAIN pending'[t] : SessionOf[pending'[t][k]] = t
    BY <1>2, KickElements DEF LaneInv
  <2>2. \A t \in Sessions :
          \/ lane'[t] = lane[t]
          \/ lane[t] = "idle" /\ lane'[t] = "ready" /\ started
    BY <1>2, KickFacts
  <2>3. \A t \in Sessions :
          IF lane'[t] \in Holding THEN current'[t] \in Jobs /\ SessionOf[current'[t]] = t
                                 ELSE current'[t] = NoJob
    BY <1>2, <2>2 DEF LaneInv
  <2>4. waiters \in Seq(Sessions) /\ waiters' = waiters
    BY <1>2 DEF TypeOK, slotVars
  <2>5. \A i \in DOMAIN waiters : waiters[i] \in Sessions
    BY <2>4
  <2>6. \A i \in DOMAIN waiters' : lane'[waiters'[i]] = "wait"
    BY <2>2, <2>4, <2>5 DEF LaneInv
  <2>7. ~started' => AllIdle'
    BY <1>2, <2>2 DEF LaneInv, AllIdle
  <2> QED  BY <2>1, <2>3, <2>4, <2>6, <2>7 DEF LaneInv
<1>3. ASSUME NEW j \in Jobs, JobStep(j)
      PROVE  LaneInv'
  <2>1. CASE SubmitDuplicate(j)
    BY <2>1, LaneQuiet DEF SubmitDuplicate, laneVars, slotVars, lifeVars
  <2>2. CASE Submit(j)
    BY <2>2, <1>2 DEF Submit, slotVars, lifeVars
  <2>3. CASE RequeueRefused(j)
    BY <2>3, LaneQuiet DEF RequeueRefused, laneVars, slotVars, lifeVars
  <2>4. CASE Requeue(j)
    BY <2>4, <1>2 DEF Requeue, slotVars, lifeVars
  <2>5. CASE CancelPending(j)
    <3> DEFINE s == SessionOf[j]
    <3>1. PICK i \in DOMAIN pending[s] : pending' = [pending EXCEPT ![s] = RemoveAt(@, i)]
      BY <2>5 DEF CancelPending
    <3>2. s \in Sessions /\ pending[s] \in Seq(Jobs)
      BY JobAssumption DEF TypeOK
    <3>3. i \in 1..Len(pending[s])
      BY <3>1, <3>2
    <3>4. /\ Len(RemoveAt(pending[s], i)) = Len(pending[s]) - 1
          /\ RemoveAt(pending[s], i) \in Seq(Jobs)
          /\ \A k \in 1..(Len(pending[s]) - 1) :
               RemoveAt(pending[s], i)[k] = IF k < i THEN pending[s][k] ELSE pending[s][k + 1]
      BY <3>2, <3>3, RemoveAtFacts
    <3>5. pending'[s] = RemoveAt(pending[s], i) /\ \A t \in Sessions : t # s => pending'[t] = pending[t]
      BY <3>1, <3>2 DEF TypeOK
    <3> HIDE DEF s
    <3>6. \A k \in DOMAIN pending'[s] : \E m \in DOMAIN pending[s] : pending'[s][k] = pending[s][m]
      BY <3>2, <3>3, <3>4, <3>5
    <3>7. \A t \in Sessions : \A k \in DOMAIN pending'[t] : SessionOf[pending'[t][k]] = t
      BY <3>2, <3>5, <3>6 DEF LaneInv
    <3> QED  BY <2>5, <3>7 DEF LaneInv, CancelPending, slotVars, lifeVars, AllIdle
  <2>6. CASE CancelCooperative(j)
    BY <2>6, LaneQuiet DEF CancelCooperative, laneVars, slotVars, lifeVars
  <2> QED  BY <1>3, <2>1, <2>2, <2>3, <2>4, <2>5, <2>6 DEF JobStep
<1>4. ASSUME NEW s \in Sessions, LaneTurn(s)
      PROVE  LaneInv'
  <2>1. lane[s] # "idle" /\ started
    BY <1>4 DEF LaneTurn, LaneFlush, LaneEnds, LaneStarts, LaneWaits, LaneResumes, Pop, LaneInv, AllIdle
  <2>2. \A i \in DOMAIN waiters : waiters[i] \in Sessions
    BY DEF TypeOK
  <2>3. CASE LaneFlush(s)
    <3>1. \A t \in Sessions : t # s => lane'[t] = lane[t] /\ pending'[t] = pending[t]
      BY <2>3 DEF TypeOK, LaneFlush
    <3>2. lane'[s] = "idle" /\ pending'[s] = <<>> /\ lane[s] = "ready"
      BY <2>3 DEF TypeOK, LaneFlush
    <3> QED  BY <2>1, <2>2, <2>3, <3>1, <3>2 DEF LaneInv, LaneFlush, slotVars, lifeVars
  <2>4. CASE LaneEnds(s)
    BY <2>1, <2>2, <2>4 DEF LaneInv, LaneEnds, slotVars, lifeVars, TypeOK
  <2>5. ASSUME Pop(s)
        PROVE  /\ current'[s] \in Jobs /\ SessionOf[current'[s]] = s
               /\ \A t \in Sessions : t # s => current'[t] = current[t]
               /\ \A t \in Sessions : \A k \in DOMAIN pending'[t] : SessionOf[pending'[t][k]] = t
    <3>1. pending[s] \in Seq(Jobs) /\ pending[s] # <<>>
      BY <2>5 DEF TypeOK, Pop
    <3>2. /\ current'[s] = pending[s][1] /\ 1 \in DOMAIN pending[s]
          /\ \A t \in Sessions : t # s => current'[t] = current[t]
      BY <2>5, <3>1 DEF TypeOK, Pop
    <3>3. pending'[s] = Tail(pending[s]) /\ \A t \in Sessions : t # s => pending'[t] = pending[t]
      BY <2>5 DEF TypeOK, Pop
    <3>4. \A k \in DOMAIN pending'[s] : k + 1 \in DOMAIN pending[s] /\ pending'[s][k] = pending[s][k + 1]
      BY <3>1, <3>3
    <3>5. \A k \in DOMAIN pending'[s] : SessionOf[pending'[s][k]] = s
      BY <3>4 DEF LaneInv
    <3>6. pending[s][1] \in Jobs /\ SessionOf[pending[s][1]] = s
      BY <3>1, <3>2 DEF LaneInv
    <3>7. \A t \in Sessions : \A k \in DOMAIN pending'[t] : SessionOf[pending'[t][k]] = t
      BY <3>3, <3>5 DEF LaneInv
    <3> QED  BY <3>2, <3>6, <3>7
  <2>6. CASE LaneStarts(s)
    <3>1. Pop(s) /\ lane[s] = "ready"
      BY <2>6 DEF LaneStarts, Pop
    <3>2. lane'[s] = "exec" /\ \A t \in Sessions : t # s => lane'[t] = lane[t]
      BY <2>6 DEF TypeOK, LaneStarts
    <3> QED  BY <2>1, <2>2, <2>5, <2>6, <3>1, <3>2 DEF LaneInv, LaneStarts, lifeVars
  <2>7. CASE LaneWaits(s)
    <3>1. Pop(s) /\ lane[s] = "ready"
      BY <2>7 DEF LaneWaits, Pop
    <3>2. lane'[s] = "wait" /\ \A t \in Sessions : t # s => lane'[t] = lane[t]
      BY <2>7 DEF TypeOK, LaneWaits
    <3>3. waiters \in Seq(Sessions) /\ waiters' = Append(waiters, s)
      BY <2>7 DEF TypeOK, LaneWaits
    <3>4. \A i \in DOMAIN waiters' :
            \/ i \in DOMAIN waiters /\ waiters'[i] = waiters[i]
            \/ i = Len(waiters) + 1 /\ waiters'[i] = s
      BY <3>3
    <3>5. \A i \in DOMAIN waiters : waiters[i] # s
      BY <3>1 DEF LaneInv
    <3>6. \A i \in DOMAIN waiters' : lane'[waiters'[i]] = "wait"
      BY <2>2, <3>2, <3>4 DEF LaneInv
    <3>7. \A i, k \in DOMAIN waiters' : waiters'[i] = waiters'[k] => i = k
      BY <3>4, <3>5 DEF LaneInv
    <3>8. \A t \in Sessions :
            IF lane'[t] \in Holding THEN current'[t] \in Jobs /\ SessionOf[current'[t]] = t
                                   ELSE current'[t] = NoJob
      BY <2>5, <3>1, <3>2 DEF LaneInv
    <3> QED  BY <2>1, <2>5, <2>7, <3>1, <3>6, <3>7, <3>8 DEF LaneInv, LaneWaits, lifeVars
  <2>8. CASE LaneResumes(s)
    <3>1. lane'[s] = "exec" /\ lane[s] = "granted" /\ \A t \in Sessions : t # s => lane'[t] = lane[t]
      BY <2>8 DEF TypeOK, LaneResumes
    <3> QED  BY <2>1, <2>2, <2>8, <3>1 DEF LaneInv, LaneResumes, slotVars, lifeVars
  <2> QED  BY <1>4, <2>3, <2>4, <2>6, <2>7, <2>8 DEF LaneTurn
<1>5. ASSUME NEW s \in Sessions, TimeoutThread(s)
      PROVE  LaneInv'
  <2>1. lane'[s] = "grace" /\ lane[s] = "exec" /\ \A t \in Sessions : t # s => lane'[t] = lane[t]
    BY <1>5 DEF TypeOK, TimeoutThread
  <2>2. \A i \in DOMAIN waiters : waiters[i] \in Sessions
    BY DEF TypeOK
  <2>3. started
    BY <2>1 DEF LaneInv, AllIdle
  <2> QED  BY <1>5, <2>1, <2>2, <2>3 DEF LaneInv, TimeoutThread, slotVars, lifeVars
<1>6. ASSUME NEW s \in Sessions, Ends(s)
      PROVE  LaneInv'
  <2>1. /\ lane[s] \in Executing
        /\ \E step \in {"ready", "idle"} : Release(s, step)
        /\ current' = [current EXCEPT ![s] = NoJob]
        /\ UNCHANGED <<pending, started>>
    BY <1>6 DEF Ends, HandlerReturns, HandlerRaises, HandlerCrashes, HandlerAborts,
         TimeoutCoroutine, GraceExpires, Continue, lifeVars
  <2> QED  BY <2>1, LaneAfterRelease
<1>7. ASSUME NEW i \in live, ZombieEnds(i[1], i[2])
      PROVE  LaneInv'
  BY <1>7, LaneQuiet DEF ZombieEnds, laneVars, slotVars, lifeVars
<1>8. CASE Start
  <2>1. waiters' = <<>> /\ started' /\ UNCHANGED <<pending, lane, current>>
    BY <1>8 DEF Start, laneVars
  <2> QED  BY <2>1 DEF LaneInv
<1>9. CASE Stop
  BY <1>9, LaneQuiet DEF Stop, laneVars, slotVars, lifeVars
<1>10. CASE StopReturns
  BY <1>10 DEF StopReturns, laneVars, slotVars, lifeVars, LaneInv, AllIdle
<1>11. CASE StopCutsDrain
  BY <1>11 DEF StopCutsDrain, LaneInv, AllIdle
<1>12. CASE Crash
  BY <1>12 DEF Crash, LaneInv, AllIdle
<1> QED
  BY <1>1, <1>3, <1>4, <1>5, <1>6, <1>7, <1>8, <1>9, <1>10, <1>11, <1>12 DEF Next

\* Every variable keeps its type, for all constants the assumptions allow.
THEOREM TypeCorrect == Spec => []TypeOK
<1>1. Init => TypeOK /\ LaneInv
  BY InitType, InitLane
<1>2. TypeOK /\ LaneInv /\ [Next]_vars => (TypeOK /\ LaneInv)'
  BY TypeStep, LaneStep
<1> QED
  BY <1>1, <1>2, PTL DEF Spec

-----------------------------------------------------------------------------
(* The seven ways an execution ends, in one shape *)

EndStep(s, st) ==
  /\ lane[s] \in Executing
  /\ st \in {"succeeded", "failed", "cancelled", "queued"}
  /\ Mark(current[s], st)
  /\ backoff' = backoff \cup {j \in {current[s]} : st = "queued"}
  /\ st = "queued" => attempts[current[s]] < MaxAttempts[current[s]]
  /\ \E step \in {"ready", "idle"} :
       Release(s, step) /\ (step = "idle" => current[s] \in Aborting)
  /\ current' = [current EXCEPT ![s] = NoJob]
  /\ \/ live' = live \ {<<current[s], attempts[current[s]]>>}
     \/ live' = live /\ lane[s] = "grace"
  /\ UNCHANGED <<attempts, cancelled, order, recent, pending, started, stopped>>

LEMMA EndShape ==
  ASSUME NEW s \in Sessions, Ends(s)
  PROVE  \E st : EndStep(s, st)
<1> DEFINE j == current[s]
<1>1. ASSUME NEW raised, RetryOrFail(j, raised)
      PROVE  \E st \in {"failed", "queued"} :
               /\ Mark(j, st)
               /\ backoff' = backoff \cup {k \in {j} : st = "queued"}
               /\ st = "queued" => attempts[j] < MaxAttempts[j]
  <2>1. CASE Mark(j, "queued") /\ backoff' = backoff \cup {j} /\ attempts[j] < MaxAttempts[j]
    BY <2>1
  <2>2. CASE Mark(j, "failed") /\ backoff' = backoff
    BY <2>2
  <2> QED  BY <1>1, <2>1, <2>2, RetryOrFailCases
<1>2. ASSUME NEW raised, RetryOrFail(j, raised), lane[s] \in Executing, Continue(s),
             \/ live' = live \ {<<j, attempts[j]>>}
             \/ live' = live /\ lane[s] = "grace",
             UNCHANGED <<attempts, cancelled, order, recent, pending, lifeVars>>
      PROVE  \E st : EndStep(s, st)
  <2>1. PICK st \in {"failed", "queued"} :
               /\ Mark(j, st)
               /\ backoff' = backoff \cup {k \in {j} : st = "queued"}
               /\ st = "queued" => attempts[j] < MaxAttempts[j]
    BY <1>1, <1>2
  <2>2. EndStep(s, st)
    BY <1>2, <2>1 DEF EndStep, Continue, lifeVars
  <2> QED  BY <2>2
<1>3. CASE HandlerReturns(s)
  <2>1. EndStep(s, "succeeded")
    BY <1>3 DEF EndStep, HandlerReturns, Continue, lifeVars
  <2> QED  BY <2>1
<1>4. ASSUME NEW raised \in {"error", "stop"}, HandlerRaises(s, raised)
      PROVE  \E st : EndStep(s, st)
  BY <1>2, <1>4 DEF HandlerRaises
<1>5. CASE HandlerCrashes(s)
  <2>1. EndStep(s, "failed")
    BY <1>5 DEF EndStep, HandlerCrashes, Continue, lifeVars
  <2> QED  BY <2>1
<1>6. CASE HandlerAborts(s)
  <2>1. EndStep(s, "cancelled")
    BY <1>6 DEF EndStep, HandlerAborts, lifeVars
  <2> QED  BY <2>1
<1>7. CASE TimeoutCoroutine(s)
  BY <1>2, <1>7 DEF TimeoutCoroutine, Executing
<1>8. CASE GraceExpires(s)
  BY <1>2, <1>8 DEF GraceExpires, Executing
<1> QED
  BY <1>3, <1>4, <1>5, <1>6, <1>7, <1>8 DEF Ends

-----------------------------------------------------------------------------
(* PlaceInv and RunningIsOwned *)

LEMMA InitPlace == Init => PlaceInv /\ RunningIsOwned
<1>1. Init => PlaceInv
  BY DEF Init, PlaceInv
<1>2. Init => RunningIsOwned
  BY JobAssumption DEF Init, RunningIsOwned, Executing
<1> QED  BY <1>1, <1>2

\* What stands in a lane is a job, of that lane's session.
LEMMA PendingJobs ==
  ASSUME TypeOK, LaneInv, NEW t \in Sessions, NEW k \in DOMAIN pending[t]
  PROVE  pending[t][k] \in Jobs /\ SessionOf[pending[t][k]] = t
  BY DEF TypeOK, LaneInv

\* Inserting a job that is not there keeps a lane free of repetitions.
LEMMA KickInjective ==
  ASSUME TypeOK, PlaceInv, NEW j \in Jobs, Kick(j),
         \A k \in DOMAIN pending[SessionOf[j]] : pending[SessionOf[j]][k] # j
  PROVE  \A t \in Sessions : \A k, m \in DOMAIN pending'[t] :
           pending'[t][k] = pending'[t][m] => k = m
<1> DEFINE s == SessionOf[j]
<1>1. PICK i \in 0..Len(pending[s]) :
        /\ Len(pending'[s]) = Len(pending[s]) + 1
        /\ \A k \in 1..(Len(pending[s]) + 1) :
             pending'[s][k] = IF k <= i THEN pending[s][k]
                              ELSE IF k = i + 1 THEN j ELSE pending[s][k - 1]
  BY KickFacts
<1>2. s \in Sessions /\ \A t \in Sessions : t # s => pending'[t] = pending[t]
  BY KickFacts
<1>3. pending[s] \in Seq(Jobs) /\ pending'[s] \in Seq(Jobs)
  BY <1>2, KickType DEF TypeOK
<1>4. /\ \A k \in DOMAIN pending[s] : pending[s][k] # j
      /\ \A k, m \in DOMAIN pending[s] : pending[s][k] = pending[s][m] => k = m
  BY <1>2 DEF PlaceInv
<1> HIDE DEF s
<1> DEFINE old(k) == IF k <= i THEN k ELSE k - 1
<1>5. ASSUME NEW k \in DOMAIN pending'[s], k # i + 1
      PROVE  old(k) \in DOMAIN pending[s] /\ pending'[s][k] = pending[s][old(k)]
  <2>1. k \in 1..(Len(pending[s]) + 1)
    BY <1>1, <1>3
  <2>2. CASE k <= i
    BY <2>1, <2>2, <1>1, <1>3
  <2>3. CASE k > i + 1
    BY <2>1, <2>3, <1>1, <1>3
  <2>4. k <= i \/ k > i + 1
    BY <2>1, <1>5
  <2> QED  BY <2>2, <2>3, <2>4
<1>6. \A k \in DOMAIN pending'[s] : k = i + 1 => pending'[s][k] = j
  <2>1. i + 1 \in 1..(Len(pending[s]) + 1)
    OBVIOUS
  <2>2. pending'[s][i + 1] = j
    BY <1>1, <2>1
  <2> QED  BY <2>2
<1>7. ASSUME NEW k \in DOMAIN pending'[s], NEW m \in DOMAIN pending'[s],
             pending'[s][k] = pending'[s][m]
      PROVE  k = m
  <2>1. CASE k = i + 1 \/ m = i + 1
    BY <2>1, <1>4, <1>5, <1>6, <1>7
  <2>2. CASE k # i + 1 /\ m # i + 1
    <3>1. old(k) = old(m)
      BY <2>2, <1>4, <1>5, <1>7
    <3>2. k \in Nat /\ m \in Nat
      BY <1>3
    <3> QED  BY <2>2, <3>1, <3>2
  <2> QED  BY <2>1, <2>2
<1> QED
  BY <1>2, <1>7 DEF s, PlaceInv

\* A job that is queued and in no place may be put into its lane.
LEMMA PlaceAfterKick ==
  ASSUME TypeOK, LaneInv, PlaceInv, RunningIsOwned,
         NEW j \in Jobs, Kick(j),
         status[j] # "running", status'[j] = "queued",
         \A i \in Jobs : i # j => status'[i] = status[i],
         backoff' = backoff \ {j}, UNCHANGED current, current[SessionOf[j]] # j,
         \A k \in DOMAIN pending[SessionOf[j]] : pending[SessionOf[j]][k] # j
  PROVE  PlaceInv' /\ RunningIsOwned'
<1>1. \A t \in Sessions :
        \/ lane'[t] = lane[t]
        \/ lane[t] = "idle" /\ lane'[t] = "ready"
  BY KickFacts
<1>2. \A t \in Sessions : \A k \in DOMAIN pending'[t] :
        /\ status'[pending'[t][k]] = "queued"
        /\ pending'[t][k] \notin backoff'
        /\ pending'[t][k] # current'[t]
  <2> TAKE t \in Sessions
  <2> TAKE k \in DOMAIN pending'[t]
  <2>1. CASE t = SessionOf[j] /\ pending'[t][k] = j
    BY <2>1
  <2>2. CASE \E m \in DOMAIN pending[t] : pending'[t][k] = pending[t][m]
    <3>1. PICK m \in DOMAIN pending[t] : pending'[t][k] = pending[t][m]
      BY <2>2
    <3>2. pending[t][m] \in Jobs
      BY PendingJobs
    <3> QED  BY <3>1, <3>2 DEF PlaceInv
  <2> QED  BY <2>1, <2>2, KickElements
<1>3. \A t \in Sessions : \A k, m \in DOMAIN pending'[t] :
        pending'[t][k] = pending'[t][m] => k = m
  BY KickInjective
<1>4. \A i \in backoff' : status'[i] = "queued" /\ current'[SessionOf[i]] # i
  BY DEF PlaceInv, TypeOK
<1>5. \A t \in Sessions : lane'[t] \in {"wait", "granted"} => status'[current'[t]] = "queued"
  BY <1>1 DEF PlaceInv, LaneInv, Holding
<1>6. RunningIsOwned'
  <2> SUFFICES ASSUME NEW i \in Jobs
               PROVE  status'[i] = "running" <=> /\ lane'[SessionOf[i]] \in Executing
                                                 /\ current'[SessionOf[i]] = i
    BY DEF RunningIsOwned
  <2>1. SessionOf[i] \in Sessions
    BY JobAssumption
  <2> QED  BY <1>1, <2>1 DEF RunningIsOwned, Executing
<1> QED
  BY <1>2, <1>3, <1>4, <1>5, <1>6 DEF PlaceInv

\* Lanes, places and statuses after an execution has ended.
LEMMA PlaceAfterEnd ==
  ASSUME TypeOK, LaneInv, PlaceInv, RunningIsOwned,
         NEW s \in Sessions, NEW st, EndStep(s, st)
  PROVE  PlaceInv' /\ RunningIsOwned'
<1> DEFINE j == current[s]
<1>1. lane[s] \in Executing /\ j \in Jobs /\ SessionOf[j] = s
  BY DEF EndStep, LaneInv, Holding
<1>2. status[j] = "running"
  BY <1>1 DEF RunningIsOwned
<1>3. /\ status'[j] = st /\ st # "running"
      /\ \A i \in Jobs : i # j => status'[i] = status[i]
  BY <1>1 DEF EndStep, Mark, TypeOK
<1>4. /\ lane'[s] \in {"ready", "idle"}
      /\ \A t \in Sessions : t # s =>
           lane'[t] = lane[t] \/ (lane[t] = "wait" /\ lane'[t] = "granted")
  BY <1>1, ReleaseFacts DEF EndStep
<1>5. current'[s] = NoJob /\ \A t \in Sessions : t # s => current'[t] = current[t]
  BY DEF EndStep, TypeOK
<1>6. pending' = pending
  BY DEF EndStep
<1>7. backoff' = backoff \cup {i \in {j} : st = "queued"}
  BY DEF EndStep
<1> HIDE DEF j
<1>8. \A t \in Sessions : \A k \in DOMAIN pending[t] :
        /\ status'[pending[t][k]] = "queued"
        /\ pending[t][k] \notin backoff'
        /\ pending[t][k] # current'[t]
  <2> TAKE t \in Sessions
  <2> TAKE k \in DOMAIN pending[t]
  <2>1. pending[t][k] \in Jobs /\ pending[t][k] # j
    BY <1>2, PendingJobs DEF PlaceInv
  <2>2. pending[t][k] # current'[t]
    BY <1>5, <2>1, SentinelAssumption DEF PlaceInv
  <2> QED  BY <1>3, <1>7, <2>1, <2>2 DEF PlaceInv
<1>9. \A i \in backoff' : status'[i] = "queued" /\ current'[SessionOf[i]] # i
  <2> TAKE i \in backoff'
  <2>1. CASE i = j
    <3>1. st = "queued"
      BY <1>2, <1>7, <2>1 DEF PlaceInv
    <3> QED  BY <1>1, <1>3, <1>5, <2>1, <3>1, SentinelAssumption
  <2>2. CASE i # j
    <3>1. i \in backoff /\ i \in Jobs /\ SessionOf[i] \in Sessions
      BY <1>7, <2>2, JobAssumption DEF TypeOK
    <3> QED  BY <1>3, <1>5, <2>2, <3>1, SentinelAssumption DEF PlaceInv
  <2> QED  BY <2>1, <2>2
<1>10. \A t \in Sessions : lane'[t] \in {"wait", "granted"} => status'[current'[t]] = "queued"
  <2> SUFFICES ASSUME NEW t \in Sessions, lane'[t] \in {"wait", "granted"}
               PROVE  status'[current'[t]] = "queued"
    OBVIOUS
  <2>1. t # s /\ lane[t] \in {"wait", "granted"}
    BY <1>4
  <2>2. current'[t] = current[t] /\ current[t] \in Jobs /\ SessionOf[current[t]] = t
    BY <1>5, <2>1 DEF LaneInv, Holding
  <2> QED  BY <1>1, <1>3, <2>1, <2>2 DEF PlaceInv
<1>11. RunningIsOwned'
  <2> SUFFICES ASSUME NEW i \in Jobs
               PROVE  status'[i] = "running" <=> /\ lane'[SessionOf[i]] \in Executing
                                                 /\ current'[SessionOf[i]] = i
    BY DEF RunningIsOwned
  <2>1. CASE i = j
    BY <1>1, <1>3, <1>4, <2>1 DEF Executing
  <2>2. CASE i # j
    <3>1. SessionOf[i] \in Sessions
      BY JobAssumption
    <3>2. CASE SessionOf[i] = s
      BY <1>1, <1>3, <1>4, <2>2, <3>2 DEF RunningIsOwned, Executing, j
    <3>3. CASE SessionOf[i] # s
      BY <1>3, <1>4, <1>5, <2>2, <3>1, <3>3 DEF RunningIsOwned, Executing
    <3> QED  BY <3>2, <3>3
  <2> QED  BY <2>1, <2>2
<1> QED
  BY <1>6, <1>8, <1>9, <1>10, <1>11 DEF PlaceInv

\* Taking the job at place i out of a lane leaves the other jobs in place.
LEMMA PlaceAfterRemoval ==
  ASSUME TypeOK, LaneInv, PlaceInv, NEW s \in Sessions, NEW i \in 1..Len(pending[s]),
         \A t \in Sessions : t # s => pending'[t] = pending[t],
         pending'[s] \in Seq(Jobs), Len(pending'[s]) = Len(pending[s]) - 1,
         \A k \in 1..(Len(pending[s]) - 1) :
           pending'[s][k] = IF k < i THEN pending[s][k] ELSE pending[s][k + 1],
         \A j \in Jobs : j # pending[s][i] => status'[j] = status[j],
         \A t \in Sessions : current'[t] = current[t]
                           \/ (t = s /\ current'[t] = pending[s][i]),
         backoff' = backoff
  PROVE  /\ \A t \in Sessions : \A k \in DOMAIN pending'[t] :
              /\ status'[pending'[t][k]] = "queued"
              /\ pending'[t][k] \notin backoff'
              /\ pending'[t][k] # current'[t]
         /\ \A t \in Sessions : \A k, m \in DOMAIN pending'[t] :
              pending'[t][k] = pending'[t][m] => k = m
<1> DEFINE j == pending[s][i]
           old(k) == IF k < i THEN k ELSE k + 1
<1>1. pending[s] \in Seq(Jobs) /\ i \in DOMAIN pending[s]
  BY DEF TypeOK
<1>2. ASSUME NEW k \in DOMAIN pending'[s]
      PROVE  /\ old(k) \in DOMAIN pending[s] /\ old(k) # i
             /\ pending'[s][k] = pending[s][old(k)] /\ k \in Nat
  <2>1. /\ k \in 1..(Len(pending[s]) - 1)
        /\ DOMAIN pending[s] = 1..Len(pending[s]) /\ Len(pending[s]) \in Nat
    BY <1>1
  <2>2. old(k) \in 1..Len(pending[s]) /\ old(k) # i
    BY <2>1
  <2>3. pending'[s][k] = pending[s][old(k)]
    BY <2>1
  <2> QED  BY <2>1, <2>2, <2>3
<1>3. ASSUME NEW k \in DOMAIN pending'[s], NEW m \in DOMAIN pending'[s], old(k) = old(m)
      PROVE  k = m
  BY <1>2, <1>3
<1> HIDE DEF old
<1>4. ASSUME NEW t \in Sessions, NEW k \in DOMAIN pending'[t]
      PROVE  /\ status'[pending'[t][k]] = "queued"
             /\ pending'[t][k] \notin backoff'
             /\ pending'[t][k] # current'[t]
  <2>1. CASE t = s
    <3>1. /\ old(k) \in DOMAIN pending[s] /\ old(k) # i
          /\ pending'[s][k] = pending[s][old(k)]
      BY <1>2, <2>1, <1>4
    <3>2. pending'[s][k] \in Jobs /\ pending'[s][k] # j
      BY <1>1, <3>1, PendingJobs DEF PlaceInv
    <3> QED  BY <2>1, <3>1, <3>2 DEF PlaceInv
  <2>2. CASE t # s
    <3>1. pending'[t] = pending[t] /\ current'[t] = current[t]
      BY <2>2
    <3>2. pending[t][k] \in Jobs /\ SessionOf[pending[t][k]] = t /\ SessionOf[j] = s
      BY <1>1, <1>4, <3>1, PendingJobs
    <3> QED  BY <2>2, <1>4, <3>1, <3>2 DEF PlaceInv
  <2> QED  BY <2>1, <2>2
<1>5. ASSUME NEW t \in Sessions, NEW k \in DOMAIN pending'[t], NEW m \in DOMAIN pending'[t],
             pending'[t][k] = pending'[t][m]
      PROVE  k = m
  <2>1. CASE t = s
    <3>1. old(k) = old(m)
      BY <1>2, <1>5, <2>1 DEF PlaceInv
    <3> QED  BY <1>3, <1>5, <2>1, <3>1
  <2>2. CASE t # s
    BY <1>5, <2>2 DEF PlaceInv
  <2> QED  BY <2>1, <2>2
<1> QED
  BY <1>4, <1>5

\* PlaceInv and RunningIsOwned survive a step that moves no job and changes
\* no status.
LEMMA PlaceQuiet ==
  ASSUME PlaceInv, RunningIsOwned, UNCHANGED <<status, pending, lane, current, backoff>>
  PROVE  PlaceInv' /\ RunningIsOwned'
  BY DEF PlaceInv, RunningIsOwned

\* The drain task pops a job; it waits for a slot or starts the job.
LEMMA PopFacts ==
  ASSUME TypeOK, LaneInv, NEW s \in Sessions, Pop(s)
  PROVE  /\ pending[s] # <<>> /\ 1 \in 1..Len(pending[s]) /\ pending[s][1] \in Jobs
         /\ SessionOf[pending[s][1]] = s
         /\ Head(pending[s]) = pending[s][1]
         /\ current'[s] = pending[s][1]
         /\ \A t \in Sessions : t # s => current'[t] = current[t] /\ pending'[t] = pending[t]
         /\ pending'[s] \in Seq(Jobs) /\ Len(pending'[s]) = Len(pending[s]) - 1
         /\ \A k \in 1..(Len(pending[s]) - 1) : pending'[s][k] = pending[s][k + 1]
<1>1. pending[s] \in Seq(Jobs) /\ pending[s] # <<>>
  BY DEF TypeOK, Pop
<1>2. 1 \in DOMAIN pending[s] /\ 1 \in 1..Len(pending[s]) /\ Head(pending[s]) = pending[s][1]
  BY <1>1
<1>3. pending[s][1] \in Jobs /\ SessionOf[pending[s][1]] = s
  BY <1>2, PendingJobs
<1>4. current'[s] = Head(pending[s]) /\ pending'[s] = Tail(pending[s])
  BY DEF Pop, TypeOK
<1>5. \A t \in Sessions : t # s => current'[t] = current[t] /\ pending'[t] = pending[t]
  BY DEF Pop, TypeOK
<1>6. /\ Tail(pending[s]) \in Seq(Jobs) /\ Len(Tail(pending[s])) = Len(pending[s]) - 1
      /\ \A k \in 1..(Len(pending[s]) - 1) : Tail(pending[s])[k] = pending[s][k + 1]
  BY <1>1
<1> QED
  BY <1>1, <1>2, <1>3, <1>4, <1>5, <1>6

LEMMA PlaceAfterPop ==
  ASSUME TypeOK, LaneInv, PlaceInv, NEW s \in Sessions, Pop(s), backoff' = backoff,
         \A j \in Jobs : j # pending[s][1] => status'[j] = status[j]
  PROVE  /\ \A t \in Sessions : \A k \in DOMAIN pending'[t] :
              /\ status'[pending'[t][k]] = "queued"
              /\ pending'[t][k] \notin backoff'
              /\ pending'[t][k] # current'[t]
         /\ \A t \in Sessions : \A k, m \in DOMAIN pending'[t] :
              pending'[t][k] = pending'[t][m] => k = m
<1>1. /\ 1 \in 1..Len(pending[s])
      /\ pending'[s] \in Seq(Jobs) /\ Len(pending'[s]) = Len(pending[s]) - 1
      /\ \A k \in 1..(Len(pending[s]) - 1) : pending'[s][k] = pending[s][k + 1]
      /\ current'[s] = pending[s][1]
      /\ \A t \in Sessions : t # s => current'[t] = current[t] /\ pending'[t] = pending[t]
  BY PopFacts
<1>2. \A k \in 1..(Len(pending[s]) - 1) :
        pending'[s][k] = IF k < 1 THEN pending[s][k] ELSE pending[s][k + 1]
  BY <1>1
<1>3. \A t \in Sessions : current'[t] = current[t] \/ (t = s /\ current'[t] = pending[s][1])
  BY <1>1
<1> QED
  BY <1>1, <1>2, <1>3, PlaceAfterRemoval

\* A job begins: it was queued, it runs, and its lane holds it.
LEMMA PlaceAfterBegin ==
  ASSUME TypeOK, LaneInv, PlaceInv, RunningIsOwned,
         NEW s \in Sessions, lane[s] \in {"ready", "granted"},
         NEW j \in Jobs, SessionOf[j] = s, status[j] = "queued", Begin(j), j \notin backoff,
         backoff' = backoff, lane' = [lane EXCEPT ![s] = "exec"], current'[s] = j,
         \A t \in Sessions : t # s => current'[t] = current[t]
  PROVE  /\ RunningIsOwned'
         /\ \A i \in backoff' : status'[i] = "queued" /\ current'[SessionOf[i]] # i
         /\ \A t \in Sessions : lane'[t] \in {"wait", "granted"} => status'[current'[t]] = "queued"
<1>1. status'[j] = "running" /\ \A i \in Jobs : i # j => status'[i] = status[i]
  BY DEF Begin, Mark, TypeOK
<1>2. lane'[s] = "exec" /\ \A t \in Sessions : t # s => lane'[t] = lane[t]
  BY DEF TypeOK
<1>3. ASSUME NEW i \in Jobs
      PROVE  status'[i] = "running" <=> lane'[SessionOf[i]] \in Executing /\ current'[SessionOf[i]] = i
  <2>1. SessionOf[i] \in Sessions
    BY JobAssumption
  <2>2. CASE i = j
    BY <1>1, <1>2, <2>2 DEF Executing
  <2>3. CASE i # j /\ SessionOf[i] = s
    BY <1>1, <1>2, <2>3 DEF RunningIsOwned, Executing
  <2>4. CASE SessionOf[i] # s
    BY <1>1, <1>2, <2>1, <2>4 DEF RunningIsOwned, Executing
  <2> QED  BY <2>2, <2>3, <2>4
<1>4. ASSUME NEW i \in backoff'
      PROVE  status'[i] = "queued" /\ current'[SessionOf[i]] # i
  <2>1. i \in Jobs /\ i # j /\ SessionOf[i] \in Sessions
    BY <1>4, JobAssumption DEF TypeOK
  <2> QED  BY <1>1, <1>4, <2>1 DEF PlaceInv
<1>5. ASSUME NEW t \in Sessions, lane'[t] \in {"wait", "granted"}
      PROVE  status'[current'[t]] = "queued"
  <2>1. t # s /\ lane[t] \in {"wait", "granted"}
    BY <1>2, <1>5
  <2>2. current'[t] = current[t] /\ current[t] \in Jobs /\ SessionOf[current[t]] = t
    BY <2>1 DEF LaneInv, Holding
  <2> QED  BY <1>1, <2>1, <2>2 DEF PlaceInv
<1> QED
  BY <1>3, <1>4, <1>5 DEF RunningIsOwned

LEMMA PlaceStep ==
  ASSUME TypeOK, LaneInv, PlaceInv, RunningIsOwned, [Next]_vars
  PROVE  PlaceInv' /\ RunningIsOwned'
<1>1. CASE UNCHANGED vars
  BY <1>1, PlaceQuiet DEF vars, jobVars, laneVars
<1>2. ASSUME NEW j \in Jobs, JobStep(j)
      PROVE  PlaceInv' /\ RunningIsOwned'
  <2> DEFINE s == SessionOf[j]
  <2>0. s \in Sessions
    BY JobAssumption
  <2>1. CASE SubmitDuplicate(j)
    BY <2>1, PlaceQuiet DEF SubmitDuplicate, laneVars
  <2>2. CASE Submit(j)
    <3>1. status[j] = "none" /\ Kick(j) /\ current' = current /\ backoff' = backoff
      BY <2>2 DEF Submit, Fresh
    <3>2. status'[j] = "queued" /\ \A i \in Jobs : i # j => status'[i] = status[i]
      BY <2>2 DEF Submit, Mark, TypeOK
    <3>3. j \notin backoff
      BY <3>1 DEF PlaceInv
    <3>4. current[s] # j
      <4>1. CASE lane[s] \in {"wait", "granted"}
        BY <2>0, <3>1, <4>1 DEF PlaceInv
      <4>2. CASE lane[s] \in Executing
        BY <3>1, <4>2 DEF RunningIsOwned
      <4>3. CASE lane[s] \notin Holding
        BY <2>0, <4>3, SentinelAssumption DEF LaneInv
      <4> QED  BY <4>1, <4>2, <4>3 DEF Holding
    <3>5. \A k \in DOMAIN pending[s] : pending[s][k] # j
      BY <2>0, <3>1 DEF PlaceInv
    <3>6. backoff' = backoff \ {j} /\ status[j] # "running"
      BY <3>1, <3>3
    <3> QED  BY <3>1, <3>2, <3>4, <3>5, <3>6, PlaceAfterKick
  <2>3. CASE RequeueRefused(j)
    <3>1. /\ j \in backoff /\ backoff' = backoff \ {j}
          /\ status'[j] = "interrupted" /\ \A i \in Jobs : i # j => status'[i] = status[i]
          /\ UNCHANGED <<pending, lane, current>>
      BY <2>3 DEF RequeueRefused, Mark, TypeOK, laneVars
    <3>2. status[j] = "queued" /\ current[s] # j
      BY <3>1 DEF PlaceInv
    <3>3. RunningIsOwned'
      BY <3>1, <3>2 DEF RunningIsOwned
    <3>4. \A t \in Sessions : \A k \in DOMAIN pending[t] : pending[t][k] \in Jobs /\ pending[t][k] # j
      BY <3>1, PendingJobs DEF PlaceInv
    <3>5. \A t \in Sessions : lane[t] \in {"wait", "granted"} => current[t] \in Jobs /\ current[t] # j
      BY <3>2 DEF LaneInv, Holding
    <3>6. backoff' \subseteq Jobs
      BY <3>1 DEF TypeOK
    <3> QED  BY <3>1, <3>3, <3>4, <3>5, <3>6 DEF PlaceInv
  <2>4. CASE Requeue(j)
    <3>1. /\ j \in backoff /\ backoff' = backoff \ {j} /\ Kick(j)
          /\ UNCHANGED <<status, current>>
      BY <2>4 DEF Requeue, jobVars
    <3>2. status[j] = "queued" /\ current[s] # j
      BY <3>1 DEF PlaceInv
    <3>3. \A k \in DOMAIN pending[s] : pending[s][k] # j
      BY <2>0, <3>1 DEF PlaceInv
    <3> QED  BY <3>1, <3>2, <3>3, PlaceAfterKick
  <2>5. CASE CancelPending(j)
    <3>1. PICK i \in DOMAIN pending[s] :
            pending[s][i] = j /\ pending' = [pending EXCEPT ![s] = RemoveAt(@, i)]
      BY <2>5 DEF CancelPending
    <3>2. pending[s] \in Seq(Jobs) /\ i \in 1..Len(pending[s])
      BY <2>0, <3>1 DEF TypeOK
    <3>3. /\ Len(RemoveAt(pending[s], i)) = Len(pending[s]) - 1
          /\ RemoveAt(pending[s], i) \in Seq(Jobs)
          /\ \A k \in 1..(Len(pending[s]) - 1) :
               RemoveAt(pending[s], i)[k] = IF k < i THEN pending[s][k] ELSE pending[s][k + 1]
      BY <3>2, RemoveAtFacts
    <3>4. pending'[s] = RemoveAt(pending[s], i) /\ \A t \in Sessions : t # s => pending'[t] = pending[t]
      BY <2>0, <3>1 DEF TypeOK
    <3>5. /\ status'[j] = "cancelled" /\ \A k \in Jobs : k # j => status'[k] = status[k]
          /\ UNCHANGED <<lane, current, backoff>>
      BY <2>5 DEF CancelPending, Mark, TypeOK
    <3>6. status[j] = "queued" /\ j \notin backoff /\ current[s] # j
      BY <2>0, <3>1 DEF PlaceInv
    <3> HIDE DEF s
    <3>7. /\ \A t \in Sessions : \A k \in DOMAIN pending'[t] :
               /\ status'[pending'[t][k]] = "queued"
               /\ pending'[t][k] \notin backoff'
               /\ pending'[t][k] # current'[t]
          /\ \A t \in Sessions : \A k, m \in DOMAIN pending'[t] :
               pending'[t][k] = pending'[t][m] => k = m
      <4>1. /\ pending'[s] \in Seq(Jobs) /\ Len(pending'[s]) = Len(pending[s]) - 1
            /\ \A k \in 1..(Len(pending[s]) - 1) :
                 pending'[s][k] = IF k < i THEN pending[s][k] ELSE pending[s][k + 1]
        BY <3>3, <3>4
      <4>2. \A k \in Jobs : k # pending[s][i] => status'[k] = status[k]
        BY <3>1, <3>5
      <4> QED  BY <2>0, <3>2, <3>4, <3>5, <4>1, <4>2, PlaceAfterRemoval
    <3>8. RunningIsOwned'
      BY <3>5, <3>6 DEF RunningIsOwned, s
    <3>9. \A t \in backoff' : status'[t] = "queued" /\ current'[SessionOf[t]] # t
      BY <3>5, <3>6 DEF PlaceInv, TypeOK
    <3>10. \A t \in Sessions : lane'[t] \in {"wait", "granted"} => status'[current'[t]] = "queued"
      BY <3>5, <3>6 DEF PlaceInv, LaneInv, Holding, s
    <3> QED  BY <3>7, <3>8, <3>9, <3>10 DEF PlaceInv
  <2>6. CASE CancelCooperative(j)
    BY <2>6, PlaceQuiet DEF CancelCooperative, laneVars
  <2> QED  BY <1>2, <2>1, <2>2, <2>3, <2>4, <2>5, <2>6 DEF JobStep
<1>3. ASSUME NEW s \in Sessions, LaneTurn(s)
      PROVE  PlaceInv' /\ RunningIsOwned'
  <2>1. CASE LaneFlush(s)
    <3> DEFINE S == ToSet(pending[s])
    <3>1. /\ lane[s] = "ready" /\ lane'[s] = "idle" /\ pending'[s] = <<>>
          /\ \A t \in Sessions : t # s => lane'[t] = lane[t] /\ pending'[t] = pending[t]
          /\ UNCHANGED <<current, backoff>>
      BY <2>1 DEF LaneFlush, TypeOK
    <3>2. status' = [j \in Jobs |-> IF j \in S THEN "cancelled" ELSE status[j]]
      BY <2>1 DEF LaneFlush
    <3>3. \A j \in S : j \in Jobs /\ SessionOf[j] = s /\ status[j] = "queued" /\ j \notin backoff /\ j # current[s]
      BY PendingJobs DEF PlaceInv, ToSet
    <3> HIDE DEF S
    <3>4. \A t \in Sessions : \A k \in DOMAIN pending'[t] :
            /\ status'[pending'[t][k]] = "queued"
            /\ pending'[t][k] \notin backoff'
            /\ pending'[t][k] # current'[t]
      <4> SUFFICES ASSUME NEW t \in Sessions, NEW k \in DOMAIN pending'[t]
                   PROVE  /\ status'[pending'[t][k]] = "queued"
                          /\ pending'[t][k] \notin backoff'
                          /\ pending'[t][k] # current'[t]
        OBVIOUS
      <4>1. t # s
        BY <3>1
      <4>2. pending[t][k] \in Jobs /\ SessionOf[pending[t][k]] = t
        BY <3>1, <4>1, PendingJobs
      <4> QED  BY <3>1, <3>2, <3>3, <4>1, <4>2 DEF PlaceInv
    <3>5. \A t \in Sessions : \A k, m \in DOMAIN pending'[t] :
            pending'[t][k] = pending'[t][m] => k = m
      BY <3>1 DEF PlaceInv
    <3>6. RunningIsOwned'
      BY <3>1, <3>2, <3>3, JobAssumption DEF RunningIsOwned, Executing
    <3>7. \A i \in backoff' : status'[i] = "queued" /\ current'[SessionOf[i]] # i
      BY <3>1, <3>2, <3>3 DEF PlaceInv, TypeOK
    <3>8. \A t \in Sessions : lane'[t] \in {"wait", "granted"} => status'[current'[t]] = "queued"
      <4> SUFFICES ASSUME NEW t \in Sessions, lane'[t] \in {"wait", "granted"}
                   PROVE  status'[current'[t]] = "queued"
        OBVIOUS
      <4>1. t # s /\ lane[t] \in {"wait", "granted"}
        BY <3>1
      <4>2. current[t] \in Jobs /\ SessionOf[current[t]] = t /\ status[current[t]] = "queued"
        BY <4>1 DEF LaneInv, PlaceInv, Holding
      <4> QED  BY <3>1, <3>2, <3>3, <4>1, <4>2
    <3> QED  BY <3>4, <3>5, <3>6, <3>7, <3>8 DEF PlaceInv
  <2>2. CASE LaneEnds(s)
    <3>1. /\ lane[s] = "ready" /\ lane'[s] = "idle" /\ \A t \in Sessions : t # s => lane'[t] = lane[t]
          /\ UNCHANGED <<status, pending, current, backoff>>
      BY <2>2 DEF LaneEnds, jobVars, TypeOK
    <3>2. RunningIsOwned'
      BY <3>1, JobAssumption DEF RunningIsOwned, Executing
    <3> QED  BY <3>1, <3>2 DEF PlaceInv
  <2>3. CASE LaneStarts(s)
    <3> DEFINE j == pending[s][1]
    <3>1. Pop(s) /\ lane[s] = "ready" /\ backoff' = backoff /\ lane' = [lane EXCEPT ![s] = "exec"]
      BY <2>3 DEF LaneStarts, Pop
    <3>2. /\ j \in Jobs /\ SessionOf[j] = s /\ Head(pending[s]) = j /\ current'[s] = j
          /\ \A t \in Sessions : t # s => current'[t] = current[t]
          /\ 1 \in 1..Len(pending[s])
      BY <3>1, PopFacts
    <3>3. status[j] = "queued" /\ j \notin backoff
      BY <3>2 DEF PlaceInv, TypeOK
    <3>4. Begin(j)
      BY <2>3, <3>2 DEF LaneStarts
    <3>5. \A k \in Jobs : k # j => status'[k] = status[k]
      BY <3>4 DEF Begin, Mark, TypeOK
    <3> HIDE DEF j
    <3>6. /\ RunningIsOwned'
          /\ \A i \in backoff' : status'[i] = "queued" /\ current'[SessionOf[i]] # i
          /\ \A t \in Sessions : lane'[t] \in {"wait", "granted"} => status'[current'[t]] = "queued"
      BY <3>1, <3>2, <3>3, <3>4, PlaceAfterBegin
    <3> QED  BY <3>1, <3>5, <3>6, PlaceAfterPop DEF PlaceInv, j
  <2>4. CASE LaneWaits(s)
    <3> DEFINE j == pending[s][1]
    <3>1. /\ Pop(s) /\ lane[s] = "ready" /\ backoff' = backoff /\ status' = status
          /\ lane'[s] = "wait" /\ \A t \in Sessions : t # s => lane'[t] = lane[t]
      BY <2>4 DEF LaneWaits, Pop, jobVars, TypeOK
    <3>2. /\ j \in Jobs /\ SessionOf[j] = s /\ current'[s] = j
          /\ \A t \in Sessions : t # s => current'[t] = current[t]
          /\ 1 \in 1..Len(pending[s])
      BY <3>1, PopFacts
    <3>3. status[j] = "queued" /\ j \notin backoff
      BY <3>2 DEF PlaceInv, TypeOK
    <3>4. /\ \A t \in Sessions : \A k \in DOMAIN pending'[t] :
               /\ status'[pending'[t][k]] = "queued"
               /\ pending'[t][k] \notin backoff'
               /\ pending'[t][k] # current'[t]
          /\ \A t \in Sessions : \A k, m \in DOMAIN pending'[t] :
               pending'[t][k] = pending'[t][m] => k = m
      BY <3>1, PlaceAfterPop
    <3> HIDE DEF j
    <3>5. RunningIsOwned'
      <4> SUFFICES ASSUME NEW i \in Jobs
                   PROVE  status'[i] = "running" <=> lane'[SessionOf[i]] \in Executing /\ current'[SessionOf[i]] = i
        BY DEF RunningIsOwned
      <4>1. SessionOf[i] \in Sessions
        BY JobAssumption
      <4> QED  BY <3>1, <3>2, <4>1 DEF RunningIsOwned, Executing
    <3>6. \A i \in backoff' : status'[i] = "queued" /\ current'[SessionOf[i]] # i
      <4> SUFFICES ASSUME NEW i \in backoff
                   PROVE  status'[i] = "queued" /\ current'[SessionOf[i]] # i
        BY <3>1
      <4>1. i \in Jobs /\ SessionOf[i] \in Sessions
        BY JobAssumption DEF TypeOK
      <4> QED  BY <3>1, <3>2, <3>3, <4>1 DEF PlaceInv
    <3>7. \A t \in Sessions : lane'[t] \in {"wait", "granted"} => status'[current'[t]] = "queued"
      BY <3>1, <3>2, <3>3 DEF PlaceInv
    <3> QED  BY <3>4, <3>5, <3>6, <3>7 DEF PlaceInv
  <2>5. CASE LaneResumes(s)
    <3> DEFINE j == current[s]
    <3>1. /\ lane[s] = "granted" /\ Begin(j) /\ lane' = [lane EXCEPT ![s] = "exec"]
          /\ UNCHANGED <<pending, current, backoff>>
      BY <2>5 DEF LaneResumes
    <3>2. j \in Jobs /\ SessionOf[j] = s /\ status[j] = "queued" /\ j \notin backoff
      BY <3>1 DEF LaneInv, PlaceInv, Holding
    <3>3. \A k \in Jobs : k # j => status'[k] = status[k]
      BY <3>1 DEF Begin, Mark, TypeOK
    <3>4. \A t \in Sessions : \A k \in DOMAIN pending[t] : pending[t][k] \in Jobs /\ pending[t][k] # j
      <4> SUFFICES ASSUME NEW t \in Sessions, NEW k \in DOMAIN pending[t]
                   PROVE  pending[t][k] \in Jobs /\ pending[t][k] # j
        OBVIOUS
      <4>1. pending[t][k] \in Jobs /\ SessionOf[pending[t][k]] = t
        BY PendingJobs
      <4> QED  BY <3>2, <4>1 DEF PlaceInv
    <3> HIDE DEF j
    <3>5. current'[s] = j /\ \A t \in Sessions : t # s => current'[t] = current[t]
      BY <3>1 DEF j
    <3>6. /\ RunningIsOwned'
          /\ \A i \in backoff' : status'[i] = "queued" /\ current'[SessionOf[i]] # i
          /\ \A t \in Sessions : lane'[t] \in {"wait", "granted"} => status'[current'[t]] = "queued"
      BY <3>1, <3>2, <3>5, PlaceAfterBegin
    <3> QED  BY <3>1, <3>3, <3>4, <3>6 DEF PlaceInv
  <2> QED  BY <1>3, <2>1, <2>2, <2>3, <2>4, <2>5 DEF LaneTurn
<1>4. ASSUME NEW s \in Sessions, TimeoutThread(s)
      PROVE  PlaceInv' /\ RunningIsOwned'
  <2>1. /\ lane[s] = "exec" /\ lane'[s] = "grace" /\ \A t \in Sessions : t # s => lane'[t] = lane[t]
        /\ UNCHANGED <<status, pending, current, backoff>>
    BY <1>4 DEF TimeoutThread, TypeOK
  <2>2. RunningIsOwned'
    BY <2>1, JobAssumption DEF RunningIsOwned, Executing
  <2> QED  BY <2>1, <2>2 DEF PlaceInv
<1>5. ASSUME NEW s \in Sessions, Ends(s)
      PROVE  PlaceInv' /\ RunningIsOwned'
  BY <1>5, EndShape, PlaceAfterEnd
<1>6. ASSUME NEW i \in live, ZombieEnds(i[1], i[2])
      PROVE  PlaceInv' /\ RunningIsOwned'
  BY <1>6, PlaceQuiet DEF ZombieEnds, jobVars, laneVars
<1>7. CASE Start
  <2>1. /\ \A j \in Jobs : status[j] # "none" => status'[j] = status[j]
        /\ \A j \in Jobs : status[j] = "none" => status'[j] # "running"
        /\ UNCHANGED <<pending, lane, current, backoff>>
    BY <1>7 DEF Start, laneVars, Folded, InFlight
  <2>2. RunningIsOwned'
    BY <2>1 DEF RunningIsOwned
  <2>3. \A t \in Sessions : \A k \in DOMAIN pending[t] : pending[t][k] \in Jobs
    BY PendingJobs
  <2>4. \A t \in Sessions : lane[t] \in {"wait", "granted"} => current[t] \in Jobs
    BY DEF LaneInv, Holding
  <2> QED  BY <2>1, <2>2, <2>3, <2>4 DEF PlaceInv, TypeOK
<1>8. CASE Stop
  BY <1>8, PlaceQuiet DEF Stop, jobVars, laneVars
<1>9. CASE StopReturns
  BY <1>9, PlaceQuiet DEF StopReturns, jobVars, laneVars
<1>10. CASE StopCutsDrain
  <2> DEFINE S == {j \in Jobs : \E s \in Sessions : lane[s] \in Executing /\ current[s] = j}
  <2>1. /\ status' = [j \in Jobs |-> IF j \in S THEN "cancelled" ELSE status[j]]
        /\ lane' = [s \in Sessions |-> "idle"] /\ current' = [s \in Sessions |-> NoJob]
        /\ UNCHANGED <<pending, backoff>>
    BY <1>10 DEF StopCutsDrain
  <2>2. \A j \in Jobs : j \in S <=> status[j] = "running"
    BY JobAssumption DEF RunningIsOwned, LaneInv, Holding
  <2> HIDE DEF S
  <2>3. \A t \in Sessions : \A k \in DOMAIN pending[t] : pending[t][k] \in Jobs
    BY PendingJobs
  <2>4. RunningIsOwned'
    BY <2>1, <2>2, JobAssumption DEF RunningIsOwned, Executing
  <2> QED  BY <2>1, <2>2, <2>3, <2>4, SentinelAssumption, JobAssumption DEF PlaceInv, TypeOK
<1>11. CASE Crash
  <2>1. RunningIsOwned'
    BY <1>11, JobAssumption DEF Crash, RunningIsOwned, Executing
  <2> QED  BY <1>11, <2>1 DEF Crash, PlaceInv
<1> QED
  BY <1>1, <1>2, <1>3, <1>4, <1>5, <1>6, <1>7, <1>8, <1>9, <1>10, <1>11 DEF Next

\* The four parts of the invariant every later proof starts from.
LEMMA CoreInvariant == Spec => [](TypeOK /\ LaneInv /\ PlaceInv /\ RunningIsOwned)
<1>1. Init => TypeOK /\ LaneInv /\ PlaceInv /\ RunningIsOwned
  BY InitType, InitLane, InitPlace
<1>2. /\ TypeOK /\ LaneInv /\ PlaceInv /\ RunningIsOwned
      /\ [Next]_vars
      => (TypeOK /\ LaneInv /\ PlaceInv /\ RunningIsOwned)'
  BY TypeStep, LaneStep, PlaceStep
<1> QED
  BY <1>1, <1>2, PTL DEF Spec

\* A job is shown as running exactly while its lane waits for it, whichever
\* way executions end and whatever the drain or a restart cuts short.
THEOREM RunningMeansOwned == Spec => []RunningIsOwned
BY CoreInvariant, PTL

-----------------------------------------------------------------------------
(* What the queue promises: what the log says, how many attempts a job     *)
(* gets, which invocations may outlive their lane, what a dedupe key       *)
(* excludes.  These start from Core and from RecordShape, which says what  *)
(* any step may do to the record of a job.                                 *)

Core == TypeOK /\ LaneInv /\ PlaceInv /\ RunningIsOwned

\* The job starts an attempt; goes back to wait for another; a set of jobs
\* in flight gets its verdict.
Begins(j) ==
  /\ status[j] = "queued" /\ Begin(j)
  /\ lane[SessionOf[j]] \notin Executing
  /\ lane' = [lane EXCEPT ![SessionOf[j]] = "exec"]
  /\ current'[SessionOf[j]] = j
  /\ UNCHANGED recent
FallsBack(j) ==
  /\ status[j] = "running" /\ attempts[j] < MaxAttempts[j]
  /\ Mark(j, "queued")
  /\ UNCHANGED <<attempts, recent>>
Settled(S, verdict) ==
  /\ \A j \in S : status[j] \in InFlight
  /\ status' = [j \in Jobs |-> IF j \in S THEN verdict ELSE status[j]]
  /\ log'    = [j \in Jobs |-> IF j \in S THEN verdict ELSE log[j]]
  /\ UNCHANGED <<attempts, recent>>

RecordStep ==
  \/ UNCHANGED <<status, log, attempts, recent>>
  \/ \E j \in Jobs : SubmitDuplicate(j) \/ Submit(j) \/ Begins(j) \/ FallsBack(j)
  \/ \E S \in SUBSET Jobs, verdict \in Terminal : Settled(S, verdict)
  \/ Start
  \/ Crash

LEMMA MarkSettles ==
  ASSUME TypeOK, NEW j \in Jobs, status[j] \in InFlight,
         NEW verdict \in Terminal, Mark(j, verdict), UNCHANGED <<attempts, recent>>
  PROVE  Settled({j}, verdict)
BY DEF TypeOK, Mark, Settled

\* What any step of the queue may do to the records of its jobs.
LEMMA RecordShape ==
  ASSUME Core, [Next]_vars
  PROVE  RecordStep
<1>1. CASE UNCHANGED vars
  BY <1>1 DEF RecordStep, vars, jobVars
<1>2. ASSUME NEW j \in Jobs, JobStep(j)
      PROVE  RecordStep
  <2>1. CASE SubmitDuplicate(j) \/ Submit(j)
    BY <2>1 DEF RecordStep
  <2>2. CASE RequeueRefused(j)
    <3>1. status[j] \in InFlight
      BY <2>2 DEF RequeueRefused, Core, PlaceInv, InFlight
    <3>2. Mark(j, "interrupted") /\ UNCHANGED <<attempts, recent>>
      BY <2>2 DEF RequeueRefused
    <3>3. Settled({j}, "interrupted")
      BY <3>1, <3>2, MarkSettles DEF Core, Terminal
    <3> QED  BY <3>3 DEF RecordStep, Terminal
  <2>3. CASE Requeue(j)
    BY <2>3 DEF Requeue, RecordStep, jobVars
  <2>4. CASE CancelPending(j)
    <3>1. Mark(j, "cancelled") /\ status[j] \in InFlight /\ UNCHANGED <<attempts, recent>>
      BY <2>4 DEF CancelPending, InFlight
    <3>2. Settled({j}, "cancelled")
      BY <3>1, MarkSettles DEF Core, Terminal
    <3> QED  BY <3>2 DEF RecordStep, Terminal
  <2>5. CASE CancelCooperative(j)
    BY <2>5 DEF CancelCooperative, RecordStep
  <2> QED  BY <1>2, <2>1, <2>2, <2>3, <2>4, <2>5 DEF JobStep
<1>3. ASSUME NEW s \in Sessions, LaneTurn(s)
      PROVE  RecordStep
  <2>1. CASE LaneFlush(s)
    <3> DEFINE S == ToSet(pending[s])
    <3>1. S \subseteq Jobs /\ \A j \in S : status[j] \in InFlight
      BY PendingJobs DEF Core, PlaceInv, ToSet, InFlight
    <3>2. Settled(S, "cancelled")
      BY <2>1, <3>1 DEF LaneFlush, Settled
    <3> QED  BY <3>1, <3>2 DEF RecordStep, Terminal
  <2>2. CASE LaneEnds(s)
    BY <2>2 DEF LaneEnds, RecordStep, jobVars
  <2>3. CASE LaneStarts(s)
    <3> DEFINE j == pending[s][1]
    <3>1. Pop(s) /\ lane[s] = "ready" /\ lane' = [lane EXCEPT ![s] = "exec"] /\ recent' = recent
      BY <2>3 DEF LaneStarts, Pop
    <3>2. /\ j \in Jobs /\ SessionOf[j] = s /\ Head(pending[s]) = j /\ current'[s] = j
          /\ 1 \in 1..Len(pending[s])
      BY <3>1, PopFacts DEF Core
    <3>3. status[j] = "queued"
      BY <3>2 DEF Core, PlaceInv, TypeOK
    <3>4. Begin(j)
      BY <2>3, <3>2 DEF LaneStarts
    <3> HIDE DEF j
    <3>5. Begins(j)
      BY <3>1, <3>2, <3>3, <3>4 DEF Begins, Executing
    <3> QED  BY <3>2, <3>5 DEF RecordStep
  <2>4. CASE LaneWaits(s)
    BY <2>4 DEF LaneWaits, RecordStep, jobVars
  <2>5. CASE LaneResumes(s)
    <3>1. /\ lane[s] = "granted" /\ Begin(current[s]) /\ lane' = [lane EXCEPT ![s] = "exec"]
          /\ UNCHANGED <<current, recent>>
      BY <2>5 DEF LaneResumes
    <3>2. /\ current[s] \in Jobs /\ SessionOf[current[s]] = s /\ status[current[s]] = "queued"
      BY <3>1 DEF Core, LaneInv, PlaceInv, Holding
    <3>3. Begins(current[s])
      BY <3>1, <3>2 DEF Begins, Executing
    <3> QED  BY <3>2, <3>3 DEF RecordStep
  <2> QED  BY <1>3, <2>1, <2>2, <2>3, <2>4, <2>5 DEF LaneTurn
<1>4. ASSUME NEW s \in Sessions, TimeoutThread(s)
      PROVE  RecordStep
  BY <1>4 DEF TimeoutThread, RecordStep
<1>5. ASSUME NEW s \in Sessions, Ends(s)
      PROVE  RecordStep
  <2> DEFINE j == current[s]
  <2>1. PICK st : EndStep(s, st)
    BY <1>5, EndShape
  <2>2. /\ lane[s] \in Executing /\ Mark(j, st) /\ UNCHANGED <<attempts, recent>>
        /\ st \in {"succeeded", "failed", "cancelled", "queued"}
        /\ st = "queued" => attempts[j] < MaxAttempts[j]
    BY <2>1 DEF EndStep
  <2>3. j \in Jobs /\ status[j] = "running"
    BY <2>2 DEF Core, LaneInv, RunningIsOwned, Holding
  <2> HIDE DEF j
  <2>4. CASE st = "queued"
    <3>1. FallsBack(j)
      BY <2>2, <2>3, <2>4 DEF FallsBack
    <3> QED  BY <2>3, <3>1 DEF RecordStep
  <2>5. CASE st # "queued"
    <3>1. st \in Terminal /\ status[j] \in InFlight
      BY <2>2, <2>3, <2>5 DEF Terminal, InFlight
    <3>2. Settled({j}, st)
      BY <2>2, <2>3, <3>1, MarkSettles DEF Core
    <3> QED  BY <2>3, <3>1, <3>2 DEF RecordStep
  <2> QED  BY <2>4, <2>5
<1>6. ASSUME NEW i \in live, ZombieEnds(i[1], i[2])
      PROVE  RecordStep
  BY <1>6 DEF ZombieEnds, RecordStep, jobVars
<1>7. CASE Start
  BY <1>7 DEF RecordStep
<1>8. CASE Stop
  BY <1>8 DEF Stop, RecordStep, jobVars
<1>9. CASE StopReturns
  BY <1>9 DEF StopReturns, RecordStep, jobVars
<1>10. CASE StopCutsDrain
  <2> DEFINE S == {j \in Jobs : \E s \in Sessions : lane[s] \in Executing /\ current[s] = j}
  <2>1. \A j \in S : status[j] \in InFlight
    BY DEF Core, RunningIsOwned, LaneInv, Holding, InFlight
  <2>2. Settled(S, "cancelled")
    BY <1>10, <2>1 DEF StopCutsDrain, Settled
  <2> QED  BY <2>2 DEF RecordStep, Terminal
<1>11. CASE Crash
  BY <1>11 DEF RecordStep
<1> QED
  BY <1>1, <1>2, <1>3, <1>4, <1>5, <1>6, <1>7, <1>8, <1>9, <1>10, <1>11 DEF Next

-----------------------------------------------------------------------------
(* The log, the attempts and the dedupe keys *)

RecordInv == LogAgrees /\ AttemptInv /\ KeyInv

LEMMA InitRecord == Init => RecordInv
BY JobAssumption DEF Init, RecordInv, LogAgrees, AttemptInv, KeyInv, InFlight

LEMMA LogStep ==
  ASSUME Core, LogAgrees, RecordStep
  PROVE  /\ LogAgrees'
         /\ \A j \in Jobs : log[j] \in Terminal => log'[j] = log[j]
<1> USE DEF Core
<1>1. CASE UNCHANGED <<status, log, attempts, recent>>
  BY <1>1 DEF LogAgrees, Folded
<1>2. ASSUME NEW j \in Jobs, SubmitDuplicate(j)
      PROVE  LogAgrees' /\ \A k \in Jobs : log[k] \in Terminal => log'[k] = log[k]
  <2>1. /\ status' = status /\ status[j] = "none" /\ log[j] = "none"
        /\ log' = [log EXCEPT ![j] = "deduped"]
    BY <1>2 DEF SubmitDuplicate, Fresh
  <2> QED  BY <2>1 DEF LogAgrees, Folded, TypeOK, Terminal
<1>3. ASSUME NEW j \in Jobs, Submit(j)
      PROVE  LogAgrees' /\ \A k \in Jobs : log[k] \in Terminal => log'[k] = log[k]
  <2>1. Mark(j, "queued") /\ log[j] = "none"
    BY <1>3 DEF Submit, Fresh
  <2> QED  BY <2>1 DEF LogAgrees, Folded, TypeOK, Terminal, Mark
<1>4. ASSUME NEW j \in Jobs, Begins(j)
      PROVE  LogAgrees' /\ \A k \in Jobs : log[k] \in Terminal => log'[k] = log[k]
  <2>1. Mark(j, "running") /\ status[j] = "queued"
    BY <1>4 DEF Begins, Begin
  <2> QED  BY <2>1 DEF LogAgrees, Folded, TypeOK, Terminal, Mark
<1>5. ASSUME NEW j \in Jobs, FallsBack(j)
      PROVE  LogAgrees' /\ \A k \in Jobs : log[k] \in Terminal => log'[k] = log[k]
  <2>1. Mark(j, "queued") /\ status[j] = "running"
    BY <1>5 DEF FallsBack
  <2> QED  BY <2>1 DEF LogAgrees, Folded, TypeOK, Terminal, Mark
<1>6. ASSUME NEW S \in SUBSET Jobs, NEW verdict \in Terminal, Settled(S, verdict)
      PROVE  LogAgrees' /\ \A k \in Jobs : log[k] \in Terminal => log'[k] = log[k]
  <2>1. \A k \in Jobs : /\ k \in S => status[k] \in InFlight /\ status'[k] = verdict /\ log'[k] = verdict
                        /\ k \notin S => status'[k] = status[k] /\ log'[k] = log[k]
    BY <1>6 DEF Settled
  <2> QED  BY <2>1 DEF LogAgrees, Folded, Terminal, InFlight
<1>7. CASE Start
  BY <1>7 DEF Start, LogAgrees, Folded
<1>8. CASE Crash
  BY <1>8 DEF Crash, LogAgrees
<1> QED
  BY <1>1, <1>2, <1>3, <1>4, <1>5, <1>6, <1>7, <1>8 DEF RecordStep

LEMMA AttemptStep ==
  ASSUME Core, AttemptInv, RecordStep
  PROVE  AttemptInv'
<1> USE DEF Core
<1>1. CASE UNCHANGED <<status, log, attempts, recent>>
  BY <1>1 DEF AttemptInv
<1>2. ASSUME NEW j \in Jobs, SubmitDuplicate(j)
      PROVE  AttemptInv'
  BY <1>2 DEF SubmitDuplicate, AttemptInv
<1>3. ASSUME NEW j \in Jobs, Submit(j)
      PROVE  AttemptInv'
  <2>1. Mark(j, "queued") /\ status[j] = "none" /\ attempts' = attempts
    BY <1>3 DEF Submit, Fresh
  <2>2. attempts[j] = 0 /\ MaxAttempts[j] \in Nat \ {0}
    BY <2>1, JobAssumption DEF AttemptInv
  <2> QED  BY <2>1, <2>2 DEF AttemptInv, TypeOK, Mark
<1>4. ASSUME NEW j \in Jobs, Begins(j)
      PROVE  AttemptInv'
  BY <1>4 DEF Begins, Begin, Mark, AttemptInv, TypeOK
<1>5. ASSUME NEW j \in Jobs, FallsBack(j)
      PROVE  AttemptInv'
  BY <1>5 DEF FallsBack, Mark, AttemptInv, TypeOK
<1>6. ASSUME NEW S \in SUBSET Jobs, NEW verdict \in Terminal, Settled(S, verdict)
      PROVE  AttemptInv'
  BY <1>6 DEF Settled, AttemptInv, Terminal
<1>7. CASE Start
  BY <1>7 DEF Start, AttemptInv, InFlight, Folded
<1>8. CASE Crash
  BY <1>8 DEF Crash, AttemptInv
<1> QED
  BY <1>1, <1>2, <1>3, <1>4, <1>5, <1>6, <1>7, <1>8 DEF RecordStep

LEMMA KeyStep ==
  ASSUME Core, KeyInv, RecordStep
  PROVE  KeyInv'
<1> USE DEF Core
<1>1. ASSUME UNCHANGED recent, \A j \in Jobs : status'[j] \in InFlight => status[j] \in InFlight
      PROVE  KeyInv'
  BY <1>1 DEF KeyInv
<1>2. ASSUME NEW j \in Jobs, Submit(j)
      PROVE  KeyInv'
  <2> SUFFICES ASSUME NEW i \in Jobs, KeyOf[i] # NoKey, status'[i] \in InFlight
               PROVE  recent'[KeyOf[i]] = i
    BY DEF KeyInv
  <2>1. /\ Mark(j, "queued") /\ status[j] = "none" /\ ~Twin(j)
        /\ recent' = IF KeyOf[j] = NoKey THEN recent ELSE [recent EXCEPT ![KeyOf[j]] = j]
    BY <1>2 DEF Submit, Fresh
  <2>2. KeyOf[i] \in Keys /\ KeyOf[j] \in Keys \cup {NoKey}
    BY JobAssumption
  <2>3. CASE i = j
    BY <2>1, <2>2, <2>3 DEF TypeOK
  <2>4. CASE i # j
    <3>1. status[i] \in InFlight /\ recent[KeyOf[i]] = i
      BY <2>1, <2>4 DEF KeyInv, Mark, TypeOK
    <3>2. CASE KeyOf[j] = NoKey
      BY <2>1, <3>1, <3>2
    <3>3. CASE KeyOf[j] # NoKey
      <4>1. KeyOf[i] # KeyOf[j]
        <5> SUFFICES ASSUME KeyOf[i] = KeyOf[j] PROVE FALSE
          OBVIOUS
        <5>1. recent[KeyOf[j]] = i /\ i # NoJob
          BY <3>1, SentinelAssumption
        <5> QED  BY <2>1, <3>1, <3>3, <5>1 DEF Twin
      <4> QED  BY <2>1, <2>2, <3>1, <3>3, <4>1 DEF TypeOK
    <3> QED  BY <3>2, <3>3
  <2> QED  BY <2>3, <2>4
<1>3. CASE UNCHANGED <<status, log, attempts, recent>>
  BY <1>1, <1>3
<1>4. ASSUME NEW j \in Jobs, SubmitDuplicate(j)
      PROVE  KeyInv'
  BY <1>1, <1>4 DEF SubmitDuplicate
<1>5. ASSUME NEW j \in Jobs, Begins(j) \/ FallsBack(j)
      PROVE  KeyInv'
  <2>1. UNCHANGED recent /\ \A i \in Jobs : status'[i] \in InFlight => status[i] \in InFlight
    BY <1>5 DEF Begins, Begin, FallsBack, Mark, TypeOK, InFlight
  <2> QED  BY <1>1, <2>1
<1>6. ASSUME NEW S \in SUBSET Jobs, NEW verdict \in Terminal, Settled(S, verdict)
      PROVE  KeyInv'
  <2>1. UNCHANGED recent /\ \A i \in Jobs : status'[i] \in InFlight => status[i] \in InFlight
    BY <1>6 DEF Settled, Terminal, InFlight
  <2> QED  BY <1>1, <2>1
<1>7. CASE Start
  <2>1. UNCHANGED recent /\ \A i \in Jobs : status'[i] \in InFlight => status[i] \in InFlight
    BY <1>7 DEF Start, InFlight, Folded
  <2> QED  BY <1>1, <2>1
<1>8. CASE Crash
  <2>1. \A i \in Jobs : status'[i] \notin InFlight
    BY <1>8 DEF Crash, InFlight
  <2> QED  BY <2>1 DEF KeyInv
<1> QED
  BY <1>2, <1>3, <1>4, <1>5, <1>6, <1>7, <1>8 DEF RecordStep

LEMMA RecordInvariant == Spec => [](Core /\ RecordInv)
<1>1. Init => RecordInv
  BY InitRecord
<1>2. Core /\ RecordInv /\ [Next]_vars => RecordInv'
  BY RecordShape, LogStep, AttemptStep, KeyStep DEF RecordInv
<1> QED
  BY <1>1, <1>2, CoreInvariant, PTL DEF Spec, Core

\* The queue never says of a job anything the log does not say, except that a
\* restart calls interrupted what the log left open.
THEOREM LogAgreesAlways == Spec => []LogAgrees
BY RecordInvariant, PTL DEF RecordInv

\* A verdict in the log is never overwritten: not by the result of a thread
\* its lane gave up on, a cancel, a retry timer, a drain or a new process.
THEOREM VerdictsAreFinal == Spec => VerdictIsFinal
<1>1. Core /\ LogAgrees /\ [Next]_vars =>
        [\A j \in Jobs : log[j] \in Terminal => log'[j] = log[j]]_vars
  BY RecordShape, LogStep
<1> QED
  BY <1>1, RecordInvariant, PTL DEF Spec, VerdictIsFinal, RecordInv

\* Two jobs with one dedupe key are never in flight together.
THEOREM DedupeIsExclusive == Spec => []DedupeExclusive
<1>1. KeyInv => DedupeExclusive
  BY DEF KeyInv, DedupeExclusive
<1> QED
  BY <1>1, RecordInvariant, PTL DEF RecordInv

-----------------------------------------------------------------------------
(* The ledger *)

LEMMA LedgerStep ==
  ASSUME Core, RecordInv, RecordStep
  PROVE  [Ledger!Next]_(Ledger!ledgerVars)
<1> USE DEF Core
<1> DEFINE rec == [j \in Jobs |-> IF log[j] = "deduped" THEN "none" ELSE log[j]]
<1>1. ASSUME log' = log, attempts' = attempts
      PROVE  UNCHANGED Ledger!ledgerVars
  BY <1>1 DEF Ledger!ledgerVars
<1>2. ASSUME NEW j \in Jobs, SubmitDuplicate(j)
      PROVE  UNCHANGED Ledger!ledgerVars
  <2>1. log[j] = "none" /\ log' = [log EXCEPT ![j] = "deduped"] /\ attempts' = attempts
    BY <1>2 DEF SubmitDuplicate, Fresh
  <2> QED  BY <2>1 DEF Ledger!ledgerVars, TypeOK
<1>3. ASSUME NEW j \in Jobs, Submit(j)
      PROVE  Ledger!Accept(j)
  <2>1. log[j] = "none" /\ log' = [log EXCEPT ![j] = "queued"] /\ attempts' = attempts
    BY <1>3 DEF Submit, Fresh, Mark
  <2> QED  BY <2>1 DEF Ledger!Accept, TypeOK
<1>4. ASSUME NEW j \in Jobs, Begins(j)
      PROVE  Ledger!Execute(j)
  <2>1. /\ status[j] = "queued" /\ log' = [log EXCEPT ![j] = "running"]
        /\ attempts' = [attempts EXCEPT ![j] = @ + 1]
    BY <1>4 DEF Begins, Begin, Mark
  <2>2. log[j] = "queued"
    BY <2>1 DEF RecordInv, LogAgrees
  <2>3. attempts[j] < MaxAttempts[j]
    BY <2>1 DEF RecordInv, AttemptInv
  <2> QED  BY <2>1, <2>2, <2>3 DEF Ledger!Execute, TypeOK
<1>5. ASSUME NEW j \in Jobs, FallsBack(j)
      PROVE  Ledger!Retry(j)
  <2>1. /\ status[j] = "running" /\ log' = [log EXCEPT ![j] = "queued"]
        /\ attempts' = attempts /\ attempts[j] < MaxAttempts[j]
    BY <1>5 DEF FallsBack, Mark
  <2>2. log[j] = "running"
    BY <2>1 DEF RecordInv, LogAgrees
  <2> QED  BY <2>1, <2>2 DEF Ledger!Retry, TypeOK
<1>6. ASSUME NEW S \in SUBSET Jobs, NEW verdict \in Terminal, Settled(S, verdict), S # {}
      PROVE  Ledger!Settle(S, verdict)
  <2>1. /\ \A j \in S : status[j] \in InFlight
        /\ log' = [j \in Jobs |-> IF j \in S THEN verdict ELSE log[j]]
        /\ attempts' = attempts
    BY <1>6 DEF Settled
  <2>2. \A j \in S : log[j] \in InFlight
    BY <2>1 DEF RecordInv, LogAgrees, InFlight
  <2>3. verdict # "deduped"
    BY DEF Terminal
  <2> QED  BY <1>6, <2>1, <2>2, <2>3 DEF Ledger!Settle, Ledger!InFlight, InFlight
<1>7. ASSUME NEW S \in SUBSET Jobs, NEW verdict \in Terminal, Settled(S, verdict), S = {}
      PROVE  UNCHANGED Ledger!ledgerVars
  BY <1>7 DEF Settled, Ledger!ledgerVars, TypeOK
<1>8. CASE Start
  BY <1>1, <1>8 DEF Start
<1>9. CASE Crash
  <2>1. Ledger!Forget
    BY <1>9 DEF Crash, Ledger!Forget
  <2> QED  BY <2>1 DEF Ledger!Next
<1>10. CASE UNCHANGED <<status, log, attempts, recent>>
  BY <1>1, <1>10
<1> QED
  BY <1>2, <1>3, <1>4, <1>5, <1>6, <1>7, <1>8, <1>9, <1>10
  DEF RecordStep, Ledger!Next, Terminal, Ledger!Verdicts

\* The queue's durable log, with its lanes, slots, timers, threads, drains and
\* restarts, implements the ledger: a job is executed at most as often as its
\* submitter allowed and gets at most one verdict.
THEOREM LogImplementsLedger == Spec => ImplementsLedger
<1>1. Init => Ledger!Init
  BY DEF Init, Ledger!Init
<1>2. Core /\ RecordInv /\ [Next]_vars => [Ledger!Next]_(Ledger!ledgerVars)
  BY RecordShape, LedgerStep
<1> QED
  BY <1>1, <1>2, RecordInvariant, PTL DEF Spec, ImplementsLedger, Ledger!Spec

-----------------------------------------------------------------------------
(* Invocations that outlive their lane *)

ThreadInv == GraceInv /\ ZombieToldToStop

\* A step that starts no invocation, takes no flag back and leaves what it
\* disowns told to stop.
LEMMA ThreadsQuiet ==
  ASSUME TypeOK, ThreadInv, live' \subseteq live,
         \A j \in Jobs : cancelled[j] => cancelled'[j],
         \A s \in Sessions : lane'[s] = "grace" =>
           current'[s] \in Jobs /\
           (cancelled'[current'[s]] \/ (lane[s] = "grace" /\ current'[s] = current[s])),
         \A i \in live' : status[i[1]] = "cancelled" => status'[i[1]] = "cancelled",
         \A i \in live' : Owned(i[1], i[2]) =>
           Owned(i[1], i[2])' \/ cancelled'[i[1]] \/ status'[i[1]] = "cancelled"
  PROVE  ThreadInv'
<1>1. GraceInv'
  BY DEF ThreadInv, GraceInv
<1>2. ASSUME NEW i \in live'
      PROVE  Owned(i[1], i[2])' \/ cancelled'[i[1]] \/ status'[i[1]] = "cancelled"
  <2>1. i \in live /\ i[1] \in Jobs
    BY DEF TypeOK
  <2> QED  BY <2>1 DEF ThreadInv, ZombieToldToStop
<1> QED
  BY <1>1, <1>2 DEF ThreadInv, ZombieToldToStop

\* Starting an attempt disowns nothing: the lane waited for no invocation.
LEMMA ThreadsBegin ==
  ASSUME Core, ThreadInv, NEW j \in Jobs, Begins(j), cancelled' = cancelled,
         \A t \in Sessions : t # SessionOf[j] => current'[t] = current[t]
  PROVE  ThreadInv'
<1> USE DEF Core
<1> DEFINE s == SessionOf[j]
<1>0. s \in Sessions
  BY JobAssumption
<1>1. /\ status[j] = "queued" /\ lane[s] \notin Executing
      /\ lane'[s] = "exec" /\ current'[s] = j
      /\ \A t \in Sessions : t # s => lane'[t] = lane[t] /\ current'[t] = current[t]
  BY <1>0 DEF Begins, TypeOK
<1>2. /\ live' = live \cup {<<j, attempts[j] + 1>>}
      /\ attempts'[j] = attempts[j] + 1
      /\ \A k \in Jobs : k # j => attempts'[k] = attempts[k] /\ status'[k] = status[k]
  BY DEF Begins, Begin, Mark, TypeOK
<1>3. GraceInv'
  BY <1>0, <1>1 DEF ThreadInv, GraceInv
<1>4. ASSUME NEW i \in live'
      PROVE  Owned(i[1], i[2])' \/ cancelled'[i[1]] \/ status'[i[1]] = "cancelled"
  <2>1. CASE i = <<j, attempts[j] + 1>>
    BY <1>1, <1>2, <2>1 DEF Owned, Executing
  <2>2. CASE i \in live
    <3>1. /\ i[1] \in Jobs /\ SessionOf[i[1]] \in Sessions
          /\ Owned(i[1], i[2]) \/ cancelled[i[1]] \/ status[i[1]] = "cancelled"
      BY <2>2, JobAssumption DEF TypeOK, ThreadInv, ZombieToldToStop
    <3>2. CASE i[1] = j
      <4>1. ~Owned(i[1], i[2])
        BY <1>1, <3>2 DEF Owned
      <4> QED  BY <1>1, <3>1, <3>2, <4>1
    <3>3. CASE i[1] # j /\ SessionOf[i[1]] = s
      <4>1. ~Owned(i[1], i[2])
        BY <1>1, <3>3 DEF Owned
      <4> QED  BY <1>2, <3>1, <3>3, <4>1
    <3>4. CASE i[1] # j /\ SessionOf[i[1]] # s
      <4>1. Owned(i[1], i[2]) => Owned(i[1], i[2])'
        BY <1>1, <1>2, <3>1, <3>4 DEF Owned
      <4> QED  BY <1>2, <3>1, <3>4, <4>1
    <3> QED  BY <3>2, <3>3, <3>4
  <2> QED  BY <1>2, <2>1, <2>2
<1> QED
  BY <1>3, <1>4 DEF ThreadInv, ZombieToldToStop

\* A lane gives up its job: what goes on has been flagged.
LEMMA ThreadsEnd ==
  ASSUME Core, ThreadInv, NEW s \in Sessions, NEW st, EndStep(s, st)
  PROVE  ThreadInv'
<1> USE DEF Core
<1> DEFINE j == current[s]
<1>1. /\ lane[s] \in Executing /\ j \in Jobs /\ SessionOf[j] = s /\ status[j] = "running"
      /\ UNCHANGED <<attempts, cancelled>>
      /\ \A k \in Jobs : k # j => status'[k] = status[k]
  BY DEF EndStep, LaneInv, RunningIsOwned, Holding, Mark, TypeOK
<1>2. PICK step \in {"ready", "idle"} : Release(s, step)
  BY DEF EndStep
<1>3. /\ \A t \in Sessions : lane[t] \in Executing /\ t # s => lane'[t] = lane[t]
      /\ \A t \in Sessions : lane'[t] \in Executing => t # s /\ lane'[t] = lane[t]
  <2>1. CASE waiters = <<>>
    <3>1. lane' = [lane EXCEPT ![s] = step]
      BY <1>2, <2>1 DEF Release
    <3> QED  BY <1>2, <3>1 DEF Executing, TypeOK
  <2>2. CASE waiters # <<>>
    <3>1. /\ lane' = [lane EXCEPT ![s] = step, ![Head(waiters)] = "granted"]
          /\ lane[Head(waiters)] = "wait" /\ Head(waiters) \in Sessions
      BY <1>2, <2>2 DEF Release, LaneInv, TypeOK
    <3> HIDE DEF j
    <3> QED  BY <1>2, <3>1 DEF Executing, TypeOK
  <2> QED  BY <2>1, <2>2
<1>4. \A t \in Sessions : t # s => current'[t] = current[t]
  BY DEF EndStep, TypeOK
<1>5. /\ live' \subseteq live
      /\ \A i \in live' : i = <<j, attempts[j]>> => lane[s] = "grace"
  BY DEF EndStep
<1> HIDE DEF j
<1>6. \A t \in Sessions : lane'[t] = "grace" => lane[t] = "grace" /\ current'[t] = current[t] /\ current'[t] \in Jobs
  BY <1>3, <1>4 DEF Executing, LaneInv, Holding
<1>7. ASSUME NEW i \in live', Owned(i[1], i[2])
      PROVE  Owned(i[1], i[2])' \/ cancelled'[i[1]]
  <2>1. /\ i \in live /\ i[1] \in Jobs /\ SessionOf[i[1]] \in Sessions
        /\ i = <<i[1], i[2]>>
    BY <1>5, JobAssumption DEF TypeOK
  <2>2. CASE SessionOf[i[1]] = s
    <3>1. i[1] = j /\ i[2] = attempts[j]
      BY <1>7, <2>2 DEF Owned, j
    <3>2. lane[s] = "grace"
      BY <1>5, <2>1, <3>1
    <3> QED  BY <1>1, <3>1, <3>2 DEF ThreadInv, GraceInv, j
  <2>3. CASE SessionOf[i[1]] # s
    BY <1>1, <1>3, <1>4, <1>7, <2>1, <2>3 DEF Owned
  <2> QED  BY <2>2, <2>3
<1>8. \A i \in live' : status[i[1]] = "cancelled" => status'[i[1]] = "cancelled"
  BY <1>1, <1>5 DEF TypeOK
<1> QED
  BY <1>1, <1>5, <1>6, <1>7, <1>8, ThreadsQuiet

LEMMA ThreadStep ==
  ASSUME Core, ThreadInv, [Next]_vars
  PROVE  ThreadInv'
<1> USE DEF Core
<1>0. \A s \in Sessions : lane[s] = "grace" => current[s] \in Jobs
  BY DEF LaneInv, Holding, Executing
\* What most steps do: nothing at all to lanes that execute, nor to flags.
<1>q. ASSUME live' \subseteq live, cancelled' = cancelled,
             \A i \in live : status[i[1]] = "cancelled" => status'[i[1]] = "cancelled",
             \A s \in Sessions : lane[s] \in Executing =>
               lane'[s] = lane[s] /\ current'[s] = current[s],
             \A s \in Sessions : lane'[s] \in Executing => lane[s] \in Executing,
             attempts' = attempts
      PROVE  ThreadInv'
  <2>1. \A i \in live : i[1] \in Jobs /\ SessionOf[i[1]] \in Sessions
    BY JobAssumption DEF TypeOK
  <2>2. \A i \in live : Owned(i[1], i[2]) => Owned(i[1], i[2])'
    BY <1>q, <2>1 DEF Owned
  <2>3. \A s \in Sessions : lane'[s] = "grace" =>
          lane[s] = "grace" /\ current'[s] = current[s]
    BY <1>q DEF Executing
  <2> QED  BY <1>0, <1>q, <2>2, <2>3, ThreadsQuiet
<1>1. CASE UNCHANGED vars
  BY <1>1, <1>q DEF vars, jobVars, laneVars
<1>2. ASSUME NEW j \in Jobs, JobStep(j)
      PROVE  ThreadInv'
  <2>1. CASE SubmitDuplicate(j)
    BY <2>1, <1>q DEF SubmitDuplicate, laneVars
  <2>2. ASSUME Kick(j)
        PROVE  /\ \A s \in Sessions : lane[s] \in Executing => lane'[s] = lane[s]
               /\ \A s \in Sessions : lane'[s] \in Executing => lane[s] \in Executing
    <3>1. \A s \in Sessions : lane'[s] = lane[s] \/ (lane[s] = "idle" /\ lane'[s] = "ready")
      BY <2>2, JobAssumption DEF Kick, TypeOK
    <3> QED  BY <3>1 DEF Executing
  <2>3. CASE Submit(j)
    <3>1. /\ Kick(j) /\ status[j] = "none" /\ Mark(j, "queued")
          /\ UNCHANGED <<live, cancelled, current, attempts>>
      BY <2>3 DEF Submit, Fresh
    <3>2. \A i \in live : status[i[1]] = "cancelled" => status'[i[1]] = "cancelled"
      BY <3>1 DEF Mark, TypeOK
    <3> QED  BY <1>q, <2>2, <3>1, <3>2
  <2>4. CASE RequeueRefused(j)
    <3>1. /\ status[j] = "queued" /\ Mark(j, "interrupted")
          /\ UNCHANGED <<live, cancelled, lane, current, attempts>>
      BY <2>4 DEF RequeueRefused, laneVars, PlaceInv
    <3>2. \A i \in live : status[i[1]] = "cancelled" => status'[i[1]] = "cancelled"
      BY <3>1 DEF Mark, TypeOK
    <3> QED  BY <1>q, <3>1, <3>2
  <2>5. CASE Requeue(j)
    <3>1. Kick(j) /\ UNCHANGED <<status, live, cancelled, current, attempts>>
      BY <2>5 DEF Requeue, jobVars
    <3> QED  BY <1>q, <2>2, <3>1
  <2>6. CASE CancelPending(j)
    <3>1. Mark(j, "cancelled") /\ UNCHANGED <<live, cancelled, lane, current, attempts>>
      BY <2>6 DEF CancelPending
    <3>2. \A i \in live : status[i[1]] = "cancelled" => status'[i[1]] = "cancelled"
      BY <3>1 DEF Mark, TypeOK
    <3> QED  BY <1>q, <3>1, <3>2
  <2>7. CASE CancelCooperative(j)
    <3>1. /\ UNCHANGED <<status, live, lane, current, attempts>>
          /\ \A k \in Jobs : cancelled[k] => cancelled'[k]
      BY <2>7 DEF CancelCooperative, laneVars, TypeOK
    <3>2. \A i \in live : Owned(i[1], i[2]) => Owned(i[1], i[2])'
      BY <3>1 DEF Owned
    <3> QED  BY <1>0, <3>1, <3>2, ThreadsQuiet
  <2> QED  BY <1>2, <2>1, <2>3, <2>4, <2>5, <2>6, <2>7 DEF JobStep
<1>3. ASSUME NEW s \in Sessions, LaneTurn(s)
      PROVE  ThreadInv'
  <2>1. CASE LaneFlush(s)
    <3>1. /\ lane[s] = "ready" /\ lane' = [lane EXCEPT ![s] = "idle"]
          /\ UNCHANGED <<live, cancelled, current, attempts>>
      BY <2>1 DEF LaneFlush
    <3>2. \A i \in live : status[i[1]] = "cancelled" => status'[i[1]] = "cancelled"
      BY <2>1 DEF LaneFlush, TypeOK
    <3> QED  BY <1>q, <3>1, <3>2 DEF Executing, TypeOK
  <2>2. CASE LaneEnds(s)
    BY <2>2, <1>q DEF LaneEnds, jobVars, Executing, TypeOK
  <2>3. CASE LaneStarts(s)
    <3> DEFINE j == pending[s][1]
    <3>1. /\ Pop(s) /\ lane[s] = "ready" /\ lane' = [lane EXCEPT ![s] = "exec"]
          /\ recent' = recent /\ cancelled' = cancelled
      BY <2>3 DEF LaneStarts, Pop
    <3>2. /\ j \in Jobs /\ SessionOf[j] = s /\ Head(pending[s]) = j /\ current'[s] = j
          /\ \A t \in Sessions : t # s => current'[t] = current[t]
          /\ 1 \in 1..Len(pending[s])
      BY <3>1, PopFacts
    <3>3. status[j] = "queued"
      BY <3>2 DEF PlaceInv, TypeOK
    <3>4. Begin(j)
      BY <2>3, <3>2 DEF LaneStarts
    <3> HIDE DEF j
    <3>5. Begins(j)
      BY <3>1, <3>2, <3>3, <3>4 DEF Begins, Executing
    <3> QED  BY <3>1, <3>2, <3>5, ThreadsBegin
  <2>4. CASE LaneWaits(s)
    <3>1. /\ lane[s] = "ready" /\ lane' = [lane EXCEPT ![s] = "wait"]
          /\ current' = [current EXCEPT ![s] = Head(pending[s])]
          /\ UNCHANGED <<status, live, cancelled, attempts>>
      BY <2>4 DEF LaneWaits, Pop, jobVars
    <3> QED  BY <1>q, <3>1 DEF Executing, TypeOK
  <2>5. CASE LaneResumes(s)
    <3>1. /\ lane[s] = "granted" /\ Begin(current[s]) /\ lane' = [lane EXCEPT ![s] = "exec"]
          /\ UNCHANGED <<current, recent, cancelled>>
      BY <2>5 DEF LaneResumes
    <3>2. /\ current[s] \in Jobs /\ SessionOf[current[s]] = s /\ status[current[s]] = "queued"
      BY <3>1 DEF LaneInv, PlaceInv, Holding
    <3>3. Begins(current[s])
      BY <3>1, <3>2 DEF Begins, Executing
    <3> QED  BY <3>1, <3>2, <3>3, ThreadsBegin
  <2> QED  BY <1>3, <2>1, <2>2, <2>3, <2>4, <2>5 DEF LaneTurn
<1>4. ASSUME NEW s \in Sessions, TimeoutThread(s)
      PROVE  ThreadInv'
  <2>1. /\ lane[s] = "exec" /\ lane' = [lane EXCEPT ![s] = "grace"]
        /\ cancelled' = [cancelled EXCEPT ![current[s]] = TRUE]
        /\ UNCHANGED <<status, attempts, current, live>>
    BY <1>4 DEF TimeoutThread
  <2>2. current[s] \in Jobs
    BY <2>1 DEF LaneInv, Holding, Executing
  <2>3. /\ \A k \in Jobs : cancelled[k] => cancelled'[k]
        /\ cancelled'[current[s]]
    BY <2>1, <2>2 DEF TypeOK
  <2>4. \A i \in live : i[1] \in Jobs /\ SessionOf[i[1]] \in Sessions
    BY JobAssumption DEF TypeOK
  <2>5. \A i \in live : Owned(i[1], i[2]) => Owned(i[1], i[2])'
    BY <2>1, <2>4 DEF Owned, Executing, TypeOK
  <2>6. \A t \in Sessions : lane'[t] = "grace" =>
          current'[t] \in Jobs /\
          (cancelled'[current'[t]] \/ (lane[t] = "grace" /\ current'[t] = current[t]))
    <3> SUFFICES ASSUME NEW t \in Sessions, lane'[t] = "grace"
                 PROVE  current'[t] \in Jobs /\
                        (cancelled'[current'[t]] \/ (lane[t] = "grace" /\ current'[t] = current[t]))
      OBVIOUS
    <3>1. CASE t = s
      BY <2>1, <2>2, <2>3, <3>1
    <3>2. CASE t # s
      BY <1>0, <2>1, <3>2 DEF TypeOK
    <3> QED  BY <3>1, <3>2
  <2> QED  BY <2>1, <2>3, <2>5, <2>6, ThreadsQuiet
<1>5. ASSUME NEW s \in Sessions, Ends(s)
      PROVE  ThreadInv'
  BY <1>5, EndShape, ThreadsEnd
<1>6. ASSUME NEW i \in live, ZombieEnds(i[1], i[2])
      PROVE  ThreadInv'
  BY <1>6, <1>q DEF ZombieEnds, jobVars, laneVars
<1>7. CASE Start
  <2>1. UNCHANGED <<live, cancelled, lane, current, attempts>>
    BY <1>7 DEF Start, laneVars
  <2>2. \A i \in live : i[1] \in Jobs
    BY DEF TypeOK
  <2>3. \A i \in live : status[i[1]] = "cancelled" => status'[i[1]] = "cancelled"
    BY <1>7, <2>2 DEF Start
  <2> QED  BY <1>q, <2>1, <2>3
<1>8. CASE Stop
  BY <1>8, <1>q DEF Stop, jobVars, laneVars
<1>9. CASE StopReturns
  BY <1>9, <1>q DEF StopReturns, jobVars, laneVars
<1>10. CASE StopCutsDrain
  <2> DEFINE S == {j \in Jobs : \E s \in Sessions : lane[s] \in Executing /\ current[s] = j}
  <2>1. /\ status' = [j \in Jobs |-> IF j \in S THEN "cancelled" ELSE status[j]]
        /\ live' \subseteq live /\ cancelled' = cancelled
        /\ lane' = [s \in Sessions |-> "idle"]
    BY <1>10 DEF StopCutsDrain
  <2>2. \A i \in live : i[1] \in Jobs /\ SessionOf[i[1]] \in Sessions
    BY JobAssumption DEF TypeOK
  <2>3. \A i \in live : Owned(i[1], i[2]) => i[1] \in S
    BY <2>2 DEF Owned
  <2> HIDE DEF S
  <2>4. \A i \in live : Owned(i[1], i[2]) \/ status[i[1]] = "cancelled" => status'[i[1]] = "cancelled"
    BY <2>1, <2>2, <2>3
  <2> QED  BY <2>1, <2>4, ThreadsQuiet
<1>11. CASE Crash
  <2>1. live' = {} /\ \A s \in Sessions : lane'[s] = "idle"
    BY <1>11 DEF Crash
  <2> QED  BY <2>1 DEF ThreadInv, GraceInv, ZombieToldToStop
<1> QED
  BY <1>1, <1>2, <1>3, <1>4, <1>5, <1>6, <1>7, <1>8, <1>9, <1>10, <1>11 DEF Next

\* Cancel comes before abandon: a handler that outlives its lane has been told
\* to stop, whether it lost its lane to a time-out or to a drain cut short.
THEOREM ZombiesAreTold == Spec => []ZombieToldToStop
<1>1. Init => ThreadInv
  BY DEF Init, ThreadInv, GraceInv, ZombieToldToStop
<1>2. Core /\ ThreadInv /\ [Next]_vars => ThreadInv'
  BY ThreadStep
<1>3. Spec => []ThreadInv
  BY <1>1, <1>2, CoreInvariant, PTL DEF Spec, Core
<1> QED
  BY <1>3, PTL DEF ThreadInv

-----------------------------------------------------------------------------
(* Slots *)

\* No lane moves into or out of the lanes that hold a slot or wait for one.
LEMMA SlotsQuiet ==
  ASSUME SlotInv, UNCHANGED <<free, waiters>>,
         \A s \in Sessions :
           lane'[s] = lane[s] \/ (lane[s] \in {"idle", "ready"} /\ lane'[s] \in {"idle", "ready"})
                              \/ (lane[s] \in {"granted", "exec", "grace"}
                                  /\ lane'[s] \in {"granted", "exec", "grace"})
  PROVE  SlotInv'
<1>1. SlotHolders' = SlotHolders
  BY DEF SlotHolders, Executing
<1>2. {s \in Sessions : lane'[s] = "wait"} = {s \in Sessions : lane[s] = "wait"}
  OBVIOUS
<1> QED
  BY <1>1, <1>2 DEF SlotInv, SlotsConserved

\* All lanes are idle and the semaphore is as new.
LEMMA SlotsFresh ==
  ASSUME \A s \in Sessions : lane'[s] = "idle", free' = Workers, waiters' = <<>>
  PROVE  SlotInv'
<1>1. SlotHolders' = {}
  BY DEF SlotHolders, Executing
<1>2. IsFiniteSet({}) /\ Cardinality({}) = 0
  BY FS_EmptySet
<1>3. ToSet(<<>>) = {}
  BY DEF ToSet
<1>4. {s \in Sessions : lane'[s] = "wait"} = {}
  OBVIOUS
<1> QED
  BY <1>1, <1>2, <1>3, <1>4, QueueAssumption DEF SlotInv, SlotsConserved

\* A slot that comes back is free or belongs to the first waiter.
LEMMA SlotsAfterRelease ==
  ASSUME TypeOK, LaneInv, SlotInv, NEW s \in Sessions, lane[s] \in Executing,
         NEW step \in {"ready", "idle"}, Release(s, step)
  PROVE  SlotInv'
<1>1. s \in SlotHolders /\ IsFiniteSet(SlotHolders) /\ free + Cardinality(SlotHolders) = Workers
  BY DEF SlotHolders, SlotInv, SlotsConserved
<1>2. /\ IsFiniteSet(SlotHolders \ {s})
      /\ Cardinality(SlotHolders \ {s}) = Cardinality(SlotHolders) - 1
  BY <1>1, FS_RemoveElement
<1>3. Cardinality(SlotHolders) \in Nat /\ free \in Nat
  BY <1>1, FS_CardinalityType DEF TypeOK
<1>4. CASE waiters = <<>>
  <2>1. free' = free + 1 /\ lane' = [lane EXCEPT ![s] = step] /\ waiters' = waiters
    BY <1>4 DEF Release
  <2>2. SlotHolders' = SlotHolders \ {s}
    BY <2>1 DEF SlotHolders, Executing, TypeOK
  <2>3. {t \in Sessions : lane'[t] = "wait"} = {t \in Sessions : lane[t] = "wait"}
    BY <2>1 DEF Executing, TypeOK
  <2>4. free' + Cardinality(SlotHolders') = Workers
    BY <1>1, <1>2, <1>3, <2>1, <2>2
  <2>5. ToSet(waiters') = {t \in Sessions : lane'[t] = "wait"}
    BY <2>1, <2>3 DEF SlotInv, SlotsConserved
  <2> QED  BY <1>2, <1>4, <2>1, <2>2, <2>4, <2>5 DEF SlotInv, SlotsConserved
<1>5. CASE waiters # <<>>
  <2> DEFINE h == waiters[1]
  <2>1. /\ free' = free /\ waiters' = Tail(waiters) /\ h \in Sessions /\ lane[h] = "wait"
        /\ lane' = [lane EXCEPT ![s] = step, ![h] = "granted"]
    BY <1>5 DEF Release, TypeOK, LaneInv
  <2>2. /\ Len(waiters') = Len(waiters) - 1 /\ Len(waiters) \in Nat /\ Len(waiters) > 0
        /\ \A k \in 1..Len(waiters') : waiters'[k] = waiters[k + 1]
        /\ DOMAIN waiters = 1..Len(waiters) /\ DOMAIN waiters' = 1..Len(waiters')
    BY <1>5, <2>1 DEF TypeOK
  <2> HIDE DEF h
  <2>3. h # s /\ h \notin SlotHolders
    BY <2>1 DEF SlotHolders, Executing
  <2>4. /\ IsFiniteSet((SlotHolders \ {s}) \cup {h})
        /\ Cardinality((SlotHolders \ {s}) \cup {h}) = Cardinality(SlotHolders \ {s}) + 1
    BY <1>2, <2>3, FS_AddElement
  <2>5. /\ lane'[s] = step /\ lane'[h] = "granted"
        /\ \A t \in Sessions : t # s /\ t # h => lane'[t] = lane[t]
    BY <2>1, <2>3 DEF TypeOK
  <2>6. SlotHolders' = (SlotHolders \ {s}) \cup {h}
    BY <2>1, <2>5 DEF SlotHolders, Executing
  <2>7. free = 0 /\ ToSet(waiters) = {t \in Sessions : lane[t] = "wait"}
    BY <1>5 DEF SlotInv, SlotsConserved
  <2>8. {t \in Sessions : lane'[t] = "wait"} = ToSet(waiters) \ {h}
    BY <2>1, <2>5, <2>7 DEF Executing
  <2>9. ToSet(waiters') = ToSet(waiters) \ {h}
    <3>1. ASSUME NEW t \in ToSet(waiters')
          PROVE  t \in ToSet(waiters) \ {h}
      <4>1. PICK k \in 1..Len(waiters') : t = waiters'[k]
        BY <2>2 DEF ToSet
      <4>2. k + 1 \in 1..Len(waiters) /\ 1 \in 1..Len(waiters) /\ k + 1 # 1 /\ t = waiters[k + 1]
        BY <2>2, <4>1
      <4>3. waiters[k + 1] # waiters[1]
        BY <2>2, <4>2 DEF LaneInv
      <4> QED  BY <2>2, <4>2, <4>3 DEF ToSet, h
    <3>2. ASSUME NEW t \in ToSet(waiters), t # h
          PROVE  t \in ToSet(waiters')
      <4>1. PICK k \in 1..Len(waiters) : t = waiters[k]
        BY <2>2 DEF ToSet
      <4>2. k # 1
        BY <3>2, <4>1 DEF h
      <4>3. k - 1 \in 1..Len(waiters') /\ (k - 1) + 1 = k
        BY <2>2, <4>1, <4>2
      <4>4. waiters'[k - 1] = t
        BY <2>2, <4>1, <4>3
      <4> QED  BY <2>2, <4>3, <4>4 DEF ToSet
    <3> QED  BY <3>1, <3>2
  <2>10. free' + Cardinality(SlotHolders') = Workers
    BY <1>1, <1>2, <1>3, <2>1, <2>4, <2>6
  <2> QED  BY <2>1, <2>4, <2>6, <2>7, <2>8, <2>9, <2>10 DEF SlotInv, SlotsConserved
<1> QED
  BY <1>4, <1>5

LEMMA SlotStep ==
  ASSUME TypeOK, LaneInv, SlotInv, [Next]_vars
  PROVE  SlotInv'
<1>1. CASE UNCHANGED vars
  BY <1>1, SlotsQuiet DEF vars, laneVars, slotVars
<1>2. ASSUME NEW j \in Jobs, JobStep(j)
      PROVE  SlotInv'
  <2>1. CASE Submit(j) \/ Requeue(j)
    <3>1. Kick(j) /\ UNCHANGED slotVars
      BY <2>1 DEF Submit, Requeue
    <3>2. \A s \in Sessions : lane'[s] = lane[s] \/ (lane[s] = "idle" /\ lane'[s] = "ready")
      BY <3>1, JobAssumption DEF Kick, TypeOK
    <3> QED  BY <3>1, <3>2, SlotsQuiet DEF slotVars
  <2>2. CASE SubmitDuplicate(j) \/ RequeueRefused(j) \/ CancelPending(j) \/ CancelCooperative(j)
    <3>1. UNCHANGED <<lane, slotVars>>
      BY <2>2 DEF SubmitDuplicate, RequeueRefused, CancelPending, CancelCooperative, laneVars
    <3> QED  BY <3>1, SlotsQuiet DEF slotVars
  <2> QED  BY <1>2, <2>1, <2>2 DEF JobStep
<1>3. ASSUME NEW s \in Sessions, LaneTurn(s)
      PROVE  SlotInv'
  <2>1. CASE LaneFlush(s) \/ LaneEnds(s)
    <3>1. lane[s] = "ready" /\ lane' = [lane EXCEPT ![s] = "idle"] /\ UNCHANGED slotVars
      BY <2>1 DEF LaneFlush, LaneEnds
    <3> QED  BY <3>1, SlotsQuiet DEF slotVars, TypeOK
  <2>2. CASE LaneStarts(s)
    <3>1. /\ lane[s] = "ready" /\ lane' = [lane EXCEPT ![s] = "exec"]
          /\ free > 0 /\ free' = free - 1 /\ waiters = <<>> /\ waiters' = waiters
      BY <2>2 DEF LaneStarts, Pop
    <3>2. s \notin SlotHolders /\ IsFiniteSet(SlotHolders) /\ free + Cardinality(SlotHolders) = Workers
      BY <3>1 DEF SlotHolders, Executing, SlotInv, SlotsConserved
    <3>3. SlotHolders' = SlotHolders \cup {s}
      BY <3>1 DEF SlotHolders, Executing, TypeOK
    <3>4. /\ IsFiniteSet(SlotHolders \cup {s})
          /\ Cardinality(SlotHolders \cup {s}) = Cardinality(SlotHolders) + 1
          /\ Cardinality(SlotHolders) \in Nat
      BY <3>2, FS_AddElement, FS_CardinalityType
    <3>5. free' + Cardinality(SlotHolders') = Workers
      BY <3>1, <3>2, <3>3, <3>4 DEF TypeOK
    <3>6. {t \in Sessions : lane'[t] = "wait"} = {t \in Sessions : lane[t] = "wait"}
      BY <3>1 DEF TypeOK
    <3>7. ToSet(waiters') = {t \in Sessions : lane'[t] = "wait"}
      BY <3>1, <3>6 DEF SlotInv, SlotsConserved
    <3> QED  BY <3>1, <3>3, <3>4, <3>5, <3>7 DEF SlotInv, SlotsConserved
  <2>3. CASE LaneWaits(s)
    <3>1. /\ lane[s] = "ready" /\ lane' = [lane EXCEPT ![s] = "wait"]
          /\ free' = free /\ waiters' = Append(waiters, s)
          /\ ~(free > 0 /\ waiters = <<>>)
      BY <2>3 DEF LaneWaits, Pop
    <3>2. free = 0
      BY <3>1 DEF SlotInv, SlotsConserved, TypeOK
    <3>3. SlotHolders' = SlotHolders
      BY <3>1 DEF SlotHolders, Executing, TypeOK
    <3>4. {t \in Sessions : lane'[t] = "wait"} = {t \in Sessions : lane[t] = "wait"} \cup {s}
      BY <3>1 DEF TypeOK
    <3>5. ToSet(waiters') = ToSet(waiters) \cup {s}
      <4> DEFINE n == Len(waiters)
      <4>1. /\ n \in Nat /\ DOMAIN waiters = 1..n /\ DOMAIN waiters' = 1..(n + 1)
            /\ waiters'[n + 1] = s
            /\ \A k \in 1..n : waiters'[k] = waiters[k]
        BY <3>1 DEF TypeOK
      <4> HIDE DEF n
      <4>2. 1..(n + 1) = (1..n) \cup {n + 1}
        BY <4>1
      <4> QED  BY <4>1, <4>2 DEF ToSet
    <3>6. ToSet(waiters') = {t \in Sessions : lane'[t] = "wait"}
      BY <3>4, <3>5 DEF SlotInv, SlotsConserved
    <3> QED  BY <3>1, <3>2, <3>3, <3>6 DEF SlotInv, SlotsConserved
  <2>4. CASE LaneResumes(s)
    <3>1. lane[s] = "granted" /\ lane' = [lane EXCEPT ![s] = "exec"] /\ UNCHANGED slotVars
      BY <2>4 DEF LaneResumes
    <3> QED  BY <3>1, SlotsQuiet DEF slotVars, TypeOK
  <2> QED  BY <1>3, <2>1, <2>2, <2>3, <2>4 DEF LaneTurn
<1>4. ASSUME NEW s \in Sessions, TimeoutThread(s)
      PROVE  SlotInv'
  <2>1. lane[s] = "exec" /\ lane' = [lane EXCEPT ![s] = "grace"] /\ UNCHANGED slotVars
    BY <1>4 DEF TimeoutThread
  <2> QED  BY <2>1, SlotsQuiet DEF slotVars, TypeOK
<1>5. ASSUME NEW s \in Sessions, Ends(s)
      PROVE  SlotInv'
  <2>1. lane[s] \in Executing /\ \E step \in {"ready", "idle"} : Release(s, step)
    BY <1>5, EndShape DEF EndStep
  <2> QED  BY <2>1, SlotsAfterRelease
<1>6. ASSUME NEW i \in live, ZombieEnds(i[1], i[2])
      PROVE  SlotInv'
  BY <1>6, SlotsQuiet DEF ZombieEnds, laneVars, slotVars
<1>7. CASE Start
  <2>1. lane' = lane /\ AllIdle /\ free' = Workers /\ waiters' = <<>>
    BY <1>7 DEF Start, laneVars, LaneInv
  <2> QED  BY <2>1, SlotsFresh DEF AllIdle
<1>8. CASE Stop
  BY <1>8, SlotsQuiet DEF Stop, laneVars, slotVars
<1>9. CASE StopReturns
  BY <1>9, SlotsQuiet DEF StopReturns, laneVars, slotVars
<1>10. CASE StopCutsDrain
  BY <1>10, SlotsFresh DEF StopCutsDrain
<1>11. CASE Crash
  BY <1>11, SlotsFresh DEF Crash
<1> QED
  BY <1>1, <1>2, <1>3, <1>4, <1>5, <1>6, <1>7, <1>8, <1>9, <1>10, <1>11 DEF Next

\* Slots are neither leaked nor released twice, whichever way an execution or
\* a drain ends, and no lane sleeps at the semaphore while a slot is free.
THEOREM SlotsAreConserved == Spec => []SlotsConserved
<1>1. Init => SlotInv
  <2> SUFFICES ASSUME Init PROVE SlotInv
    OBVIOUS
  <2>1. SlotHolders = {} /\ {s \in Sessions : lane[s] = "wait"} = {}
    BY DEF Init, SlotHolders, Executing
  <2>2. IsFiniteSet({}) /\ Cardinality({}) = 0
    BY FS_EmptySet
  <2>3. ToSet(waiters) = {} /\ waiters = <<>> /\ free = Workers
    BY DEF Init, ToSet
  <2> QED  BY <2>1, <2>2, <2>3, QueueAssumption DEF SlotInv, SlotsConserved
<1>2. TypeOK /\ LaneInv /\ SlotInv /\ [Next]_vars => SlotInv'
  BY SlotStep
<1>3. Spec => []SlotInv
  BY <1>1, <1>2, CoreInvariant, PTL DEF Spec
<1> QED
  BY <1>3, PTL DEF SlotInv

-----------------------------------------------------------------------------
(* First starts in order, and what a drain leaves *)

\* The entries of lane r, but for those in J, stand in lane q, in that order.
Keeps(q, r, J) ==
  \A a, b \in DOMAIN r : r[a] \notin J /\ r[b] \notin J =>
    \E c, d \in DOMAIN q : q[c] = r[a] /\ q[d] = r[b] /\ (c < d => a < b)

LEMMA SameKeeps == ASSUME NEW q, NEW J PROVE Keeps(q, q, J)
BY DEF Keeps

\* One entry less.
LEMMA RemovalKeeps ==
  ASSUME NEW q \in Seq(Jobs), NEW r \in Seq(Jobs), NEW i \in 1..Len(q), NEW J,
         Len(r) = Len(q) - 1,
         \A k \in 1..(Len(q) - 1) : r[k] = IF k < i THEN q[k] ELSE q[k + 1]
  PROVE  /\ Keeps(q, r, J)
         /\ \A x \in ToSet(q) : x = q[i] \/ x \in ToSet(r)
<1> DEFINE n == Len(q)
           from(k) == IF k < i THEN k ELSE k + 1
<1>1. n \in Nat /\ DOMAIN q = 1..n /\ DOMAIN r = 1..(n - 1) /\ i \in 1..n
  OBVIOUS
<1> HIDE DEF n
<1>2. \A k \in 1..(n - 1) : from(k) \in 1..n /\ r[k] = q[from(k)]
  BY <1>1 DEF n
<1>3. \A a, b \in 1..(n - 1) : from(a) < from(b) => a < b
  BY <1>1
<1> HIDE DEF from
<1>4. Keeps(q, r, J)
  BY <1>1, <1>2, <1>3 DEF Keeps
<1>5. ASSUME NEW k \in 1..n, k # i
      PROVE  \E m \in 1..(n - 1) : r[m] = q[k]
  <2>1. CASE k < i
    <3>1. k \in 1..(n - 1) /\ from(k) = k
      BY <1>1, <2>1 DEF from
    <3> QED  BY <1>2, <3>1
  <2>2. CASE k > i
    <3>1. k - 1 \in 1..(n - 1) /\ from(k - 1) = k
      BY <1>1, <2>2 DEF from
    <3> QED  BY <1>2, <3>1
  <2> QED  BY <1>1, <1>5, <2>1, <2>2
<1>6. \A k \in DOMAIN q : q[k] = q[i] \/ \E m \in DOMAIN r : r[m] = q[k]
  BY <1>1, <1>5
<1> QED  BY <1>4, <1>6 DEF ToSet

\* _kick: the job comes in, behind the waiting jobs of its priority, nothing
\* else moves, and a lane of a started queue has a drain task.
LEMMA KickKeeps ==
  ASSUME TypeOK, NEW j \in Jobs, Kick(j)
  PROVE  LET s == SessionOf[j] IN
         /\ j \in ToSet(pending'[s])
         /\ \A t \in Sessions : Keeps(pending[t], pending'[t], {j})
         /\ \A t \in Sessions : ToSet(pending[t]) \subseteq ToSet(pending'[t])
         /\ \A t \in Sessions \ {s} : lane'[t] = lane[t] /\ pending'[t] = pending[t]
         /\ started => lane'[s] # "idle"
         /\ (\A k \in DOMAIN pending[s] : pending[s][k] # j) =>
              \A a, b \in DOMAIN pending'[s] :
                /\ pending'[s][b] = j /\ pending'[s][a] # j
                /\ PriorityOf[pending'[s][a]] = PriorityOf[j]
                => a < b
<1> DEFINE s == SessionOf[j]
           q == pending[s]
           r == pending'[s]
           n == Len(q)
<1>1. s \in Sessions
  BY JobAssumption
<1>2. q \in Seq(Jobs)
  BY <1>1 DEF TypeOK
<1>3. PICK i \in InsertPoints(q, j) :
        pending' = [pending EXCEPT ![s] = InsertAt(q, i + 1, j)]
  BY DEF Kick
<1>4. i \in 0..n
  BY <1>3 DEF InsertPoints
<1>5. r = InsertAt(q, i + 1, j) /\ \A t \in Sessions : t # s => pending'[t] = pending[t]
  BY <1>1, <1>3 DEF TypeOK
<1>6. /\ r \in Seq(Jobs) /\ Len(r) = n + 1
      /\ \A k \in 1..(n + 1) :
           r[k] = IF k <= i THEN q[k] ELSE IF k = i + 1 THEN j ELSE q[k - 1]
  BY <1>2, <1>4, <1>5, InsertAtFacts
<1>7. n \in Nat /\ DOMAIN q = 1..n /\ DOMAIN r = 1..(n + 1)
  BY <1>2, <1>6
<1>8. \A t \in Sessions \ {s} : lane'[t] = lane[t] /\ pending'[t] = pending[t]
  BY <1>1, <1>5 DEF Kick, TypeOK
<1>9. started => lane'[s] # "idle"
  BY <1>1 DEF Kick, TypeOK
<1>10. \A k \in (i + 1)..n : PriorityOf[q[k]] # PriorityOf[j]
  <2> SUFFICES ASSUME NEW k \in (i + 1)..n PROVE PriorityOf[q[k]] # PriorityOf[j]
    OBVIOUS
  <2>1. PriorityOf[j] # 0
    BY <1>3, <1>4, <1>7 DEF InsertPoints
  <2>2. PriorityOf[q[k]] < PriorityOf[j]
    BY <1>3, <2>1 DEF InsertPoints
  <2>3. PriorityOf[j] \in Int
    BY JobAssumption
  <2> QED  BY <2>2, <2>3
<1> HIDE DEF s, q, r, n
<1> DEFINE from(k) == IF k <= i THEN k ELSE k - 1
<1>11. \A k \in 1..(n + 1) : r[k] # j => k # i + 1 /\ from(k) \in 1..n /\ r[k] = q[from(k)]
  BY <1>4, <1>6, <1>7
<1>12. \A a, b \in 1..(n + 1) : a # i + 1 /\ b # i + 1 /\ from(a) < from(b) => a < b
  BY <1>4, <1>7
<1>13. Keeps(q, r, {j})
  <2> HIDE DEF from
  <2> QED  BY <1>7, <1>11, <1>12 DEF Keeps
<1>14. \A k \in 1..n : \E m \in 1..(n + 1) : r[m] = q[k]
  <2> SUFFICES ASSUME NEW k \in 1..n PROVE \E m \in 1..(n + 1) : r[m] = q[k]
    OBVIOUS
  <2>1. CASE k <= i
    <3>1. k \in 1..(n + 1) /\ r[k] = q[k]
      BY <1>6, <1>7, <2>1
    <3> QED  BY <3>1
  <2>2. CASE k > i
    <3>1. k + 1 \in 1..(n + 1) /\ ~(k + 1 <= i) /\ k + 1 # i + 1 /\ (k + 1) - 1 = k
      BY <1>4, <1>7, <2>2
    <3>2. r[k + 1] = q[k]
      BY <1>6, <3>1
    <3> QED  BY <3>1, <3>2
  <2> QED  BY <1>4, <1>7, <2>1, <2>2
<1>15. j \in ToSet(r) /\ ToSet(q) \subseteq ToSet(r)
  <2>1. i + 1 \in DOMAIN r /\ r[i + 1] = j
    BY <1>4, <1>6, <1>7
  <2> QED  BY <1>7, <1>14, <2>1 DEF ToSet
<1>16. ASSUME \A k \in DOMAIN q : q[k] # j,
              NEW a \in DOMAIN r, NEW b \in DOMAIN r,
              r[b] = j, r[a] # j, PriorityOf[r[a]] = PriorityOf[j]
       PROVE  a < b
  <2>1. a # i + 1 /\ from(a) \in 1..n /\ r[a] = q[from(a)]
    BY <1>7, <1>11, <1>16
  <2>2. b = i + 1
    <3> SUFFICES ASSUME b # i + 1 PROVE FALSE
      OBVIOUS
    <3>1. from(b) \in 1..n /\ r[b] = q[from(b)]
      BY <1>4, <1>6, <1>7
    <3> QED  BY <1>7, <1>16, <3>1
  <2>3. ~(a > i + 1)
    <3> SUFFICES ASSUME a > i + 1 PROVE FALSE
      OBVIOUS
    <3>1. from(a) \in (i + 1)..n
      BY <1>4, <1>7, <2>1
    <3> QED  BY <1>10, <1>16, <2>1, <3>1
  <2> QED  BY <1>4, <1>7, <2>1, <2>2, <2>3
<1>17. \A t \in Sessions : Keeps(pending[t], pending'[t], {j})
  BY <1>8, <1>13, SameKeeps DEF q, r
<1>18. \A t \in Sessions : ToSet(pending[t]) \subseteq ToSet(pending'[t])
  BY <1>8, <1>15 DEF q, r
<1> QED
  BY <1>8, <1>9, <1>15, <1>16, <1>17, <1>18 DEF s, q, r

LEMMA InitStand == Init => StandInv
BY DEF Init, StandInv

\* What a step leaves alone keeps its place.
LEMMA StandsOn ==
  ASSUME StandInv, ~MayCutDrain,
         \A j \in Jobs : status'[j] = "queued" =>
           \/ Stands(j)'
           \/ status[j] = "queued" /\ (Stands(j) => Stands(j)'),
         \A s \in Sessions : lane'[s] = "idle" /\ pending'[s] # <<>> =>
           MayAbort(s) \/ (lane[s] = "idle" /\ pending[s] # <<>>),
         started' \/ stopped' \/ backoff' = {} \/ UNCHANGED <<started, stopped, backoff>>
  PROVE  StandInv'
BY DEF StandInv

LEMMA StandAfterKick ==
  ASSUME Core, StandInv, ~MayCutDrain, NEW j \in Jobs, Kick(j), started, started',
         \A i \in Jobs \ {j} : status'[i] = status[i],
         backoff' = backoff \ {j}, UNCHANGED current
  PROVE  StandInv'
<1> DEFINE s == SessionOf[j]
<1>1. TypeOK /\ s \in Sessions /\ \A i \in Jobs : SessionOf[i] \in Sessions
  BY JobAssumption DEF Core
<1>2. /\ j \in ToSet(pending'[s])
      /\ \A t \in Sessions : ToSet(pending[t]) \subseteq ToSet(pending'[t])
      /\ \A t \in Sessions \ {s} : lane'[t] = lane[t] /\ pending'[t] = pending[t]
      /\ lane'[s] # "idle"
  BY <1>1, KickKeeps
<1>3. Stands(j)'
  BY <1>2 DEF Stands
<1>4. \A i \in Jobs \ {j} : Stands(i) => Stands(i)'
  BY <1>1, <1>2 DEF Stands
<1> QED  BY <1>2, <1>3, <1>4, StandsOn

LEMMA StandAfterPop ==
  ASSUME Core, StandInv, ~MayCutDrain, NEW s \in Sessions, Pop(s), lane'[s] # "idle",
         \A t \in Sessions \ {s} : lane'[t] = lane[t],
         \A i \in Jobs : status'[i] = "queued" => status[i] = "queued",
         UNCHANGED <<backoff, started, stopped>>
  PROVE  StandInv'
<1>1. TypeOK /\ LaneInv /\ pending[s] \in Seq(Jobs) /\ current[s] = NoJob
  BY DEF Core, TypeOK, LaneInv, Pop, Holding, Executing
<1>2. /\ 1 \in 1..Len(pending[s]) /\ current'[s] = pending[s][1]
      /\ SessionOf[pending[s][1]] = s
      /\ \A t \in Sessions : t # s => current'[t] = current[t] /\ pending'[t] = pending[t]
      /\ pending'[s] \in Seq(Jobs) /\ Len(pending'[s]) = Len(pending[s]) - 1
      /\ \A k \in 1..(Len(pending[s]) - 1) : pending'[s][k] = pending[s][k + 1]
  BY <1>1, PopFacts
<1>3. \A k \in 1..(Len(pending[s]) - 1) :
        pending'[s][k] = IF k < 1 THEN pending[s][k] ELSE pending[s][k + 1]
  BY <1>2
<1>4. \A x \in ToSet(pending[s]) : x = pending[s][1] \/ x \in ToSet(pending'[s])
  BY <1>1, <1>2, <1>3, RemovalKeeps
<1>5. \A i \in Jobs : Stands(i) => Stands(i)'
  <2> SUFFICES ASSUME NEW i \in Jobs, Stands(i) PROVE Stands(i)'
    OBVIOUS
  <2>1. SessionOf[i] \in Sessions /\ i # NoJob
    BY JobAssumption, SentinelAssumption
  <2> QED  BY <1>1, <1>2, <1>4, <2>1 DEF Stands
<1> QED  BY <1>2, <1>5, StandsOn

LEMMA StandAfterEnd ==
  ASSUME Core, StandInv, ~MayCutDrain, NEW s \in Sessions, NEW st, EndStep(s, st)
  PROVE  StandInv'
<1>0. PICK j : j = current[s]
  OBVIOUS
<1>1. /\ TypeOK /\ LaneInv /\ lane[s] \in Executing /\ started
      /\ j \in Jobs /\ SessionOf[j] = s
  BY <1>0 DEF EndStep, Core, LaneInv, Holding, AllIdle, Executing
<1>2. /\ backoff' = backoff \cup {i \in {j} : st = "queued"}
      /\ current' = [current EXCEPT ![s] = NoJob]
      /\ status'[j] = st /\ \A i \in Jobs : i # j => status'[i] = status[i]
      /\ UNCHANGED <<pending, started, stopped>>
  BY <1>0, <1>1 DEF EndStep, Mark, TypeOK
<1>3. PICK step \in {"ready", "idle"} :
        Release(s, step) /\ (step = "idle" => j \in Aborting)
  BY <1>0 DEF EndStep
<1>4. /\ lane'[s] = step
      /\ \A t \in Sessions : t # s =>
          lane'[t] = lane[t] \/ (lane[t] = "wait" /\ lane'[t] = "granted")
  BY <1>1, <1>3, ReleaseFacts
<1>5. lane'[s] = "idle" => MayAbort(s)
  BY <1>1, <1>3, <1>4 DEF MayAbort
<1>6. \A i \in Jobs : i # j /\ Stands(i) => Stands(i)'
  <2> SUFFICES ASSUME NEW i \in Jobs, i # j, Stands(i) PROVE Stands(i)'
    OBVIOUS
  <2>1. SessionOf[i] \in Sessions
    BY JobAssumption
  <2>2. current[SessionOf[i]] = i => current'[SessionOf[i]] = i
    BY <1>0, <1>1, <1>2, <2>1 DEF TypeOK
  <2> QED  BY <1>2, <2>2 DEF Stands
<1>7. status'[j] = "queued" => Stands(j)'
  BY <1>2 DEF Stands
<1>8. \A i \in Jobs : status'[i] = "queued" =>
        Stands(i)' \/ (status[i] = "queued" /\ (Stands(i) => Stands(i)'))
  BY <1>2, <1>6, <1>7
<1>9. \A t \in Sessions : lane'[t] = "idle" /\ pending'[t] # <<>> =>
        MayAbort(t) \/ (lane[t] = "idle" /\ pending[t] # <<>>)
  BY <1>2, <1>4, <1>5
<1>10. started'
  BY <1>1, <1>2
<1> QED  BY <1>8, <1>9, <1>10, StandsOn

LEMMA StandStep ==
  ASSUME Core, StandInv, [Next]_vars
  PROVE  StandInv'
<1> SUFFICES ASSUME ~MayCutDrain PROVE StandInv'
  BY DEF StandInv
<1>0. ASSUME UNCHANGED <<pending, current, backoff, lane, started>>, stopped' \/ stopped' = stopped,
             \A j \in Jobs : status'[j] = "queued" => status[j] = "queued"
      PROVE  StandInv'
  BY <1>0, StandsOn DEF Stands
<1>1. CASE UNCHANGED vars
  BY <1>0, <1>1 DEF vars, jobVars, laneVars, lifeVars
<1>2. ASSUME NEW j \in Jobs, JobStep(j)
      PROVE  StandInv'
  <2> DEFINE s == SessionOf[j]
  <2>0. s \in Sessions /\ TypeOK /\ LaneInv /\ PlaceInv
    BY JobAssumption DEF Core
  <2>1. CASE SubmitDuplicate(j) \/ CancelCooperative(j)
    BY <1>0, <2>1 DEF SubmitDuplicate, CancelCooperative, laneVars, lifeVars
  <2>2. CASE Submit(j)
    <3>1. status[j] = "none" /\ Kick(j) /\ started /\ UNCHANGED <<current, backoff, started>>
      BY <2>2 DEF Submit, Fresh, lifeVars
    <3>2. \A i \in Jobs \ {j} : status'[i] = status[i]
      BY <2>0, <2>2 DEF Submit, Mark, TypeOK
    <3>3. backoff' = backoff \ {j}
      BY <2>0, <3>1 DEF PlaceInv
    <3> QED  BY <3>1, <3>2, <3>3, StandAfterKick
  <2>3. CASE RequeueRefused(j)
    <3>1. /\ backoff' = backoff \ {j} /\ stopped /\ UNCHANGED <<pending, current, lane, stopped>>
          /\ status'[j] = "interrupted" /\ \A i \in Jobs : i # j => status'[i] = status[i]
      BY <2>0, <2>3 DEF RequeueRefused, Mark, TypeOK, laneVars, lifeVars
    <3>2. \A i \in Jobs : i # j /\ Stands(i) => Stands(i)'
      BY <3>1 DEF Stands
    <3> QED  BY <3>1, <3>2, StandsOn
  <2>4. CASE Requeue(j)
    <3>1. /\ j \in backoff /\ ~stopped /\ Kick(j) /\ backoff' = backoff \ {j}
          /\ UNCHANGED <<status, current, started>>
      BY <2>4 DEF Requeue, jobVars, lifeVars
    <3>2. started
      BY <3>1 DEF StandInv
    <3> QED  BY <3>1, <3>2, StandAfterKick
  <2>5. CASE CancelPending(j)
    <3>1. PICK i \in DOMAIN pending[s] :
            pending[s][i] = j /\ pending' = [pending EXCEPT ![s] = RemoveAt(@, i)]
      BY <2>5 DEF CancelPending
    <3>2. pending[s] \in Seq(Jobs) /\ i \in 1..Len(pending[s])
      BY <2>0, <3>1 DEF TypeOK
    <3>3. pending'[s] = RemoveAt(pending[s], i) /\ \A t \in Sessions : t # s => pending'[t] = pending[t]
      BY <2>0, <3>1 DEF TypeOK
    <3>4. /\ status'[j] = "cancelled" /\ \A k \in Jobs : k # j => status'[k] = status[k]
          /\ UNCHANGED <<lane, current, backoff, started, stopped>>
      BY <2>0, <2>5 DEF CancelPending, Mark, TypeOK, lifeVars
    <3> HIDE DEF s
    <3>5. /\ Len(pending'[s]) = Len(pending[s]) - 1
          /\ pending'[s] \in Seq(Jobs)
          /\ \A k \in 1..(Len(pending[s]) - 1) :
               pending'[s][k] = IF k < i THEN pending[s][k] ELSE pending[s][k + 1]
      BY <3>2, <3>3, RemoveAtFacts
    <3>6. \A x \in ToSet(pending[s]) : x = j \/ x \in ToSet(pending'[s])
      BY <3>1, <3>2, <3>3, <3>5, RemovalKeeps
    <3>7. \A k \in Jobs : k # j /\ Stands(k) => Stands(k)'
      <4> SUFFICES ASSUME NEW k \in Jobs, k # j, Stands(k) PROVE Stands(k)'
        OBVIOUS
      <4>1. SessionOf[k] \in Sessions
        BY JobAssumption
      <4> QED  BY <3>3, <3>4, <3>6, <4>1 DEF Stands
    <3>8. pending'[s] # <<>> => pending[s] # <<>>
      BY <3>2
    <3> QED  BY <3>3, <3>4, <3>7, <3>8, StandsOn
  <2> QED  BY <1>2, <2>1, <2>2, <2>3, <2>4, <2>5 DEF JobStep
<1>3. ASSUME NEW s \in Sessions, LaneTurn(s)
      PROVE  StandInv'
  <2>0. TypeOK /\ LaneInv /\ PlaceInv
    BY DEF Core
  <2>1. CASE LaneFlush(s)
    <3> DEFINE S == ToSet(pending[s])
    <3>1. /\ pending'[s] = <<>> /\ stopped /\ UNCHANGED <<current, backoff, started, stopped>>
          /\ \A t \in Sessions : t # s => lane'[t] = lane[t] /\ pending'[t] = pending[t]
      BY <2>0, <2>1 DEF LaneFlush, TypeOK, lifeVars
    <3>2. status' = [j \in Jobs |-> IF j \in S THEN "cancelled" ELSE status[j]]
      BY <2>1 DEF LaneFlush
    <3> HIDE DEF S
    <3>3. \A j \in Jobs : status'[j] = "queued" => status[j] = "queued" /\ j \notin S
      BY <3>2
    <3>4. \A j \in Jobs : j \notin S /\ Stands(j) => Stands(j)'
      <4> SUFFICES ASSUME NEW j \in Jobs, j \notin S, Stands(j) PROVE Stands(j)'
        OBVIOUS
      <4>1. SessionOf[j] \in Sessions
        BY JobAssumption
      <4> QED  BY <3>1, <4>1 DEF Stands, S
    <3> QED  BY <3>1, <3>3, <3>4, StandsOn
  <2>2. CASE LaneEnds(s)
    <3>1. /\ pending[s] = <<>> /\ UNCHANGED <<status, pending, current, backoff, started, stopped>>
          /\ \A t \in Sessions : t # s => lane'[t] = lane[t]
      BY <2>0, <2>2 DEF LaneEnds, TypeOK, lifeVars, jobVars
    <3>2. \A j \in Jobs : Stands(j) => Stands(j)'
      BY <3>1 DEF Stands
    <3>3. \A t \in Sessions : lane'[t] = "idle" /\ pending'[t] # <<>> =>
            lane[t] = "idle" /\ pending[t] # <<>>
      BY <3>1
    <3> QED  BY <3>1, <3>2, <3>3, StandsOn
  <2>3. CASE LaneStarts(s)
    <3>1. /\ Pop(s) /\ lane' = [lane EXCEPT ![s] = "exec"] /\ Begin(Head(pending[s]))
          /\ UNCHANGED <<backoff, started, stopped>>
      BY <2>3 DEF LaneStarts, lifeVars
    <3>2. \A i \in Jobs : status'[i] = "queued" => status[i] = "queued"
      BY <2>0, <3>1 DEF Begin, Mark, TypeOK
    <3>3. lane'[s] # "idle" /\ \A t \in Sessions \ {s} : lane'[t] = lane[t]
      BY <2>0, <3>1 DEF TypeOK
    <3> QED  BY <3>1, <3>2, <3>3, StandAfterPop
  <2>4. CASE LaneWaits(s)
    <3>1. /\ Pop(s) /\ lane' = [lane EXCEPT ![s] = "wait"]
          /\ UNCHANGED <<status, backoff, started, stopped>>
      BY <2>4 DEF LaneWaits, lifeVars, jobVars
    <3>2. lane'[s] # "idle" /\ \A t \in Sessions \ {s} : lane'[t] = lane[t]
      BY <2>0, <3>1 DEF TypeOK
    <3> QED  BY <3>1, <3>2, StandAfterPop
  <2>5. CASE LaneResumes(s)
    <3>1. /\ lane' = [lane EXCEPT ![s] = "exec"] /\ Begin(current[s])
          /\ UNCHANGED <<backoff, started, stopped, current, pending>>
      BY <2>5 DEF LaneResumes, lifeVars
    <3>2. \A i \in Jobs : status'[i] = "queued" => status[i] = "queued"
      BY <2>0, <3>1 DEF Begin, Mark, TypeOK
    <3>3. lane'[s] # "idle" /\ \A t \in Sessions \ {s} : lane'[t] = lane[t]
      BY <2>0, <3>1 DEF TypeOK
    <3>4. \A i \in Jobs : Stands(i) => Stands(i)'
      BY <3>1 DEF Stands
    <3> QED  BY <3>1, <3>2, <3>3, <3>4, StandsOn
  <2> QED  BY <1>3, <2>1, <2>2, <2>3, <2>4, <2>5 DEF LaneTurn
<1>4. ASSUME NEW s \in Sessions, TimeoutThread(s)
      PROVE  StandInv'
  <2>1. /\ lane[s] = "exec" /\ lane' = [lane EXCEPT ![s] = "grace"]
        /\ UNCHANGED <<status, pending, current, backoff, started, stopped>>
    BY <1>4 DEF TimeoutThread, lifeVars
  <2>2. \A t \in Sessions : lane'[t] = "idle" => lane[t] = "idle"
    BY <2>1 DEF Core, TypeOK
  <2>3. \A i \in Jobs : Stands(i) => Stands(i)'
    BY <2>1 DEF Stands
  <2> QED  BY <2>1, <2>2, <2>3, StandsOn
<1>5. ASSUME NEW s \in Sessions, Ends(s)
      PROVE  StandInv'
  BY <1>5, EndShape, StandAfterEnd
<1>6. ASSUME NEW i \in live, ZombieEnds(i[1], i[2])
      PROVE  StandInv'
  BY <1>0, <1>6 DEF ZombieEnds, jobVars, laneVars, lifeVars
<1>7. CASE Start
  <2>1. started' /\ UNCHANGED <<pending, current, backoff, lane>>
    BY <1>7 DEF Start, laneVars
  <2>2. \A j \in Jobs : status'[j] = "queued" => status[j] = "queued"
    BY <1>7 DEF Start, InFlight, Folded
  <2>3. \A i \in Jobs : Stands(i) => Stands(i)'
    BY <2>1 DEF Stands
  <2> QED  BY <2>1, <2>2, <2>3, StandsOn
<1>8. CASE Stop
  BY <1>0, <1>8 DEF Stop, jobVars, laneVars
<1>9. CASE StopReturns
  <2>1. stopped' /\ UNCHANGED <<status, pending, current, backoff, lane>>
    BY <1>9 DEF StopReturns, laneVars, jobVars
  <2>2. \A i \in Jobs : Stands(i) => Stands(i)'
    BY <2>1 DEF Stands
  <2> QED  BY <2>1, <2>2, StandsOn
<1>10. CASE StopCutsDrain
  BY <1>10 DEF StopCutsDrain
<1>11. CASE Crash
  BY <1>11, StandsOn DEF Crash
<1> QED
  BY <1>1, <1>2, <1>3, <1>4, <1>5, <1>6, <1>7, <1>8, <1>9, <1>10, <1>11 DEF Next

\* When stop() comes back by itself, no job is left running, and one without a
\* verdict waits for a timer that will be refused, or stands behind an abort.
THEOREM DrainsLeaveNothing == Spec => []DrainLeavesNothing
<1>1. Core /\ StandInv => DrainLeavesNothing
  <2> SUFFICES ASSUME Core, StandInv, ~MayCutDrain, stopped, ~started,
                      NEW j \in Jobs, status[j] \in InFlight
               PROVE  /\ status[j] = "queued"
                      /\ \/ j \in backoff
                         \/ MayAbort(SessionOf[j]) /\ j \in ToSet(pending[SessionOf[j]])
    BY DEF DrainLeavesNothing
  <2>1. SessionOf[j] \in Sessions /\ j # NoJob
    BY JobAssumption, SentinelAssumption
  <2>2. lane[SessionOf[j]] = "idle" /\ current[SessionOf[j]] = NoJob
    BY <2>1 DEF Core, LaneInv, AllIdle, Holding, Executing
  <2>3. status[j] = "queued"
    BY <2>1, <2>2 DEF Core, RunningIsOwned, Executing, InFlight
  <2>4. Stands(j)
    BY <2>3 DEF StandInv
  <2>5. j \in ToSet(pending[SessionOf[j]]) => pending[SessionOf[j]] # <<>>
    BY DEF ToSet
  <2> QED  BY <2>1, <2>2, <2>3, <2>4, <2>5 DEF Stands, StandInv
<1>2. Init => StandInv
  BY InitStand
<1>3. Core /\ StandInv /\ [Next]_vars => StandInv'
  BY StandStep
<1>4. Spec => []Core
  BY CoreInvariant, PTL DEF Core
<1> QED  BY <1>1, <1>2, <1>3, <1>4, PTL DEF Spec

-----------------------------------------------------------------------------
(* First starts in the order of submission *)

\* Nobody who came before k still waits for its first start.
Due(k) == ~MayCutDrain => \A j \in Jobs : Waiting(j) => ~Before(j, k)

LEMMA InitTurn == Init => TurnInv
<1> SUFFICES ASSUME Init PROVE TurnInv
  OBVIOUS
<1>1. order = <<>> /\ DOMAIN order = {} /\ \A j \in Jobs : status[j] = "none" /\ j \notin backoff
  BY DEF Init
<1> QED  BY <1>1 DEF TurnInv, Before

\* A step that accepts no job keeps the turns if whoever it pops is due.
LEMMA TurnKeeps ==
  ASSUME Core, TurnInv, order' = order, NEW J, \A j \in J : attempts[j] # 0,
         \A j \in Jobs : Waiting(j)' => Waiting(j),
         \A j \in Jobs : log[j] # "none" => log'[j] # "none",
         \A j \in Jobs : status'[j] = "running" \/ j \in backoff' => attempts'[j] > 0,
         \A k \in Jobs : attempts'[k] = 0 \/ attempts'[k] = attempts[k]
                                         \/ current'[SessionOf[k]] = k,
         \A s \in Sessions : current'[s] = current[s] \/ current'[s] = NoJob
                                                     \/ Due(current'[s]),
         \A s \in Sessions : Keeps(pending[s], pending'[s], J)
  PROVE  TurnInv'
<1>1. \A m \in DOMAIN order : order[m] \in Jobs
  BY DEF Core, TypeOK
<1>2. \A m \in DOMAIN order' : log'[order'[m]] # "none"
  BY <1>1 DEF TurnInv
<1>3. ASSUME ~MayCutDrain, NEW j \in Jobs, NEW k \in Jobs, Waiting(j)', Before(j, k)'
      PROVE  /\ attempts'[k] = 0 /\ current'[SessionOf[j]] # k
             /\ \A a, b \in DOMAIN pending'[SessionOf[j]] :
                  pending'[SessionOf[j]][a] = j /\ pending'[SessionOf[j]][b] = k => a < b
  <2> DEFINE s == SessionOf[j]
  <2>1. Waiting(j) /\ Before(j, k)
    BY <1>3 DEF Before
  <2>2. s \in Sessions /\ SessionOf[k] = s /\ k # NoJob
    BY <2>1, JobAssumption, SentinelAssumption DEF Before
  <2>3. /\ attempts[j] = 0 /\ attempts[k] = 0 /\ current[s] # k
        /\ \A a, b \in DOMAIN pending[s] : pending[s][a] = j /\ pending[s][b] = k => a < b
    BY <1>3, <2>1 DEF TurnInv, Waiting
  <2>4. ~Due(k)
    BY <1>3, <2>1 DEF Due
  <2>5. current'[s] # k
    BY <2>2, <2>3, <2>4
  <2>6. attempts'[k] = 0
    BY <2>2, <2>3, <2>5
  <2>7. Keeps(pending[s], pending'[s], J) /\ j \notin J /\ k \notin J
    BY <2>2, <2>3
  <2> HIDE DEF s
  <2>8. \A a, b \in DOMAIN pending'[s] : pending'[s][a] = j /\ pending'[s][b] = k => a < b
    BY <2>3, <2>7 DEF Keeps
  <2> QED  BY <2>5, <2>6, <2>8 DEF s
<1>4. \A m, n \in DOMAIN order' : order'[m] = order'[n] => m = n
  BY DEF TurnInv
<1> QED  BY <1>2, <1>3, <1>4 DEF TurnInv

\* What any step but a submission may do to the records, as far as turns go.
LEMMA RecordTurn ==
  ASSUME Core, TurnInv, RecordStep, \A j \in Jobs : ~SubmitDuplicate(j) /\ ~Submit(j)
  PROVE  /\ \A j \in Jobs : Waiting(j)' => Waiting(j)
         /\ \A j \in Jobs : log[j] # "none" => log'[j] # "none"
         /\ \A j \in Jobs : status'[j] = "running" => attempts'[j] > 0
         /\ \A k \in Jobs : attempts'[k] = 0 \/ attempts'[k] = attempts[k]
                                             \/ current'[SessionOf[k]] = k
         /\ \A k \in Jobs : attempts[k] > 0 => attempts'[k] > 0 \/ Crash
<1>0. /\ TypeOK /\ \A j \in Jobs : status[j] = "running" => attempts[j] > 0
      /\ \A j \in Jobs : attempts[j] \in Nat
  BY DEF Core, TurnInv, TypeOK
<1>1. CASE UNCHANGED <<status, log, attempts, recent>>
  BY <1>0, <1>1 DEF Waiting
<1>2. ASSUME NEW j \in Jobs, Begins(j)
      PROVE  /\ \A i \in Jobs : Waiting(i)' => Waiting(i)
             /\ \A i \in Jobs : log[i] # "none" => log'[i] # "none"
             /\ \A i \in Jobs : status'[i] = "running" => attempts'[i] > 0
             /\ \A k \in Jobs : attempts'[k] = attempts[k] \/ current'[SessionOf[k]] = k
             /\ \A k \in Jobs : attempts[k] > 0 => attempts'[k] > 0
  <2>1. /\ status' = [status EXCEPT ![j] = "running"]
        /\ log' = [log EXCEPT ![j] = "running"]
        /\ attempts' = [attempts EXCEPT ![j] = attempts[j] + 1]
        /\ current'[SessionOf[j]] = j
    BY <1>2 DEF Begins, Begin, Mark
  <2>2. /\ status'[j] = "running" /\ log'[j] = "running" /\ attempts'[j] = attempts[j] + 1
        /\ \A i \in Jobs : i # j => /\ status'[i] = status[i] /\ log'[i] = log[i]
                                    /\ attempts'[i] = attempts[i]
    BY <1>0, <2>1 DEF TypeOK
  <2>3. attempts'[j] > 0
    BY <1>0, <2>2
  <2>4. \A i \in Jobs : Waiting(i)' => i # j /\ Waiting(i)
    BY <2>2 DEF Waiting
  <2> QED  BY <1>0, <2>1, <2>2, <2>3, <2>4
<1>3. ASSUME NEW j \in Jobs, FallsBack(j)
      PROVE  /\ \A i \in Jobs : Waiting(i)' => Waiting(i)
             /\ \A i \in Jobs : log[i] # "none" => log'[i] # "none"
             /\ \A i \in Jobs : status'[i] = "running" => attempts'[i] > 0
             /\ attempts' = attempts
  <2>1. /\ status'[j] = "queued" /\ log'[j] = "queued" /\ attempts' = attempts
        /\ status[j] = "running"
        /\ \A i \in Jobs : i # j => status'[i] = status[i] /\ log'[i] = log[i]
    BY <1>0, <1>3 DEF FallsBack, Mark, TypeOK
  <2>2. attempts[j] # 0
    BY <1>0, <2>1
  <2> QED  BY <1>0, <2>1, <2>2 DEF Waiting
<1>4. ASSUME NEW S \in SUBSET Jobs, NEW verdict \in Terminal, Settled(S, verdict)
      PROVE  /\ \A i \in Jobs : Waiting(i)' => Waiting(i)
             /\ \A i \in Jobs : log[i] # "none" => log'[i] # "none"
             /\ \A i \in Jobs : status'[i] = "running" => attempts'[i] > 0
             /\ attempts' = attempts
  BY <1>0, <1>4 DEF Settled, Waiting, Terminal
<1>5. CASE Start
  <2>1. attempts' = attempts /\ log' = log
    BY <1>5 DEF Start
  <2>2. \A j \in Jobs : status'[j] \in InFlight => status'[j] = status[j]
    BY <1>5 DEF Start, InFlight, Folded
  <2> QED  BY <1>0, <2>1, <2>2 DEF Waiting, InFlight
<1>6. CASE Crash
  <2>1. /\ \A j \in Jobs : status'[j] = "none" /\ attempts'[j] = 0
        /\ log' = log
    BY <1>6 DEF Crash
  <2> QED  BY <1>6, <2>1 DEF Waiting
<1> QED  BY <1>1, <1>2, <1>3, <1>4, <1>5, <1>6 DEF RecordStep

\* So what is left to show of such a step is whom it pops and what it moves.
LEMMA TurnAfter ==
  ASSUME Core, TurnInv, RecordStep, \A j \in Jobs : ~SubmitDuplicate(j) /\ ~Submit(j),
         order' = order, NEW J, \A j \in J : attempts[j] # 0, backoff' \subseteq Jobs,
         \A j \in backoff' : (j \in backoff \/ status[j] = "running") /\ ~Crash,
         \A s \in Sessions : current'[s] = current[s] \/ current'[s] = NoJob
                                                     \/ Due(current'[s]),
         \A s \in Sessions : Keeps(pending[s], pending'[s], J)
  PROVE  TurnInv'
<1>1. \A j \in Jobs : status[j] = "running" \/ j \in backoff => attempts[j] > 0
  BY DEF TurnInv
<1>2. \A j \in Jobs : j \in backoff' => attempts'[j] > 0
  BY <1>1, RecordTurn
<1>3. /\ \A j \in Jobs : Waiting(j)' => Waiting(j)
      /\ \A j \in Jobs : log[j] # "none" => log'[j] # "none"
      /\ \A j \in Jobs : status'[j] = "running" => attempts'[j] > 0
      /\ \A k \in Jobs : attempts'[k] = 0 \/ attempts'[k] = attempts[k]
                                          \/ current'[SessionOf[k]] = k
  BY RecordTurn
<1>4. \A j \in Jobs : status'[j] = "running" \/ j \in backoff' => attempts'[j] > 0
  BY <1>2, <1>3
<1> QED  BY <1>3, <1>4, TurnKeeps

\* The head of a lane is due.
LEMMA HeadIsDue ==
  ASSUME Core, StandInv, TurnInv, NEW s \in Sessions, Pop(s)
  PROVE  Due(pending[s][1])
<1> DEFINE h == pending[s][1]
<1>1. /\ TypeOK /\ LaneInv /\ PlaceInv
      /\ pending[s] \in Seq(Jobs) /\ current[s] = NoJob
  BY DEF Core, TypeOK, LaneInv, Pop, Holding, Executing
<1>2. h \in Jobs /\ SessionOf[h] = s /\ 1 \in DOMAIN pending[s]
  BY <1>1, PopFacts
<1> HIDE DEF h
<1>3. ASSUME ~MayCutDrain, NEW j \in Jobs, Waiting(j), Before(j, h)
      PROVE  FALSE
  <2>1. SessionOf[j] = s /\ j # NoJob /\ j \notin backoff
    BY <1>2, <1>3, SentinelAssumption DEF Before, TurnInv, Waiting
  <2>2. j \in ToSet(pending[s])
    BY <1>1, <1>3, <2>1 DEF StandInv, Stands, Waiting
  <2>3. PICK a \in DOMAIN pending[s] : pending[s][a] = j
    BY <2>2 DEF ToSet
  <2>4. a < 1
    BY <1>1, <1>2, <1>3, <2>1, <2>3 DEF TurnInv, h
  <2> QED  BY <1>1, <2>3, <2>4
<1> QED  BY <1>3 DEF Due, h

\* One lane lost its entry i.
LEMMA KeptAfterRemoval ==
  ASSUME TypeOK, NEW s \in Sessions, NEW i \in 1..Len(pending[s]),
         \A t \in Sessions : t # s => pending'[t] = pending[t],
         pending'[s] \in Seq(Jobs), Len(pending'[s]) = Len(pending[s]) - 1,
         \A k \in 1..(Len(pending[s]) - 1) :
           pending'[s][k] = IF k < i THEN pending[s][k] ELSE pending[s][k + 1]
  PROVE  \A t \in Sessions : Keeps(pending[t], pending'[t], {})
<1>1. pending[s] \in Seq(Jobs)
  BY DEF TypeOK
<1>2. Keeps(pending[s], pending'[s], {})
  BY <1>1, RemovalKeeps
<1> QED  BY <1>2, SameKeeps

LEMMA TurnAfterPop ==
  ASSUME Core, StandInv, TurnInv, RecordStep, \A j \in Jobs : ~SubmitDuplicate(j) /\ ~Submit(j),
         NEW s \in Sessions, Pop(s), order' = order, backoff' = backoff, ~Crash
  PROVE  TurnInv'
<1>1. TypeOK /\ LaneInv /\ pending[s] \in Seq(Jobs) /\ backoff \subseteq Jobs
  BY DEF Core, TypeOK
<1>2. /\ 1 \in 1..Len(pending[s]) /\ current'[s] = pending[s][1]
      /\ \A t \in Sessions : t # s => current'[t] = current[t] /\ pending'[t] = pending[t]
      /\ pending'[s] \in Seq(Jobs) /\ Len(pending'[s]) = Len(pending[s]) - 1
      /\ \A k \in 1..(Len(pending[s]) - 1) : pending'[s][k] = pending[s][k + 1]
  BY <1>1, PopFacts
<1>3. \A k \in 1..(Len(pending[s]) - 1) :
        pending'[s][k] = IF k < 1 THEN pending[s][k] ELSE pending[s][k + 1]
  BY <1>2
<1>4. \A t \in Sessions : Keeps(pending[t], pending'[t], {})
  BY <1>1, <1>2, <1>3, KeptAfterRemoval
<1>5. \A t \in Sessions : current'[t] = current[t] \/ Due(current'[t])
  BY <1>2, HeadIsDue
<1> QED  BY <1>1, <1>4, <1>5, TurnAfter

\* The new id comes last, in the order and among the waiting of its priority.
LEMMA TurnAfterSubmit ==
  ASSUME Core, TurnInv, AttemptInv, NEW j \in Jobs, Submit(j)
  PROVE  TurnInv'
<1> DEFINE s == SessionOf[j]
           n == Len(order)
<1>1. /\ TypeOK /\ LaneInv /\ PlaceInv /\ RunningIsOwned
      /\ order \in Seq(Jobs) /\ s \in Sessions
  BY JobAssumption DEF Core, TypeOK
<1>2. /\ status[j] = "none" /\ log[j] = "none" /\ Kick(j) /\ order' = Append(order, j)
      /\ UNCHANGED <<attempts, current, backoff>>
  BY DEF Submit, Fresh
<1>3. /\ status'[j] = "queued" /\ log'[j] = "queued"
      /\ \A i \in Jobs : i # j => status'[i] = status[i] /\ log'[i] = log[i]
  BY <1>1 DEF Submit, Mark, TypeOK
<1>4. /\ n \in Nat /\ DOMAIN order = 1..n /\ DOMAIN order' = 1..(n + 1)
      /\ order'[n + 1] = j /\ \A m \in 1..n : order'[m] = order[m] /\ order[m] \in Jobs
  BY <1>1, <1>2
<1> HIDE DEF n
<1>5. \A m \in 1..n : order[m] # j
  BY <1>2, <1>4 DEF TurnInv
<1>6. attempts[j] = 0
  BY <1>2 DEF AttemptInv
<1>7. \A k \in DOMAIN pending[s] : pending[s][k] # j
  BY <1>1, <1>2 DEF PlaceInv
<1>8. current[s] # j
  <2>1. CASE lane[s] \in {"wait", "granted"}
    BY <1>1, <1>2, <2>1 DEF PlaceInv
  <2>2. CASE lane[s] \in Executing
    BY <1>1, <1>2, <2>2 DEF RunningIsOwned
  <2>3. CASE lane[s] \notin Holding
    BY <1>1, <2>3, SentinelAssumption DEF LaneInv
  <2> QED  BY <2>1, <2>2, <2>3 DEF Holding
<1>9. /\ \A t \in Sessions : Keeps(pending[t], pending'[t], {j})
      /\ \A a, b \in DOMAIN pending'[s] :
           /\ pending'[s][b] = j /\ pending'[s][a] # j
           /\ PriorityOf[pending'[s][a]] = PriorityOf[j]
           => a < b
  BY <1>1, <1>2, <1>7, KickKeeps
<1>10. \A i \in Jobs : status'[i] = "running" \/ i \in backoff' => attempts'[i] > 0
  BY <1>2, <1>3 DEF TurnInv
<1>11. /\ \A m \in DOMAIN order' : log'[order'[m]] # "none"
       /\ \A l, m \in DOMAIN order' : order'[l] = order'[m] => l = m
  <2>1. \A m \in 1..n : log'[order'[m]] # "none"
    BY <1>3, <1>4, <1>5 DEF TurnInv
  <2>2. log'[order'[n + 1]] # "none"
    BY <1>3, <1>4
  <2>3. \A l, m \in 1..n : order'[l] = order'[m] => l = m
    BY <1>4 DEF TurnInv
  <2>4. \A m \in 1..n : order'[m] # order'[n + 1]
    BY <1>4, <1>5
  <2>5. 1..(n + 1) = (1..n) \cup {n + 1}
    BY <1>4
  <2> QED  BY <1>4, <2>1, <2>2, <2>3, <2>4, <2>5
<1>12. ASSUME ~MayCutDrain, NEW i \in Jobs, NEW k \in Jobs, Waiting(i)', Before(i, k)'
       PROVE  /\ attempts'[k] = 0 /\ current'[SessionOf[i]] # k
              /\ \A a, b \in DOMAIN pending'[SessionOf[i]] :
                   pending'[SessionOf[i]][a] = i /\ pending'[SessionOf[i]][b] = k => a < b
  <2>1. PICK l, m \in DOMAIN order' : l < m /\ order'[l] = i /\ order'[m] = k
    BY <1>12 DEF Before
  <2>2. SessionOf[i] = SessionOf[k] /\ PriorityOf[i] = PriorityOf[k] /\ SessionOf[i] \in Sessions
    BY <1>12, JobAssumption DEF Before
  <2>3. l \in 1..n /\ i # j /\ order[l] = i
    BY <1>4, <1>5, <2>1
  <2>4. Waiting(i)
    BY <1>2, <1>3, <1>12, <2>3 DEF Waiting
  <2>5. CASE k = j
    BY <1>2, <1>6, <1>8, <1>9, <2>2, <2>3, <2>5
  <2>6. CASE k # j
    <3>1. m \in 1..n /\ order[m] = k
      BY <1>4, <2>1, <2>6
    <3>2. Before(i, k)
      BY <1>4, <2>1, <2>2, <2>3, <3>1 DEF Before
    <3>3. /\ attempts[k] = 0 /\ current[SessionOf[i]] # k
          /\ \A a, b \in DOMAIN pending[SessionOf[i]] :
               pending[SessionOf[i]][a] = i /\ pending[SessionOf[i]][b] = k => a < b
      BY <1>12, <2>4, <3>2 DEF TurnInv
    <3>4. Keeps(pending[SessionOf[i]], pending'[SessionOf[i]], {j})
      BY <1>9, <2>2
    <3> QED  BY <1>2, <2>3, <2>6, <3>3, <3>4 DEF Keeps
  <2> QED  BY <2>5, <2>6
<1> QED  BY <1>10, <1>11, <1>12 DEF TurnInv

LEMMA TurnAfterDuplicate ==
  ASSUME Core, TurnInv, AttemptInv, NEW j \in Jobs, SubmitDuplicate(j)
  PROVE  TurnInv'
<1> DEFINE n == Len(order)
<1>1. TypeOK /\ PlaceInv /\ order \in Seq(Jobs)
  BY DEF Core, TypeOK
<1>2. /\ status[j] = "none" /\ log[j] = "none" /\ order' = Append(order, j)
      /\ UNCHANGED <<status, attempts, current, pending, backoff>>
  BY DEF SubmitDuplicate, Fresh, laneVars
<1>3. log'[j] = "deduped" /\ \A i \in Jobs : i # j => log'[i] = log[i]
  BY <1>1 DEF SubmitDuplicate, TypeOK
<1>4. /\ n \in Nat /\ DOMAIN order = 1..n /\ DOMAIN order' = 1..(n + 1)
      /\ order'[n + 1] = j /\ \A m \in 1..n : order'[m] = order[m] /\ order[m] \in Jobs
  BY <1>1, <1>2
<1> HIDE DEF n
<1>5. \A m \in 1..n : order[m] # j
  BY <1>2, <1>4 DEF TurnInv
<1>6. attempts[j] = 0
  BY <1>2 DEF AttemptInv
<1>7. \A s \in Sessions : current[s] # j /\ \A k \in DOMAIN pending[s] : pending[s][k] # j
  <2> SUFFICES ASSUME NEW s \in Sessions
               PROVE  current[s] # j /\ \A k \in DOMAIN pending[s] : pending[s][k] # j
    OBVIOUS
  <2>1. \A k \in DOMAIN pending[s] : pending[s][k] # j
    BY <1>1, <1>2 DEF PlaceInv
  <2>2. CASE lane[s] \in {"wait", "granted"}
    BY <1>1, <1>2, <2>1, <2>2 DEF PlaceInv
  <2>3. CASE lane[s] \in Executing
    BY <1>2, <2>1, <2>3 DEF Core, RunningIsOwned, LaneInv, Holding
  <2>4. CASE lane[s] \notin Holding
    BY <2>1, <2>4, SentinelAssumption DEF Core, LaneInv
  <2> QED  BY <2>2, <2>3, <2>4 DEF Holding
<1>11. /\ \A m \in DOMAIN order' : log'[order'[m]] # "none"
       /\ \A l, m \in DOMAIN order' : order'[l] = order'[m] => l = m
  <2>1. \A m \in 1..n : log'[order'[m]] # "none"
    BY <1>3, <1>4, <1>5 DEF TurnInv
  <2>2. log'[order'[n + 1]] # "none"
    BY <1>3, <1>4
  <2>3. \A l, m \in 1..n : order'[l] = order'[m] => l = m
    BY <1>4 DEF TurnInv
  <2>4. \A m \in 1..n : order'[m] # order'[n + 1]
    BY <1>4, <1>5
  <2>5. 1..(n + 1) = (1..n) \cup {n + 1}
    BY <1>4
  <2> QED  BY <1>4, <2>1, <2>2, <2>3, <2>4, <2>5
<1>12. ASSUME ~MayCutDrain, NEW i \in Jobs, NEW k \in Jobs, Waiting(i)', Before(i, k)'
       PROVE  /\ attempts'[k] = 0 /\ current'[SessionOf[i]] # k
              /\ \A a, b \in DOMAIN pending'[SessionOf[i]] :
                   pending'[SessionOf[i]][a] = i /\ pending'[SessionOf[i]][b] = k => a < b
  <2>1. PICK l, m \in DOMAIN order' : l < m /\ order'[l] = i /\ order'[m] = k
    BY <1>12 DEF Before
  <2>2. SessionOf[i] = SessionOf[k] /\ PriorityOf[i] = PriorityOf[k] /\ SessionOf[i] \in Sessions
    BY <1>12, JobAssumption DEF Before
  <2>3. l \in 1..n /\ order[l] = i
    BY <1>4, <2>1
  <2>4. Waiting(i)
    BY <1>2, <1>12 DEF Waiting
  <2>5. CASE k = j
    BY <1>2, <1>6, <1>7, <2>2, <2>5
  <2>6. CASE k # j
    <3>1. m \in 1..n /\ order[m] = k
      BY <1>4, <2>1, <2>6
    <3>2. Before(i, k)
      BY <1>4, <2>1, <2>2, <2>3, <3>1 DEF Before
    <3> QED  BY <1>2, <1>12, <2>4, <3>2 DEF TurnInv
  <2> QED  BY <2>5, <2>6
<1> QED  BY <1>2, <1>11, <1>12 DEF TurnInv

LEMMA TurnStep ==
  ASSUME Core, StandInv, TurnInv, AttemptInv, [Next]_vars
  PROVE  TurnInv'
<1> USE RecordShape
<1>0. ASSUME \A j \in Jobs : ~SubmitDuplicate(j) /\ ~Submit(j), ~Crash,
             UNCHANGED <<order, current, pending, backoff>>
      PROVE  TurnInv'
  <2>1. backoff \subseteq Jobs
    BY DEF Core, TypeOK
  <2>2. \A s \in Sessions : Keeps(pending[s], pending'[s], {})
    BY <1>0, SameKeeps
  <2> QED  BY <1>0, <2>1, <2>2, TurnAfter
<1>1. ASSUME NEW j \in Jobs, SubmitDuplicate(j) \/ Submit(j)
      PROVE  TurnInv'
  BY <1>1, TurnAfterSubmit, TurnAfterDuplicate
<1>2. ASSUME \A j \in Jobs : ~SubmitDuplicate(j) /\ ~Submit(j),
             order' = order, current' = current, ~Crash, NEW j \in backoff,
             backoff' = backoff \ {j},
             \A s \in Sessions : Keeps(pending[s], pending'[s], {j})
      PROVE  TurnInv'
  <2>1. backoff' \subseteq Jobs /\ attempts[j] # 0
    BY <1>2 DEF Core, TypeOK, TurnInv
  <2> QED  BY <1>2, <2>1, TurnAfter
<1>3. CASE \E j \in Jobs : SubmitDuplicate(j) \/ Submit(j)
  BY <1>1, <1>3
<1>4. CASE Crash
  <2>1. /\ backoff' = {} /\ order' = order
        /\ \A s \in Sessions : current'[s] = NoJob /\ pending'[s] = <<>>
    BY <1>4 DEF Crash
  <2>2. \A s \in Sessions : Keeps(pending[s], pending'[s], {})
    BY <2>1 DEF Keeps
  <2>3. \A j \in Jobs : ~SubmitDuplicate(j) /\ ~Submit(j)
    <3> SUFFICES ASSUME NEW j \in Jobs, SubmitDuplicate(j) \/ Submit(j) PROVE FALSE
      OBVIOUS
    <3>1. order' = Append(order, j) /\ order \in Seq(Jobs)
      BY DEF SubmitDuplicate, Submit, Core, TypeOK
    <3>2. Len(order') = Len(order) + 1 /\ Len(order) \in Nat
      BY <3>1
    <3> QED  BY <2>1, <3>2
  <2> QED  BY <2>1, <2>2, <2>3, TurnAfter
<1> SUFFICES ASSUME \A j \in Jobs : ~SubmitDuplicate(j) /\ ~Submit(j), ~Crash
             PROVE  TurnInv'
  BY <1>3, <1>4
<1>5. CASE UNCHANGED vars
  BY <1>0, <1>5 DEF vars, laneVars
<1>6. ASSUME NEW j \in Jobs, JobStep(j)
      PROVE  TurnInv'
  <2> DEFINE s == SessionOf[j]
  <2>1. CASE RequeueRefused(j)
    <3>1. j \in backoff /\ backoff' = backoff \ {j} /\ UNCHANGED <<order, current, pending>>
      BY <2>1 DEF RequeueRefused, laneVars
    <3> QED  BY <1>2, <3>1, SameKeeps
  <2>2. CASE Requeue(j)
    <3>1. /\ j \in backoff /\ backoff' = backoff \ {j} /\ Kick(j)
          /\ UNCHANGED <<order, current>>
      BY <2>2 DEF Requeue
    <3>2. \A t \in Sessions : Keeps(pending[t], pending'[t], {j})
      BY <3>1, KickKeeps DEF Core
    <3> QED  BY <1>2, <3>1, <3>2
  <2>3. CASE CancelPending(j)
    <3>0. s \in Sessions /\ TypeOK /\ backoff \subseteq Jobs
      BY JobAssumption DEF Core, TypeOK
    <3>1. PICK i \in DOMAIN pending[s] :
            pending[s][i] = j /\ pending' = [pending EXCEPT ![s] = RemoveAt(@, i)]
      BY <2>3 DEF CancelPending
    <3>2. pending[s] \in Seq(Jobs) /\ i \in 1..Len(pending[s])
      BY <3>0, <3>1 DEF TypeOK
    <3>3. pending'[s] = RemoveAt(pending[s], i) /\ \A t \in Sessions : t # s => pending'[t] = pending[t]
      BY <3>0, <3>1 DEF TypeOK
    <3>4. UNCHANGED <<order, current, backoff>>
      BY <2>3 DEF CancelPending
    <3> HIDE DEF s
    <3>5. /\ Len(pending'[s]) = Len(pending[s]) - 1
          /\ pending'[s] \in Seq(Jobs)
          /\ \A k \in 1..(Len(pending[s]) - 1) :
               pending'[s][k] = IF k < i THEN pending[s][k] ELSE pending[s][k + 1]
      BY <3>2, <3>3, RemoveAtFacts
    <3>6. \A t \in Sessions : Keeps(pending[t], pending'[t], {})
      BY <3>0, <3>2, <3>3, <3>5, KeptAfterRemoval
    <3> QED  BY <3>0, <3>4, <3>6, TurnAfter
  <2>4. CASE CancelCooperative(j)
    BY <1>0, <2>4 DEF CancelCooperative, laneVars
  <2> QED  BY <1>6, <2>1, <2>2, <2>3, <2>4 DEF JobStep
<1>7. ASSUME NEW s \in Sessions, LaneTurn(s)
      PROVE  TurnInv'
  <2>0. TypeOK /\ backoff \subseteq Jobs
    BY DEF Core, TypeOK
  <2>1. CASE LaneFlush(s)
    <3>1. /\ pending' = [pending EXCEPT ![s] = <<>>]
          /\ UNCHANGED <<order, current, backoff>>
      BY <2>1 DEF LaneFlush
    <3>2. \A t \in Sessions : pending'[t] = pending[t] \/ pending'[t] = <<>>
      BY <2>0, <3>1 DEF TypeOK
    <3>3. \A t \in Sessions : Keeps(pending[t], pending'[t], {})
      BY <3>2, SameKeeps DEF Keeps
    <3> QED  BY <2>0, <3>1, <3>3, TurnAfter
  <2>2. CASE LaneEnds(s)
    BY <1>0, <2>2 DEF LaneEnds
  <2>3. CASE LaneStarts(s)
    <3>1. Pop(s) /\ UNCHANGED <<order, backoff>>
      BY <2>3 DEF LaneStarts
    <3> QED  BY <3>1, TurnAfterPop
  <2>4. CASE LaneWaits(s)
    <3>1. Pop(s) /\ UNCHANGED <<order, backoff>>
      BY <2>4 DEF LaneWaits
    <3> QED  BY <3>1, TurnAfterPop
  <2>5. CASE LaneResumes(s)
    BY <1>0, <2>5 DEF LaneResumes
  <2> QED  BY <1>7, <2>1, <2>2, <2>3, <2>4, <2>5 DEF LaneTurn
<1>8. ASSUME NEW s \in Sessions, TimeoutThread(s)
      PROVE  TurnInv'
  BY <1>0, <1>8 DEF TimeoutThread
<1>9. ASSUME NEW s \in Sessions, Ends(s)
      PROVE  TurnInv'
  <2>1. PICK st : EndStep(s, st)
    BY <1>9, EndShape
  <2>2. /\ current[s] \in Jobs /\ status[current[s]] = "running" /\ backoff \subseteq Jobs
    BY <2>1 DEF EndStep, Core, LaneInv, RunningIsOwned, Holding, TypeOK
  <2>3. /\ backoff' = backoff \cup {j \in {current[s]} : st = "queued"}
        /\ current' = [current EXCEPT ![s] = NoJob]
        /\ UNCHANGED <<order, pending>>
    BY <2>1 DEF EndStep
  <2>4. \A t \in Sessions : current'[t] = current[t] \/ current'[t] = NoJob
    BY <2>3 DEF Core, TypeOK
  <2>5. /\ backoff' \subseteq Jobs
        /\ \A j \in backoff' : j \in backoff \/ status[j] = "running"
    BY <2>2, <2>3
  <2>6. \A t \in Sessions : Keeps(pending[t], pending'[t], {})
    BY <2>3, SameKeeps
  <2> QED  BY <2>3, <2>4, <2>5, <2>6, TurnAfter
<1>10. ASSUME NEW i \in live, ZombieEnds(i[1], i[2])
      PROVE  TurnInv'
  BY <1>0, <1>10 DEF ZombieEnds, laneVars
<1>11. CASE Start \/ Stop \/ StopReturns
  BY <1>0, <1>11 DEF Start, Stop, StopReturns, laneVars
<1>12. CASE StopCutsDrain
  <2>1. /\ \A s \in Sessions : current'[s] = NoJob
        /\ UNCHANGED <<order, pending, backoff>>
    BY <1>12 DEF StopCutsDrain
  <2>2. backoff' \subseteq Jobs /\ \A s \in Sessions : Keeps(pending[s], pending'[s], {})
    BY <2>1, SameKeeps DEF Core, TypeOK
  <2> QED  BY <2>1, <2>2, TurnAfter
<1> QED
  BY <1>5, <1>6, <1>7, <1>8, <1>9, <1>10, <1>11, <1>12 DEF Next

\* Within a lane, jobs of equal priority have their first start in the order of
\* submission, through _kick's insertions, retries, cancels and restarts.
THEOREM FirstStartsInOrder == Spec => []FirstStartInOrder
<1>1. Core /\ TurnInv => FirstStartInOrder
  <2> SUFFICES ASSUME Core, TurnInv, ~MayCutDrain, NEW m \in DOMAIN order, NEW n \in DOMAIN order,
                      m < n, SessionOf[order[m]] = SessionOf[order[n]],
                      PriorityOf[order[m]] = PriorityOf[order[n]],
                      attempts[order[n]] > 0, status[order[m]] \in InFlight
               PROVE  attempts[order[m]] > 0
    BY DEF FirstStartInOrder
  <2>1. /\ order[m] \in Jobs /\ order[n] \in Jobs
        /\ attempts[order[m]] \in Nat /\ attempts[order[n]] # 0
    BY DEF Core, TypeOK
  <2>2. ~Waiting(order[m])
    BY <2>1 DEF TurnInv, Before
  <2> QED  BY <2>1, <2>2 DEF Waiting, InFlight, TurnInv
<1>2. Init => StandInv /\ TurnInv
  BY InitStand, InitTurn
<1>3. Core /\ RecordInv /\ StandInv /\ TurnInv /\ [Next]_vars => StandInv' /\ TurnInv'
  BY StandStep, TurnStep DEF RecordInv
<1> QED  BY <1>1, <1>2, <1>3, RecordInvariant, PTL DEF Spec

=============================================================================
