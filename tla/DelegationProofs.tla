-------------------------- MODULE DelegationProofs --------------------------
(***************************************************************************)
(* Proofs about Delegation, for any tree and any size of the pool: how     *)
(* often a task is executed, and how many workers there are.               *)
(***************************************************************************)
EXTENDS Delegation, FiniteSetTheorems, TLAPS

Methods == {"initialize", "agent.run", "eof", "cancel"}
Verdicts == {"done", "failed", "error"}
Replies == {[method |-> "initialize", value |-> "ok"]}
             \cup {[method |-> "agent.run", value |-> v] : v \in Verdicts}
PCs == Working \cup {"queued", "ended"}

\* A reply in the box answers the request the thread still stands at.
Waits(n) ==
  /\ box[n] # "none" => pending[n] = "none"
  /\ pc[n] = "agent.run" /\ box[n] # "none" => box[n] \in Verdicts

TypeInv ==
  /\ TypeOK
  /\ stdin \in [Nodes -> Seq(Methods)] /\ stdout \in [Nodes -> Seq(Replies)]
  /\ runs \in [Nodes -> Nat]
  /\ \A n \in Nodes : Waits(n)

LEMMA TypeInit == Init => TypeInv
  BY DEF Init, TypeInv, TypeOK, Each, Waits, Gone, Working, Waiting, Methods, Replies

\* A request that is written, and one that is refused.
Written(n, method) ==
  /\ stdin' = [stdin EXCEPT ![n] = Append(@, method)]
  /\ pending' = [pending EXCEPT ![n] = method]
  /\ box' = [box EXCEPT ![n] = "none"]
  /\ pc' = [pc EXCEPT ![n] = method]
Refused(n) ==
  /\ pc' = [pc EXCEPT ![n] = "fallback"]
  /\ UNCHANGED <<stdin, pending, box>>

\* What a request does to its child.
LEMMA RequestOK ==
  ASSUME TypeInv, NEW n \in Nodes, NEW method \in Waiting,
         Written(n, method) \/ Refused(n)
  PROVE  /\ pc' \in [Nodes -> PCs] /\ stdin' \in [Nodes -> Seq(Methods)]
         /\ pending' \in [Nodes -> Waiting \cup {"none"}]
         /\ box' \in [Nodes -> {"none", "ok", "done", "failed", "error"}]
         /\ \A m \in Nodes \ {n} : /\ pc'[m] = pc[m] /\ stdin'[m] = stdin[m]
                                   /\ pending'[m] = pending[m] /\ box'[m] = box[m]
         /\ \/ /\ pc'[n] = method /\ pending'[n] = method /\ box'[n] = "none"
               /\ stdin'[n] = Append(stdin[n], method)
            \/ /\ pc'[n] = "fallback" /\ pending'[n] = pending[n] /\ box'[n] = box[n]
               /\ stdin'[n] = stdin[n]
<1>1. Waiting \subseteq Methods /\ Waiting \subseteq PCs
  BY DEF Waiting, Methods, PCs, Working
<1>2. CASE Written(n, method)
  BY <1>1, <1>2 DEF TypeInv, TypeOK, Written, PCs
<1>3. CASE Refused(n)
  BY <1>3 DEF TypeInv, TypeOK, Refused, PCs, Working
<1> QED  BY <1>2, <1>3

\* The waits of the other children are their own.
Registered(n) == pending[n] # "none" => pc[n] = pending[n]

LEMMA Elsewhere ==
  ASSUME TypeInv, NEW n \in Nodes, Registered(n)', Waits(n)',
         \A m \in Nodes \ {n} : pc'[m] = pc[m] /\ pending'[m] = pending[m] /\ box'[m] = box[m]
  PROVE  \A m \in Nodes : (pending'[m] # "none" => pc'[m] = pending'[m]) /\ Waits(m)'
<1>1. \A m \in Nodes \ {n} : (pending'[m] # "none" => pc'[m] = pending'[m]) /\ Waits(m)'
  BY DEF TypeInv, TypeOK, Waits
<1> QED  BY <1>1 DEF Registered

LEMMA TypeStep ==
  ASSUME TypeInv, [Next]_vars
  PROVE  TypeInv'
<1> USE DEF TypeInv, TypeOK, Waits, threads, pipes, client, PCs, Goto, Mark
<1>1. CASE UNCHANGED vars
  BY <1>1 DEF vars
<1>2. ASSUME NEW n \in Nodes, Begin(n), rpc' = rpc
      PROVE  TypeInv'
  <2>1. CASE Request(n, "initialize", TRUE)
    <3>0. Written(n, "initialize")
      BY <2>1 DEF Request, Written
    <3>1. "initialize" \in Waiting
      BY DEF Waiting
    <3>2. /\ worker' \in [Nodes -> Gone \cup Waiting \cup {"idle"}]
          /\ active' \subseteq Nodes
          /\ status' \in [Nodes -> {"pending", "running", "done", "failed"}]
          /\ tree' = tree /\ stdout' = stdout /\ runs' = runs
      BY <1>2 DEF Begin
    <3>3. pending[n] = "none"
      BY <1>2 DEF Begin, Waiting
    <3>4. /\ pc' \in [Nodes -> PCs] /\ stdin' \in [Nodes -> Seq(Methods)]
          /\ pending' \in [Nodes -> Waiting \cup {"none"}]
          /\ box' \in [Nodes -> {"none", "ok", "done", "failed", "error"}]
          /\ \A m \in Nodes \ {n} : /\ pc'[m] = pc[m]
                                    /\ pending'[m] = pending[m] /\ box'[m] = box[m]
          /\ \/ pc'[n] = "initialize" /\ pending'[n] = "initialize" /\ box'[n] = "none"
             \/ pc'[n] = "fallback" /\ pending'[n] = pending[n] /\ box'[n] = box[n]
      BY <3>0, <3>1, RequestOK
    <3>5. Registered(n)' /\ Waits(n)'
      BY <3>3, <3>4 DEF Registered
    <3>6. \A m \in Nodes : (pending'[m] # "none" => pc'[m] = pending'[m]) /\ Waits(m)'
      BY <3>4, <3>5, Elsewhere
    <3> QED  BY <1>2, <3>2, <3>4, <3>6
  <2>2. CASE ~Request(n, "initialize", TRUE)
    <3>1. /\ pc' = [pc EXCEPT ![n] = "close"] \/ pc' = [pc EXCEPT ![n] = "inprocess"]
          /\ status' \in [Nodes -> {"pending", "running", "done", "failed"}]
          /\ UNCHANGED <<tree, active, worker, stdin, stdout, pending, box, runs>>
      BY <1>2, <2>2 DEF Begin
    <3>2. pending[n] = "none"
      BY <1>2 DEF Begin, Waiting
    <3>3. "close" \in PCs /\ "inprocess" \in PCs
      BY DEF Working
    <3>4. /\ pc' \in [Nodes -> PCs] /\ pc'[n] # "agent.run"
          /\ \A m \in Nodes \ {n} : pc'[m] = pc[m]
      <4>1. CASE pc' = [pc EXCEPT ![n] = "close"]
        BY <3>3, <4>1
      <4>2. CASE pc' = [pc EXCEPT ![n] = "inprocess"]
        BY <3>3, <4>2
      <4> QED  BY <3>1, <4>1, <4>2
    <3>5. Registered(n)' /\ Waits(n)'
      BY <3>1, <3>2, <3>4 DEF Registered
    <3>6. \A m \in Nodes : (pending'[m] # "none" => pc'[m] = pending'[m]) /\ Waits(m)'
      BY <3>1, <3>4, <3>5, Elsewhere
    <3> QED  BY <1>2, <3>1, <3>4, <3>6
  <2> QED  BY <2>1, <2>2
<1>3. ASSUME NEW n \in Nodes, Answered(n), rpc' = rpc
      PROVE  TypeInv'
  <2>1. pending[n] = "none" /\ UNCHANGED <<tree, active, worker, stdout, runs>>
    BY <1>3 DEF Answered
  <2>2. CASE box[n] = "error"
    BY <1>3, <2>1, <2>2 DEF Answered, Working
  <2>3. CASE box[n] # "error" /\ pc[n] = "initialize"
    <3>1. "agent.run" \in Waiting
      BY DEF Waiting
    <3>2. (Written(n, "agent.run") \/ Refused(n)) /\ status' = status
      BY <1>3, <2>3 DEF Answered, Request, Written, Refused
    <3>3. /\ pc' \in [Nodes -> PCs] /\ stdin' \in [Nodes -> Seq(Methods)]
          /\ pending' \in [Nodes -> Waiting \cup {"none"}]
          /\ box' \in [Nodes -> {"none", "ok", "done", "failed", "error"}]
          /\ \A m \in Nodes \ {n} : /\ pc'[m] = pc[m]
                                    /\ pending'[m] = pending[m] /\ box'[m] = box[m]
          /\ \/ pc'[n] = "agent.run" /\ pending'[n] = "agent.run" /\ box'[n] = "none"
             \/ pc'[n] = "fallback" /\ pending'[n] = pending[n] /\ box'[n] = box[n]
      BY <3>1, <3>2, RequestOK
    <3>4. Registered(n)' /\ Waits(n)'
      BY <2>1, <3>3 DEF Registered
    <3>5. \A m \in Nodes : (pending'[m] # "none" => pc'[m] = pending'[m]) /\ Waits(m)'
      BY <3>3, <3>4, Elsewhere
    <3> QED  BY <1>3, <2>1, <3>2, <3>3, <3>5
  <2>4. CASE box[n] # "error" /\ pc[n] = "agent.run"
    <3>1. box[n] \in {"done", "failed"}
      BY <1>3, <2>4 DEF Answered, Verdicts
    <3>2. status' = [status EXCEPT ![n] = box[n]] /\ pc' = [pc EXCEPT ![n] = "close"]
          /\ UNCHANGED <<stdin, client>>
      BY <1>3, <2>4 DEF Answered
    <3> QED  BY <1>3, <2>1, <3>1, <3>2 DEF Working
  <2> QED  BY <1>3, <2>2, <2>3, <2>4 DEF Answered
<1>4. ASSUME NEW n \in Nodes, Timeout(n), rpc' = rpc
      PROVE  TypeInv'
  BY <1>4 DEF Timeout, Working
<1>5. ASSUME NEW n \in Nodes, InProcess(n), rpc' = rpc
      PROVE  TypeInv'
  <2>1. PICK s \in {"done", "failed"} :
          /\ status' = [status EXCEPT ![n] = s] /\ pc' = [pc EXCEPT ![n] = "close"]
          /\ runs' = [runs EXCEPT ![n] = @ + 1]
          /\ UNCHANGED <<tree, active, worker, stdin, stdout, pending, box>>
    BY <1>5 DEF InProcess, AfterFallback
  <2>2. pending[n] = "none"
    BY <1>5 DEF InProcess, Waiting
  <2>3. pc' \in [Nodes -> PCs] /\ \A m \in Nodes \ {n} : pc'[m] = pc[m]
    BY <2>1 DEF Working
  <2>4. Registered(n)' /\ Waits(n)'
    BY <2>1, <2>2 DEF Registered
  <2>5. \A m \in Nodes : (pending'[m] # "none" => pc'[m] = pending'[m]) /\ Waits(m)'
    BY <2>1, <2>3, <2>4, Elsewhere
  <2>6. /\ status' \in [Nodes -> {"pending", "running", "done", "failed"}]
        /\ runs' \in [Nodes -> Nat]
    BY <2>1
  <2> QED  BY <1>5, <2>1, <2>3, <2>5, <2>6
<1>6. ASSUME NEW n \in Nodes, Close(n), rpc' = rpc
      PROVE  TypeInv'
  <2>1. /\ pc' = [pc EXCEPT ![n] = "reap"] /\ active' \subseteq active
        /\ stdin' = [stdin EXCEPT ![n] = Append(@, "eof")]
        /\ UNCHANGED <<status, tree, worker, stdout, pending, box, runs>>
    BY <1>6 DEF Close
  <2>2. pending[n] = "none"
    BY <1>6 DEF Close, Waiting
  <2>3. pc' \in [Nodes -> PCs] /\ \A m \in Nodes \ {n} : pc'[m] = pc[m]
    BY <2>1 DEF Working
  <2>4. Registered(n)' /\ Waits(n)'
    BY <2>1, <2>2 DEF Registered
  <2>5. \A m \in Nodes : (pending'[m] # "none" => pc'[m] = pending'[m]) /\ Waits(m)'
    BY <2>1, <2>3, <2>4, Elsewhere
  <2>6. stdin' \in [Nodes -> Seq(Methods)]
    BY <2>1 DEF Methods
  <2> QED  BY <1>6, <2>1, <2>3, <2>5, <2>6
<1>7. ASSUME NEW n \in Nodes, Reap(n), rpc' = rpc
      PROVE  TypeInv'
  BY <1>7 DEF Reap, Gone
<1>8. ASSUME NEW n \in Nodes, Deliver(n), rpc' = rpc
      PROVE  TypeInv'
  <2>1. stdout[n] \in Seq(Replies) /\ stdout[n] # <<>>
    BY <1>8 DEF Deliver
  <2>2. Head(stdout[n]) \in Replies /\ Tail(stdout[n]) \in Seq(Replies)
    BY <2>1
  <2>3. stdout' = [stdout EXCEPT ![n] = Tail(@)]
        /\ UNCHANGED <<pc, status, tree, active, worker, stdin, runs>>
    BY <1>8 DEF Deliver
  <2>4. stdout' \in [Nodes -> Seq(Replies)]
    BY <2>2, <2>3
  <2> DEFINE reply == Head(stdout[n])
  <2>5. CASE pending[n] = reply.method
    <3>1. box' = [box EXCEPT ![n] = reply.value] /\ pending' = [pending EXCEPT ![n] = "none"]
      BY <1>8, <2>5 DEF Deliver
    <3>2. reply.value \in {"ok", "done", "failed", "error"}
          /\ (reply.method = "agent.run" => reply.value \in Verdicts)
          /\ reply.method # "none"
      BY <2>2 DEF Replies, Verdicts
    <3>3. pc[n] = reply.method
      BY <2>5, <3>2
    <3> HIDE DEF reply
    <3> QED  BY <1>8, <2>3, <2>4, <3>1, <3>2, <3>3
  <2>6. CASE pending[n] # reply.method
    <3>1. UNCHANGED <<box, pending>>
      BY <1>8, <2>6 DEF Deliver
    <3> QED  BY <1>8, <2>3, <2>4, <3>1
  <2> QED  BY <2>5, <2>6
<1>9. ASSUME NEW n \in Nodes, Read(n), rpc' = rpc
      PROVE  TypeInv'
  <2>1. stdin[n] \in Seq(Methods) /\ stdin[n] # <<>>
    BY <1>9 DEF Read
  <2>2. Head(stdin[n]) \in Methods /\ Tail(stdin[n]) \in Seq(Methods)
    BY <2>1
  <2>3. stdin' \in [Nodes -> Seq(Methods)] /\ runs' \in [Nodes -> Nat]
        /\ UNCHANGED <<pc, status, tree, active, stdout, pending, box>>
    BY <1>9, <2>2 DEF Read
  <2>4. worker' \in [Nodes -> Gone \cup Waiting \cup {"idle"}]
    BY <1>9, <2>2 DEF Read, Methods, Gone, Waiting
  <2> QED  BY <1>9, <2>3, <2>4
<1>10. ASSUME NEW n \in Nodes, Answer(n), rpc' = rpc
       PROVE  TypeInv'
  <2>1. PICK value \in (IF worker[n] = "initialize" THEN {"ok"} ELSE Verdicts) :
          stdout' = [stdout EXCEPT ![n] = Append(@, [method |-> worker[n], value |-> value])]
    BY <1>10 DEF Answer, Verdicts
  <2>2. [method |-> worker[n], value |-> value] \in Replies
    BY <1>10, <2>1 DEF Answer, Waiting, Replies
  <2>3. stdout' \in [Nodes -> Seq(Replies)]
    BY <2>1, <2>2
  <2> QED  BY <1>10, <2>3 DEF Answer
<1>11. ASSUME NEW n \in Nodes, Die(n), rpc' = rpc
       PROVE  TypeInv'
  BY <1>11 DEF Die, Gone
<1>12. CASE Finish /\ rpc' = rpc
  BY <1>12 DEF Finish, Verdict
<1>13. CASE CancelTree /\ rpc' = rpc
  BY <1>13 DEF CancelTree, Methods
<1> QED
  BY <1>1, <1>2, <1>3, <1>4, <1>5, <1>6, <1>7, <1>8, <1>9, <1>10, <1>11, <1>12, <1>13
  DEF Next, Move, Thread

-----------------------------------------------------------------------------
(* The executions of a task *)

\* Whether the request to run the task is among the unread ones, and once only.
Has(q) == \E i \in 1..Len(q) : q[i] = "agent.run"
Once(q) ==
  \A i, j \in 1..Len(q) : q[i] = "agent.run" /\ q[j] = "agent.run" => i = j

LEMMA AppendOther ==
  ASSUME NEW q \in Seq(Methods), NEW m \in Methods \ {"agent.run"}
  PROVE  Has(Append(q, m)) = Has(q) /\ (Once(q) => Once(Append(q, m)))
  BY DEF Has, Once

LEMMA AppendRun ==
  ASSUME NEW q \in Seq(Methods), ~Has(q)
  PROVE  Once(Append(q, "agent.run"))
  BY DEF Has, Once

LEMMA TailOf ==
  ASSUME NEW q \in Seq(Methods), q # <<>>, Once(q)
  PROVE  /\ Once(Tail(q)) /\ (Has(Tail(q)) => Has(q))
         /\ Head(q) = "agent.run" => Has(q) /\ ~Has(Tail(q))
<1>1. /\ Len(q) \in Nat \ {0} /\ Len(Tail(q)) = Len(q) - 1 /\ Head(q) = q[1]
      /\ \A i \in 1..Len(Tail(q)) : Tail(q)[i] = q[i + 1] /\ i + 1 \in 1..Len(q)
  OBVIOUS
<1>2. Once(Tail(q))
  BY <1>1 DEF Once
<1>3. Has(Tail(q)) => Has(q)
  BY <1>1 DEF Has
<1>4. ASSUME Head(q) = "agent.run" PROVE Has(q) /\ ~Has(Tail(q))
  BY <1>1, <1>4 DEF Has, Once
<1> QED  BY <1>2, <1>3, <1>4

\* The executions a child may still have: in its worker, when the request is to
\* be sent or read, and in the parent, when its thread may yet fall back.
InWorker(n) == IF pc[n] \in {"queued", "initialize"} \/ Has(stdin[n]) THEN 1 ELSE 0
InParent(n) ==
  IF pc[n] \in {"queued", "initialize", "agent.run", "inprocess", "fallback"}
  THEN 1 ELSE 0

Executions(n) ==
  /\ runs[n] + InWorker(n) + InParent(n) <= 2
  /\ Once(stdin[n])
  /\ pc[n] \in {"queued", "initialize"} => ~Has(stdin[n])

RunsInv == \A n \in Nodes : Executions(n)

LEMMA RunsInit == Init => RunsInv
  BY DEF Init, Each, RunsInv, Executions, InWorker, InParent, Has, Once

\* A child that nothing of this happens to.
LEMMA RunsElsewhere ==
  ASSUME RunsInv, NEW n \in Nodes, Executions(n)',
         \A m \in Nodes \ {n} : pc'[m] = pc[m] /\ stdin'[m] = stdin[m] /\ runs'[m] = runs[m]
  PROVE  RunsInv'
  BY DEF RunsInv, Executions, InWorker, InParent

LEMMA RunsStep ==
  ASSUME TypeInv, RunsInv, [Next]_vars
  PROVE  RunsInv'
<1> USE DEF threads, pipes, client, Goto, Mark
<1>0. ASSUME NEW n \in Nodes
      PROVE  /\ runs[n] \in Nat /\ stdin[n] \in Seq(Methods) /\ Executions(n)
             /\ InWorker(n) \in {0, 1} /\ InParent(n) \in {0, 1}
  BY DEF TypeInv, RunsInv, InWorker, InParent
<1>1. CASE UNCHANGED vars
  BY <1>1 DEF vars, RunsInv, Executions, InWorker, InParent
<1>2. ASSUME NEW n \in Nodes, Begin(n)
      PROVE  RunsInv'
  <2>1. CASE Written(n, "initialize") /\ runs' = runs
    <3>1. /\ \A m \in Nodes \ {n} : pc'[m] = pc[m] /\ stdin'[m] = stdin[m] /\ runs'[m] = runs[m]
          /\ pc'[n] = "initialize" /\ pc[n] = "queued" /\ runs'[n] = runs[n]
          /\ stdin'[n] = Append(stdin[n], "initialize")
      BY <1>2, <2>1 DEF Begin, Written, TypeInv, TypeOK
    <3>2. Has(stdin'[n]) = Has(stdin[n]) /\ Once(stdin'[n])
      BY <1>0, <3>1, AppendOther DEF Methods, Executions
    <3>3. Executions(n)'
      BY <1>0, <3>1, <3>2 DEF Executions, InWorker, InParent
    <3> QED  BY <3>1, <3>3, RunsElsewhere
  <2>2. CASE ~Written(n, "initialize")
    <3>1. /\ \A m \in Nodes \ {n} : pc'[m] = pc[m] /\ stdin'[m] = stdin[m] /\ runs'[m] = runs[m]
          /\ pc'[n] \in {"close", "inprocess"} /\ pc[n] = "queued"
          /\ runs'[n] = runs[n] /\ stdin'[n] = stdin[n]
      BY <1>2, <2>2 DEF Begin, Request, Written, TypeInv, TypeOK
    <3>2. Executions(n)'
      BY <1>0, <3>1 DEF Executions, InWorker, InParent
    <3> QED  BY <3>1, <3>2, RunsElsewhere
  <2> QED  BY <1>2, <2>1, <2>2 DEF Begin
<1>3. ASSUME NEW n \in Nodes, Answered(n)
      PROVE  RunsInv'
  <2>1. CASE pc[n] = "initialize" /\ Written(n, "agent.run")
    <3>1. /\ \A m \in Nodes \ {n} : pc'[m] = pc[m] /\ stdin'[m] = stdin[m] /\ runs'[m] = runs[m]
          /\ pc'[n] = "agent.run" /\ runs'[n] = runs[n]
          /\ stdin'[n] = Append(stdin[n], "agent.run")
      BY <1>3, <2>1 DEF Answered, Written, TypeInv, TypeOK
    <3>2. Once(stdin'[n])
      BY <1>0, <2>1, <3>1, AppendRun DEF Executions
    <3>3. Executions(n)'
      BY <1>0, <2>1, <3>1, <3>2 DEF Executions, InWorker, InParent
    <3> QED  BY <3>1, <3>3, RunsElsewhere
  <2>2. CASE ~(pc[n] = "initialize" /\ Written(n, "agent.run"))
    <3>1. /\ \A m \in Nodes \ {n} : pc'[m] = pc[m] /\ stdin'[m] = stdin[m] /\ runs'[m] = runs[m]
          /\ pc'[n] \in {"fallback", "close"} /\ pc[n] \in Waiting
          /\ runs'[n] = runs[n] /\ stdin'[n] = stdin[n]
      BY <1>3, <2>2 DEF Answered, Request, Written, TypeInv, TypeOK
    <3>2. Executions(n)'
      BY <1>0, <3>1 DEF Executions, InWorker, InParent, Waiting
    <3> QED  BY <3>1, <3>2, RunsElsewhere
  <2> QED  BY <2>1, <2>2
<1>4. ASSUME NEW n \in Nodes, Timeout(n)
      PROVE  RunsInv'
  <2>1. /\ \A m \in Nodes \ {n} : pc'[m] = pc[m] /\ stdin'[m] = stdin[m] /\ runs'[m] = runs[m]
        /\ pc'[n] = "fallback" /\ pc[n] \in Waiting
        /\ runs'[n] = runs[n] /\ stdin'[n] = stdin[n]
    BY <1>4 DEF Timeout, TypeInv, TypeOK
  <2>2. Executions(n)'
    BY <1>0, <2>1 DEF Executions, InWorker, InParent, Waiting
  <2> QED  BY <2>1, <2>2, RunsElsewhere
<1>5. ASSUME NEW n \in Nodes, InProcess(n)
      PROVE  RunsInv'
  <2>1. /\ \A m \in Nodes \ {n} : pc'[m] = pc[m] /\ stdin'[m] = stdin[m] /\ runs'[m] = runs[m]
        /\ pc'[n] = "close" /\ pc[n] \in {"inprocess", "fallback"}
        /\ runs'[n] = runs[n] + 1 /\ stdin'[n] = stdin[n]
    BY <1>5 DEF InProcess, AfterFallback, TypeInv, TypeOK
  <2>2. Executions(n)'
    BY <1>0, <2>1 DEF Executions, InWorker, InParent
  <2> QED  BY <2>1, <2>2, RunsElsewhere
<1>6. ASSUME NEW n \in Nodes, Close(n)
      PROVE  RunsInv'
  <2>1. /\ \A m \in Nodes \ {n} : pc'[m] = pc[m] /\ stdin'[m] = stdin[m] /\ runs'[m] = runs[m]
        /\ pc'[n] = "reap" /\ runs'[n] = runs[n]
        /\ stdin'[n] = Append(stdin[n], "eof")
    BY <1>6 DEF Close, TypeInv, TypeOK
  <2>2. Has(stdin'[n]) = Has(stdin[n]) /\ Once(stdin'[n])
    BY <1>0, <2>1, AppendOther DEF Methods, Executions
  <2>3. Executions(n)'
    BY <1>0, <2>1, <2>2 DEF Executions, InWorker, InParent
  <2> QED  BY <2>1, <2>3, RunsElsewhere
<1>7. ASSUME NEW n \in Nodes, Reap(n)
      PROVE  RunsInv'
  <2>1. /\ \A m \in Nodes \ {n} : pc'[m] = pc[m] /\ stdin'[m] = stdin[m] /\ runs'[m] = runs[m]
        /\ pc'[n] = "ended" /\ runs'[n] = runs[n] /\ stdin'[n] = <<>>
    BY <1>7 DEF Reap, TypeInv, TypeOK
  <2>2. ~Has(stdin'[n]) /\ Once(stdin'[n])
    BY <2>1 DEF Has, Once
  <2>3. Executions(n)'
    BY <1>0, <2>1, <2>2 DEF Executions, InWorker, InParent
  <2> QED  BY <2>1, <2>3, RunsElsewhere
<1>8. ASSUME NEW n \in Nodes, Read(n)
      PROVE  RunsInv'
  <2>1. /\ \A m \in Nodes \ {n} : pc'[m] = pc[m] /\ stdin'[m] = stdin[m] /\ runs'[m] = runs[m]
        /\ pc'[n] = pc[n] /\ stdin'[n] = Tail(stdin[n]) /\ stdin[n] # <<>>
        /\ runs'[n] = IF Head(stdin[n]) = "agent.run" THEN runs[n] + 1 ELSE runs[n]
    BY <1>8 DEF Read, TypeInv, TypeOK
  <2>2. /\ Once(stdin'[n]) /\ (Has(stdin'[n]) => Has(stdin[n]))
        /\ Head(stdin[n]) = "agent.run" => Has(stdin[n]) /\ ~Has(stdin'[n])
    BY <1>0, <2>1, TailOf DEF Executions
  <2>3. Executions(n)'
    BY <1>0, <2>1, <2>2 DEF Executions, InWorker, InParent
  <2> QED  BY <2>1, <2>3, RunsElsewhere
<1>9. ASSUME NEW n \in Nodes, Deliver(n) \/ Answer(n) \/ Die(n)
      PROVE  RunsInv'
  BY <1>9 DEF Deliver, Answer, Die, RunsInv, Executions, InWorker, InParent
<1>10. CASE Finish
  BY <1>10 DEF Finish, RunsInv, Executions, InWorker, InParent
<1>11. CASE CancelTree
  <2>1. pc' = pc /\ runs' = runs
    BY <1>11 DEF CancelTree
  <2> SUFFICES ASSUME NEW n \in Nodes PROVE Executions(n)'
    BY DEF RunsInv
  <2>2. stdin'[n] = stdin[n] \/ stdin'[n] = Append(stdin[n], "cancel")
    BY <1>11 DEF CancelTree
  <2>3. Has(stdin'[n]) = Has(stdin[n]) /\ Once(stdin'[n])
    <3>1. CASE stdin'[n] = stdin[n]
      BY <1>0, <3>1 DEF Executions
    <3>2. CASE stdin'[n] = Append(stdin[n], "cancel")
      BY <1>0, <3>2, AppendOther DEF Methods, Executions
    <3> QED  BY <2>2, <3>1, <3>2
  <2> QED  BY <1>0, <2>1, <2>3 DEF Executions, InWorker, InParent
<1> QED
  BY <1>1, <1>2, <1>3, <1>4, <1>5, <1>6, <1>7, <1>8, <1>9, <1>10, <1>11
  DEF Next, Move, Thread

-----------------------------------------------------------------------------
(* The workers *)

Busy == {n \in Nodes : pc[n] \in Working}

\* Only a child whose thread is at work has a process or a client; only when
\* all have ended there is a verdict.
WorkerInv ==
  /\ \A n \in Nodes : worker[n] \notin Gone => pc[n] \in Working
  /\ \A n \in active : pc[n] \in Working \ {"reap"}
  /\ Cardinality(Busy) <= MaxWorkers
  /\ tree # "running" => \A n \in Nodes : pc[n] = "ended"

LEMMA BusyFinite ==
  ASSUME NEW S, S \subseteq Nodes
  PROVE  IsFiniteSet(S) /\ Cardinality(S) \in Nat
  BY DelegationAssumption, FS_Subset, FS_CardinalityType

LEMMA WorkerInit == Init => WorkerInv
<1> SUFFICES ASSUME Init PROVE WorkerInv
  OBVIOUS
<1>1. Busy = {}
  BY DEF Init, Each, Busy, Working
<1>2. Cardinality(Busy) = 0
  BY <1>1, FS_EmptySet
<1> QED  BY <1>2, DelegationAssumption DEF Init, Each, WorkerInv, Gone

\* A step that lets no other thread begin.
LEMMA NoneBegins ==
  ASSUME WorkerInv, \A n \in Nodes : pc'[n] \in Working => pc[n] \in Working
  PROVE  Cardinality(Busy') <= MaxWorkers
<1>1. Busy' \subseteq Busy /\ Busy \subseteq Nodes
  BY DEF Busy
<1>2. Cardinality(Busy') <= Cardinality(Busy)
  BY <1>1, BusyFinite, FS_Subset
<1> QED  BY <1>1, <1>2, BusyFinite, DelegationAssumption DEF WorkerInv, Busy

LEMMA WorkerStep ==
  ASSUME TypeInv, WorkerInv, [Next]_vars
  PROVE  WorkerInv'
<1> USE DEF TypeInv, TypeOK, threads, pipes, client, Goto, Mark
<1>1. CASE UNCHANGED vars
  BY <1>1 DEF vars, WorkerInv, Busy
<1>2. ASSUME NEW n \in Nodes, Begin(n)
      PROVE  WorkerInv'
  <2>1. /\ \A m \in Nodes \ {n} : pc'[m] = pc[m] /\ worker'[m] = worker[m]
        /\ pc[n] = "queued" /\ pc'[n] \in Working \ {"reap"}
        /\ active' \subseteq active \cup {n} /\ tree' = tree
    BY <1>2 DEF Begin, Request, Working
  <2>2. Busy' = Busy \cup {n} /\ n \notin Busy /\ Busy \subseteq Nodes
    BY <2>1 DEF Busy, Working
  <2>3. Cardinality(Busy) < MaxWorkers
    BY <1>2 DEF Begin, Busy
  <2>4. Cardinality(Busy') = Cardinality(Busy) + 1
    BY <2>2, BusyFinite, FS_AddElement
  <2>5. Cardinality(Busy') <= MaxWorkers
    BY <2>2, <2>3, <2>4, BusyFinite, DelegationAssumption
  <2> QED  BY <2>1, <2>5 DEF WorkerInv
<1>3. ASSUME NEW n \in Nodes,
             Answered(n) \/ Timeout(n) \/ InProcess(n)
      PROVE  WorkerInv'
  <2>1. /\ \A m \in Nodes \ {n} : pc'[m] = pc[m]
        /\ pc[n] \in Working /\ pc'[n] \in Working \ {"reap"}
        /\ UNCHANGED <<active, worker, tree>>
    BY <1>3 DEF Answered, Request, Timeout, InProcess, AfterFallback, Working, Waiting
  <2>2. Cardinality(Busy') <= MaxWorkers
    BY <2>1, NoneBegins
  <2> QED  BY <2>1, <2>2 DEF WorkerInv, Working
<1>4. ASSUME NEW n \in Nodes, Close(n)
      PROVE  WorkerInv'
  <2>1. /\ \A m \in Nodes \ {n} : pc'[m] = pc[m]
        /\ pc[n] = "close" /\ pc'[n] = "reap" /\ {"close", "reap"} \subseteq Working
        /\ active' = active \ {n} /\ UNCHANGED <<worker, tree>>
    BY <1>4 DEF Close, Working
  <2>2. Cardinality(Busy') <= MaxWorkers
    BY <2>1, NoneBegins
  <2> QED  BY <2>1, <2>2 DEF WorkerInv
<1>5. ASSUME NEW n \in Nodes, Reap(n)
      PROVE  WorkerInv'
  <2>1. /\ \A m \in Nodes \ {n} : pc'[m] = pc[m] /\ worker'[m] = worker[m]
        /\ pc[n] = "reap" /\ pc'[n] = "ended" /\ worker'[n] \in Gone
        /\ "reap" \in Working /\ "ended" \notin Working
        /\ UNCHANGED <<active, tree>>
    BY <1>5 DEF Reap, Working, Gone
  <2>2. Cardinality(Busy') <= MaxWorkers
    BY <2>1, NoneBegins
  <2> QED  BY <2>1, <2>2 DEF WorkerInv
<1>6. ASSUME NEW n \in Nodes, Deliver(n) \/ Read(n) \/ Answer(n) \/ Die(n)
      PROVE  WorkerInv'
  <2>1. /\ \A m \in Nodes : worker[m] \in Gone => worker'[m] \in Gone
        /\ UNCHANGED <<pc, active, tree>>
    BY <1>6 DEF Deliver, Read, Answer, Die, Gone, Waiting
  <2>2. Cardinality(Busy') <= MaxWorkers
    BY <2>1, NoneBegins
  <2> QED  BY <2>1, <2>2 DEF WorkerInv
<1>7. CASE Finish
  BY <1>7 DEF Finish, WorkerInv, Busy
<1>8. CASE CancelTree
  BY <1>8 DEF CancelTree, WorkerInv, Busy
<1> QED
  BY <1>1, <1>2, <1>3, <1>4, <1>5, <1>6, <1>7, <1>8 DEF Next, Move, Thread

-----------------------------------------------------------------------------
(* The theorems *)

LEMMA TypesAlways == Spec => []TypeInv
<1>1. TypeInv /\ [Next]_vars => TypeInv'
  BY TypeStep
<1> QED  BY TypeInit, <1>1, PTL DEF Spec

\* Every variable keeps its type, and a request stays registered no longer than
\* the thread of its child waits for it.
THEOREM DelegationTyped == Spec => []TypeOK
<1>1. TypeInv => TypeOK
  BY DEF TypeInv
<1> QED  BY <1>1, TypesAlways, PTL

\* A task is executed at most twice, whatever the order of its timeout, its
\* answer, its cancellation and the death of its worker.
THEOREM ExecutedAtMostTwice == Spec => []AtMostTwice
<1>1. RunsInv /\ TypeInv /\ TypeInv' /\ [Next]_vars => RunsInv'
  BY RunsStep
<1>2. RunsInv /\ TypeInv => AtMostTwice
  <2> SUFFICES ASSUME RunsInv, TypeInv, NEW n \in Nodes PROVE runs[n] <= 2
    BY DEF AtMostTwice
  <2>1. runs[n] \in Nat /\ InWorker(n) \in {0, 1} /\ InParent(n) \in {0, 1}
    BY DEF TypeInv, InWorker, InParent
  <2>2. runs[n] + InWorker(n) + InParent(n) <= 2
    BY DEF RunsInv, Executions
  <2> QED  BY <2>1, <2>2
<1> QED  BY RunsInit, <1>1, <1>2, TypesAlways, PTL DEF Spec

\* There are never more workers than the pool has threads, and none is left at
\* the verdict.
THEOREM WorkersAreBounded == Spec => []WorkersBounded
<1>1. WorkerInv /\ TypeInv /\ [Next]_vars => WorkerInv'
  BY WorkerStep
<1>2. WorkerInv /\ TypeInv => WorkersBounded
  <2> SUFFICES ASSUME WorkerInv, TypeInv PROVE WorkersBounded
    OBVIOUS
  <2> DEFINE alive == {n \in Nodes : worker[n] \notin Gone}
  <2>1. alive \subseteq Busy /\ Busy \subseteq Nodes
    BY DEF WorkerInv, Busy
  <2>2. Cardinality(alive) <= Cardinality(Busy)
    BY <2>1, BusyFinite, FS_Subset
  <2>3. Cardinality(alive) <= MaxWorkers
    BY <2>1, <2>2, BusyFinite, DelegationAssumption DEF WorkerInv
  <2>4. tree # "running" => alive = {} /\ active = {}
    BY DEF WorkerInv, TypeInv, TypeOK, Working
  <2> QED  BY <2>3, <2>4 DEF WorkersBounded
<1> QED  BY WorkerInit, <1>1, <1>2, TypesAlways, PTL DEF Spec
=============================================================================
