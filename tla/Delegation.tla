----------------------------- MODULE Delegation -----------------------------
(***************************************************************************)
(* A fan-out of delegated tasks (core/delegation.py): a pool of threads    *)
(* runs the children of one tree, each in a worker process that serves     *)
(* JSON-RPC on its pipes, with one fallback to an execution in the parent. *)
(*                                                                         *)
(* Per child n: pc is where its thread is in _run_child, worker its        *)
(* process, stdin and stdout the pipes (stdin ends with "eof"), pending    *)
(* the request its RpcClient waits for, box the reply handed over.         *)
(*                                                                         *)
(* External: the run of an agent ends within its step budget.  A process   *)
(* may die at any time.                                                    *)
(***************************************************************************)
EXTENDS Integers, Sequences, FiniteSets

CONSTANTS
  Nodes,      \* the children of the tree
  MaxWorkers, \* max_workers of the pool
  MaxDeaths   \* bound: workers that die by themselves

ASSUME DelegationAssumption ==
  /\ IsFiniteSet(Nodes)
  /\ MaxWorkers \in Nat \ {0} /\ MaxDeaths \in Nat

VARIABLES
  rpc,       \* whether children run in processes (delegation_rpc): never changes
  pc,        \* child -> where its thread is
  status,    \* child -> node.status
  tree,      \* the status of the tree
  active,    \* children whose client is registered in _active
  worker,    \* child -> what its process does
  stdin,     \* child -> requests its worker has not read
  stdout,    \* child -> replies its client has not read
  pending,   \* child -> the request waited for, or "none"
  box,       \* child -> the reply handed to the waiting thread, or "none"
  runs,      \* child -> executions of its task begun (history)
  deaths     \* workers that died by themselves

threads == <<pc, status, tree, active>>
pipes == <<stdin, stdout>>
client == <<pending, box>>
vars == <<rpc, threads, worker, pipes, client, runs, deaths>>

Waiting == {"initialize", "agent.run"}
Gone == {"none", "dead"}
Working == {"initialize", "agent.run", "inprocess", "fallback", "close", "reap"}
Each(v) == [n \in Nodes |-> v]

Init ==
  /\ rpc \in BOOLEAN
  /\ pc = Each("queued") /\ status = Each("pending")
  /\ tree = "running" /\ active = {}
  /\ worker = Each("none")
  /\ stdin = Each(<<>>) /\ stdout = Each(<<>>)
  /\ pending = Each("none") /\ box = Each("none")
  /\ runs = Each(0)
  /\ deaths = 0

Goto(n, at) == pc' = [pc EXCEPT ![n] = at]
Mark(n, s) == status' = [status EXCEPT ![n] = s]

-----------------------------------------------------------------------------
(* RpcClient.request: write the request and wait for the reply *)

\* The pipe of a worker that died refuses the write, and the caller degrades.
Request(n, method, alive) ==
  \/ /\ alive
     /\ stdin' = [stdin EXCEPT ![n] = Append(@, method)]
     /\ pending' = [pending EXCEPT ![n] = method]
     /\ box' = [box EXCEPT ![n] = "none"]
     /\ Goto(n, method)
  \/ /\ ~alive
     /\ Goto(n, "fallback")
     /\ UNCHANGED <<stdin, client>>

\* _read_loop: a reply goes to the box of the request it answers, or is dropped.
Deliver(n) ==
  /\ stdout[n] # <<>>
  /\ stdout' = [stdout EXCEPT ![n] = Tail(@)]
  /\ LET reply == Head(stdout[n]) IN
     IF pending[n] = reply.method
     THEN /\ box' = [box EXCEPT ![n] = reply.value]
          /\ pending' = [pending EXCEPT ![n] = "none"]
     ELSE UNCHANGED client
  /\ UNCHANGED <<threads, worker, stdin, runs, deaths>>

-----------------------------------------------------------------------------
(* _run_child *)

\* A thread of the pool takes the next child.
Begin(n) ==
  /\ pc[n] = "queued"
  /\ Cardinality({m \in Nodes : pc[m] \in Working}) < MaxWorkers
  /\ \/ /\ rpc
        /\ worker' = [worker EXCEPT ![n] = "idle"]
        /\ active' = active \cup {n}
        /\ Request(n, "initialize", TRUE) /\ Mark(n, "running")
     \/ /\ rpc                         \* Popen raises: no RpcError, no fallback
        /\ Mark(n, "failed") /\ Goto(n, "close")
        /\ UNCHANGED <<active, worker, stdin, client>>
     \/ /\ ~rpc
        /\ Mark(n, "running") /\ Goto(n, "inprocess")
        /\ UNCHANGED <<active, worker, stdin, client>>
  /\ UNCHANGED <<tree, stdout, runs, deaths>>

\* The reply to initialize sends agent.run; the reply to that is the result.
Answered(n) ==
  /\ pc[n] \in Waiting /\ box[n] # "none"
  /\ \/ /\ box[n] = "error" /\ Goto(n, "fallback")
        /\ UNCHANGED <<status, stdin, client>>
     \/ /\ box[n] # "error" /\ pc[n] = "initialize"
        /\ Request(n, "agent.run", worker[n] \notin Gone)
        /\ UNCHANGED status
     \/ /\ box[n] # "error" /\ pc[n] = "agent.run"
        /\ Mark(n, box[n]) /\ Goto(n, "close")
        /\ UNCHANGED <<stdin, client>>
  /\ UNCHANGED <<tree, active, worker, stdout, runs, deaths>>

\* Fault: a client whose worker is gone waits on.
TimeoutAlive(n) ==
  /\ pc[n] \in Waiting /\ box[n] = "none" /\ worker[n] \notin Gone
  /\ pending' = [pending EXCEPT ![n] = "none"]
  /\ Goto(n, "fallback")
  /\ UNCHANGED <<status, tree, active, worker, pipes, box, runs, deaths>>

\* Fault: the request stays registered.
TimeoutLeaves(n) ==
  /\ pc[n] \in Waiting /\ box[n] = "none"
  /\ Goto(n, "fallback")
  /\ UNCHANGED <<status, tree, active, worker, pipes, client, runs, deaths>>

\* A worker that died, too, is only noticed here: its end wakes nobody.
Timeout(n) ==
  /\ pc[n] \in Waiting /\ box[n] = "none"
  /\ pending' = [pending EXCEPT ![n] = "none"]
  /\ Goto(n, "fallback")
  /\ UNCHANGED <<status, tree, active, worker, pipes, box, runs, deaths>>

\* Fault: a fallback that fails is tried again.
AfterFallbackRetry(s) == IF s = "failed" THEN "fallback" ELSE "close"
AfterFallback(s) == "close"

\* run_subagent_task in the parent.  The worker may still be at the same task.
InProcess(n) ==
  /\ pc[n] \in {"inprocess", "fallback"}
  /\ runs' = [runs EXCEPT ![n] = @ + 1]
  /\ \E s \in {"done", "failed"} : Mark(n, s) /\ Goto(n, AfterFallback(s))
  /\ UNCHANGED <<tree, active, worker, pipes, client, deaths>>

\* close: the end of stdin asks the worker to stop once it is done.
Close(n) ==
  /\ pc[n] = "close" /\ Goto(n, "reap")
  /\ active' = active \ {n}
  /\ stdin' = [stdin EXCEPT ![n] = Append(@, "eof")]
  /\ UNCHANGED <<status, tree, worker, stdout, client, runs, deaths>>

\* Fault: close does not kill.
ReapGently(n) ==
  /\ pc[n] = "reap" /\ Goto(n, "ended")
  /\ UNCHANGED <<status, tree, active, worker, pipes, client, runs, deaths>>

\* It has stopped within the grace, or its process group is killed; the client
\* and its pipes are dropped.
Reap(n) ==
  /\ pc[n] = "reap" /\ Goto(n, "ended")
  /\ worker' = [worker EXCEPT ![n] = "dead"]
  /\ stdin' = [stdin EXCEPT ![n] = <<>>] /\ stdout' = [stdout EXCEPT ![n] = <<>>]
  /\ box' = [box EXCEPT ![n] = "none"] /\ pending' = [pending EXCEPT ![n] = "none"]
  /\ UNCHANGED <<status, tree, active, runs, deaths>>

-----------------------------------------------------------------------------
(* DelegationWorker: one thread that reads, works and answers *)

\* serve: a cancellation is read in its turn, and names no request.
Read(n) ==
  /\ worker[n] = "idle" /\ stdin[n] # <<>>
  /\ stdin' = [stdin EXCEPT ![n] = Tail(@)]
  /\ LET method == Head(stdin[n]) IN
     /\ worker' = [worker EXCEPT ![n] =
          CASE method = "eof" -> "dead" [] method = "cancel" -> "idle" [] OTHER -> method]
     /\ runs' = IF method = "agent.run" THEN [runs EXCEPT ![n] = @ + 1] ELSE runs
  /\ UNCHANGED <<threads, stdout, client, deaths>>

\* dispatch: the reply to initialize, the verdict of the agent, or an error.
Answer(n) ==
  /\ worker[n] \in Waiting
  /\ worker' = [worker EXCEPT ![n] = "idle"]
  /\ \E value \in (IF worker[n] = "initialize" THEN {"ok"} ELSE {"done", "failed", "error"}) :
       stdout' = [stdout EXCEPT ![n] = Append(@, [method |-> worker[n], value |-> value])]
  /\ UNCHANGED <<threads, stdin, client, runs, deaths>>

Die(n) ==
  /\ worker[n] \notin Gone /\ deaths < MaxDeaths
  /\ worker' = [worker EXCEPT ![n] = "dead"]
  /\ deaths' = deaths + 1
  /\ UNCHANGED <<threads, pipes, client, runs>>

-----------------------------------------------------------------------------
(* fanout, cancel_tree *)

Verdict(done) == IF done = Nodes THEN "done" ELSE IF done # {} THEN "partial" ELSE "failed"

\* The pool is joined before the verdict.
Finish ==
  /\ tree = "running" /\ \A n \in Nodes : pc[n] = "ended"
  /\ tree' = Verdict({n \in Nodes : status[n] = "done"})
  /\ UNCHANGED <<pc, status, active, worker, pipes, client, runs, deaths>>

\* $/cancel to the clients at hand, one unread per child (bound).
CancelTree ==
  /\ \E n \in active : \A i \in DOMAIN stdin[n] : stdin[n][i] # "cancel"
  /\ stdin' = [n \in Nodes |-> IF n \in active /\ worker[n] \notin Gone
                               THEN Append(stdin[n], "cancel") ELSE stdin[n]]
  /\ UNCHANGED <<threads, worker, stdout, client, runs, deaths>>

Thread(n) ==
  \/ Begin(n) \/ Answered(n) \/ Timeout(n) \/ InProcess(n) \/ Close(n) \/ Reap(n)

Move ==
  \/ \E n \in Nodes : \/ Thread(n) \/ Deliver(n)
                      \/ Read(n) \/ Answer(n) \/ Die(n)
  \/ Finish
  \/ CancelTree

Next == Move /\ UNCHANGED rpc

Spec == Init /\ [][Next]_vars

\* The threads of the parent go on: a wait has its timeout, an agent its step
\* budget, close its grace.  Nothing is asked of the workers.
FairSpec == Spec /\ WF_vars(Finish /\ UNCHANGED rpc)
            /\ \A n \in Nodes : WF_vars(Thread(n) /\ UNCHANGED rpc)

-----------------------------------------------------------------------------
(* Properties *)

\* Every variable keeps its type, and a request is registered only while the
\* thread of its child waits for it: an answer after the timeout finds nobody.
TypeOK ==
  /\ rpc \in BOOLEAN /\ pc \in [Nodes -> Working \cup {"queued", "ended"}]
  /\ status \in [Nodes -> {"pending", "running", "done", "failed"}]
  /\ tree \in {"running", "done", "partial", "failed"} /\ active \subseteq Nodes
  /\ worker \in [Nodes -> Gone \cup Waiting \cup {"idle"}]
  /\ pending \in [Nodes -> Waiting \cup {"none"}]
  /\ box \in [Nodes -> {"none", "ok", "done", "failed", "error"}]
  /\ \A n \in Nodes : pending[n] # "none" => pc[n] = pending[n]

\* There are never more worker processes than threads of the pool, and none is
\* left when the tree has its verdict: every way out of _run_child reaps.
WorkersBounded ==
  LET alive == {n \in Nodes : worker[n] \notin Gone}
  IN /\ Cardinality(alive) <= MaxWorkers
     /\ tree # "running" => alive = {} /\ active = {}

\* A task is executed at most twice, in the worker and once more in the parent,
\* however the timeout, the answer and the death of the worker are ordered.
AtMostTwice == \A n \in Nodes : runs[n] <= 2

\* A fan-out comes to its verdict although workers hang, die or answer late.
FanoutEnds == <>(tree # "running")
=============================================================================
