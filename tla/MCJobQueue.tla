----------------------------- MODULE MCJobQueue -----------------------------
(***************************************************************************)
(* Instances of JobQueue for TLC.                                          *)
(***************************************************************************)
EXTENDS JobQueue

CONSTANTS a1, a2, b1, sa, sb, key

\* Two jobs of one session and one of another.
JobsAB      == {a1, a2, b1}
TwoSessions == a1 :> sa @@ a2 :> sa @@ b1 :> sb

PlainAB == [j \in JobsAB |-> 0]
MixedAB == a1 :> 0 @@ a2 :> 2 @@ b1 :> 1
NoKeyAB == [j \in JobsAB |-> NoKey]
SameAB  == [NoKeyAB EXCEPT ![a1] = key, ![b1] = key]

OnceAB  == [j \in JobsAB |-> 1]
TwiceAB == [OnceAB EXCEPT ![a1] = 2]
=============================================================================
