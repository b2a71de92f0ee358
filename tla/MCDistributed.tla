------------------------- MODULE MCDistributed -------------------------
(* Model values for Distributed. *)
EXTENDS Distributed, TLC

Sym == Permutations(Nodes)

\* Not explored further: with the exclusion of the job given up and no ticket
\* left to give out, neither LeaseExclusive nor TicketsDiffer can break any more.
Undecided == tainted = {} \/ Cardinality(tickets) < MaxIssued
=============================================================================
