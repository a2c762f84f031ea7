------------------------------- MODULE MCSwim -------------------------------
(***************************************************************************)
(* Model checking Swim: clusters of two and three nodes.                   *)
(***************************************************************************)
EXTENDS Swim, TLC

CONSTANTS n1, n2, n3

\* Every node counts from 1, as init does.
SameNonces == [n \in Node |-> 1]

\* Where only n1 probes, n2 and n3 are interchangeable.
BystanderSymmetry == Permutations({n2, n3})
=============================================================================
