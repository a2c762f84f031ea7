---------------------------- MODULE MCHyParView ----------------------------
EXTENDS HyParView

CONSTANTS n1, n2, n3

\* One node has room for a single neighbour.
RoomOf == [n \in Node |-> IF n = n2 THEN 1 ELSE 2]
=============================================================================
