---------------------------- MODULE MCSwimTable ----------------------------
(***************************************************************************)
(* Model checking SwimTable: two peers competing for one row, three        *)
(* incarnations, two addresses.                                            *)
(***************************************************************************)
EXTENDS SwimTable, TLC

Symmetry == Permutations(Peer) \cup Permutations(Addr)
=============================================================================
