--------------------------- MODULE MCSessionPool ---------------------------
(***************************************************************************)
(* Model checking SessionPool: one entry for two peers.                    *)
(***************************************************************************)
EXTENDS SessionPool, TLC

\* Peers, session ids and endpoints are interchangeable.
Interchange == Permutations(Peer) \cup Permutations(Sess) \cup Permutations(Addr)
=============================================================================
