----------------------------- MODULE MCSessions -----------------------------
(***************************************************************************)
(* Model checking Sessions.                                                *)
(***************************************************************************)
EXTENDS Sessions
=============================================================================
