---------------------------- MODULE SwimLattice ----------------------------
(***************************************************************************)
(* The incarnation lattice of the membership table (src/src/swim.zig).     *)
(*                                                                         *)
(* What a node knows of a peer is a state at an incarnation.  A claim      *)
(* about that peer replaces the knowledge iff its incarnation is greater,  *)
(* or equal with a stronger state.  A peer the table does not hold is      *)
(* "absent": every claim inserts it.                                       *)
(*                                                                         *)
(* The operators read the fields state and inc only, so they apply to the  *)
(* bare entries of module Swim and to the full rows of module SwimTable.   *)
(***************************************************************************)
EXTENDS Naturals

MemberState == {"alive", "suspect", "dead"}

\* A member_state, or "absent" for a peer without a row.
EntryState == MemberState \cup {"absent"}

\* stateRank, with "absent" below every state a row can have.
Rank == [s \in EntryState |-> IF s = "dead" THEN 3
                              ELSE IF s = "suspect" THEN 2
                              ELSE IF s = "alive" THEN 1 ELSE 0]

\* The knowledge of a peer the table does not hold.
Absent == [state |-> "absent", inc |-> 0]

Entry == [state : MemberState, inc : Nat] \cup {Absent}

\* An event about a peer; its state names its kind (alive, suspect, confirm).
Claim == [state : MemberState, inc : Nat]

\* Deviation: at equal incarnation the latest claim wins.
SupersedesAtEqual(c, e) == e.state = "absent" \/ c.inc >= e.inc

\* apply/lattice: the claim (state, inc) replaces the entry e.
Supersedes(c, e) ==
    \/ e.state = "absent"
    \/ c.inc > e.inc
    \/ c.inc = e.inc /\ Rank[c.state] > Rank[e.state]

\* The entry after one claim.
Merge(e, c) == IF Supersedes(c, e) THEN [state |-> c.state, inc |-> c.inc] ELSE e

\* The order of the lattice: f is at least as much knowledge as e.
AtMost(e, f) ==
    \/ e.state = "absent"
    \/ f.state # "absent" /\ e.inc < f.inc
    \/ f.state # "absent" /\ e.inc = f.inc /\ Rank[e.state] <= Rank[f.state]
=============================================================================
