------------------------- MODULE SwimLatticeProofs -------------------------
(***************************************************************************)
(* Proofs about the incarnation lattice: the facts that the proofs about   *)
(* the table of one node (SwimTableProofs) and about the cluster           *)
(* (SwimProofs) both need.                                                 *)
(***************************************************************************)
EXTENDS SwimLattice, TLAPS

\* What the lattice operators read of a claim, a row or an entry.
Knowledge(e) == e.state \in EntryState /\ e.inc \in Nat

\* The order is total on what a table can hold, and antisymmetric up to the
\* pair (state, incarnation) when neither is absent (swim.zig, lattice).
LEMMA AtMostTotal ==
    ASSUME NEW e, NEW f, Knowledge(e), Knowledge(f)
    PROVE  /\ AtMost(e, e)
           /\ AtMost(e, f) \/ AtMost(f, e)
           /\ (AtMost(e, f) /\ AtMost(f, e) /\ e.state # "absent" /\ f.state # "absent")
              => (e.state = f.state /\ e.inc = f.inc)
  BY DEF AtMost, Knowledge, EntryState, MemberState, Rank

\* The order is transitive through an entry that is not absent.
LEMMA AtMostTransitive ==
    ASSUME NEW e, NEW f, NEW g, Knowledge(e), Knowledge(f), Knowledge(g), AtMost(e, f), AtMost(f, g)
    PROVE  AtMost(e, g)
  BY DEF AtMost, Knowledge, EntryState, MemberState, Rank

\* Supersedes is the strict part of the order: a rejected claim was known.
LEMMA SupersedesIsStrict ==
    ASSUME NEW c, NEW e, Knowledge(c), Knowledge(e), c.state # "absent"
    PROVE  Supersedes(c, e) <=> ~AtMost(c, e)
  BY DEF Supersedes, AtMost, Knowledge, EntryState, MemberState, Rank

\* What a claim leaves in an entry: it covers what was held and the claim, and
\* is one of the two.
LEMMA MergeCovers ==
    ASSUME NEW e \in Entry, NEW c, Knowledge(c), c.state # "absent"
    PROVE  /\ Merge(e, c) \in Entry
           /\ AtMost(e, Merge(e, c)) /\ AtMost(c, Merge(e, c))
           /\ Merge(e, c) = e \/ Merge(e, c) = [state |-> c.state, inc |-> c.inc]
<1>1. Knowledge(e)
  BY DEF Entry, Knowledge, Absent, EntryState, MemberState
<1>2. AtMost(e, e) /\ AtMost(c, c)
  BY <1>1, AtMostTotal
<1>3. CASE Supersedes(c, e)
  <2>1. AtMost(e, c)
    BY <1>1, <1>3, AtMostTotal, SupersedesIsStrict
  <2>2. Merge(e, c) = [state |-> c.state, inc |-> c.inc]
    BY <1>3 DEF Merge
  <2>3. Merge(e, c) \in Entry
    BY <2>2 DEF Entry, Knowledge, EntryState
  <2> QED
    BY <1>2, <2>1, <2>2, <2>3 DEF AtMost
<1>4. CASE ~Supersedes(c, e)
  BY <1>1, <1>2, <1>4, SupersedesIsStrict DEF Merge
<1> QED
  BY <1>3, <1>4
=============================================================================
