-------------------------- MODULE SwimTableProofs --------------------------
(***************************************************************************)
(* Proofs about the membership table of module SwimTable, for every set of *)
(* peers and addresses and every bound.                                    *)
(***************************************************************************)
EXTENDS SwimTable, SwimLatticeProofs, FiniteSetTheorems

\* Two tables given the same claims about a peer hold the same state and
\* incarnation for it, in whatever order and however often the claims came
\* (swim.zig: any interleaving of the same event set converges).
THEOREM SameClaimsSameRow ==
    ASSUME NEW e, NEW f, NEW H \in SUBSET Claim, Knowledge(e), Knowledge(f),
           Strongest(e, H), Strongest(f, H), e.state # "absent"
    PROVE  e.state = f.state /\ e.inc = f.inc
<1>1. f.state # "absent"
  BY DEF Strongest
<1>2. PICK c \in H : c.state = e.state /\ c.inc = e.inc
  BY DEF Strongest
<1>3. PICK d \in H : d.state = f.state /\ d.inc = f.inc
  BY <1>1 DEF Strongest
<1>4. AtMost(c, f) /\ AtMost(d, e)
  BY <1>1 DEF Strongest
<1>5. AtMost(e, f) /\ AtMost(f, e)
  BY <1>1, <1>2, <1>3, <1>4 DEF AtMost
<1> QED
  BY <1>1, <1>5, AtMostTotal
-----------------------------------------------------------------------------
(***************************************************************************)
(* One row at a time: what each operator on rows returns.                  *)
(***************************************************************************)

\* The part of ContactSound about one row.
RowSound(r) == r.addrInc <= r.inc /\ (r.source = "unknown" <=> r.addr = NoAddr)

\* What a call may do to a row: the action properties, for one row.
RowMove(r, s) ==
    /\ AtMost(r, s)
    /\ r.addr # NoAddr => s.addr # NoAddr
    /\ (r.source = "authenticated" /\ s.addr # r.addr)
       => (s.source = "authenticated" \/ s.inc > r.inc)

\* The row s is r or one of the claims C, and covers them all.
Covers(r, s, C) ==
    /\ s.state # "absent"
    /\ \A c \in C : AtMost(c, s)
    /\ \/ r.state # "absent" /\ s.state = r.state /\ s.inc = r.inc
       \/ \E c \in C : c.state = s.state /\ c.inc = s.inc

\* lattice on a row that exists.
LEMMA LatticeStepRow ==
    ASSUME NEW r \in Row, r.state # "absent", NEW c \in Claim, NEW a \in Desc
    PROVE  /\ LatticeStep(r, c, a) \in Row
           /\ RowMove(r, LatticeStep(r, c, a))
           /\ Covers(r, LatticeStep(r, c, a), {c})
           /\ RowSound(r) => RowSound(LatticeStep(r, c, a))
<1> DEFINE s == LatticeStep(r, c, a)
<1>1. Knowledge(c) /\ Knowledge(r) /\ c.state # "absent"
  BY DEF Claim, Row, Knowledge, EntryState, MemberState
<1>2. CASE ~Supersedes(c, r)
  <2>1. s = r
    BY <1>2 DEF LatticeStep
  <2>2. AtMost(c, r) /\ AtMost(r, r)
    BY <1>1, <1>2, SupersedesIsStrict, AtMostTotal
  <2> QED
    BY <2>1, <2>2 DEF RowMove, Covers, RowSound
<1>3. CASE Supersedes(c, r)
  <2>1. /\ s \in Row
        /\ s.state = c.state
        /\ s.inc = c.inc
        /\ s.addr = IF TakesAddress(r, c, a) THEN a ELSE r.addr
        /\ s.source = IF TakesAddress(r, c, a) THEN "gossip" ELSE r.source
        /\ s.addrInc = IF TakesAddress(r, c, a) THEN c.inc ELSE r.addrInc
    BY <1>3 DEF LatticeStep, Row, Claim, EntryState, Source
  <2>2. AtMost(r, c) /\ AtMost(c, c)
    BY <1>1, <1>3, SupersedesIsStrict, AtMostTotal
  <2>3. AtMost(r, s) /\ AtMost(c, s)
    BY <2>1, <2>2 DEF AtMost
  <2>4. r.inc <= s.inc
    BY <2>1, <2>3 DEF AtMost, Row
  <2>5. TakesAddress(r, c, a) => a # NoAddr /\ c.state = "alive" /\ s.inc > r.inc
    BY <1>3, <2>1 DEF TakesAddress, Supersedes, Rank, Row, Claim, EntryState, MemberState
  <2>6. RowMove(r, s)
    BY <2>1, <2>3, <2>5 DEF RowMove
  <2>7. Covers(r, s, {c})
    BY <2>1, <2>3, <1>1 DEF Covers
  <2>8. RowSound(r) => RowSound(s)
    BY <2>1, <2>4, <2>5 DEF RowSound, Row, Claim
  <2> QED
    BY <2>1, <2>6, <2>7, <2>8
<1> QED
  BY <1>2, <1>3

\* The row a first claim inserts.
LEMMA InsertedRow ==
    ASSUME NEW r \in Row, r.state = "absent", NEW c \in Claim, NEW a \in Desc,
           r.addr = NoAddr, r.source = "unknown"
    PROVE  /\ Inserted(c, a) \in Row
           /\ RowMove(r, Inserted(c, a))
           /\ Covers(r, Inserted(c, a), {c})
           /\ RowSound(Inserted(c, a))
<1> DEFINE s == Inserted(c, a)
<1>1. s \in Row /\ s.state = c.state /\ s.inc = c.inc /\ RowSound(s)
  BY NoAddrIsNone DEF Inserted, Row, Claim, EntryState, MemberState, Source, Desc, RowSound
<1>2. AtMost(c, s) /\ s.state # "absent"
  BY <1>1 DEF AtMost, Claim, Rank, EntryState, MemberState
<1> QED
  BY <1>1, <1>2 DEF RowMove, Covers, AtMost

\* Raising a row that is not alive, by noteSessionAlive or by the handler.
LEMMA RaisedRow ==
    ASSUME NEW r \in Row, r.state # "absent"
    PROVE  /\ Raise(r) \in Claim
           /\ NoteAlive(r) \in Row
           /\ RowMove(r, NoteAlive(r))
           /\ r.state # "alive" => Covers(r, NoteAlive(r), {Raise(r)})
           /\ r.state = "alive" => NoteAlive(r) = r
           /\ RowSound(r) => RowSound(NoteAlive(r))
<1>1. Raise(r) \in Claim /\ r.addr \in Desc
  BY DEF Raise, Claim, Row, MemberState
<1>2. CASE r.state = "alive"
  BY <1>1, <1>2, AtMostTotal DEF NoteAlive, RowMove, Row, Knowledge
<1>3. CASE r.state # "alive"
  <2>1. NoteAlive(r) = LatticeStep(r, Raise(r), r.addr)
    BY <1>3 DEF NoteAlive
  <2> QED
    BY <1>1, <1>3, <2>1, LatticeStepRow
<1> QED
  BY <1>2, <1>3

\* observeAuthenticated on a row that exists.
LEMMA AuthenticatedRowMoves ==
    ASSUME NEW r \in Row, r.state # "absent", NEW a \in Desc
    PROVE  /\ AuthenticatedRow(r, a) \in Row
           /\ RowMove(r, AuthenticatedRow(r, a))
           /\ Covers(r, AuthenticatedRow(r, a), IF r.state = "alive" THEN {} ELSE {Raise(r)})
           /\ RowSound(r) => RowSound(AuthenticatedRow(r, a))
<1> DEFINE f == Authenticate(r, a)
           n == NoteAlive(f)
           s == AuthenticatedRow(r, a)
           C == IF r.state = "alive" THEN {} ELSE {Raise(r)}
<1>1. /\ f \in Row
      /\ f.state = r.state
      /\ f.inc = r.inc
      /\ Raise(f) = Raise(r)
  BY DEF Authenticate, Row, Source, Raise
<1>2. /\ n \in Row
      /\ RowMove(f, n)
      /\ r.state # "alive" => Covers(f, n, {Raise(r)})
      /\ r.state = "alive" => n = f
      /\ RowSound(f) => RowSound(n)
  BY <1>1, RaisedRow
<1>3. /\ s \in Row
      /\ s.state = n.state
      /\ s.inc = n.inc
  BY <1>2 DEF AuthenticatedRow, Row, Source
<1>4. AtMost(r, s)
  BY <1>1, <1>2, <1>3 DEF RowMove, AtMost
<1>5. Covers(r, s, C)
  <2>1. CASE r.state = "alive"
    BY <2>1, <1>1, <1>2, <1>3 DEF Covers
  <2>2. CASE r.state # "alive"
    BY <2>2, <1>1, <1>2, <1>3 DEF Covers, AtMost
  <2> QED
    BY <2>1, <2>2
<1>6. CASE a = NoAddr
  <2>1. f = r /\ s = n
    BY <1>6 DEF Authenticate, AuthenticatedRow
  <2> QED
    BY <1>2, <1>5, <2>1
<1>7. CASE a # NoAddr
  <2>1. f.addr # NoAddr
    BY <1>7 DEF Authenticate, Row
  <2>2. /\ s.source = "authenticated"
        /\ s.addrInc = s.inc
        /\ s.addr = n.addr
    BY <1>2, <1>7 DEF AuthenticatedRow, Row
  <2>3. s.addr # NoAddr
    BY <1>2, <2>1, <2>2 DEF RowMove
  <2>4. RowMove(r, s)
    BY <1>4, <2>2, <2>3 DEF RowMove
  <2>5. RowSound(s)
    BY <1>3, <2>2, <2>3 DEF RowSound, Row
  <2> QED
    BY <1>3, <1>5, <2>4, <2>5
<1> QED
  BY <1>6, <1>7
-----------------------------------------------------------------------------
(***************************************************************************)
(* The table: every call moves at most one row, and by a RowMove.          *)
(***************************************************************************)

\* A peer without a row has left nothing behind.
AbsentBlank == \A p \in Peer : member[p].state = "absent" => member[p] = NoRow

\* The inductive invariant.
TableInv ==
    /\ TypeOK
    /\ AbsentBlank
    /\ RowIsStrongestClaim
    /\ ContactSound

\* The row of p becomes s, and the claims C were heard.
RowStep(p, s, C) ==
    /\ member' = [member EXCEPT ![p] = s]
    /\ heard' = [heard EXCEPT ![p] = @ \cup C]
    /\ selfInc' \in Nat
    /\ s \in Row
    /\ C \in SUBSET Claim
    /\ RowMove(member[p], s)
    /\ Covers(member[p], s, C)
    /\ RowSound(s)

\* Every member is left where it is, or moved by RowMove.
TableMove == \A p \in Peer : RowMove(member[p], member'[p])

\* The strongest of a set of claims, after one more claim is merged into it.
LEMMA StrongestGrows ==
    ASSUME NEW r \in Row, NEW s \in Row, NEW H \in SUBSET Claim, NEW C \in SUBSET Claim,
           Strongest(r, H), RowMove(r, s), Covers(r, s, C)
    PROVE  Strongest(s, H \cup C)
<1>1. s.state # "absent" /\ AtMost(r, s)
  BY DEF Covers, RowMove
<1>2. \E c \in H \cup C : c.state = s.state /\ c.inc = s.inc
  BY DEF Covers, Strongest
<1>3. ASSUME NEW c \in H PROVE AtMost(c, s)
  <2>1. AtMost(c, r)
    BY <1>3 DEF Strongest
  <2> QED
    BY <1>1, <2>1, AtMostTransitive DEF Knowledge, Row, Claim, EntryState
<1>4. \A c \in C : AtMost(c, s)
  BY DEF Covers
<1> QED
  BY <1>1, <1>2, <1>3, <1>4 DEF Strongest

\* A row that moves as the lattice does keeps what the invariant says of it.
LEMMA RowStepKeeps ==
    ASSUME TableInv, NEW p \in Peer, NEW s, NEW C, RowStep(p, s, C)
    PROVE  TableInv' /\ TableMove
<1>1. /\ member' \in [Peer -> Row]
      /\ member'[p] = s
      /\ \A q \in Peer \ {p} : member'[q] = member[q]
      /\ heard' \in [Peer -> SUBSET Claim]
      /\ heard'[p] = heard[p] \cup C
      /\ \A q \in Peer \ {p} : heard'[q] = heard[q]
  BY DEF RowStep, TableInv, TypeOK
<1>2. s.state # "absent"
  BY DEF RowStep, Covers
<1>3. TypeOK'
  BY <1>1 DEF TypeOK, RowStep
<1>4. AbsentBlank'
  BY <1>1, <1>2 DEF AbsentBlank, TableInv
<1>5. Strongest(s, heard[p] \cup C)
  <2>1. member[p] \in Row /\ heard[p] \in SUBSET Claim /\ Strongest(member[p], heard[p])
    BY DEF TableInv, TypeOK, RowIsStrongestClaim
  <2>2. s \in Row /\ C \in SUBSET Claim /\ RowMove(member[p], s) /\ Covers(member[p], s, C)
    BY DEF RowStep
  <2> QED
    BY <2>1, <2>2, StrongestGrows
<1>6. RowIsStrongestClaim'
  BY <1>1, <1>5 DEF RowIsStrongestClaim, TableInv
<1>7. ContactSound'
  BY <1>1 DEF ContactSound, TableInv, RowStep, RowSound
<1>8. ASSUME NEW q \in Peer PROVE RowMove(member[q], member'[q])
  <2>1. CASE q = p
    BY <2>1, <1>1 DEF RowStep
  <2>2. CASE q # p
    BY <2>2, <1>1, AtMostTotal DEF RowMove, Knowledge, TableInv, TypeOK, Row
  <2> QED
    BY <2>1, <2>2
<1> QED
  BY <1>3, <1>4, <1>6, <1>7, <1>8 DEF TableInv, TableMove

\* A step of the table moves one row, or none.
OneRow == \/ \E p \in Peer : \E s, C : RowStep(p, s, C)
          \/ UNCHANGED <<member, heard>> /\ selfInc' \in Nat

\* What TableInv says of one peer.
LEMMA RowFacts ==
    ASSUME TableInv, NEW p \in Peer
    PROVE  /\ member[p] \in Row
           /\ RowSound(member[p])
           /\ member[p].state = "absent" => member[p] = NoRow
           /\ selfInc \in Nat
           /\ MaxInc \in Nat
           /\ Inc \subseteq Nat
  BY MaxIncNat DEF TableInv, TypeOK, ContactSound, RowSound, AbsentBlank, Inc

\* One event, or observe, moves one row as the lattice does.
LEMMA ApplySteps ==
    ASSUME TableInv, NEW p \in Peer, NEW c \in Claim, NEW a \in Desc, Apply(p, c, a)
    PROVE  OneRow
<1> DEFINE r == member[p]
           s == ApplyRow(r, c, a)
<1>1. r \in Row /\ RowSound(r) /\ (r.state = "absent" => r = NoRow) /\ selfInc \in Nat
  BY RowFacts
<1>2. s \in Row /\ RowMove(r, s) /\ Covers(r, s, {c}) /\ RowSound(s)
  <2>1. CASE r.state = "absent"
    <3>1. r.addr = NoAddr /\ r.source = "unknown"
      BY <1>1, <2>1 DEF NoRow
    <3> QED
      BY <1>1, <2>1, <3>1, InsertedRow DEF ApplyRow
  <2>2. CASE r.state # "absent"
    BY <1>1, <2>2, LatticeStepRow DEF ApplyRow
  <2> QED
    BY <2>1, <2>2
<1>3. RowStep(p, s, {c})
  BY <1>1, <1>2 DEF RowStep, Apply, Hear
<1> QED
  BY <1>3 DEF OneRow

\* observeAuthenticated moves one row as the lattice does.
LEMMA ObserveAuthenticatedSteps ==
    ASSUME TableInv, NEW p \in Peer, ObserveAuthenticated(p)
    PROVE  OneRow
<1> DEFINE first == [state |-> "alive", inc |-> 0]
           Met(a) == IF member[p].state = "absent" THEN Inserted(first, a) ELSE member[p]
           Told(r) == IF r.state = "alive" THEN {first} ELSE {first, Raise(r)}
<1>1. PICK a \in Desc :
        /\ member' = [member EXCEPT ![p] = AuthenticatedRow(Met(a), a)]
        /\ heard' = [heard EXCEPT ![p] = @ \cup Told(Met(a))]
        /\ selfInc' = selfInc
  BY DEF ObserveAuthenticated, Hear
<1> DEFINE r == Met(a)
           s == AuthenticatedRow(r, a)
<1>2. /\ member[p] \in Row
      /\ RowSound(member[p])
      /\ member[p].state = "absent" => member[p] = NoRow
      /\ selfInc \in Nat
  BY RowFacts
<1>3. first \in Claim /\ first.state = "alive" /\ first.inc = 0
  BY DEF Claim, MemberState
<1>4. CASE member[p].state = "absent"
  <2>1. member[p].addr = NoAddr /\ member[p].source = "unknown"
    BY <1>2, <1>4 DEF NoRow
  <2>2. /\ r \in Row
        /\ Covers(member[p], r, {first})
        /\ RowSound(r)
        /\ r.state = "alive"
    BY <1>2, <1>3, <1>4, <2>1, InsertedRow DEF Inserted
  <2>3. s \in Row /\ RowMove(r, s) /\ Covers(r, s, {}) /\ RowSound(s)
    BY <2>2, AuthenticatedRowMoves
  <2>4. s.state = r.state /\ s.inc = r.inc
    BY <2>3 DEF Covers
  <2>5. RowMove(member[p], s)
    BY <1>4, <2>1 DEF RowMove, AtMost
  <2>6. Covers(member[p], s, {first})
    BY <2>2, <2>4 DEF Covers, AtMost
  <2>7. Told(r) = {first}
    BY <2>2
  <2>8. RowStep(p, s, {first})
    BY <1>1, <1>2, <1>3, <2>3, <2>5, <2>6, <2>7 DEF RowStep
  <2> QED
    BY <2>8 DEF OneRow
<1>5. CASE member[p].state # "absent"
  <2>1. r = member[p]
    BY <1>5
  <2> DEFINE C == IF r.state = "alive" THEN {} ELSE {Raise(r)}
  <2>2. s \in Row /\ RowMove(r, s) /\ Covers(r, s, C) /\ RowSound(s)
    BY <1>2, <1>5, <2>1, AuthenticatedRowMoves
  <2>3. Told(r) = C \cup {first} /\ Told(r) \in SUBSET Claim
    BY <1>2, <1>3, <1>5, <2>1, RaisedRow
  <2>4. AtMost(first, s)
    BY <1>3, <2>2 DEF AtMost, Covers, Row, Rank, EntryState, MemberState
  <2>5. Covers(r, s, Told(r))
    BY <2>2, <2>3, <2>4 DEF Covers
  <2>6. RowStep(p, s, Told(r))
    BY <1>1, <1>2, <2>1, <2>2, <2>3, <2>5 DEF RowStep
  <2> QED
    BY <2>6 DEF OneRow
<1> QED
  BY <1>4, <1>5

\* So do the two overrides of the message handler.
LEMMA OverrideSteps ==
    ASSUME TableInv, NEW p \in Peer, RaiseOnPing(p) \/ AliveOnAck(p)
    PROVE  OneRow
<1> DEFINE r == member[p]
<1>1. PICK c \in Claim :
        /\ r.state # "absent"
        /\ member' = [member EXCEPT ![p] = LatticeStep(r, c, r.addr)]
        /\ heard' = [heard EXCEPT ![p] = @ \cup {c}]
        /\ selfInc' = selfInc
  <2>1. r \in Row /\ Inc \subseteq Nat
    BY RowFacts
  <2>2. CASE RaiseOnPing(p)
    <3>1. Raise(r) \in Claim
      BY <2>1 DEF Raise, Claim, MemberState, Row
    <3> QED
      BY <2>2, <3>1 DEF RaiseOnPing, Hear
  <2>3. CASE AliveOnAck(p)
    <3>1. \A i \in Inc :
            [state |-> "alive", inc |-> IF r.state = "dead" /\ r.inc >= i THEN r.inc + 1 ELSE i]
               \in Claim
      BY <2>1 DEF Claim, MemberState, Row
    <3> QED
      BY <2>3, <3>1 DEF AliveOnAck, Hear
  <2> QED
    BY <2>2, <2>3
<1>2. r \in Row /\ r.addr \in Desc /\ RowSound(r) /\ selfInc \in Nat
  BY RowFacts DEF Row
<1>3. RowStep(p, LatticeStep(r, c, r.addr), {c})
  BY <1>1, <1>2, LatticeStepRow DEF RowStep
<1> QED
  BY <1>3 DEF OneRow

\* Every step moves at most one row, as the lattice does.
LEMMA NextMovesOneRow ==
    ASSUME TableInv, Next
    PROVE  OneRow
<1>1. ASSUME NEW p \in Peer, ApplyAlive(p) \/ ApplySuspect(p) \/ ApplyConfirm(p) \/ Observe(p)
      PROVE  OneRow
  <2>1. PICK c \in Claim, a \in Desc : Apply(p, c, a)
    <3>1. \A st \in MemberState, i \in Inc : [state |-> st, inc |-> i] \in Claim
      BY MaxIncNat DEF Claim, Inc
    <3>2. NoAddr \in Desc /\ 0 \in Inc
      BY MaxIncNat DEF Desc, Inc
    <3>3. CASE ApplyAlive(p)
      BY <3>1, <3>3 DEF ApplyAlive, MemberState
    <3>4. CASE ApplySuspect(p)
      BY <3>1, <3>2, <3>4 DEF ApplySuspect, MemberState
    <3>5. CASE ApplyConfirm(p)
      BY <3>1, <3>2, <3>5 DEF ApplyConfirm, MemberState
    <3>6. CASE Observe(p)
      BY <3>1, <3>2, <3>6 DEF Observe, MemberState
    <3> QED
      BY <1>1, <3>3, <3>4, <3>5, <3>6
  <2> QED
    BY <2>1, ApplySteps
<1>2. ASSUME NEW p \in Peer, ObserveAuthenticated(p)
      PROVE  OneRow
  BY <1>2, ObserveAuthenticatedSteps
<1>3. ASSUME NEW p \in Peer, RaiseOnPing(p) \/ AliveOnAck(p)
      PROVE  OneRow
  BY <1>3, OverrideSteps
<1>4. CASE AdoptSelf \/ RefuteSelf
  BY <1>4, MaxIncNat DEF AdoptSelf, RefuteSelf, OneRow, TableInv, TypeOK, Inc
<1> QED
  BY <1>1, <1>2, <1>3, <1>4 DEF Next

\* The empty table satisfies the invariant.
LEMMA TableInvInit == Init => TableInv
  BY DEF Init, TableInv, TypeOK, AbsentBlank, RowIsStrongestClaim, ContactSound, Strongest,
         NoRow, Row, EntryState, MemberState, Desc, Source

\* Every step keeps it, and moves every row up.
LEMMA TableInvStep == TableInv /\ [Next]_vars => TableInv' /\ TableMove
<1> SUFFICES ASSUME TableInv, [Next]_vars
             PROVE  TableInv' /\ TableMove
  OBVIOUS
<1>1. ASSUME UNCHANGED <<member, heard>>, selfInc' \in Nat
      PROVE  TableInv' /\ TableMove
  <2>1. TableInv'
    BY <1>1 DEF TableInv, TypeOK, AbsentBlank, RowIsStrongestClaim, ContactSound
  <2>2. ASSUME NEW p \in Peer PROVE RowMove(member[p], member'[p])
    BY <1>1, AtMostTotal DEF RowMove, Knowledge, TableInv, TypeOK, Row
  <2> QED
    BY <2>1, <2>2 DEF TableMove
<1>2. CASE Next
  <2>1. OneRow
    BY <1>2, NextMovesOneRow
  <2> QED
    BY <1>1, <2>1, RowStepKeeps DEF OneRow
<1>3. CASE UNCHANGED vars
  BY <1>1, <1>3 DEF vars, TableInv, TypeOK
<1> QED
  BY <1>2, <1>3

\* The inductive invariant holds of every reachable table.
THEOREM TableInvariant == Spec => []TableInv
<1>1. TableInv /\ [Next]_vars => TableInv'
  BY TableInvStep
<1> QED
  BY <1>1, TableInvInit, PTL DEF Spec

\* Every row is the strongest claim the table was given about the peer, and
\* one of them (swim.zig, apply and lattice).
THEOREM RowsAreStrongest == Spec => []RowIsStrongestClaim
<1>1. TableInv => RowIsStrongestClaim
  BY DEF TableInv
<1> QED
  BY <1>1, TableInvariant, PTL

\* The rows, the claims and this node's incarnation keep their types (swim.zig,
\* Member).
THEOREM TypeCorrect == Spec => []TypeOK
<1>1. TableInv => TypeOK
  BY DEF TableInv
<1> QED
  BY <1>1, TableInvariant, PTL

\* Addresses are recorded at incarnations the row has reached (swim.zig,
\* contact_incarnation).
THEOREM ContactsAreSound == Spec => []ContactSound
<1>1. TableInv => ContactSound
  BY DEF TableInv
<1> QED
  BY <1>1, TableInvariant, PTL

\* No interleaving of calls takes a row down the lattice (swim.zig, lattice).
THEOREM KnowledgeGrows == Spec => KnowledgeOnlyGrows
<1>1. TableInv /\ [Next]_vars => [\A p \in Peer : AtMost(member[p], member'[p])]_vars
  BY TableInvStep DEF TableMove, RowMove
<1> QED
  BY <1>1, TableInvariant, PTL DEF Spec, KnowledgeOnlyGrows

\* An address once known is never erased (swim.zig, lattice: "must never erase
\* a dialable address").
THEOREM AddressesKept == Spec => AddressKept
<1>1. TableInv /\ [Next]_vars
      => [\A p \in Peer : member[p].addr # NoAddr => member'[p].addr # NoAddr]_vars
  BY TableInvStep DEF TableMove, RowMove
<1> QED
  BY <1>1, TableInvariant, PTL DEF Spec, AddressKept

\* Gossip of the same incarnation never displaces an authenticated address
\* (swim.zig, lattice and observeAuthenticated).
THEOREM AuthenticatedAddressesStand == Spec => AuthenticatedStands
<1>1. TableInv /\ [Next]_vars
      => [\A p \in Peer :
             (member[p].source = "authenticated" /\ member'[p].addr # member[p].addr)
             => (member'[p].source = "authenticated" \/ member'[p].inc > member[p].inc)]_vars
  BY TableInvStep DEF TableMove, RowMove
<1> QED
  BY <1>1, TableInvariant, PTL DEF Spec, AuthenticatedStands
-----------------------------------------------------------------------------
(***************************************************************************)
(* Capacity: only a claimed peer gains a row.                              *)
(***************************************************************************)
LEMMA OneClaimedRow ==
    ASSUME TypeOK, Next
    PROVE  \/ \E p \in Peer : Claimed(p) /\ \A q \in Peer \ {p} : member'[q] = member[q]
           \/ member' = member
<1>1. ASSUME NEW p \in Peer, NEW c, NEW a, Apply(p, c, a)
      PROVE  Claimed(p) /\ \A q \in Peer \ {p} : member'[q] = member[q]
  BY <1>1 DEF Apply, TypeOK
<1>2. ASSUME NEW p \in Peer, ApplyAlive(p) \/ ApplySuspect(p) \/ ApplyConfirm(p) \/ Observe(p)
      PROVE  Claimed(p) /\ \A q \in Peer \ {p} : member'[q] = member[q]
  BY <1>1, <1>2 DEF ApplyAlive, ApplySuspect, ApplyConfirm, Observe
<1>3. ASSUME NEW p \in Peer, ObserveAuthenticated(p)
      PROVE  Claimed(p) /\ \A q \in Peer \ {p} : member'[q] = member[q]
  BY <1>3 DEF ObserveAuthenticated, TypeOK
<1>4. ASSUME NEW p \in Peer, RaiseOnPing(p) \/ AliveOnAck(p)
      PROVE  Claimed(p) /\ \A q \in Peer \ {p} : member'[q] = member[q]
  BY <1>4 DEF RaiseOnPing, AliveOnAck, TypeOK, Claimed
<1>5. CASE AdoptSelf \/ RefuteSelf
  BY <1>5 DEF AdoptSelf, RefuteSelf
<1> QED
  BY <1>2, <1>3, <1>4, <1>5 DEF Next

\* Every step keeps the table within its array: a new row needs room for it.
LEMMA CapacityStep ==
    ASSUME TypeOK, WithinCapacity, [Next]_vars
    PROVE  WithinCapacity'
<1>1. IsFiniteSet(Known) /\ Cardinality(Known) \in Nat
  BY PeerFinite, FS_Subset, FS_CardinalityType DEF Known
<1>2. CASE member' = member
  BY <1>2 DEF WithinCapacity, Known
<1>3. ASSUME NEW p \in Peer, Claimed(p), \A q \in Peer \ {p} : member'[q] = member[q]
      PROVE  WithinCapacity'
  <2>1. Known' \subseteq Known \cup {p}
    BY <1>3 DEF Known
  <2>2. IsFiniteSet(Known \cup {p})
        /\ Cardinality(Known \cup {p}) = IF p \in Known THEN Cardinality(Known)
                                          ELSE Cardinality(Known) + 1
    BY <1>1, FS_AddElement
  <2>3. Cardinality(Known \cup {p}) <= MaxMembers
    BY <1>1, <1>3, <2>2, MaxMembersNat DEF WithinCapacity, Claimed, HasRoom, Known
  <2>4. /\ IsFiniteSet(Known')
        /\ Cardinality(Known') <= Cardinality(Known \cup {p})
        /\ Cardinality(Known') \in Nat
    BY <2>1, <2>2, FS_Subset, FS_CardinalityType
  <2>5. Cardinality(Known \cup {p}) \in Nat
    BY <2>2, FS_CardinalityType
  <2> QED
    BY <2>3, <2>4, <2>5, MaxMembersNat DEF WithinCapacity
<1>4. CASE Next
  BY <1>2, <1>3, <1>4, OneClaimedRow
<1> QED
  BY <1>2, <1>4 DEF vars

\* The table never holds more rows than its array has room for (swim.zig,
\* max_members).
THEOREM CapacityKept == Spec => []WithinCapacity
<1>1. Init => WithinCapacity
  <2>1. Init => Known = {}
    BY DEF Init, Known, NoRow
  <2> QED
    BY <2>1, FS_EmptySet, MaxMembersNat DEF WithinCapacity
<1>2. TypeOK /\ WithinCapacity /\ [Next]_vars => WithinCapacity'
  BY CapacityStep
<1> QED
  BY <1>1, <1>2, TypeCorrect, PTL DEF Spec
=============================================================================
