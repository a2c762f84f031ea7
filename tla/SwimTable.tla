----------------------------- MODULE SwimTable -----------------------------
(***************************************************************************)
(* One node's membership table (src/src/swim.zig, "membership table"):     *)
(* the rows it keeps for its peers, their states under the incarnation     *)
(* lattice, and the address each row can be dialled at with the evidence   *)
(* that supplied it.                                                       *)
(*                                                                         *)
(* An action is one call of the table's interface: observe (a discovered   *)
(* seed), observeAuthenticated (a session came up, or a repeated HELLO),   *)
(* noteSessionAlive, apply with each kind of event, and the two overrides  *)
(* of the message handler that raise a dead member on direct evidence.     *)
(* The variable heard is not in the code: it accumulates every claim the   *)
(* table was given since it holds the peer, and the main invariant is that *)
(* the row is the strongest of them, whatever the order they came in.      *)
(***************************************************************************)
EXTENDS SwimLattice, FiniteSets

CONSTANTS
    Peer,        \* the other nodes
    Addr,        \* dialable addresses
    NoAddr,      \* Addr.none: a descriptor that carries only an id
    MaxMembers,  \* max_members, the rows the table has room for
    MaxInc       \* bound: no incarnation above it is explored

ASSUME PeerFinite == IsFiniteSet(Peer)
ASSUME NoAddrIsNone == NoAddr \notin Addr
ASSUME MaxMembersNat == MaxMembers \in Nat
ASSUME MaxIncNat == MaxInc \in Nat

VARIABLES
    selfInc,   \* self_incarnation
    member,    \* members, indexed by the peer's id
    heard      \* the claims applied to each row (history)

vars == <<selfInc, member, heard>>

Desc == Addr \cup {NoAddr}
Source == {"unknown", "gossip", "authenticated"}
Inc == 0 .. MaxInc

\* Member: state, incarnation, desc.addr, contact_source, contact_incarnation.
Row == [state : EntryState, inc : Nat, addr : Desc, source : Source, addrInc : Nat]

NoRow == [state |-> "absent", inc |-> 0, addr |-> NoAddr, source |-> "unknown", addrInc |-> 0]

Known == {p \in Peer : member[p].state # "absent"}

\* Deviation: the full table is found full one row late.
RoomForOneMore == Cardinality(Known) <= MaxMembers

HasRoom == Cardinality(Known) < MaxMembers

TypeOK ==
    /\ selfInc \in Nat
    /\ member \in [Peer -> Row]
    /\ heard \in [Peer -> SUBSET Claim]

Init ==
    /\ selfInc = 0
    /\ member = [p \in Peer |-> NoRow]
    /\ heard = [p \in Peer |-> {}]

-----------------------------------------------------------------------------
\* Deviation: every first claim counts as gossip about an address.
InsertedAsGossip(c, a) ==
    [state |-> c.state, inc |-> c.inc, addr |-> a, source |-> "gossip", addrInc |-> c.inc]

\* The row of a peer first met through the claim c with descriptor a.  A
\* SUSPECT or CONFIRM carries no descriptor.
Inserted(c, a) ==
    IF c.state = "alive"
    THEN [state |-> "alive", inc |-> c.inc, addr |-> a,
          source |-> IF a = NoAddr THEN "unknown" ELSE "gossip", addrInc |-> c.inc]
    ELSE [state |-> c.state, inc |-> c.inc, addr |-> NoAddr, source |-> "unknown", addrInc |-> 0]

\* Deviation: an ALIVE without an address replaces the row's.
TakesAnyAddress(r, c, a) ==
    /\ c.state = "alive"
    /\ r.source # "authenticated" \/ c.inc > r.addrInc

\* An ALIVE carries the address unless it has none, or the row's address is
\* authenticated at this incarnation or a later one.
TakesAddress(r, c, a) ==
    /\ c.state = "alive"
    /\ a # NoAddr
    /\ r.source # "authenticated" \/ c.inc > r.addrInc

\* Deviation: the address moves whether or not the claim is accepted.
AddressOutsideLattice(r, c, a) ==
    LET moved == IF c.state = "alive" /\ a # NoAddr
                 THEN [r EXCEPT !.addr = a, !.source = "gossip"] ELSE r
    IN  IF Supersedes(c, r) THEN [moved EXCEPT !.state = c.state, !.inc = c.inc] ELSE moved

\* lattice: the row r after the claim c with descriptor a.
LatticeStep(r, c, a) ==
    IF ~Supersedes(c, r) THEN r
    ELSE [r EXCEPT !.state = c.state,
                   !.inc = c.inc,
                   !.addr = IF TakesAddress(r, c, a) THEN a ELSE @,
                   !.source = IF TakesAddress(r, c, a) THEN "gossip" ELSE @,
                   !.addrInc = IF TakesAddress(r, c, a) THEN c.inc ELSE @]

\* Deviation: a claim about a known peer starts its row afresh.
AlwaysInserted(r, c, a) == Inserted(c, a)

\* apply on a row: the first claim inserts it, later ones go through lattice.
ApplyRow(r, c, a) == IF r.state = "absent" THEN Inserted(c, a) ELSE LatticeStep(r, c, a)

\* Direct evidence outranks a SUSPECT or CONFIRM: the claim noteSessionAlive
\* makes about a row that is not alive.
Raise(r) == [state |-> "alive", inc |-> r.inc + 1]

\* observeAuthenticated's two writes of the contact, around noteSessionAlive.
Authenticate(r, a) ==
    IF a = NoAddr THEN r
    ELSE [r EXCEPT !.addr = a, !.source = "authenticated", !.addrInc = r.inc]

NoteAlive(r) == IF r.state = "alive" THEN r ELSE LatticeStep(r, Raise(r), r.addr)

AuthenticatedRow(r, a) ==
    LET raised == NoteAlive(Authenticate(r, a))
    IN  IF a = NoAddr THEN raised
        ELSE [raised EXCEPT !.source = "authenticated", !.addrInc = raised.inc]
-----------------------------------------------------------------------------
Claimed(p) == member[p].state # "absent" \/ HasRoom

Hear(p, claims) == heard' = [heard EXCEPT ![p] = @ \cup claims]

\* apply(ev) for an event about a peer.
Apply(p, c, a) ==
    /\ Claimed(p)
    /\ member' = [member EXCEPT ![p] = ApplyRow(@, c, a)]
    /\ Hear(p, {c})
    /\ UNCHANGED selfInc

ApplyAlive(p) == \E i \in Inc, a \in Desc : Apply(p, [state |-> "alive", inc |-> i], a)

ApplySuspect(p) == \E i \in Inc : Apply(p, [state |-> "suspect", inc |-> i], NoAddr)

ApplyConfirm(p) == \E i \in Inc : Apply(p, [state |-> "dead", inc |-> i], NoAddr)

\* observe(desc): a row at incarnation 0, unless there is one or no room.
Observe(p) ==
    \E a \in Desc :
        /\ member[p].state = "absent"
        /\ Apply(p, [state |-> "alive", inc |-> 0], a)

\* observeAuthenticated(desc), as onSessionUp and onPeerContact call it.
ObserveAuthenticated(p) ==
    \E a \in Desc :
        LET first == [state |-> "alive", inc |-> 0]
            r == IF member[p].state = "absent" THEN Inserted(first, a) ELSE member[p]
        IN  /\ Claimed(p)
            /\ r.state # "alive" => r.inc < MaxInc
            /\ member' = [member EXCEPT ![p] = AuthenticatedRow(r, a)]
            /\ Hear(p, IF r.state = "alive" THEN {first} ELSE {first, Raise(r)})
            /\ UNCHANGED selfInc

\* handle(.ping): a frame from a member held dead raises it.
RaiseOnPing(p) ==
    /\ member[p].state = "dead"
    /\ member[p].inc < MaxInc
    /\ member' = [member EXCEPT ![p] = LatticeStep(@, Raise(@), @.addr)]
    /\ Hear(p, {Raise(member[p])})
    /\ UNCHANGED selfInc

\* handle(.ack) answering the outstanding probe: ALIVE at the acker's
\* incarnation i, or above the CONFIRM if the target is held dead.
AliveOnAck(p) ==
    \E i \in Inc :
        LET r == member[p]
            c == [state |-> "alive",
                  inc |-> IF r.state = "dead" /\ r.inc >= i THEN r.inc + 1 ELSE i]
        IN  /\ r.state # "absent"
            /\ c.inc <= MaxInc
            /\ member' = [member EXCEPT ![p] = LatticeStep(@, c, @.addr)]
            /\ Hear(p, {c})
            /\ UNCHANGED selfInc

\* apply(.alive) about this node: adopt a greater incarnation, change no row.
AdoptSelf ==
    \E i \in Inc :
        /\ i > selfInc
        /\ selfInc' = i
        /\ UNCHANGED <<member, heard>>

\* applyEventFrom(.suspect) about this node: refute with the next incarnation.
RefuteSelf ==
    /\ selfInc < MaxInc
    /\ selfInc' = selfInc + 1
    /\ UNCHANGED <<member, heard>>

Next ==
    \/ \E p \in Peer : ApplyAlive(p)
    \/ \E p \in Peer : ApplySuspect(p)
    \/ \E p \in Peer : ApplyConfirm(p)
    \/ \E p \in Peer : Observe(p)
    \/ \E p \in Peer : ObserveAuthenticated(p)
    \/ \E p \in Peer : RaiseOnPing(p)
    \/ \E p \in Peer : AliveOnAck(p)
    \/ AdoptSelf
    \/ RefuteSelf

Spec == Init /\ [][Next]_vars
-----------------------------------------------------------------------------
\* The entry e is the strongest of the claims H, and one of them.
Strongest(e, H) ==
    IF e.state = "absent" THEN H = {}
    ELSE /\ \E c \in H : c.state = e.state /\ c.inc = e.inc
         /\ \A c \in H : AtMost(c, e)

\* Each row holds the strongest claim the table was ever given about the peer:
\* the order in which gossip, overrides and session evidence interleaved does
\* not matter to state and incarnation (swim.zig, lattice).
RowIsStrongestClaim == \A p \in Peer : Strongest(member[p], heard[p])

\* An address is recorded at an incarnation the row has reached, and its
\* source says unknown exactly while there is no address (swim.zig, lattice
\* and observeAuthenticated).  The comparison with contact_incarnation that
\* protects an authenticated address is meaningful only under the first part.
ContactSound ==
    \A p \in Peer : /\ member[p].addrInc <= member[p].inc
                    /\ member[p].source = "unknown" <=> member[p].addr = NoAddr

\* The table never outgrows its array (swim.zig, max_members), whichever of
\* the four insertion sites adds the row.
WithinCapacity == Cardinality(Known) <= MaxMembers

\* No call, in whatever order, takes a row down the lattice or removes it: a
\* CONFIRM is left only at a greater incarnation (swim.zig, lattice).
KnowledgeOnlyGrows == [][\A p \in Peer : AtMost(member[p], member'[p])]_vars

\* A member that can be dialled stays dialable: an event built from a row
\* without an address never erases one (swim.zig, lattice and observeAuthenticated).
AddressKept == [][\A p \in Peer : member[p].addr # NoAddr => member'[p].addr # NoAddr]_vars

\* An address the peer itself authenticated is replaced only by newer
\* authenticated evidence or at a greater incarnation: stale gossip of the same
\* incarnation cannot redirect the dial (swim.zig, lattice).
AuthenticatedStands ==
    [][\A p \in Peer :
          (member[p].source = "authenticated" /\ member'[p].addr # member[p].addr)
          => (member'[p].source = "authenticated" \/ member'[p].inc > member[p].inc)]_vars
=============================================================================
