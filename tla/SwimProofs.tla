----------------------------- MODULE SwimProofs -----------------------------
(***************************************************************************)
(* Proofs about the failure detector of module Swim: its type invariant,   *)
(* what a node holds and re-gossips, what a step may do to a table, whose  *)
(* answers end a probe, and what losses do not do, for every cluster,      *)
(* every nonce assignment and every bound.                                 *)
(*                                                                         *)
(* Every handler is a function from a node's record to an outcome, so the  *)
(* argument is about one record s at a time: Serves says what a handler    *)
(* may make of it, given the events C it was told or decided itself;       *)
(* Serves composes, and each action is one outcome and a Commit.           *)
(***************************************************************************)
EXTENDS Swim, SwimLatticeProofs, WellFoundedInduction, SequenceTheorems, FiniteSetTheorems

Relay == [nonce : Nat, requester : Node]

State == [up : BOOLEAN, inc : Nat, table : [Node -> Entry], ring : Seq(Event),
          probe : Probe \cup {None}, nonce : Nat, relays : Seq(Relay)]

\* GossipHeldTrue, for one event of the ring of the record s.
HeldTrue(n, s, e) ==
    IF e.id = n THEN e.state = "alive" /\ e.inc <= s.inc ELSE AtMost(e, s.table[e.id])

\* The record s of the node n, between two calls and inside them.
NodeOK(n, s) ==
    /\ s \in State
    /\ s.table[n] = Absent
    /\ Len(s.ring) <= RingCap
    /\ \A k \in DOMAIN s.ring : HeldTrue(n, s, s.ring[k])
    /\ s.probe # None => s.probe.target # n
    /\ Len(s.relays) <= RelayCap
    /\ \A k \in DOMAIN s.relays : s.relays[k].requester # n

MsgOK(m) ==
    /\ m.from \in Node /\ m.to \in Node /\ m.from # m.to
    /\ m.events \in Seq(Event) /\ Len(m.events) <= RingCap
    /\ m.type # "gossip" => m.nonce \in Nat
    /\ m.type = "ack" => m.inc \in Nat
    /\ m.type = "ping_req" => m.target \in Node

\* The inductive invariant.
IInv ==
    /\ node \in [Node -> State]
    /\ \A n \in Node : NodeOK(n, node[n]) /\ node[n].inc <= MaxInc
    /\ \A m \in msgs : MsgOK(m)

\* What a handler of n may make of the record s: rows only rise, and one that
\* becomes dead was confirmed by one of the events C.
Serves(n, s, t, C) ==
    /\ NodeOK(n, t)
    /\ t.up = s.up
    /\ \A p \in Node : /\ AtMost(s.table[p], t.table[p])
                       /\ (t.table[p].state = "dead" /\ t.table[p] # s.table[p])
                          => Confirm(p, t.table[p].inc) \in C

\* The outcome o of a handler of n on the record s.
Outcome(n, s, o, C) ==
    /\ o = [st |-> o.st, out |-> o.out]
    /\ Serves(n, s, o.st, C)
    /\ \A m \in o.out : MsgOK(m) /\ m.from = n
-----------------------------------------------------------------------------
(***************************************************************************)
(* What the relation Serves is good for.                                   *)
(***************************************************************************)
LEMMA EntryKnowledge ==
    ASSUME NEW e \in Entry
    PROVE  Knowledge(e) /\ e.inc \in Nat
  BY DEF Entry, Knowledge, Absent, EntryState, MemberState

LEMMA ServesNothing ==
    ASSUME NEW n \in Node, NEW s, NodeOK(n, s), NEW C
    PROVE  Serves(n, s, s, C)
<1>1. \A p \in Node : AtMost(s.table[p], s.table[p])
  BY EntryKnowledge, AtMostTotal DEF NodeOK, State
<1> QED
  BY <1>1 DEF Serves

LEMMA ServesBoth ==
    ASSUME NEW n \in Node, NEW s, NEW t, NEW u, NEW C,
           NodeOK(n, s), Serves(n, s, t, C), Serves(n, t, u, C)
    PROVE  Serves(n, s, u, C)
<1> SUFFICES ASSUME NEW p \in Node
             PROVE  /\ AtMost(s.table[p], u.table[p])
                    /\ (u.table[p].state = "dead" /\ u.table[p] # s.table[p])
                       => Confirm(p, u.table[p].inc) \in C
  BY DEF Serves
<1>1. s.table[p] \in Entry /\ t.table[p] \in Entry /\ u.table[p] \in Entry
  BY DEF Serves, NodeOK, State
<1>2. AtMost(s.table[p], u.table[p])
  BY <1>1, EntryKnowledge, AtMostTransitive DEF Serves
<1> QED
  BY <1>2 DEF Serves
-----------------------------------------------------------------------------
(***************************************************************************)
(* The operators of a handler, one record at a time.                       *)
(***************************************************************************)

\* The ring q with one event more, over its oldest when it is full.
Pushed(q, e) == IF Len(q) < RingCap THEN Append(q, e) ELSE Append(Tail(q), e)

LEMMA PushedRing ==
    ASSUME NEW q \in Seq(Event), Len(q) <= RingCap, NEW e \in Event
    PROVE  /\ Pushed(q, e) \in Seq(Event) /\ Len(Pushed(q, e)) <= RingCap
           /\ \A k \in DOMAIN Pushed(q, e) :
                 Pushed(q, e)[k] = e \/ \E j \in DOMAIN q : Pushed(q, e)[k] = q[j]
<1> DEFINE r == Pushed(q, e)
<1>1. Len(q) \in Nat /\ RingCap \in Nat \ {0} /\ DOMAIN q = 1 .. Len(q)
  BY LenProperties, SwimConstants
<1>2. CASE Len(q) < RingCap
  <2>1. r = Append(q, e)
    BY <1>2 DEF Pushed
  <2> HIDE DEF r
  <2>2. /\ r \in Seq(Event) /\ Len(r) = Len(q) + 1 /\ r[Len(q) + 1] = e
        /\ \A i \in 1 .. Len(q) : r[i] = q[i]
    BY <2>1, AppendProperties
  <2>3. DOMAIN r = 1 .. Len(r)
    BY <2>2, LenProperties
  <2> QED
    BY <1>1, <1>2, <2>2, <2>3 DEF r
<1>3. CASE ~(Len(q) < RingCap)
  <2>1. q # <<>>
    BY <1>1, <1>3
  <2> DEFINE g == Tail(q)
  <2>2. /\ g \in Seq(Event) /\ Len(g) = Len(q) - 1
        /\ \A i \in 1 .. Len(g) : g[i] = q[i + 1]
    BY <2>1, HeadTailProperties
  <2>3. r = Append(g, e)
    BY <1>3 DEF Pushed
  <2> HIDE DEF g, r
  <2>4. /\ r \in Seq(Event) /\ Len(r) = Len(g) + 1 /\ r[Len(g) + 1] = e
        /\ \A i \in 1 .. Len(g) : r[i] = g[i]
    BY <2>2, <2>3, AppendProperties
  <2>5. DOMAIN r = 1 .. Len(r) /\ Len(r) = Len(q)
    BY <1>1, <2>2, <2>4, LenProperties
  <2>6. ASSUME NEW k \in DOMAIN r, r[k] # e
        PROVE  \E j \in DOMAIN q : r[k] = q[j]
    <3>1. k \in 1 .. Len(g) /\ k + 1 \in DOMAIN q
      BY <1>1, <2>2, <2>4, <2>5, <2>6
    <3>2. r[k] = q[k + 1]
      BY <2>2, <2>4, <3>1
    <3> QED
      BY <3>1, <3>2
  <2> QED
    BY <2>4, <2>5, <2>6 DEF r
<1> QED
  BY <1>2, <1>3

\* Of a record, disseminate changes the ring only.
LEMMA DisseminateOK ==
    ASSUME NEW n \in Node, NEW s, NodeOK(n, s), NEW e \in Event, HeldTrue(n, s, e)
    PROVE  /\ NodeOK(n, Disseminate(s, e))
           /\ Disseminate(s, e).table = s.table /\ Disseminate(s, e).up = s.up
<1> DEFINE t == Disseminate(s, e)
<1>1. s.ring \in Seq(Event) /\ Len(s.ring) <= RingCap
  BY DEF NodeOK, State
<1>2. /\ t.up = s.up /\ t.inc = s.inc /\ t.table = s.table /\ t.probe = s.probe
      /\ t.nonce = s.nonce /\ t.relays = s.relays
      /\ t.ring = Pushed(s.ring, e)
      /\ t.ring \in Seq(Event) => t \in State
  BY DEF Disseminate, NodeOK, State, Pushed
<1>3. /\ t.ring \in Seq(Event) /\ Len(t.ring) <= RingCap
      /\ \A k \in DOMAIN t.ring : t.ring[k] = e \/ \E j \in DOMAIN s.ring : t.ring[k] = s.ring[j]
  <2> HIDE DEF t
  <2> QED
    BY <1>1, <1>2, PushedRing
<1>4. \A k \in DOMAIN t.ring : HeldTrue(n, t, t.ring[k])
  BY <1>2, <1>3 DEF NodeOK, HeldTrue
<1> QED
  BY <1>2, <1>3, <1>4 DEF NodeOK

\* A record whose table, incarnation or probe moved on, with its ring as before.
LEMMA RingStaysTrue ==
    ASSUME NEW n \in Node, NEW s, NodeOK(n, s), NEW t \in State, t.ring = s.ring,
           s.inc <= t.inc, \A p \in Node : AtMost(s.table[p], t.table[p])
    PROVE  \A k \in DOMAIN t.ring : HeldTrue(n, t, t.ring[k])
<1> SUFFICES ASSUME NEW k \in DOMAIN s.ring
             PROVE  HeldTrue(n, t, s.ring[k])
  OBVIOUS
<1>1. s.ring[k] \in Event /\ HeldTrue(n, s, s.ring[k])
  BY LenProperties, ElementOfSeq DEF NodeOK, State
<1>2. s.inc \in Nat /\ t.inc \in Nat /\ s.ring[k].inc \in Nat /\ s.ring[k].id \in Node
  BY <1>1 DEF NodeOK, State, Event
<1>3. CASE s.ring[k].id = n
  BY <1>1, <1>2, <1>3 DEF HeldTrue
<1>4. CASE s.ring[k].id # n
  <2> DEFINE p == s.ring[k].id
  <2>1. s.table[p] \in Entry /\ t.table[p] \in Entry
    BY <1>2 DEF NodeOK, State
  <2>2. Knowledge(s.ring[k])
    BY <1>1 DEF Event, Knowledge, EntryState
  <2>3. AtMost(s.ring[k], t.table[p])
    BY <1>1, <1>2, <1>4, <2>1, <2>2, EntryKnowledge, AtMostTransitive DEF HeldTrue
  <2> QED
    BY <1>4, <2>3 DEF HeldTrue
<1> QED
  BY <1>3, <1>4

\* apply: an event about a peer, which C holds if it is a CONFIRM, or about n.
LEMMA ApplyEventOK ==
    ASSUME NEW n \in Node, NEW s, NodeOK(n, s), NEW e \in Event,
           NEW C, e.state = "dead" => e \in C
    PROVE  /\ Serves(n, s, ApplyEvent(n, s, e), C)
           /\ e.id # n => HeldTrue(n, ApplyEvent(n, s, e), e)
<1> DEFINE t == ApplyEvent(n, s, e)
<1>1. s.inc \in Nat /\ e.inc \in Nat /\ e.id \in Node /\ s.table \in [Node -> Entry]
  BY DEF NodeOK, State, Event
<1>2. CASE e.id # n
  <2> DEFINE r == Merge(s.table[e.id], e)
  <2>1. /\ r \in Entry /\ AtMost(s.table[e.id], r) /\ AtMost(e, r)
        /\ r = s.table[e.id] \/ r = [state |-> e.state, inc |-> e.inc]
    BY <1>1, MergeCovers DEF Event, Knowledge, EntryState, MemberState
  <2>2. t = [s EXCEPT !.table = [@ EXCEPT ![e.id] = r]]
    BY <1>2 DEF ApplyEvent
  <2> HIDE DEF r
  <2>3. /\ t \in State /\ t.up = s.up /\ t.inc = s.inc /\ t.ring = s.ring /\ t.probe = s.probe
        /\ t.relays = s.relays /\ t.table = [s.table EXCEPT ![e.id] = r]
    BY <2>1, <2>2, <1>1 DEF NodeOK, State
  <2>4. \A p \in Node : t.table[p] = IF p = e.id THEN r ELSE s.table[p]
    BY <1>1, <2>3
  <2> HIDE DEF t
  <2>5. \A p \in Node : AtMost(s.table[p], t.table[p])
    BY <2>1, <2>4, ServesNothing DEF Serves
  <2>6. \A k \in DOMAIN t.ring : HeldTrue(n, t, t.ring[k])
    BY <1>1, <2>3, <2>5, RingStaysTrue
  <2>7. NodeOK(n, t)
    BY <1>2, <2>3, <2>4, <2>6 DEF NodeOK
  <2>8. ASSUME NEW p \in Node, t.table[p].state = "dead", t.table[p] # s.table[p]
        PROVE  Confirm(p, t.table[p].inc) \in C
    <3>1. p = e.id /\ t.table[p] = [state |-> e.state, inc |-> e.inc]
      BY <2>1, <2>4, <2>8
    <3>2. e = Confirm(p, t.table[p].inc)
      BY <2>8, <3>1 DEF Event, Confirm
    <3> QED
      BY <2>8, <3>1, <3>2
  <2>9. HeldTrue(n, t, e)
    BY <1>1, <1>2, <2>1, <2>4 DEF HeldTrue
  <2> QED
    BY <2>3, <2>5, <2>7, <2>8, <2>9 DEF Serves, t
<1>3. CASE e.id = n /\ e.state = "alive" /\ e.inc > s.inc
  <2>1. /\ t \in State /\ t.up = s.up /\ t.inc = e.inc /\ t.ring = s.ring /\ t.probe = s.probe
        /\ t.relays = s.relays /\ t.table = s.table
    BY <1>1, <1>3 DEF ApplyEvent, NodeOK, State
  <2>2. \A p \in Node : AtMost(s.table[p], s.table[p])
    BY ServesNothing DEF Serves
  <2>3. \A k \in DOMAIN t.ring : HeldTrue(n, t, t.ring[k])
    BY <1>1, <1>3, <2>1, <2>2, RingStaysTrue
  <2> QED
    BY <1>3, <2>1, <2>2, <2>3 DEF Serves, NodeOK
<1>4. CASE e.id = n /\ ~(e.state = "alive" /\ e.inc > s.inc)
  BY <1>4, ServesNothing DEF ApplyEvent
<1> QED
  BY <1>2, <1>3, <1>4

\* apply and disseminate, about a peer.
LEMMA VouchOK ==
    ASSUME NEW n \in Node, NEW s, NodeOK(n, s), NEW e \in Event, e.id # n,
           NEW C, e.state = "dead" => e \in C
    PROVE  Serves(n, s, Vouch(n, s, e), C)
<1> DEFINE t == ApplyEvent(n, s, e)
<1>1. Serves(n, s, t, C) /\ HeldTrue(n, t, e)
  BY ApplyEventOK
<1> HIDE DEF t
<1>2. /\ NodeOK(n, Disseminate(t, e))
      /\ Disseminate(t, e).table = t.table /\ Disseminate(t, e).up = t.up
  BY <1>1, DisseminateOK DEF Serves
<1>3. Vouch(n, s, e) = Disseminate(t, e)
  BY DEF Vouch, t
<1> QED
  BY <1>1, <1>2, <1>3 DEF Serves

\* The refutation of a suspicion of n: the next incarnation, into the ring.
LEMMA RefuteOK ==
    ASSUME NEW n \in Node, NEW s, NodeOK(n, s), NEW C
    PROVE  Serves(n, s, Disseminate([s EXCEPT !.inc = @ + 1], Alive(n, s.inc + 1)), C)
<1> DEFINE t == [s EXCEPT !.inc = @ + 1]
           e == Alive(n, s.inc + 1)
<1>1. /\ t \in State /\ t.up = s.up /\ t.inc = s.inc + 1 /\ t.ring = s.ring /\ t.probe = s.probe
      /\ t.relays = s.relays /\ t.table = s.table /\ s.inc \in Nat
  BY DEF NodeOK, State
<1>2. e \in Event /\ e.id = n /\ e.state = "alive" /\ e.inc = s.inc + 1
  BY <1>1 DEF Event, Alive, MemberState
<1> HIDE DEF t, e
<1>3. \A p \in Node : AtMost(s.table[p], s.table[p])
  BY ServesNothing DEF Serves
<1>4. NodeOK(n, t)
  BY <1>1, <1>3, RingStaysTrue DEF NodeOK
<1>5. HeldTrue(n, t, e)
  BY <1>1, <1>2 DEF HeldTrue
<1>6. NodeOK(n, Disseminate(t, e)) /\ Disseminate(t, e).table = t.table /\ Disseminate(t, e).up = t.up
  BY <1>2, <1>4, <1>5, DisseminateOK
<1> QED
  BY <1>1, <1>3, <1>6 DEF Serves, t, e

LEMMA GossipOK ==
    ASSUME NEW n \in Node, NEW p \in Node, p # n, NEW e \in Event
    PROVE  MsgOK(Gossip(n, p, e)) /\ Gossip(n, p, e).from = n
<1>1. <<e>> \in Seq(Event) /\ Len(<<e>>) = 1 /\ 1 <= RingCap
  BY SwimConstants
<1> QED
  BY <1>1 DEF MsgOK, Gossip

\* One event of a frame.
LEMMA TakeOK ==
    ASSUME NEW n \in Node, NEW s, NodeOK(n, s), NEW from \in Node, from # n,
           NEW acc, NEW C, Outcome(n, s, acc, C), NEW e \in Event, e \in C
    PROVE  Outcome(n, s, Take(n, from, acc, e), C)
<1> DEFINE t == acc.st
           new == Take(n, from, acc, e)
<1>1. NodeOK(n, t) /\ t.inc \in Nat /\ acc = [st |-> t, out |-> acc.out]
  BY DEF Outcome, Serves, NodeOK, State
<1>2. CASE e.id = n /\ e.state = "suspect"
  <2> DEFINE r == Alive(n, t.inc + 1)
             u == Disseminate([t EXCEPT !.inc = @ + 1], r)
  <2>1. new = [st |-> u, out |-> acc.out \cup {Gossip(n, from, r)}]
    BY <1>2 DEF Take
  <2>2. Serves(n, t, u, C)
    BY <1>1, RefuteOK
  <2>3. MsgOK(Gossip(n, from, r)) /\ Gossip(n, from, r).from = n
    <3>1. r \in Event
      BY <1>1 DEF Alive, Event, MemberState
    <3> QED
      BY <3>1, GossipOK
  <2> HIDE DEF u, r
  <2>4. Serves(n, s, u, C)
    BY <2>2, ServesBoth DEF Outcome
  <2> QED
    BY <2>1, <2>3, <2>4 DEF Outcome
<1>3. CASE ~(e.id = n /\ e.state = "suspect")
  <2> DEFINE u == IF e.id # n /\ Supersedes(e, t.table[e.id]) THEN Vouch(n, t, e) ELSE ApplyEvent(n, t, e)
  <2>1. new = [st |-> u, out |-> acc.out]
    BY <1>1, <1>3 DEF Take
  <2>2. Serves(n, t, u, C)
    BY <1>1, VouchOK, ApplyEventOK
  <2> HIDE DEF u
  <2>3. Serves(n, s, u, C)
    BY <2>2, ServesBoth DEF Outcome
  <2> QED
    BY <2>1, <2>3 DEF Outcome
<1> QED
  BY <1>2, <1>3
-----------------------------------------------------------------------------
(***************************************************************************)
(* All events of a frame: TakeAll is a function over their positions, and  *)
(* what holds of each of its values is shown by counting them.  Induction  *)
(* is stated for a set, the least number outside of it being the culprit.  *)
(***************************************************************************)
LEMMA Counting ==
    ASSUME NEW T, NEW L \in Nat, 0 \in T, \A k \in 0 .. L - 1 : k \in T => k + 1 \in T
    PROVE  0 .. L \subseteq T
<1> DEFINE R == OpToRel(<, Nat)
           U == (0 .. L) \ T
<1> SUFFICES ASSUME U # {} PROVE FALSE
  OBVIOUS
<1>1. IsWellFoundedOn(R, Nat)
  BY NatLessThanWellFounded
<1>2. \A j, k \in Nat : <<j, k>> \in R <=> j < k
  BY DEF OpToRel
<1>3. U \subseteq Nat
  OBVIOUS
<1> HIDE DEF R
<1>4. PICK k \in U : \A j \in U : ~(<<j, k>> \in R)
  <2> HIDE DEF U
  <2> QED
    BY <1>1, <1>3, WFMin
<1>5. k # 0 /\ k - 1 \in 0 .. L - 1 /\ k - 1 \notin T
  BY <1>4
<1>6. k - 1 \in U /\ k - 1 \in Nat /\ k \in Nat /\ k - 1 < k
  BY <1>5
<1> QED
  BY <1>2, <1>4, <1>6

\* f is the recursive function of TakeAll over the first m events.
Takes(f, n, from, s, events, m) ==
    f = [k \in 0 .. m |-> IF k = 0 THEN [st |-> s, out |-> {}]
                          ELSE Take(n, from, f[k - 1], events[k])]

LEMMA TakeAllDefined ==
    ASSUME NEW n, NEW from, NEW s, NEW events, Len(events) \in Nat
    PROVE  \E f : /\ Takes(f, n, from, s, events, Len(events))
                  /\ TakeAll(n, from, s, events) = f[Len(events)]
<1> DEFINE L == Len(events)
           T == {m \in 0 .. L : \E f : Takes(f, n, from, s, events, m)}
<1>1. 0 \in T
  <2>1. Takes([k \in 0 .. 0 |-> [st |-> s, out |-> {}]], n, from, s, events, 0)
    BY DEF Takes
  <2> QED
    BY <2>1
<1>2. ASSUME NEW m \in 0 .. L - 1, m \in T
      PROVE  m + 1 \in T
  <2>1. PICK f : Takes(f, n, from, s, events, m)
    BY <1>2
  <2> DEFINE g == [k \in 0 .. m + 1 |-> IF k = m + 1 THEN Take(n, from, f[m], events[m + 1]) ELSE f[k]]
  <2>2. \A j \in 0 .. m : f[j] = IF j = 0 THEN [st |-> s, out |-> {}]
                                 ELSE Take(n, from, f[j - 1], events[j])
    BY <2>1 DEF Takes
  <2>3. ASSUME NEW k \in 0 .. m + 1
        PROVE  g[k] = IF k = 0 THEN [st |-> s, out |-> {}] ELSE Take(n, from, g[k - 1], events[k])
    <3>1. CASE k = m + 1
      <4>1. g[k - 1] = f[m]
        BY <3>1
      <4> QED
        BY <3>1, <4>1
    <3>2. CASE k # m + 1
      <4>1. k \in 0 .. m /\ (k # 0 => g[k - 1] = f[k - 1])
        BY <3>2
      <4>2. g[k] = f[k]
        BY <3>2
      <4> HIDE DEF g
      <4> QED
        BY <2>2, <4>1, <4>2
    <3> QED
      BY <3>1, <3>2
  <2>4. Takes(g, n, from, s, events, m + 1)
    BY <2>3 DEF Takes
  <2> QED
    BY <2>4
<1>3. L \in T
  <2> HIDE DEF L, T
  <2>1. 0 .. L \subseteq T
    BY <1>1, <1>2, Counting DEF L
  <2> QED
    BY <2>1 DEF L
<1>4. PICK f : Takes(f, n, from, s, events, L)
  BY <1>3
<1> QED
  BY <1>4 DEF TakeAll, Takes

LEMMA TakeAllOK ==
    ASSUME NEW n \in Node, NEW s, NodeOK(n, s), NEW from \in Node, from # n,
           NEW events \in Seq(Event), NEW C, \A k \in DOMAIN events : events[k] \in C
    PROVE  Outcome(n, s, TakeAll(n, from, s, events), C)
<1> DEFINE L == Len(events)
<1>1. L \in Nat /\ DOMAIN events = 1 .. L /\ \A k \in 1 .. L : events[k] \in Event
  BY LenProperties, ElementOfSeq
<1>2. PICK f : Takes(f, n, from, s, events, L) /\ TakeAll(n, from, s, events) = f[L]
  BY <1>1, TakeAllDefined
<1>3. /\ f[0] = [st |-> s, out |-> {}]
      /\ \A k \in 0 .. L - 1 : f[k + 1] = Take(n, from, f[k], events[k + 1])
  <2> HIDE DEF L
  <2>1. \A j \in 0 .. L : f[j] = IF j = 0 THEN [st |-> s, out |-> {}]
                                 ELSE Take(n, from, f[j - 1], events[j])
    BY <1>2 DEF Takes
  <2>2. 0 \in 0 .. L /\ \A k \in 0 .. L - 1 : k + 1 \in 0 .. L /\ k + 1 # 0 /\ (k + 1) - 1 = k
    BY <1>1
  <2> QED
    BY <2>1, <2>2
<1> DEFINE T == {k \in 0 .. L : Outcome(n, s, f[k], C)}
<1>4. 0 \in T
  BY <1>1, <1>3, ServesNothing DEF Outcome
<1>5. ASSUME NEW k \in 0 .. L - 1, k \in T
      PROVE  k + 1 \in T
  <2>1. events[k + 1] \in Event /\ events[k + 1] \in C
    BY <1>1
  <2>2. Outcome(n, s, Take(n, from, f[k], events[k + 1]), C)
    BY <1>5, <2>1, TakeOK
  <2> QED
    BY <1>3, <2>2
<1>6. L \in T
  <2> HIDE DEF L, T
  <2>1. 0 .. L \subseteq T
    BY <1>1, <1>4, <1>5, Counting
  <2> QED
    BY <1>1, <2>1
<1> QED
  BY <1>2, <1>6
-----------------------------------------------------------------------------
(***************************************************************************)
(* The handlers of the four frames, and of a session that comes up.        *)
(***************************************************************************)

LEMMA PiggybackOK ==
    ASSUME NEW n \in Node, NEW s, NodeOK(n, s)
    PROVE  Piggyback(s) \in Seq(Event) /\ Len(Piggyback(s)) <= RingCap
<1> DEFINE q == s.ring
           m == IF Len(q) < PiggybackMax THEN Len(q) ELSE PiggybackMax
<1>1. q \in Seq(Event) /\ Len(q) \in Nat /\ Len(q) <= RingCap
  BY LenProperties DEF NodeOK, State
<1>2. m \in Nat /\ m <= Len(q)
  BY <1>1, SwimConstants
<1> HIDE DEF m
<1>3. \A i \in 1 .. m : q[i] \in Event
  BY <1>1, <1>2, ElementOfSeq
<1> HIDE DEF q
<1>4. SubSeq(q, 1, m) \in Seq(Event) /\ Len(SubSeq(q, 1, m)) = IF 1 <= m THEN m - 1 + 1 ELSE 0
  BY <1>2, <1>3, SubSeqProperties
<1>5. Len(SubSeq(q, 1, m)) <= RingCap
  BY <1>1, <1>2, <1>4, SwimConstants
<1> QED
  BY <1>4, <1>5 DEF Piggyback, q, m

\* An outstanding probe ends, whatever ends it.
LEMMA IdleOK ==
    ASSUME NEW n \in Node, NEW s, NodeOK(n, s), NEW C
    PROVE  Serves(n, s, [s EXCEPT !.probe = None], C)
<1> DEFINE t == [s EXCEPT !.probe = None]
<1>1. /\ t \in State /\ t.up = s.up /\ t.inc = s.inc /\ t.ring = s.ring /\ t.probe = None
      /\ t.relays = s.relays /\ t.table = s.table
  BY DEF NodeOK, State
<1> HIDE DEF t
<1>2. NodeOK(n, t)
  BY <1>1 DEF NodeOK, HeldTrue
<1> QED
  BY <1>1, <1>2, ServesNothing DEF Serves, t

LEMMA EndProbeOK ==
    ASSUME NEW n \in Node, NEW s, NodeOK(n, s), s.probe # None, NEW m, m.inc \in Nat, NEW C
    PROVE  Serves(n, s, EndProbe(n, s, m), C)
<1> DEFINE t == s.probe.target
           i == IF s.table[t].state = "dead" /\ s.table[t].inc >= m.inc
                THEN s.table[t].inc + 1 ELSE m.inc
           u == [s EXCEPT !.probe = None]
<1>1. t \in Node /\ t # n /\ s.table[t] \in Entry
  BY DEF NodeOK, State, Probe
<1>2. i \in Nat
  BY <1>1, EntryKnowledge
<1> HIDE DEF t, i
<1>3. Alive(t, i) \in Event /\ Alive(t, i).id = t /\ Alive(t, i).state = "alive"
  BY <1>1, <1>2 DEF Alive, Event, MemberState
<1>4. Serves(n, s, u, C)
  BY IdleOK
<1> HIDE DEF u
<1>5. Serves(n, u, Vouch(n, u, Alive(t, i)), C)
  BY <1>1, <1>3, <1>4, VouchOK DEF Serves
<1>6. EndProbe(n, s, m) = Vouch(n, u, Alive(t, i))
  BY DEF EndProbe, t, i, u
<1> QED
  BY <1>4, <1>5, <1>6, ServesBoth

\* A row of the relay table is dropped, or none.
LEMMA DropRelayOK ==
    ASSUME NEW q \in Seq(Relay), NEW k \in Nat
    PROVE  /\ DropRelay(q, k) \in Seq(Relay)
           /\ Len(DropRelay(q, k)) <= Len(q)
           /\ (k # 0 /\ Len(q) > 0) => Len(DropRelay(q, k)) = Len(q) - 1
           /\ \A j \in DOMAIN DropRelay(q, k) : \E i \in DOMAIN q : DropRelay(q, k)[j] = q[i]
<1> DEFINE r == DropRelay(q, k)
           L == IF Len(q) > 0 THEN Len(q) - 1 ELSE 0
<1>1. Len(q) \in Nat /\ DOMAIN q = 1 .. Len(q) /\ \A i \in 1 .. Len(q) : q[i] \in Relay
  BY LenProperties, ElementOfSeq
<1>2. CASE k = 0
  BY <1>1, <1>2 DEF DropRelay
<1>3. CASE k # 0
  <2>1. L \in Nat /\ 1 .. Len(q) - 1 = 1 .. L
    BY <1>1
  <2>2. r = [j \in 1 .. L |-> IF j = k THEN q[Len(q)] ELSE q[j]]
    BY <1>3, <2>1 DEF DropRelay
  <2>3. \A j \in 1 .. L : \E i \in DOMAIN q : r[j] = q[i]
    <3> SUFFICES ASSUME NEW j \in 1 .. L PROVE \E i \in DOMAIN q : r[j] = q[i]
      OBVIOUS
    <3>1. Len(q) \in DOMAIN q /\ j \in DOMAIN q
      BY <1>1
    <3>2. r[j] = IF j = k THEN q[Len(q)] ELSE q[j]
      BY <2>2
    <3> QED
      BY <3>1, <3>2
  <2>4. r \in [1 .. L -> Relay]
    BY <1>1, <2>2, <2>3
  <2> HIDE DEF r
  <2>5. r \in Seq(Relay)
    BY <2>1, <2>4, SeqDef
  <2>6. Len(r) = L /\ DOMAIN r = 1 .. L
    BY <2>1, <2>4, <2>5, LenProperties
  <2>7. \A j \in DOMAIN r : \E i \in DOMAIN q : r[j] = q[i]
    <3> HIDE DEF L
    <3> QED
      BY <2>3, <2>6
  <2>8. Len(r) <= Len(q) /\ (Len(q) > 0 => Len(r) = Len(q) - 1)
    <3>1. Len(q) > 0 => L = Len(q) - 1
      OBVIOUS
    <3>2. Len(q) = 0 => L = 0
      BY <1>1
    <3> HIDE DEF L
    <3> QED
      BY <1>1, <2>6, <3>1, <3>2
  <2> QED
    BY <2>5, <2>7, <2>8 DEF r
<1> QED
  BY <1>2, <1>3

\* Other relays, of requesters other than n.
LEMMA RelaysOK ==
    ASSUME NEW n \in Node, NEW s, NodeOK(n, s), NEW C, NEW q \in Seq(Relay), Len(q) <= RelayCap,
           \A j \in DOMAIN q : q[j].requester # n
    PROVE  Serves(n, s, [s EXCEPT !.relays = q], C)
<1> DEFINE t == [s EXCEPT !.relays = q]
<1>1. /\ t \in State /\ t.up = s.up /\ t.inc = s.inc /\ t.ring = s.ring /\ t.probe = s.probe
      /\ t.relays = q /\ t.table = s.table
  BY DEF NodeOK, State
<1> HIDE DEF t
<1>2. NodeOK(n, t)
  BY <1>1 DEF NodeOK, HeldTrue
<1> QED
  BY <1>1, <1>2, ServesNothing DEF Serves, t

\* Knowledge of a peer raised by direct evidence.
LEMMA RaisePeerOK ==
    ASSUME NEW n \in Node, NEW s, NodeOK(n, s), NEW p \in Node, p # n, NEW C
    PROVE  Serves(n, s, RaisePeer(n, s, p), C)
<1> DEFINE e == Alive(p, s.table[p].inc + 1)
<1>1. e \in Event /\ e.id = p /\ e.state = "alive"
  <2>1. s.table[p].inc \in Nat
    BY EntryKnowledge DEF NodeOK, State
  <2> QED
    BY <2>1 DEF Alive, Event, MemberState
<1> HIDE DEF e
<1>2. Serves(n, s, Vouch(n, s, e), C)
  BY <1>1, VouchOK
<1> QED
  BY <1>2 DEF RaisePeer, e

\* The events a message carries.
EventsOf(m) == {m.events[k] : k \in DOMAIN m.events}

LEMMA OnPingOK ==
    ASSUME NEW n \in Node, NodeOK(n, node[n]), NEW m, MsgOK(m), m.to = n, m.type = "ping"
    PROVE  Outcome(n, node[n], OnPing(n, m), EventsOf(m))
<1> DEFINE s == IF node[n].table[m.from].state = "dead" THEN RaisePeer(n, node[n], m.from) ELSE node[n]
           acc == TakeAll(n, m.from, s, m.events)
           ack == Ack(n, m.from, m.nonce, acc.st.inc, Piggyback(acc.st), n, m.for)
<1>1. m.from \in Node /\ m.from # n /\ m.events \in Seq(Event) /\ m.nonce \in Nat
  BY DEF MsgOK
<1>2. Serves(n, node[n], s, EventsOf(m))
  BY <1>1, RaisePeerOK, ServesNothing
<1> HIDE DEF s
<1>3. Outcome(n, s, acc, EventsOf(m))
  BY <1>1, <1>2, TakeAllOK DEF EventsOf, Serves
<1>4. OnPing(n, m) = [acc EXCEPT !.out = @ \cup {ack}]
  BY DEF OnPing, s
<1> HIDE DEF acc
<1>5. Serves(n, node[n], acc.st, EventsOf(m)) /\ NodeOK(n, acc.st) /\ acc.st.inc \in Nat
  <2>1. Serves(n, s, acc.st, EventsOf(m))
    BY <1>3 DEF Outcome
  <2>2. Serves(n, node[n], acc.st, EventsOf(m))
    BY <1>2, <2>1, ServesBoth
  <2> QED
    BY <2>1, <2>2 DEF Serves, NodeOK, State
<1>6. Piggyback(acc.st) \in Seq(Event) /\ Len(Piggyback(acc.st)) <= RingCap
  BY <1>5, PiggybackOK
<1>7. MsgOK(ack) /\ ack.from = n
  BY <1>1, <1>5, <1>6 DEF MsgOK, Ack
<1> HIDE DEF ack
<1>8. OnPing(n, m) = [st |-> acc.st, out |-> acc.out \cup {ack}]
  BY <1>3, <1>4 DEF Outcome
<1> QED
  BY <1>3, <1>5, <1>7, <1>8 DEF Outcome

LEMMA OnAckOK ==
    ASSUME NEW n \in Node, NodeOK(n, node[n]), NEW m, MsgOK(m), m.to = n, m.type = "ack"
    PROVE  Outcome(n, node[n], OnAck(n, m), EventsOf(m))
<1> DEFINE acc == TakeAll(n, m.from, node[n], m.events)
           s == acc.st
           first == {k \in DOMAIN s.relays : s.relays[k].nonce = m.nonce
                                             /\ \A j \in 1 .. k - 1 : s.relays[j].nonce # m.nonce}
           passed == {Ack(n, s.relays[k].requester, m.nonce, m.inc, <<>>, m.by, m.for) : k \in first}
<1>1. m.from \in Node /\ m.from # n /\ m.events \in Seq(Event) /\ m.nonce \in Nat /\ m.inc \in Nat
  BY DEF MsgOK
<1>2. Outcome(n, node[n], acc, EventsOf(m))
  BY <1>1, TakeAllOK DEF EventsOf
<1>3. OnAck(n, m) = IF s.probe # None /\ s.probe.nonce = m.nonce
                    THEN [acc EXCEPT !.st = EndProbe(n, s, m)]
                    ELSE [acc EXCEPT !.out = @ \cup passed]
  BY DEF OnAck
<1> HIDE DEF acc
<1>4. acc = [st |-> s, out |-> acc.out] /\ NodeOK(n, s) /\ Serves(n, node[n], s, EventsOf(m))
  BY <1>2 DEF Outcome, Serves
<1>5. CASE s.probe # None /\ s.probe.nonce = m.nonce
  <2>1. Serves(n, s, EndProbe(n, s, m), EventsOf(m))
    BY <1>1, <1>4, <1>5, EndProbeOK
  <2>2. Serves(n, node[n], EndProbe(n, s, m), EventsOf(m))
    BY <1>4, <2>1, ServesBoth
  <2>3. OnAck(n, m) = [st |-> EndProbe(n, s, m), out |-> acc.out]
    BY <1>3, <1>4, <1>5
  <2> QED
    BY <1>2, <2>2, <2>3 DEF Outcome
<1>6. CASE ~(s.probe # None /\ s.probe.nonce = m.nonce)
  <2>1. ASSUME NEW k \in first
        PROVE  LET a == Ack(n, s.relays[k].requester, m.nonce, m.inc, <<>>, m.by, m.for)
               IN  MsgOK(a) /\ a.from = n
    <3>1. s.relays[k].requester \in Node /\ s.relays[k].requester # n
      <4>1. s.relays \in Seq(Relay) /\ k \in DOMAIN s.relays
        BY <1>4 DEF NodeOK, State
      <4>2. s.relays[k] \in Relay
        BY <4>1, LenProperties, ElementOfSeq
      <4> QED
        BY <1>4, <4>1, <4>2 DEF NodeOK, Relay
    <3>2. <<>> \in Seq(Event) /\ Len(<<>>) <= RingCap
      BY SwimConstants
    <3> QED
      BY <1>1, <3>1, <3>2 DEF MsgOK, Ack
  <2> HIDE DEF first
  <2>2. \A a \in passed : MsgOK(a) /\ a.from = n
    BY <2>1
  <2> HIDE DEF passed
  <2>3. OnAck(n, m) = [st |-> s, out |-> acc.out \cup passed]
    BY <1>3, <1>4, <1>6
  <2> QED
    BY <1>2, <1>4, <2>2, <2>3 DEF Outcome
<1> QED
  BY <1>5, <1>6

LEMMA OnPingReqOK ==
    ASSUME NEW n \in Node, NodeOK(n, node[n]), NEW m, MsgOK(m), m.to = n, m.type = "ping_req"
    PROVE  Outcome(n, node[n], OnPingReq(n, m), EventsOf(m))
<1> DEFINE s == node[n]
           kept == IF Len(s.relays) >= RelayCap THEN DropRelay(s.relays, 1) ELSE s.relays
           relay == [nonce |-> m.nonce, requester |-> m.from]
           q == Append(kept, relay)
           ping == Ping(n, m.target, m.nonce, <<>>, m.for)
<1>1. m.from \in Node /\ m.from # n /\ m.nonce \in Nat /\ m.target \in Node
  BY DEF MsgOK
<1>2. CASE s.table[m.target].state = "absent"
  BY <1>2, ServesNothing DEF OnPingReq, Outcome
<1>3. CASE s.table[m.target].state # "absent"
  <2>1. OnPingReq(n, m) = [st |-> [s EXCEPT !.relays = q], out |-> {ping}]
    BY <1>3 DEF OnPingReq
  <2>2. /\ s.relays \in Seq(Relay) /\ Len(s.relays) \in Nat /\ Len(s.relays) <= RelayCap
        /\ RelayCap \in Nat /\ RelayCap > 0 /\ \A j \in DOMAIN s.relays : s.relays[j].requester # n
    BY LenProperties, SwimConstants DEF NodeOK, State
  <2>3. /\ kept \in Seq(Relay) /\ Len(kept) < RelayCap
        /\ \A j \in DOMAIN kept : \E i \in DOMAIN s.relays : kept[j] = s.relays[i]
    <3>1. CASE Len(s.relays) >= RelayCap
      <4>1. kept = DropRelay(s.relays, 1)
        BY <3>1
      <4>2. Len(s.relays) > 0 /\ Len(s.relays) = RelayCap /\ 1 \in Nat /\ 1 # 0
        BY <2>2, <3>1
      <4> HIDE DEF kept, s
      <4>3. /\ kept \in Seq(Relay) /\ Len(kept) = Len(s.relays) - 1
            /\ \A j \in DOMAIN kept : \E i \in DOMAIN s.relays : kept[j] = s.relays[i]
        BY <2>2, <4>1, <4>2, DropRelayOK
      <4> QED
        BY <2>2, <4>2, <4>3
    <3>2. CASE ~(Len(s.relays) >= RelayCap)
      BY <2>2, <3>2
    <3> QED
      BY <3>1, <3>2
  <2>4. relay \in Relay /\ relay.requester # n
    BY <1>1 DEF Relay
  <2> HIDE DEF kept, relay
  <2>5. /\ q \in Seq(Relay) /\ Len(q) = Len(kept) + 1 /\ q[Len(kept) + 1] = relay
        /\ \A j \in 1 .. Len(kept) : q[j] = kept[j]
    BY <2>3, <2>4, AppendProperties
  <2> HIDE DEF q
  <2>6. Len(kept) \in Nat /\ DOMAIN kept = 1 .. Len(kept) /\ DOMAIN q = 1 .. Len(q)
    BY <2>3, <2>5, LenProperties
  <2>7. \A j \in DOMAIN q : q[j].requester # n
    BY <2>2, <2>3, <2>4, <2>5, <2>6
  <2>8. Len(q) <= RelayCap
    BY <2>2, <2>3, <2>5, <2>6
  <2>9. Serves(n, s, [s EXCEPT !.relays = q], EventsOf(m))
    BY <2>5, <2>7, <2>8, RelaysOK
  <2>10. MsgOK(ping) /\ ping.from = n
    <3>1. m.target # n
      BY <1>3 DEF NodeOK, Absent
    <3>2. <<>> \in Seq(Event) /\ Len(<<>>) <= RingCap
      BY SwimConstants
    <3> QED
      BY <1>1, <3>1, <3>2 DEF MsgOK, Ping
  <2> QED
    BY <2>1, <2>9, <2>10 DEF Outcome
<1> QED
  BY <1>2, <1>3

LEMMA OnGossipOK ==
    ASSUME NEW n \in Node, NodeOK(n, node[n]), NEW m, MsgOK(m), m.to = n
    PROVE  Outcome(n, node[n], OnGossip(n, m), EventsOf(m))
<1>1. m.from \in Node /\ m.from # n /\ m.events \in Seq(Event)
  BY DEF MsgOK
<1> QED
  BY <1>1, TakeAllOK DEF EventsOf, OnGossip

LEMMA SessionUpOK ==
    ASSUME NEW n \in Node, NodeOK(n, node[n]), NEW p \in Node, p # n, NEW o,
           o = [st |-> IF node[n].table[p].state = "absent" THEN ApplyEvent(n, node[n], Alive(p, 0))
                       ELSE IF node[n].table[p].state = "alive" THEN node[n]
                       ELSE RaisePeer(n, node[n], p),
                out |-> {}]
    PROVE  Outcome(n, node[n], o, {})
<1>1. Alive(p, 0) \in Event /\ Alive(p, 0).state = "alive"
  BY DEF Alive, Event, MemberState
<1>2. Serves(n, node[n], o.st, {})
  BY <1>1, ApplyEventOK, ServesNothing, RaisePeerOK
<1> QED
  BY <1>2 DEF Outcome
-----------------------------------------------------------------------------
(***************************************************************************)
(* A tick: the probe step, then the expiry of one suspicion, then of one   *)
(* relay.                                                                  *)
(***************************************************************************)

LEMMA DestinationsOK ==
    ASSUME NEW n \in Node, NEW s, NodeOK(n, s), NEW p, NEW dest \in Destinations(s, p), dest # None
    PROVE  dest \in Node /\ dest # n
  BY DEF Destinations, NotDead, Held, NodeOK, Absent

LEMMA AnnounceOK ==
    ASSUME NEW n \in Node, NEW s, NodeOK(n, s), NEW e \in Event, e.id # n,
           NEW C, e.state = "dead" => e \in C, NEW dest, dest # None => dest \in Node /\ dest # n
    PROVE  Outcome(n, s, Announce(n, s, e, dest), C)
<1>1. Serves(n, s, Vouch(n, s, e), C)
  BY VouchOK
<1>2. dest # None => MsgOK(Gossip(n, dest, e)) /\ Gossip(n, dest, e).from = n
  BY GossipOK
<1> QED
  BY <1>1, <1>2 DEF Announce, Outcome

LEMMA StartProbeOK ==
    ASSUME NEW n \in Node, NEW s, NodeOK(n, s), NEW t \in Held(s)
    PROVE  /\ Outcome(n, s, StartProbe(n, s, t), {})
           /\ StartProbe(n, s, t).st.table = s.table
<1> DEFINE u == StartProbe(n, s, t).st
           ping == Ping(n, t, s.nonce, Piggyback(s), n)
<1>1. t \in Node /\ t # n /\ s.nonce \in Nat
  BY DEF Held, NodeOK, State, Absent
<1>2. Following(n, s.nonce) \in Nat
  <2>1. FirstNonce[n] \in Nat /\ NonceSpan \in Nat /\ (RecycleNonce => NonceSpan > 0)
        /\ RecycleNonce \in BOOLEAN
    BY SwimConstants
  <2>2. CASE RecycleNonce
    <3>1. (s.nonce + 1 - FirstNonce[n]) % NonceSpan \in Nat
      BY <1>1, <2>1, <2>2
    <3> QED
      BY <2>1, <2>2, <3>1 DEF Following
  <2>3. CASE ~RecycleNonce
    BY <1>1, <2>3 DEF Following
  <2> QED
    BY <2>1, <2>2, <2>3
<1>3. /\ StartProbe(n, s, t) = [st |-> u, out |-> {ping}]
      /\ u.up = s.up /\ u.inc = s.inc /\ u.ring = s.ring /\ u.relays = s.relays /\ u.table = s.table
      /\ u.probe = [target |-> t, nonce |-> s.nonce, phase |-> "direct"]
      /\ u \in State
  BY <1>1, <1>2 DEF StartProbe, NodeOK, State, Probe
<1>4. MsgOK(ping) /\ ping.from = n
  BY <1>1, PiggybackOK DEF MsgOK, Ping
<1> HIDE DEF u, ping
<1>5. NodeOK(n, u)
  BY <1>1, <1>3 DEF NodeOK, HeldTrue
<1>6. Serves(n, s, u, {})
  BY <1>3, <1>5, ServesNothing DEF Serves
<1> QED
  BY <1>3, <1>4, <1>6 DEF Outcome

LEMMA EscalateOK ==
    ASSUME NEW n \in Node, NEW s, NodeOK(n, s), s.probe # None, NEW R \in Helpers(s)
    PROVE  /\ Outcome(n, s, Escalate(n, s, R), {})
           /\ Escalate(n, s, R).st.table = s.table
<1> DEFINE u == Escalate(n, s, R).st
           out == {PingReq(n, r, s.probe.nonce, s.probe.target) : r \in R}
<1>1. s.probe \in Probe /\ s.probe.target # n
  BY DEF NodeOK, State
<1>2. \A r \in R : r \in Node /\ r # n
  BY DEF Helpers, NotDead, Held, NodeOK, Absent
<1>3. \A m \in out : MsgOK(m) /\ m.from = n
  <2>1. <<>> \in Seq(Event) /\ Len(<<>>) <= RingCap
    BY SwimConstants
  <2>2. ASSUME NEW r \in R
        PROVE  LET m == PingReq(n, r, s.probe.nonce, s.probe.target) IN MsgOK(m) /\ m.from = n
    BY <1>1, <1>2, <2>1 DEF MsgOK, PingReq, Probe
  <2> QED
    BY <2>2
<1>4. /\ Escalate(n, s, R) = [st |-> u, out |-> out]
      /\ u.up = s.up /\ u.inc = s.inc /\ u.ring = s.ring /\ u.relays = s.relays /\ u.table = s.table
      /\ u.probe = [s.probe EXCEPT !.phase = "indirect"] /\ u.nonce = s.nonce
      /\ (u.probe \in Probe => u \in State)
  BY <1>1 DEF Escalate, NodeOK, State
<1> HIDE DEF u, out
<1>5. u.probe \in Probe /\ u.probe.target # n
  BY <1>1, <1>4 DEF Probe
<1>6. NodeOK(n, u)
  BY <1>4, <1>5 DEF NodeOK, HeldTrue
<1>7. Serves(n, s, u, {})
  BY <1>4, <1>6, ServesNothing DEF Serves
<1> QED
  BY <1>3, <1>4, <1>7 DEF Outcome

\* A probe that failed makes a suspect of its target, and of no suspect
\* anything else.
LEMMA GiveUpOK ==
    ASSUME NEW n \in Node, NEW s, NodeOK(n, s), s.probe # None,
           NEW dest \in Destinations(s, s.probe.target)
    PROVE  /\ Outcome(n, s, GiveUp(n, s, dest), {})
           /\ \A p \in Node : s.table[p].state = "suspect" => GiveUp(n, s, dest).st.table[p] = s.table[p]
<1> DEFINE t == s.probe.target
           e == Suspect(t, s.table[t].inc)
           u == [s EXCEPT !.probe = None]
<1>1. t \in Node /\ t # n /\ s.table \in [Node -> Entry] /\ s.table[t].inc \in Nat
  BY EntryKnowledge DEF NodeOK, State, Probe
<1>2. e \in Event /\ e.id = t /\ e.state = "suspect" /\ e.inc = s.table[t].inc
  BY <1>1 DEF Suspect, Event, MemberState
<1>3. Serves(n, s, u, {}) /\ NodeOK(n, u) /\ u.table = s.table
  <2>1. u.table = s.table
    BY DEF NodeOK, State
  <2> QED
    BY <2>1, IdleOK DEF Serves
<1>4. GiveUp(n, s, dest) = IF Supersedes(e, s.table[t]) THEN Announce(n, u, e, dest)
                           ELSE [st |-> u, out |-> {}]
  BY DEF GiveUp
<1>5. dest # None => dest \in Node /\ dest # n
  BY DestinationsOK
<1> HIDE DEF t, e, u
<1>6. CASE Supersedes(e, s.table[t])
  <2> DEFINE a == Announce(n, u, e, dest)
  <2>1. Outcome(n, u, a, {})
    BY <1>1, <1>2, <1>3, <1>5, AnnounceOK
  <2>2. Serves(n, s, a.st, {})
    BY <1>3, <2>1, ServesBoth DEF Outcome
  <2>3. ASSUME NEW p \in Node, s.table[p].state = "suspect"
        PROVE  a.st.table[p] = s.table[p]
    <3>1. p # t
      BY <1>1, <1>2, <1>6, <2>3 DEF Supersedes, Rank, EntryState, MemberState
    <3> DEFINE v == ApplyEvent(n, u, e)
    <3>2. a.st = Disseminate(v, e)
      BY DEF Announce, Vouch
    <3>3. v = [u EXCEPT !.table[t] = Merge(@, e)]
      BY <1>1, <1>2 DEF ApplyEvent
    <3>4. v.table = [s.table EXCEPT ![t] = Merge(s.table[t], e)]
      BY <1>1, <1>3, <3>3 DEF NodeOK, State
    <3>5. NodeOK(n, v) /\ HeldTrue(n, v, e)
      BY <1>1, <1>2, <1>3, ApplyEventOK DEF Serves
    <3> HIDE DEF v
    <3>6. Disseminate(v, e).table = v.table
      BY <1>2, <3>5, DisseminateOK
    <3> HIDE DEF a
    <3> QED
      BY <1>1, <3>1, <3>2, <3>4, <3>6
  <2>4. GiveUp(n, s, dest) = a
    BY <1>4, <1>6
  <2> HIDE DEF a
  <2> QED
    BY <2>1, <2>2, <2>3, <2>4 DEF Outcome
<1>7. CASE ~Supersedes(e, s.table[t])
  <2>1. GiveUp(n, s, dest) = [st |-> u, out |-> {}]
    BY <1>4, <1>7
  <2> QED
    BY <1>3, <2>1 DEF Outcome
<1> QED
  BY <1>6, <1>7

LEMMA ProbeStepOK ==
    ASSUME NEW n \in Node, NEW s, NodeOK(n, s), NEW o \in ProbeStep(n, s)
    PROVE  /\ Outcome(n, s, o, {})
           /\ \A p \in Node : s.table[p].state = "suspect" => o.st.table[p] = s.table[p]
<1>1. CASE s.probe = None
  <2>1. PICK t \in Held(s) : o = StartProbe(n, s, t)
    BY <1>1 DEF ProbeStep
  <2> QED
    BY <2>1, StartProbeOK
<1>2. CASE s.probe # None /\ s.probe.phase = "direct"
  <2>1. PICK R \in Helpers(s) : o = Escalate(n, s, R)
    BY <1>2 DEF ProbeStep
  <2> QED
    BY <1>2, <2>1, EscalateOK
<1>3. CASE s.probe # None /\ s.probe.phase # "direct"
  <2>1. PICK dest \in Destinations(s, s.probe.target) : o = GiveUp(n, s, dest)
    BY <1>3 DEF ProbeStep
  <2> QED
    BY <1>3, <2>1, GiveUpOK
<1> QED
  BY <1>1, <1>2, <1>3

\* The confirmations a tick of n may decide: of what it suspects, as it does.
Overdue(n) == {Confirm(p, node[n].table[p].inc) : p \in Suspects(n)}

LEMMA ConfirmMemberOK ==
    ASSUME NEW n \in Node, NodeOK(n, node[n]), NEW p \in Suspects(n), NEW o,
           Outcome(n, node[n], o, {}), o.st.table[p] = node[n].table[p],
           NEW dest \in Destinations(o.st, p)
    PROVE  Outcome(n, node[n], ConfirmMember(n, o, p, dest), Overdue(n))
<1> DEFINE e == Confirm(p, o.st.table[p].inc)
           a == Announce(n, o.st, e, dest)
<1>1. p \in Node /\ p # n
  BY DEF Suspects, NodeOK, Absent
<1>2. NodeOK(n, o.st) /\ Serves(n, node[n], o.st, Overdue(n))
  BY DEF Outcome, Serves
<1>3. e \in Event /\ e.id = p /\ e \in Overdue(n)
  <2>1. o.st.table[p].inc \in Nat
    BY <1>1, <1>2, EntryKnowledge DEF NodeOK, State
  <2> QED
    BY <1>1, <2>1 DEF Confirm, Event, MemberState, Overdue
<1>4. dest # None => dest \in Node /\ dest # n
  BY <1>2, DestinationsOK
<1> HIDE DEF e
<1>5. Outcome(n, o.st, a, Overdue(n))
  BY <1>1, <1>2, <1>3, <1>4, AnnounceOK
<1>6. ConfirmMember(n, o, p, dest) = [a EXCEPT !.out = @ \cup o.out]
  BY DEF ConfirmMember, e
<1> HIDE DEF a
<1>7. ConfirmMember(n, o, p, dest) = [st |-> a.st, out |-> a.out \cup o.out]
  BY <1>5, <1>6 DEF Outcome
<1>8. Serves(n, node[n], a.st, Overdue(n))
  BY <1>2, <1>5, ServesBoth DEF Outcome
<1> QED
  BY <1>5, <1>7, <1>8 DEF Outcome

LEMMA ExpiredRelayOK ==
    ASSUME NEW n \in Node, NodeOK(n, node[n]), NEW o, NEW C, Outcome(n, node[n], o, C), NEW k \in Nat
    PROVE  Outcome(n, node[n], [o EXCEPT !.st.relays = DropRelay(@, k)], C)
<1> DEFINE s == o.st
           q == DropRelay(s.relays, k)
           t == [s EXCEPT !.relays = q]
<1>1. NodeOK(n, s) /\ Serves(n, node[n], s, C) /\ o = [st |-> s, out |-> o.out]
  BY DEF Outcome, Serves
<1>2. /\ s.relays \in Seq(Relay) /\ Len(s.relays) \in Nat /\ Len(s.relays) <= RelayCap
      /\ RelayCap \in Nat /\ \A j \in DOMAIN s.relays : s.relays[j].requester # n
  BY <1>1, LenProperties, SwimConstants DEF NodeOK, State
<1>3. /\ q \in Seq(Relay) /\ Len(q) <= Len(s.relays) /\ Len(q) \in Nat
      /\ \A j \in DOMAIN q : \E i \in DOMAIN s.relays : q[j] = s.relays[i]
  BY <1>2, DropRelayOK, LenProperties
<1>4. [o EXCEPT !.st.relays = DropRelay(@, k)] = [st |-> t, out |-> o.out]
  <2>1. [o EXCEPT !.st.relays = DropRelay(@, k)] = [o EXCEPT !.st = t]
    BY <1>1
  <2> HIDE DEF t
  <2> QED
    BY <1>1, <2>1
<1> HIDE DEF q
<1>5. Serves(n, s, t, C)
  <2>1. Len(q) <= RelayCap /\ \A j \in DOMAIN q : q[j].requester # n
    BY <1>2, <1>3
  <2> QED
    BY <1>1, <1>3, <2>1, RelaysOK
<1> HIDE DEF t
<1>6. Serves(n, node[n], t, C)
  BY <1>1, <1>5, ServesBoth
<1> QED
  BY <1>4, <1>6 DEF Outcome
-----------------------------------------------------------------------------
(***************************************************************************)
(* The steps.                                                              *)
(***************************************************************************)

\* The code of the node n ran, told or deciding the events C, and consumed
\* some messages; nothing else moved.
Acted(n, consumed, C) ==
    /\ node' = [node EXCEPT ![n] = node'[n]]
    /\ Serves(n, node[n], node'[n], C)
    /\ node'[n].inc <= MaxInc
    /\ \A m \in msgs' : m \in msgs \ consumed \/ (MsgOK(m) /\ m.from = n)
    /\ msgs \ consumed \subseteq msgs'
    /\ spent' = spent

LEMMA CommitOK ==
    ASSUME IInv, NEW n \in Node, NEW consumed, NEW o, NEW C,
           Outcome(n, node[n], o, C), Commit(n, consumed, o)
    PROVE  Acted(n, consumed, C)
<1>1. /\ node' = [node EXCEPT ![n] = o.st] /\ o.st.inc <= MaxInc /\ spent' = spent
      /\ msgs' = (msgs \ consumed) \cup {m \in o.out : node[m.to].up}
  BY DEF Commit
<1>2. node'[n] = o.st
  BY <1>1 DEF IInv
<1> QED
  BY <1>1, <1>2 DEF Acted, Outcome

\* What a step may be.
Stepped ==
    \/ \E n \in Node : Acted(n, {}, Overdue(n))
    \/ \E m \in msgs : node[m.to].up /\ Acted(m.to, {m}, EventsOf(m))
    \/ \E n \in Node : Crash(n)
    \/ \E n \in Node : Restart(n)
    \/ msgs' \subseteq msgs /\ node' = node

LEMMA TickOK ==
    ASSUME IInv, NEW n \in Node, Tick(n)
    PROVE  Acted(n, {}, Overdue(n))
<1>1. PICK o \in {[st |-> node[n], out |-> {}]} \cup (IF ProbeDue(n) THEN ProbeStep(n, node[n]) ELSE {}),
           p \in {None} \cup Suspects(n), k \in {0} \cup RelaysDue(n) : FinishTick(n, o, p, k)
  BY DEF Tick
<1>2. NodeOK(n, node[n]) /\ k \in Nat
  BY LenProperties DEF IInv, RelaysDue, NodeOK, State
<1>3. /\ Outcome(n, node[n], o, {})
      /\ \A q \in Node : node[n].table[q].state = "suspect" => o.st.table[q] = node[n].table[q]
  <2>1. CASE o = [st |-> node[n], out |-> {}]
    BY <1>2, <2>1, ServesNothing DEF Outcome
  <2>2. CASE o \in ProbeStep(n, node[n])
    BY <1>2, <2>2, ProbeStepOK
  <2> QED
    BY <1>1, <2>1, <2>2
<1>4. Outcome(n, node[n], o, Overdue(n))
  BY <1>3 DEF Outcome, Serves
<1>5. PICK dest \in IF p = None THEN {None} ELSE Destinations(o.st, p) :
        LET c == IF p = None THEN o ELSE ConfirmMember(n, o, p, dest)
        IN  Commit(n, {}, [c EXCEPT !.st.relays = DropRelay(@, k)])
  BY <1>1 DEF FinishTick
<1> DEFINE c == IF p = None THEN o ELSE ConfirmMember(n, o, p, dest)
<1>6. Outcome(n, node[n], c, Overdue(n))
  <2>1. CASE p = None
    BY <1>4, <2>1
  <2>2. CASE p # None
    <3>1. p \in Suspects(n) /\ o.st.table[p] = node[n].table[p] /\ dest \in Destinations(o.st, p)
      BY <1>1, <1>3, <1>5, <2>2 DEF Suspects
    <3> QED
      BY <1>2, <1>3, <2>2, <3>1, ConfirmMemberOK
  <2> QED
    BY <2>1, <2>2
<1>7. Commit(n, {}, [c EXCEPT !.st.relays = DropRelay(@, k)])
  BY <1>5
<1> HIDE DEF c
<1>8. Outcome(n, node[n], [c EXCEPT !.st.relays = DropRelay(@, k)], Overdue(n))
  BY <1>2, <1>6, ExpiredRelayOK
<1> QED
  BY <1>7, <1>8, CommitOK

LEMMA ReceiveOK ==
    ASSUME IInv, NEW m \in msgs,
           ReceivePing(m) \/ ReceiveAck(m) \/ ReceivePingReq(m) \/ ReceiveGossip(m)
    PROVE  node[m.to].up /\ Acted(m.to, {m}, EventsOf(m))
<1>1. MsgOK(m) /\ m.to \in Node /\ NodeOK(m.to, node[m.to])
  BY DEF IInv, MsgOK
<1>2. CASE ReceivePing(m)
  BY <1>1, <1>2, OnPingOK, CommitOK DEF ReceivePing, Receive
<1>3. CASE ReceiveAck(m)
  BY <1>1, <1>3, OnAckOK, CommitOK DEF ReceiveAck, Receive
<1>4. CASE ReceivePingReq(m)
  BY <1>1, <1>4, OnPingReqOK, CommitOK DEF ReceivePingReq, Receive
<1>5. CASE ReceiveGossip(m)
  BY <1>1, <1>5, OnGossipOK, CommitOK DEF ReceiveGossip, Receive
<1> QED
  BY <1>2, <1>3, <1>4, <1>5

LEMMA SessionUpActed ==
    ASSUME IInv, NEW n \in Node, NEW p \in Node, SessionUp(n, p)
    PROVE  Acted(n, {}, Overdue(n))
<1> DEFINE o == [st |-> IF node[n].table[p].state = "absent" THEN ApplyEvent(n, node[n], Alive(p, 0))
                        ELSE IF node[n].table[p].state = "alive" THEN node[n]
                        ELSE RaisePeer(n, node[n], p),
                 out |-> {}]
<1>1. p # n /\ Commit(n, {}, o)
  BY DEF SessionUp
<1> HIDE DEF o
<1>2. Outcome(n, node[n], o, {})
  BY <1>1, SessionUpOK DEF IInv, o
<1>3. Outcome(n, node[n], o, Overdue(n))
  BY <1>2 DEF Outcome, Serves
<1> QED
  BY <1>1, <1>3, CommitOK

LEMMA NextStepped ==
    ASSUME IInv, [Next]_vars
    PROVE  Stepped
<1>1. ASSUME NEW n \in Node, Tick(n) PROVE Stepped
  BY <1>1, TickOK DEF Stepped
<1>2. ASSUME NEW m \in msgs, ReceivePing(m) \/ ReceiveAck(m) \/ ReceivePingReq(m) \/ ReceiveGossip(m)
      PROVE  Stepped
  BY <1>2, ReceiveOK DEF Stepped
<1>3. ASSUME NEW n \in Node, NEW p \in Node, SessionUp(n, p) PROVE Stepped
  BY <1>3, SessionUpActed DEF Stepped
<1>4. ASSUME NEW m \in msgs, Lose(m) PROVE Stepped
  BY <1>4 DEF Lose, Stepped
<1>5. ASSUME NEW n \in Node, Crash(n) \/ Restart(n) PROVE Stepped
  BY <1>5 DEF Stepped
<1>6. CASE UNCHANGED vars
  BY <1>6 DEF vars, Stepped
<1> QED
  BY <1>1, <1>2, <1>3, <1>4, <1>5, <1>6 DEF Next

\* A fresh record of a node that holds nobody, or everybody else alive.
LEMMA FreshOK ==
    ASSUME NEW n \in Node, NEW table \in [Node -> Entry], table[n] = Absent
    PROVE  NodeOK(n, Fresh(n, table, FirstNonce[n]))
<1> DEFINE s == Fresh(n, table, FirstNonce[n])
<1>1. FirstNonce[n] \in Nat /\ RingCap \in Nat /\ RelayCap \in Nat
  BY SwimConstants
<1>2. <<>> \in Seq(Event) /\ <<>> \in Seq(Relay) /\ Len(<<>>) = 0 /\ DOMAIN <<>> = {}
  OBVIOUS
<1>3. /\ s.table = table /\ s.ring = <<>> /\ s.probe = None /\ s.relays = <<>>
      /\ s \in State
  BY <1>1, <1>2 DEF Fresh, State
<1> QED
  BY <1>1, <1>2, <1>3 DEF NodeOK

LEMMA InitIInv == Init => IInv
<1> SUFFICES ASSUME Init PROVE IInv
  OBVIOUS
<1> DEFINE alive(n) == [p \in Node |-> IF p = n THEN Absent ELSE [state |-> "alive", inc |-> 0]]
<1>1. ASSUME NEW n \in Node
      PROVE  /\ node[n] = Fresh(n, alive(n), FirstNonce[n])
             /\ NodeOK(n, node[n]) /\ node[n] \in State /\ node[n].inc = 0
  <2>1. node[n] = Fresh(n, alive(n), FirstNonce[n])
    BY DEF Init
  <2>2. alive(n) \in [Node -> Entry] /\ alive(n)[n] = Absent
    BY DEF Entry, Absent, MemberState
  <2> HIDE DEF alive
  <2>3. NodeOK(n, node[n])
    BY <2>1, <2>2, FreshOK
  <2> QED
    BY <2>1, <2>3 DEF NodeOK, Fresh
<1>2. node \in [Node -> State]
  BY <1>1 DEF Init
<1>3. 0 <= MaxInc
  BY SwimConstants
<1> QED
  BY <1>1, <1>2, <1>3 DEF IInv, Init

LEMMA IInvStep == IInv /\ [Next]_vars => IInv'
<1> SUFFICES ASSUME IInv, Stepped PROVE IInv'
  BY NextStepped
<1>1. ASSUME NEW n \in Node, NEW consumed, NEW C, Acted(n, consumed, C)
      PROVE  IInv'
  <2>1. NodeOK(n, node'[n]) /\ node'[n] \in State
    BY <1>1 DEF Acted, Serves, NodeOK
  <2>2. node' \in [Node -> State] /\ \A q \in Node \ {n} : node'[q] = node[q]
    BY <1>1, <2>1 DEF Acted, IInv
  <2>3. \A q \in Node : NodeOK(q, node'[q]) /\ node'[q].inc <= MaxInc
    BY <1>1, <2>1, <2>2 DEF Acted, IInv
  <2>4. \A m \in msgs' : MsgOK(m)
    BY <1>1 DEF Acted, IInv
  <2> QED
    BY <2>2, <2>3, <2>4 DEF IInv
<1>2. ASSUME NEW n \in Node, Crash(n)
      PROVE  IInv'
  <2>1. node' = [node EXCEPT ![n] = [node[n] EXCEPT !.up = FALSE]] /\ msgs' \subseteq msgs
    BY <1>2 DEF Crash
  <2> DEFINE t == [node[n] EXCEPT !.up = FALSE]
             s == node[n]
  <2>2. /\ t \in State /\ t.inc = s.inc /\ t.ring = s.ring /\ t.probe = s.probe
        /\ t.relays = s.relays /\ t.table = s.table
    BY DEF IInv, State
  <2> HIDE DEF t
  <2>3. NodeOK(n, t) /\ t.inc <= MaxInc
    BY <2>2 DEF IInv, NodeOK, HeldTrue
  <2>4. node' = [node EXCEPT ![n] = t]
    BY <2>1 DEF t
  <2> QED
    BY <2>1, <2>2, <2>3, <2>4 DEF IInv
<1>3. ASSUME NEW n \in Node, Restart(n)
      PROVE  IInv'
  <2> DEFINE empty == [p \in Node |-> Absent]
             t == Fresh(n, empty, FirstNonce[n])
  <2>1. node' = [node EXCEPT ![n] = t] /\ msgs' = msgs
    BY <1>3 DEF Restart
  <2>2. empty \in [Node -> Entry] /\ empty[n] = Absent
    BY DEF Entry
  <2> HIDE DEF empty
  <2>3. NodeOK(n, t) /\ t \in State /\ t.inc = 0
    BY <2>2, FreshOK DEF NodeOK, Fresh
  <2> HIDE DEF t
  <2>4. 0 <= MaxInc
    BY SwimConstants
  <2> QED
    BY <2>1, <2>3, <2>4 DEF IInv
<1>4. CASE msgs' \subseteq msgs /\ node' = node
  BY <1>4 DEF IInv
<1>5. \A m \in msgs : m.to \in Node
  BY DEF IInv, MsgOK
<1> QED
  BY <1>1, <1>2, <1>3, <1>4, <1>5 DEF Stepped

THEOREM Invariance == Spec => []IInv
  BY InitIInv, IInvStep, PTL DEF Spec
-----------------------------------------------------------------------------
\* Incarnations, rings, relay tables and messages keep their types and bounds
\* (swim.zig, the fixed arrays of Swim).
THEOREM TypeCorrect == Spec => []TypeOK
<1>1. IInv => TypeOK
  <2> SUFFICES ASSUME IInv PROVE TypeOK
    OBVIOUS
  <2>1. ASSUME NEW n \in Node
        PROVE  LET s == node[n]
               IN  /\ s.up \in BOOLEAN /\ s.inc \in 0 .. MaxInc /\ s.nonce \in Nat
                   /\ \A p \in Node : s.table[p] \in Entry
                   /\ s.ring \in Seq(Event) /\ Len(s.ring) <= RingCap
                   /\ s.probe = None \/ s.probe \in Probe
                   /\ Len(s.relays) <= RelayCap
    <3>1. NodeOK(n, node[n]) /\ node[n].inc <= MaxInc
      BY DEF IInv
    <3>2. MaxInc \in Nat
      BY SwimConstants
    <3> QED
      BY <3>1, <3>2 DEF NodeOK, State
  <2>2. \A m \in msgs : m.from # m.to /\ Len(m.events) <= RingCap
    BY DEF IInv, MsgOK
  <2> QED
    BY <2>1, <2>2 DEF TypeOK
<1> QED
  BY <1>1, Invariance, PTL

\* No gossip enters a node into its own table (swim.zig, apply and observe).
THEOREM NotOwnMember == Spec => []NeverOwnMember
<1>1. IInv => NeverOwnMember
  BY DEF IInv, NodeOK, NeverOwnMember
<1> QED
  BY <1>1, Invariance, PTL

\* No event a node passes on outruns what the node holds (swim.zig, the sites
\* that disseminate an event whatever apply answered).
THEOREM RingHeldTrue == Spec => []GossipHeldTrue
<1>1. IInv => GossipHeldTrue
  BY DEF IInv, NodeOK, HeldTrue, GossipHeldTrue
<1> QED
  BY <1>1, Invariance, PTL

\* Rows only rise while the process lives (swim.zig, lattice).
THEOREM TablesRise == Spec => TablesOnlyRise
<1>1. ASSUME IInv, [Next]_vars
      PROVE  \A n \in Node : ~Restarts(n) =>
                \A p \in Node : AtMost(node[n].table[p], node'[n].table[p])
  <2> SUFFICES ASSUME NEW n \in Node, ~Restarts(n), NEW p \in Node
               PROVE  AtMost(node[n].table[p], node'[n].table[p])
    OBVIOUS
  <2>1. AtMost(node[n].table[p], node[n].table[p])
    BY <1>1, ServesNothing DEF IInv, Serves
  <2>2. ASSUME NEW q \in Node, NEW consumed, NEW C, Acted(q, consumed, C)
        PROVE  AtMost(node[n].table[p], node'[n].table[p])
    BY <1>1, <2>1, <2>2 DEF Acted, Serves, IInv
  <2>3. ASSUME NEW q \in Node, Crash(q)
        PROVE  node'[n].table = node[n].table
    BY <1>1, <2>3 DEF Crash, IInv, State
  <2>4. ASSUME NEW q \in Node, Restart(q)
        PROVE  node'[n] = node[n]
    <3>1. q # n
      BY <1>1, <2>4 DEF Restart, Restarts, IInv, Fresh
    <3> QED
      BY <1>1, <2>4, <3>1 DEF Restart, IInv
  <2>5. \A m \in msgs : m.to \in Node
    BY <1>1 DEF IInv, MsgOK
  <2> QED
    BY <1>1, <2>1, <2>2, <2>3, <2>4, <2>5, NextStepped DEF Stepped
<1>2. IInv /\ [Next]_vars
      => [\A n \in Node : ~Restarts(n) =>
             \A p \in Node : AtMost(node[n].table[p], node'[n].table[p])]_vars
  BY <1>1
<1> QED
  BY <1>2, Invariance, PTL DEF Spec, TablesOnlyRise

\* No member is confirmed in one step: what a node declares dead it suspected
\* at that incarnation, or was told dead (swim.zig, tick and applyEventFrom).
THEOREM ConfirmsAreWarranted == Spec => ConfirmNeedsSuspicion
<1> DEFINE Warranted(n, p, new) ==
      (new.state = "dead" /\ node[n].table[p] # new)
      => \/ node[n].table[p] = [state |-> "suspect", inc |-> new.inc]
         \/ \E m \in Delivered, k \in 1 .. RingCap :
               m.to = n /\ k \in DOMAIN m.events /\ m.events[k] = Confirm(p, new.inc)
<1>1. ASSUME IInv, [Next]_vars, NEW n \in Node, NEW p \in Node
      PROVE  Warranted(n, p, node'[n].table[p])
  <2> DEFINE new == node'[n].table[p]
  <2> SUFFICES ASSUME new.state = "dead", node[n].table[p] # new
               PROVE  \/ node[n].table[p] = [state |-> "suspect", inc |-> new.inc]
                      \/ \E m \in Delivered, k \in 1 .. RingCap :
                            m.to = n /\ k \in DOMAIN m.events /\ m.events[k] = Confirm(p, new.inc)
    OBVIOUS
  <2>1. ASSUME NEW q \in Node, NEW consumed, NEW C, Acted(q, consumed, C)
        PROVE  q = n /\ Confirm(p, new.inc) \in C
    BY <1>1, <2>1 DEF Acted, Serves, IInv
  <2>2. ASSUME NEW q \in Node, Acted(q, {}, Overdue(q))
        PROVE  node[n].table[p] = [state |-> "suspect", inc |-> new.inc]
    <3>1. PICK r \in Suspects(n) : Confirm(p, new.inc) = Confirm(r, node[n].table[r].inc)
      BY <2>1, <2>2 DEF Overdue
    <3>2. r = p /\ node[n].table[p].inc = new.inc
      BY <3>1 DEF Confirm
    <3>3. node[n].table[p] \in Entry /\ node[n].table[p].state = "suspect"
      BY <1>1, <3>2 DEF IInv, State, Suspects
    <3> QED
      BY <3>2, <3>3 DEF Entry, Absent
  <2>3. ASSUME NEW m \in msgs, Acted(m.to, {m}, EventsOf(m))
        PROVE  \E d \in Delivered, k \in 1 .. RingCap :
                  d.to = n /\ k \in DOMAIN d.events /\ d.events[k] = Confirm(p, new.inc)
    <3>1. MsgOK(m)
      BY <1>1 DEF IInv
    <3>2. m.to = n /\ Confirm(p, new.inc) \in EventsOf(m)
      BY <2>1, <2>3, <3>1 DEF MsgOK
    <3>3. PICK k \in DOMAIN m.events : m.events[k] = Confirm(p, new.inc)
      BY <3>2 DEF EventsOf
    <3>4. k \in 1 .. RingCap
      <4>1. DOMAIN m.events = 1 .. Len(m.events) /\ Len(m.events) \in Nat
        BY <3>1, LenProperties DEF MsgOK
      <4>2. Len(m.events) <= RingCap /\ RingCap \in Nat
        BY <3>1, SwimConstants DEF MsgOK
      <4> QED
        BY <3>3, <4>1, <4>2
    <3>5. m \in Delivered
      BY <2>3, <3>1 DEF Acted, Delivered, MsgOK
    <3> QED
      BY <3>2, <3>3, <3>4, <3>5
  <2>4. ASSUME NEW q \in Node, Crash(q)
        PROVE  FALSE
    BY <1>1, <2>4 DEF Crash, IInv, State
  <2>5. ASSUME NEW q \in Node, Restart(q)
        PROVE  FALSE
    BY <1>1, <2>5 DEF Restart, IInv, Fresh, Absent
  <2> QED
    BY <1>1, <2>2, <2>3, <2>4, <2>5, NextStepped DEF Stepped
<1>2. IInv /\ [Next]_vars
      => [\A n, p \in Node :
             LET new == node'[n].table[p]
             IN  (new.state = "dead" /\ node[n].table[p] # new)
                 => \/ node[n].table[p] = [state |-> "suspect", inc |-> new.inc]
                    \/ \E m \in Delivered, k \in 1 .. RingCap :
                          m.to = n /\ k \in DOMAIN m.events /\ m.events[k] = Confirm(p, new.inc)]_vars
  BY <1>1
<1> QED
  BY <1>2, Invariance, PTL DEF Spec, ConfirmNeedsSuspicion
-----------------------------------------------------------------------------
(***************************************************************************)
(* Whose answer an ACK is.  The wire carries a nonce and no target, so an  *)
(* ACK is matched by its nonce alone: what ends a probe is its target's    *)
(* answer unless two nodes drew one nonce.  The invariant ties every       *)
(* message in flight to the probe it serves.                               *)
(***************************************************************************)

\* The node whose answer the message asks for or is.
About(m) ==
    IF m.type = "ping" THEN m.to ELSE IF m.type = "ack" THEN m.by ELSE m.target

\* Nodes count their nonces from the start, and are not restarted.
OneLife == ~RecycleNonce /\ MaxRestart = 0

Issued(n, c) == c \in Nat /\ c < node[n].nonce

NInv ==
    /\ spent \in [loss : Nat, crash : Nat, restart : Nat]
    /\ \A n \in Node : node[n].probe # None => Issued(n, node[n].probe.nonce)
    /\ \A m \in msgs : m.type # "gossip" =>
          /\ m.for \in Node /\ Issued(m.for, m.nonce)
          /\ (node[m.for].probe # None /\ node[m.for].probe.nonce = m.nonce)
             => node[m.for].probe.target = About(m)

\* A message that serves the probe a message in flight does, or the probe of
\* the record t of n.
Honest(n, t, x) ==
    x.type # "gossip" =>
       \/ \E d \in msgs : /\ d.type # "gossip" /\ d.for = x.for /\ d.nonce = x.nonce
                          /\ About(d) = About(x)
       \/ /\ t.probe # None /\ x.for = n
          /\ t.probe.nonce = x.nonce /\ t.probe.target = About(x)

\* From the record s to the record t of the node n, the probe goes on, ends, or
\* a new one takes the next nonce.
ProbeMoves(n, s, t) ==
    \/ /\ t.nonce = s.nonce
       /\ t.probe # None => /\ s.probe # None /\ t.probe.nonce = s.probe.nonce
                            /\ t.probe.target = s.probe.target
    \/ /\ t.nonce = s.nonce + 1
       /\ t.probe # None /\ t.probe.nonce = s.nonce

Numbered(n, o) ==
    /\ ProbeMoves(n, node[n], o.st)
    /\ \A x \in o.out : Honest(n, o.st, x)

\* The records s and t have the same exchanges under way.
SameExchanges(s, t) == t.probe = s.probe /\ t.nonce = s.nonce /\ t.relays = s.relays

\* Handling events leaves the exchanges alone, and answers in gossip.
Quiet(s, o) ==
    /\ SameExchanges(s, o.st)
    /\ \A x \in o.out : x.type = "gossip"

LEMMA DisseminateQuiet ==
    ASSUME NEW s \in State, NEW e
    PROVE  SameExchanges(s, Disseminate(s, e))
  BY DEF Disseminate, State, SameExchanges

LEMMA ApplyEventQuiet ==
    ASSUME NEW n, NEW s \in State, NEW e
    PROVE  SameExchanges(s, ApplyEvent(n, s, e))
  BY DEF ApplyEvent, State, SameExchanges

LEMMA VouchQuiet ==
    ASSUME NEW n \in Node, NEW s, NodeOK(n, s), NEW e \in Event
    PROVE  SameExchanges(s, Vouch(n, s, e))
<1> DEFINE t == ApplyEvent(n, s, e)
<1>1. SameExchanges(s, t)
  BY ApplyEventQuiet DEF NodeOK
<1>2. t \in State
  <2>1. Serves(n, s, t, {e})
    BY ApplyEventOK
  <2> QED
    BY <2>1 DEF Serves, NodeOK
<1> HIDE DEF t
<1> QED
  BY <1>1, <1>2, DisseminateQuiet DEF Vouch, t, SameExchanges

LEMMA TakeQuiet ==
    ASSUME NEW n \in Node, NEW s, NEW from, NEW acc, NEW e \in Event,
           NodeOK(n, acc.st), acc = [st |-> acc.st, out |-> acc.out], Quiet(s, acc)
    PROVE  Quiet(s, Take(n, from, acc, e))
<1> DEFINE t == acc.st
           new == Take(n, from, acc, e)
<1>1. t \in State /\ t.inc \in Nat
  BY DEF NodeOK, State
<1>2. CASE e.id = n /\ e.state = "suspect"
  <2> DEFINE r == Alive(n, t.inc + 1)
             u == [t EXCEPT !.inc = @ + 1]
  <2>1. new = [st |-> Disseminate(u, r), out |-> acc.out \cup {Gossip(n, from, r)}]
    BY <1>2 DEF Take
  <2>2. u \in State /\ SameExchanges(t, u)
    <3> HIDE DEF t, r
    <3> QED
      BY <1>1 DEF State, SameExchanges
  <2>3. Gossip(n, from, r).type = "gossip"
    BY DEF Gossip
  <2> HIDE DEF u, r
  <2>4. SameExchanges(t, Disseminate(u, r))
    BY <2>2, DisseminateQuiet DEF SameExchanges
  <2> QED
    BY <2>1, <2>3, <2>4 DEF Quiet, SameExchanges
<1>3. CASE ~(e.id = n /\ e.state = "suspect")
  <2> DEFINE u == IF e.id # n /\ Supersedes(e, t.table[e.id]) THEN Vouch(n, t, e) ELSE ApplyEvent(n, t, e)
  <2>1. new = [st |-> u, out |-> acc.out]
    BY <1>3 DEF Take
  <2>2. SameExchanges(t, u)
    BY <1>1, VouchQuiet, ApplyEventQuiet
  <2> HIDE DEF u
  <2> QED
    BY <2>1, <2>2 DEF Quiet, SameExchanges
<1> QED
  BY <1>2, <1>3

LEMMA TakeAllQuiet ==
    ASSUME NEW n \in Node, NEW s, NodeOK(n, s), NEW from \in Node, from # n,
           NEW events \in Seq(Event)
    PROVE  Quiet(s, TakeAll(n, from, s, events))
<1> DEFINE L == Len(events)
           C == {events[k] : k \in DOMAIN events}
<1>1. /\ L \in Nat /\ DOMAIN events = 1 .. L
      /\ \A k \in 1 .. L : events[k] \in Event /\ events[k] \in C
  BY LenProperties, ElementOfSeq
<1>2. PICK f : Takes(f, n, from, s, events, L) /\ TakeAll(n, from, s, events) = f[L]
  BY <1>1, TakeAllDefined
<1>3. /\ f[0] = [st |-> s, out |-> {}]
      /\ \A k \in 0 .. L - 1 : f[k + 1] = Take(n, from, f[k], events[k + 1])
  <2> HIDE DEF L
  <2>1. \A j \in 0 .. L : f[j] = IF j = 0 THEN [st |-> s, out |-> {}]
                                 ELSE Take(n, from, f[j - 1], events[j])
    BY <1>2 DEF Takes
  <2>2. 0 \in 0 .. L /\ \A k \in 0 .. L - 1 : k + 1 \in 0 .. L /\ k + 1 # 0 /\ (k + 1) - 1 = k
    BY <1>1
  <2> QED
    BY <2>1, <2>2
<1> DEFINE T == {k \in 0 .. L : Outcome(n, s, f[k], C) /\ Quiet(s, f[k])}
<1>4. 0 \in T
  BY <1>1, <1>3, ServesNothing DEF Outcome, Quiet, SameExchanges
<1>5. ASSUME NEW k \in 0 .. L - 1, k \in T
      PROVE  k + 1 \in T
  <2>1. events[k + 1] \in Event /\ events[k + 1] \in C
    BY <1>1
  <2> HIDE DEF C
  <2>2. Outcome(n, s, Take(n, from, f[k], events[k + 1]), C)
    BY <1>5, <2>1, TakeOK
  <2>3. NodeOK(n, f[k].st) /\ f[k] = [st |-> f[k].st, out |-> f[k].out] /\ Quiet(s, f[k])
    BY <1>5 DEF Outcome, Serves
  <2>4. Quiet(s, Take(n, from, f[k], events[k + 1]))
    BY <2>1, <2>3, TakeQuiet
  <2> QED
    BY <1>3, <2>2, <2>4
<1>6. L \in T
  <2> HIDE DEF L, T
  <2>1. 0 .. L \subseteq T
    BY <1>1, <1>4, <1>5, Counting
  <2> QED
    BY <1>1, <2>1
<1> QED
  BY <1>2, <1>6

\* A quiet outcome, with more messages that are honest.
LEMMA QuietNumbered ==
    ASSUME NEW n, NEW acc, Quiet(node[n], acc), NEW o, o.st = acc.st,
           \A x \in o.out : x \in acc.out \/ Honest(n, o.st, x)
    PROVE  Numbered(n, o)
  BY DEF Quiet, SameExchanges, Numbered, ProbeMoves, Honest

LEMMA OnPingNumbered ==
    ASSUME NEW n \in Node, NodeOK(n, node[n]), NEW m \in msgs, MsgOK(m), m.to = n, m.type = "ping"
    PROVE  Numbered(n, OnPing(n, m))
<1> DEFINE raised == node[n].table[m.from].state = "dead"
           e == Alive(m.from, node[n].table[m.from].inc + 1)
           s == IF raised THEN RaisePeer(n, node[n], m.from) ELSE node[n]
           acc == TakeAll(n, m.from, s, m.events)
           ack == Ack(n, m.from, m.nonce, acc.st.inc, Piggyback(acc.st), n, m.for)
<1>1. m.from \in Node /\ m.from # n /\ m.events \in Seq(Event)
  BY DEF MsgOK
<1>2. SameExchanges(node[n], s)
  <2>1. e \in Event
    <3>1. node[n].table[m.from].inc \in Nat
      BY <1>1, EntryKnowledge DEF NodeOK, State
    <3> QED
      BY <1>1, <3>1 DEF Alive, Event, MemberState
  <2>2. RaisePeer(n, node[n], m.from) = Vouch(n, node[n], e)
    BY DEF RaisePeer
  <2> HIDE DEF e, raised
  <2> QED
    BY <2>1, <2>2, VouchQuiet DEF SameExchanges
<1>3. NodeOK(n, s)
  <2>1. Serves(n, node[n], s, {})
    BY <1>1, RaisePeerOK, ServesNothing
  <2> QED
    BY <2>1 DEF Serves
<1>4. OnPing(n, m) = [acc EXCEPT !.out = @ \cup {ack}]
  BY DEF OnPing
<1> HIDE DEF s
<1>5. Outcome(n, s, acc, EventsOf(m)) /\ Quiet(s, acc)
  BY <1>1, <1>3, TakeAllOK, TakeAllQuiet DEF EventsOf
<1> HIDE DEF acc
<1>6. Quiet(node[n], acc)
  BY <1>2, <1>5 DEF Quiet, SameExchanges
<1>7. ack.nonce = m.nonce /\ ack.for = m.for /\ About(ack) = n /\ About(m) = n
  BY DEF Ack, About
<1> HIDE DEF ack
<1>8. OnPing(n, m) = [st |-> acc.st, out |-> acc.out \cup {ack}]
  BY <1>4, <1>5 DEF Outcome
<1>9. Honest(n, acc.st, ack)
  BY <1>7 DEF Honest
<1> DEFINE o == OnPing(n, m)
<1>10. o.st = acc.st /\ \A x \in o.out : x \in acc.out \/ Honest(n, o.st, x)
  BY <1>8, <1>9
<1> HIDE DEF o, e, raised
<1>11. Numbered(n, o)
  BY <1>6, <1>10, QuietNumbered
<1> QED
  BY <1>11 DEF o

\* The probe ended by an ACK is gone.
LEMMA EndProbeIdle ==
    ASSUME NEW n \in Node, NEW s, NodeOK(n, s), s.probe # None, NEW m, m.inc \in Nat
    PROVE  /\ EndProbe(n, s, m).probe = None /\ EndProbe(n, s, m).nonce = s.nonce
           /\ EndProbe(n, s, m).relays = s.relays
<1> DEFINE t == s.probe.target
           i == IF s.table[t].state = "dead" /\ s.table[t].inc >= m.inc
                THEN s.table[t].inc + 1 ELSE m.inc
           u == [s EXCEPT !.probe = None]
<1>1. t \in Node /\ s.table[t] \in Entry
  BY DEF NodeOK, State, Probe
<1>2. i \in Nat
  BY <1>1, EntryKnowledge
<1> HIDE DEF t, i
<1>3. Alive(t, i) \in Event
  BY <1>1, <1>2 DEF Alive, Event, MemberState
<1>4. u.probe = None /\ u.nonce = s.nonce /\ u.relays = s.relays
  BY DEF NodeOK, State
<1>5. Serves(n, s, u, {})
  BY IdleOK
<1> HIDE DEF u
<1>6. EndProbe(n, s, m) = Vouch(n, u, Alive(t, i))
  BY DEF EndProbe, t, i, u
<1> QED
  BY <1>3, <1>4, <1>5, <1>6, VouchQuiet DEF Serves, SameExchanges

\* An ACK ends the probe of its nonce and no other.
LEMMA OnAckNumbered ==
    ASSUME NEW n \in Node, NodeOK(n, node[n]), NEW m \in msgs, MsgOK(m), m.to = n, m.type = "ack"
    PROVE  /\ Numbered(n, OnAck(n, m))
           /\ (node[n].probe # None /\ OnAck(n, m).st.probe = None)
              => node[n].probe.nonce = m.nonce
<1> DEFINE acc == TakeAll(n, m.from, node[n], m.events)
           s == acc.st
           first == {k \in DOMAIN s.relays : s.relays[k].nonce = m.nonce
                                             /\ \A j \in 1 .. k - 1 : s.relays[j].nonce # m.nonce}
           passed == {Ack(n, s.relays[k].requester, m.nonce, m.inc, <<>>, m.by, m.for) : k \in first}
<1>1. m.from \in Node /\ m.from # n /\ m.events \in Seq(Event) /\ m.inc \in Nat
  BY DEF MsgOK
<1>2. Outcome(n, node[n], acc, EventsOf(m)) /\ Quiet(node[n], acc)
  BY <1>1, TakeAllOK, TakeAllQuiet DEF EventsOf
<1>3. OnAck(n, m) = IF s.probe # None /\ s.probe.nonce = m.nonce
                    THEN [acc EXCEPT !.st = EndProbe(n, s, m)]
                    ELSE [acc EXCEPT !.out = @ \cup passed]
  BY DEF OnAck
<1> HIDE DEF acc
<1>4. /\ acc = [st |-> s, out |-> acc.out] /\ NodeOK(n, s)
      /\ s.probe = node[n].probe /\ s.nonce = node[n].nonce
      /\ \A x \in acc.out : x.type = "gossip"
  BY <1>2 DEF Outcome, Serves, Quiet, SameExchanges
<1>5. CASE s.probe # None /\ s.probe.nonce = m.nonce
  <2> DEFINE u == EndProbe(n, s, m)
  <2>1. OnAck(n, m) = [st |-> u, out |-> acc.out]
    BY <1>3, <1>4, <1>5
  <2>2. u.probe = None /\ u.nonce = s.nonce
    BY <1>1, <1>4, <1>5, EndProbeIdle
  <2> HIDE DEF u
  <2> QED
    BY <1>4, <1>5, <2>1, <2>2 DEF Numbered, ProbeMoves, Honest
<1>6. CASE ~(s.probe # None /\ s.probe.nonce = m.nonce)
  <2>1. OnAck(n, m) = [st |-> s, out |-> acc.out \cup passed]
    BY <1>3, <1>4, <1>6
  <2>2. \A x \in passed : x.nonce = m.nonce /\ x.for = m.for /\ About(x) = About(m)
    BY DEF Ack, About
  <2> HIDE DEF passed
  <2>3. \A x \in passed : Honest(n, s, x)
    BY <2>2 DEF Honest
  <2> QED
    BY <1>2, <1>4, <2>1, <2>3, QuietNumbered
<1> QED
  BY <1>5, <1>6

LEMMA OnPingReqNumbered ==
    ASSUME NEW n \in Node, NodeOK(n, node[n]), NEW m \in msgs, m.to = n, m.type = "ping_req"
    PROVE  Numbered(n, OnPingReq(n, m))
<1> DEFINE s == node[n]
           kept == IF Len(s.relays) >= RelayCap THEN DropRelay(s.relays, 1) ELSE s.relays
           q == Append(kept, [nonce |-> m.nonce, requester |-> m.from])
           t == [s EXCEPT !.relays = q]
           ping == Ping(n, m.target, m.nonce, <<>>, m.for)
<1>1. CASE s.table[m.target].state = "absent"
  BY <1>1 DEF OnPingReq, Numbered, ProbeMoves
<1>2. CASE s.table[m.target].state # "absent"
  <2>1. OnPingReq(n, m) = [st |-> t, out |-> {ping}]
    BY <1>2 DEF OnPingReq
  <2> HIDE DEF q
  <2>2. t.probe = s.probe /\ t.nonce = s.nonce
    BY DEF NodeOK, State
  <2>3. ping.nonce = m.nonce /\ ping.for = m.for /\ About(ping) = About(m)
    BY DEF Ping, About
  <2> HIDE DEF t, ping
  <2>4. Honest(n, t, ping)
    BY <2>3 DEF Honest
  <2> QED
    BY <2>1, <2>2, <2>4 DEF Numbered, ProbeMoves
<1> QED
  BY <1>1, <1>2

LEMMA OnGossipNumbered ==
    ASSUME NEW n \in Node, NodeOK(n, node[n]), NEW m \in msgs, MsgOK(m), m.to = n
    PROVE  Numbered(n, OnGossip(n, m))
<1>1. m.from \in Node /\ m.from # n /\ m.events \in Seq(Event)
  BY DEF MsgOK
<1>2. Quiet(node[n], OnGossip(n, m))
  BY <1>1, TakeAllQuiet DEF OnGossip
<1> QED
  BY <1>2, QuietNumbered

\* The timer of the probe: a fresh nonce, the same one again, or none.
LEMMA ProbeStepNumbered ==
    ASSUME NEW n \in Node, NodeOK(n, node[n]), ~RecycleNonce, ProbeDue(n),
           NEW o \in ProbeStep(n, node[n])
    PROVE  Numbered(n, o)
<1> DEFINE s == node[n]
<1>1. CASE s.probe = None
  <2>1. PICK t \in Held(s) : o = StartProbe(n, s, t)
    BY <1>1 DEF ProbeStep
  <2> DEFINE u == [s EXCEPT !.probe = [target |-> t, nonce |-> s.nonce, phase |-> "direct"],
                            !.nonce = s.nonce + 1]
             ping == Ping(n, t, s.nonce, Piggyback(s), n)
  <2>2. o = [st |-> u, out |-> {ping}]
    BY <2>1 DEF StartProbe, Following
  <2>3. /\ u.probe = [target |-> t, nonce |-> s.nonce, phase |-> "direct"]
        /\ u.nonce = s.nonce + 1
    BY DEF NodeOK, State
  <2>5. ping.nonce = s.nonce /\ ping.for = n /\ About(ping) = t
    BY DEF Ping, About
  <2>6. u.probe # None
    BY <2>1, <2>3, NoneIsNoProbe DEF Held, NodeOK, State, Probe
  <2> HIDE DEF u, ping, s
  <2>7. Honest(n, u, ping)
    BY <2>3, <2>5, <2>6 DEF Honest
  <2>8. ProbeMoves(n, s, u)
    BY <2>3, <2>6 DEF ProbeMoves
  <2> QED
    BY <2>2, <2>7, <2>8 DEF Numbered, s
<1>2. CASE s.probe # None /\ s.probe.phase = "direct"
  <2>1. PICK R \in Helpers(s) : o = Escalate(n, s, R)
    BY <1>2 DEF ProbeStep
  <2> DEFINE u == [s EXCEPT !.probe.phase = "indirect"]
             out == {PingReq(n, r, s.probe.nonce, s.probe.target) : r \in R}
  <2>2. o = [st |-> u, out |-> out]
    BY <2>1 DEF Escalate
  <2>3. s.probe \in Probe /\ u.probe = [s.probe EXCEPT !.phase = "indirect"] /\ u.nonce = s.nonce
    BY <1>2 DEF NodeOK, State
  <2> HIDE DEF u
  <2>4. u.probe.nonce = s.probe.nonce /\ u.probe.target = s.probe.target
    BY <2>3 DEF Probe
  <2>5. u.probe # None
    BY <2>3, NoneIsNoProbe DEF Probe
  <2>6. \A x \in out : x.nonce = s.probe.nonce /\ x.for = n /\ About(x) = s.probe.target
    BY DEF PingReq, About
  <2> HIDE DEF out
  <2>7. \A x \in out : Honest(n, u, x)
    BY <2>4, <2>5, <2>6 DEF Honest
  <2> QED
    BY <1>2, <2>2, <2>3, <2>4, <2>7 DEF Numbered, ProbeMoves
<1>3. CASE s.probe # None /\ s.probe.phase # "direct"
  <2>1. PICK dest \in Destinations(s, s.probe.target) : o = GiveUp(n, s, dest)
    BY <1>3 DEF ProbeStep
  <2> DEFINE e == Suspect(s.probe.target, s.table[s.probe.target].inc)
             idle == [s EXCEPT !.probe = None]
  <2>2. e \in Event
    <3>1. s.probe.target \in Node /\ s.table[s.probe.target].inc \in Nat
      BY <1>3, EntryKnowledge DEF NodeOK, State, Probe
    <3> QED
      BY <3>1 DEF Suspect, Event, MemberState
  <2>3. idle.probe = None /\ idle.nonce = s.nonce
    BY DEF NodeOK, State
  <2>4. NodeOK(n, idle)
    BY IdleOK DEF Serves
  <2>5. o = Announce(n, idle, e, dest) \/ o = [st |-> idle, out |-> {}]
    BY <2>1 DEF GiveUp
  <2> HIDE DEF idle, e
  <2>6. Vouch(n, idle, e).probe = None /\ Vouch(n, idle, e).nonce = s.nonce
    BY <2>2, <2>3, <2>4, VouchQuiet DEF SameExchanges
  <2>7. o.st.probe = None /\ o.st.nonce = s.nonce /\ \A x \in o.out : x.type = "gossip"
    BY <2>3, <2>5, <2>6 DEF Announce, Gossip
  <2> QED
    BY <2>7 DEF Numbered, ProbeMoves, Honest
<1> QED
  BY <1>1, <1>2, <1>3

\* The rest of a tick changes neither the probe nor its nonce, and gossips.
LEMMA ConfirmMemberNumbered ==
    ASSUME NEW n \in Node, NEW o, NodeOK(n, o.st), Numbered(n, o), NEW p \in Node, NEW dest
    PROVE  Numbered(n, ConfirmMember(n, o, p, dest))
<1> DEFINE e == Confirm(p, o.st.table[p].inc)
           a == Announce(n, o.st, e, dest)
           c == ConfirmMember(n, o, p, dest)
<1>1. e \in Event
  <2>1. o.st.table[p].inc \in Nat
    BY EntryKnowledge DEF NodeOK, State
  <2> QED
    BY <2>1 DEF Confirm, Event, MemberState
<1>2. c = [a EXCEPT !.out = @ \cup o.out]
  BY DEF ConfirmMember
<1> HIDE DEF c, e
<1>3. /\ a.st = Vouch(n, o.st, e) /\ \A x \in a.out : x.type = "gossip"
      /\ a = [st |-> a.st, out |-> a.out]
  BY DEF Announce, Gossip
<1> HIDE DEF a
<1>4. c.st = Vouch(n, o.st, e) /\ c.out = a.out \cup o.out
  BY <1>2, <1>3
<1>5. c.st.probe = o.st.probe /\ c.st.nonce = o.st.nonce
  BY <1>1, <1>4, VouchQuiet DEF SameExchanges
<1>6. Numbered(n, c)
  BY <1>3, <1>4, <1>5 DEF Numbered, ProbeMoves, Honest
<1> QED
  BY <1>6 DEF c

LEMMA ExpiredRelayNumbered ==
    ASSUME NEW n \in Node, NEW o, NodeOK(n, o.st), o = [st |-> o.st, out |-> o.out],
           Numbered(n, o), NEW k
    PROVE  Numbered(n, [o EXCEPT !.st.relays = DropRelay(@, k)])
<1> DEFINE q == DropRelay(o.st.relays, k)
           t == [o.st EXCEPT !.relays = q]
           d == [o EXCEPT !.st.relays = DropRelay(@, k)]
<1>1. d = [o EXCEPT !.st = t]
  OBVIOUS
<1> HIDE DEF q, d
<1>2. t.probe = o.st.probe /\ t.nonce = o.st.nonce
  BY DEF NodeOK, State
<1> HIDE DEF t
<1>3. d.st = t /\ d.out = o.out
  BY <1>1
<1>4. Numbered(n, d)
  BY <1>2, <1>3 DEF Numbered, ProbeMoves, Honest
<1> QED
  BY <1>4 DEF d

LEMMA TickNumbered ==
    ASSUME IInv, ~RecycleNonce, NEW n \in Node, Tick(n)
    PROVE  \E o : Numbered(n, o) /\ Commit(n, {}, o)
<1>1. PICK o \in {[st |-> node[n], out |-> {}]} \cup (IF ProbeDue(n) THEN ProbeStep(n, node[n]) ELSE {}),
           p \in {None} \cup Suspects(n), k \in {0} \cup RelaysDue(n) : FinishTick(n, o, p, k)
  BY DEF Tick
<1>2. NodeOK(n, node[n])
  BY DEF IInv
<1>3. /\ Numbered(n, o) /\ Outcome(n, node[n], o, {})
      /\ \A q \in Node : node[n].table[q].state = "suspect" => o.st.table[q] = node[n].table[q]
  <2>1. CASE o = [st |-> node[n], out |-> {}]
    BY <1>2, <2>1, ServesNothing DEF Outcome, Numbered, ProbeMoves
  <2>2. CASE ProbeDue(n) /\ o \in ProbeStep(n, node[n])
    BY <1>2, <2>2, ProbeStepOK, ProbeStepNumbered
  <2> QED
    BY <1>1, <2>1, <2>2
<1>4. PICK dest \in IF p = None THEN {None} ELSE Destinations(o.st, p) :
        LET c == IF p = None THEN o ELSE ConfirmMember(n, o, p, dest)
        IN  Commit(n, {}, [c EXCEPT !.st.relays = DropRelay(@, k)])
  BY <1>1 DEF FinishTick
<1> DEFINE c == IF p = None THEN o ELSE ConfirmMember(n, o, p, dest)
<1>5. Numbered(n, c) /\ NodeOK(n, c.st) /\ c = [st |-> c.st, out |-> c.out]
  <2>1. CASE p = None
    BY <1>3, <2>1 DEF Outcome, Serves
  <2>2. CASE p # None
    <3>1. p \in Suspects(n) /\ p \in Node /\ dest \in Destinations(o.st, p)
          /\ o.st.table[p] = node[n].table[p]
      BY <1>1, <1>3, <1>4, <2>2 DEF Suspects
    <3> DEFINE d == ConfirmMember(n, o, p, dest)
    <3>2. Outcome(n, node[n], d, Overdue(n))
      BY <1>2, <1>3, <3>1, ConfirmMemberOK
    <3>3. Numbered(n, d)
      BY <1>3, <3>1, ConfirmMemberNumbered DEF Outcome, Serves
    <3>4. c = d
      BY <2>2
    <3> HIDE DEF d, c
    <3> QED
      BY <3>2, <3>3, <3>4 DEF Outcome, Serves
  <2> QED
    BY <2>1, <2>2
<1>6. Commit(n, {}, [c EXCEPT !.st.relays = DropRelay(@, k)])
  BY <1>4
<1> HIDE DEF c
<1>7. Numbered(n, [c EXCEPT !.st.relays = DropRelay(@, k)])
  BY <1>5, ExpiredRelayNumbered
<1> WITNESS [c EXCEPT !.st.relays = DropRelay(@, k)]
<1> QED
  BY <1>6, <1>7

LEMMA ReceiveNumbered ==
    ASSUME IInv, NEW m \in msgs,
           ReceivePing(m) \/ ReceiveAck(m) \/ ReceivePingReq(m) \/ ReceiveGossip(m)
    PROVE  \E o : Numbered(m.to, o) /\ Commit(m.to, {m}, o)
<1>1. MsgOK(m) /\ m.to \in Node /\ NodeOK(m.to, node[m.to])
  BY DEF IInv, MsgOK
<1>2. CASE ReceivePing(m)
  BY <1>1, <1>2, OnPingNumbered DEF ReceivePing, Receive
<1>3. CASE ReceiveAck(m)
  BY <1>1, <1>3, OnAckNumbered DEF ReceiveAck, Receive
<1>4. CASE ReceivePingReq(m)
  BY <1>1, <1>4, OnPingReqNumbered DEF ReceivePingReq, Receive
<1>5. CASE ReceiveGossip(m)
  BY <1>1, <1>5, OnGossipNumbered DEF ReceiveGossip, Receive
<1> QED
  BY <1>2, <1>3, <1>4, <1>5

LEMMA SessionUpNumbered ==
    ASSUME IInv, NEW n \in Node, NEW p \in Node, SessionUp(n, p)
    PROVE  \E o : Numbered(n, o) /\ Commit(n, {}, o)
<1> DEFINE s == node[n]
           t == IF s.table[p].state = "absent" THEN ApplyEvent(n, s, Alive(p, 0))
                ELSE IF s.table[p].state = "alive" THEN s ELSE RaisePeer(n, s, p)
<1>1. Commit(n, {}, [st |-> t, out |-> {}])
  BY DEF SessionUp
<1>2. NodeOK(n, s) /\ s \in State
  BY DEF IInv, NodeOK
<1>3. Alive(p, 0) \in Event /\ Alive(p, s.table[p].inc + 1) \in Event
  <2>1. s.table[p].inc \in Nat
    BY <1>2, EntryKnowledge DEF State
  <2> QED
    BY <2>1 DEF Alive, Event, MemberState
<1>4. t.probe = s.probe /\ t.nonce = s.nonce
  BY <1>2, <1>3, ApplyEventQuiet, VouchQuiet DEF RaisePeer, SameExchanges
<1> HIDE DEF t
<1>5. Numbered(n, [st |-> t, out |-> {}])
  BY <1>4 DEF Numbered, ProbeMoves
<1> QED
  BY <1>1, <1>5

LEMMA CommitNumbered ==
    ASSUME IInv, IInv', NInv, NEW n \in Node, NEW consumed, NEW o,
           Numbered(n, o), Commit(n, consumed, o)
    PROVE  NInv'
<1> DEFINE s == node[n]
           t == o.st
           Tied(f, c, a) ==
              /\ f \in Node /\ c \in Nat /\ c < node'[f].nonce
              /\ (node'[f].probe # None /\ node'[f].probe.nonce = c) => node'[f].probe.target = a
<1>1. /\ node'[n] = t /\ \A r \in Node : r # n => node'[r] = node[r]
      /\ spent' = spent /\ \A m \in msgs' : m \in msgs \/ m \in o.out
  BY DEF Commit, IInv
<1>2. s.nonce \in Nat /\ t.nonce \in Nat
  BY <1>1 DEF IInv, State
<1>3. ProbeMoves(n, s, t) /\ \A x \in o.out : Honest(n, t, x)
  BY DEF Numbered
<1>4. s.probe # None => s.probe.nonce \in Nat /\ s.probe.nonce < s.nonce
  BY DEF NInv, Issued
<1> HIDE DEF s, t
<1>5. s.nonce <= t.nonce
  BY <1>2, <1>3 DEF ProbeMoves
<1>6. t.probe # None => t.probe.nonce \in Nat /\ t.probe.nonce < t.nonce
  BY <1>2, <1>3, <1>4 DEF ProbeMoves
<1>7. ASSUME NEW d \in msgs, d.type # "gossip"
      PROVE  Tied(d.for, d.nonce, About(d))
  <2>1. /\ d.for \in Node /\ d.nonce \in Nat /\ d.nonce < node[d.for].nonce
        /\ (node[d.for].probe # None /\ node[d.for].probe.nonce = d.nonce)
           => node[d.for].probe.target = About(d)
    BY <1>7 DEF NInv, Issued
  <2>2. CASE d.for # n
    BY <1>1, <2>1, <2>2
  <2>3. CASE d.for = n
    <3>1. d.nonce < s.nonce /\ d.nonce < t.nonce
      BY <1>2, <1>5, <2>1, <2>3 DEF s
    <3>2. ASSUME t.probe # None, t.probe.nonce = d.nonce PROVE t.probe.target = About(d)
      <4>1. s.probe # None /\ t.probe.nonce = s.probe.nonce /\ t.probe.target = s.probe.target
        BY <1>2, <1>3, <3>1, <3>2 DEF ProbeMoves
      <4> QED
        BY <2>1, <2>3, <3>2, <4>1 DEF s
    <3> QED
      BY <1>1, <2>1, <2>3, <3>1, <3>2
  <2> QED
    BY <2>2, <2>3
<1>8. ASSUME NEW x \in o.out, x.type # "gossip"
      PROVE  Tied(x.for, x.nonce, About(x))
  <2>1. CASE \E d \in msgs : /\ d.type # "gossip" /\ d.for = x.for /\ d.nonce = x.nonce
                             /\ About(d) = About(x)
    <3>1. PICK d \in msgs : /\ d.type # "gossip" /\ d.for = x.for /\ d.nonce = x.nonce
                           /\ About(d) = About(x)
      BY <2>1
    <3>2. Tied(d.for, d.nonce, About(d))
      BY <1>7, <3>1
    <3> HIDE DEF Tied
    <3> QED
      BY <3>1, <3>2
  <2>2. CASE t.probe # None /\ x.for = n /\ t.probe.nonce = x.nonce /\ t.probe.target = About(x)
    BY <1>1, <1>6, <2>2
  <2> QED
    BY <1>3, <1>8, <2>1, <2>2 DEF Honest
<1>9. \A m \in msgs' : m.type # "gossip" => Tied(m.for, m.nonce, About(m))
  <2> HIDE DEF Tied
  <2> QED
    BY <1>1, <1>7, <1>8
<1>10. ASSUME NEW r \in Node, node'[r].probe # None
       PROVE  node'[r].probe.nonce \in Nat /\ node'[r].probe.nonce < node'[r].nonce
  BY <1>1, <1>6, <1>10 DEF NInv, Issued
<1> QED
  BY <1>1, <1>9, <1>10 DEF NInv, Issued

LEMMA InitNInv == Init => NInv
<1> SUFFICES ASSUME Init PROVE NInv
  OBVIOUS
<1>1. ASSUME NEW n \in Node PROVE node[n].probe = None
  BY DEF Init, Fresh
<1> QED
  BY <1>1 DEF Init, NInv

\* The code of a node runs, or messages and processes get lost.
LEMMA NInvStep == OneLife /\ IInv /\ IInv' /\ NInv /\ [Next]_vars => NInv'
<1> SUFFICES ASSUME OneLife, IInv, IInv', NInv, [Next]_vars PROVE NInv'
  OBVIOUS
<1>1. ASSUME NEW n \in Node, Tick(n) PROVE NInv'
  BY <1>1, TickNumbered, CommitNumbered DEF OneLife
<1>2. ASSUME NEW m \in msgs, ReceivePing(m) \/ ReceiveAck(m) \/ ReceivePingReq(m) \/ ReceiveGossip(m)
      PROVE  NInv'
  <2>1. m.to \in Node
    BY DEF IInv, MsgOK
  <2> QED
    BY <1>2, <2>1, ReceiveNumbered, CommitNumbered
<1>3. ASSUME NEW n \in Node, NEW p \in Node, SessionUp(n, p) PROVE NInv'
  BY <1>3, SessionUpNumbered, CommitNumbered
<1>4. ASSUME spent' \in [loss : Nat, crash : Nat, restart : Nat], msgs' \subseteq msgs,
             \A r \in Node : node'[r].nonce = node[r].nonce /\ node'[r].probe = node[r].probe
      PROVE  NInv'
  BY <1>4 DEF NInv, Issued
<1>5. spent \in [loss : Nat, crash : Nat, restart : Nat]
  BY DEF NInv
<1>6. ASSUME NEW m \in msgs, Lose(m) PROVE NInv'
  <2>1. spent' \in [loss : Nat, crash : Nat, restart : Nat]
    BY <1>5, <1>6 DEF Lose
  <2> QED
    BY <1>4, <1>6, <2>1 DEF Lose
<1>7. ASSUME NEW n \in Node, Crash(n) PROVE NInv'
  <2>1. spent' \in [loss : Nat, crash : Nat, restart : Nat]
    BY <1>5, <1>7 DEF Crash
  <2>2. node' = [node EXCEPT ![n] = [node[n] EXCEPT !.up = FALSE]] /\ msgs' \subseteq msgs
    BY <1>7 DEF Crash
  <2>3. \A r \in Node : node'[r].nonce = node[r].nonce /\ node'[r].probe = node[r].probe
    BY <2>2 DEF IInv, State
  <2> QED
    BY <1>4, <2>1, <2>2, <2>3
<1>8. ASSUME NEW n \in Node, Restart(n) PROVE FALSE
  BY <1>5, <1>8 DEF Restart, OneLife
<1>9. CASE UNCHANGED vars
  BY <1>4, <1>5, <1>9 DEF vars
<1> QED
  BY <1>1, <1>2, <1>3, <1>6, <1>7, <1>8, <1>9 DEF Next

LEMMA NonceInvariant ==
    ASSUME OneLife
    PROVE  Spec => [](IInv /\ NInv)
<1>1. Init => IInv /\ NInv
  BY InitIInv, InitNInv
<1>2. (IInv /\ NInv) /\ [Next]_vars => (IInv /\ NInv)'
  BY IInvStep, NInvStep
<1> QED
  BY <1>1, <1>2, PTL DEF Spec

\* Whatever nonces the nodes count from, and whatever was relayed, evicted,
\* delayed or lost: an ACK that ends a probe is its target's answer, or serves
\* a probe of another node that drew the same nonce (swim.zig, handle(.ack),
\* which compares nonces only).
THEOREM AcksAreGenuine ==
    ASSUME OneLife
    PROVE  Spec => OwnEvidenceGenuine
<1>1. ASSUME IInv, NInv, [Next]_vars, NEW m \in msgs, EndsProbe(m)
      PROVE  \/ m.by = node[m.to].probe.target
             \/ m.for # m.to /\ m.nonce = node[m.to].probe.nonce
  <2>1. /\ m \notin msgs' /\ spent' = spent /\ m.type = "ack"
        /\ node[m.to].probe # None /\ node'[m.to].probe = None
    BY <1>1 DEF Delivered, EndsProbe
  <2>2. MsgOK(m) /\ m.to \in Node /\ NodeOK(m.to, node[m.to])
    BY <1>1, <2>1 DEF IInv, MsgOK
  <2>3. spent \in [loss : Nat, crash : Nat, restart : Nat]
    BY <1>1 DEF NInv
  <2>4. ASSUME NEW q \in Node, NEW consumed, NEW C, Acted(q, consumed, C)
        PROVE  m \in consumed
    BY <2>1, <2>4 DEF Acted
  <2>5. ReceiveAck(m)
    <3>1. ASSUME NEW d \in msgs,
                 ReceivePing(d) \/ ReceiveAck(d) \/ ReceivePingReq(d) \/ ReceiveGossip(d)
          PROVE  m = d
      <4>1. d.to \in Node
        BY <1>1 DEF IInv, MsgOK
      <4> QED
        BY <1>1, <2>4, <3>1, <4>1, ReceiveOK
    <3>2. ~(\E q \in Node : Tick(q)) /\ ~(\E q, p \in Node : SessionUp(q, p))
      BY <1>1, <2>4, TickOK, SessionUpActed
    <3>3. ~(\E d \in msgs : Lose(d)) /\ ~(\E q \in Node : Crash(q)) /\ ~(\E q \in Node : Restart(q))
      BY <2>1, <2>3 DEF Lose, Crash, Restart
    <3>4. ~UNCHANGED vars
      BY <2>1 DEF vars
    <3> QED
      BY <1>1, <2>1, <3>1, <3>2, <3>3, <3>4 DEF Next, ReceivePing, ReceivePingReq, ReceiveGossip
  <2>6. node' = [node EXCEPT ![m.to] = OnAck(m.to, m).st]
    BY <2>5 DEF ReceiveAck, Receive, Commit
  <2>7. OnAck(m.to, m).st.probe = None
    BY <1>1, <2>1, <2>2, <2>6 DEF IInv
  <2>8. node[m.to].probe.nonce = m.nonce
    BY <2>1, <2>2, <2>7, OnAckNumbered
  <2>9. m.for = m.to => node[m.to].probe.target = About(m)
    BY <1>1, <2>1, <2>8 DEF NInv
  <2> QED
    BY <2>1, <2>8, <2>9 DEF About
<1>2. IInv /\ NInv /\ [Next]_vars
      => [\A m \in msgs : EndsProbe(m) =>
             \/ m.by = node[m.to].probe.target
             \/ m.for # m.to /\ m.nonce = node[m.to].probe.nonce]_vars
  BY <1>1
<1> QED
  BY <1>2, NonceInvariant, PTL DEF Spec, OwnEvidenceGenuine
-----------------------------------------------------------------------------
(***************************************************************************)
(* Losses.  Where timeouts exceed the delays, and as long as no two probes *)
(* under way bear one nonce, lost messages make nobody suspect anybody in  *)
(* a cluster of any size, up to the number of helpers a probe asks and of  *)
(* relays a node keeps.  A probe that lost nothing is carried by one       *)
(* message; one that did costs one loss at least, and each helper of it    *)
(* that neither has the PING_REQ, nor relays the PING or its ACK, nor has  *)
(* answered costs another.  So a helper is left, and no relay has to make  *)
(* room.                                                                   *)
(***************************************************************************)

AllAlive(events) == \A k \in DOMAIN events : events[k].state = "alive"

\* The record s of n knows of nothing but live peers.
Bright(n, s) ==
    /\ \A p \in Node \ {n} : s.table[p].state = "alive"
    /\ AllAlive(s.ring)

LEMMA DisseminateBright ==
    ASSUME NEW n \in Node, NEW s, NodeOK(n, s), Bright(n, s), NEW e \in Event, e.state = "alive"
    PROVE  Bright(n, Disseminate(s, e))
<1> DEFINE t == Disseminate(s, e)
<1>1. s.ring \in Seq(Event) /\ Len(s.ring) <= RingCap
  BY DEF NodeOK, State
<1>2. t.table = s.table /\ t.ring = Pushed(s.ring, e)
  BY DEF Disseminate, NodeOK, State, Pushed
<1> HIDE DEF t
<1>3. \A k \in DOMAIN t.ring : t.ring[k] = e \/ \E j \in DOMAIN s.ring : t.ring[k] = s.ring[j]
  BY <1>1, <1>2, PushedRing
<1>4. Bright(n, t)
  BY <1>2, <1>3 DEF Bright, AllAlive
<1> QED
  BY <1>4 DEF t

LEMMA ApplyEventBright ==
    ASSUME NEW n \in Node, NEW s, NodeOK(n, s), Bright(n, s), NEW e \in Event, e.state = "alive"
    PROVE  Bright(n, ApplyEvent(n, s, e))
<1> DEFINE t == ApplyEvent(n, s, e)
<1>1. s.inc \in Nat /\ e.inc \in Nat /\ e.id \in Node /\ s.table \in [Node -> Entry]
  BY DEF NodeOK, State, Event
<1>2. CASE e.id # n
  <2> DEFINE r == Merge(s.table[e.id], e)
  <2>1. r = s.table[e.id] \/ r = [state |-> e.state, inc |-> e.inc]
    BY DEF Merge
  <2>2. r.state = "alive"
    BY <1>1, <1>2, <2>1 DEF Bright
  <2>3. t = [s EXCEPT !.table = [@ EXCEPT ![e.id] = r]]
    BY <1>2 DEF ApplyEvent
  <2> HIDE DEF r, t
  <2>4. t.ring = s.ring /\ t.table = [s.table EXCEPT ![e.id] = r]
    BY <2>3 DEF NodeOK, State
  <2>5. \A p \in Node : t.table[p] = IF p = e.id THEN r ELSE s.table[p]
    BY <1>1, <2>4
  <2>6. Bright(n, t)
    BY <2>2, <2>4, <2>5 DEF Bright
  <2> QED
    BY <2>6 DEF t
<1>3. CASE e.id = n
  <2>1. t.ring = s.ring /\ t.table = s.table
    BY <1>1, <1>3 DEF ApplyEvent, NodeOK, State
  <2> QED
    BY <2>1 DEF Bright
<1> QED
  BY <1>2, <1>3

LEMMA VouchBright ==
    ASSUME NEW n \in Node, NEW s, NodeOK(n, s), Bright(n, s), NEW e \in Event, e.state = "alive",
           e.id # n
    PROVE  Bright(n, Vouch(n, s, e))
<1> DEFINE t == ApplyEvent(n, s, e)
<1>1. Bright(n, t)
  BY ApplyEventBright
<1>2. NodeOK(n, t)
  <2>1. Serves(n, s, t, {e})
    BY ApplyEventOK
  <2> QED
    BY <2>1 DEF Serves
<1>3. Vouch(n, s, e) = Disseminate(t, e)
  BY DEF Vouch
<1> HIDE DEF t
<1> QED
  BY <1>1, <1>2, <1>3, DisseminateBright

\* An outcome that spreads no suspicion.
Cheerful(n, o) == Bright(n, o.st) /\ \A x \in o.out : AllAlive(x.events)

LEMMA TakeCheerful ==
    ASSUME NEW n \in Node, NEW from, NEW acc, NEW e \in Event, e.state = "alive",
           NodeOK(n, acc.st), acc = [st |-> acc.st, out |-> acc.out], Cheerful(n, acc)
    PROVE  Cheerful(n, Take(n, from, acc, e))
<1> DEFINE t == acc.st
           u == IF e.id # n /\ Supersedes(e, t.table[e.id]) THEN Vouch(n, t, e) ELSE ApplyEvent(n, t, e)
<1>1. Take(n, from, acc, e) = [st |-> u, out |-> acc.out]
  BY DEF Take
<1>2. Bright(n, u)
  BY VouchBright, ApplyEventBright DEF Cheerful
<1> HIDE DEF u
<1> QED
  BY <1>1, <1>2 DEF Cheerful

LEMMA TakeAllCheerful ==
    ASSUME NEW n \in Node, NEW s, NodeOK(n, s), NEW from \in Node, from # n,
           NEW events \in Seq(Event), Bright(n, s), AllAlive(events)
    PROVE  Cheerful(n, TakeAll(n, from, s, events))
<1> DEFINE L == Len(events)
           C == {events[k] : k \in DOMAIN events}
<1>1. /\ L \in Nat /\ DOMAIN events = 1 .. L
      /\ \A k \in 1 .. L : events[k] \in Event /\ events[k] \in C /\ events[k].state = "alive"
  BY LenProperties, ElementOfSeq DEF AllAlive
<1>2. PICK f : Takes(f, n, from, s, events, L) /\ TakeAll(n, from, s, events) = f[L]
  BY <1>1, TakeAllDefined
<1>3. /\ f[0] = [st |-> s, out |-> {}]
      /\ \A k \in 0 .. L - 1 : f[k + 1] = Take(n, from, f[k], events[k + 1])
  <2> HIDE DEF L
  <2>1. \A j \in 0 .. L : f[j] = IF j = 0 THEN [st |-> s, out |-> {}]
                                 ELSE Take(n, from, f[j - 1], events[j])
    BY <1>2 DEF Takes
  <2>2. 0 \in 0 .. L /\ \A k \in 0 .. L - 1 : k + 1 \in 0 .. L /\ k + 1 # 0 /\ (k + 1) - 1 = k
    BY <1>1
  <2> QED
    BY <2>1, <2>2
<1> DEFINE T == {k \in 0 .. L : Outcome(n, s, f[k], C) /\ Cheerful(n, f[k])}
<1>4. 0 \in T
  BY <1>1, <1>3, ServesNothing DEF Outcome, Cheerful
<1>5. ASSUME NEW k \in 0 .. L - 1, k \in T
      PROVE  k + 1 \in T
  <2>1. events[k + 1] \in Event /\ events[k + 1] \in C /\ events[k + 1].state = "alive"
    BY <1>1
  <2> HIDE DEF C
  <2>2. Outcome(n, s, Take(n, from, f[k], events[k + 1]), C)
    BY <1>5, <2>1, TakeOK
  <2>3. NodeOK(n, f[k].st) /\ f[k] = [st |-> f[k].st, out |-> f[k].out] /\ Cheerful(n, f[k])
    BY <1>5 DEF Outcome, Serves
  <2>4. Cheerful(n, Take(n, from, f[k], events[k + 1]))
    BY <2>1, <2>3, TakeCheerful
  <2> QED
    BY <1>3, <2>2, <2>4
<1>6. L \in T
  <2> HIDE DEF L, T
  <2>1. 0 .. L \subseteq T
    BY <1>1, <1>4, <1>5, Counting
  <2> QED
    BY <1>1, <2>1
<1> QED
  BY <1>2, <1>6

LEMMA PiggybackBright ==
    ASSUME NEW n \in Node, NEW s, NodeOK(n, s), Bright(n, s)
    PROVE  AllAlive(Piggyback(s))
<1> DEFINE q == s.ring
           m == IF Len(q) < PiggybackMax THEN Len(q) ELSE PiggybackMax
<1>1. q \in Seq(Event) /\ Len(q) \in Nat /\ DOMAIN q = 1 .. Len(q)
  BY LenProperties DEF NodeOK, State
<1>2. m \in Nat /\ m <= Len(q)
  BY <1>1, SwimConstants
<1> HIDE DEF m
<1>3. \A i \in 1 .. m : q[i] \in Event /\ q[i].state = "alive"
  BY <1>1, <1>2, ElementOfSeq DEF Bright, AllAlive
<1> HIDE DEF q
<1> DEFINE r == SubSeq(q, 1, m)
<1>4. /\ r \in Seq(Event) /\ Len(r) = IF 1 <= m THEN m - 1 + 1 ELSE 0
      /\ \A i \in 1 .. m - 1 + 1 : r[i] = q[1 + i - 1]
  BY <1>2, <1>3, SubSeqProperties
<1> HIDE DEF r
<1>5. DOMAIN r = 1 .. Len(r) /\ Len(r) = m
  BY <1>2, <1>4, LenProperties
<1>6. \A i \in 1 .. m : r[i] = q[i]
  BY <1>2, <1>4
<1>7. AllAlive(r)
  BY <1>3, <1>5, <1>6 DEF AllAlive
<1>8. Piggyback(s) = r
  BY DEF Piggyback, r, q, m
<1> QED
  BY <1>7, <1>8

HasRelay(s, c) == \E k \in DOMAIN s.relays : s.relays[k].nonce = c

\* No two relays of the record s have one nonce.
Distinct(s) == \A j, k \in DOMAIN s.relays : s.relays[j].nonce = s.relays[k].nonce => j = k

\* What the messages K delivered to n and the outcome o leave of its relays: an
\* entry is an old one or of a PING_REQ, and one that is still of use stays.
RelaysGoOn(n, K, o) ==
    /\ \A j \in DOMAIN o.st.relays :
          \/ \E i \in DOMAIN node[n].relays : o.st.relays[j] = node[n].relays[i]
          \/ \E d \in K : /\ d.type = "ping_req"
                          /\ o.st.relays[j] = [nonce |-> d.nonce, requester |-> d.from]
    /\ \A i \in DOMAIN node[n].relays :
          InTransit(node[n].relays[i].requester, node[n].relays[i].nonce)
          => HasRelay(o.st, node[n].relays[i].nonce)
    /\ Distinct(o.st)

\* The probe goes on or ends; or a new one is on its way to its target; or one
\* that nothing carries any more asks enough helpers, each in one message.
ProbeGoesOn(n, o) ==
    \/ /\ o.st.probe \in {node[n].probe, None}
       /\ \A x \in o.out : x.type # "ping_req"
    \/ /\ o.st.probe.phase = "direct" /\ o.st.probe.nonce = node[n].nonce
       /\ \E x \in o.out : /\ x.type = "ping" /\ x.from = n /\ x.to = o.st.probe.target
                           /\ x.nonce = o.st.probe.nonce
       /\ \A x \in o.out : x.type # "ping_req"
    \/ /\ node[n].probe # None /\ node[n].probe.phase = "direct"
       /\ ~InTransit(n, node[n].probe.nonce)
       /\ o.st.probe = [node[n].probe EXCEPT !.phase = "indirect"]
       /\ \E R \in SUBSET (Node \ {n, node[n].probe.target}) :
             /\ MaxLoss <= Cardinality(R)
             /\ o.out = {PingReq(n, r, node[n].probe.nonce, node[n].probe.target) : r \in R}

\* What becomes of the message d: a PING is answered, a PING_REQ passed on and
\* remembered, an ACK ends the probe it is for or goes to who asked for it.
Answers(n, d, o) ==
    /\ d.type = "ping" => \E x \in o.out : /\ x.type = "ack" /\ x.from = n /\ x.to = d.from
                                           /\ x.nonce = d.nonce
    /\ (d.type = "ping_req" /\ d.target # n) =>
          /\ HasRelay(o.st, d.nonce)
          /\ \E x \in o.out : /\ x.type = "ping" /\ x.from = n /\ x.to = d.target
                              /\ x.nonce = d.nonce
    /\ d.type = "ack" =>
          IF node[n].probe # None /\ node[n].probe.nonce = d.nonce THEN o.st.probe = None
          ELSE HasRelay(node[n], d.nonce) =>
               \E k \in DOMAIN node[n].relays, x \in o.out :
                  /\ node[n].relays[k].nonce = d.nonce
                  /\ x.type = "ack" /\ x.from = n /\ x.to = node[n].relays[k].requester
                  /\ x.nonce = d.nonce

\* What the outcome o of n makes of the exchanges, given the messages K.
Handover(n, K, o) ==
    /\ Cheerful(n, o)
    /\ o.st.up = node[n].up /\ node[n].nonce <= o.st.nonce
    /\ \A x \in o.out : x.to \in Node
    /\ RelaysGoOn(n, K, o)
    /\ ProbeGoesOn(n, o)
    /\ \A d \in K : Answers(n, d, o)

\* The node n before the step.
Ready(n) == NodeOK(n, node[n]) /\ Bright(n, node[n]) /\ Distinct(node[n])

\* An outcome that is quiet, but for more messages that are no PING_REQ.
LEMMA QuietHandover ==
    ASSUME NEW n, Ready(n), NEW K, NEW acc,
           SameExchanges(node[n], acc.st), NEW o, o.st = acc.st,
           \A x \in o.out : x.type # "ping_req"
    PROVE  RelaysGoOn(n, K, o) /\ ProbeGoesOn(n, o) /\ node[n].nonce <= o.st.nonce
<1>1. node[n].nonce \in Nat /\ node[n].nonce <= o.st.nonce
  BY DEF Ready, NodeOK, State, SameExchanges
<1> QED
  BY <1>1 DEF Ready, SameExchanges, RelaysGoOn, ProbeGoesOn, HasRelay, Distinct

LEMMA OnPingHandover ==
    ASSUME NEW n \in Node, Ready(n),
           NEW m, MsgOK(m), AllAlive(m.events), m.to = n, m.type = "ping"
    PROVE  Handover(n, {m}, OnPing(n, m))
<1> DEFINE acc == TakeAll(n, m.from, node[n], m.events)
           ack == Ack(n, m.from, m.nonce, acc.st.inc, Piggyback(acc.st), n, m.for)
           o == OnPing(n, m)
<1>1. m.from \in Node /\ m.from # n /\ m.events \in Seq(Event)
  BY DEF MsgOK
<1>2. Outcome(n, node[n], acc, EventsOf(m)) /\ Quiet(node[n], acc) /\ Cheerful(n, acc)
  BY <1>1, TakeAllOK, TakeAllQuiet, TakeAllCheerful DEF EventsOf, Ready
<1>3. OnPing(n, m) = [acc EXCEPT !.out = @ \cup {ack}]
  BY <1>1 DEF OnPing, Ready, Bright
<1> HIDE DEF acc
<1>4. acc = [st |-> acc.st, out |-> acc.out] /\ NodeOK(n, acc.st) /\ acc.st.up = node[n].up
      /\ \A x \in acc.out : x.type = "gossip" /\ x.to \in Node
  BY <1>2 DEF Outcome, Serves, Quiet, MsgOK
<1>5. o = [st |-> acc.st, out |-> acc.out \cup {ack}]
  BY <1>3, <1>4
<1>6. /\ ack.type = "ack" /\ ack.from = n /\ ack.to = m.from /\ ack.nonce = m.nonce
      /\ AllAlive(ack.events)
  BY <1>2, <1>4, PiggybackBright DEF Ack, Cheerful
<1> HIDE DEF ack, o
<1>7. Cheerful(n, o)
  BY <1>2, <1>5, <1>6 DEF Cheerful
<1>8. RelaysGoOn(n, {m}, o) /\ ProbeGoesOn(n, o) /\ node[n].nonce <= o.st.nonce
  BY <1>2, <1>4, <1>5, <1>6, QuietHandover DEF Quiet
<1>9. Answers(n, m, o)
  BY <1>5, <1>6 DEF Answers
<1> QED
  BY <1>1, <1>4, <1>5, <1>6, <1>7, <1>8, <1>9 DEF Handover, o

LEMMA OnGossipHandover ==
    ASSUME NEW n \in Node, Ready(n),
           NEW m, MsgOK(m), AllAlive(m.events), m.to = n, m.type = "gossip"
    PROVE  Handover(n, {m}, OnGossip(n, m))
<1> DEFINE o == OnGossip(n, m)
<1>1. m.from \in Node /\ m.from # n /\ m.events \in Seq(Event)
  BY DEF MsgOK
<1>2. Outcome(n, node[n], o, EventsOf(m)) /\ Quiet(node[n], o) /\ Cheerful(n, o)
  BY <1>1, TakeAllOK, TakeAllQuiet, TakeAllCheerful DEF EventsOf, Ready, OnGossip
<1> HIDE DEF o
<1>3. o.st.up = node[n].up /\ \A x \in o.out : x.type = "gossip" /\ x.to \in Node
  BY <1>2 DEF Outcome, Serves, Quiet, MsgOK
<1>4. RelaysGoOn(n, {m}, o) /\ ProbeGoesOn(n, o) /\ node[n].nonce <= o.st.nonce
  BY <1>2, <1>3, QuietHandover DEF Quiet
<1>5. Answers(n, m, o)
  BY DEF Answers
<1> QED
  BY <1>2, <1>3, <1>4, <1>5 DEF Handover, o

\* An ACK that ends the probe.
LEMMA EndProbeBright ==
    ASSUME NEW n \in Node, NEW s, NodeOK(n, s), Bright(n, s), s.probe # None,
           NEW m, m.inc \in Nat
    PROVE  Bright(n, EndProbe(n, s, m))
<1> DEFINE t == s.probe.target
           u == [s EXCEPT !.probe = None]
           i == IF s.table[t].state = "dead" /\ s.table[t].inc >= m.inc
                THEN s.table[t].inc + 1 ELSE m.inc
           e == Alive(t, i)
<1>1. EndProbe(n, s, m) = Vouch(n, u, e)
  BY DEF EndProbe
<1>2. t \in Node /\ t # n /\ s.table[t] \in Entry
  BY DEF NodeOK, State, Probe
<1>3. i \in Nat
  <2>1. s.table[t].inc \in Nat
    BY <1>2, EntryKnowledge
  <2> QED
    BY <2>1
<1> HIDE DEF i
<1>4. e \in Event /\ e.id # n /\ e.state = "alive"
  BY <1>2, <1>3 DEF Alive, Event, MemberState
<1>5. u.table = s.table /\ u.ring = s.ring
  BY DEF NodeOK, State
<1>6. NodeOK(n, u)
  BY IdleOK DEF Serves
<1> HIDE DEF u, e, t
<1>7. Bright(n, u)
  BY <1>5 DEF Bright
<1> QED
  BY <1>1, <1>4, <1>6, <1>7, VouchBright

LEMMA OnAckHandover ==
    ASSUME NEW n \in Node, Ready(n),
           NEW m, MsgOK(m), AllAlive(m.events), m.to = n, m.type = "ack"
    PROVE  Handover(n, {m}, OnAck(n, m))
<1> DEFINE acc == TakeAll(n, m.from, node[n], m.events)
           s == acc.st
           first == {k \in DOMAIN s.relays : s.relays[k].nonce = m.nonce
                                             /\ \A j \in 1 .. k - 1 : s.relays[j].nonce # m.nonce}
           answer(k) == Ack(n, s.relays[k].requester, m.nonce, m.inc, <<>>, m.by, m.for)
           passed == {answer(k) : k \in first}
           o == OnAck(n, m)
<1>1. m.from \in Node /\ m.from # n /\ m.events \in Seq(Event) /\ m.inc \in Nat
  BY DEF MsgOK
<1>2. Outcome(n, node[n], acc, EventsOf(m)) /\ Quiet(node[n], acc) /\ Cheerful(n, acc)
  BY <1>1, TakeAllOK, TakeAllQuiet, TakeAllCheerful DEF EventsOf, Ready
<1>3. o = IF s.probe # None /\ s.probe.nonce = m.nonce
          THEN [acc EXCEPT !.st = EndProbe(n, s, m)]
          ELSE [acc EXCEPT !.out = @ \cup passed]
  BY DEF OnAck
<1>4. Outcome(n, node[n], o, EventsOf(m))
  BY OnAckOK DEF Ready
<1> HIDE DEF acc, o
<1>5. /\ acc = [st |-> s, out |-> acc.out] /\ NodeOK(n, s)
      /\ s.probe = node[n].probe /\ s.relays = node[n].relays /\ s.nonce = node[n].nonce
      /\ node[n].nonce \in Nat
      /\ \A x \in acc.out : x.type = "gossip"
  BY <1>2 DEF Outcome, Serves, Quiet, SameExchanges, Ready, NodeOK, State
<1>6. o.st.up = node[n].up /\ \A x \in o.out : x.to \in Node
  BY <1>4 DEF Outcome, Serves, MsgOK
<1>7. CASE s.probe # None /\ s.probe.nonce = m.nonce
  <2> DEFINE u == EndProbe(n, s, m)
  <2>1. o = [st |-> u, out |-> acc.out]
    BY <1>3, <1>5, <1>7
  <2>2. u.probe = None /\ u.relays = s.relays /\ u.nonce = s.nonce /\ Bright(n, u)
    BY <1>1, <1>2, <1>5, <1>7, EndProbeIdle, EndProbeBright DEF Cheerful
  <2> HIDE DEF u
  <2>3. Cheerful(n, o)
    BY <1>2, <2>1, <2>2 DEF Cheerful
  <2>4. RelaysGoOn(n, {m}, o)
    BY <1>5, <2>1, <2>2 DEF RelaysGoOn, HasRelay, Distinct, Ready
  <2>5. ProbeGoesOn(n, o)
    BY <1>5, <2>1, <2>2 DEF ProbeGoesOn
  <2>6. Answers(n, m, o)
    BY <1>5, <1>7, <2>1, <2>2 DEF Answers
  <2> QED
    BY <1>6, <1>5, <2>1, <2>2, <2>3, <2>4, <2>5, <2>6 DEF Handover, o
<1>8. CASE ~(s.probe # None /\ s.probe.nonce = m.nonce)
  <2>1. o = [st |-> s, out |-> acc.out \cup passed]
    BY <1>3, <1>5, <1>8
  <2>2. \A k \in first : LET x == answer(k) IN
           /\ x.type = "ack" /\ x.from = n /\ x.to = s.relays[k].requester /\ x.nonce = m.nonce
           /\ AllAlive(x.events)
    BY DEF Ack, AllAlive
  <2>3. HasRelay(s, m.nonce) => \E k \in first : TRUE
    <3>1. SUFFICES ASSUME NEW k \in DOMAIN s.relays, s.relays[k].nonce = m.nonce PROVE k \in first
      BY DEF HasRelay
    <3>2. s.relays \in Seq(Relay)
      BY <1>5 DEF NodeOK, State
    <3>3. DOMAIN s.relays = 1 .. Len(s.relays) /\ Len(s.relays) \in Nat
      BY <3>2, LenProperties
    <3>4. \A j \in 1 .. k - 1 : j \in DOMAIN s.relays /\ j # k
      BY <3>3
    <3>5. \A j \in 1 .. k - 1 : s.relays[j].nonce # m.nonce
      BY <1>5, <3>1, <3>4 DEF Distinct, Ready
    <3> QED
      BY <3>1, <3>5
  <2> HIDE DEF answer
  <2>4. \A x \in passed : x.type = "ack" /\ AllAlive(x.events)
    BY <2>2
  <2>5. Answers(n, m, o)
    <3>1. ASSUME HasRelay(node[n], m.nonce)
          PROVE  \E k \in DOMAIN node[n].relays, x \in o.out :
                    /\ node[n].relays[k].nonce = m.nonce
                    /\ x.type = "ack" /\ x.from = n /\ x.to = node[n].relays[k].requester
                    /\ x.nonce = m.nonce
      <4>1. PICK k \in first : TRUE
        BY <1>5, <2>3, <3>1 DEF HasRelay
      <4>2. answer(k) \in o.out /\ k \in DOMAIN s.relays /\ s.relays[k].nonce = m.nonce
        BY <2>1
      <4> QED
        BY <1>5, <2>2, <4>1, <4>2
    <3> QED
      BY <1>5, <1>8, <3>1 DEF Answers
  <2> HIDE DEF passed
  <2>6. Cheerful(n, o)
    BY <1>2, <2>1, <2>4 DEF Cheerful
  <2>7. RelaysGoOn(n, {m}, o) /\ ProbeGoesOn(n, o) /\ node[n].nonce <= o.st.nonce
    BY <1>2, <1>5, <2>1, <2>4, QuietHandover DEF Quiet
  <2> QED
    BY <1>6, <2>5, <2>6, <2>7 DEF Handover, o
<1> QED
  BY <1>7, <1>8 DEF o

\* Of the relay table, only the dropped entry goes.
LEMMA DropRelayKeeps ==
    ASSUME NEW q \in Seq(Relay), NEW k \in DOMAIN q, NEW i \in DOMAIN q, i # k
    PROVE  \E j \in DOMAIN DropRelay(q, k) : DropRelay(q, k)[j] = q[i]
<1> DEFINE r == [j \in 1 .. Len(q) - 1 |-> IF j = k THEN q[Len(q)] ELSE q[j]]
<1>1. Len(q) \in Nat /\ DOMAIN q = 1 .. Len(q)
  BY LenProperties
<1>2. DropRelay(q, k) = r
  BY <1>1 DEF DropRelay
<1>3. CASE i < Len(q)
  <2>1. i \in 1 .. Len(q) - 1 /\ r[i] = q[i]
    BY <1>1, <1>3
  <2> QED
    BY <1>2, <2>1
<1>4. CASE i = Len(q)
  <2>1. k \in 1 .. Len(q) - 1 /\ r[k] = q[i]
    BY <1>1, <1>4
  <2> QED
    BY <1>2, <2>1
<1> QED
  BY <1>1, <1>3, <1>4

LEMMA OnPingReqHandover ==
    ASSUME NEW n \in Node, Ready(n),
           NEW m, MsgOK(m), m.to = n, m.type = "ping_req",
           Len(node[n].relays) < RelayCap, ~HasRelay(node[n], m.nonce)
    PROVE  Handover(n, {m}, OnPingReq(n, m))
<1> DEFINE s == node[n]
           relay == [nonce |-> m.nonce, requester |-> m.from]
           o == OnPingReq(n, m)
<1>1. /\ s \in State /\ s.relays \in Seq(Relay) /\ s.nonce \in Nat
      /\ m.target \in Node /\ relay \in Relay
  BY DEF Ready, NodeOK, State, MsgOK, Relay
<1>2. CASE m.target = n
  <2>1. o = [st |-> s, out |-> {}]
    BY <1>2 DEF OnPingReq, Ready, NodeOK, Absent
  <2> HIDE DEF o, s
  <2>2. RelaysGoOn(n, {m}, o) /\ ProbeGoesOn(n, o) /\ node[n].nonce <= o.st.nonce
    BY <2>1, QuietHandover DEF SameExchanges, s
  <2> QED
    BY <1>2, <2>1, <2>2 DEF Handover, Cheerful, Answers, Ready, o, s
<1>3. CASE m.target # n
  <2> DEFINE u == [s EXCEPT !.relays = Append(s.relays, relay)]
             ping == Ping(n, m.target, m.nonce, <<>>, m.for)
  <2>1. o = [st |-> u, out |-> {ping}]
    <3>1. ~(Len(s.relays) >= RelayCap)
      BY <1>1, SwimConstants, LenProperties
    <3>2. s.table[m.target].state # "absent"
      BY <1>1, <1>3 DEF Ready, Bright
    <3> QED
      BY <3>1, <3>2 DEF OnPingReq
  <2>2. /\ u.relays = Append(s.relays, relay) /\ u.probe = s.probe /\ u.up = s.up
        /\ u.table = s.table /\ u.ring = s.ring /\ u.nonce = s.nonce
    BY <1>1 DEF State
  <2>3. /\ ping.type = "ping" /\ ping.from = n /\ ping.to = m.target /\ ping.nonce = m.nonce
        /\ AllAlive(ping.events)
    BY DEF Ping, AllAlive
  <2> HIDE DEF u, ping, relay, o, s
  <2>4. /\ Len(s.relays) \in Nat /\ DOMAIN s.relays = 1 .. Len(s.relays)
        /\ DOMAIN u.relays = 1 .. Len(s.relays) + 1
        /\ \A j \in DOMAIN s.relays : u.relays[j] = s.relays[j]
        /\ u.relays[Len(s.relays) + 1] = relay
    BY <1>1, <2>2, AppendProperties, LenProperties
  <2>5. \A j \in DOMAIN u.relays :
           (\E i \in DOMAIN s.relays : u.relays[j] = s.relays[i]) \/ u.relays[j] = relay
    <3>1. \A j \in DOMAIN u.relays : j \in DOMAIN s.relays \/ j = Len(s.relays) + 1
      BY <2>4
    <3> QED
      BY <2>4, <3>1
  <2>6. HasRelay(u, m.nonce)
    <3>1. Len(s.relays) + 1 \in DOMAIN u.relays /\ relay.nonce = m.nonce
      BY <2>4 DEF relay
    <3> QED
      BY <2>4, <3>1 DEF HasRelay
  <2>7. \A c : HasRelay(s, c) => HasRelay(u, c)
    <3>1. DOMAIN s.relays \subseteq DOMAIN u.relays
      BY <2>4
    <3> QED
      BY <2>4, <3>1 DEF HasRelay
  <2>8. Distinct(u)
    <3>1. \A j \in DOMAIN u.relays : j \in DOMAIN s.relays \/ j = Len(s.relays) + 1
      BY <2>4
    <3>2. \A j \in DOMAIN s.relays : u.relays[j].nonce # m.nonce
      BY <2>4 DEF HasRelay, s
    <3>3. relay.nonce = m.nonce /\ \A j, i \in DOMAIN s.relays : s.relays[j].nonce = s.relays[i].nonce => j = i
      BY DEF relay, Ready, Distinct, s
    <3> QED
      BY <2>4, <3>1, <3>2, <3>3 DEF Distinct
  <2>9. RelaysGoOn(n, {m}, o)
    <3>1. \A i \in DOMAIN s.relays : HasRelay(u, s.relays[i].nonce)
      BY <2>7 DEF HasRelay
    <3> QED
      BY <2>1, <2>8, <2>5, <3>1 DEF RelaysGoOn, relay, s
  <2>10. ProbeGoesOn(n, o)
    BY <2>1, <2>2, <2>3 DEF ProbeGoesOn, s
  <2>11. Cheerful(n, o)
    BY <2>1, <2>2, <2>3 DEF Cheerful, Bright, Ready, s
  <2>12. Answers(n, m, o)
    BY <2>1, <2>3, <2>6 DEF Answers
  <2> QED
    BY <1>1, <2>1, <2>2, <2>3, <2>9, <2>10, <2>11, <2>12 DEF Handover, o, s
<1> QED
  BY <1>2, <1>3

\* A session to a peer held alive tells nothing new.
LEMMA SessionUpHandover ==
    ASSUME NEW n \in Node, Ready(n), NEW p \in Node, SessionUp(n, p)
    PROVE  \E o : Handover(n, {}, o) /\ Commit(n, {}, o)
<1> DEFINE o == [st |-> node[n], out |-> {}]
<1>1. Commit(n, {}, o)
  BY DEF SessionUp, Ready, Bright
<1>2. RelaysGoOn(n, {}, o) /\ ProbeGoesOn(n, o) /\ node[n].nonce <= o.st.nonce
  BY QuietHandover DEF SameExchanges
<1>3. Handover(n, {}, o)
  BY <1>2 DEF Handover, Cheerful, Ready
<1> HIDE DEF o
<1> QED
  BY <1>1, <1>3

\* The hypotheses: no crash, timeouts longer than the delays, and no more losses
\* than a probe has helpers or a node relays.
FewLosses ==
    /\ OneLife /\ Prompt /\ MaxCrash = 0
    /\ IsFiniteSet(Node) /\ MaxLoss + 2 <= Cardinality(Node)
    /\ MaxLoss <= Fanout /\ MaxLoss <= RelayCap

\* Who can be asked to help: everybody but the prober and its target.
LEMMA HelpersThere ==
    ASSUME FewLosses,
           NEW n \in Node, NEW s, NodeOK(n, s), Bright(n, s), s.probe # None, NEW R \in Helpers(s)
    PROVE  R \subseteq Node \ {n, s.probe.target} /\ MaxLoss <= Cardinality(R)
<1> DEFINE t == s.probe.target
           others == NotDead(s) \ {t}
<1>1. Absent.state = "absent"
  BY DEF Absent
<1>2. others = (Node \ {n}) \ {t}
  BY <1>1 DEF NotDead, Held, Bright, NodeOK
<1>3. /\ R \subseteq others
      /\ Cardinality(R) = IF Cardinality(others) < Fanout THEN Cardinality(others) ELSE Fanout
  BY DEF Helpers
<1> HIDE DEF others
<1>4. Cardinality(others) \in Nat /\ Cardinality(others) >= Cardinality(Node) - 2
  <2>1. /\ IsFiniteSet(Node) /\ Cardinality(Node) \in Nat
        /\ IsFiniteSet(Node \ {n}) /\ Cardinality(Node \ {n}) = Cardinality(Node) - 1
    BY FS_CardinalityType, FS_RemoveElement DEF FewLosses
  <2> DEFINE Rest == Node \ {n}
  <2>2. others = Rest \ {t} /\ IsFiniteSet(Rest)
    BY <1>2, <2>1
  <2>3. Cardinality(Rest) = Cardinality(Node) - 1
    BY <2>1
  <2> HIDE DEF Rest, t
  <2>4. IsFiniteSet(Rest \ {t})
        /\ Cardinality(Rest \ {t}) = IF t \in Rest THEN Cardinality(Rest) - 1 ELSE Cardinality(Rest)
    BY <2>2, FS_RemoveElement
  <2>5. IsFiniteSet(others) /\ Cardinality(others) \in Nat
    BY <2>2, <2>4, FS_CardinalityType
  <2> QED
    BY <2>1, <2>2, <2>3, <2>4, <2>5
<1>5. MaxLoss \in Nat /\ Fanout \in Nat /\ MaxLoss <= Fanout /\ MaxLoss + 2 <= Cardinality(Node)
  BY SwimConstants DEF FewLosses
<1>6. Cardinality(Node) \in Nat
  BY FS_CardinalityType DEF FewLosses
<1> QED
  BY <1>2, <1>3, <1>4, <1>5, <1>6

\* The timer of the probe, which an indirect probe with something in transit
\* does not see.
LEMMA ProbeStepHandover ==
    ASSUME FewLosses, NEW n \in Node, Ready(n), ProbeDue(n),
           (node[n].probe # None /\ node[n].probe.phase = "indirect")
           => InTransit(n, node[n].probe.nonce),
           NEW o \in ProbeStep(n, node[n])
    PROVE  Handover(n, {}, o) /\ o.st.relays = node[n].relays
<1> DEFINE s == node[n]
<1>1. /\ NodeOK(n, s) /\ Bright(n, s) /\ s \in State /\ s.nonce \in Nat
      /\ s.probe # None => s.probe \in Probe /\ ~InTransit(n, s.probe.nonce)
  BY DEF Ready, NodeOK, State, ProbeDue, FewLosses
<1>2. CASE s.probe = None
  <2>1. PICK t \in Held(s) : o = StartProbe(n, s, t)
    BY <1>2 DEF ProbeStep
  <2> DEFINE u == StartProbe(n, s, t).st
             ping == Ping(n, t, s.nonce, Piggyback(s), n)
  <2>2. o = [st |-> u, out |-> {ping}]
    BY <2>1 DEF StartProbe
  <2>3. /\ u.probe = [target |-> t, nonce |-> s.nonce, phase |-> "direct"]
        /\ u.nonce = s.nonce + 1
        /\ u.relays = s.relays /\ u.up = s.up /\ u.table = s.table /\ u.ring = s.ring
    BY <1>1 DEF StartProbe, State, Following, FewLosses, OneLife
  <2>4. /\ ping.type = "ping" /\ ping.from = n /\ ping.to = t /\ ping.nonce = s.nonce
        /\ AllAlive(ping.events)
    BY <1>1, PiggybackBright DEF Ping
  <2>5. t \in Node
    BY <2>1 DEF Held
  <2> HIDE DEF u, ping
  <2>6. RelaysGoOn(n, {}, o) /\ ProbeGoesOn(n, o)
    BY <2>2, <2>3, <2>4 DEF RelaysGoOn, ProbeGoesOn, HasRelay, Distinct, Ready
  <2>7. Cheerful(n, o)
    BY <1>1, <2>2, <2>3, <2>4 DEF Cheerful, Bright
  <2> QED
    BY <1>1, <2>2, <2>3, <2>4, <2>5, <2>6, <2>7 DEF Handover
<1>3. CASE s.probe # None /\ s.probe.phase = "direct"
  <2>1. PICK R \in Helpers(s) : o = Escalate(n, s, R)
    BY <1>3 DEF ProbeStep
  <2> DEFINE u == Escalate(n, s, R).st
             out == {PingReq(n, r, s.probe.nonce, s.probe.target) : r \in R}
  <2>2. o = [st |-> u, out |-> out]
    BY <2>1 DEF Escalate
  <2>3. /\ u.probe = [s.probe EXCEPT !.phase = "indirect"] /\ u.nonce = s.nonce
        /\ u.relays = s.relays /\ u.up = s.up /\ u.table = s.table /\ u.ring = s.ring
    BY <1>1, <1>3 DEF Escalate, State
  <2>4. R \subseteq Node \ {n, s.probe.target} /\ MaxLoss <= Cardinality(R)
    BY <1>1, <1>3, HelpersThere
  <2>5. \A x \in out : x.type = "ping_req" /\ x.to \in R /\ AllAlive(x.events)
    BY DEF PingReq, AllAlive
  <2> HIDE DEF u
  <2>6. ProbeGoesOn(n, o)
    BY <1>1, <1>3, <2>2, <2>3, <2>4 DEF ProbeGoesOn
  <2> HIDE DEF out
  <2>7. RelaysGoOn(n, {}, o)
    BY <2>2, <2>3 DEF RelaysGoOn, HasRelay, Distinct, Ready
  <2>8. Cheerful(n, o)
    BY <1>1, <2>2, <2>3, <2>5 DEF Cheerful, Bright
  <2> QED
    BY <1>1, <2>2, <2>3, <2>4, <2>5, <2>6, <2>7, <2>8 DEF Handover
<1>4. CASE s.probe # None /\ s.probe.phase # "direct"
  BY <1>1, <1>4 DEF Probe
<1> QED
  BY <1>2, <1>3, <1>4

\* Distinct relays stay distinct.
LEMMA DropRelayDistinct ==
    ASSUME NEW q \in Seq(Relay), NEW k \in DOMAIN q,
           \A i, j \in DOMAIN q : q[i].nonce = q[j].nonce => i = j
    PROVE  \A i, j \in DOMAIN DropRelay(q, k) :
              DropRelay(q, k)[i].nonce = DropRelay(q, k)[j].nonce => i = j
<1> DEFINE at(j) == IF j = k THEN Len(q) ELSE j
<1>1. Len(q) \in Nat /\ DOMAIN q = 1 .. Len(q)
  BY LenProperties
<1>2. DropRelay(q, k) = [j \in 1 .. Len(q) - 1 |-> q[at(j)]]
  <2>1. \A j : q[at(j)] = IF j = k THEN q[Len(q)] ELSE q[j]
    OBVIOUS
  <2> HIDE DEF at
  <2> QED
    BY <1>1, <2>1 DEF DropRelay
<1>3. \A j \in 1 .. Len(q) - 1 : at(j) \in DOMAIN q
  BY <1>1
<1>4. \A i, j \in 1 .. Len(q) - 1 : at(i) = at(j) => i = j
  BY <1>1
<1> HIDE DEF at
<1> QED
  BY <1>2, <1>3, <1>4

\* No relay expires whose messages can still arrive.
LEMMA ExpiredRelayHandover ==
    ASSUME Prompt, NEW n \in Node, Ready(n), NEW o, NodeOK(n, o.st),
           o = [st |-> o.st, out |-> o.out], Handover(n, {}, o), o.st.relays = node[n].relays,
           NEW k \in {0} \cup RelaysDue(n)
    PROVE  Handover(n, {}, [o EXCEPT !.st.relays = DropRelay(@, k)])
<1> DEFINE q == node[n].relays
           r == DropRelay(q, k)
           u == [o.st EXCEPT !.relays = r]
           z == [o EXCEPT !.st.relays = DropRelay(@, k)]
<1>1. /\ z = [st |-> u, out |-> o.out]
      /\ u.relays = r /\ u.probe = o.st.probe /\ u.up = o.st.up
      /\ u.table = o.st.table /\ u.ring = o.st.ring /\ u.nonce = o.st.nonce
  <2> DEFINE t == o.st
  <2>1. z = [st |-> [t EXCEPT !.relays = r], out |-> o.out]
    <3> HIDE DEF r
    <3>1. DropRelay(o.st.relays, k) = r
      BY DEF r
    <3> QED
      BY <3>1
  <2>2. t \in State
    BY DEF NodeOK
  <2> HIDE DEF t, r
  <2>3. LET v == [t EXCEPT !.relays = r]
        IN  /\ v.relays = r /\ v.probe = t.probe /\ v.up = t.up
            /\ v.table = t.table /\ v.ring = t.ring /\ v.nonce = t.nonce
    BY <2>2 DEF State
  <2> QED
    BY <2>1, <2>3 DEF t
<1>2. q \in Seq(Relay) /\ k \in Nat
  <2>1. q \in Seq(Relay)
    BY DEF Ready, NodeOK, State
  <2>2. DOMAIN q = 1 .. Len(q) /\ Len(q) \in Nat
    BY <2>1, LenProperties
  <2> QED
    BY <2>1, <2>2 DEF RelaysDue
<1>3. \A j \in DOMAIN r : \E i \in DOMAIN q : r[j] = q[i]
  BY <1>2, DropRelayOK
<1>4. ASSUME NEW i \in DOMAIN q, InTransit(q[i].requester, q[i].nonce)
      PROVE  HasRelay(u, q[i].nonce)
  <2>2. CASE k = 0
    BY <1>1, <2>2 DEF HasRelay, DropRelay
  <2>3. CASE k # 0
    <3>1. k \in DOMAIN q /\ i # k
      BY <1>4, <2>3 DEF RelaysDue
    <3>2. PICK j \in DOMAIN r : r[j] = q[i]
      BY <1>2, <3>1, DropRelayKeeps
    <3> QED
      BY <1>1, <3>2 DEF HasRelay
  <2> QED
    BY <2>2, <2>3
<1>5. Distinct(u)
  <2>1. CASE k = 0
    BY <1>1, <2>1 DEF Distinct, DropRelay, Ready
  <2>2. CASE k # 0
    <3>1. k \in DOMAIN q
      BY <2>2 DEF RelaysDue
    <3>2. \A i, j \in DOMAIN q : q[i].nonce = q[j].nonce => i = j
      BY DEF Distinct, Ready
    <3> QED
      BY <1>1, <1>2, <3>1, <3>2, DropRelayDistinct DEF Distinct
  <2> QED
    BY <2>1, <2>2
<1> HIDE DEF u, z, r, q
<1>6. RelaysGoOn(n, {}, z)
  BY <1>1, <1>3, <1>4, <1>5 DEF RelaysGoOn, q
<1>7. ProbeGoesOn(n, z)
  BY <1>1 DEF Handover, ProbeGoesOn
<1>8. Cheerful(n, z)
  BY <1>1 DEF Handover, Cheerful, Bright
<1> QED
  BY <1>1, <1>6, <1>7, <1>8 DEF Handover, z

LEMMA TickHandover ==
    ASSUME FewLosses, NEW n \in Node, Ready(n),
           (node[n].probe # None /\ node[n].probe.phase = "indirect")
           => InTransit(n, node[n].probe.nonce),
           Tick(n)
    PROVE  \E o : Handover(n, {}, o) /\ Commit(n, {}, o)
<1>1. PICK o \in {[st |-> node[n], out |-> {}]} \cup (IF ProbeDue(n) THEN ProbeStep(n, node[n]) ELSE {}),
           p \in {None} \cup Suspects(n), k \in {0} \cup RelaysDue(n) : FinishTick(n, o, p, k)
  BY DEF Tick
<1>2. NodeOK(n, node[n])
  BY DEF Ready
<1>3. p = None
  BY <1>1, <1>2 DEF Suspects, Ready, Bright, NodeOK, Absent
<1>4. Handover(n, {}, o) /\ o.st.relays = node[n].relays /\ Outcome(n, node[n], o, {})
  <2>1. CASE o = [st |-> node[n], out |-> {}]
    <3>1. RelaysGoOn(n, {}, o) /\ ProbeGoesOn(n, o) /\ node[n].nonce <= o.st.nonce
      BY <2>1, QuietHandover DEF SameExchanges
    <3>2. Outcome(n, node[n], o, {})
      BY <1>2, <2>1, ServesNothing DEF Outcome
    <3> QED
      BY <2>1, <3>1, <3>2 DEF Handover, Cheerful, Ready
  <2>2. CASE ProbeDue(n) /\ o \in ProbeStep(n, node[n])
    BY <1>2, <2>2, ProbeStepHandover, ProbeStepOK
  <2> QED
    BY <1>1, <2>1, <2>2
<1>5. Commit(n, {}, [o EXCEPT !.st.relays = DropRelay(@, k)])
  BY <1>1, <1>3 DEF FinishTick
<1>6. NodeOK(n, o.st) /\ o = [st |-> o.st, out |-> o.out]
  BY <1>4 DEF Outcome, Serves
<1>7. Handover(n, {}, [o EXCEPT !.st.relays = DropRelay(@, k)])
  BY <1>2, <1>4, <1>6, ExpiredRelayHandover DEF FewLosses
<1> WITNESS [o EXCEPT !.st.relays = DropRelay(@, k)]
<1> QED
  BY <1>5, <1>7
-----------------------------------------------------------------------------
\* The message m carries the direct probe of a: the PING or its ACK.
Carries(m, a) ==
    /\ m.nonce = node[a].probe.nonce
    /\ \/ m.type = "ping" /\ m.from = a /\ m.to = node[a].probe.target
       \/ m.type = "ack" /\ m.from = node[a].probe.target /\ m.to = a

Carried(a) == \E m \in msgs : Carries(m, a)

Probing(a) == node[a].probe # None

Indirect(a) == Probing(a) /\ node[a].probe.phase = "indirect"

\* What serves an outstanding probe with its nonce serves the node whose probe
\* it is.
Undivided ==
    \A a \in Node : Probing(a) =>
       /\ \A b \in Node : (Probing(b) /\ node[b].probe.nonce = node[a].probe.nonce) => b = a
       /\ \A m \in msgs : (m.type # "gossip" /\ m.nonce = node[a].probe.nonce) => m.for = a
       /\ \A r \in Node : \A k \in DOMAIN node[r].relays :
             node[r].relays[k].nonce = node[a].probe.nonce => node[r].relays[k].requester = a

LEMMA NoClash == ~NoncesClash => Undivided
<1> SUFFICES ASSUME ~NoncesClash, NEW a \in Node, Probing(a)
             PROVE  /\ \A b \in Node : (Probing(b) /\ node[b].probe.nonce = node[a].probe.nonce) => b = a
                    /\ \A m \in msgs : (m.type # "gossip" /\ m.nonce = node[a].probe.nonce) => m.for = a
                    /\ \A r \in Node : \A k \in DOMAIN node[r].relays :
                          node[r].relays[k].nonce = node[a].probe.nonce
                          => node[r].relays[k].requester = a
  BY DEF Undivided
<1> DEFINE c == node[a].probe.nonce
<1>1. ASSUME NEW b, <<b, c>> \in UnderWay PROVE b = a
  <2>1. <<a, c>> \in UnderWay
    BY DEF UnderWay, Probing
  <2>2. ASSUME NEW x \in UnderWay, NEW y \in UnderWay, x[2] = y[2] PROVE x[1] = y[1]
    BY <2>2 DEF NoncesClash
  <2> HIDE DEF c
  <2> QED
    BY <1>1, <2>1, <2>2
<1>2. ASSUME NEW b \in Node, Probing(b), node[b].probe.nonce = c PROVE b = a
  BY <1>1, <1>2 DEF UnderWay, Probing
<1>3. ASSUME NEW m \in msgs, m.type # "gossip", m.nonce = c PROVE m.for = a
  BY <1>1, <1>3 DEF UnderWay
<1>4. ASSUME NEW r \in Node, NEW k \in DOMAIN node[r].relays, node[r].relays[k].nonce = c
      PROVE  node[r].relays[k].requester = a
  <2> DEFINE e == node[r].relays[k]
             Relayed(q) == {<<node[q].relays[j].requester, node[q].relays[j].nonce>> :
                               j \in DOMAIN node[q].relays}
  <2>1. <<e.requester, e.nonce>> \in Relayed(r)
    OBVIOUS
  <2>2. Relayed(r) \subseteq UnderWay
    BY DEF UnderWay
  <2>3. e.nonce = c
    BY <1>4
  <2> HIDE DEF e, c, Relayed
  <2>4. e.requester = a
    BY <1>1, <2>1, <2>2, <2>3
  <2> QED
    BY <2>4 DEF e
<1> QED
  BY <1>2, <1>3, <1>4

\* The helper r of a has the PING_REQ in front of it, relays the PING or its
\* ACK, or has answered.
IsAsked(a, r) ==
    \E m \in msgs : /\ m.type = "ping_req" /\ m.from = a /\ m.to = r
                    /\ m.nonce = node[a].probe.nonce /\ m.target = node[a].probe.target

IsRelaying(a, r) ==
    /\ HasRelay(node[r], node[a].probe.nonce)
    /\ \E m \in msgs :
          /\ m.nonce = node[a].probe.nonce
          /\ \/ m.type = "ping" /\ m.from = r /\ m.to = node[a].probe.target
             \/ m.type = "ack" /\ m.from = node[a].probe.target /\ m.to = r

HasAnswered(a, r) ==
    \E m \in msgs : m.type = "ack" /\ m.from = r /\ m.to = a /\ m.nonce = node[a].probe.nonce

HelpedBy(a, r) == IsAsked(a, r) \/ IsRelaying(a, r) \/ HasAnswered(a, r)

\* The exchange of the nonce c lost a message: its helpers were asked, or
\* nothing carries its probe.
Troubled(c) ==
    \/ \E m \in msgs : m.type = "ping_req" /\ m.nonce = c
    \/ \E r \in Node : HasRelay(node[r], c)
    \/ \E a \in Node : /\ Probing(a) /\ node[a].probe.nonce = c
                       /\ Indirect(a) \/ ~Carried(a)

\* Nobody suspects anybody, or tells of it.
AllCalm ==
    /\ \A n \in Node : node[n].up /\ Bright(n, node[n])
    /\ \A m \in msgs : AllAlive(m.events)

\* PING_REQs and relays have nonces of who asked.
RequestsOwned ==
    /\ \A m \in msgs : m.type = "ping_req" => m.for = m.from /\ Issued(m.from, m.nonce)
    /\ \A n \in Node : \A k \in DOMAIN node[n].relays :
          Issued(node[n].relays[k].requester, node[n].relays[k].nonce)

\* A helper is asked once for a probe, and only when its direct phase is over.
RequestsOnce ==
    /\ \A n \in Node : Distinct(node[n])
    /\ \A m \in msgs : m.type = "ping_req" => ~HasRelay(node[m.to], m.nonce)
    /\ \A m, d \in msgs : (/\ m.type = "ping_req" /\ d.type = "ping_req"
                           /\ m.to = d.to /\ m.nonce = d.nonce) => m = d
    /\ \A a \in Node : (Probing(a) /\ ~Indirect(a)) =>
          /\ \A m \in msgs : m.type = "ping_req" => m.nonce # node[a].probe.nonce
          /\ \A r \in Node : ~HasRelay(node[r], node[a].probe.nonce)

\* L accounts for the losses: one for each exchange in trouble, and one more for
\* each helper of a probe that does not help it any more.
Accounted(L) ==
    /\ IsFiniteSet(L) /\ Cardinality(L) <= spent.loss
    /\ \A c : Troubled(c) => <<c, None>> \in L
    /\ \A a \in Node : Indirect(a) =>
          \E H \in SUBSET (Node \ {a, node[a].probe.target}) :
             /\ MaxLoss <= Cardinality(H)
             /\ \A r \in H : HelpedBy(a, r) \/ <<node[a].probe.nonce, r>> \in L

LInv ==
    /\ AllCalm
    /\ RequestsOwned
    /\ RequestsOnce
    /\ spent.loss <= MaxLoss
    /\ \E L : Accounted(L)

LEMMA InitLInv == Init => IInv /\ NInv /\ LInv
<1> SUFFICES ASSUME Init PROVE LInv
  BY InitIInv, InitNInv
<1>1. msgs = {} /\ spent.loss = 0
  BY DEF Init
<1>2. ASSUME NEW n \in Node
      PROVE  /\ node[n].up /\ node[n].ring = <<>> /\ node[n].relays = <<>> /\ node[n].probe = None
             /\ \A p \in Node \ {n} : node[n].table[p].state = "alive"
  BY DEF Init, Fresh
<1>3. AllCalm
  BY <1>1, <1>2 DEF AllCalm, Bright, AllAlive
<1>4. RequestsOwned /\ RequestsOnce
  BY <1>1, <1>2 DEF RequestsOwned, RequestsOnce, Distinct, Probing
<1>5. Accounted({})
  <2>1. \A c : ~Troubled(c)
    BY <1>1, <1>2 DEF Troubled, HasRelay, Probing
  <2>2. \A a \in Node : ~Indirect(a)
    BY <1>2 DEF Indirect, Probing
  <2>3. IsFiniteSet({}) /\ Cardinality({}) = 0
    BY FS_EmptySet
  <2> QED
    BY <1>1, <2>1, <2>2, <2>3 DEF Accounted
<1>6. spent.loss <= MaxLoss
  BY <1>1, SwimConstants
<1> QED
  BY <1>3, <1>4, <1>5, <1>6 DEF LInv

\* Every message can arrive when everybody is up.
LEMMA AllInTransit ==
    ASSUME IInv, AllCalm, NEW m \in msgs, m.type # "gossip"
    PROVE  InTransit(m.for, m.nonce)
BY DEF IInv, MsgOK, AllCalm, InTransit

\* What is counted by all but one of the losses.
LEMMA CountedBy ==
    ASSUME NEW L, IsFiniteSet(L), NEW b \in L, NEW S, NEW f \in Injection(S, L \ {b})
    PROVE  /\ IsFiniteSet(S) /\ Cardinality(S) \in Nat /\ Cardinality(L) \in Nat
           /\ Cardinality(S) + 1 <= Cardinality(L)
<1>1. /\ IsFiniteSet(L \ {b}) /\ Cardinality(L \ {b}) = Cardinality(L) - 1
      /\ Cardinality(L) \in Nat
  BY FS_RemoveElement, FS_CardinalityType
<1>2. IsFiniteSet(S) /\ Cardinality(S) <= Cardinality(L \ {b})
  BY <1>1, FS_Injection
<1>3. Cardinality(S) \in Nat
  BY <1>2, FS_CardinalityType
<1> QED
  BY <1>1, <1>2, <1>3

LEMMA LossesBounded ==
    ASSUME NInv, LInv, NEW L, Accounted(L)
    PROVE  /\ IsFiniteSet(L) /\ Cardinality(L) \in Nat /\ MaxLoss \in Nat
           /\ Cardinality(L) <= MaxLoss
<1>1. spent.loss \in Nat /\ MaxLoss \in Nat
  BY SwimConstants DEF NInv
<1>2. IsFiniteSet(L) /\ Cardinality(L) \in Nat
  BY FS_CardinalityType DEF Accounted
<1> QED
  BY <1>1, <1>2 DEF Accounted, LInv

\* Not all helpers of a probe can have failed: something of it is in transit.
LEMMA HelpedInTransit ==
    ASSUME IInv, NInv, LInv, Undivided, NEW a \in Node, Indirect(a)
    PROVE  InTransit(a, node[a].probe.nonce)
<1> DEFINE c == node[a].probe.nonce
<1>1. PICK L : Accounted(L)
  BY DEF LInv
<1>2. PICK H \in SUBSET (Node \ {a, node[a].probe.target}) :
         /\ MaxLoss <= Cardinality(H)
         /\ \A r \in H : HelpedBy(a, r) \/ <<c, r>> \in L
  BY <1>1 DEF Accounted
<1>3. CASE \E r \in H : HelpedBy(a, r)
  <2>1. AllCalm
    BY DEF LInv
  <2>2. PICK m \in msgs : m.type # "gossip" /\ m.nonce = c
    BY <1>3 DEF HelpedBy, IsAsked, IsRelaying, HasAnswered
  <2>3. m.for = a
    BY <2>2 DEF Undivided, Indirect
  <2> QED
    BY <2>1, <2>2, <2>3, AllInTransit
<1>4. CASE \A r \in H : ~HelpedBy(a, r)
  <2> DEFINE f == [r \in H |-> <<c, r>>]
             b == <<c, None>>
  <2>1. Troubled(c)
    BY DEF Troubled, Indirect
  <2>2. b \in L
    BY <1>1, <2>1 DEF Accounted
  <2>3. \A r \in H : r # None
    BY SwimConstants
  <2>4. \A r \in H : <<c, r>> \in L \ {b}
    BY <1>2, <1>4, <2>3
  <2>5. f \in Injection(H, L \ {b})
    <3> HIDE DEF b, c
    <3>1. f \in [H -> L \ {b}]
      BY <2>4
    <3>2. \A r, q \in H : f[r] = f[q] => r = q
      OBVIOUS
    <3> QED
      BY <3>1, <3>2 DEF Injection, IsInjective
  <2>6. /\ IsFiniteSet(L) /\ Cardinality(L) \in Nat /\ MaxLoss \in Nat
        /\ Cardinality(L) <= MaxLoss
    BY <1>1, LossesBounded
  <2> HIDE DEF f, b
  <2>7. Cardinality(H) \in Nat /\ Cardinality(H) + 1 <= Cardinality(L)
    BY <2>2, <2>5, <2>6, CountedBy
  <2> QED
    BY <1>2, <2>6, <2>7
<1> QED
  BY <1>3, <1>4

\* Each relay of a node is of an exchange in trouble, so none has to be evicted.
LEMMA RelayFits ==
    ASSUME FewLosses, IInv, NInv, LInv, NEW m \in msgs, m.type = "ping_req"
    PROVE  Len(node[m.to].relays) < RelayCap
<1> DEFINE q == node[m.to].relays
           b == <<m.nonce, None>>
           f == [k \in 1 .. Len(q) |-> <<q[k].nonce, None>>]
<1>1. PICK L : Accounted(L)
  BY DEF LInv
<1>2. m.to \in Node /\ q \in Seq(Relay)
  BY DEF IInv, MsgOK, State
<1>3. Len(q) \in Nat /\ DOMAIN q = 1 .. Len(q)
  BY <1>2, LenProperties
<1>4. Troubled(m.nonce) /\ \A k \in DOMAIN q : Troubled(q[k].nonce)
  BY <1>2 DEF Troubled, HasRelay
<1>5. b \in L /\ \A k \in 1 .. Len(q) : <<q[k].nonce, None>> \in L
  BY <1>1, <1>3, <1>4 DEF Accounted
<1>6. /\ \A k \in 1 .. Len(q) : q[k].nonce # m.nonce
      /\ \A j, k \in 1 .. Len(q) : q[j].nonce = q[k].nonce => j = k
  BY <1>2, <1>3 DEF LInv, RequestsOnce, HasRelay, Distinct
<1> HIDE DEF q
<1>7. f \in Injection(1 .. Len(q), L \ {b})
  <2>1. \A k \in 1 .. Len(q) : <<q[k].nonce, None>> \in L \ {b}
    BY <1>5, <1>6
  <2> HIDE DEF b
  <2>2. f \in [1 .. Len(q) -> L \ {b}]
    BY <2>1
  <2>3. \A j, k \in 1 .. Len(q) : f[j] = f[k] => j = k
    BY <1>6
  <2> QED
    BY <2>2, <2>3 DEF Injection, IsInjective
<1>8. /\ IsFiniteSet(L) /\ Cardinality(L) \in Nat /\ MaxLoss \in Nat
      /\ Cardinality(L) <= MaxLoss
  BY <1>1, LossesBounded
<1>9. Cardinality(1 .. Len(q)) = Len(q)
  <2>1. 1 \in Int /\ Len(q) \in Int
    BY <1>3
  <2>2. Cardinality(1 .. Len(q)) = IF 1 > Len(q) THEN 0 ELSE Len(q) - 1 + 1
    BY <2>1, FS_Interval
  <2> QED
    BY <1>3, <2>2
<1> HIDE DEF f, b
<1>10. Cardinality(1 .. Len(q)) + 1 <= Cardinality(L)
  BY <1>5, <1>7, <1>8, CountedBy DEF b
<1>11. MaxLoss <= RelayCap /\ RelayCap \in Nat
  BY SwimConstants DEF FewLosses
<1> QED
  BY <1>3, <1>8, <1>9, <1>10, <1>11 DEF q

LEMMA EverybodyReady ==
    ASSUME IInv, LInv, NEW n \in Node
    PROVE  Ready(n)
BY DEF IInv, LInv, AllCalm, RequestsOnce, Ready

LEMMA ReceiveHandover ==
    ASSUME FewLosses, IInv, NInv, LInv, NEW m \in msgs,
           ReceivePing(m) \/ ReceiveAck(m) \/ ReceivePingReq(m) \/ ReceiveGossip(m)
    PROVE  \E o : Handover(m.to, {m}, o) /\ Commit(m.to, {m}, o)
<1>1. MsgOK(m) /\ m.to \in Node /\ AllAlive(m.events)
  BY DEF IInv, MsgOK, LInv, AllCalm
<1>2. Ready(m.to)
  BY <1>1, EverybodyReady
<1>3. CASE ReceivePing(m)
  BY <1>1, <1>2, <1>3, OnPingHandover DEF ReceivePing, Receive
<1>4. CASE ReceiveAck(m)
  BY <1>1, <1>2, <1>4, OnAckHandover DEF ReceiveAck, Receive
<1>5. CASE ReceivePingReq(m)
  <2>1. m.type = "ping_req" /\ Commit(m.to, {m}, OnPingReq(m.to, m))
    BY <1>5 DEF ReceivePingReq, Receive
  <2>2. Len(node[m.to].relays) < RelayCap /\ ~HasRelay(node[m.to], m.nonce)
    BY <2>1, RelayFits DEF LInv, RequestsOnce
  <2> QED
    BY <1>1, <1>2, <2>1, <2>2, OnPingReqHandover
<1>6. CASE ReceiveGossip(m)
  BY <1>1, <1>2, <1>6, OnGossipHandover DEF ReceiveGossip, Receive
<1> QED
  BY <1>3, <1>4, <1>5, <1>6

\* The step of n that takes the messages K to the outcome o.
HandsOver(n, K, o) ==
    /\ K \subseteq msgs /\ \A d \in K : d.to = n
    /\ Handover(n, K, o)
    /\ node'[n] = o.st /\ \A r \in Node : r # n => node'[r] = node[r]
    /\ o.out \subseteq msgs' /\ msgs \ K \subseteq msgs' /\ msgs' \subseteq (msgs \ K) \cup o.out
    /\ spent' = spent

LEMMA CommitHandsOver ==
    ASSUME IInv, AllCalm, NEW n \in Node, NEW K, K \subseteq msgs, \A d \in K : d.to = n,
           NEW o, Handover(n, K, o), Commit(n, K, o)
    PROVE  HandsOver(n, K, o)
<1>1. o.out \subseteq msgs'
  BY DEF Commit, Handover, AllCalm
<1> QED
  BY <1>1 DEF HandsOver, Commit, IInv

\* What nothing in transit can end, nothing carries.
LEMMA NotCarried ==
    ASSUME IInv, AllCalm, Undivided, NEW a \in Node, Probing(a), ~InTransit(a, node[a].probe.nonce)
    PROVE  /\ ~Carried(a)
           /\ \A m \in msgs : m.type = "ping_req" => m.nonce # node[a].probe.nonce
<1>1. ASSUME NEW m \in msgs, m.type # "gossip", m.nonce = node[a].probe.nonce PROVE FALSE
  <2>1. m.for = a
    BY <1>1 DEF Undivided
  <2> QED
    BY <1>1, <2>1, AllInTransit
<1> QED
  BY <1>1 DEF Carried, Carries

\* The direct probe of n, which nothing carries, is passed to helpers.
Escalated(n, o) ==
    LET c == node[n].probe.nonce
        t == node[n].probe.target
    IN  /\ Probing(n) /\ ~Indirect(n) /\ ~Carried(n)
        /\ \A m \in msgs : m.type = "ping_req" => m.nonce # c
        /\ node'[n].probe # None /\ node'[n].probe.phase = "indirect"
        /\ node'[n].probe.nonce = c /\ node'[n].probe.target = t
        /\ \A x \in o.out : /\ x = PingReq(n, x.to, c, t) /\ x.type = "ping_req"
                            /\ x.from = n /\ x.nonce = c
        /\ \E R \in SUBSET (Node \ {n, t}) :
              /\ MaxLoss <= Cardinality(R)
              /\ \A r \in R : \E x \in o.out : /\ x.type = "ping_req" /\ x.from = n /\ x.to = r
                                               /\ x.nonce = c /\ x.target = t

\* What the step makes of the probe of n.
LEMMA ProbeAfter ==
    ASSUME IInv, AllCalm, Undivided, NEW n \in Node, NEW K, NEW o, HandsOver(n, K, o)
    PROVE  \/ /\ node'[n].probe \in {node[n].probe, None}
              /\ \A x \in o.out : x.type # "ping_req"
           \/ /\ node'[n].probe.phase = "direct" /\ node'[n].probe.nonce = node[n].nonce
              /\ Carried(n)'
              /\ \A x \in o.out : x.type # "ping_req"
           \/ Escalated(n, o)
<1> DEFINE c == node[n].probe.nonce
           t == node[n].probe.target
<1>1. node'[n] = o.st /\ ProbeGoesOn(n, o) /\ \A x \in o.out : x \in msgs'
  BY DEF HandsOver, Handover
<1>2. CASE \E x \in o.out : /\ x.type = "ping" /\ x.from = n /\ x.to = o.st.probe.target
                            /\ x.nonce = o.st.probe.nonce
  <2>1. Carried(n)'
    BY <1>1, <1>2 DEF Carried, Carries
  <2> QED
    BY <1>1, <1>2, <2>1 DEF ProbeGoesOn, PingReq
<1>3. ASSUME node[n].probe # None, node[n].probe.phase = "direct", ~InTransit(n, c),
             o.st.probe = [node[n].probe EXCEPT !.phase = "indirect"],
             NEW R \in SUBSET (Node \ {n, t}), MaxLoss <= Cardinality(R),
             o.out = {PingReq(n, r, c, t) : r \in R}
      PROVE  Escalated(n, o)
  <2>1. /\ o.st.probe \in Probe /\ o.st.probe.phase = "indirect"
        /\ o.st.probe.nonce = c /\ o.st.probe.target = t
    <3>1. node[n].probe \in Probe
      BY <1>3 DEF IInv, State
    <3> QED
      BY <1>3, <3>1 DEF Probe
  <2>2. o.st.probe # None
    BY <2>1, NoneIsNoProbe
  <2>3. ~Carried(n) /\ \A m \in msgs : m.type = "ping_req" => m.nonce # c
    BY <1>3, NotCarried DEF Probing
  <2>5. \A r \in R : LET x == PingReq(n, r, c, t) IN
           x.type = "ping_req" /\ x.from = n /\ x.to = r /\ x.nonce = c /\ x.target = t
    BY DEF PingReq
  <2> HIDE DEF c, t
  <2>6. \A x \in o.out : /\ x = PingReq(n, x.to, c, t) /\ x.type = "ping_req"
                         /\ x.from = n /\ x.nonce = c
    BY <1>3, <2>5
  <2>7. \A r \in R : \E x \in o.out : /\ x.type = "ping_req" /\ x.from = n /\ x.to = r
                                      /\ x.nonce = c /\ x.target = t
    BY <1>3, <2>5
  <2> QED
    BY <1>1, <1>3, <2>1, <2>2, <2>3, <2>6, <2>7 DEF Escalated, Probing, Indirect, c, t
<1> QED
  BY <1>1, <1>2, <1>3 DEF ProbeGoesOn

\* What nothing carries after the step, nothing carried before.
LEMMA CarriedKeeps ==
    ASSUME IInv, AllCalm, Undivided, NEW n \in Node, NEW K, NEW o, HandsOver(n, K, o),
           NEW a \in Node, Probing(a)', ~Carried(a)'
    PROVE  Troubled(node'[a].probe.nonce)
<1>1. \A m \in msgs : MsgOK(m)
  BY DEF IInv
<1>2. ASSUME Probing(a), node'[a].probe = node[a].probe,
             \A d \in K : d.type = "ack" => ~(a = n /\ d.nonce = node[a].probe.nonce)
      PROVE  ~Carried(a)
  <2>1. SUFFICES ASSUME NEW m \in msgs, Carries(m, a) PROVE FALSE
    BY DEF Carried
  <2>2. m \in K
    BY <1>2, <2>1 DEF HandsOver, Carried, Carries
  <2>3. m.to = n /\ m.type = "ping" /\ m.from = a /\ n = node[a].probe.target
        /\ m.nonce = node[a].probe.nonce
    BY <1>2, <2>1, <2>2 DEF HandsOver, Carries
  <2>4. Answers(n, m, o) /\ \A x \in o.out : x \in msgs'
    BY <2>2 DEF HandsOver, Handover
  <2>5. \E x \in msgs' : x.type = "ack" /\ x.from = n /\ x.to = a /\ x.nonce = m.nonce
    BY <2>3, <2>4 DEF Answers
  <2> QED
    BY <1>2, <2>3, <2>5 DEF Carried, Carries
<1>3. CASE a # n
  <2>1. node'[a] = node[a] /\ Probing(a)
    BY <1>3 DEF HandsOver, Probing
  <2> QED
    BY <1>2, <1>3, <2>1 DEF Troubled
<1>4. CASE a = n /\ node'[n].probe = node[n].probe
  <2>1. node'[n] = o.st /\ o.st.probe # None
    BY <1>4 DEF HandsOver, Probing
  <2>2. \A d \in K : d.type = "ack" => d.nonce # node[n].probe.nonce
    BY <1>4, <2>1 DEF HandsOver, Handover, Answers
  <2> QED
    BY <1>2, <1>4, <2>1, <2>2 DEF Troubled, Probing
<1>5. CASE a = n /\ Escalated(n, o)
  BY <1>5 DEF Escalated, Troubled
<1> QED
  BY <1>3, <1>4, <1>5, ProbeAfter DEF Probing

\* A step of a node brings no exchange into trouble.
LEMMA TroubleKeeps ==
    ASSUME IInv, AllCalm, Undivided, NEW n \in Node, NEW K, NEW o, HandsOver(n, K, o),
           NEW c, Troubled(c)'
    PROVE  Troubled(c)
<1>1. CASE \E m \in msgs' : m.type = "ping_req" /\ m.nonce = c
  <2>1. PICK m \in msgs' : m.type = "ping_req" /\ m.nonce = c
    BY <1>1
  <2>2. CASE m \in msgs
    BY <2>1, <2>2 DEF Troubled
  <2>3. CASE m \in o.out
    <3>1. Escalated(n, o) /\ c = node[n].probe.nonce
      BY <2>1, <2>3, ProbeAfter DEF Escalated
    <3> QED
      BY <3>1 DEF Escalated, Troubled
  <2> QED
    BY <2>2, <2>3 DEF HandsOver
<1>2. CASE \E r \in Node : HasRelay(node'[r], c)
  <2>1. PICK r \in Node : HasRelay(node'[r], c)
    BY <1>2
  <2>2. CASE HasRelay(node[r], c)
    BY <2>2 DEF Troubled
  <2>3. CASE ~HasRelay(node[r], c)
    <3>1. r = n /\ node'[n] = o.st /\ RelaysGoOn(n, K, o)
      BY <2>1, <2>3 DEF HandsOver, Handover
    <3>2. PICK j \in DOMAIN o.st.relays : o.st.relays[j].nonce = c
      BY <2>1, <3>1 DEF HasRelay
    <3>3. PICK d \in K : d.type = "ping_req" /\ o.st.relays[j] = [nonce |-> d.nonce, requester |-> d.from]
      BY <2>3, <3>1, <3>2 DEF RelaysGoOn, HasRelay
    <3> QED
      BY <3>2, <3>3 DEF HandsOver, Troubled
  <2> QED
    BY <2>2, <2>3
<1>3. CASE \E a \in Node : Probing(a)' /\ node'[a].probe.nonce = c /\ (Indirect(a)' \/ ~Carried(a)')
  <2>1. PICK a \in Node : Probing(a)' /\ node'[a].probe.nonce = c /\ (Indirect(a)' \/ ~Carried(a)')
    BY <1>3
  <2>2. CASE ~Carried(a)'
    BY <2>1, <2>2, CarriedKeeps
  <2>3. CASE Indirect(a)' /\ node'[a].probe = node[a].probe
    BY <2>1, <2>3 DEF Troubled, Indirect, Probing
  <2>4. CASE Indirect(a)' /\ Carried(a)' /\ node'[a].probe # node[a].probe
    <3>1. a = n
      BY <2>4 DEF HandsOver
    <3>2. Escalated(n, o)
      BY <2>4, <3>1, ProbeAfter DEF Indirect, Probing
    <3> QED
      BY <2>1, <3>1, <3>2 DEF Escalated, Troubled
  <2> QED
    BY <2>1, <2>2, <2>3, <2>4
<1> QED
  BY <1>1, <1>2, <1>3 DEF Troubled

LEMMA CalmKeeps ==
    ASSUME AllCalm, NEW n \in Node, NEW K, NEW o, HandsOver(n, K, o)
    PROVE  AllCalm'
<1>1. \A r \in Node : node'[r].up /\ Bright(r, node'[r])
  BY DEF AllCalm, HandsOver, Handover, Cheerful
<1>2. \A m \in msgs' : AllAlive(m.events)
  BY DEF AllCalm, HandsOver, Handover, Cheerful
<1> QED
  BY <1>1, <1>2 DEF AllCalm

LEMMA RequesterThere ==
    ASSUME IInv, NEW r \in Node, NEW k \in DOMAIN node[r].relays
    PROVE  node[r].relays[k].requester \in Node
<1>1. node[r].relays \in Seq(Relay)
  BY DEF IInv, State
<1>2. k \in 1 .. Len(node[r].relays)
  BY <1>1, LenProperties
<1>3. node[r].relays[k] \in Relay
  BY <1>1, <1>2, ElementOfSeq
<1> QED
  BY <1>3 DEF Relay

\* What a node issued stays issued.
LEMMA IssuedKeeps ==
    ASSUME IInv, IInv', NEW n \in Node, NEW K, NEW o, HandsOver(n, K, o),
           NEW a \in Node, NEW c, Issued(a, c)
    PROVE  Issued(a, c)'
<1>1. node[a].nonce <= node'[a].nonce
  <2>1. node[a].nonce \in Nat
    BY DEF IInv, State
  <2>2. node[n].nonce <= node'[n].nonce
    BY DEF HandsOver, Handover
  <2> QED
    BY <2>1, <2>2 DEF HandsOver
<1>2. node[a].nonce \in Nat /\ node'[a].nonce \in Nat
  BY DEF IInv, State
<1>3. c \in Nat /\ c < node[a].nonce
  BY DEF Issued
<1> QED
  BY <1>1, <1>2, <1>3 DEF Issued

\* A relay or a PING_REQ was there before, or is of a request that was.
LEMMA RelayBefore ==
    ASSUME NEW n \in Node, NEW K, NEW o, HandsOver(n, K, o),
           NEW r \in Node, NEW k \in DOMAIN node'[r].relays
    PROVE  \/ \E i \in DOMAIN node[r].relays : node'[r].relays[k] = node[r].relays[i]
           \/ \E d \in K : /\ d.type = "ping_req" /\ d.to = r /\ d \in msgs
                           /\ node'[r].relays[k].nonce = d.nonce
                           /\ node'[r].relays[k].requester = d.from
<1>1. CASE r # n
  BY <1>1 DEF HandsOver
<1>2. CASE r = n
  <2>1. node'[r] = o.st /\ RelaysGoOn(n, K, o) /\ \A d \in K : d.to = n /\ d \in msgs
    BY <1>2 DEF HandsOver, Handover
  <2> DEFINE e == o.st.relays[k]
  <2>2. \/ \E i \in DOMAIN node[n].relays : e = node[n].relays[i]
        \/ \E d \in K : d.type = "ping_req" /\ e = [nonce |-> d.nonce, requester |-> d.from]
    BY <2>1 DEF RelaysGoOn
  <2> HIDE DEF e
  <2>3. \/ \E i \in DOMAIN node[n].relays : e = node[n].relays[i]
        \/ \E d \in K : d.type = "ping_req" /\ e.nonce = d.nonce /\ e.requester = d.from
    BY <2>2
  <2> QED
    BY <1>2, <2>1, <2>3 DEF e
<1> QED
  BY <1>1, <1>2

LEMMA RequestBefore ==
    ASSUME IInv, AllCalm, Undivided, NEW n \in Node, NEW K, NEW o, HandsOver(n, K, o),
           NEW m \in msgs', m.type = "ping_req"
    PROVE  \/ m \in msgs \ K
           \/ /\ Escalated(n, o) /\ m \in o.out
              /\ m.from = n /\ m.nonce = node[n].probe.nonce
<1>1. CASE m \in o.out
  BY <1>1, ProbeAfter DEF Escalated
<1> QED
  BY <1>1 DEF HandsOver

LEMMA OwnedKeeps ==
    ASSUME IInv, IInv', AllCalm, Undivided, NInv, RequestsOwned, NEW n \in Node, NEW K, NEW o, HandsOver(n, K, o)
    PROVE  RequestsOwned'
<1>1. \A m \in msgs : m.from \in Node
  BY DEF IInv, MsgOK
<1>2. ASSUME NEW m \in msgs', m.type = "ping_req"
      PROVE  m.for = m.from /\ Issued(m.from, m.nonce)'
  <2>1. m.for = m.from /\ Issued(m.from, m.nonce) /\ m.from \in Node
    <3>1. CASE m \in msgs
      BY <1>1, <1>2, <3>1 DEF RequestsOwned
    <3>2. CASE Escalated(n, o) /\ m \in o.out /\ m.from = n /\ m.nonce = node[n].probe.nonce
      <4>1. node[n].probe # None /\ m = PingReq(n, m.to, node[n].probe.nonce, node[n].probe.target)
        BY <3>2 DEF Escalated, Probing
      <4>2. m.for = n
        BY <4>1 DEF PingReq
      <4> QED
        BY <3>2, <4>1, <4>2 DEF NInv
    <3> QED
      BY <1>2, <3>1, <3>2, RequestBefore
  <2> QED
    BY <2>1, IssuedKeeps
<1>3. ASSUME NEW r \in Node, NEW k \in DOMAIN node'[r].relays
      PROVE  /\ node'[r].relays[k].nonce \in Nat
             /\ node'[r].relays[k].nonce < node'[node'[r].relays[k].requester].nonce
  <2> DEFINE e == node'[r].relays[k]
  <2>1. Issued(e.requester, e.nonce) /\ e.requester \in Node
    <3>1. CASE \E i \in DOMAIN node[r].relays : e = node[r].relays[i]
      <4>1. PICK i \in DOMAIN node[r].relays : e = node[r].relays[i]
        BY <3>1
      <4>2. Issued(node[r].relays[i].requester, node[r].relays[i].nonce)
        BY <4>1 DEF RequestsOwned
      <4>3. node[r].relays[i].requester \in Node
        BY <4>1, RequesterThere
      <4> HIDE DEF e
      <4> QED
        BY <4>1, <4>2, <4>3
    <3>2. CASE \E d \in K : d.type = "ping_req" /\ d \in msgs /\ e.nonce = d.nonce /\ e.requester = d.from
      <4>1. PICK d \in K : d.type = "ping_req" /\ d \in msgs /\ e.nonce = d.nonce /\ e.requester = d.from
        BY <3>2
      <4>2. Issued(d.from, d.nonce) /\ d.from \in Node
        BY <1>1, <4>1 DEF RequestsOwned
      <4> HIDE DEF e
      <4> QED
        BY <4>1, <4>2
    <3>3. \/ \E i \in DOMAIN node[r].relays : e = node[r].relays[i]
          \/ \E d \in K : d.type = "ping_req" /\ d \in msgs /\ e.nonce = d.nonce /\ e.requester = d.from
      BY <1>3, RelayBefore
    <3> HIDE DEF e
    <3> QED
      BY <3>1, <3>2, <3>3
  <2> HIDE DEF e
  <2>2. \A a \in Node : \A c : Issued(a, c) => c \in Nat /\ c < node'[a].nonce
    BY IssuedKeeps DEF Issued
  <2>3. e.nonce \in Nat /\ e.nonce < node'[e.requester].nonce
    BY <2>1, <2>2
  <2> QED
    BY <2>3 DEF e
<1> QED
  BY <1>2, <1>3 DEF RequestsOwned, Issued

\* Nobody asks or relays for a nonce that its node has not drawn yet.
LEMMA FreshNonce ==
    ASSUME IInv, RequestsOwned, NEW n \in Node
    PROVE  /\ \A m \in msgs : (m.type = "ping_req" /\ m.for = n) => m.nonce # node[n].nonce
           /\ \A r \in Node : \A k \in DOMAIN node[r].relays :
                 node[r].relays[k].requester = n => node[r].relays[k].nonce # node[n].nonce
<1>1. node[n].nonce \in Nat
  BY DEF IInv, State
<1>2. \A c : Issued(n, c) => c # node[n].nonce
  BY <1>1 DEF Issued
<1> QED
  BY <1>2 DEF RequestsOwned

\* One request at a time stays so.
LEMMA AskedOnceKeeps ==
    ASSUME IInv, IInv', AllCalm, Undivided, RequestsOnce, NEW n \in Node, NEW K, NEW o, HandsOver(n, K, o)
    PROVE  /\ \A r \in Node : Distinct(node'[r])
           /\ \A m \in msgs' : m.type = "ping_req" => ~HasRelay(node'[m.to], m.nonce)
           /\ \A m, d \in msgs' : (/\ m.type = "ping_req" /\ d.type = "ping_req"
                                   /\ m.to = d.to /\ m.nonce = d.nonce) => m = d
<1> DEFINE c == node[n].probe.nonce
<1>1. \A r \in Node : Distinct(node'[r])
  BY DEF HandsOver, Handover, RelaysGoOn, RequestsOnce
<1>2. ASSUME NEW m \in msgs', m.type = "ping_req", HasRelay(node'[m.to], m.nonce)
      PROVE  FALSE
  <2>1. m.to \in Node
    BY DEF IInv, MsgOK
  <2>2. PICK k \in DOMAIN node'[m.to].relays : node'[m.to].relays[k].nonce = m.nonce
    BY <1>2 DEF HasRelay
  <2>3. \/ HasRelay(node[m.to], m.nonce)
        \/ \E d \in K : d.type = "ping_req" /\ d.to = m.to /\ d \in msgs /\ d.nonce = m.nonce
    BY <2>1, <2>2, RelayBefore DEF HasRelay
  <2>4. CASE m \in msgs \ K
    BY <1>2, <2>3, <2>4 DEF RequestsOnce
  <2>5. CASE Escalated(n, o) /\ m.nonce = c
    BY <2>1, <2>3, <2>5 DEF Escalated, RequestsOnce
  <2> QED
    BY <1>2, <2>4, <2>5, RequestBefore
<1>3. ASSUME NEW m \in msgs', NEW d \in msgs', m.type = "ping_req", d.type = "ping_req",
             m.to = d.to, m.nonce = d.nonce
      PROVE  m = d
  <2>1. CASE m \in msgs \ K /\ d \in msgs \ K
    BY <1>3, <2>1 DEF RequestsOnce
  <2>2. CASE Escalated(n, o) /\ m \in o.out /\ d \in o.out
    BY <1>3, <2>2 DEF Escalated
  <2>3. CASE Escalated(n, o) /\ (m \in msgs \/ d \in msgs) /\ m.nonce = c
    BY <1>3, <2>3 DEF Escalated
  <2> QED
    BY <1>3, <2>1, <2>2, <2>3, RequestBefore
<1> QED
  BY <1>1, <1>2, <1>3

\* Nobody is asked for a direct probe.
LEMMA DirectUnasked ==
    ASSUME IInv, IInv', NInv, NInv', AllCalm, Undivided, Undivided', RequestsOwned, RequestsOnce,
           NEW n \in Node, NEW K, NEW o, HandsOver(n, K, o),
           NEW a \in Node, Probing(a)', ~Indirect(a)'
    PROVE  /\ \A m \in msgs' : m.type = "ping_req" => m.nonce # node'[a].probe.nonce
           /\ \A r \in Node : ~HasRelay(node'[r], node'[a].probe.nonce)
<1> DEFINE c == node'[a].probe.nonce
<1>1. /\ \A m \in msgs : (m.type = "ping_req" /\ m.for = a) => m.nonce # c
      /\ \A r \in Node : \A k \in DOMAIN node[r].relays :
            node[r].relays[k].requester = a => node[r].relays[k].nonce # c
  <2>1. CASE node'[a].probe = node[a].probe
    BY <2>1 DEF RequestsOnce, Probing, Indirect, HasRelay
  <2>2. CASE node'[a].probe # node[a].probe
    <3>1. a = n
      BY <2>2 DEF HandsOver
    <3>2. c = node[a].nonce
      BY <2>2, <3>1, ProbeAfter DEF Probing, Indirect, Escalated
    <3> HIDE DEF c
    <3> QED
      BY <3>2, FreshNonce
  <2> QED
    BY <2>1, <2>2
<1>2. ASSUME NEW m \in msgs', m.type = "ping_req", m.nonce = c PROVE FALSE
  <2>1. m.for = a
    BY <1>2 DEF Undivided
  <2>2. CASE m \in msgs
    BY <1>1, <1>2, <2>1, <2>2
  <2>3. CASE Escalated(n, o) /\ c = node[n].probe.nonce
    <3>1. a # n
      BY <2>3 DEF Escalated, Indirect
    <3>2. node[a].probe = node'[a].probe
      BY <3>1 DEF HandsOver
    <3>3. Probing(a) /\ Probing(n) /\ node[a].probe.nonce = node[n].probe.nonce
      BY <2>3, <3>2 DEF Probing, Escalated
    <3> QED
      BY <3>1, <3>3 DEF Undivided
  <2> HIDE DEF c
  <2> QED
    BY <1>2, <2>2, <2>3, RequestBefore
<1>3. ASSUME NEW r \in Node, HasRelay(node'[r], c) PROVE FALSE
  <2>1. PICK k \in DOMAIN node'[r].relays : node'[r].relays[k].nonce = c
    BY <1>3 DEF HasRelay
  <2> DEFINE e == node'[r].relays[k]
  <2>2. e.nonce = c /\ e.requester = a
    BY <2>1 DEF Undivided
  <2>3. \/ \E i \in DOMAIN node[r].relays : e = node[r].relays[i]
        \/ \E d \in K : /\ d.type = "ping_req" /\ d \in msgs
                        /\ e.nonce = d.nonce /\ e.requester = d.from
    BY <2>1, RelayBefore
  <2> HIDE DEF c, e
  <2> QED
    BY <1>1, <2>2, <2>3 DEF RequestsOwned
<1> QED
  BY <1>2, <1>3

LEMMA OnceKeeps ==
    ASSUME IInv, IInv', NInv, NInv', AllCalm, Undivided, Undivided', RequestsOwned, RequestsOnce,
           NEW n \in Node, NEW K, NEW o, HandsOver(n, K, o)
    PROVE  RequestsOnce'
<1>1. ASSUME NEW a \in Node, Probing(a)', ~Indirect(a)'
      PROVE  /\ \A m \in msgs' : m.type = "ping_req" => m.nonce # node'[a].probe.nonce
             /\ \A r \in Node : ~HasRelay(node'[r], node'[a].probe.nonce)
  BY <1>1, DirectUnasked
<1> QED
  BY <1>1, AskedOnceKeeps DEF RequestsOnce, Distinct, HasRelay

\* A helper of an indirect probe that goes on keeps helping, one stage further
\* when the step was its own or the target's.
LEMMA HelperGoesOn ==
    ASSUME IInv, NInv, LInv, Undivided, NEW n \in Node, NEW K, NEW o, HandsOver(n, K, o),
           NEW a \in Node, Indirect(a), node'[a].probe = node[a].probe,
           NEW r \in Node \ {a, node[a].probe.target}, HelpedBy(a, r)
    PROVE  HelpedBy(a, r)'
<1> DEFINE t == node[a].probe.target
           c == node[a].probe.nonce
<1>1. \A m \in msgs : MsgOK(m)
  BY DEF IInv
<1>2. t \in Node /\ t # a /\ r # t /\ r # a
  BY DEF IInv, NodeOK, State, Probe, Indirect, Probing
<1>3. node'[n] = o.st /\ Handover(n, K, o) /\ K \subseteq msgs
  BY DEF HandsOver
<1>4. \A m \in msgs : m \notin K => m \in msgs'
  BY DEF HandsOver
<1>5. \A x \in o.out : x \in msgs'
  BY DEF HandsOver
<1>6. \A m \in K : m.to = n
  BY DEF HandsOver
<1>8. CASE IsAsked(a, r)
  <2>1. PICK m \in msgs : m.type = "ping_req" /\ m.from = a /\ m.to = r /\ m.nonce = c /\ m.target = t
    BY <1>8 DEF IsAsked
  <2>2. CASE m \notin K
    BY <1>4, <2>1, <2>2 DEF HelpedBy, IsAsked
  <2>3. CASE m \in K
    <3>1. n = r /\ Answers(n, m, o)
      BY <1>3, <1>6, <2>1, <2>3 DEF Handover
    <3>2. HasRelay(node'[r], c) /\ \E x \in msgs' : x.type = "ping" /\ x.from = r /\ x.to = t /\ x.nonce = c
      BY <1>2, <1>3, <1>5, <2>1, <3>1 DEF Answers
    <3> QED
      BY <3>2 DEF HelpedBy, IsRelaying
  <2> QED
    BY <2>2, <2>3
<1>9. CASE IsRelaying(a, r)
  <2>1. PICK m \in msgs : /\ m.nonce = c
                          /\ \/ m.type = "ping" /\ m.from = r /\ m.to = t
                             \/ m.type = "ack" /\ m.from = t /\ m.to = r
    BY <1>9 DEF IsRelaying
  <2>2. HasRelay(node[r], c) /\ InTransit(a, c)
    <3>1. AllCalm /\ m.for = a
      BY <2>1 DEF LInv, Undivided, Indirect
    <3> QED
      BY <1>9, <2>1, <3>1, AllInTransit DEF IsRelaying
  <2>3. HasRelay(node'[r], c)
    <3>1. PICK k \in DOMAIN node[r].relays : node[r].relays[k].nonce = c
      BY <2>2 DEF HasRelay
    <3>2. node[r].relays[k].requester = a
      BY <3>1 DEF Undivided, Indirect
    <3>3. CASE r = n
      BY <1>3, <2>2, <3>1, <3>2, <3>3 DEF Handover, RelaysGoOn, HasRelay
    <3>4. CASE r # n
      BY <2>2, <3>4 DEF HandsOver
    <3> QED
      BY <3>3, <3>4
  <2>4. CASE m \notin K
    <3>1. m \in msgs'
      BY <1>4, <2>4
    <3> QED
      BY <2>1, <2>3, <3>1 DEF HelpedBy, IsRelaying
  <2>5. CASE m \in K /\ m.type = "ping"
    <3>1. n = t /\ m.from = r /\ Answers(n, m, o)
      BY <1>3, <1>6, <2>1, <2>5 DEF Handover
    <3>2. \E x \in msgs' : x.type = "ack" /\ x.from = t /\ x.to = r /\ x.nonce = c
      BY <1>5, <2>1, <2>5, <3>1 DEF Answers
    <3> QED
      BY <2>3, <3>2 DEF HelpedBy, IsRelaying
  <2>6. CASE m \in K /\ m.type = "ack"
    <3>1. n = r /\ Answers(n, m, o)
      BY <1>3, <1>6, <2>1, <2>6 DEF Handover
    <3>2. ~(node[r].probe # None /\ node[r].probe.nonce = c)
      BY <1>2 DEF Undivided, Indirect, Probing
    <3>3. PICK k \in DOMAIN node[r].relays, x \in o.out :
             /\ node[r].relays[k].nonce = c
             /\ x.type = "ack" /\ x.from = r /\ x.to = node[r].relays[k].requester
             /\ x.nonce = c
      BY <2>1, <2>2, <2>6, <3>1, <3>2 DEF Answers
    <3>4. node[r].relays[k].requester = a
      BY <3>3 DEF Undivided, Indirect
    <3>5. x \in msgs' /\ x.to = a
      BY <1>5, <3>3, <3>4
    <3> QED
      BY <3>3, <3>5 DEF HelpedBy, HasAnswered
  <2> QED
    BY <2>1, <2>4, <2>5, <2>6
<1>10. CASE HasAnswered(a, r)
  <2>1. PICK m \in msgs : m.type = "ack" /\ m.from = r /\ m.to = a /\ m.nonce = c
    BY <1>10 DEF HasAnswered
  <2>2. m \notin K
    <3>1. SUFFICES ASSUME m \in K PROVE FALSE
      OBVIOUS
    <3>2. a = n /\ Answers(n, m, o)
      BY <1>3, <1>6, <2>1, <3>1 DEF Handover
    <3>3. o.st.probe = None
      BY <2>1, <3>2 DEF Answers, Indirect, Probing
    <3> QED
      BY <1>3, <3>2, <3>3 DEF Indirect, Probing
  <2> QED
    BY <1>4, <2>1, <2>2 DEF HelpedBy, HasAnswered
<1> QED
  BY <1>8, <1>9, <1>10 DEF HelpedBy

\* Every probe that is indirect after the step has its helpers.
LEMMA HelpedKeeps ==
    ASSUME IInv, NInv, LInv, Undivided, NEW n \in Node, NEW K, NEW o, HandsOver(n, K, o),
           NEW L, Accounted(L), NEW a \in Node, Indirect(a)'
    PROVE  \E H \in SUBSET (Node \ {a, node'[a].probe.target}) :
              /\ MaxLoss <= Cardinality(H)
              /\ \A r \in H : HelpedBy(a, r)' \/ <<node'[a].probe.nonce, r>> \in L
<1>1. CASE node'[a].probe = node[a].probe
  <2>1. Indirect(a)
    BY <1>1 DEF Indirect, Probing
  <2>2. PICK H \in SUBSET (Node \ {a, node[a].probe.target}) :
           /\ MaxLoss <= Cardinality(H)
           /\ \A r \in H : HelpedBy(a, r) \/ <<node[a].probe.nonce, r>> \in L
    BY <2>1 DEF Accounted
  <2>3. \A r \in H : HelpedBy(a, r) => HelpedBy(a, r)'
    BY <1>1, <2>1, HelperGoesOn
  <2>4. H \in SUBSET (Node \ {a, node'[a].probe.target})
    BY <1>1
  <2> QED
    BY <1>1, <2>2, <2>3, <2>4
<1>2. CASE node'[a].probe # node[a].probe
  <2>1. a = n
    BY <1>2 DEF HandsOver
  <2>2. Escalated(n, o)
    BY <1>2, <2>1, ProbeAfter DEF LInv, Indirect, Probing
  <2>3. PICK R \in SUBSET (Node \ {n, node[n].probe.target}) :
           /\ MaxLoss <= Cardinality(R)
           /\ \A r \in R : \E x \in o.out :
                 /\ x.type = "ping_req" /\ x.from = n /\ x.to = r
                 /\ x.nonce = node[n].probe.nonce /\ x.target = node[n].probe.target
    BY <2>2 DEF Escalated
  <2>4. \A r \in R : HelpedBy(a, r)'
    <3>1. /\ node'[n].probe.nonce = node[n].probe.nonce /\ \A x \in o.out : x \in msgs'
          /\ node'[n].probe.target = node[n].probe.target
      BY <2>2 DEF Escalated, HandsOver
    <3> QED
      BY <2>1, <2>3, <3>1 DEF HelpedBy, IsAsked
  <2>5. node'[a].probe.target = node[n].probe.target
    BY <2>1, <2>2 DEF Escalated
  <2>6. R \in SUBSET (Node \ {a, node'[a].probe.target})
    BY <2>1, <2>5
  <2> QED
    BY <2>3, <2>4, <2>6
<1> QED
  BY <1>1, <1>2

LEMMA HandoverKeeps ==
    ASSUME IInv, IInv', NInv, NInv', LInv, Undivided, Undivided', NEW n \in Node, NEW K, K \subseteq msgs,
           \A d \in K : d.to = n, NEW o, Handover(n, K, o), Commit(n, K, o)
    PROVE  LInv'
<1>1. AllCalm /\ RequestsOwned /\ RequestsOnce
  BY DEF LInv
<1>2. HandsOver(n, K, o)
  BY <1>1, CommitHandsOver
<1>3. AllCalm' /\ RequestsOwned' /\ RequestsOnce'
  BY <1>1, <1>2, CalmKeeps, OwnedKeeps, OnceKeeps
<1>4. PICK L : Accounted(L)
  BY DEF LInv
<1>5. Accounted(L)'
  <2>1. spent' = spent
    BY <1>2 DEF HandsOver
  <2>2. \A c : Troubled(c)' => Troubled(c)
    BY <1>1, <1>2, TroubleKeeps
  <2>3. ASSUME NEW a \in Node, Indirect(a)'
        PROVE  \E H \in SUBSET (Node \ {a, node'[a].probe.target}) :
                  /\ MaxLoss <= Cardinality(H)
                  /\ \A r \in H : HelpedBy(a, r)' \/ <<node'[a].probe.nonce, r>> \in L
    BY <1>2, <1>4, <2>3, HelpedKeeps
  <2> QED
    BY <1>4, <2>1, <2>2, <2>3 DEF Accounted
<1>6. (spent.loss <= MaxLoss)'
  BY <1>2 DEF LInv, HandsOver
<1> QED
  BY <1>3, <1>5, <1>6 DEF LInv

\* The helper of a that the message m is to or from.
HelperOn(a, m) ==
    IF m.type = "ping_req" \/ (m.type = "ack" /\ m.to # a) THEN m.to ELSE m.from

\* What a lost message takes from a helper, its nonce and its ends tell.
LEMMA HelperLost ==
    ASSUME NEW m \in msgs, node' = node, msgs' = msgs \ {m},
           NEW a \in Node, NEW r \in Node \ {a, node[a].probe.target},
           HelpedBy(a, r), ~HelpedBy(a, r)'
    PROVE  m.nonce = node[a].probe.nonce /\ r = HelperOn(a, m)
<1>1. CASE IsAsked(a, r)
  <2>1. ~IsAsked(a, r)'
    BY DEF HelpedBy
  <2> QED
    BY <1>1, <2>1 DEF IsAsked, HelperOn
<1>2. CASE IsRelaying(a, r)
  <2>1. ~IsRelaying(a, r)'
    BY DEF HelpedBy
  <2> QED
    BY <1>2, <2>1 DEF IsRelaying, HelperOn, HasRelay
<1>3. CASE HasAnswered(a, r)
  <2>1. ~HasAnswered(a, r)'
    BY DEF HelpedBy
  <2> QED
    BY <1>3, <2>1 DEF HasAnswered, HelperOn
<1> QED
  BY <1>1, <1>2, <1>3 DEF HelpedBy

\* One more loss is one more account.
LEMMA LossAccounted ==
    ASSUME NInv, NEW m \in msgs, Lose(m), NEW L, Accounted(L), NEW b,
           \A c : Troubled(c)' => Troubled(c) \/ <<c, None>> = b,
           \A a \in Node : Indirect(a) =>
              \A r \in Node \ {a, node[a].probe.target} :
                 HelpedBy(a, r) => HelpedBy(a, r)' \/ <<node[a].probe.nonce, r>> = b
    PROVE  Accounted(L \cup {b})'
<1>1. node' = node /\ spent'.loss = spent.loss + 1 /\ spent.loss \in Nat
  BY DEF Lose, NInv
<1>2. IsFiniteSet(L \cup {b}) /\ Cardinality(L \cup {b}) <= spent.loss + 1
  <2>1. IsFiniteSet(L) /\ Cardinality(L) \in Nat /\ Cardinality(L) <= spent.loss
    BY FS_CardinalityType DEF Accounted
  <2>2. /\ IsFiniteSet(L \cup {b})
        /\ Cardinality(L \cup {b}) = IF b \in L THEN Cardinality(L) ELSE Cardinality(L) + 1
    BY <2>1, FS_AddElement
  <2> QED
    BY <1>1, <2>1, <2>2
<1>3. \A c : Troubled(c)' => <<c, None>> \in L \cup {b}
  BY DEF Accounted
<1>4. ASSUME NEW a \in Node, Indirect(a)'
      PROVE  \E H \in SUBSET (Node \ {a, node'[a].probe.target}) :
                /\ MaxLoss <= Cardinality(H)
                /\ \A r \in H : HelpedBy(a, r)' \/ <<node'[a].probe.nonce, r>> \in L \cup {b}
  <2>1. Indirect(a)
    BY <1>1, <1>4 DEF Indirect, Probing
  <2>2. PICK H \in SUBSET (Node \ {a, node[a].probe.target}) :
           /\ MaxLoss <= Cardinality(H)
           /\ \A r \in H : HelpedBy(a, r) \/ <<node[a].probe.nonce, r>> \in L
    BY <2>1 DEF Accounted
  <2>3. \A r \in H : HelpedBy(a, r)' \/ <<node[a].probe.nonce, r>> \in L \cup {b}
    BY <2>1, <2>2
  <2> QED
    BY <1>1, <2>2, <2>3
<1> QED
  BY <1>1, <1>2, <1>3, <1>4 DEF Accounted

LEMMA LoseKeeps ==
    ASSUME IInv, NInv, LInv, Undivided, NEW m \in msgs, Lose(m)
    PROVE  LInv'
<1>1. node' = node /\ msgs' = msgs \ {m} /\ spent'.loss <= MaxLoss
  BY SwimConstants DEF Lose, NInv
<1>2. AllCalm' /\ RequestsOwned' /\ RequestsOnce'
  <2>1. AllCalm'
    BY <1>1 DEF LInv, AllCalm
  <2>2. RequestsOwned'
    BY <1>1 DEF LInv, RequestsOwned, Issued
  <2>3. RequestsOnce'
    BY <1>1 DEF LInv, RequestsOnce, Probing, Indirect
  <2> QED
    BY <2>1, <2>2, <2>3
<1>3. PICK L : Accounted(L)
  BY DEF LInv
<1>4. \A c : Troubled(c)' => \/ Troubled(c)
                             \/ \E a \in Node : /\ Probing(a) /\ node[a].probe.nonce = c
                                                /\ ~Indirect(a) /\ Carries(m, a)
  <2>1. ASSUME NEW a \in Node, Carried(a), ~Carried(a)' PROVE Carries(m, a)
    BY <1>1, <2>1 DEF Carried, Carries
  <2> QED
    BY <1>1, <2>1 DEF Troubled, Probing, Indirect, HasRelay
<1>5. CASE \E a \in Node : Indirect(a) /\ \E r \in Node \ {a, node[a].probe.target} :
              HelpedBy(a, r) /\ ~HelpedBy(a, r)'
  <2>1. PICK a \in Node : Indirect(a) /\ \E r \in Node \ {a, node[a].probe.target} :
                             HelpedBy(a, r) /\ ~HelpedBy(a, r)'
    BY <1>5
  <2>2. PICK r \in Node \ {a, node[a].probe.target} : HelpedBy(a, r) /\ ~HelpedBy(a, r)'
    BY <2>1
  <2>3. PICK b : b = <<m.nonce, r>>
    OBVIOUS
  <2>4. m.nonce = node[a].probe.nonce /\ r = HelperOn(a, m)
    BY <1>1, <2>2, HelperLost
  <2>5. ASSUME NEW p \in Node, Probing(p), node[p].probe.nonce = m.nonce PROVE p = a
    BY <2>1, <2>4, <2>5 DEF Undivided, Indirect
  <2>6. \A c : Troubled(c)' => Troubled(c) \/ <<c, None>> = b
    BY <1>4, <2>1, <2>5 DEF Carries
  <2>7. ASSUME NEW p \in Node, Indirect(p), NEW q \in Node \ {p, node[p].probe.target},
               HelpedBy(p, q), ~HelpedBy(p, q)'
        PROVE  <<node[p].probe.nonce, q>> = b
    <3>1. m.nonce = node[p].probe.nonce /\ q = HelperOn(p, m)
      BY <1>1, <2>7, HelperLost
    <3> QED
      BY <2>3, <2>4, <2>5, <2>7, <3>1 DEF Indirect
  <2>8. Accounted(L \cup {b})'
    BY <1>3, <2>6, <2>7, LossAccounted
  <2> QED
    BY <1>1, <1>2, <2>8 DEF LInv
<1>6. CASE ~\E a \in Node : Indirect(a) /\ \E r \in Node \ {a, node[a].probe.target} :
               HelpedBy(a, r) /\ ~HelpedBy(a, r)'
  <2>1. PICK b : b = <<m.nonce, None>>
    OBVIOUS
  <2>2. \A c : Troubled(c)' => Troubled(c) \/ <<c, None>> = b
    BY <1>4, <2>1 DEF Carries
  <2>3. Accounted(L \cup {b})'
    BY <1>3, <1>6, <2>2, LossAccounted
  <2> QED
    BY <1>1, <1>2, <2>3 DEF LInv
<1> QED
  BY <1>5, <1>6

LEMMA LInvStep ==
    FewLosses /\ Undivided /\ Undivided' /\ IInv /\ NInv /\ LInv /\ [Next]_vars => LInv'
<1> SUFFICES ASSUME FewLosses, Undivided, Undivided', IInv, NInv, LInv, [Next]_vars
             PROVE  LInv'
  OBVIOUS
<1>1. IInv' /\ NInv'
  BY IInvStep, NInvStep DEF FewLosses
<1>2. ASSUME NEW n \in Node, Tick(n) PROVE LInv'
  <2>1. (node[n].probe # None /\ node[n].probe.phase = "indirect") => InTransit(n, node[n].probe.nonce)
    BY HelpedInTransit DEF Indirect, Probing
  <2>2. Ready(n)
    BY EverybodyReady
  <2>3. PICK o : Handover(n, {}, o) /\ Commit(n, {}, o)
    BY <1>2, <2>1, <2>2, TickHandover
  <2> QED
    BY <1>1, <2>3, HandoverKeeps
<1>3. ASSUME NEW m \in msgs, ReceivePing(m) \/ ReceiveAck(m) \/ ReceivePingReq(m) \/ ReceiveGossip(m)
      PROVE  LInv'
  <2>1. m.to \in Node
    BY DEF IInv, MsgOK
  <2>2. PICK o : Handover(m.to, {m}, o) /\ Commit(m.to, {m}, o)
    BY <1>3, ReceiveHandover
  <2> QED
    BY <1>1, <2>1, <2>2, HandoverKeeps
<1>4. ASSUME NEW n \in Node, NEW p \in Node, SessionUp(n, p) PROVE LInv'
  <2>1. Ready(n)
    BY EverybodyReady
  <2>2. PICK o : Handover(n, {}, o) /\ Commit(n, {}, o)
    BY <1>4, <2>1, SessionUpHandover
  <2> QED
    BY <1>1, <2>2, HandoverKeeps
<1>5. ASSUME NEW m \in msgs, Lose(m) PROVE LInv'
  BY <1>1, <1>5, LoseKeeps
<1>6. spent \in [loss : Nat, crash : Nat, restart : Nat] /\ MaxCrash = 0 /\ MaxRestart = 0
  BY DEF NInv, FewLosses, OneLife
<1>7. ASSUME NEW n \in Node, Crash(n) \/ Restart(n) PROVE FALSE
  BY <1>6, <1>7 DEF Crash, Restart
<1>8. CASE UNCHANGED vars
  <2>1. node' = node /\ msgs' = msgs /\ spent' = spent
    BY <1>8 DEF vars
  <2>2. AllCalm'
    BY <2>1 DEF LInv, AllCalm
  <2>3. RequestsOwned' /\ RequestsOnce'
    BY <2>1 DEF LInv, RequestsOwned, Issued, RequestsOnce, Probing, Indirect
  <2>4. PICK L : Accounted(L)
    BY DEF LInv
  <2>5. Accounted(L)'
    BY <2>1, <2>4 DEF Accounted, Troubled, Indirect, Probing, Carried, Carries,
                      HelpedBy, IsAsked, IsRelaying, HasAnswered
  <2> QED
    BY <2>1, <2>2, <2>3, <2>5 DEF LInv
<1> QED
  BY <1>2, <1>3, <1>4, <1>5, <1>7, <1>8 DEF Next

\* With nobody down and timeouts longer than the delays, lost messages make
\* nobody suspect anybody, in a cluster of any size and whatever else is under
\* way, as long as they are no more than the helpers of a probe and the relays
\* of a node, and two nodes never have probes with one nonce under way (swim.zig,
\* tick and handle(.ping_req)).  Every node counts its nonces from the start.
THEOREM FewLossesAreHarmless ==
    ASSUME FewLosses
    PROVE  Spec => LossNeverSuspects
<1> DEFINE Inv == IInv /\ NInv /\ LInv
<1>1. Init => Inv
  BY InitLInv
<1>2. Inv /\ Undivided /\ Undivided' /\ [Next]_vars => Inv'
  BY IInvStep, NInvStep, LInvStep DEF FewLosses
<1>3. Inv => NobodySuspected
  BY DEF LInv, AllCalm, Bright, NobodySuspected
<1>4. ~NoncesClash => Undivided
  BY NoClash
<1> HIDE DEF Inv
<1> QED
  BY <1>1, <1>2, <1>3, <1>4, PTL DEF Spec, LossNeverSuspects
=============================================================================
