-------------------------------- MODULE Swim --------------------------------
(***************************************************************************)
(* The SWIM failure detector of src/src/swim.zig running at every node of  *)
(* a cluster: probing with indirect relays, suspicion, refutation by       *)
(* incarnation, the piggyback ring, resurrection on direct evidence, over  *)
(* a transport that loses and reorders (every message is of the ephemeral  *)
(* class), with crashes and restarts.                                      *)
(*                                                                         *)
(* The handlers are functions from a node's record to an outcome, so that  *)
(* an action is the whole call: one tick, or one frame and its replies.    *)
(*                                                                         *)
(* Time is abstracted to which timers are due: a tick finds the probe      *)
(* timer due or not, and at most one suspicion window and one relay        *)
(* expired (several at once are several ticks).  With Prompt, a probe's or *)
(* relay's timer is never due while a message of that probe can still be   *)
(* delivered: timeouts exceed the network's delay.  The corroboration      *)
(* table, round-trip samples and buddies only shorten or stretch windows,  *)
(* which are arbitrary here; the choice of the next probe target is        *)
(* arbitrary among the members.                                            *)
(***************************************************************************)
EXTENDS SwimLattice, Sequences, FiniteSets

CONSTANTS
    Node,
    None,          \* null: no probe, no destination
    Prober,        \* bound: the nodes whose probe timer runs
    FirstNonce,    \* next_nonce in the initial state, per node
    Fanout,        \* ping_req_fanout
    RelayCap,      \* max_relays
    RingCap,       \* max_events_per_msg, the slots of the piggyback ring
    PiggybackMax,  \* piggyback_max, the events attached to a PING or ACK
    Prompt,        \* timeouts exceed the delivery delay
    NonceSpan,     \* bound: nonces per node
    RecycleNonce,  \* reuse them, for runs that probe for ever
    MaxInc,        \* bound: incarnations
    MaxInFlight,   \* bound: messages in flight
    MaxLoss,       \* bound: messages lost
    MaxCrash,      \* bound: crashes
    MaxRestart     \* bound: restarts

ASSUME SwimConstants ==
    /\ Prober \subseteq Node /\ None \notin Node
    /\ FirstNonce \in [Node -> Nat]
    /\ {Fanout, RelayCap, RingCap, PiggybackMax, NonceSpan, MaxInc, MaxInFlight,
        MaxLoss, MaxCrash, MaxRestart} \subseteq Nat
    /\ PiggybackMax <= RingCap /\ RelayCap > 0 /\ RingCap > 0
    /\ RecycleNonce => NonceSpan > 0
    /\ {Prompt, RecycleNonce} \subseteq BOOLEAN

VARIABLES
    node,   \* the Swim record of every node
    msgs,   \* messages in flight
    spent   \* how much of the bounds on losses, crashes and restarts is used

vars == <<node, msgs, spent>>

Event == [id : Node, state : MemberState, inc : Nat]

Alive(id, i) == [id |-> id, state |-> "alive", inc |-> i]
Suspect(id, i) == [id |-> id, state |-> "suspect", inc |-> i]
Confirm(id, i) == [id |-> id, state |-> "dead", inc |-> i]

\* The messages.  Two fields are history, which no handler reads and the wire
\* does not carry: for is the node whose probe the message serves, by the node
\* that answered the PING; a relay passes both on.
Ping(from, to, nonce, events, for) ==
    [type |-> "ping", from |-> from, to |-> to, nonce |-> nonce, events |-> events, for |-> for]
Ack(from, to, nonce, i, events, by, for) ==
    [type |-> "ack", from |-> from, to |-> to, nonce |-> nonce, inc |-> i,
     events |-> events, by |-> by, for |-> for]
PingReq(from, to, nonce, target) ==
    [type |-> "ping_req", from |-> from, to |-> to, nonce |-> nonce, target |-> target,
     events |-> <<>>, for |-> from]
Gossip(from, to, e) ==
    [type |-> "gossip", from |-> from, to |-> to, nonce |-> 0, events |-> <<e>>]

Fresh(n, table, nonce) ==
    [up |-> TRUE, inc |-> 0, table |-> table, ring |-> <<>>, probe |-> None,
     nonce |-> nonce, relays |-> <<>>]

\* Every session is up and every table holds every peer alive.
Init ==
    /\ node = [n \in Node |->
                 Fresh(n, [p \in Node |-> IF p = n THEN Absent ELSE [state |-> "alive", inc |-> 0]],
                       FirstNonce[n])]
    /\ msgs = {}
    /\ spent = [loss |-> 0, crash |-> 0, restart |-> 0]

-----------------------------------------------------------------------------
\* Deviation: a full ring grows instead of dropping its oldest event.
DisseminateForEver(s, e) == [s EXCEPT !.ring = Append(@, e)]

\* disseminate: into the ring, over its oldest event when it is full.
Disseminate(s, e) ==
    [s EXCEPT !.ring = IF Len(@) < RingCap THEN Append(@, e) ELSE Append(Tail(@), e)]

\* takePiggyback: the oldest events of the ring, up to piggyback_max.
Piggyback(s) ==
    SubSeq(s.ring, 1, IF Len(s.ring) < PiggybackMax THEN Len(s.ring) ELSE PiggybackMax)

\* Deviation: an event about this node enters its own table.
ApplyAboutAnyone(n, s, e) == [s EXCEPT !.table[e.id] = Merge(@, e)]

\* apply: a greater incarnation of this node is adopted, no other event about
\* it has an effect here; about a peer, the lattice decides.
ApplyEvent(n, s, e) ==
    IF e.id # n THEN [s EXCEPT !.table[e.id] = Merge(@, e)]
    ELSE IF e.state = "alive" /\ e.inc > s.inc THEN [s EXCEPT !.inc = e.inc] ELSE s

\* apply, then disseminate whatever apply said: what the node vouches for itself.
Vouch(n, s, e) == Disseminate(ApplyEvent(n, s, e), e)

\* Deviation: the refutation is announced and the incarnation not adopted.
TakeUnadopted(n, from, acc, e) ==
    LET s == acc.st
        refuted == Alive(n, s.inc + 1)
    IN  IF e.id = n /\ e.state = "suspect"
        THEN [st |-> Disseminate(s, refuted), out |-> acc.out \cup {Gossip(n, from, refuted)}]
        ELSE [acc EXCEPT !.st = IF e.id # n /\ Supersedes(e, s.table[e.id])
                                THEN Vouch(n, s, e) ELSE ApplyEvent(n, s, e)]

\* applyEventFrom: a suspicion of this node is refuted to the sender, an event
\* that changes the table is passed on.
Take(n, from, acc, e) ==
    LET s == acc.st
        refuted == Alive(n, s.inc + 1)
    IN  IF e.id = n /\ e.state = "suspect"
        THEN [st |-> Disseminate([s EXCEPT !.inc = @ + 1], refuted),
              out |-> acc.out \cup {Gossip(n, from, refuted)}]
        ELSE [acc EXCEPT !.st = IF e.id # n /\ Supersedes(e, s.table[e.id])
                                THEN Vouch(n, s, e) ELSE ApplyEvent(n, s, e)]

\* The events of one frame in their order.
TakeAll(n, from, s, events) ==
    LET acc[k \in 0 .. Len(events)] ==
            IF k = 0 THEN [st |-> s, out |-> {}] ELSE Take(n, from, acc[k - 1], events[k])
    IN  acc[Len(events)]

\* A frame or a session from a peer not held alive raises it above what was
\* held.
RaisePeer(n, s, p) == Vouch(n, s, Alive(p, s.table[p].inc + 1))

OnPing(n, m) ==
    LET s == IF node[n].table[m.from].state = "dead" THEN RaisePeer(n, node[n], m.from)
             ELSE node[n]
        acc == TakeAll(n, m.from, s, m.events)
    IN  [acc EXCEPT !.out = @ \cup {Ack(n, m.from, m.nonce, acc.st.inc, Piggyback(acc.st), n, m.for)}]

\* Deviation: the ACK's incarnation is written over the row.
EndProbeOverwriting(n, s, m) ==
    Disseminate([s EXCEPT !.probe = None,
                          !.table[s.probe.target] = [state |-> "alive", inc |-> m.inc]],
                Alive(s.probe.target, m.inc))

\* Deviation: the ACK of a member held dead does not outrank the CONFIRM.
EndProbeInLattice(n, s, m) == Vouch(n, [s EXCEPT !.probe = None], Alive(s.probe.target, m.inc))

\* An ACK with the nonce of this node's own probe ends the probe and vouches
\* for its target.
EndProbe(n, s, m) ==
    LET t == s.probe.target
        i == IF s.table[t].state = "dead" /\ s.table[t].inc >= m.inc
             THEN s.table[t].inc + 1 ELSE m.inc
    IN  Vouch(n, [s EXCEPT !.probe = None], Alive(t, i))

\* Deviation: any ACK ends the outstanding probe.
OnAnyAck(n, m) ==
    LET acc == TakeAll(n, m.from, node[n], m.events)
    IN  IF acc.st.probe # None THEN [acc EXCEPT !.st = EndProbe(n, acc.st, m)] ELSE acc

OnAck(n, m) ==
    LET acc == TakeAll(n, m.from, node[n], m.events)
        s == acc.st
        first == {k \in DOMAIN s.relays : s.relays[k].nonce = m.nonce
                                          /\ \A j \in 1 .. k - 1 : s.relays[j].nonce # m.nonce}
    IN  IF s.probe # None /\ s.probe.nonce = m.nonce
        THEN [acc EXCEPT !.st = EndProbe(n, s, m)]
        ELSE [acc EXCEPT !.out =
                @ \cup {Ack(n, s.relays[k].requester, m.nonce, m.inc, <<>>, m.by, m.for) : k \in first}]

\* The relay table without its k-th entry (0: all stay); the last takes its
\* place, also where relays[0] makes room in a full table.
DropRelay(relays, k) ==
    IF k = 0 THEN relays
    ELSE [j \in 1 .. Len(relays) - 1 |-> IF j = k THEN relays[Len(relays)] ELSE relays[j]]

\* Deviation: the probe is passed on and its requester not remembered.
OnPingReqUnrecorded(n, m) ==
    [st |-> node[n],
     out |-> IF node[n].table[m.target].state = "absent" THEN {}
             ELSE {Ping(n, m.target, m.nonce, <<>>, m.for)}]

OnPingReq(n, m) ==
    LET s == node[n]
        kept == IF Len(s.relays) >= RelayCap THEN DropRelay(s.relays, 1) ELSE s.relays
        relay == [nonce |-> m.nonce, requester |-> m.from]
    IN  IF s.table[m.target].state = "absent" THEN [st |-> s, out |-> {}]
        ELSE [st |-> [s EXCEPT !.relays = Append(kept, relay)],
              out |-> {Ping(n, m.target, m.nonce, <<>>, m.for)}]

OnGossip(n, m) == TakeAll(n, m.from, node[n], m.events)
-----------------------------------------------------------------------------
Held(s) == {p \in Node : s.table[p].state # "absent"}

NotDead(s) == {p \in Held(s) : s.table[p].state # "dead"}

\* gossipTargetExcluding: any member not dead, if there is one.
Destinations(s, p) == IF NotDead(s) \subseteq {p} THEN {None} ELSE NotDead(s) \ {p}

Announce(n, s, e, dest) ==
    [st |-> Vouch(n, s, e), out |-> IF dest = None THEN {} ELSE {Gossip(n, dest, e)}]

Following(n, nonce) ==
    IF RecycleNonce THEN FirstNonce[n] + ((nonce + 1 - FirstNonce[n]) % NonceSpan) ELSE nonce + 1

\* startProbe towards the member t.
StartProbe(n, s, t) ==
    [st |-> [s EXCEPT !.probe = [target |-> t, nonce |-> s.nonce, phase |-> "direct"],
                      !.nonce = Following(n, @)],
     out |-> {Ping(n, t, s.nonce, Piggyback(s), n)}]

\* Deviation: the probe stays in its direct phase.
EscalateForEver(n, s, relays) ==
    [st |-> s, out |-> {PingReq(n, r, s.probe.nonce, s.probe.target) : r \in relays}]

\* The direct phase timed out: PING_REQ to ping_req_fanout members, or to all
\* there are.
Escalate(n, s, relays) ==
    [st |-> [s EXCEPT !.probe.phase = "indirect"],
     out |-> {PingReq(n, r, s.probe.nonce, s.probe.target) : r \in relays}]

Helpers(s) ==
    LET others == NotDead(s) \ {s.probe.target}
    IN  {R \in SUBSET others :
            Cardinality(R) = IF Cardinality(others) < Fanout THEN Cardinality(others) ELSE Fanout}

\* Both phases timed out: suspectMember, unless the table rejects the suspicion.
GiveUp(n, s, dest) ==
    LET t == s.probe.target
        e == Suspect(t, s.table[t].inc)
        idle == [s EXCEPT !.probe = None]
    IN  IF Supersedes(e, s.table[t]) THEN Announce(n, idle, e, dest) ELSE [st |-> idle, out |-> {}]

\* What a tick that finds the probe timer due may do.
ProbeStep(n, s) ==
    IF s.probe = None
    THEN {StartProbe(n, s, t) : t \in Held(s)}
    ELSE IF s.probe.phase = "direct"
         THEN {Escalate(n, s, R) : R \in Helpers(s)}
         ELSE {GiveUp(n, s, dest) : dest \in Destinations(s, s.probe.target)}

\* Suspicion expiry: the suspect p is confirmed at its incarnation.
ConfirmMember(n, acc, p, dest) ==
    LET done == Announce(n, acc.st, Confirm(p, acc.st.table[p].inc), dest)
    IN  [done EXCEPT !.out = @ \cup acc.out]

-----------------------------------------------------------------------------
\* A message of the probe of a with this nonce can still reach somebody.
InTransit(a, nonce) ==
    \E m \in msgs : m.type # "gossip" /\ m.for = a /\ m.nonce = nonce /\ node[m.to].up

ProbeDue(n) ==
    /\ n \in Prober
    /\ IF node[n].probe = None
       THEN RecycleNonce \/ node[n].nonce < FirstNonce[n] + NonceSpan
       ELSE Prompt => ~InTransit(n, node[n].probe.nonce)

\* Deviation: the sweep takes every member whose state is old enough.
SuspectsOrAlive(n) == {p \in Node : node[n].table[p].state \in {"alive", "suspect"}}

Suspects(n) == {p \in Node : node[n].table[p].state = "suspect"}

RelaysDue(n) ==
    {k \in DOMAIN node[n].relays :
        Prompt => ~InTransit(node[n].relays[k].requester, node[n].relays[k].nonce)}

\* The node's record and the messages become those of the outcome o, within
\* the bounds on incarnations and messages in flight.
Commit(n, consumed, o) ==
    LET flying == (msgs \ consumed) \cup {m \in o.out : node[m.to].up}
    IN  /\ o.st.inc <= MaxInc
        /\ \A p \in Node : o.st.table[p].inc <= MaxInc
        /\ Cardinality(flying) <= MaxInFlight
        /\ node' = [node EXCEPT ![n] = o.st]
        /\ msgs' = flying
        /\ spent' = spent

\* The rest of a tick after the probe step o: at most one suspicion (None: no
\* one's) and one relay have expired.
FinishTick(n, o, p, k) ==
    \E dest \in IF p = None THEN {None} ELSE Destinations(o.st, p) :
        LET c == IF p = None THEN o ELSE ConfirmMember(n, o, p, dest)
        IN  Commit(n, {}, [c EXCEPT !.st.relays = DropRelay(@, k)])

Tick(n) ==
    /\ node[n].up
    /\ \E o \in {[st |-> node[n], out |-> {}]} \cup (IF ProbeDue(n) THEN ProbeStep(n, node[n]) ELSE {}),
          p \in {None} \cup Suspects(n), k \in {0} \cup RelaysDue(n) :
            FinishTick(n, o, p, k)

\* One frame is delivered and handled.
Receive(m, o) == node[m.to].up /\ Commit(m.to, {m}, o)

ReceivePing(m) == m.type = "ping" /\ Receive(m, OnPing(m.to, m))
ReceiveAck(m) == m.type = "ack" /\ Receive(m, OnAck(m.to, m))
ReceivePingReq(m) == m.type = "ping_req" /\ Receive(m, OnPingReq(m.to, m))
ReceiveGossip(m) == m.type = "gossip" /\ Receive(m, OnGossip(m.to, m))

\* A session to the peer p completes its handshake: observeAuthenticated.
SessionUp(n, p) ==
    /\ n # p /\ node[n].up /\ node[p].up
    /\ LET s == node[n]
           e == s.table[p]
       IN  Commit(n, {},
             [st |-> IF e.state = "absent" THEN ApplyEvent(n, s, Alive(p, 0))
                     ELSE IF e.state = "alive" THEN s ELSE RaisePeer(n, s, p),
              out |-> {}])

\* The transport loses a message; one to a node that is down is never delivered.
Lose(m) ==
    /\ spent.loss < MaxLoss
    /\ msgs' = msgs \ {m}
    /\ spent' = [spent EXCEPT !.loss = @ + 1]
    /\ UNCHANGED node

Crash(n) ==
    /\ node[n].up /\ spent.crash < MaxCrash
    /\ node' = [node EXCEPT ![n].up = FALSE]
    /\ msgs' = {m \in msgs : m.to # n}
    /\ spent' = [spent EXCEPT !.crash = @ + 1]

\* Nothing of the membership survives the process: incarnation 0, empty table.
Restart(n) ==
    /\ ~node[n].up /\ spent.restart < MaxRestart
    /\ node' = [node EXCEPT ![n] = Fresh(n, [p \in Node |-> Absent], FirstNonce[n])]
    /\ spent' = [spent EXCEPT !.restart = @ + 1]
    /\ UNCHANGED msgs

Next ==
    \/ \E n \in Node : Tick(n)
    \/ \E m \in msgs : ReceivePing(m)
    \/ \E m \in msgs : ReceiveAck(m)
    \/ \E m \in msgs : ReceivePingReq(m)
    \/ \E m \in msgs : ReceiveGossip(m)
    \/ \E n, p \in Node : SessionUp(n, p)
    \/ \E m \in msgs : Lose(m)
    \/ \E n \in Node : Crash(n)
    \/ \E n \in Node : Restart(n)

Spec == Init /\ [][Next]_vars

\* The parts of a tick and of the transport that must keep happening.
ProbeTick(n) ==
    /\ node[n].up /\ ProbeDue(n)
    /\ \E o \in ProbeStep(n, node[n]) : FinishTick(n, o, None, 0)

ProbeOf(n, t) ==
    /\ node[n].up /\ ProbeDue(n) /\ node[n].probe = None /\ t \in Held(node[n])
    /\ FinishTick(n, StartProbe(n, node[n], t), None, 0)

ExpiryTick(n, p) ==
    /\ node[n].up /\ p \in Suspects(n)
    /\ FinishTick(n, [st |-> node[n], out |-> {}], p, 0)

Deliver(n) ==
    \E m \in msgs : m.to = n /\ (ReceivePing(m) \/ ReceiveAck(m) \/ ReceivePingReq(m) \/ ReceiveGossip(m))

\* The loop ticks for ever, so probe timers and suspicion windows run out; the
\* probe order is a rotation, so every member's turn comes; what is not lost
\* is delivered.  Strong fairness, because the bound on messages in flight can
\* hold a step of the code back and let it go again.
FairSpec ==
    /\ Spec
    /\ \A n \in Node : WF_vars(Deliver(n))
    /\ \A n \in Prober : SF_vars(ProbeTick(n))
    /\ \A n \in Prober, p \in Node :
          n # p => SF_vars(ProbeOf(n, p)) /\ SF_vars(ExpiryTick(n, p))
-----------------------------------------------------------------------------
Probe == [target : Node, nonce : Nat, phase : {"direct", "indirect"}]

ASSUME NoneIsNoProbe == None \notin Probe

TypeOK ==
    /\ \A n \in Node :
         LET s == node[n]
         IN  /\ s.up \in BOOLEAN /\ s.inc \in 0 .. MaxInc /\ s.nonce \in Nat
             /\ \A p \in Node : s.table[p] \in Entry
             /\ s.ring \in Seq(Event) /\ Len(s.ring) <= RingCap
             /\ s.probe = None \/ s.probe \in Probe
             /\ Len(s.relays) <= RelayCap
    /\ \A m \in msgs : m.from # m.to /\ Len(m.events) <= RingCap

\* No gossip, relayed or replayed, ever enters a node into its own table
\* (swim.zig, apply and observe): every scan of the table would probe it.
NeverOwnMember == \A n \in Node : node[n].table[n] = Absent

\* What a node re-gossips never outruns what it holds: each event of the ring
\* is at most the row it is about, or this node's own incarnation (swim.zig,
\* the sites that disseminate an event whatever apply answered).
GossipHeldTrue ==
    \A n \in Node : \A k \in DOMAIN node[n].ring :
        LET e == node[n].ring[k]
        IN  IF e.id = n THEN e.state = "alive" /\ e.inc <= node[n].inc
            ELSE AtMost(e, node[n].table[e.id])

Restarts(n) == ~node[n].up /\ node'[n].up

\* Whatever the interleaving of gossip, probes, sessions and overrides, a row
\* only rises while the process lives (swim.zig, lattice).
TablesOnlyRise ==
    [][\A n \in Node : ~Restarts(n) =>
          \A p \in Node : AtMost(node[n].table[p], node'[n].table[p])]_vars

\* The messages a step delivered.
Delivered == {m \in msgs \ msgs' : spent' = spent}

\* A member is declared dead by a node only at the incarnation the node itself
\* suspected, unless a CONFIRM came to it from another (swim.zig, tick and
\* applyEventFrom): an alive member is never confirmed in one step.
ConfirmNeedsSuspicion ==
    [][\A n, p \in Node :
          LET new == node'[n].table[p]
          IN  (new.state = "dead" /\ node[n].table[p] # new)
              => \/ node[n].table[p] = [state |-> "suspect", inc |-> new.inc]
                 \/ \E m \in Delivered, k \in 1 .. RingCap :
                       m.to = n /\ k \in DOMAIN m.events /\ m.events[k] = Confirm(p, new.inc)]_vars

\* The message m is an ACK that this step delivers and that ends a probe.
EndsProbe(m) ==
    /\ m \in Delivered /\ m.type = "ack"
    /\ node[m.to].probe # None /\ node'[m.to].probe = None

\* An ACK that ends a probe was answered by the probe's target, relays and
\* late answers included (swim.zig, handle(.ack): "target-identity
\* disambiguates").
EvidenceGenuine == [][\A m \in msgs : EndsProbe(m) => m.by = node[m.to].probe.target]_vars

\* What comparing nonces does ensure: an ACK that ends a probe and is not its
\* target's answer serves a probe of another node that drew the same nonce;
\* no late, relayed or misrouted answer to a probe of the node's own deceives
\* it (swim.zig, handle(.ack), startProbe).
OwnEvidenceGenuine ==
    [][\A m \in msgs : EndsProbe(m) =>
          \/ m.by = node[m.to].probe.target
          \/ m.for # m.to /\ m.nonce = node[m.to].probe.nonce]_vars

\* A node that refutes a suspicion announces an incarnation that beats it
\* (swim.zig, module comment: it "refutes by broadcasting ALIVE with a bumped
\* incarnation").
RefutationWins ==
    [][\A m \in Delivered, k \in 1 .. RingCap :
          (k \in DOMAIN m.events /\ m.events[k].id = m.to /\ m.events[k].state = "suspect")
          => node'[m.to].inc > m.events[k].inc]_vars

\* The probes under way, by prober and nonce: outstanding, in flight, or in the
\* table of a relay.
UnderWay ==
    {<<a, node[a].probe.nonce>> : a \in {n \in Node : node[n].probe # None}}
    \cup {<<m.for, m.nonce>> : m \in {d \in msgs : d.type # "gossip"}}
    \cup UNION {{<<node[r].relays[k].requester, node[r].relays[k].nonce>> :
                     k \in DOMAIN node[r].relays} : r \in Node}

\* Two nodes have probes with one nonce under way.
NoncesClash == \E x, y \in UnderWay : x[2] = y[2] /\ x[1] # y[1]

NobodySuspected == \A n, p \in Node : n # p => node[n].table[p].state = "alive"

\* With nobody down and timeouts longer than the delays, a lost message makes
\* nobody suspect anybody, whatever probes of whom overlap, unless two of them
\* bear one nonce: the relays of PING_REQ answer for the target (swim.zig, tick
\* and handle(.ping_req)).
LossNeverSuspects == []~NoncesClash => []NobodySuspected

\* Once the losses stop, every node that probes comes to hold every live peer
\* it knows alive, and never leaves that again: no suspicion, confirmation or stale
\* gossip outlives the evidence of the probes (swim.zig, handle(.ack), apply).
LivePeersHeldAlive ==
    <>[](\A n \in Prober, p \in Node :
            (node[n].up /\ node[p].up) => node[n].table[p].state \in {"alive", "absent"})

\* A peer that stays down is held dead for ever by every node that probes
\* (swim.zig, tick, suspectMember and the suspicion sweep).
DownPeersHeldDead ==
    \A n \in Prober, p \in Node :
        <>[](node[n].up /\ ~node[p].up) => <>[](node[n].table[p].state \in {"dead", "absent"})
=============================================================================
