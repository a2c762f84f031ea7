----------------------------- MODULE HyParView -----------------------------
(***************************************************************************)
(* src/hyparview.zig on every node, with what src/node.zig does around it: *)
(* the views of a mesh of nodes that join through a contact, over sessions *)
(* that break and nodes that restart, beside a failure detector that may   *)
(* call a node dead wrongly.  Locality ranking is off, as by default.      *)
(***************************************************************************)
EXTENDS Integers, Sequences, FiniteSets

CONSTANTS
    Node,
    Seed,           \* the node the others are told to join; it has no contact
    ActiveMax,      \* per node
    ActiveMin, PassiveMax, MaxProposals,
    Ttl,            \* forward_join_ttl
    SampleSize,     \* shuffle_active + shuffle_passive
    MaxAttempts,    \* join_max_attempts
    MaxHaste,       \* bound: steps begun while messages are in flight
    MaxFaults       \* bound: breaks, restarts, wrong verdicts, losses, overtakings
                    \* and timeouts that do not wait for an answer

ASSUME SizeAssumption ==
    /\ IsFiniteSet(Node) /\ Seed \in Node
    /\ {MaxHaste, MaxFaults} \subseteq Nat
    /\ {PassiveMax, MaxProposals, Ttl, SampleSize, MaxAttempts} \subseteq Nat \ {0}
    /\ ActiveMax \in [Node -> Nat \ {0}]
    /\ ActiveMin \in Nat /\ \A n \in Node : ActiveMin <= ActiveMax[n]

VARIABLES
    view,       \* per node: active, passive, proposals (sets of peers) and join, the
                \* attempts made at joining, 0 when there is nothing to join
    link,       \* the sessions that work
    up,         \* per node, the peers it has a session with, as far as it knows
    dials,      \* sessions being opened
    member,     \* per node, the peers its failure detector knows: all it ever had a
                \* session with, gossip being left out
    gone,       \* those among them it holds dead
    net,        \* net[n][p]: messages from n to p in flight, oldest first
    haste, faults

swimVars == <<member, gone>>
vars == <<view, link, up, dials, swimVars, net, haste, faults>>

----------------------------------------------------------------------------
Other(n) == Node \ {n}

\* The messages: arg is the joiner or the sample, ttl the hops left.
Message(type, arg, ttl) == [type |-> type, arg |-> arg, ttl |-> ttl]
Plain(type) == Message(type, {}, 0)

Reliable == {"join", "join_ack", "neighbor_accept"}

Nothing == [p \in Node |-> <<>>]
To(p, m) == [Nothing EXCEPT ![p] = <<m>>]

\* rest is what is in flight before.  What n sends is dropped where it has no session, or where that is broken.
Sent(rest, n, mail) ==
    [rest EXCEPT ![n] = [p \in Node |-> IF p \in up[n] /\ {n, p} \in link
                                       THEN @[p] \o mail[p] ELSE @[p]]]

\* n goes on with view v, sends mail and dials the given peers it has no session with.
Step(rest, n, v, mail, connect) ==
    /\ view' = [view EXCEPT ![n] = v]
    /\ net' = Sent(rest, n, mail)
    /\ dials' = dials \cup {{n, p} : p \in connect \ up[n]}

\* The smaller of two numbers.
Least(a, b) == IF a < b THEN a ELSE b

Quiet == \A n, p \in Node : net[n][p] = <<>>

\* A behaviour has faults or steps in haste, not both (a bound).
Fault ==
    /\ faults < MaxFaults /\ haste = 0
    /\ faults' = faults + 1

\* Timers are slower than messages, except so often.
Calm ==
    \/ Quiet /\ UNCHANGED haste
    \/ ~Quiet /\ faults = 0 /\ haste < MaxHaste /\ haste' = haste + 1

\* A timeout waits for the answer, or is a fault.
Timeout ==
    \/ Quiet /\ UNCHANGED faults
    \/ ~Quiet /\ Fault

\* A node that has just started, told its contact.
Boot(n) ==
    [active |-> {}, passive |-> {}, proposals |-> {}, join |-> IF n = Seed THEN 0 ELSE 1]

Init ==
    /\ view = [n \in Node |-> Boot(n)]
    /\ link = {}
    /\ up = [n \in Node |-> {}]
    /\ dials = {{n, Seed} : n \in Other(Seed)}
    /\ member = [n \in Node |-> {}]
    /\ gone = [n \in Node |-> {}]
    /\ net = [n \in Node |-> Nothing]
    /\ haste = 0
    /\ faults = 0

----------------------------------------------------------------------------
(* The views; an operator gives the set of views that may come of v.        *)

\* The candidates in S become passive; a full view forgets any of its members.
MergePassive(v, n, S) ==
    LET new == S \ ({n} \cup v.active \cup v.passive)
        all == v.passive \cup new
    IN  IF Cardinality(all) <= PassiveMax
        THEN {[v EXCEPT !.passive = all]}
        ELSE {[v EXCEPT !.passive = kept] :
                 kept \in {k \in SUBSET all : Cardinality(k) = PassiveMax /\ k \cap new # {}}}

AddPassive(v, n, p) == MergePassive(v, n, {p})

\* p, if active, is passive from now on.
Demote(v, n, p) ==
    IF p \in v.active THEN AddPassive([v EXCEPT !.active = @ \ {p}], n, p) ELSE {v}

\* Deviation: the newcomer stays among the candidates.
EnterTwice(v, p) == [v EXCEPT !.active = @ \cup {p}, !.proposals = @ \ {p}]

Enter(v, p) ==
    [v EXCEPT !.active = @ \cup {p}, !.passive = @ \ {p}, !.proposals = @ \ {p}]

\* p becomes active at n; in a full view some other makes room.
AddActive(v, n, p) ==
    IF p \in v.active \cup {n} THEN {[view |-> v, evicted |-> {}]}
    ELSE IF Cardinality(v.active) < ActiveMax[n] THEN {[view |-> Enter(v, p), evicted |-> {}]}
    ELSE UNION {{[view |-> Enter(w, p), evicted |-> {q}] : w \in Demote(v, n, q)} :
                   q \in v.active}

\* Those who are evicted are told.
Farewell(evicted) ==
    [p \in Node |-> IF p \in evicted THEN <<Plain("disconnect")>> ELSE <<>>]

Unproposed(v, p) == [v EXCEPT !.proposals = @ \ {p}]

\* Deviation: only the proposal is dropped.
LostProposal(v, n, p) == {Unproposed(v, p)}

\* A session is lost.
Lost(v, n, p) == {Unproposed(w, p) : w \in Demote(v, n, p)}

CanPropose(v, n, p) ==
    /\ p \notin v.active \cup v.proposals \cup {n}
    /\ Cardinality(v.proposals) < MaxProposals

\* n asks p to be neighbours, if it may.
Propose(rest, n, v, p) ==
    IF CanPropose(v, n, p)
    THEN Step(rest, n, [v EXCEPT !.proposals = @ \cup {p}], To(p, Plain("neighbor")), {p})
    ELSE Step(rest, n, v, Nothing, {})

\* What n may say of its views to p: some of size of its peers, but for p.
Samples(v, p, size) ==
    LET all == v.active \cup v.passive
    IN  {s \ {p} : s \in {t \in SUBSET all : Cardinality(t) = Least(size, Cardinality(all))}}

----------------------------------------------------------------------------
(* Messages: n receives m from p; rest is what stays in flight.            *)

ReceiveJoin(rest, n, p, m) ==
    /\ m.type = "join"
    /\ IF p \in view[n].active
       THEN Step(rest, n, view[n], To(p, Plain("join_ack")), {})
       ELSE \E r \in AddActive(view[n], n, p) :
               Step(rest, n, r.view,
                    [q \in Node |->
                        IF q = p THEN <<Plain("join_ack")>>
                        ELSE IF q \in r.view.active THEN <<Message("forward_join", {p}, Ttl)>>
                        ELSE Farewell(r.evicted)[q]],
                    {})

\* Only the contact's answer counts, and only once.
ReceiveJoinAck(rest, n, p, m) ==
    /\ m.type = "join_ack"
    /\ IF view[n].join > 0 /\ p = Seed
       THEN \E r \in AddActive(view[n], n, p) :
               Step(rest, n, [r.view EXCEPT !.join = 0], Farewell(r.evicted), {})
       ELSE Step(rest, n, view[n], Nothing, {})

\* With room, the joiner is proposed to; without, it is passed on while it may travel.
ReceiveForwardJoin(rest, n, p, m) ==
    LET v == view[n]
        next == v.active \ {p}
    IN
    /\ m.type = "forward_join"
    /\ \E joiner \in m.arg :
          \/ /\ joiner = n
             /\ Step(rest, n, v, Nothing, {})
          \/ /\ joiner # n /\ Cardinality(v.active) < ActiveMax[n]
             /\ Propose(rest, n, v, joiner)
          \/ /\ joiner # n /\ Cardinality(v.active) >= ActiveMax[n]
             /\ m.ttl > 0
             /\ \E q \in next : Step(rest, n, v, To(q, Message("forward_join", {joiner}, m.ttl - 1)), {})
          \/ /\ joiner # n /\ Cardinality(v.active) >= ActiveMax[n]
             /\ m.ttl = 0 \/ next = {}
             /\ \E w \in AddPassive(v, n, joiner) : Step(rest, n, w, Nothing, {})

\* A proposal is urgent, so it is always accepted.
ReceiveNeighbor(rest, n, p, m) ==
    /\ m.type = "neighbor"
    /\ \E r \in AddActive(view[n], n, p) :
          Step(rest, n, r.view,
               [q \in Node |-> IF q = p THEN <<Plain("neighbor_accept")>> ELSE Farewell(r.evicted)[q]],
               {})

\* An answer to a proposal that has lapsed is ignored.
ReceiveNeighborAccept(rest, n, p, m) ==
    /\ m.type = "neighbor_accept"
    /\ IF p \in view[n].proposals
       THEN \E r \in AddActive(Unproposed(view[n], p), n, p) :
               Step(rest, n, r.view, Farewell(r.evicted), {})
       ELSE Step(rest, n, view[n], Nothing, {})

ReceiveDisconnect(rest, n, p, m) ==
    /\ m.type = "disconnect"
    /\ \E w \in AddPassive([view[n] EXCEPT !.active = @ \ {p}], n, p) : Step(rest, n, w, Nothing, {})

ReceiveShuffle(rest, n, p, m) ==
    /\ m.type = "shuffle"
    /\ \E w \in MergePassive(view[n], n, m.arg) :
          \E s \in Samples(w, p, Cardinality(m.arg)) :
             Step(rest, n, w, To(p, Message("shuffle_reply", s, 0)), {})

ReceiveShuffleReply(rest, n, p, m) ==
    /\ m.type = "shuffle_reply"
    /\ \E w \in MergePassive(view[n], n, m.arg) : Step(rest, n, w, Nothing, {})

\* n receives the i-th message that is on its way from p.
Receive(n, p, i) ==
    LET m == net[p][n][i]
        rest == [net EXCEPT ![p][n] = SubSeq(@, 1, i - 1) \o SubSeq(@, i + 1, Len(@))]
    IN
    /\ Len(net[p][n]) >= i
    /\ \/ ReceiveJoin(rest, n, p, m)
       \/ ReceiveJoinAck(rest, n, p, m)
       \/ ReceiveForwardJoin(rest, n, p, m)
       \/ ReceiveNeighbor(rest, n, p, m)
       \/ ReceiveNeighborAccept(rest, n, p, m)
       \/ ReceiveDisconnect(rest, n, p, m)
       \/ ReceiveShuffle(rest, n, p, m)
       \/ ReceiveShuffleReply(rest, n, p, m)
    /\ UNCHANGED <<link, up, swimVars, haste>>

\* Messages arrive in order.
Deliver(n, p) == Receive(n, p, 1) /\ UNCHANGED faults

\* Datagrams and streams overtake each other now and then.
Overtake(n, p) == Receive(n, p, 2) /\ Fault

----------------------------------------------------------------------------
(* Timers.  Whatever a tick of the node does, it ends with a look at the    *)
(* failure detector; a tick at which several timers are due is several.     *)

\* Peers held dead leave the views, peers held alive come into them.
Swept(v, n, dead) ==
    UNION {MergePassive([w EXCEPT !.passive = @ \ dead, !.proposals = @ \ dead], n, member[n] \ dead) :
              w \in MergePassive([v EXCEPT !.active = @ \ dead], n, v.active \cap dead)}

\* A tick of n that goes from v on.
Tick(n, v, mail, connect) ==
    /\ \E w \in Swept(v, n, gone[n]) : Step(net, n, w, mail, connect)
    /\ UNCHANGED <<link, up, swimVars>>

\* Deviation: joining ends after so many attempts, come what may.
GivesUpAnyway(v) == v.join >= MaxAttempts

\* Joining ends after so many attempts, but not while there is no neighbour.
GivesUp(v) == v.join >= MaxAttempts /\ v.active # {}

JoinRetry(n) ==
    LET v == view[n] IN
    /\ Timeout
    /\ v.join > 0
    /\ IF GivesUp(v)
       THEN Tick(n, [v EXCEPT !.join = 0], Nothing, {})
       ELSE Tick(n, [v EXCEPT !.join = IF @ < MaxAttempts THEN @ + 1 ELSE @],
                 To(Seed, Plain("join")), {Seed})
    /\ UNCHANGED haste

\* A proposal is not answered in time; the candidate stays one.
Lapse(n) ==
    /\ Timeout
    /\ \E p \in view[n].proposals : Tick(n, Unproposed(view[n], p), Nothing, {})
    /\ UNCHANGED haste

\* A node with too few neighbours proposes to a candidate.
Scan(n) ==
    LET v == view[n] IN
    /\ Calm
    /\ Cardinality(v.active) < ActiveMin
    /\ \E p \in v.passive :
          /\ CanPropose(v, n, p)
          /\ Tick(n, [v EXCEPT !.proposals = @ \cup {p}], To(p, Plain("neighbor")), {p})
    /\ UNCHANGED faults

Shuffle(n) ==
    LET v == view[n] IN
    /\ Calm
    /\ \E p \in v.active : \E s \in Samples(v, p, SampleSize - 1) :
          Tick(n, v, To(p, Message("shuffle", {n} \cup s, 0)), {})
    /\ UNCHANGED faults

\* A neighbour more than needed is dropped, to keep the mesh mixed.
Rotate(n) ==
    LET v == view[n] IN
    /\ Calm
    /\ Cardinality(v.active) > ActiveMin
    /\ \E p \in v.active : \E w \in Demote(v, n, p) : Tick(n, w, Farewell({p}), {})
    /\ UNCHANGED faults

\* No timer of the overlay is due; nodes tick for ever.
Sweep(n) ==
    /\ Calm
    /\ Tick(n, view[n], Nothing, {})
    /\ UNCHANGED faults

----------------------------------------------------------------------------
(* Sessions and the failure detector.                                       *)

\* Without one session of its own left, n may be reached again.
Cut(l) == [n \in Node |-> [p \in Node |-> IF {n, p} \in l THEN <<>> ELSE net[n][p]]]

\* A session opens: each end takes the other for alive, sends what it had to say
\* before, and a dial for it ends.
Connect(n, p) ==
    LET greeting(a, b) ==
            (IF view[a].join > 0 /\ b = Seed THEN <<Plain("join")>> ELSE <<>>) \o
            (IF b \in view[a].proposals THEN <<Plain("neighbor")>> ELSE <<>>)
    IN
    /\ {n, p} \in dials
    /\ p \notin up[n] /\ n \notin up[p]
    /\ link' = link \cup {{n, p}}
    /\ up' = [up EXCEPT ![n] = @ \cup {p}, ![p] = @ \cup {n}]
    /\ member' = [member EXCEPT ![n] = @ \cup {p}, ![p] = @ \cup {n}]
    /\ gone' = [gone EXCEPT ![n] = @ \ {p}, ![p] = @ \ {n}]
    /\ dials' = dials \ {{n, p}}
    /\ net' = [net EXCEPT ![n][p] = greeting(n, p), ![p][n] = greeting(p, n)]
    /\ UNCHANGED <<view, haste, faults>>

\* n learns that a session is broken.
SessionDown(n, p) ==
    /\ p \in up[n]
    /\ {n, p} \notin link
    /\ up' = [up EXCEPT ![n] = @ \ {p}]
    /\ \E w \in Lost(view[n], n, p) : view' = [view EXCEPT ![n] = w]
    /\ UNCHANGED <<link, dials, swimVars, net, haste, faults>>

\* A session breaks with all that is in flight on it.
Break(l) ==
    /\ Fault
    /\ link' = link \ {l}
    /\ net' = Cut({l})
    /\ UNCHANGED <<view, up, dials, swimVars, haste>>

\* A datagram is lost.
Lose(n, p) ==
    /\ Fault
    /\ net[n][p] # <<>>
    /\ Head(net[n][p]).type \notin Reliable
    /\ net' = [net EXCEPT ![n][p] = Tail(@)]
    /\ UNCHANGED <<view, link, up, dials, swimVars, haste>>

\* n crashes and starts anew; the others will find their sessions with it broken.
Restart(n) ==
    /\ Fault
    /\ view' = [view EXCEPT ![n] = Boot(n)]
    /\ link' = {l \in link : n \notin l}
    /\ net' = Cut({{n, p} : p \in Node})
    /\ up' = [up EXCEPT ![n] = {}]
    /\ member' = [member EXCEPT ![n] = {}]
    /\ gone' = [gone EXCEPT ![n] = {}]
    /\ dials' = {l \in dials : n \notin l} \cup (IF n = Seed THEN {} ELSE {{n, Seed}})
    /\ UNCHANGED haste

\* From now on n holds p dead, rightly or not.
Condemn(n, p) ==
    /\ Fault
    /\ p \in member[n] \ gone[n]
    /\ gone' = [gone EXCEPT ![n] = @ \cup {p}]
    /\ UNCHANGED <<link, up, dials, member, net, haste>>

\* The verdict of a tick of n: the end of that tick takes p out of the views.
Confirm(n, p) ==
    /\ Condemn(n, p)
    /\ \E w \in Swept(view[n], n, gone'[n]) : view' = [view EXCEPT ![n] = w]

\* A verdict that came with gossip: the next tick of n will see it.
HearConfirm(n, p) == Condemn(n, p) /\ UNCHANGED view

\* A service pass finds a session with a peer held dead and closes it; n is told at once.
CloseDead(n, p) ==
    /\ p \in gone[n]
    /\ {n, p} \in link
    /\ link' = link \ {{n, p}}
    /\ net' = Cut({{n, p}})
    /\ up' = [up EXCEPT ![n] = @ \ {p}]
    /\ \E w \in Lost(view[n], n, p) : view' = [view EXCEPT ![n] = w]
    /\ UNCHANGED <<dials, swimVars, haste, faults>>

\* The failure detector probes its members, the dead ones more rarely; that dials
\* one without a session.
Probe(n, p) ==
    /\ p \in member[n] \ up[n]
    /\ dials' = dials \cup {{n, p}}
    /\ UNCHANGED <<view, link, up, swimVars, net, haste, faults>>

Transport(n, p) ==
    \/ Deliver(n, p)
    \/ Connect(n, p)
    \/ SessionDown(n, p)
    \/ CloseDead(n, p)

Next ==
    \/ \E n, p \in Node : Transport(n, p) \/ Probe(n, p)
    \/ \E n \in Node : JoinRetry(n) \/ Lapse(n) \/ Scan(n) \/ Shuffle(n) \/ Rotate(n) \/ Sweep(n)
    \/ \E n, p \in Node : Overtake(n, p) \/ Lose(n, p) \/ Confirm(n, p) \/ HearConfirm(n, p)
    \/ \E n \in Node : Restart(n)
    \/ \E l \in link : Break(l)

Spec == Init /\ [][Next]_vars

\* What the timers of a node achieve, and messages and sessions: a proposal does not
\* stand for ever, a node with too few neighbours proposes, one that is to join has
\* or opens a session with its contact, every dial succeeds, the tick looks at the
\* failure detector, and that probes its members.
Fairness ==
    /\ \A n, p \in Node : WF_vars(Deliver(n, p) \/ SessionDown(n, p)) /\ WF_vars(CloseDead(n, p))
    /\ []<>(dials = {})
    /\ \A n \in Node :
          /\ []<>(view[n].proposals = {})
          /\ []<>(\/ Cardinality(view[n].active) >= ActiveMin
                  \/ view[n].passive = {}
                  \/ view[n].proposals # {})
          /\ []<>(\/ view[n].join = 0 \/ view[n].active # {}
                  \/ Seed \in up[n] \/ {n, Seed} \in dials)
          /\ []<>(\/ member[n] \subseteq gone[n] \cup view[n].active \cup view[n].passive
                  \/ Cardinality(view[n].passive) = PassiveMax)
          /\ \A p \in Other(n) : []<>(p \in up[n] \/ p \notin member[n] \/ {n, p} \in dials)

FairSpec == Spec /\ Fairness

----------------------------------------------------------------------------
TypeOK ==
    /\ \A n \in Node : LET v == view[n] IN
          /\ v.active \cup v.passive \cup v.proposals \subseteq Other(n)
          /\ v.active \cap (v.passive \cup v.proposals) = {}
          /\ gone[n] \cup up[n] \subseteq member[n]
          /\ Cardinality(v.active) <= ActiveMax[n]
          /\ Cardinality(v.passive) <= PassiveMax
          /\ Cardinality(v.proposals) <= MaxProposals
          /\ v.join \in 0 .. MaxAttempts
    /\ faults \in 0 .. MaxFaults /\ haste \in 0 .. MaxHaste

\* Every active edge is backed by a session: however joins, proposals, answers that
\* come late and losses of sessions interleave, a node counts no one as its neighbour
\* it has no session with, as far as it has been told.
Backed == \A n \in Node : view[n].active \subseteq up[n]

\* After whatever breaks, restarts and wrong verdicts, a node that runs has a
\* neighbour again.
Heals == \A n \in Node : []<>(view[n].active # {})
=============================================================================
