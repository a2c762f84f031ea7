------------------------------ MODULE Plumtree ------------------------------
(***************************************************************************)
(* src/plumtree.zig on every node, over sessions that may go and come      *)
(* back.  New messages are pushed to the eager peers and announced to the  *)
(* lazy ones; a duplicate push prunes its edge; an announced message that  *)
(* does not arrive is asked for; and now and then two nodes exchange the   *)
(* ids they hold.  Datagrams may be lost and overtake each other.          *)
(***************************************************************************)
EXTENDS Integers, Sequences, FiniteSets

CONSTANTS
    Node,
    SeenSize,       \* seen_cache: ids a node remembers
    CacheSize,      \* payload_cache: messages it can still send
    MaxMissing,     \* max_missing: announced ids it waits for
    MaxAsked,       \* max_iwant: requests that stand
    MaxPending,     \* max_pending_ihave: announcements not sent yet
    MaxIds,         \* max_ids_per_msg: ids a message names
    Publisher,      \* bound: the nodes that publish
    MaxPublish,     \* bound: messages one of them publishes
    MaxFaults       \* bound: datagrams lost, sessions broken, timers that do not
                    \* wait for the messages in flight

ASSUME SizeAssumption ==
    /\ IsFiniteSet(Node) /\ Publisher \subseteq Node
    /\ {MaxPublish, MaxFaults} \subseteq Nat
    /\ {SeenSize, CacheSize, MaxMissing, MaxAsked, MaxPending, MaxIds} \subseteq Nat \ {0}
    /\ CacheSize <= SeenSize

VARIABLES
    eager, lazy,    \* per node, its two sets of peers
    published,      \* per node, how many messages it has published (next_seq - 1)
    seen,           \* per node, the ring of ids it has seen, oldest first
    cache,          \* per node, the ring of ids whose payload it holds
    missing,        \* per node, announcements waited for: [id, from]
    asked,          \* per node, requests that stand: [id, from, nth], nth being
                    \* how many of the same stood before
    pending,        \* per node, announcements not sent yet: <<to, id>>
    link,           \* the sessions, as pairs of nodes
    net,            \* messages in flight; identical ones are one
    faults,         \* faults so far
    log             \* history: per node, what it published or delivered

peerVars   == <<eager, lazy>>
repairVars == <<missing, asked, pending>>
memoryVars == <<published, seen, cache, log>>
vars       == <<peerVars, repairVars, memoryVars, link, net, faults>>

----------------------------------------------------------------------------
\* The messages there can be: origin and number.
Id == Publisher \X (1 .. MaxPublish)

Announcement == [id : Id, from : Node]

Elements(s) == {s[i] : i \in DOMAIN s}

\* The smaller of two numbers.
Least(a, b) == IF a < b THEN a ELSE b

\* A ring of the given size takes an id: the oldest makes room.
Push(ring, size, id) == Append(IF Len(ring) < size THEN ring ELSE Tail(ring), id)

\* mark: for a gossip that it answers a request and goes over a stream, for an
\* exchange that it is the reply.
Message(type, from, to, ids, mark) ==
    [type |-> type, from |-> from, to |-> to, ids |-> ids, mark |-> mark]

Gossip(from, to, id, solicited) == Message("gossip", from, to, {id}, solicited)

\* Messages put in flight instead of those gone; without a session they are dropped.
Send(gone, messages) ==
    net' = (net \ gone) \cup {m \in messages : {m.from, m.to} \in link}

\* Deviation: off by one, the newest payload is not found.
CachedOlder(n) == {cache[n][i] : i \in 1 .. Len(cache[n]) - 1}

\* The ids whose payload n can still send.
Cached(n) == Elements(cache[n])

\* What n vouches for in an exchange: the newest it holds, as many as one message
\* names.
RecentIds(n) == {cache[n][i] : i \in {k \in DOMAIN cache[n] : k > Len(cache[n]) - MaxIds}}

Origin(id) == id[1]

Fault ==
    /\ faults < MaxFaults
    /\ faults' = faults + 1

\* Messages travel faster than timers run, and than nodes publish; the contrary
\* counts as a fault.
Calm == IF net = {} THEN UNCHANGED faults ELSE Fault

Init ==
    /\ link = {l \in SUBSET Node : Cardinality(l) = 2}
    /\ eager = [n \in Node |-> Node \ {n}]
    /\ lazy = [n \in Node |-> {}]
    /\ published = [n \in Node |-> 0]
    /\ seen = [n \in Node |-> <<>>]
    /\ cache = [n \in Node |-> <<>>]
    /\ missing = [n \in Node |-> {}]
    /\ asked = [n \in Node |-> {}]
    /\ pending = [n \in Node |-> {}]
    /\ net = {}
    /\ faults = 0
    /\ log = [n \in Node |-> <<>>]

----------------------------------------------------------------------------
(* Peers.                                                                   *)

\* n takes peer p off its eager set; lazy from now on.
Demote(n, p) ==
    IF p \in eager[n]
    THEN /\ eager' = [eager EXCEPT ![n] = @ \ {p}]
         /\ lazy' = [lazy EXCEPT ![n] = @ \cup {p}]
    ELSE UNCHANGED peerVars

\* n takes peer p, if lazy, back into its eager set.
Promote(n, p) ==
    /\ lazy' = [lazy EXCEPT ![n] = @ \ {p}]
    /\ eager' = [eager EXCEPT ![n] = IF p \in lazy[n] THEN @ \cup {p} ELSE @]

\* The session at n's end is reported lost.
RemovePeer(n, p) ==
    /\ p \in eager[n] \cup lazy[n]
    /\ {n, p} \notin link
    /\ eager' = [eager EXCEPT ![n] = @ \ {p}]
    /\ lazy' = [lazy EXCEPT ![n] = @ \ {p}]
    /\ UNCHANGED <<repairVars, memoryVars, link, faults, net>>

\* A peer of the active view that is in neither set becomes eager.
AddPeer(n, p) ==
    /\ {n, p} \in link
    /\ p \notin eager[n] \cup lazy[n]
    /\ eager' = [eager EXCEPT ![n] = @ \cup {p}]
    /\ UNCHANGED <<lazy, repairVars, memoryVars, link, faults, net>>

----------------------------------------------------------------------------
(* Messages.                                                                *)

\* n sees id for the first time, as far as it remembers.
MarkSeen(n, id) ==
    /\ seen' = [seen EXCEPT ![n] = Push(@, SeenSize, id)]
    /\ cache' = [cache EXCEPT ![n] = Push(@, CacheSize, id)]
    /\ log' = [log EXCEPT ![n] = Append(@, id)]

\* An id is to be announced to the peers, as far as there is room.
Queue(n, peers, id) ==
    \E told \in SUBSET peers :
       /\ Cardinality(told) = Least(Cardinality(peers), MaxPending - Cardinality(pending[n]))
       /\ pending' = [pending EXCEPT ![n] = @ \cup {<<p, id>> : p \in told}]

Publish(n) ==
    LET id == <<n, published[n] + 1>> IN
    /\ Calm
    /\ n \in Publisher /\ published[n] < MaxPublish
    /\ published' = [published EXCEPT ![n] = @ + 1]
    /\ MarkSeen(n, id)
    /\ Send({}, {Gossip(n, p, id, FALSE) : p \in eager[n]})
    /\ Queue(n, lazy[n], id)
    /\ UNCHANGED <<peerVars, missing, asked, link>>

\* How often n's question to p for id stands.
Standing(n, p, id) == Cardinality({x \in asked[n] : x.id = id /\ x.from = p})

Request(n, w, i) == [id |-> w.id, from |-> w.from, nth |-> Standing(n, w.from, w.id) + i]

\* One of n's requests like w is over, if there is any.
Drop(n, w) == asked' = [asked EXCEPT ![n] = @ \ {Request(n, w, -1)}]

\* The announcement of id is settled, and so is a request for it that went to p.
Settle(n, p, id) ==
    /\ missing' = [missing EXCEPT ![n] = {w \in @ : w.id # id}]
    /\ Drop(n, [id |-> id, from |-> p])

\* Whether n has asked p for id.
Solicited(n, p, id) == Standing(n, p, id) > 0

\* Deviation: only the newest id is compared.
SeenLast(n, id) == seen[n] # <<>> /\ id = seen[n][Len(seen[n])]

SeenId(n, id) == id \in Elements(seen[n])

\* A copy of a message that is still remembered: the edge it was pushed over is
\* redundant, at both ends.
Duplicate(m, id) ==
    /\ SeenId(m.to, id)
    /\ Settle(m.to, m.from, id)
    /\ IF m.from \in eager[m.to] /\ ~Solicited(m.to, m.from, id)
       THEN /\ Demote(m.to, m.from)
            /\ Send({m}, {Message("prune", m.to, m.from, {}, FALSE)})
       ELSE UNCHANGED peerVars /\ Send({m}, {})
    /\ UNCHANGED <<pending, memoryVars, link, faults>>

\* A new message is delivered and passed on.  If it was asked for of a lazy
\* peer, that one becomes eager before.
Fresh(m, id) ==
    LET n == m.to
        p == m.from
    IN
    /\ ~SeenId(n, id)
    /\ Settle(n, p, id)
    /\ MarkSeen(n, id)
    /\ IF Solicited(n, p, id) THEN Promote(n, p) ELSE UNCHANGED peerVars
    /\ Send({m}, {Gossip(n, q, id, FALSE) : q \in eager'[n] \ {p}})
    /\ Queue(n, lazy'[n] \ {p}, id)
    /\ UNCHANGED <<published, link, faults>>

ReceiveGossip(m) ==
    /\ m.type = "gossip"
    /\ \E id \in m.ids : Duplicate(m, id) \/ Fresh(m, id)

\* Deviation: the size of the table is not minded.
NoteAll(n, p, ids) ==
    missing' = [missing EXCEPT ![n] = @ \cup
                   {[id |-> id, from |-> p] :
                       id \in {i \in ids : Origin(i) # n /\ ~SeenId(n, i)
                                        /\ \A w \in missing[n] : w.id # i}}]

\* n notes which of the announced ids it waits for, as far as there is room.
NoteIhave(n, p, ids) ==
    LET new == {id \in ids : /\ Origin(id) # n
                             /\ ~SeenId(n, id)
                             /\ \A w \in missing[n] : w.id # id}
        room == MaxMissing - Cardinality(missing[n])
    IN \E noted \in SUBSET new :
          /\ Cardinality(noted) = Least(Cardinality(new), room)
          /\ missing' = [missing EXCEPT ![n] = @ \cup {[id |-> id, from |-> p] : id \in noted}]

ReceiveIhave(m) ==
    /\ m.type = "ihave"
    /\ NoteIhave(m.to, m.from, m.ids)
    /\ Send({m}, {})
    /\ UNCHANGED <<peerVars, asked, pending, memoryVars, link, faults>>

\* What is held is sent; the rest is named in an announcement.
ReceiveIwant(m) ==
    LET held == m.ids \cap Cached(m.to)
        rest == m.ids \ held
    IN
    /\ m.type = "iwant"
    /\ Send({m}, {Gossip(m.to, m.from, id, TRUE) : id \in held} \cup
                 (IF rest = {} THEN {} ELSE {Message("ihave", m.to, m.from, rest, FALSE)}))
    /\ UNCHANGED <<peerVars, repairVars, memoryVars, link, faults>>

ReceivePrune(m) ==
    /\ m.type = "prune"
    /\ Demote(m.to, m.from)
    /\ Send({m}, {})
    /\ UNCHANGED <<repairVars, memoryVars, link, faults>>

\* The first half of an exchange is answered, whoever sent it.
ReceiveExchange(m) ==
    /\ m.type = "exchange"
    /\ NoteIhave(m.to, m.from, m.ids)
    /\ Send({m}, IF m.mark THEN {}
                 ELSE {Message("exchange", m.to, m.from, RecentIds(m.to), TRUE)})
    /\ UNCHANGED <<peerVars, asked, pending, memoryVars, link, faults>>

Receive(m) ==
    \/ ReceiveGossip(m)
    \/ ReceiveIhave(m)
    \/ ReceiveIwant(m)
    \/ ReceivePrune(m)
    \/ ReceiveExchange(m)

----------------------------------------------------------------------------
(* The timers.  A tick at which several are due is several of these steps.  *)

\* Announcements of n that go to one peer in one message.
Batch(n) == {b \in SUBSET pending[n] : /\ Cardinality(b) \in 1 .. MaxIds
                                       /\ \A x, y \in b : x[1] = y[1]}

\* The announcements are sent, in as few messages to each peer as will do.
Flush(n) ==
    /\ Calm
    /\ pending[n] # {}
    /\ \E batches \in SUBSET Batch(n) :
          /\ UNION batches = pending[n]
          /\ \A b, c \in batches : b = c \/
                /\ b \cap c = {}
                /\ MaxIds \in {Cardinality(b), Cardinality(c)} \/ \A x \in b, y \in c : x[1] # y[1]
          /\ Send({}, UNION {{Message("ihave", n, x[1], {y[2] : y \in b}, FALSE) : x \in b} :
                                b \in batches})
    /\ pending' = [pending EXCEPT ![n] = {}]
    /\ UNCHANGED <<peerVars, missing, asked, memoryVars, link>>

\* A message has been missing for too long: it and others that the same peer
\* announced are asked for, as far as there is room; without room it is forgotten.
Ask(n, w) ==
    LET room == MaxAsked - Cardinality(asked[n])
        more == {x \in missing[n] : x.from = w.from} \ {w}
    IN
    /\ Calm
    /\ w \in missing[n]
    /\ \E also \in SUBSET more :
          /\ Cardinality(also) =
                IF room = 0 THEN 0 ELSE Least(Cardinality(more), Least(room, MaxIds) - 1)
          /\ missing' = [missing EXCEPT ![n] = @ \ ({w} \cup also)]
          /\ IF room = 0
             THEN UNCHANGED asked /\ Send({}, {})
             ELSE /\ asked' = [asked EXCEPT ![n] = @ \cup {Request(n, x, 0) : x \in {w} \cup also}]
                  /\ Send({}, {Message("iwant", n, w.from,
                                       {x.id : x \in {w} \cup also}, FALSE)})
    /\ UNCHANGED <<peerVars, pending, memoryVars, link>>

\* A request was not answered in time.
Lapse(n) ==
    /\ Calm
    /\ \E w \in asked[n] : Drop(n, w)
    /\ UNCHANGED <<peerVars, missing, pending, memoryVars, link, net>>

\* The periodic exchange, with a peer chosen at random.
Exchange(n, p) ==
    /\ Calm
    /\ p \in eager[n] \cup lazy[n]
    /\ Send({}, {Message("exchange", n, p, RecentIds(n), FALSE)})
    /\ UNCHANGED <<peerVars, repairVars, memoryVars, link>>

----------------------------------------------------------------------------
(* The transport.                                                           *)

\* A datagram is lost, or a stream fails, which is not tried again.
Lose(m) ==
    /\ Fault
    /\ net' = net \ {m}
    /\ UNCHANGED <<peerVars, repairVars, memoryVars, link>>

\* A session breaks with all that is in flight on it.
Break(l) ==
    /\ Fault
    /\ link' = link \ {l}
    /\ net' = {m \in net : {m.from, m.to} # l}
    /\ UNCHANGED <<peerVars, repairVars, memoryVars>>

\* Two nodes connect again after both noticed.
Connect(n, p) ==
    /\ n # p
    /\ {n, p} \notin link
    /\ p \notin eager[n] \cup lazy[n]
    /\ n \notin eager[p] \cup lazy[p]
    /\ link' = link \cup {{n, p}}
    /\ UNCHANGED <<peerVars, repairVars, memoryVars, faults, net>>

Timer(n) ==
    \/ Flush(n)
    \/ \E w \in missing[n] : Ask(n, w)
    \/ Lapse(n)
    \/ \E p \in Node : Exchange(n, p)

Next ==
    \/ \E n \in Node : Publish(n) \/ Timer(n)
    \/ \E n, p \in Node : RemovePeer(n, p) \/ AddPeer(n, p) \/ Connect(n, p)
    \/ \E m \in net : Receive(m) \/ Lose(m)
    \/ \E l \in link : Break(l)

Spec == Init /\ [][Next]_vars

\* What the timers of a node achieve, and the messages and sessions: announcements
\* are sent, no message is waited for and no request stands for ever, and an
\* exchange goes to every peer time and again, as it is chosen at random.
Fairness ==
    /\ WF_vars(\E m \in net : Receive(m))
    /\ WF_vars(\E n, p \in Node : RemovePeer(n, p) \/ AddPeer(n, p) \/ Connect(n, p))
    /\ \A n \in Node :
          /\ []<>(pending[n] = {})
          /\ \A w \in Announcement : []<>(w \notin missing[n])
          /\ []<>(Cardinality(asked[n]) < MaxAsked)
          /\ \A p \in Node \ {n} : []<><<Exchange(n, p)>>_vars

FairSpec == Spec /\ Fairness

----------------------------------------------------------------------------
TypeOK ==
    /\ \A n \in Node : eager[n] \cup lazy[n] \subseteq Node \ {n} /\ eager[n] \cap lazy[n] = {}
    /\ published \in [Node -> 0 .. MaxPublish]
    /\ \A n \in Node : Elements(seen[n]) \cup Elements(cache[n]) \subseteq Id
    /\ \A n \in Node : Len(seen[n]) <= SeenSize /\ Len(cache[n]) <= CacheSize
    /\ \A n \in Node : missing[n] \subseteq Announcement /\ Cardinality(missing[n]) <= MaxMissing
    /\ \A n \in Node : Cardinality(asked[n]) <= MaxAsked
    /\ \A n \in Node : pending[n] \subseteq Node \X Id /\ Cardinality(pending[n]) <= MaxPending
    /\ \A m \in net : Cardinality(m.ids) <= MaxIds
    /\ faults \in 0 .. MaxFaults

\* Whatever is lost, reordered, asked for twice or sent again after a session
\* came back: a node delivers only what was published, and nothing twice that its
\* ring of seen ids still has.
Promise == INSTANCE Broadcast WITH Window <- SeenSize
BroadcastPromise == Promise!Spec

\* A published message reaches every node, over the tree, by announcement and
\* request or by an exchange, unless a time comes when nobody names it in an
\* exchange any more (plumtree.zig, recentIds).
Repaired ==
    \A id \in Id : id[2] <= published[id[1]] ~>
        (\A n \in Node : id \in Elements(log[n])) \/ (\A n \in Node : id \notin RecentIds(n))
=============================================================================
