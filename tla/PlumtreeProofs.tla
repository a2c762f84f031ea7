--------------------------- MODULE PlumtreeProofs ---------------------------
(***************************************************************************)
(* That the broadcast tree implements the abstract broadcast, for every    *)
(* set of nodes and publishers and for every size of the rings and tables. *)
(***************************************************************************)
EXTENDS Plumtree, FiniteSetTheorems, SequenceTheorems, TLAPS

\* What has been published.
Known == {id \in Node \X Nat : id[2] \in 1 .. published[id[1]]}

\* Sessions are between nodes.
Linked == link \subseteq SUBSET Node

\* A node can send only what was published.
Memory ==
    /\ published \in [Node -> Nat]
    /\ log \in [Node -> Seq(Node \X Nat)]
    /\ seen \in [Node -> Seq(Node \X Nat)]
    /\ cache \in [Node -> Seq(Node \X Nat)]
    /\ \A n \in Node : Elements(cache[n]) \subseteq Known

\* Messages go from node to node, and a gossip carries what was published.
Carried ==
    \A m \in net :
        /\ m.from \in Node /\ m.to \in Node
        /\ m.type = "gossip" => m.ids \subseteq Known

\* A ring of the given size holds the end of a sequence.
EndOf(ring, all, size) ==
    /\ Len(ring) = Least(Len(all), size)
    /\ \A i \in 1 .. Len(ring) : ring[i] = all[Len(all) - Len(ring) + i]

\* The ring of seen ids is the end of what the node saw.
SeenIsRecent == \A n \in Node : EndOf(seen[n], log[n], SeenSize)

BroadcastInv == Linked /\ Memory /\ Carried /\ SeenIsRecent

----------------------------------------------------------------------------
(* The rings.                                                               *)

LEMMA PushKeepsType ==
    ASSUME NEW S, NEW ring \in Seq(S), NEW size \in Nat \ {0}, NEW id \in S
    PROVE  Push(ring, size, id) \in Seq(S)
<1>1. CASE Len(ring) < size
  BY <1>1 DEF Push
<1>2. CASE ~(Len(ring) < size)
  <2>1. ring # <<>>
    BY <1>2
  <2>2. Tail(ring) \in Seq(S)
    BY <2>1
  <2> QED BY <1>2, <2>2 DEF Push
<1> QED BY <1>1, <1>2

LEMMA PushKeepsEnd ==
    ASSUME NEW S, NEW ring \in Seq(S), NEW all \in Seq(S), NEW size \in Nat \ {0},
           NEW id \in S, EndOf(ring, all, size)
    PROVE  EndOf(Push(ring, size, id), Append(all, id), size)
<1> DEFINE new == Append(all, id)
<1>1. /\ Len(ring) \in Nat /\ Len(all) \in Nat /\ Len(new) = Len(all) + 1
      /\ \A i \in 1 .. Len(all) : new[i] = all[i]
      /\ new[Len(all) + 1] = id
  OBVIOUS
<1>2. CASE Len(ring) < size
  <2>1. Len(ring) = Len(all)
    BY <1>1, <1>2 DEF EndOf, Least
  <2>2. Push(ring, size, id) = Append(ring, id)
    BY <1>2 DEF Push
  <2> DEFINE longer == Append(ring, id)
  <2>3. /\ Len(longer) = Len(ring) + 1
        /\ \A i \in 1 .. Len(ring) : longer[i] = ring[i]
        /\ longer[Len(ring) + 1] = id
    OBVIOUS
  <2>4. \A i \in 1 .. Len(ring) : ring[i] = all[i]
    BY <1>1, <2>1 DEF EndOf
  <2> HIDE DEF longer, new
  <2>5. Len(longer) = Least(Len(new), size)
    BY <1>1, <1>2, <2>1, <2>3 DEF Least
  <2>6. \A i \in 1 .. Len(longer) : longer[i] = new[Len(new) - Len(longer) + i]
    BY <1>1, <2>1, <2>3, <2>4
  <2> QED BY <2>2, <2>5, <2>6 DEF EndOf, longer, new
<1>3. CASE ~(Len(ring) < size)
  <2> DEFINE t == Tail(ring)
  <2>1. Len(ring) = size /\ Len(all) >= size /\ ring # <<>>
    BY <1>1, <1>3 DEF EndOf, Least
  <2>2. t \in Seq(S) /\ Len(t) = size - 1 /\ \A i \in 1 .. size - 1 : t[i] = ring[i + 1]
    BY <2>1
  <2>3. Push(ring, size, id) = Append(t, id)
    BY <1>3 DEF Push
  <2>4. /\ Len(Append(t, id)) = size
        /\ \A i \in 1 .. size - 1 : Append(t, id)[i] = t[i]
        /\ Append(t, id)[size] = id
    BY <2>2
  <2>5. \A i \in 1 .. size - 1 : t[i] = new[Len(new) - size + i]
    <3> SUFFICES ASSUME NEW i \in 1 .. size - 1
                 PROVE  t[i] = new[Len(new) - size + i]
      OBVIOUS
    <3>1. ring[i + 1] = all[Len(all) - size + (i + 1)]
      BY <2>1 DEF EndOf
    <3> QED BY <1>1, <2>1, <2>2, <3>1
  <2>6. Append(t, id)[size] = new[Len(new) - size + size]
    BY <1>1, <2>4
  <2>7. \A i \in 1 .. size : Append(t, id)[i] = new[Len(new) - size + i]
    <3> SUFFICES ASSUME NEW i \in 1 .. size
                 PROVE  Append(t, id)[i] = new[Len(new) - size + i]
      OBVIOUS
    <3>1. CASE i \in 1 .. size - 1
      BY <2>4, <2>5, <3>1
    <3>2. CASE i = size
      BY <2>6, <3>2
    <3>3. i \in 1 .. size - 1 \/ i = size
      OBVIOUS
    <3> QED BY <3>1, <3>2, <3>3
  <2>8. Len(Append(t, id)) = Least(Len(new), size)
    BY <1>1, <2>1, <2>4 DEF Least
  <2> QED BY <2>3, <2>4, <2>7, <2>8 DEF EndOf
<1> QED BY <1>2, <1>3

LEMMA PushAddsOne ==
    ASSUME NEW S, NEW ring \in Seq(S), NEW size \in Nat \ {0}, NEW id \in S
    PROVE  Elements(Push(ring, size, id)) \subseteq Elements(ring) \cup {id}
<1>1. CASE Len(ring) < size
  BY <1>1 DEF Push, Elements
<1>2. CASE ~(Len(ring) < size)
  <2> DEFINE t == Tail(ring)
  <2>1. Len(ring) \in Nat /\ ring # <<>>
    BY <1>2
  <2>2. t \in Seq(S) /\ Len(t) = Len(ring) - 1 /\ \A i \in 1 .. Len(ring) - 1 : t[i] = ring[i + 1]
    BY <2>1
  <2>3. Push(ring, size, id) = Append(t, id)
    BY <1>2 DEF Push
  <2>4. \A i \in DOMAIN Append(t, id) : Append(t, id)[i] = id \/ \E j \in 1 .. Len(ring) : Append(t, id)[i] = ring[j]
    BY <2>1, <2>2
  <2>5. DOMAIN ring = 1 .. Len(ring)
    OBVIOUS
  <2> QED BY <2>3, <2>4, <2>5 DEF Elements
<1> QED BY <1>1, <1>2

LEMMA PlaceInRing ==
    ASSUME NEW total \in Nat, NEW held \in Nat, NEW size \in Nat, NEW j \in 1 .. total,
           j + size > total, held = total \/ (held = size /\ size <= total)
    PROVE  j - (total - held) \in 1 .. held /\ total - held + (j - (total - held)) = j
  OBVIOUS

\* What the abstract broadcast still remembers is in the ring.
LEMMA RecentIsSeen ==
    ASSUME SizeAssumption, Memory, SeenIsRecent, NEW n \in Node
    PROVE  Promise!Recent(n) \subseteq Elements(seen[n])
<1> DEFINE all == log[n]
           ring == seen[n]
<1>1. /\ Len(all) \in Nat /\ Len(ring) \in Nat /\ SeenSize \in Nat \ {0}
      /\ DOMAIN all = 1 .. Len(all) /\ DOMAIN ring = 1 .. Len(ring)
  BY DEF Memory, SizeAssumption
<1>2. /\ Len(ring) = Least(Len(all), SeenSize)
      /\ \A i \in 1 .. Len(ring) : ring[i] = all[Len(all) - Len(ring) + i]
  BY DEF SeenIsRecent, EndOf
<1>3. ASSUME NEW j \in 1 .. Len(all), j + SeenSize > Len(all)
      PROVE  \E i \in 1 .. Len(ring) : all[j] = ring[i]
  <2> DEFINE i == j - (Len(all) - Len(ring))
  <2>1. \/ Len(ring) = Len(all)
        \/ Len(ring) = SeenSize /\ SeenSize <= Len(all)
    BY <1>1, <1>2 DEF Least
  <2>2. i \in 1 .. Len(ring) /\ Len(all) - Len(ring) + i = j
    <3>1. /\ Len(all) \in Nat /\ Len(ring) \in Nat /\ SeenSize \in Nat
          /\ j \in 1 .. Len(all) /\ j + SeenSize > Len(all)
      BY <1>1, <1>3
    <3> HIDE DEF all, ring
    <3> QED BY <2>1, <3>1, PlaceInRing
  <2> HIDE DEF i
  <2> QED BY <1>2, <2>2
<1> QED BY <1>1, <1>3 DEF Promise!Recent, Elements

----------------------------------------------------------------------------
(* The steps.                                                               *)

LEMMA RememberKeeps ==
    ASSUME SizeAssumption, BroadcastInv, NEW n \in Node, NEW id \in Node \X Nat,
           MarkSeen(n, id), published' \in [Node -> Nat], Known \subseteq Known', id \in Known'
    PROVE  Memory' /\ SeenIsRecent'
<1>1. SeenSize \in Nat \ {0} /\ CacheSize \in Nat \ {0}
  BY DEF SizeAssumption
<1>2. /\ log \in [Node -> Seq(Node \X Nat)] /\ seen \in [Node -> Seq(Node \X Nat)]
      /\ cache \in [Node -> Seq(Node \X Nat)] /\ \A k \in Node : Elements(cache[k]) \subseteq Known
      /\ \A k \in Node : EndOf(seen[k], log[k], SeenSize)
  BY DEF BroadcastInv, Memory, SeenIsRecent
<1>3. /\ Push(seen[n], SeenSize, id) \in Seq(Node \X Nat)
      /\ Push(cache[n], CacheSize, id) \in Seq(Node \X Nat)
      /\ Append(log[n], id) \in Seq(Node \X Nat)
  <2>1. n \in Node /\ seen[n] \in Seq(Node \X Nat) /\ cache[n] \in Seq(Node \X Nat)
        /\ log[n] \in Seq(Node \X Nat)
    BY <1>2
  <2>2. Append(log[n], id) \in Seq(Node \X Nat)
    BY <2>1
  <2> QED BY <1>1, <2>1, <2>2, PushKeepsType
<1>4. EndOf(Push(seen[n], SeenSize, id), Append(log[n], id), SeenSize)
  BY <1>1, <1>2, PushKeepsEnd
<1>5. Elements(Push(cache[n], CacheSize, id)) \subseteq Known'
  <2>1. Elements(Push(cache[n], CacheSize, id)) \subseteq Elements(cache[n]) \cup {id}
    BY <1>1, <1>2, PushAddsOne
  <2> QED BY <1>2, <2>1
<1>6. /\ seen' = [seen EXCEPT ![n] = Push(seen[n], SeenSize, id)]
      /\ cache' = [cache EXCEPT ![n] = Push(cache[n], CacheSize, id)]
      /\ log' = [log EXCEPT ![n] = Append(log[n], id)]
  BY DEF MarkSeen
<1>7. \A k \in Node : Elements(cache'[k]) \subseteq Known'
  BY <1>2, <1>5, <1>6
<1>8. \A k \in Node : EndOf(seen'[k], log'[k], SeenSize)
  BY <1>2, <1>4, <1>6
<1>9. /\ log' \in [Node -> Seq(Node \X Nat)] /\ seen' \in [Node -> Seq(Node \X Nat)]
      /\ cache' \in [Node -> Seq(Node \X Nat)]
  BY <1>2, <1>3, <1>6
<1>10. \A k \in Node : Elements(cache[k])' = Elements(cache'[k])
  BY DEF Elements
<1> QED BY <1>7, <1>8, <1>9, <1>10 DEF Memory, SeenIsRecent

\* Sending keeps messages well-formed if the new gossip was published.
LEMMA SendKeepsCarried ==
    ASSUME Linked, Carried, Known \subseteq Known', NEW gone, NEW messages, Send(gone, messages),
           \A m \in messages : m.type = "gossip" => m.ids \subseteq Known'
    PROVE  Carried'
<1>1. \A m \in messages : {m.from, m.to} \in link => m.from \in Node /\ m.to \in Node
  BY DEF Linked
<1>2. \A m \in net' : m \in net \/ (m \in messages /\ {m.from, m.to} \in link)
  BY DEF Send
<1> QED BY <1>1, <1>2 DEF Carried

\* A step that leaves the memory alone is no step of the broadcast.
LEMMA QuietKeeps ==
    ASSUME BroadcastInv, UNCHANGED memoryVars, Linked', Carried'
    PROVE  BroadcastInv' /\ UNCHANGED <<published, log>>
<1>1. UNCHANGED <<published, seen, cache, log>>
  BY DEF memoryVars
<1>2. Known' = Known
  BY <1>1 DEF Known
<1>3. \A n \in Node : Elements(cache[n])' = Elements(cache[n])
  BY <1>1 DEF Elements
<1>4. Memory'
  BY <1>1, <1>2, <1>3 DEF BroadcastInv, Memory
<1>5. SeenIsRecent'
  <2>1. \A n \in Node : EndOf(seen'[n], log'[n], SeenSize)
    BY <1>1 DEF BroadcastInv, SeenIsRecent
  <2> QED BY <2>1 DEF SeenIsRecent
<1> QED BY <1>1, <1>4, <1>5 DEF BroadcastInv

LEMMA PublishKeeps ==
    ASSUME SizeAssumption, BroadcastInv, NEW n \in Node, Publish(n)
    PROVE  BroadcastInv' /\ Promise!Next
<1> DEFINE id == <<n, published[n] + 1>>
<1>1. /\ published \in [Node -> Nat] /\ published' = [published EXCEPT ![n] = published[n] + 1]
      /\ MarkSeen(n, id) /\ UNCHANGED link
      /\ Send({}, {Gossip(n, p, id, FALSE) : p \in eager[n]})
  BY DEF Publish, BroadcastInv, Memory
<1>2. id \in Node \X Nat /\ published' \in [Node -> Nat] /\ Known \subseteq Known' /\ id \in Known'
  BY <1>1 DEF Known
<1>3. Memory' /\ SeenIsRecent'
  <2> HIDE DEF id
  <2> QED BY <1>1, <1>2, RememberKeeps
<1>4. Carried'
  <2>1. \A m \in {Gossip(n, p, id, FALSE) : p \in eager[n]} : m.ids \subseteq Known'
    BY <1>2 DEF Gossip, Message
  <2> HIDE DEF id
  <2> QED BY <1>1, <1>2, <2>1, SendKeepsCarried DEF BroadcastInv
<1>5. Linked'
  BY <1>1 DEF BroadcastInv, Linked
<1>6. Promise!Publish(n)
  BY <1>1 DEF Promise!Publish, MarkSeen
<1> QED BY <1>3, <1>4, <1>5, <1>6 DEF BroadcastInv, Promise!Next

\* A delivery: the id came in a gossip, so it was published, and is not in the
\* ring, so it is none the abstract broadcast remembers.
LEMMA FreshKeeps ==
    ASSUME SizeAssumption, BroadcastInv, NEW m \in net, m.type = "gossip", NEW id \in m.ids,
           Fresh(m, id)
    PROVE  BroadcastInv' /\ Promise!Next
<1> DEFINE n == m.to
<1>1. n \in Node /\ id \in Known /\ id \in Node \X Nat
  BY DEF BroadcastInv, Carried, Known
<1>2. UNCHANGED <<published, link>> /\ Known' = Known /\ MarkSeen(n, id) /\ id \notin Elements(seen[n])
  BY DEF Fresh, Known, SeenId
<1>3. Memory' /\ SeenIsRecent'
  <2>1. published' \in [Node -> Nat]
    BY <1>2 DEF BroadcastInv, Memory
  <2> QED BY <1>1, <1>2, <2>1, RememberKeeps
<1>4. Carried'
  <2> DEFINE sent == {Gossip(n, q, id, FALSE) : q \in eager'[n] \ {m.from}}
  <2>1. Send({m}, sent)
    BY DEF Fresh
  <2>2. \A x \in sent : x.ids \subseteq Known'
    BY <1>1, <1>2 DEF Gossip, Message
  <2> HIDE DEF sent
  <2> QED BY <1>2, <2>1, <2>2, SendKeepsCarried DEF BroadcastInv
<1>5. Linked'
  BY <1>2 DEF BroadcastInv, Linked
<1>6. Promise!Deliver(n, id)
  <2>1. id \notin Promise!Recent(n)
    BY <1>1, <1>2, RecentIsSeen DEF BroadcastInv
  <2> QED BY <1>2, <2>1 DEF Promise!Deliver, MarkSeen
<1>7. PICK origin \in Node, k \in Nat : id = <<origin, k>> /\ k \in 1 .. published[origin]
  BY <1>1 DEF Known
<1> QED BY <1>1, <1>3, <1>4, <1>5, <1>6, <1>7 DEF BroadcastInv, Promise!Next

\* The steps that send nothing but requests, announcements and held payloads.
LEMMA ReceiveKeeps ==
    ASSUME SizeAssumption, BroadcastInv, NEW m \in net, Receive(m)
    PROVE  BroadcastInv' /\ [Promise!Next]_<<published, log>>
<1> DEFINE Kept == BroadcastInv' /\ [Promise!Next]_<<published, log>>
<1>0. /\ m.from \in Node /\ m.to \in Node /\ Linked /\ Carried
      /\ m.type = "gossip" => m.ids \subseteq Known
  BY DEF BroadcastInv, Carried
<1>1. ASSUME NEW messages, UNCHANGED <<memoryVars, link>>, Send({m}, messages),
             \A x \in messages : x.type = "gossip" => x.ids \subseteq Known
      PROVE  Kept
  <2>1. Known' = Known /\ Linked'
    BY <1>0, <1>1 DEF Known, memoryVars, Linked
  <2>2. Carried'
    BY <1>0, <1>1, <2>1, SendKeepsCarried
  <2> QED BY <1>1, <2>1, <2>2, QuietKeeps
<1>2. CASE ReceiveGossip(m)
  <2>1. PICK id \in m.ids : m.type = "gossip" /\ (Duplicate(m, id) \/ Fresh(m, id))
    BY <1>2 DEF ReceiveGossip
  <2>2. CASE Duplicate(m, id)
    <3>1. UNCHANGED <<memoryVars, link>>
      BY <2>2 DEF Duplicate
    <3>2. Send({m}, {Message("prune", m.to, m.from, {}, FALSE)}) \/ Send({m}, {})
      BY <2>2 DEF Duplicate
    <3> QED BY <1>1, <3>1, <3>2 DEF Message
  <2>3. CASE Fresh(m, id)
    BY <2>1, <2>3, FreshKeeps
  <2> QED BY <2>1, <2>2, <2>3
<1>3. CASE ReceiveIhave(m)
  BY <1>1, <1>3 DEF ReceiveIhave
<1>4. CASE ReceiveIwant(m)
  <2> DEFINE held == m.ids \cap Elements(cache[m.to])
             sent == {Gossip(m.to, m.from, id, TRUE) : id \in held} \cup
                     (IF m.ids \ held = {} THEN {}
                      ELSE {Message("ihave", m.to, m.from, m.ids \ held, FALSE)})
  <2>1. held \subseteq Known
    BY <1>0 DEF BroadcastInv, Memory
  <2>2. UNCHANGED <<memoryVars, link>> /\ Send({m}, sent)
    BY <1>4 DEF ReceiveIwant, Cached
  <2>3. \A x \in sent : x.type = "gossip" => x.ids \subseteq Known
    BY <2>1 DEF Gossip, Message
  <2> HIDE DEF sent
  <2> QED BY <1>1, <2>2, <2>3
<1>5. CASE ReceivePrune(m)
  BY <1>1, <1>5 DEF ReceivePrune
<1>6. CASE ReceiveExchange(m)
  <2> DEFINE sent == IF m.mark THEN {} ELSE {Message("exchange", m.to, m.from, RecentIds(m.to), TRUE)}
  <2>1. UNCHANGED <<memoryVars, link>> /\ Send({m}, sent)
    BY <1>6 DEF ReceiveExchange
  <2>2. \A x \in sent : x.type = "gossip" => x.ids \subseteq Known
    BY DEF Message
  <2> HIDE DEF sent
  <2> QED BY <1>1, <2>1, <2>2
<1> QED BY <1>2, <1>3, <1>4, <1>5, <1>6 DEF Receive

LEMMA TimerKeeps ==
    ASSUME SizeAssumption, BroadcastInv, NEW n \in Node, Timer(n)
    PROVE  BroadcastInv' /\ UNCHANGED <<published, log>>
<1> DEFINE Kept == BroadcastInv' /\ UNCHANGED <<published, log>>
<1>1. ASSUME NEW messages, UNCHANGED <<memoryVars, link>>, Send({}, messages),
             \A x \in messages : x.type # "gossip"
      PROVE  Kept
  <2>1. Known' = Known /\ Linked' /\ Linked /\ Carried
    BY <1>1 DEF Known, memoryVars, Linked, BroadcastInv
  <2>2. Carried'
    BY <1>1, <2>1, SendKeepsCarried
  <2> QED BY <1>1, <2>1, <2>2, QuietKeeps
<1>2. CASE Flush(n)
  <2>0. PICK batches \in SUBSET Batch(n) :
           Send({}, UNION {{Message("ihave", n, x[1], {y[2] : y \in b}, FALSE) : x \in b} :
                             b \in batches})
    BY <1>2 DEF Flush
  <2> DEFINE sent == UNION {{Message("ihave", n, x[1], {y[2] : y \in b}, FALSE) : x \in b} :
                              b \in batches}
  <2>1. UNCHANGED <<memoryVars, link>> /\ Send({}, sent)
    BY <1>2, <2>0 DEF Flush
  <2>2. \A x \in sent : x.type # "gossip"
    BY DEF Message
  <2> HIDE DEF sent
  <2> QED BY <1>1, <2>1, <2>2
<1>3. ASSUME NEW w \in missing[n], Ask(n, w)
      PROVE  Kept
  <2>1. UNCHANGED <<memoryVars, link>>
    BY <1>3 DEF Ask
  <2>2. \/ Send({}, {})
        \/ \E ids : Send({}, {Message("iwant", n, w.from, ids, FALSE)})
    BY <1>3 DEF Ask
  <2>3. CASE Send({}, {})
    BY <1>1, <2>1, <2>3
  <2>4. ASSUME NEW ids, Send({}, {Message("iwant", n, w.from, ids, FALSE)})
        PROVE  Kept
    <3> DEFINE sent == {Message("iwant", n, w.from, ids, FALSE)}
    <3>1. \A x \in sent : x.type # "gossip"
      BY DEF Message
    <3>2. Send({}, sent)
      BY <2>4
    <3> HIDE DEF sent
    <3> QED BY <1>1, <2>1, <3>1, <3>2
  <2> QED BY <2>2, <2>3, <2>4
<1>4. CASE Lapse(n)
  <2>1. UNCHANGED <<memoryVars, link, net>>
    BY <1>4 DEF Lapse
  <2>2. Known' = Known /\ Linked' /\ Carried'
    BY <2>1 DEF Known, memoryVars, Linked, Carried, BroadcastInv
  <2> QED BY <2>1, <2>2, QuietKeeps
<1>5. ASSUME NEW p \in Node, Exchange(n, p)
      PROVE  Kept
  <2>1. UNCHANGED <<memoryVars, link>> /\ Send({}, {Message("exchange", n, p, RecentIds(n), FALSE)})
    BY <1>5 DEF Exchange
  <2> QED BY <1>1, <2>1 DEF Message
<1> QED BY <1>2, <1>3, <1>4, <1>5 DEF Timer

LEMMA TransportKeeps ==
    ASSUME BroadcastInv, UNCHANGED memoryVars, net' \subseteq net, link' \subseteq SUBSET Node
    PROVE  BroadcastInv' /\ UNCHANGED <<published, log>>
<1>1. Known' = Known
  BY DEF Known, memoryVars
<1>2. Linked' /\ Carried'
  BY <1>1 DEF Linked, Carried, BroadcastInv
<1> QED BY <1>2, QuietKeeps

\* Every step of the tree is a step of the broadcast or of none.
LEMMA StepKeeps ==
    ASSUME SizeAssumption, BroadcastInv, [Next]_vars
    PROVE  BroadcastInv' /\ [Promise!Next]_<<published, log>>
<1> DEFINE Kept == BroadcastInv' /\ [Promise!Next]_<<published, log>>
<1>0. link \subseteq SUBSET Node
  BY DEF BroadcastInv, Linked
<1>1. ASSUME NEW n \in Node, Publish(n) PROVE Kept
  BY <1>1, PublishKeeps
<1>2. ASSUME NEW n \in Node, Timer(n) PROVE Kept
  BY <1>2, TimerKeeps
<1>3. ASSUME NEW n \in Node, NEW p \in Node, RemovePeer(n, p) \/ AddPeer(n, p) PROVE Kept
  BY <1>0, <1>3, TransportKeeps DEF RemovePeer, AddPeer
<1>4. ASSUME NEW n \in Node, NEW p \in Node, Connect(n, p) PROVE Kept
  BY <1>0, <1>4, TransportKeeps DEF Connect
<1>5. ASSUME NEW m \in net, Receive(m) PROVE Kept
  BY <1>5, ReceiveKeeps
<1>6. ASSUME NEW m \in net, Lose(m) PROVE Kept
  <2>1. UNCHANGED <<memoryVars, link>> /\ net' \subseteq net
    BY <1>6 DEF Lose
  <2> QED BY <1>0, <2>1, TransportKeeps
<1>7. ASSUME NEW l \in link, Break(l) PROVE Kept
  BY <1>0, <1>7, TransportKeeps DEF Break
<1>8. CASE UNCHANGED vars
  BY <1>0, <1>8, TransportKeeps DEF vars
<1> QED BY <1>1, <1>2, <1>3, <1>4, <1>5, <1>6, <1>7, <1>8 DEF Next

LEMMA InitKeeps ==
    ASSUME SizeAssumption, Init
    PROVE  BroadcastInv /\ Promise!Init
<1>1. SeenSize \in Nat
  BY DEF SizeAssumption
<1>2. Linked /\ Carried
  BY DEF Init, Linked, Carried
<1>3. Memory
  BY DEF Init, Memory, Elements
<1>4. SeenIsRecent
  BY <1>1 DEF Init, SeenIsRecent, EndOf, Least
<1> QED BY <1>2, <1>3, <1>4 DEF BroadcastInv, Init, Promise!Init

----------------------------------------------------------------------------
(* The theorems.                                                            *)

\* The rings and what is in flight on every node, at every time: only published
\* messages are held and carried, and the ring of seen ids is the end of what the
\* node saw (markSeen and recordPayload of plumtree.zig).
THEOREM BroadcastInvariant == Spec => []BroadcastInv
<1>1. Init => BroadcastInv
  BY InitKeeps, SizeAssumption
<1>2. BroadcastInv /\ [Next]_vars => BroadcastInv'
  BY StepKeeps, SizeAssumption
<1> QED BY <1>1, <1>2, PTL DEF Spec

\* The tree implements the broadcast: whatever is lost, reordered, pruned, asked for
\* or exchanged, a node delivers only what was published, and nothing that its
\* ring of seen ids still has (handleGossip of plumtree.zig).
THEOREM TreeImplementsBroadcast == Spec => BroadcastPromise
<1>1. Init => Promise!Init
  BY InitKeeps, SizeAssumption
<1>2. BroadcastInv /\ [Next]_vars => [Promise!Next]_<<published, log>>
  BY StepKeeps, SizeAssumption
<1> QED BY <1>1, <1>2, BroadcastInvariant, PTL DEF Spec, BroadcastPromise, Promise!Spec

----------------------------------------------------------------------------
(* The tables beside the memory: whatever a node waits for, is to announce  *)
(* or sends was published, and the tables keep their bounds.                *)

TwoEnds == \A n, p \in Node : {n, p} \in link => n # p

Peers ==
    /\ eager \in [Node -> SUBSET Node] /\ lazy \in [Node -> SUBSET Node]
    /\ \A n \in Node : n \notin eager[n] \cup lazy[n] /\ eager[n] \cap lazy[n] = {}

Numbered ==
    \A n \in Node : published[n] <= MaxPublish /\ (n \notin Publisher => published[n] = 0)

Rings ==
    /\ \A n \in Node : Len(cache[n]) <= CacheSize
    /\ \A n \in Node : Elements(seen[n]) \subseteq Known

\* What a message can name.
Short(ids) == ids \subseteq Known /\ Cardinality(ids) <= MaxIds

Named == \A m \in net : Short(m.ids)

Waiting ==
    /\ missing \in [Node -> SUBSET [id : Known, from : Node]]
    /\ \A n \in Node : IsFiniteSet(missing[n]) /\ Cardinality(missing[n]) <= MaxMissing

Asking ==
    /\ DOMAIN asked = Node
    /\ \A n \in Node : IsFiniteSet(asked[n]) /\ Cardinality(asked[n]) <= MaxAsked

Announcing ==
    /\ pending \in [Node -> SUBSET (Node \X Known)]
    /\ \A n \in Node : IsFiniteSet(pending[n]) /\ Cardinality(pending[n]) <= MaxPending

Faulty == faults \in 0 .. MaxFaults

TableInv ==
    /\ TwoEnds /\ Peers /\ Numbered /\ Rings /\ Named /\ Waiting /\ Asking /\ Announcing
    /\ Faulty

IInv == BroadcastInv /\ TableInv

\* There are finitely many ids.
LEMMA KnownIsFinite ==
    ASSUME SizeAssumption, Memory, Numbered
    PROVE  Known \subseteq Id /\ IsFiniteSet(Known)
<1>1. Known \subseteq Id
  BY DEF SizeAssumption, Memory, Numbered, Known, Id
<1>2. IsFiniteSet(Publisher) /\ IsFiniteSet(1 .. MaxPublish)
  <2>1. IsFiniteSet(Publisher)
    BY FS_Subset DEF SizeAssumption
  <2>2. 1 \in Int /\ MaxPublish \in Int
    BY DEF SizeAssumption
  <2> QED BY <2>1, <2>2, FS_Interval
<1>3. IsFiniteSet(Id)
  BY <1>2, FS_Product DEF Id
<1> QED BY <1>1, <1>3, FS_Subset

\* A set of things of which each is made of a member of S is no larger than S.
LEMMA ImageSize ==
    ASSUME NEW S, IsFiniteSet(S), NEW f, DOMAIN f = S
    PROVE  LET T == {f[x] : x \in S}
           IN  IsFiniteSet(T) /\ Cardinality(T) <= Cardinality(S)
<1> DEFINE T == {f[x] : x \in S}
           g == [x \in S |-> f[x]]
<1>1. g \in Surjection(S, T)
  BY DEF Surjection
<1> QED BY <1>1, FS_Surjection

LEMMA PushSize ==
    ASSUME NEW S, NEW ring \in Seq(S), NEW size \in Nat \ {0}, NEW id, Len(ring) <= size
    PROVE  Len(Push(ring, size, id)) <= size
<1>1. CASE Len(ring) < size
  BY <1>1 DEF Push
<1>2. CASE ~(Len(ring) < size)
  <2>1. ring # <<>> /\ Len(ring) = size
    BY <1>2
  <2>2. Len(Tail(ring)) = size - 1 /\ Tail(ring) \in Seq(S)
    BY <2>1
  <2>3. Push(ring, size, id) = Append(Tail(ring), id)
    BY <1>2 DEF Push
  <2> QED BY <2>2, <2>3
<1> QED BY <1>1, <1>2

LEMMA SendNames ==
    ASSUME Named, Known \subseteq Known', NEW messages, NEW gone, Send(gone, messages),
           \A m \in messages : m.ids \subseteq Known' /\ Cardinality(m.ids) <= MaxIds
    PROVE  Named'
  BY DEF Named, Short, Send

LEMMA FewAreShort ==
    ASSUME NEW id, NEW m, m = {} \/ m = {id}
    PROVE  Cardinality(m) <= MaxIds
<1>1. Cardinality({}) = 0 /\ Cardinality({id}) = 1
  BY FS_EmptySet, FS_Singleton
<1>2. MaxIds \in Nat \ {0}
  BY SizeAssumption DEF SizeAssumption
<1> QED BY <1>1, <1>2

\* An exchange names as many ids as a message can.
LEMMA RecentIsShort ==
    ASSUME BroadcastInv, NEW n \in Node
    PROVE  Short(RecentIds(n))
<1> DEFINE ring == cache[n]
           places == {k \in DOMAIN ring : k > Len(ring) - MaxIds}
           f == [k \in places |-> ring[k]]
           T == {f[k] : k \in places}
           last == (Len(ring) - MaxIds + 1) .. Len(ring)
<1>1. Len(ring) \in Nat /\ DOMAIN ring = 1 .. Len(ring) /\ MaxIds \in Nat \ {0}
      /\ Elements(ring) \subseteq Known
  BY SizeAssumption DEF BroadcastInv, Memory, SizeAssumption
<1>2. RecentIds(n) = T
  BY DEF RecentIds
<1>3. T \subseteq Known
  BY <1>1 DEF Elements
<1>4. places \subseteq last
  BY <1>1
<1>5. IsFiniteSet(last) /\ Cardinality(last) = MaxIds
  <2> DEFINE a == Len(ring) - MaxIds + 1
             b == Len(ring)
  <2>1. a \in Int /\ b \in Int /\ ~(a > b) /\ b - a + 1 = MaxIds
    BY <1>1
  <2> HIDE DEF a, b
  <2>2. IsFiniteSet(a .. b) /\ Cardinality(a .. b) = IF a > b THEN 0 ELSE b - a + 1
    BY <2>1, FS_Interval
  <2> QED BY <2>1, <2>2 DEF a, b
<1> HIDE DEF last
<1>6. IsFiniteSet(places) /\ Cardinality(places) <= Cardinality(last)
  BY <1>4, <1>5, FS_Subset
<1>7. IsFiniteSet(T) /\ Cardinality(T) <= Cardinality(places)
  <2>1. DOMAIN f = places
    OBVIOUS
  <2> HIDE DEF places, f
  <2> QED BY <1>6, <2>1, ImageSize
<1> HIDE DEF T, places, ring
<1>8. Cardinality(T) \in Nat /\ Cardinality(places) \in Nat /\ Cardinality(last) \in Nat
  BY <1>5, <1>6, <1>7, FS_CardinalityType
<1>9. Cardinality(T) <= MaxIds
  BY <1>1, <1>5, <1>6, <1>7, <1>8
<1> QED BY <1>2, <1>3, <1>9 DEF Short

\* What is left of a message's ids is no more.
LEMMA FewerAreShort ==
    ASSUME BroadcastInv, TableInv, NEW ids, Short(ids), NEW left, left \subseteq ids
    PROVE  Short(left)
<1>1. IsFiniteSet(Known)
  BY SizeAssumption, KnownIsFinite DEF BroadcastInv, TableInv
<1>2. IsFiniteSet(ids)
  BY <1>1, FS_Subset DEF Short
<1>3. IsFiniteSet(left) /\ Cardinality(left) <= Cardinality(ids)
  BY <1>2, FS_Subset
<1>4. Cardinality(left) \in Nat /\ Cardinality(ids) \in Nat /\ MaxIds \in Nat
  BY <1>2, <1>3, FS_CardinalityType, SizeAssumption DEF SizeAssumption
<1>5. Cardinality(left) <= MaxIds
  BY <1>3, <1>4 DEF Short
<1> QED BY <1>5 DEF Short

\* What is queued fits.
LEMMA QueueKeeps ==
    ASSUME Announcing, NEW n \in Node, NEW peers \in SUBSET Node, NEW id, Queue(n, peers, id),
           Known \subseteq Known', id \in Known'
    PROVE  Announcing'
<1>1. PICK told \in SUBSET peers :
         /\ Cardinality(told) = Least(Cardinality(peers), MaxPending - Cardinality(pending[n]))
         /\ pending' = [pending EXCEPT ![n] = @ \cup {<<p, id>> : p \in told}]
  BY DEF Queue
<1> DEFINE f == [p \in told |-> <<p, id>>]
           T == {f[p] : p \in told}
<1>2. /\ pending' = [pending EXCEPT ![n] = pending[n] \cup T]
      /\ pending \in [Node -> SUBSET (Node \X Known')]
  <2>1. T = {<<p, id>> : p \in told}
    OBVIOUS
  <2>2. \A k \in Node : pending[k] \in SUBSET (Node \X Known')
    BY DEF Announcing
  <2> HIDE DEF T
  <2>3. pending' = [pending EXCEPT ![n] = pending[n] \cup T]
    BY <1>1, <2>1
  <2> QED BY <2>2, <2>3 DEF Announcing
<1>3. T \in SUBSET (Node \X Known')
  OBVIOUS
<1>4. IsFiniteSet(told) /\ IsFiniteSet(peers)
  BY FS_Subset, SizeAssumption DEF SizeAssumption
<1>5. IsFiniteSet(T) /\ Cardinality(T) <= Cardinality(told)
  <2>1. DOMAIN f = told
    OBVIOUS
  <2> HIDE DEF f
  <2> QED BY <1>4, <2>1, ImageSize
<1> HIDE DEF T
<1>6. /\ IsFiniteSet(pending[n]) /\ Cardinality(pending[n]) \in Nat
      /\ Cardinality(pending[n]) <= MaxPending /\ MaxPending \in Nat
      /\ Cardinality(told) \in Nat /\ Cardinality(peers) \in Nat /\ Cardinality(T) \in Nat
  BY <1>4, <1>5, FS_CardinalityType, SizeAssumption DEF Announcing, SizeAssumption
<1>7. /\ IsFiniteSet(pending[n] \cup T) /\ IsFiniteSet(pending[n] \cap T)
      /\ Cardinality(pending[n] \cup T) =
           Cardinality(pending[n]) + Cardinality(T) - Cardinality(pending[n] \cap T)
  BY <1>5, <1>6, FS_Union, FS_Intersection
<1>8. Cardinality(pending[n] \cup T) \in Nat /\ Cardinality(pending[n] \cap T) \in Nat
  BY <1>7, FS_CardinalityType
<1>9. Cardinality(told) <= MaxPending - Cardinality(pending[n])
  BY <1>1, <1>6 DEF Least
<1>10. Cardinality(pending[n] \cup T) <= MaxPending
  BY <1>5, <1>6, <1>7, <1>8, <1>9
<1>11. pending' \in [Node -> SUBSET (Node \X Known')]
  BY <1>2, <1>3
<1>12. \A k \in Node : IsFiniteSet(pending'[k]) /\ Cardinality(pending'[k]) <= MaxPending
  BY <1>2, <1>7, <1>10 DEF Announcing
<1> QED BY <1>11, <1>12 DEF Announcing

\* Fewer are waited for.
LEMMA FewerWait ==
    ASSUME Waiting, NEW n \in Node, NEW left, left \subseteq missing[n],
           missing' = [missing EXCEPT ![n] = left], Known \subseteq Known'
    PROVE  Waiting'
<1>1. IsFiniteSet(left) /\ Cardinality(left) <= Cardinality(missing[n])
      /\ Cardinality(left) \in Nat /\ Cardinality(missing[n]) \in Nat
  BY FS_Subset, FS_CardinalityType DEF Waiting
<1>2. \A k \in Node : missing'[k] \subseteq missing[k]
  BY DEF Waiting
<1>3. missing' \in [Node -> SUBSET [id : Known', from : Node]]
  <2>1. \A k \in Node : missing'[k] \in SUBSET [id : Known', from : Node]
    BY <1>2 DEF Waiting
  <2> QED BY <2>1 DEF Waiting
<1>4. ASSUME NEW k \in Node
      PROVE  IsFiniteSet(missing'[k]) /\ Cardinality(missing'[k]) <= MaxMissing
  BY <1>1, SizeAssumption DEF Waiting, SizeAssumption
<1> QED BY <1>3, <1>4 DEF Waiting

LEMMA DropKeeps ==
    ASSUME Asking, NEW n \in Node, NEW w, Drop(n, w)
    PROVE  Asking'
<1>1. asked' = [asked EXCEPT ![n] = asked[n] \ {Request(n, w, -1)}]
  BY DEF Drop
<1>2. /\ IsFiniteSet(asked[n] \ {Request(n, w, -1)})
      /\ Cardinality(asked[n] \ {Request(n, w, -1)}) <= Cardinality(asked[n])
      /\ Cardinality(asked[n] \ {Request(n, w, -1)}) \in Nat
      /\ Cardinality(asked[n]) \in Nat
  BY FS_Subset, FS_CardinalityType DEF Asking
<1> QED BY <1>1, <1>2, SizeAssumption DEF Asking, SizeAssumption

LEMMA SettleKeeps ==
    ASSUME Waiting, Asking, Known \subseteq Known', NEW n \in Node, NEW p, NEW id, Settle(n, p, id)
    PROVE  Waiting' /\ Asking'
<1>1. missing' = [missing EXCEPT ![n] = {w \in missing[n] : w.id # id}]
  BY DEF Settle
<1> QED BY <1>1, FewerWait, DropKeeps DEF Settle

LEMMA DemoteKeeps ==
    ASSUME Peers, NEW n \in Node, NEW p, Demote(n, p)
    PROVE  Peers'
<1>1. CASE p \in eager[n]
  <2>1. /\ eager' = [eager EXCEPT ![n] = eager[n] \ {p}]
        /\ lazy' = [lazy EXCEPT ![n] = lazy[n] \cup {p}]
    BY <1>1 DEF Demote
  <2> QED BY <1>1, <2>1 DEF Peers
<1>2. CASE p \notin eager[n]
  BY <1>2 DEF Demote, peerVars, Peers
<1> QED BY <1>1, <1>2

LEMMA PromoteKeeps ==
    ASSUME Peers, NEW n \in Node, NEW p, Promote(n, p)
    PROVE  Peers'
<1> DEFINE e == IF p \in lazy[n] THEN eager[n] \cup {p} ELSE eager[n]
<1>1. eager' = [eager EXCEPT ![n] = e] /\ lazy' = [lazy EXCEPT ![n] = lazy[n] \ {p}]
  BY DEF Promote
<1>2. e \in SUBSET Node /\ n \notin e /\ e \cap (lazy[n] \ {p}) = {}
  BY DEF Peers
<1> HIDE DEF e
<1> QED BY <1>1, <1>2 DEF Peers

\* What is noted has been named by another and fits.
LEMMA NoteKeeps ==
    ASSUME SizeAssumption, BroadcastInv, TableInv, NEW n \in Node, NEW p \in Node,
           NEW ids, ids \subseteq Known, NoteIhave(n, p, ids), Known' = Known
    PROVE  Waiting'
<1> DEFINE new == {id \in ids : /\ Origin(id) # n
                                /\ ~SeenId(n, id)
                                /\ \A w \in missing[n] : w.id # id}
           room == MaxMissing - Cardinality(missing[n])
<1>1. PICK noted \in SUBSET new :
         /\ Cardinality(noted) = Least(Cardinality(new), room)
         /\ missing' = [missing EXCEPT ![n] = @ \cup {[id |-> id, from |-> p] : id \in noted}]
  BY DEF NoteIhave
<1> DEFINE f == [id \in noted |-> [id |-> id, from |-> p]]
           T == {f[id] : id \in noted}
<1>2. missing \in [Node -> SUBSET [id : Known, from : Node]] /\ MaxMissing \in Nat
  BY DEF TableInv, Waiting, SizeAssumption
<1>3. missing' = [missing EXCEPT ![n] = missing[n] \cup T]
  BY <1>1, <1>2
<1>4. noted \subseteq Known /\ T \in SUBSET [id : Known, from : Node]
  OBVIOUS
<1>5. IsFiniteSet(noted) /\ IsFiniteSet(new)
  <2>1. IsFiniteSet(Known)
    BY KnownIsFinite DEF BroadcastInv, TableInv
  <2>2. new \subseteq Known
    OBVIOUS
  <2> HIDE DEF new
  <2> QED BY <1>4, <2>1, <2>2, FS_Subset
<1>6. IsFiniteSet(T) /\ Cardinality(T) <= Cardinality(noted)
  BY <1>5, ImageSize
<1> HIDE DEF T, new
<1>7. /\ Cardinality(T) \in Nat /\ Cardinality(noted) \in Nat
      /\ Cardinality(missing[n]) \in Nat /\ Cardinality(new) \in Nat
      /\ IsFiniteSet(missing[n]) /\ Cardinality(missing[n]) <= MaxMissing
  BY <1>5, <1>6, FS_CardinalityType DEF TableInv, Waiting
<1>8. /\ IsFiniteSet(missing[n] \cup T)
      /\ Cardinality(missing[n] \cup T) <= Cardinality(missing[n]) + Cardinality(T)
  <2>1. IsFiniteSet(missing[n] \cup T) /\ IsFiniteSet(missing[n] \cap T)
        /\ Cardinality(missing[n] \cup T) =
             Cardinality(missing[n]) + Cardinality(T) - Cardinality(missing[n] \cap T)
    BY <1>6, <1>7, FS_Union, FS_Intersection
  <2>2. Cardinality(missing[n] \cap T) \in Nat /\ Cardinality(missing[n] \cup T) \in Nat
    BY <2>1, FS_CardinalityType
  <2> QED BY <1>7, <2>1, <2>2
<1>9. Cardinality(missing[n] \cup T) <= MaxMissing
  <2>1. Cardinality(noted) <= room
    BY <1>1, <1>2, <1>7 DEF Least
  <2>2. Cardinality(missing[n] \cup T) \in Nat
    BY <1>8, FS_CardinalityType
  <2> QED BY <1>2, <1>6, <1>7, <1>8, <2>1, <2>2
<1> QED BY <1>2, <1>3, <1>4, <1>8, <1>9 DEF TableInv, Waiting

\* Steps that change neither the memory nor the sessions.
LEMMA StillMemory ==
    ASSUME TableInv, UNCHANGED <<memoryVars, link>>
    PROVE  Known' = Known /\ TwoEnds' /\ Numbered' /\ Rings'
<1>1. UNCHANGED <<published, seen, cache, log, link>>
  BY DEF memoryVars
<1>2. Known' = Known
  BY <1>1 DEF Known
<1>3. TwoEnds' /\ Numbered'
  BY <1>1 DEF TableInv, TwoEnds, Numbered
<1>4. Rings'
  <2>1. \A n \in Node : Len(cache'[n]) <= CacheSize
    BY <1>1 DEF TableInv, Rings
  <2>2. \A n \in Node : Elements(seen[n])' \subseteq Known'
    BY <1>1, <1>2 DEF TableInv, Rings, Elements
  <2> QED BY <2>1, <2>2 DEF Rings
<1> QED BY <1>2, <1>3, <1>4

LEMMA CalmKeeps ==
    ASSUME Faulty, Calm \/ Fault \/ UNCHANGED faults
    PROVE  Faulty'
  BY SizeAssumption DEF Faulty, Calm, Fault, SizeAssumption

\* A node sees an id that is published.
LEMMA RememberRings ==
    ASSUME BroadcastInv, TableInv, NEW n \in Node, NEW id \in Node \X Nat, MarkSeen(n, id),
           Known \subseteq Known', id \in Known'
    PROVE  Rings'
<1>1. /\ seen \in [Node -> Seq(Node \X Nat)] /\ cache \in [Node -> Seq(Node \X Nat)]
      /\ SeenSize \in Nat \ {0} /\ CacheSize \in Nat \ {0}
  BY SizeAssumption DEF BroadcastInv, Memory, SizeAssumption
<1>2. /\ seen' = [seen EXCEPT ![n] = Push(seen[n], SeenSize, id)]
      /\ cache' = [cache EXCEPT ![n] = Push(cache[n], CacheSize, id)]
  BY DEF MarkSeen
<1>3. Elements(Push(seen[n], SeenSize, id)) \subseteq Elements(seen[n]) \cup {id}
  BY <1>1, PushAddsOne
<1>4. Len(Push(cache[n], CacheSize, id)) <= CacheSize
  BY <1>1, PushSize DEF TableInv, Rings
<1>5. \A k \in Node : Elements(seen'[k]) \subseteq Known'
  BY <1>1, <1>2, <1>3 DEF TableInv, Rings
<1>6. \A k \in Node : Len(cache'[k]) <= CacheSize
  BY <1>1, <1>2, <1>4 DEF TableInv, Rings
<1>7. \A k \in Node : Elements(seen[k])' = Elements(seen'[k])
  BY DEF Elements
<1> QED BY <1>5, <1>6, <1>7 DEF Rings

LEMMA PublishTables ==
    ASSUME BroadcastInv, TableInv, NEW n \in Node, Publish(n)
    PROVE  TableInv'
<1> DEFINE id == <<n, published[n] + 1>>
           sent == {Gossip(n, p, id, FALSE) : p \in eager[n]}
<1>1. /\ published \in [Node -> Nat] /\ published' = [published EXCEPT ![n] = published[n] + 1]
      /\ n \in Publisher /\ published[n] < MaxPublish /\ Calm
      /\ MarkSeen(n, id) /\ Send({}, sent)
      /\ Queue(n, lazy[n], id)
      /\ UNCHANGED <<peerVars, missing, asked, link>>
  BY DEF Publish, BroadcastInv, Memory
<1>2. id \in Node \X Nat /\ Known \subseteq Known' /\ id \in Known'
  BY <1>1 DEF Known
<1>3. Numbered'
  BY <1>1, SizeAssumption DEF TableInv, Numbered, SizeAssumption
<1>4. \A m \in sent : m.ids \subseteq Known' /\ Cardinality(m.ids) <= MaxIds
  <2>1. {id} \subseteq Known' /\ Cardinality({id}) <= MaxIds
    BY <1>2, FewAreShort
  <2> HIDE DEF id
  <2> QED BY <2>1 DEF Gossip, Message
<1>5. Announcing'
  <2>1. lazy[n] \in SUBSET Node
    BY DEF TableInv, Peers
  <2> HIDE DEF id
  <2> QED BY <1>1, <1>2, <2>1, QueueKeeps DEF TableInv
<1> HIDE DEF id, sent
<1>6. Rings'
  BY <1>1, <1>2, RememberRings
<1>7. Named'
  BY <1>1, <1>2, <1>4, SendNames DEF TableInv
<1>8. TwoEnds' /\ Peers' /\ Asking' /\ Faulty'
  BY <1>1, CalmKeeps DEF TableInv, TwoEnds, Peers, Asking, peerVars
<1>9. Waiting'
  BY <1>1, <1>2 DEF TableInv, Waiting
<1> QED BY <1>3, <1>5, <1>6, <1>7, <1>8, <1>9 DEF TableInv

LEMMA FreshTables ==
    ASSUME BroadcastInv, TableInv, NEW m \in net, NEW id \in m.ids, Fresh(m, id)
    PROVE  TableInv'
<1> DEFINE n == m.to
           p == m.from
           sent == {Gossip(n, q, id, FALSE) : q \in eager'[n] \ {p}}
<1>1. n \in Node /\ p \in Node /\ id \in Known /\ id \in Node \X Nat
  BY DEF BroadcastInv, Carried, TableInv, Named, Short, Known
<1>2. /\ Settle(n, p, id) /\ MarkSeen(n, id)
      /\ Promote(n, p) \/ UNCHANGED peerVars
      /\ Send({m}, sent)
      /\ Queue(n, lazy'[n] \ {p}, id)
      /\ UNCHANGED <<published, link, faults>>
  BY DEF Fresh
<1>3. Known' = Known
  BY <1>2 DEF Known
<1>4. Peers'
  BY <1>1, <1>2, PromoteKeeps DEF TableInv, Peers, peerVars
<1>5. Waiting' /\ Asking'
  BY <1>1, <1>2, <1>3, SettleKeeps DEF TableInv
<1>6. Rings'
  BY <1>1, <1>2, <1>3, RememberRings
<1>7. Named'
  <2>0. {id} \subseteq Known' /\ Cardinality({id}) <= MaxIds
    BY <1>1, <1>3, FewAreShort
  <2>1. \A x \in sent : x.ids \subseteq Known' /\ Cardinality(x.ids) <= MaxIds
    BY <2>0 DEF Gossip, Message
  <2> HIDE DEF sent
  <2> QED BY <1>2, <1>3, <2>1, SendNames DEF TableInv
<1>8. Announcing'
  <2>1. lazy'[n] \ {p} \in SUBSET Node
    BY <1>1, <1>4 DEF Peers
  <2> QED BY <1>1, <1>2, <1>3, <2>1, QueueKeeps DEF TableInv
<1>9. TwoEnds' /\ Numbered' /\ Faulty'
  BY <1>2 DEF TableInv, TwoEnds, Numbered, Faulty
<1> QED BY <1>4, <1>5, <1>6, <1>7, <1>8, <1>9 DEF TableInv

LEMMA ReceiveTables ==
    ASSUME BroadcastInv, TableInv, NEW m \in net, Receive(m)
    PROVE  TableInv'
<1>0. m.from \in Node /\ m.to \in Node /\ m.ids \subseteq Known /\ Short(m.ids)
  BY DEF BroadcastInv, Carried, TableInv, Named, Short
<1>1. ASSUME NEW messages, UNCHANGED <<memoryVars, link, faults>>, Send({m}, messages),
             \A x \in messages : Short(x.ids)
      PROVE  /\ Known' = Known
             /\ TwoEnds' /\ Numbered' /\ Rings' /\ Named' /\ Faulty'
  <2>1. Known' = Known /\ TwoEnds' /\ Numbered' /\ Rings'
    BY <1>1, StillMemory
  <2>2. Named'
    BY <1>1, <2>1, SendNames DEF TableInv, Short
  <2> QED BY <1>1, <2>1, <2>2 DEF TableInv, Faulty
<1>2. ASSUME NEW id \in m.ids, Duplicate(m, id) PROVE TableInv'
  <2>1. /\ Settle(m.to, m.from, id) /\ UNCHANGED <<pending, memoryVars, link, faults>>
        /\ Demote(m.to, m.from) \/ UNCHANGED peerVars
        /\ Send({m}, {Message("prune", m.to, m.from, {}, FALSE)}) \/ Send({m}, {})
    BY <1>2 DEF Duplicate
  <2> DEFINE prune == {Message("prune", m.to, m.from, {}, FALSE)}
  <2>2. \A x \in prune : Short(x.ids)
    BY FewAreShort DEF Message, Short
  <2>3. /\ Known' = Known
        /\ TwoEnds' /\ Numbered' /\ Rings' /\ Named' /\ Faulty'
    <3>1. CASE Send({m}, prune)
      <4> HIDE DEF prune
      <4> QED BY <1>1, <2>1, <2>2, <3>1
    <3>2. CASE Send({m}, {})
      BY <1>1, <2>1, <3>2
    <3> QED BY <2>1, <3>1, <3>2
  <2>4. Waiting' /\ Asking'
    BY <1>0, <2>1, <2>3, SettleKeeps DEF TableInv
  <2>5. Peers'
    BY <1>0, <2>1, DemoteKeeps DEF TableInv, Peers, peerVars
  <2>6. Announcing'
    BY <2>1, <2>3 DEF TableInv, Announcing
  <2> QED BY <2>3, <2>4, <2>5, <2>6 DEF TableInv
<1>3. CASE ReceiveGossip(m)
  BY <1>2, <1>3, FreshTables DEF ReceiveGossip
<1>4. ASSUME NoteIhave(m.to, m.from, m.ids), UNCHANGED <<peerVars, asked, pending>>,
             NEW messages, UNCHANGED <<memoryVars, link, faults>>, Send({m}, messages),
             \A x \in messages : Short(x.ids)
      PROVE  TableInv'
  <2>1. /\ Known' = Known
        /\ TwoEnds' /\ Numbered' /\ Rings' /\ Named' /\ Faulty'
    BY <1>1, <1>4
  <2>2. Waiting'
    BY <1>0, <1>4, <2>1, SizeAssumption, NoteKeeps
  <2>3. Peers' /\ Asking' /\ Announcing'
    BY <1>4, <2>1 DEF TableInv, Peers, Asking, Announcing, peerVars
  <2> QED BY <2>1, <2>2, <2>3 DEF TableInv
<1>5. CASE ReceiveIhave(m)
  BY <1>4, <1>5 DEF ReceiveIhave
<1>6. CASE ReceiveExchange(m)
  <2> DEFINE sent == IF m.mark THEN {}
                     ELSE {Message("exchange", m.to, m.from, RecentIds(m.to), TRUE)}
  <2>1. \A x \in sent : Short(x.ids)
    BY <1>0, RecentIsShort DEF Message
  <2>2. /\ NoteIhave(m.to, m.from, m.ids) /\ Send({m}, sent)
        /\ UNCHANGED <<peerVars, asked, pending, memoryVars, link, faults>>
    BY <1>6 DEF ReceiveExchange
  <2> HIDE DEF sent
  <2> QED BY <1>4, <2>1, <2>2
<1>7. ASSUME Peers', UNCHANGED <<repairVars, memoryVars, link, faults>>,
             NEW messages, Send({m}, messages),
             \A x \in messages : Short(x.ids)
      PROVE  TableInv'
  <2>1. /\ Known' = Known
        /\ TwoEnds' /\ Numbered' /\ Rings' /\ Named' /\ Faulty'
    BY <1>1, <1>7
  <2>2. Waiting' /\ Asking' /\ Announcing'
    BY <1>7, <2>1 DEF repairVars, TableInv, Waiting, Asking, Announcing
  <2> QED BY <1>7, <2>1, <2>2 DEF TableInv
<1>8. CASE ReceiveIwant(m)
  <2> DEFINE held == m.ids \cap Elements(cache[m.to])
             sent == {Gossip(m.to, m.from, id, TRUE) : id \in held} \cup
                     (IF m.ids \ held = {} THEN {}
                      ELSE {Message("ihave", m.to, m.from, m.ids \ held, FALSE)})
  <2>1. \A x \in sent : Short(x.ids)
    <3>1. Short(m.ids \ held)
      BY <1>0, FewerAreShort
    <3>2. ASSUME NEW id \in held PROVE Short({id})
      <4>1. Cardinality({id}) <= MaxIds
        BY FewAreShort
      <4> QED BY <1>0, <4>1 DEF Short
    <3>3. \A x \in sent : x.ids = m.ids \ held \/ \E id \in held : x.ids = {id}
      BY DEF Gossip, Message
    <3> HIDE DEF sent, held
    <3> QED BY <3>1, <3>2, <3>3
  <2>2. UNCHANGED <<peerVars, repairVars, memoryVars, link, faults>> /\ Send({m}, sent)
    BY <1>8 DEF ReceiveIwant, Cached
  <2>3. Peers'
    BY <2>2 DEF peerVars, TableInv, Peers
  <2> HIDE DEF sent
  <2> QED BY <1>7, <2>1, <2>2, <2>3
<1>9. CASE ReceivePrune(m)
  <2>1. Peers'
    BY <1>0, <1>9, DemoteKeeps DEF ReceivePrune, TableInv
  <2> QED BY <1>7, <1>9, <2>1 DEF ReceivePrune
<1> QED BY <1>3, <1>5, <1>6, <1>8, <1>9 DEF Receive

\* What is asked for together fits.
LEMMA AskKeeps ==
    ASSUME TableInv, NEW n \in Node, NEW w \in missing[n], NEW also \in SUBSET missing[n],
           Cardinality(also) <= MaxAsked - Cardinality(asked[n]) - 1,
           asked' = [asked EXCEPT ![n] = @ \cup {Request(n, x, 0) : x \in {w} \cup also}]
    PROVE  Asking'
<1> DEFINE S == {w} \cup also
           f == [x \in S |-> Request(n, x, 0)]
           T == {f[x] : x \in S}
<1>1. asked' = [asked EXCEPT ![n] = asked[n] \cup T]
  BY DEF TableInv, Asking
<1>2. /\ IsFiniteSet(also) /\ IsFiniteSet(asked[n])
      /\ Cardinality(also) \in Nat /\ Cardinality(asked[n]) \in Nat
  BY FS_Subset, FS_CardinalityType DEF TableInv, Waiting, Asking
<1>3. IsFiniteSet(S) /\ Cardinality(S) \in Nat /\ Cardinality(S) <= Cardinality(also) + 1
  <2>1. S = also \cup {w}
    OBVIOUS
  <2>2. /\ IsFiniteSet(also \cup {w})
        /\ Cardinality(also \cup {w}) = IF w \in also THEN Cardinality(also)
                                        ELSE Cardinality(also) + 1
    BY <1>2, FS_AddElement
  <2> HIDE DEF S
  <2> QED BY <1>2, <2>1, <2>2
<1>4. IsFiniteSet(T) /\ Cardinality(T) <= Cardinality(S)
  <2>1. DOMAIN f = S
    OBVIOUS
  <2> HIDE DEF S, f
  <2> QED BY <1>3, <2>1, ImageSize
<1> HIDE DEF S, T
<1>5. /\ IsFiniteSet(asked[n] \cup T) /\ IsFiniteSet(asked[n] \cap T)
      /\ Cardinality(asked[n] \cup T) =
           Cardinality(asked[n]) + Cardinality(T) - Cardinality(asked[n] \cap T)
  BY <1>2, <1>4, FS_Union, FS_Intersection
<1>6. /\ Cardinality(asked[n] \cup T) \in Nat /\ Cardinality(T) \in Nat
      /\ Cardinality(asked[n] \cap T) \in Nat
  BY <1>4, <1>5, FS_CardinalityType
<1>7. Cardinality(asked[n] \cup T) <= MaxAsked
  BY <1>2, <1>3, <1>4, <1>5, <1>6, SizeAssumption DEF SizeAssumption
<1> QED BY <1>1, <1>5, <1>7 DEF TableInv, Asking

\* A request names what it asks for, each id once.
LEMMA AskIsShort ==
    ASSUME TableInv, NEW n \in Node, NEW w \in missing[n], NEW also \in SUBSET missing[n],
           Cardinality(also) + 1 <= MaxIds
    PROVE  Cardinality({x.id : x \in {w} \cup also}) <= MaxIds
<1> DEFINE S == also \cup {w}
           f == [x \in S |-> x.id]
           T == {f[x] : x \in S}
<1>1. {x.id : x \in {w} \cup also} = T
  OBVIOUS
<1>2. IsFiniteSet(also) /\ Cardinality(also) \in Nat
  BY FS_Subset, FS_CardinalityType DEF TableInv, Waiting
<1>3. IsFiniteSet(S) /\ Cardinality(S) <= Cardinality(also) + 1
  <2>1. /\ IsFiniteSet(S)
        /\ Cardinality(S) = IF w \in also THEN Cardinality(also) ELSE Cardinality(also) + 1
    BY <1>2, FS_AddElement
  <2> HIDE DEF S
  <2> QED BY <1>2, <2>1
<1>4. DOMAIN f = S
  OBVIOUS
<1> HIDE DEF S, f
<1>5. IsFiniteSet(T) /\ Cardinality(T) <= Cardinality(S)
  BY <1>3, <1>4, ImageSize
<1> HIDE DEF T
<1>6. Cardinality(T) \in Nat /\ Cardinality(S) \in Nat /\ MaxIds \in Nat
  BY <1>3, <1>5, FS_CardinalityType, SizeAssumption DEF SizeAssumption
<1>7. Cardinality(T) <= MaxIds
  BY <1>2, <1>3, <1>5, <1>6
<1> QED BY <1>1, <1>7

\* So does a batch of announcements.
LEMMA BatchIsShort ==
    ASSUME TableInv, NEW n \in Node, NEW b \in Batch(n)
    PROVE  Short({y[2] : y \in b})
<1> DEFINE f == [y \in b |-> y[2]]
           T == {f[y] : y \in b}
<1>1. {y[2] : y \in b} = T
  OBVIOUS
<1>2. T \subseteq Known
  BY DEF Batch, TableInv, Announcing
<1>3. IsFiniteSet(b) /\ Cardinality(b) \in Nat /\ Cardinality(b) <= MaxIds
  BY FS_Subset, FS_CardinalityType, SizeAssumption DEF Batch, TableInv, Announcing, SizeAssumption
<1>4. DOMAIN f = b
  OBVIOUS
<1> HIDE DEF f
<1>5. IsFiniteSet(T) /\ Cardinality(T) <= Cardinality(b)
  BY <1>3, <1>4, ImageSize
<1> HIDE DEF T
<1>6. Cardinality(T) \in Nat /\ MaxIds \in Nat
  BY <1>5, FS_CardinalityType, SizeAssumption DEF SizeAssumption
<1>7. Cardinality(T) <= MaxIds
  BY <1>3, <1>5, <1>6
<1> QED BY <1>1, <1>2, <1>7 DEF Short

LEMMA TimerTables ==
    ASSUME BroadcastInv, TableInv, NEW n \in Node, Timer(n)
    PROVE  TableInv'
<1>1. ASSUME NEW messages, UNCHANGED <<memoryVars, link>>, Send({}, messages),
             \A x \in messages : Short(x.ids), Calm \/ UNCHANGED faults
      PROVE  /\ Known' = Known
             /\ TwoEnds' /\ Numbered' /\ Rings' /\ Named' /\ Faulty'
  <2>1. Known' = Known /\ TwoEnds' /\ Numbered' /\ Rings'
    BY <1>1, StillMemory
  <2>2. Named'
    BY <1>1, <2>1, SendNames DEF TableInv, Short
  <2>3. Faulty'
    BY <1>1, CalmKeeps DEF TableInv
  <2> QED BY <2>1, <2>2, <2>3
<1>2. CASE Flush(n)
  <2>0. PICK batches \in SUBSET Batch(n) :
           Send({}, UNION {{Message("ihave", n, x[1], {y[2] : y \in b}, FALSE) : x \in b} :
                             b \in batches})
    BY <1>2 DEF Flush
  <2> DEFINE sent == UNION {{Message("ihave", n, x[1], {y[2] : y \in b}, FALSE) : x \in b} :
                              b \in batches}
  <2>1. /\ UNCHANGED <<peerVars, missing, asked, memoryVars, link>> /\ Send({}, sent) /\ Calm
        /\ pending' = [pending EXCEPT ![n] = {}]
    BY <1>2, <2>0 DEF Flush
  <2>2. \A x \in sent : Short(x.ids)
    <3>1. \A b \in batches : Short({y[2] : y \in b})
      BY BatchIsShort
    <3> QED BY <3>1 DEF Message
  <2> HIDE DEF sent
  <2>3. /\ Known' = Known
        /\ TwoEnds' /\ Numbered' /\ Rings' /\ Named' /\ Faulty'
    BY <1>1, <2>1, <2>2
  <2>4. Peers' /\ Waiting' /\ Asking'
    BY <2>1, <2>3 DEF TableInv, Peers, Waiting, Asking, peerVars
  <2>5. Announcing'
    <3>1. IsFiniteSet({}) /\ Cardinality({}) <= MaxPending
      BY FS_EmptySet, SizeAssumption DEF SizeAssumption
    <3> QED BY <2>1, <2>3, <3>1 DEF TableInv, Announcing
  <2> QED BY <2>3, <2>4, <2>5 DEF TableInv
<1>3. ASSUME NEW w \in missing[n], Ask(n, w) PROVE TableInv'
  <2> DEFINE room == MaxAsked - Cardinality(asked[n])
             more == {x \in missing[n] : x.from = w.from} \ {w}
  <2>1. PICK also \in SUBSET more :
           /\ Cardinality(also) =
                 IF room = 0 THEN 0 ELSE Least(Cardinality(more), Least(room, MaxIds) - 1)
           /\ missing' = [missing EXCEPT ![n] = @ \ ({w} \cup also)]
           /\ IF room = 0
              THEN UNCHANGED asked /\ Send({}, {})
              ELSE /\ asked' = [asked EXCEPT ![n] = @ \cup {Request(n, x, 0) : x \in {w} \cup also}]
                   /\ Send({}, {Message("iwant", n, w.from,
                                        {x.id : x \in {w} \cup also}, FALSE)})
    BY <1>3 DEF Ask
  <2>2. UNCHANGED <<peerVars, pending, memoryVars, link>> /\ Calm
    BY <1>3 DEF Ask
  <2>3. also \in SUBSET missing[n] /\ \A x \in {w} \cup also : x.id \in Known
    BY DEF TableInv, Waiting
  <2>8. room # 0 => Cardinality(also) <= room - 1 /\ Cardinality(also) + 1 <= MaxIds
    <3>1. /\ Cardinality(asked[n]) \in Nat /\ Cardinality(asked[n]) <= MaxAsked
          /\ MaxAsked \in Nat /\ MaxIds \in Nat
      BY FS_CardinalityType, SizeAssumption DEF TableInv, Asking, SizeAssumption
    <3>2. Cardinality(more) \in Nat
      BY FS_Subset, FS_CardinalityType DEF TableInv, Waiting
    <3> HIDE DEF more
    <3> QED BY <2>1, <3>1, <3>2 DEF Least
  <2>4. /\ Known' = Known
        /\ TwoEnds' /\ Numbered' /\ Rings' /\ Named' /\ Faulty'
    <3> DEFINE wanted == {Message("iwant", n, w.from, {x.id : x \in {w} \cup also}, FALSE)}
    <3>1. room # 0 => \A x \in wanted : Short(x.ids)
      <4> DEFINE ids == {x.id : x \in {w} \cup also}
      <4>0. \A x \in wanted : x.ids = ids
        BY DEF Message
      <4> HIDE DEF wanted, ids
      <4>1. SUFFICES ASSUME room # 0 PROVE Short(ids)
        BY <4>0
      <4>2. Cardinality(also) + 1 <= MaxIds
        BY <2>8, <4>1
      <4>3. ids \subseteq Known
        BY <2>3 DEF ids
      <4>4. Cardinality(ids) <= MaxIds
        BY <2>3, <4>2, AskIsShort DEF ids
      <4> QED BY <4>3, <4>4 DEF Short
    <3>2. CASE room = 0
      BY <1>1, <2>1, <2>2, <3>2
    <3>3. CASE room # 0
      <4>1. Send({}, wanted)
        BY <2>1, <3>3
      <4> HIDE DEF wanted
      <4> QED BY <1>1, <2>2, <3>1, <3>3, <4>1
    <3> QED BY <3>2, <3>3
  <2>5. Waiting'
    <3>1. missing[n] \ ({w} \cup also) \subseteq missing[n]
      OBVIOUS
    <3> QED BY <2>1, <2>4, <3>1, FewerWait DEF TableInv
  <2>6. Asking'
    <3>1. CASE room = 0
      BY <2>1, <3>1 DEF TableInv, Asking
    <3>2. CASE room # 0
      BY <2>1, <2>3, <2>8, <3>2, AskKeeps
    <3> QED BY <3>1, <3>2
  <2>7. Peers' /\ Announcing'
    BY <2>2, <2>4 DEF TableInv, Peers, Announcing, peerVars
  <2> QED BY <2>4, <2>5, <2>6, <2>7 DEF TableInv
<1>4. CASE Lapse(n)
  <2>1. UNCHANGED <<peerVars, missing, pending, memoryVars, link, net>> /\ Calm
    BY <1>4 DEF Lapse
  <2>2. Known' = Known /\ TwoEnds' /\ Numbered' /\ Rings'
    BY <2>1, StillMemory
  <2>3. Asking'
    BY <1>4, DropKeeps DEF Lapse, TableInv
  <2>4. Peers' /\ Waiting' /\ Announcing' /\ Named' /\ Faulty'
    BY <2>1, <2>2, CalmKeeps DEF TableInv, Peers, Waiting, Announcing, Named, Short, peerVars
  <2> QED BY <2>2, <2>3, <2>4 DEF TableInv
<1>5. ASSUME NEW p \in Node, Exchange(n, p) PROVE TableInv'
  <2> DEFINE sent == {Message("exchange", n, p, RecentIds(n), FALSE)}
  <2>1. /\ UNCHANGED <<peerVars, repairVars, memoryVars, link>> /\ Calm
        /\ Send({}, sent)
    BY <1>5 DEF Exchange
  <2>2. \A x \in sent : Short(x.ids)
    BY RecentIsShort DEF Message
  <2> HIDE DEF sent
  <2>3. /\ Known' = Known
        /\ TwoEnds' /\ Numbered' /\ Rings' /\ Named' /\ Faulty'
    BY <1>1, <2>1, <2>2
  <2>4. Peers' /\ Waiting' /\ Asking' /\ Announcing'
    BY <2>1, <2>3 DEF TableInv, Peers, Waiting, Asking, Announcing, peerVars, repairVars
  <2> QED BY <2>3, <2>4 DEF TableInv
<1> QED BY <1>2, <1>3, <1>4, <1>5 DEF Timer

LEMMA TransportTables ==
    ASSUME TableInv, UNCHANGED <<repairVars, memoryVars>>, net' \subseteq net,
           Peers', TwoEnds', Faulty'
    PROVE  TableInv'
<1>1. UNCHANGED <<published, seen, cache, log, missing, asked, pending>>
  BY DEF memoryVars, repairVars
<1>2. Known' = Known
  BY <1>1 DEF Known
<1>3. Rings'
  <2>1. \A n \in Node : Len(cache'[n]) <= CacheSize
    BY <1>1 DEF TableInv, Rings
  <2>2. \A n \in Node : Elements(seen[n])' \subseteq Known'
    BY <1>1, <1>2 DEF TableInv, Rings, Elements
  <2> QED BY <2>1, <2>2 DEF Rings
<1>4. Numbered' /\ Named' /\ Waiting' /\ Asking' /\ Announcing'
  BY <1>1, <1>2 DEF TableInv, Numbered, Named, Short, Waiting, Asking, Announcing
<1> QED BY <1>3, <1>4 DEF TableInv

LEMMA StepTables ==
    ASSUME BroadcastInv, TableInv, [Next]_vars
    PROVE  TableInv'
<1>1. ASSUME NEW n \in Node, Publish(n) PROVE TableInv'
  BY <1>1, PublishTables
<1>2. ASSUME NEW n \in Node, Timer(n) PROVE TableInv'
  BY <1>2, TimerTables
<1>3. ASSUME NEW m \in net, Receive(m) PROVE TableInv'
  BY <1>3, ReceiveTables
<1>4. ASSUME NEW n \in Node, NEW p \in Node, RemovePeer(n, p) PROVE TableInv'
  <2>1. Peers'
    BY <1>4 DEF RemovePeer, TableInv, Peers
  <2> QED BY <1>4, <2>1, TransportTables DEF RemovePeer, TableInv, TwoEnds, Faulty
<1>5. ASSUME NEW n \in Node, NEW p \in Node, AddPeer(n, p) PROVE TableInv'
  <2>1. n # p
    BY <1>5 DEF AddPeer, TableInv, TwoEnds
  <2>2. Peers'
    BY <1>5, <2>1 DEF AddPeer, TableInv, Peers
  <2> QED BY <1>5, <2>2, TransportTables DEF AddPeer, TableInv, TwoEnds, Faulty
<1>6. ASSUME NEW n \in Node, NEW p \in Node, Connect(n, p) PROVE TableInv'
  <2>1. TwoEnds'
    <3> SUFFICES ASSUME NEW a \in Node, NEW b \in Node, {a, b} \in link' PROVE a # b
      BY DEF TwoEnds
    <3>1. CASE {a, b} \in link
      BY <3>1 DEF TableInv, TwoEnds
    <3>2. CASE {a, b} = {n, p}
      BY <1>6, <3>2 DEF Connect
    <3> QED BY <1>6, <3>1, <3>2 DEF Connect
  <2>2. Peers' /\ Faulty'
    BY <1>6 DEF Connect, TableInv, Peers, Faulty, peerVars
  <2> QED BY <1>6, <2>1, <2>2, TransportTables DEF Connect
<1>7. ASSUME NEW m \in net, Lose(m) PROVE TableInv'
  <2>1. UNCHANGED <<peerVars, repairVars, memoryVars, link>> /\ net' \subseteq net /\ Fault
    BY <1>7 DEF Lose
  <2>2. Peers' /\ Faulty' /\ TwoEnds'
    BY <2>1, CalmKeeps DEF TableInv, Peers, TwoEnds, peerVars
  <2> QED BY <2>1, <2>2, TransportTables
<1>8. ASSUME NEW l \in link, Break(l) PROVE TableInv'
  <2>1. /\ UNCHANGED <<peerVars, repairVars, memoryVars>> /\ net' \subseteq net /\ Fault
        /\ link' \subseteq link
    BY <1>8 DEF Break
  <2>2. Peers' /\ Faulty' /\ TwoEnds'
    BY <2>1, CalmKeeps DEF TableInv, Peers, TwoEnds, peerVars
  <2> QED BY <2>1, <2>2, TransportTables
<1>9. CASE UNCHANGED vars
  <2>1. UNCHANGED <<peerVars, repairVars, memoryVars, link, net, faults>>
    BY <1>9 DEF vars
  <2>2. Peers' /\ Faulty' /\ TwoEnds'
    BY <2>1 DEF TableInv, Peers, TwoEnds, Faulty, peerVars
  <2> QED BY <2>1, <2>2, TransportTables
<1> QED BY <1>1, <1>2, <1>3, <1>4, <1>5, <1>6, <1>7, <1>8, <1>9 DEF Next

LEMMA InitTables ==
    ASSUME Init
    PROVE  TableInv
<1>1. TwoEnds
  <2> SUFFICES ASSUME NEW n \in Node, NEW p \in Node, {n, p} \in link PROVE n # p
    BY DEF TwoEnds
  <2>1. Cardinality({n, p}) = 2
    BY DEF Init
  <2>2. n = p => {n, p} = {n}
    OBVIOUS
  <2> QED BY <2>1, <2>2, FS_Singleton
<1>2. Peers /\ Named
  BY DEF Init, Peers, Named
<1>3. Rings /\ Numbered /\ Faulty
  BY SizeAssumption DEF Init, Rings, Numbered, Faulty, Elements, SizeAssumption
<1>4. Waiting /\ Asking /\ Announcing
  BY SizeAssumption, FS_EmptySet DEF Init, Waiting, Asking, Announcing, SizeAssumption
<1> QED BY <1>1, <1>2, <1>3, <1>4 DEF TableInv

\* The inductive invariant of the tables: nothing is waited for, announced or sent
\* but what was published, within the sizes of the tables.
THEOREM TreeInvariant == Spec => []IInv
<1>1. Init => IInv
  BY InitKeeps, InitTables, SizeAssumption DEF IInv
<1>2. IInv /\ [Next]_vars => IInv'
  BY StepKeeps, StepTables, SizeAssumption DEF IInv
<1> QED BY <1>1, <1>2, PTL DEF Spec

\* The tables of every node keep their types and sizes, and its two sets of peers
\* are apart (plumtree.zig, checkInvariants).
THEOREM TreeTypeCorrect == Spec => []TypeOK
<1>1. ASSUME IInv PROVE TypeOK
  <2>1. Known \subseteq Id
    BY <1>1, SizeAssumption, KnownIsFinite DEF IInv, BroadcastInv, TableInv
  <2>2. \A n \in Node : eager[n] \cup lazy[n] \subseteq Node \ {n} /\ eager[n] \cap lazy[n] = {}
    BY <1>1 DEF IInv, TableInv, Peers
  <2>3. published \in [Node -> 0 .. MaxPublish]
    BY <1>1, SizeAssumption DEF IInv, BroadcastInv, Memory, TableInv, Numbered, SizeAssumption
  <2>4. \A n \in Node : Elements(seen[n]) \cup Elements(cache[n]) \subseteq Id
    BY <1>1, <2>1 DEF IInv, BroadcastInv, Memory, TableInv, Rings
  <2>5. \A n \in Node : Len(seen[n]) <= SeenSize /\ Len(cache[n]) <= CacheSize
    <3> SUFFICES ASSUME NEW n \in Node PROVE Len(seen[n]) <= SeenSize
      BY <1>1 DEF IInv, TableInv, Rings
    <3>1. Len(seen[n]) = Least(Len(log[n]), SeenSize)
      BY <1>1 DEF IInv, BroadcastInv, SeenIsRecent, EndOf
    <3>2. log[n] \in Seq(Node \X Nat)
      BY <1>1 DEF IInv, BroadcastInv, Memory
    <3> QED BY <3>1, <3>2, SizeAssumption DEF Least, SizeAssumption
  <2>6. \A n \in Node : missing[n] \subseteq Announcement /\ Cardinality(missing[n]) <= MaxMissing
    BY <1>1, <2>1 DEF IInv, TableInv, Waiting, Announcement
  <2>7. \A n \in Node : Cardinality(asked[n]) <= MaxAsked
    BY <1>1 DEF IInv, TableInv, Asking
  <2>8. \A n \in Node : pending[n] \subseteq Node \X Id /\ Cardinality(pending[n]) <= MaxPending
    BY <1>1, <2>1 DEF IInv, TableInv, Announcing
  <2>10. \A m \in net : Cardinality(m.ids) <= MaxIds
    BY <1>1 DEF IInv, TableInv, Named, Short
  <2>9. faults \in 0 .. MaxFaults
    BY <1>1 DEF IInv, TableInv, Faulty
  <2> QED BY <2>2, <2>3, <2>4, <2>5, <2>6, <2>7, <2>8, <2>9, <2>10 DEF TypeOK
<1> QED BY <1>1, TreeInvariant, PTL
=============================================================================
