-------------------------- MODULE HyParViewProofs --------------------------
(***************************************************************************)
(* The views of HyParView, for every mesh, all sizes of the views and any  *)
(* number of faults: they stay within their bounds, and a node counts no   *)
(* one as its neighbour it has no session with.                            *)
(***************************************************************************)
EXTENDS HyParView, FiniteSetTheorems, SequenceTheorems, TLAPS

Types == {"join", "join_ack", "forward_join", "neighbor", "neighbor_accept",
          "disconnect", "shuffle", "shuffle_reply"}
Msg == [type : Types, arg : SUBSET Node, ttl : Nat]
View == [active : SUBSET Node, passive : SUBSET Node, proposals : SUBSET Node,
         join : 0 .. MaxAttempts]

\* A view that n may have, whatever its sessions and its failure detector say.
Fit(n, v) ==
    /\ v \in View
    /\ v.active \cup v.passive \cup v.proposals \subseteq Other(n)
    /\ v.active \cap (v.passive \cup v.proposals) = {}
    /\ Cardinality(v.active) <= ActiveMax[n]
    /\ Cardinality(v.passive) <= PassiveMax
    /\ Cardinality(v.proposals) <= MaxProposals
    /\ v.join > 0 => n # Seed

\* Its neighbours have a session with it.
Standing(n, v) == v.active \subseteq up[n]

\* Messages travel on sessions that work only.
NetFits(net0) ==
    /\ net0 \in [Node -> [Node -> Seq(Msg)]]
    /\ \A n, p \in Node : net0[n][p] # <<>> => {n, p} \in link

\* A session that works has two ends, and both know it.
LinksFit ==
    \A n, p \in Node : {n, p} \in link =>
        n # p /\ p \in up[n] /\ n \in up[p]

DialsFit == \A n, p \in Node : {n, p} \in dials => n # p

KnownFit ==
    /\ up \in [Node -> SUBSET Node] /\ gone \in [Node -> SUBSET Node]
    /\ member \in [Node -> SUBSET Node]
    /\ \A n \in Node : gone[n] \cup up[n] \subseteq member[n] /\ member[n] \subseteq Other(n)

Bounded == faults \in 0 .. MaxFaults /\ haste \in 0 .. MaxHaste

IInv ==
    /\ DOMAIN view = Node
    /\ \A n \in Node : Fit(n, view[n]) /\ Standing(n, view[n])
    /\ LinksFit /\ DialsFit /\ KnownFit /\ Bounded
    /\ NetFits(net)

-----------------------------------------------------------------------------
(* What the operations on a view leave of it.                              *)

LEMMA SizesOfParts ==
    ASSUME NEW S \in SUBSET Node, NEW T \in SUBSET S
    PROVE  /\ IsFiniteSet(S) /\ IsFiniteSet(T)
           /\ Cardinality(T) <= Cardinality(S)
           /\ Cardinality(S) \in Nat /\ Cardinality(T) \in Nat
  BY SizeAssumption, FS_Subset, FS_CardinalityType

\* A view that only loses peers stays fit.
LEMMA FewerFit ==
    ASSUME NEW n \in Node, NEW v, Fit(n, v), NEW w \in View,
           w.active \subseteq v.active, w.passive \subseteq v.passive,
           w.proposals \subseteq v.proposals, w.join > 0 => v.join > 0
    PROVE  Fit(n, w)
<1>1. /\ Cardinality(w.active) <= Cardinality(v.active)
      /\ Cardinality(w.passive) <= Cardinality(v.passive)
      /\ Cardinality(w.proposals) <= Cardinality(v.proposals)
      /\ {Cardinality(w.active), Cardinality(w.passive), Cardinality(w.proposals),
          Cardinality(v.active), Cardinality(v.passive), Cardinality(v.proposals)}
            \subseteq Nat
  BY SizesOfParts DEF Fit, View
<1> QED
  BY <1>1, SizeAssumption DEF Fit

LEMMA MergeFits ==
    ASSUME NEW n \in Node, NEW v, Fit(n, v), NEW S \in SUBSET Node,
           NEW w \in MergePassive(v, n, S)
    PROVE  /\ Fit(n, w)
           /\ w.active = v.active /\ w.proposals = v.proposals
<1> DEFINE new == S \ ({n} \cup v.active \cup v.passive)
           all == v.passive \cup new
<1>1. all \in SUBSET Other(n) /\ all \cap v.active = {}
  BY DEF Fit, Other
<1>2. PICK k \in SUBSET all : Cardinality(k) <= PassiveMax /\ w = [v EXCEPT !.passive = k]
  <2>1. CASE Cardinality(all) <= PassiveMax
    BY <2>1 DEF MergePassive
  <2>2. CASE ~(Cardinality(all) <= PassiveMax)
    <3>1. w \in {[v EXCEPT !.passive = kept] :
                   kept \in {k \in SUBSET all : Cardinality(k) = PassiveMax /\ k \cap new # {}}}
      BY <2>2 DEF MergePassive
    <3> QED
      BY <3>1, SizeAssumption
  <2> QED
    BY <2>1, <2>2
<1> HIDE DEF new, all
<1>3. /\ w \in View /\ w.passive = k /\ w.active = v.active
      /\ w.proposals = v.proposals /\ w.join = v.join
  BY <1>1, <1>2 DEF Fit, View, Other
<1> QED
  BY <1>1, <1>2, <1>3 DEF Fit

LEMMA DemoteFits ==
    ASSUME NEW n \in Node, NEW v, Fit(n, v), NEW p \in Node, NEW w \in Demote(v, n, p)
    PROVE  /\ Fit(n, w)
           /\ w.active = v.active \ {p} /\ w.proposals = v.proposals
<1> DEFINE x == [v EXCEPT !.active = @ \ {p}]
<1>1. /\ x \in View /\ x.active = v.active \ {p} /\ x.passive = v.passive
      /\ x.proposals = v.proposals /\ x.join = v.join
  BY DEF Fit, View
<1>2. Fit(n, x)
  <2> HIDE DEF x
  <2> QED
    BY <1>1, FewerFit
<1>3. CASE p \in v.active
  <2>1. w \in MergePassive(x, n, {p})
    BY <1>3 DEF Demote, AddPassive
  <2> HIDE DEF x
  <2> QED
    BY <1>1, <1>2, <2>1, MergeFits
<1>4. CASE p \notin v.active
  BY <1>4 DEF Demote
<1> QED
  BY <1>3, <1>4

LEMMA EnterFits ==
    ASSUME NEW n \in Node, NEW v, Fit(n, v), NEW p \in Other(n), p \notin v.active,
           Cardinality(v.active) < ActiveMax[n]
    PROVE  Fit(n, Enter(v, p)) /\ Enter(v, p).active = v.active \cup {p}
<1> DEFINE w == Enter(v, p)
<1>1. /\ w \in View /\ w.active = v.active \cup {p} /\ w.passive = v.passive \ {p}
      /\ w.proposals = v.proposals \ {p} /\ w.join = v.join
  BY DEF Enter, Fit, View, Other
<1> HIDE DEF w
<1>2. /\ Cardinality(w.passive) <= Cardinality(v.passive)
      /\ Cardinality(w.proposals) <= Cardinality(v.proposals)
      /\ {Cardinality(w.passive), Cardinality(w.proposals),
          Cardinality(v.passive), Cardinality(v.proposals)} \subseteq Nat
  BY <1>1, SizesOfParts DEF Fit, View
<1>3. Cardinality(w.active) <= ActiveMax[n]
  <2>1. IsFiniteSet(v.active) /\ Cardinality(v.active) \in Nat
    BY SizesOfParts DEF Fit, View
  <2>2. Cardinality(v.active \cup {p}) = Cardinality(v.active) + 1
    BY <2>1, FS_AddElement
  <2> QED
    BY <1>1, <2>1, <2>2, SizeAssumption
<1>4. Fit(n, w)
  BY <1>1, <1>2, <1>3, SizeAssumption DEF Fit
<1> QED
  BY <1>1, <1>4 DEF w

\* Whoever comes in, at most one more is active than before, and within the bound.
LEMMA AddActiveFits ==
    ASSUME NEW n \in Node, NEW v, Fit(n, v), NEW p \in Other(n), NEW r \in AddActive(v, n, p)
    PROVE  /\ Fit(n, r.view) /\ r.evicted \subseteq Node
           /\ r.view.active \subseteq v.active \cup {p}
<1>1. CASE p \in v.active \cup {n}
  BY <1>1 DEF AddActive
<1>2. CASE p \notin v.active \cup {n} /\ Cardinality(v.active) < ActiveMax[n]
  <2>1. r = [view |-> Enter(v, p), evicted |-> {}]
    BY <1>2 DEF AddActive
  <2> QED
    BY <1>2, <2>1, EnterFits
<1>3. CASE p \notin v.active \cup {n} /\ ~(Cardinality(v.active) < ActiveMax[n])
  <2>1. PICK q \in v.active : \E w \in Demote(v, n, q) :
           r = [view |-> Enter(w, p), evicted |-> {q}]
    BY <1>3 DEF AddActive
  <2>2. PICK w \in Demote(v, n, q) : r = [view |-> Enter(w, p), evicted |-> {q}]
    BY <2>1
  <2>3. q \in Node /\ Fit(n, w) /\ w.active = v.active \ {q}
    BY DemoteFits DEF Fit, View
  <2>4. IsFiniteSet(v.active) /\ Cardinality(v.active) \in Nat
    BY SizesOfParts DEF Fit, View
  <2>5. Cardinality(v.active \ {q}) = Cardinality(v.active) - 1
    BY <2>4, FS_RemoveElement
  <2>6. Cardinality(w.active) < ActiveMax[n]
    BY <2>3, <2>4, <2>5, SizeAssumption DEF Fit
  <2>7. Fit(n, Enter(w, p)) /\ Enter(w, p).active = w.active \cup {p}
    BY <1>3, <2>3, <2>6, EnterFits
  <2> QED
    BY <2>2, <2>3, <2>7
<1> QED
  BY <1>1, <1>2, <1>3

LEMMA UnproposedFits ==
    ASSUME NEW n \in Node, NEW v, Fit(n, v), NEW p \in Node
    PROVE  /\ Fit(n, Unproposed(v, p)) /\ Unproposed(v, p).active = v.active
<1> DEFINE w == Unproposed(v, p)
<1>1. /\ w \in View /\ w.active = v.active /\ w.passive = v.passive
      /\ w.proposals = v.proposals \ {p} /\ w.join = v.join
  BY DEF Unproposed, Fit, View
<1> HIDE DEF w
<1>2. Fit(n, w)
  BY <1>1, FewerFit
<1> QED
  BY <1>1, <1>2 DEF w

LEMMA ProposedFits ==
    ASSUME NEW n \in Node, NEW v, Fit(n, v), NEW p \in Node, CanPropose(v, n, p)
    PROVE  /\ Fit(n, [v EXCEPT !.proposals = @ \cup {p}])
           /\ [v EXCEPT !.proposals = @ \cup {p}].active = v.active
<1> DEFINE w == [v EXCEPT !.proposals = @ \cup {p}]
<1>1. /\ w \in View /\ w.active = v.active /\ w.passive = v.passive
      /\ w.proposals = v.proposals \cup {p} /\ w.join = v.join
  BY DEF Fit, View
<1>2. p \notin v.active \cup v.proposals \cup {n} /\ Cardinality(v.proposals) < MaxProposals
  BY DEF CanPropose
<1> HIDE DEF w
<1>3. IsFiniteSet(v.proposals) /\ Cardinality(v.proposals) \in Nat
  BY SizesOfParts DEF Fit, View
<1>4. Cardinality(w.proposals) = Cardinality(v.proposals) + 1
  BY <1>1, <1>2, <1>3, FS_AddElement
<1>5. Fit(n, w)
  BY <1>1, <1>2, <1>3, <1>4, SizeAssumption DEF Fit, Other
<1> QED
  BY <1>1, <1>5 DEF w

\* The look at the failure detector takes the dead out and nobody in.
LEMMA SweptFits ==
    ASSUME NEW n \in Node, NEW v, Fit(n, v), member[n] \subseteq Node, NEW dead \in SUBSET Node,
           NEW w \in Swept(v, n, dead)
    PROVE  Fit(n, w) /\ w.active = v.active \ dead
<1> DEFINE a == [v EXCEPT !.active = @ \ dead]
<1>1. /\ a \in View /\ a.active = v.active \ dead /\ a.passive = v.passive
      /\ a.proposals = v.proposals /\ a.join = v.join
  BY DEF Fit, View
<1>2. PICK b \in MergePassive(a, n, v.active \cap dead) :
         w \in MergePassive([b EXCEPT !.passive = @ \ dead, !.proposals = @ \ dead], n,
                            member[n] \ dead)
  BY DEF Swept
<1> HIDE DEF a
<1>3. Fit(n, a)
  BY <1>1, FewerFit
<1>4. Fit(n, b) /\ b.active = a.active
  BY <1>2, <1>3, MergeFits DEF Fit, View
<1> DEFINE c == [b EXCEPT !.passive = @ \ dead, !.proposals = @ \ dead]
<1>5. /\ c \in View /\ c.active = b.active /\ c.passive = b.passive \ dead
      /\ c.proposals = b.proposals \ dead /\ c.join = b.join
  BY <1>4 DEF Fit, View
<1>6. w \in MergePassive(c, n, member[n] \ dead)
  BY <1>2
<1> HIDE DEF c
<1>7. Fit(n, c)
  BY <1>4, <1>5, FewerFit
<1> QED
  BY <1>1, <1>4, <1>5, <1>6, <1>7, MergeFits

-----------------------------------------------------------------------------
(* A node goes on with a fit view.                                         *)

Mail == [Node -> Seq(Msg)]

LEMMA MessageFits ==
    ASSUME NEW t \in Types, NEW arg \in SUBSET Node, NEW ttl \in Nat
    PROVE  Message(t, arg, ttl) \in Msg
  BY DEF Message, Msg

LEMMA MailFits ==
    /\ Nothing \in Mail
    /\ \A p \in Node, m \in Msg : To(p, m) \in Mail
    /\ \A S \in SUBSET Node : Farewell(S) \in Mail
    /\ Plain("join") \in Msg /\ Plain("join_ack") \in Msg
    /\ Plain("neighbor") \in Msg /\ Plain("neighbor_accept") \in Msg
<1>1. ASSUME NEW t \in Types PROVE Plain(t) \in Msg
  BY MessageFits DEF Plain
<1>2. Nothing \in Mail
  BY DEF Nothing, Mail
<1>3. \A p \in Node, m \in Msg : To(p, m) \in Mail
  BY <1>2 DEF To, Mail
<1>4. ASSUME NEW S \in SUBSET Node PROVE Farewell(S) \in Mail
  <2>1. Plain("disconnect") \in Msg
    BY <1>1 DEF Types
  <2> QED
    BY <2>1 DEF Farewell, Mail
<1>5. /\ Plain("join") \in Msg /\ Plain("join_ack") \in Msg
      /\ Plain("neighbor") \in Msg /\ Plain("neighbor_accept") \in Msg
  BY <1>1 DEF Types
<1> QED
  BY <1>2, <1>3, <1>4, <1>5

LEMMA SentFits ==
    ASSUME NEW rest, NetFits(rest), NEW n \in Node, NEW mail \in Mail
    PROVE  NetFits(Sent(rest, n, mail))
<1> DEFINE sent == Sent(rest, n, mail)
           out == [p \in Node |-> IF p \in up[n] /\ {n, p} \in link
                                  THEN rest[n][p] \o mail[p] ELSE rest[n][p]]
<1>1. rest \in [Node -> [Node -> Seq(Msg)]]
  BY DEF NetFits
<1>2. sent = [rest EXCEPT ![n] = out]
  BY <1>1 DEF Sent
<1>3. ASSUME NEW p \in Node PROVE out[p] \in Seq(Msg)
  <2>1. rest[n][p] \in Seq(Msg) /\ mail[p] \in Seq(Msg)
    BY <1>1 DEF Mail
  <2> QED
    BY <2>1
<1>4. ASSUME NEW p \in Node, out[p] # <<>> PROVE {n, p} \in link
  BY <1>4 DEF NetFits
<1>5. out \in [Node -> Seq(Msg)]
  BY <1>3
<1> HIDE DEF out, sent
<1>6. sent \in [Node -> [Node -> Seq(Msg)]]
  BY <1>1, <1>2, <1>5
<1>7. ASSUME NEW a \in Node, NEW p \in Node, sent[a][p] # <<>> PROVE {a, p} \in link
  BY <1>1, <1>2, <1>4, <1>7 DEF NetFits
<1> QED
  BY <1>6, <1>7 DEF NetFits, sent

\* Whatever the handler, this is what remains of it.
LEMMA StepFits ==
    ASSUME IInv, NEW n \in Node, NEW rest, NetFits(rest), NEW v, Fit(n, v), Standing(n, v),
           NEW mail \in Mail, NEW connect \in SUBSET Other(n),
           Step(rest, n, v, mail, connect), UNCHANGED <<link, up, swimVars>>, Bounded'
    PROVE  IInv'
<1>1. /\ view' = [view EXCEPT ![n] = v] /\ net' = Sent(rest, n, mail)
      /\ dials' = dials \cup {{n, p} : p \in connect \ up[n]}
  BY DEF Step
<1>2. UNCHANGED <<link, up, member, gone>>
  BY DEF swimVars
<1>3. DOMAIN view' = Node /\ \A a \in Node : Fit(a, view'[a]) /\ Standing(a, view'[a])
  BY <1>1 DEF IInv
<1>4. \A a \in Node : Standing(a, view[a])'
  BY <1>2, <1>3 DEF Standing
<1>5. LinksFit' /\ KnownFit'
  BY <1>2 DEF IInv, LinksFit, KnownFit
<1>6. DialsFit'
  <2>1. ASSUME NEW a \in Node, NEW b \in Node, {a, b} \in dials' PROVE a # b
    <3>1. CASE {a, b} \in dials
      BY <3>1 DEF IInv, DialsFit
    <3>2. CASE {a, b} \notin dials
      <4>1. PICK p \in connect : {a, b} = {n, p}
        BY <1>1, <2>1, <3>2
      <4>2. p # n
        BY DEF Other
      <4> QED
        BY <4>1, <4>2
    <3> QED
      BY <3>1, <3>2
  <2> QED
    BY <2>1 DEF DialsFit
<1>7. NetFits(Sent(rest, n, mail))
  BY SentFits
<1>8. NetFits(net)'
  BY <1>1, <1>2, <1>7 DEF NetFits
<1> QED
  BY <1>3, <1>4, <1>5, <1>6, <1>8 DEF IInv

LEMMA ProposeFits ==
    ASSUME IInv, NEW n \in Node, NEW rest, NetFits(rest), NEW v, Fit(n, v), Standing(n, v),
           NEW p \in Node, Propose(rest, n, v, p),
           UNCHANGED <<link, up, swimVars>>, Bounded'
    PROVE  IInv'
<1>1. CASE CanPropose(v, n, p)
  <2> DEFINE w == [v EXCEPT !.proposals = @ \cup {p}]
  <2>1. Step(rest, n, w, To(p, Plain("neighbor")), {p})
    BY <1>1 DEF Propose
  <2>2. Fit(n, w) /\ w.active = v.active
    BY <1>1, ProposedFits
  <2>3. p \in Other(n)
    BY <1>1 DEF CanPropose, Other
  <2>4. Standing(n, w)
    BY <2>2 DEF Standing
  <2> HIDE DEF w
  <2>5. To(p, Plain("neighbor")) \in Mail
    BY MailFits
  <2> QED
    BY <2>1, <2>2, <2>3, <2>4, <2>5, StepFits
<1>2. CASE ~CanPropose(v, n, p)
  <2>1. Step(rest, n, v, Nothing, {})
    BY <1>2 DEF Propose
  <2> QED
    BY <2>1, MailFits, StepFits
<1> QED
  BY <1>1, <1>2

-----------------------------------------------------------------------------
(* Messages.                                                               *)

\* What is known when n receives m from p.
Received(n, p, m, rest) ==
    /\ IInv /\ n \in Node /\ p \in Node /\ m \in Msg
    /\ p \in Other(n) /\ p \in up[n]
    /\ NetFits(rest)
    /\ UNCHANGED <<link, up, swimVars>> /\ Bounded'

LEMMA ReceivedFacts ==
    ASSUME IInv, NEW n \in Node, NEW p \in Node, NEW i \in {1, 2}, Len(net[p][n]) >= i,
           UNCHANGED <<link, up, swimVars>>, Bounded'
    PROVE  Received(n, p, net[p][n][i],
                    [net EXCEPT ![p][n] = SubSeq(@, 1, i - 1) \o SubSeq(@, i + 1, Len(@))])
<1> DEFINE s == net[p][n]
           t == SubSeq(s, 1, i - 1) \o SubSeq(s, i + 1, Len(s))
           rest == [net EXCEPT ![p][n] = SubSeq(@, 1, i - 1) \o SubSeq(@, i + 1, Len(@))]
<1>1. net \in [Node -> [Node -> Seq(Msg)]] /\ s \in Seq(Msg)
  BY DEF IInv, NetFits
<1>2. s # <<>> /\ s[i] \in Msg
  BY <1>1
<1>3. t \in Seq(Msg)
  <2>1. SubSeq(s, 1, i - 1) \in Seq(Msg) /\ SubSeq(s, i + 1, Len(s)) \in Seq(Msg)
    BY <1>1
  <2> QED
    BY <2>1
<1>4. rest = [net EXCEPT ![p][n] = t]
  BY <1>1
<1>5. {p, n} \in link
  BY <1>2 DEF IInv, NetFits
<1>6. n # p /\ p \in up[n]
  BY <1>5 DEF IInv, LinksFit
<1> HIDE DEF s, t, rest
<1>7. NetFits(rest)
  <2>1. rest \in [Node -> [Node -> Seq(Msg)]]
    BY <1>1, <1>3, <1>4
  <2>2. ASSUME NEW a \in Node, NEW b \in Node, rest[a][b] # <<>> PROVE {a, b} \in link
    BY <1>1, <1>4, <1>5, <2>2 DEF IInv, NetFits
  <2> QED
    BY <2>1, <2>2 DEF NetFits
<1> QED
  BY <1>2, <1>6, <1>7 DEF Received, Other, s, rest

\* A newcomer that is heard of over a session may stand in the view.
LEMMA NewcomerStands ==
    ASSUME NEW n, NEW p, NEW m, NEW rest, Received(n, p, m, rest), NEW v, Fit(n, v),
           v.active \subseteq view[n].active, NEW r \in AddActive(v, n, p)
    PROVE  Fit(n, r.view) /\ Standing(n, r.view) /\ r.evicted \in SUBSET Node
<1>1. n \in Node /\ p \in Other(n) /\ p \in up[n] /\ Standing(n, view[n])
  BY DEF Received, IInv
<1>2. Fit(n, r.view) /\ r.evicted \subseteq Node /\ r.view.active \subseteq v.active \cup {p}
  BY <1>1, AddActiveFits
<1> QED
  BY <1>1, <1>2 DEF Standing

\* n goes on, without dialing.
LEMMA GoesOn ==
    ASSUME NEW n, NEW p, NEW m, NEW rest, Received(n, p, m, rest), NEW v, Fit(n, v),
           Standing(n, v), NEW mail \in Mail, Step(rest, n, v, mail, {})
    PROVE  IInv'
  BY StepFits DEF Received

LEMMA ReceiveJoinOK ==
    ASSUME NEW n, NEW p, NEW m, NEW rest, Received(n, p, m, rest), ReceiveJoin(rest, n, p, m)
    PROVE  IInv'
<1>1. n \in Node /\ p \in Node /\ Fit(n, view[n]) /\ Standing(n, view[n])
  BY DEF Received, IInv
<1>2. Plain("join_ack") \in Msg /\ Message("forward_join", {p}, Ttl) \in Msg
  BY <1>1, SizeAssumption, MailFits, MessageFits DEF Types
<1>3. CASE p \in view[n].active
  <2>1. Step(rest, n, view[n], To(p, Plain("join_ack")), {})
    BY <1>3 DEF ReceiveJoin
  <2> QED
    BY <1>1, <1>2, <2>1, MailFits, GoesOn
<1>4. CASE p \notin view[n].active
  <2>1. PICK r \in AddActive(view[n], n, p) :
           Step(rest, n, r.view,
                [q \in Node |->
                    IF q = p THEN <<Plain("join_ack")>>
                    ELSE IF q \in r.view.active THEN <<Message("forward_join", {p}, Ttl)>>
                    ELSE Farewell(r.evicted)[q]],
                {})
    BY <1>4 DEF ReceiveJoin
  <2>2. Fit(n, r.view) /\ Standing(n, r.view) /\ r.evicted \in SUBSET Node
    BY <1>1, NewcomerStands
  <2> DEFINE mail == [q \in Node |->
                        IF q = p THEN <<Plain("join_ack")>>
                        ELSE IF q \in r.view.active THEN <<Message("forward_join", {p}, Ttl)>>
                        ELSE Farewell(r.evicted)[q]]
  <2>3. \A q \in Node : Farewell(r.evicted)[q] \in Seq(Msg)
    BY <2>2, MailFits DEF Mail
  <2>4. mail \in Mail
    BY <1>2, <2>3 DEF Mail
  <2> HIDE DEF mail
  <2> QED
    BY <2>1, <2>2, <2>4, GoesOn DEF mail
<1> QED
  BY <1>3, <1>4

LEMMA ReceiveJoinAckOK ==
    ASSUME NEW n, NEW p, NEW m, NEW rest, Received(n, p, m, rest), ReceiveJoinAck(rest, n, p, m)
    PROVE  IInv'
<1>1. n \in Node /\ p \in Node /\ Fit(n, view[n]) /\ Standing(n, view[n])
  BY DEF Received, IInv
<1>2. CASE view[n].join > 0 /\ p = Seed
  <2>1. PICK r \in AddActive(view[n], n, p) :
           Step(rest, n, [r.view EXCEPT !.join = 0], Farewell(r.evicted), {})
    BY <1>2 DEF ReceiveJoinAck
  <2>2. Fit(n, r.view) /\ Standing(n, r.view) /\ r.evicted \in SUBSET Node
    BY <1>1, NewcomerStands
  <2> DEFINE w == [r.view EXCEPT !.join = 0]
  <2>3. /\ w \in View /\ w.active = r.view.active /\ w.passive = r.view.passive
        /\ w.proposals = r.view.proposals /\ w.join = 0
    BY <2>2, SizeAssumption DEF Fit, View
  <2>4. Step(rest, n, w, Farewell(r.evicted), {})
    BY <2>1
  <2> HIDE DEF w
  <2>5. Fit(n, w) /\ Standing(n, w)
    BY <1>1, <2>2, <2>3, FewerFit DEF Standing
  <2> QED
    BY <2>2, <2>4, <2>5, MailFits, GoesOn
<1>3. CASE ~(view[n].join > 0 /\ p = Seed)
  BY <1>1, <1>3, MailFits, GoesOn DEF ReceiveJoinAck
<1> QED
  BY <1>2, <1>3

LEMMA ReceiveForwardJoinOK ==
    ASSUME NEW n, NEW p, NEW m, NEW rest, Received(n, p, m, rest),
           ReceiveForwardJoin(rest, n, p, m)
    PROVE  IInv'
<1> DEFINE v == view[n]
           next == v.active \ {p}
<1>1. n \in Node /\ p \in Node /\ Fit(n, v) /\ Standing(n, v) /\ m \in Msg
  BY DEF Received, IInv
<1>2. PICK joiner \in m.arg :
         \/ Step(rest, n, v, Nothing, {})
         \/ Propose(rest, n, v, joiner)
         \/ /\ m.ttl > 0
            /\ \E q \in next : Step(rest, n, v, To(q, Message("forward_join", {joiner}, m.ttl - 1)), {})
         \/ \E w \in AddPassive(v, n, joiner) : Step(rest, n, w, Nothing, {})
  BY DEF ReceiveForwardJoin
<1>3. joiner \in Node /\ m.ttl \in Nat
  BY <1>1 DEF Msg
<1> HIDE DEF v
<1>4. CASE Step(rest, n, v, Nothing, {})
  BY <1>1, <1>4, MailFits, GoesOn
<1>5. CASE Propose(rest, n, v, joiner)
  BY <1>1, <1>3, <1>5, ProposeFits DEF Received
<1>6. ASSUME m.ttl > 0, NEW q \in next,
             Step(rest, n, v, To(q, Message("forward_join", {joiner}, m.ttl - 1)), {})
      PROVE  IInv'
  <2>1. q \in Node /\ Message("forward_join", {joiner}, m.ttl - 1) \in Msg
    BY <1>1, <1>3, <1>6, MessageFits DEF Fit, View, Types
  <2> QED
    BY <1>1, <1>6, <2>1, MailFits, GoesOn
<1>7. ASSUME NEW w \in AddPassive(v, n, joiner), Step(rest, n, w, Nothing, {})
      PROVE  IInv'
  <2>1. Fit(n, w) /\ w.active = v.active
    BY <1>1, <1>3, MergeFits DEF AddPassive
  <2>2. Standing(n, w)
    BY <1>1, <2>1 DEF Standing
  <2> QED
    BY <1>7, <2>1, <2>2, MailFits, GoesOn
<1> QED
  BY <1>2, <1>4, <1>5, <1>6, <1>7

LEMMA ReceiveNeighborOK ==
    ASSUME NEW n, NEW p, NEW m, NEW rest, Received(n, p, m, rest),
           ReceiveNeighbor(rest, n, p, m)
    PROVE  IInv'
<1>1. n \in Node /\ p \in Node /\ Fit(n, view[n])
  BY DEF Received, IInv
<1> DEFINE mail(r) == [q \in Node |-> IF q = p THEN <<Plain("neighbor_accept")>>
                                     ELSE Farewell(r.evicted)[q]]
<1>2. PICK r \in AddActive(view[n], n, p) : Step(rest, n, r.view, mail(r), {})
  BY DEF ReceiveNeighbor
<1>3. Fit(n, r.view) /\ Standing(n, r.view) /\ r.evicted \in SUBSET Node
  BY <1>1, NewcomerStands
<1>4. \A q \in Node : Farewell(r.evicted)[q] \in Seq(Msg)
  BY <1>3, MailFits DEF Mail
<1>5. mail(r) \in Mail
  <2>1. Plain("neighbor_accept") \in Msg
    BY MailFits
  <2> QED
    BY <1>4, <2>1 DEF Mail
<1> HIDE DEF mail
<1> QED
  BY <1>2, <1>3, <1>5, GoesOn

LEMMA ReceiveNeighborAcceptOK ==
    ASSUME NEW n, NEW p, NEW m, NEW rest, Received(n, p, m, rest),
           ReceiveNeighborAccept(rest, n, p, m)
    PROVE  IInv'
<1>1. n \in Node /\ p \in Node /\ Fit(n, view[n]) /\ Standing(n, view[n])
  BY DEF Received, IInv
<1>2. CASE p \in view[n].proposals
  <2>1. PICK r \in AddActive(Unproposed(view[n], p), n, p) :
           Step(rest, n, r.view, Farewell(r.evicted), {})
    BY <1>2 DEF ReceiveNeighborAccept
  <2>2. Fit(n, Unproposed(view[n], p)) /\ Unproposed(view[n], p).active = view[n].active
    BY <1>1, UnproposedFits
  <2>3. Fit(n, r.view) /\ Standing(n, r.view) /\ r.evicted \in SUBSET Node
    BY <2>2, NewcomerStands
  <2> QED
    BY <2>1, <2>3, MailFits, GoesOn
<1>3. CASE p \notin view[n].proposals
  BY <1>1, <1>3, MailFits, GoesOn DEF ReceiveNeighborAccept
<1> QED
  BY <1>2, <1>3

LEMMA ReceiveDisconnectOK ==
    ASSUME NEW n, NEW p, NEW m, NEW rest, Received(n, p, m, rest),
           ReceiveDisconnect(rest, n, p, m)
    PROVE  IInv'
<1>1. n \in Node /\ p \in Node /\ Fit(n, view[n]) /\ Standing(n, view[n])
  BY DEF Received, IInv
<1> DEFINE x == [view[n] EXCEPT !.active = @ \ {p}]
<1>2. PICK w \in AddPassive(x, n, p) : Step(rest, n, w, Nothing, {})
  BY DEF ReceiveDisconnect
<1>3. /\ x \in View /\ x.active = view[n].active \ {p} /\ x.passive = view[n].passive
      /\ x.proposals = view[n].proposals /\ x.join = view[n].join
  BY <1>1 DEF Fit, View
<1> HIDE DEF x
<1>4. Fit(n, x)
  BY <1>1, <1>3, FewerFit
<1>5. Fit(n, w) /\ w.active = x.active
  BY <1>1, <1>2, <1>4, MergeFits DEF AddPassive
<1>6. Standing(n, w)
  BY <1>1, <1>3, <1>5 DEF Standing
<1> QED
  BY <1>2, <1>5, <1>6, MailFits, GoesOn

LEMMA ReceiveShuffleOK ==
    ASSUME NEW n, NEW p, NEW m, NEW rest, Received(n, p, m, rest),
           ReceiveShuffle(rest, n, p, m) \/ ReceiveShuffleReply(rest, n, p, m)
    PROVE  IInv'
<1>1. n \in Node /\ p \in Node /\ Fit(n, view[n]) /\ Standing(n, view[n]) /\ m.arg \in SUBSET Node
  BY DEF Received, IInv, Msg
<1>2. ASSUME NEW w \in MergePassive(view[n], n, m.arg)
      PROVE  Fit(n, w) /\ Standing(n, w)
  <2>1. Fit(n, w) /\ w.active = view[n].active
    BY <1>1, MergeFits
  <2> QED
    BY <1>1, <2>1 DEF Standing
<1>3. CASE ReceiveShuffleReply(rest, n, p, m)
  BY <1>2, <1>3, MailFits, GoesOn DEF ReceiveShuffleReply
<1>4. CASE ReceiveShuffle(rest, n, p, m)
  <2>1. PICK w \in MergePassive(view[n], n, m.arg) :
           \E s \in Samples(w, p, Cardinality(m.arg)) :
              Step(rest, n, w, To(p, Message("shuffle_reply", s, 0)), {})
    BY <1>4 DEF ReceiveShuffle
  <2>2. PICK s \in Samples(w, p, Cardinality(m.arg)) :
           Step(rest, n, w, To(p, Message("shuffle_reply", s, 0)), {})
    BY <2>1
  <2>3. Fit(n, w) /\ Standing(n, w)
    BY <1>2
  <2>4. s \in SUBSET Node
    BY <2>3 DEF Samples, Fit, View
  <2>5. Message("shuffle_reply", s, 0) \in Msg
    BY <2>4, MessageFits DEF Types
  <2> QED
    BY <1>1, <2>2, <2>3, <2>5, MailFits, GoesOn
<1> QED
  BY <1>3, <1>4

LEMMA ReceiveOK ==
    ASSUME IInv, NEW n \in Node, NEW p \in Node, NEW i \in {1, 2}, Receive(n, p, i), Bounded'
    PROVE  IInv'
<1> DEFINE m == net[p][n][i]
           rest == [net EXCEPT ![p][n] = SubSeq(@, 1, i - 1) \o SubSeq(@, i + 1, Len(@))]
<1>1. /\ Len(net[p][n]) >= i /\ UNCHANGED <<link, up, swimVars>>
      /\ \/ ReceiveJoin(rest, n, p, m)
         \/ ReceiveJoinAck(rest, n, p, m)
         \/ ReceiveForwardJoin(rest, n, p, m)
         \/ ReceiveNeighbor(rest, n, p, m)
         \/ ReceiveNeighborAccept(rest, n, p, m)
         \/ ReceiveDisconnect(rest, n, p, m)
         \/ ReceiveShuffle(rest, n, p, m)
         \/ ReceiveShuffleReply(rest, n, p, m)
  BY DEF Receive
<1>2. Received(n, p, m, rest)
  BY <1>1, ReceivedFacts
<1> HIDE DEF m, rest
<1> QED
  BY <1>1, <1>2, ReceiveJoinOK, ReceiveJoinAckOK, ReceiveForwardJoinOK, ReceiveNeighborOK,
     ReceiveNeighborAcceptOK, ReceiveDisconnectOK, ReceiveShuffleOK

-----------------------------------------------------------------------------
(* Timers.                                                                 *)

LEMMA TimersBounded ==
    ASSUME Bounded, \/ Timeout /\ UNCHANGED haste
                    \/ Calm /\ UNCHANGED faults
                    \/ Fault /\ UNCHANGED haste
                    \/ UNCHANGED <<haste, faults>>
    PROVE  Bounded'
  BY SizeAssumption DEF Bounded, Timeout, Calm, Fault

LEMMA TickOK ==
    ASSUME IInv, Bounded', NEW n \in Node, NEW v, Fit(n, v), v.active \subseteq up[n],
           NEW mail \in Mail, NEW connect \in SUBSET Other(n), Tick(n, v, mail, connect)
    PROVE  IInv'
<1>1. PICK w \in Swept(v, n, gone[n]) : Step(net, n, w, mail, connect)
  BY DEF Tick
<1>2. UNCHANGED <<link, up, swimVars>>
  BY DEF Tick
<1>3. member[n] \subseteq Node /\ gone[n] \in SUBSET Node /\ NetFits(net)
  BY DEF IInv, KnownFit
<1>4. Fit(n, w) /\ w.active = v.active \ gone[n]
  BY <1>1, <1>3, SweptFits
<1>5. Standing(n, w)
  BY <1>4 DEF Standing
<1> QED
  BY <1>1, <1>2, <1>3, <1>4, <1>5, StepFits

LEMMA JoinRetryOK ==
    ASSUME IInv, NEW n \in Node, JoinRetry(n)
    PROVE  IInv'
<1> DEFINE v == view[n]
           give == [v EXCEPT !.join = 0]
           again == [v EXCEPT !.join = IF @ < MaxAttempts THEN @ + 1 ELSE @]
<1>1. Fit(n, v) /\ v.active \subseteq up[n] /\ v.join > 0 /\ Bounded'
  BY TimersBounded DEF IInv, Standing, JoinRetry
<1>2. n # Seed
  BY <1>1 DEF Fit
<1>3. /\ give \in View /\ give.active = v.active /\ give.passive = v.passive
      /\ give.proposals = v.proposals /\ give.join = 0
  BY <1>1, SizeAssumption DEF Fit, View
<1>4. /\ again \in View /\ again.active = v.active /\ again.passive = v.passive
      /\ again.proposals = v.proposals
  BY <1>1, SizeAssumption DEF Fit, View
<1>5. \/ Tick(n, give, Nothing, {})
      \/ Tick(n, again, To(Seed, Plain("join")), {Seed})
  BY DEF JoinRetry
<1> HIDE DEF v, give, again
<1>6. Fit(n, give) /\ Fit(n, again)
  <2>1. Fit(n, give)
    BY <1>1, <1>3, FewerFit
  <2>2. Fit(n, again)
    BY <1>1, <1>2, <1>4 DEF Fit
  <2> QED
    BY <2>1, <2>2
<1>7. /\ Nothing \in Mail /\ To(Seed, Plain("join")) \in Mail
      /\ {Seed} \in SUBSET Other(n)
  BY <1>2, SizeAssumption, MailFits DEF Other
<1> QED
  BY <1>1, <1>3, <1>4, <1>5, <1>6, <1>7, TickOK

LEMMA LapseOK ==
    ASSUME IInv, NEW n \in Node, Lapse(n)
    PROVE  IInv'
<1>1. PICK p \in view[n].proposals : Tick(n, Unproposed(view[n], p), Nothing, {})
  BY DEF Lapse
<1>2. Fit(n, view[n]) /\ view[n].active \subseteq up[n] /\ p \in Node /\ Bounded'
  BY TimersBounded DEF IInv, Standing, Lapse, Fit, View
<1>3. Fit(n, Unproposed(view[n], p)) /\ Unproposed(view[n], p).active = view[n].active
  BY <1>2, UnproposedFits
<1> QED
  BY <1>1, <1>2, <1>3, MailFits, TickOK

LEMMA ScanOK ==
    ASSUME IInv, NEW n \in Node, Scan(n)
    PROVE  IInv'
<1> DEFINE w(p) == [view[n] EXCEPT !.proposals = @ \cup {p}]
<1>1. PICK p \in view[n].passive :
         /\ CanPropose(view[n], n, p)
         /\ Tick(n, w(p), To(p, Plain("neighbor")), {p})
  BY DEF Scan
<1>2. Fit(n, view[n]) /\ view[n].active \subseteq up[n] /\ p \in Node /\ Bounded'
  BY TimersBounded DEF IInv, Standing, Scan, Fit, View
<1>3. Fit(n, w(p)) /\ w(p).active = view[n].active
  BY <1>1, <1>2, ProposedFits
<1>4. {p} \in SUBSET Other(n) /\ To(p, Plain("neighbor")) \in Mail
  BY <1>1, <1>2, MailFits DEF CanPropose, Other
<1> HIDE DEF w
<1> QED
  BY <1>1, <1>2, <1>3, <1>4, TickOK

LEMMA ShuffleOK ==
    ASSUME IInv, NEW n \in Node, Shuffle(n)
    PROVE  IInv'
<1>1. PICK p \in view[n].active : \E s \in Samples(view[n], p, SampleSize - 1) :
         Tick(n, view[n], To(p, Message("shuffle", {n} \cup s, 0)), {})
  BY DEF Shuffle
<1>2. PICK s \in Samples(view[n], p, SampleSize - 1) :
         Tick(n, view[n], To(p, Message("shuffle", {n} \cup s, 0)), {})
  BY <1>1
<1>3. Fit(n, view[n]) /\ view[n].active \subseteq up[n] /\ p \in Node /\ Bounded'
  BY TimersBounded DEF IInv, Standing, Shuffle, Fit, View
<1>4. s \in SUBSET Node
  BY <1>3 DEF Samples, Fit, View
<1>5. To(p, Message("shuffle", {n} \cup s, 0)) \in Mail
  <2>1. {n} \cup s \in SUBSET Node /\ "shuffle" \in Types
    BY <1>4 DEF Types
  <2>2. Message("shuffle", {n} \cup s, 0) \in Msg
    BY <2>1, MessageFits
  <2> QED
    BY <1>3, <2>2, MailFits
<1> QED
  BY <1>2, <1>3, <1>5, TickOK

LEMMA RotateOK ==
    ASSUME IInv, NEW n \in Node, Rotate(n)
    PROVE  IInv'
<1>1. PICK p \in view[n].active : \E w \in Demote(view[n], n, p) : Tick(n, w, Farewell({p}), {})
  BY DEF Rotate
<1>2. PICK w \in Demote(view[n], n, p) : Tick(n, w, Farewell({p}), {})
  BY <1>1
<1>3. Fit(n, view[n]) /\ view[n].active \subseteq up[n] /\ p \in Node /\ Bounded'
  BY TimersBounded DEF IInv, Standing, Rotate, Fit, View
<1>4. Fit(n, w) /\ w.active = view[n].active \ {p}
  BY <1>3, DemoteFits
<1>5. Farewell({p}) \in Mail
  BY <1>3, MailFits
<1> QED
  BY <1>2, <1>3, <1>4, <1>5, TickOK

LEMMA SweepOK ==
    ASSUME IInv, NEW n \in Node, Sweep(n)
    PROVE  IInv'
<1>1. Fit(n, view[n]) /\ view[n].active \subseteq up[n] /\ Bounded'
  BY TimersBounded DEF IInv, Standing, Sweep
<1> QED
  BY <1>1, MailFits, TickOK DEF Sweep

-----------------------------------------------------------------------------
(* Sessions and the failure detector.                                      *)

\* What is cut off is silent, what is not is as it was.
LEMMA CutFits ==
    ASSUME NetFits(net), NEW l
    PROVE  /\ Cut(l) \in [Node -> [Node -> Seq(Msg)]]
           /\ \A n, p \in Node : Cut(l)[n][p] # <<>> => {n, p} \in link \ l
<1>1. ASSUME NEW n \in Node, NEW p \in Node
      PROVE  (IF {n, p} \in l THEN <<>> ELSE net[n][p]) \in Seq(Msg)
  BY DEF NetFits
<1>2. Cut(l) \in [Node -> [Node -> Seq(Msg)]]
  BY <1>1 DEF Cut
<1>3. ASSUME NEW n \in Node, NEW p \in Node, Cut(l)[n][p] # <<>>
      PROVE  {n, p} \in link \ l
  BY <1>3 DEF Cut, NetFits
<1> QED
  BY <1>2, <1>3

LEMMA ConnectOK ==
    ASSUME IInv, NEW n \in Node, NEW p \in Node, Connect(n, p)
    PROVE  IInv'
<1> DEFINE greeting(a, b) ==
             (IF view[a].join > 0 /\ b = Seed THEN <<Plain("join")>> ELSE <<>>) \o
             (IF b \in view[a].proposals THEN <<Plain("neighbor")>> ELSE <<>>)
<1>1. /\ {n, p} \in dials /\ p \notin up[n] /\ n \notin up[p]
      /\ link' = link \cup {{n, p}}
      /\ up' = [up EXCEPT ![n] = @ \cup {p}, ![p] = @ \cup {n}]
      /\ member' = [member EXCEPT ![n] = @ \cup {p}, ![p] = @ \cup {n}]
      /\ gone' = [gone EXCEPT ![n] = @ \ {p}, ![p] = @ \ {n}]
      /\ dials' = dials \ {{n, p}}
      /\ net' = [net EXCEPT ![n][p] = greeting(n, p), ![p][n] = greeting(p, n)]
      /\ UNCHANGED <<view, haste, faults>>
  BY DEF Connect
<1>2. n # p
  BY <1>1 DEF IInv, DialsFit
<1>3. ASSUME NEW a \in Node, NEW b \in Node PROVE greeting(a, b) \in Seq(Msg)
  BY MailFits
<1> HIDE DEF greeting
<1>4. KnownFit'
  <2>1. /\ up' \in [Node -> SUBSET Node] /\ gone' \in [Node -> SUBSET Node]
        /\ member' \in [Node -> SUBSET Node]
    BY <1>1 DEF IInv, KnownFit
  <2>2. ASSUME NEW a \in Node
        PROVE  gone'[a] \cup up'[a] \subseteq member'[a] /\ member'[a] \subseteq Other(a)
    <3>1. gone[a] \cup up[a] \subseteq member[a] /\ member[a] \subseteq Other(a)
      BY DEF IInv, KnownFit
    <3> QED
      BY <1>1, <1>2, <3>1 DEF IInv, KnownFit, Other
  <2> QED
    BY <2>1, <2>2 DEF KnownFit
<1>5. /\ \A a \in Node : up[a] \subseteq up'[a] /\ gone'[a] \subseteq gone[a]
      /\ p \in up'[n] /\ n \in up'[p] /\ p \notin gone'[n] /\ n \notin gone'[p]
  <2>1. up \in [Node -> SUBSET Node] /\ gone \in [Node -> SUBSET Node]
    BY DEF IInv, KnownFit
  <2>2. up'[n] = up[n] \cup {p} /\ up'[p] = up[p] \cup {n}
    BY <1>1, <1>2, <2>1
  <2>3. gone'[n] = gone[n] \ {p} /\ gone'[p] = gone[p] \ {n}
    BY <1>1, <1>2, <2>1
  <2>4. \A a \in Node \ {n, p} : up'[a] = up[a] /\ gone'[a] = gone[a]
    BY <1>1, <2>1
  <2> QED
    BY <2>2, <2>3, <2>4
<1>6. LinksFit'
  <2> SUFFICES ASSUME NEW a \in Node, NEW b \in Node, {a, b} \in link'
               PROVE  a # b /\ b \in up'[a] /\ a \in up'[b]
    BY DEF LinksFit
  <2>1. CASE {a, b} \in link
    <3>1. a # b /\ b \in up[a] /\ a \in up[b]
      BY <2>1 DEF IInv, LinksFit
    <3> QED
      BY <1>5, <3>1
  <2>2. CASE {a, b} \notin link
    <3>1. (a = n /\ b = p) \/ (a = p /\ b = n)
      BY <1>1, <2>2
    <3> QED
      BY <1>2, <1>5, <3>1
  <2> QED
    BY <2>1, <2>2
<1>7. NetFits(net)'
  <2>1. net' \in [Node -> [Node -> Seq(Msg)]]
    BY <1>1, <1>3 DEF IInv, NetFits
  <2>2. ASSUME NEW a \in Node, NEW b \in Node, net'[a][b] # <<>> PROVE {a, b} \in link'
    <3>1. CASE (a = n /\ b = p) \/ (a = p /\ b = n)
      <4>1. {a, b} = {n, p}
        BY <3>1
      <4> QED
        BY <1>1, <4>1
    <3>2. CASE ~((a = n /\ b = p) \/ (a = p /\ b = n))
      <4>1. net'[a][b] = net[a][b]
        BY <1>1, <1>2, <3>2 DEF IInv, NetFits
      <4> QED
        BY <1>1, <2>2, <4>1 DEF IInv, NetFits
    <3> QED
      BY <3>1, <3>2
  <2> QED
    BY <2>1, <2>2 DEF NetFits
<1>8. DOMAIN view' = Node /\ \A a \in Node : Fit(a, view[a])' /\ Standing(a, view[a])'
  BY <1>1, <1>5 DEF IInv, Standing, Fit
<1>9. DialsFit' /\ Bounded'
  BY <1>1 DEF IInv, DialsFit, Bounded
<1> QED
  BY <1>4, <1>6, <1>7, <1>8, <1>9 DEF IInv

\* n loses its session with p, whether the other end did it or itself.
LEMMA LosingOK ==
    ASSUME IInv, NEW n \in Node, NEW p \in Node,
           {n, p} \notin link', link' \subseteq link, NetFits(net)',
           up' = [up EXCEPT ![n] = @ \ {p}],
           \E w \in Lost(view[n], n, p) : view' = [view EXCEPT ![n] = w],
           UNCHANGED <<dials, swimVars, haste, faults>>
    PROVE  IInv'
<1>1. /\ up' = [up EXCEPT ![n] = @ \ {p}]
      /\ UNCHANGED <<dials, swimVars, haste, faults>>
  OBVIOUS
<1>2. PICK w \in Lost(view[n], n, p) : view' = [view EXCEPT ![n] = w]
  OBVIOUS
<1>3. PICK x \in Demote(view[n], n, p) : w = Unproposed(x, p)
  BY <1>2 DEF Lost
<1>4. Fit(n, view[n]) /\ Standing(n, view[n])
  BY DEF IInv
<1>5. Fit(n, x) /\ x.active = view[n].active \ {p}
  BY <1>4, DemoteFits
<1>6. Fit(n, w) /\ w.active = view[n].active \ {p}
  BY <1>3, <1>5, UnproposedFits
<1>7. /\ UNCHANGED <<member, gone>>
      /\ DOMAIN up = Node /\ up'[n] = up[n] \ {p} /\ \A a \in Node \ {n} : up'[a] = up[a]
  BY <1>1 DEF swimVars, IInv, KnownFit
<1>8. DOMAIN view' = Node /\ \A a \in Node : Fit(a, view[a])' /\ Standing(a, view[a])'
  <2>1. DOMAIN view' = Node
    BY <1>2 DEF IInv
  <2>2. ASSUME NEW a \in Node
        PROVE  Fit(a, view'[a]) /\ view'[a].active \subseteq up'[a]
    BY <1>2, <1>4, <1>6, <1>7 DEF IInv, Standing
  <2> QED
    BY <2>1, <2>2 DEF Standing, Fit
<1>9. LinksFit'
  <2> SUFFICES ASSUME NEW a \in Node, NEW b \in Node, {a, b} \in link'
               PROVE  a # b /\ b \in up'[a] /\ a \in up'[b]
    BY DEF LinksFit
  <2>1. a # b /\ b \in up[a] /\ a \in up[b]
    BY DEF IInv, LinksFit
  <2>2. ~(a = n /\ b = p) /\ ~(a = p /\ b = n)
    <3>1. {p, n} = {n, p}
      OBVIOUS
    <3> QED
      BY <3>1
  <2> QED
    BY <1>7, <2>1, <2>2
<1>10. KnownFit'
  BY <1>1, <1>7 DEF IInv, KnownFit
<1>11. DialsFit' /\ Bounded'
  BY <1>1 DEF IInv, DialsFit, Bounded
<1> QED
  BY <1>8, <1>9, <1>10, <1>11 DEF IInv

LEMMA SessionDownOK ==
    ASSUME IInv, NEW n \in Node, NEW p \in Node, SessionDown(n, p) \/ CloseDead(n, p)
    PROVE  IInv'
<1>1. CASE SessionDown(n, p)
  <2>1. NetFits(net)' /\ {n, p} \notin link' /\ link' \subseteq link
    BY <1>1 DEF SessionDown, IInv, NetFits
  <2> QED
    BY <1>1, <2>1, LosingOK DEF SessionDown
<1>2. CASE CloseDead(n, p)
  <2>1. link' = link \ {{n, p}} /\ net' = Cut({{n, p}})
    BY <1>2 DEF CloseDead
  <2>2. NetFits(net)'
    BY <2>1, CutFits DEF IInv, NetFits
  <2> QED
    BY <1>2, <2>1, <2>2, LosingOK DEF CloseDead
<1> QED
  BY <1>1, <1>2

\* Where sessions break and what is in flight on them is lost, the rest stands.
LEMMA CutOK ==
    ASSUME IInv, NEW l, link' = link \ l, net' = Cut(l),
           UNCHANGED <<view, up, dials, swimVars>>, Bounded'
    PROVE  IInv'
<1>1. UNCHANGED <<member, gone>>
  BY DEF swimVars
<1>2. NetFits(net)'
  BY CutFits DEF IInv, NetFits
<1>3. LinksFit'
  BY <1>1 DEF IInv, LinksFit
<1>4. KnownFit' /\ DialsFit'
  BY <1>1 DEF IInv, KnownFit, DialsFit
<1>5. DOMAIN view' = Node /\ \A a \in Node : Fit(a, view[a])' /\ Standing(a, view[a])'
  BY <1>1 DEF IInv, Standing, Fit
<1> QED
  BY <1>2, <1>3, <1>4, <1>5 DEF IInv

LEMMA LoseOK ==
    ASSUME IInv, NEW n \in Node, NEW p \in Node, Lose(n, p)
    PROVE  IInv'
<1>1. /\ net[n][p] # <<>> /\ net' = [net EXCEPT ![n][p] = Tail(@)]
      /\ UNCHANGED <<view, link, up, dials, swimVars>> /\ Bounded'
  BY TimersBounded DEF Lose, IInv
<1>2. UNCHANGED <<member, gone>>
  BY <1>1 DEF swimVars
<1>3. NetFits(net)'
  <2>1. net \in [Node -> [Node -> Seq(Msg)]] /\ net[n][p] \in Seq(Msg)
    BY DEF IInv, NetFits
  <2>2. Tail(net[n][p]) \in Seq(Msg)
    BY <1>1, <2>1
  <2>3. net' \in [Node -> [Node -> Seq(Msg)]]
    BY <1>1, <2>1, <2>2
  <2>4. ASSUME NEW a \in Node, NEW b \in Node, net'[a][b] # <<>> PROVE {a, b} \in link'
    BY <1>1, <2>1, <2>4 DEF IInv, NetFits
  <2> QED
    BY <2>3, <2>4 DEF NetFits
<1>4. LinksFit' /\ KnownFit' /\ DialsFit'
  BY <1>1, <1>2 DEF IInv, LinksFit, KnownFit, DialsFit
<1>5. DOMAIN view' = Node /\ \A a \in Node : Fit(a, view[a])' /\ Standing(a, view[a])'
  BY <1>1, <1>2 DEF IInv, Standing, Fit
<1> QED
  BY <1>1, <1>3, <1>4, <1>5 DEF IInv

LEMMA BootFits ==
    ASSUME NEW n \in Node
    PROVE  Fit(n, Boot(n)) /\ Boot(n).active = {}
<1> DEFINE v == Boot(n)
<1>1. /\ v.active = {} /\ v.passive = {} /\ v.proposals = {}
      /\ v.join = IF n = Seed THEN 0 ELSE 1
  BY DEF Boot
<1>2. v \in View
  BY SizeAssumption DEF Boot, View
<1>3. Cardinality({}) = 0
  BY FS_EmptySet
<1> HIDE DEF v
<1>4. Fit(n, v)
  BY <1>1, <1>2, <1>3, SizeAssumption DEF Fit
<1> QED
  BY <1>1, <1>4 DEF v

LEMMA RestartOK ==
    ASSUME IInv, NEW n \in Node, Restart(n)
    PROVE  IInv'
<1>1. /\ view' = [view EXCEPT ![n] = Boot(n)]
      /\ link' = {l \in link : n \notin l}
      /\ net' = Cut({{n, p} : p \in Node})
      /\ up' = [up EXCEPT ![n] = {}]
      /\ member' = [member EXCEPT ![n] = {}]
      /\ gone' = [gone EXCEPT ![n] = {}]
      /\ dials' = {l \in dials : n \notin l} \cup (IF n = Seed THEN {} ELSE {{n, Seed}})
      /\ Bounded'
  BY TimersBounded DEF Restart, IInv
<1>2. KnownFit'
  BY <1>1 DEF IInv, KnownFit
<1>3. /\ DOMAIN up = Node /\ DOMAIN gone = Node
      /\ \A a \in Node \ {n} : up'[a] = up[a] /\ gone'[a] = gone[a]
  BY <1>1 DEF IInv, KnownFit
<1>4. DOMAIN view' = Node /\ \A a \in Node : Fit(a, view[a])' /\ Standing(a, view[a])'
  <2>1. DOMAIN view' = Node
    BY <1>1 DEF IInv
  <2>2. ASSUME NEW a \in Node
        PROVE  Fit(a, view'[a]) /\ view'[a].active \subseteq up'[a]
    <3>1. CASE a = n
      BY <1>1, <3>1, BootFits DEF IInv
    <3>2. CASE a # n
      BY <1>1, <1>3, <3>2 DEF IInv, Standing
    <3> QED
      BY <3>1, <3>2
  <2> QED
    BY <2>1, <2>2 DEF Standing, Fit
<1>5. LinksFit'
  <2> SUFFICES ASSUME NEW a \in Node, NEW b \in Node, {a, b} \in link'
               PROVE  a # b /\ b \in up'[a] /\ a \in up'[b]
    BY DEF LinksFit
  <2>1. {a, b} \in link /\ a # n /\ b # n
    BY <1>1
  <2>2. a # b /\ b \in up[a] /\ a \in up[b]
    BY <2>1 DEF IInv, LinksFit
  <2> QED
    BY <1>3, <2>1, <2>2
<1>6. DialsFit'
  <2> SUFFICES ASSUME NEW a \in Node, NEW b \in Node, {a, b} \in dials' PROVE a # b
    BY DEF DialsFit
  <2>1. CASE {a, b} \in dials
    BY <2>1 DEF IInv, DialsFit
  <2>2. CASE {a, b} \notin dials
    BY <1>1, <2>2
  <2> QED
    BY <2>1, <2>2
<1>7. NetFits(net)'
  <2>1. net' \in [Node -> [Node -> Seq(Msg)]]
    BY <1>1, CutFits DEF IInv
  <2>2. ASSUME NEW a \in Node, NEW b \in Node, net'[a][b] # <<>> PROVE {a, b} \in link'
    <3>1. {a, b} \in link \ {{n, p} : p \in Node}
      BY <1>1, <2>2, CutFits DEF IInv
    <3>2. n \notin {a, b}
      <4>1. {a, n} = {n, a}
        OBVIOUS
      <4> QED
        BY <3>1, <4>1
    <3> QED
      BY <1>1, <3>1, <3>2
  <2> QED
    BY <2>1, <2>2 DEF NetFits
<1> QED
  BY <1>1, <1>2, <1>4, <1>5, <1>6, <1>7 DEF IInv

LEMMA CondemnedOK ==
    ASSUME IInv, NEW n \in Node, NEW p \in Node, Condemn(n, p), NEW w, Fit(n, w),
           Standing(n, w), view' = [view EXCEPT ![n] = w]
    PROVE  IInv'
<1>1. /\ p \in member[n] \ gone[n] /\ gone' = [gone EXCEPT ![n] = @ \cup {p}]
      /\ UNCHANGED <<link, up, dials, member, net>> /\ Bounded'
  BY TimersBounded DEF Condemn, IInv
<1>2. DOMAIN view' = Node /\ \A a \in Node : Fit(a, view[a])' /\ Standing(a, view[a])'
  <2>1. DOMAIN view' = Node
    BY DEF IInv
  <2>2. ASSUME NEW a \in Node PROVE Fit(a, view'[a]) /\ view'[a].active \subseteq up'[a]
    BY <1>1 DEF IInv, Standing
  <2> QED
    BY <2>1, <2>2 DEF Standing, Fit
<1>3. KnownFit'
  BY <1>1 DEF IInv, KnownFit
<1>4. LinksFit' /\ DialsFit' /\ NetFits(net)'
  BY <1>1 DEF IInv, LinksFit, DialsFit, NetFits
<1> QED
  BY <1>1, <1>2, <1>3, <1>4 DEF IInv

LEMMA ConfirmOK ==
    ASSUME IInv, NEW n \in Node, NEW p \in Node, Confirm(n, p) \/ HearConfirm(n, p)
    PROVE  IInv'
<1>1. Fit(n, view[n]) /\ Standing(n, view[n])
  BY DEF IInv
<1>2. CASE Confirm(n, p)
  <2>1. Condemn(n, p)
    BY <1>2 DEF Confirm
  <2>2. gone'[n] \in SUBSET Node /\ member[n] \subseteq Node
    BY <2>1 DEF Condemn, IInv, KnownFit
  <2>3. PICK w \in Swept(view[n], n, gone'[n]) : view' = [view EXCEPT ![n] = w]
    BY <1>2 DEF Confirm
  <2>4. Fit(n, w) /\ w.active = view[n].active \ gone'[n]
    BY <1>1, <2>2, <2>3, SweptFits
  <2>5. Standing(n, w)
    BY <1>1, <2>4 DEF Standing
  <2> QED
    BY <2>1, <2>3, <2>4, <2>5, CondemnedOK
<1>3. CASE HearConfirm(n, p)
  <2>1. Condemn(n, p)
    BY <1>3 DEF HearConfirm
  <2>2. /\ Condemn(n, p) /\ view' = view
    BY <1>3, <2>1 DEF HearConfirm
  <2>3. /\ p \in member[n] \ gone[n] /\ gone' = [gone EXCEPT ![n] = @ \cup {p}]
        /\ UNCHANGED <<view, link, up, dials, member, net>> /\ Bounded'
    BY <2>2, TimersBounded DEF Condemn, IInv
  <2>4. DOMAIN view' = Node /\ \A a \in Node : Fit(a, view[a])' /\ Standing(a, view[a])'
    BY <2>3 DEF IInv, Standing, Fit
  <2>5. KnownFit'
    BY <2>3 DEF IInv, KnownFit
  <2>6. LinksFit' /\ DialsFit' /\ NetFits(net)'
    BY <2>3 DEF IInv, LinksFit, DialsFit, NetFits
  <2> QED
    BY <2>3, <2>4, <2>5, <2>6 DEF IInv
<1> QED
  BY <1>2, <1>3

LEMMA ProbeOK ==
    ASSUME IInv, NEW n \in Node, NEW p \in Node, Probe(n, p)
    PROVE  IInv'
<1>1. /\ p \in member[n] /\ dials' = dials \cup {{n, p}}
      /\ UNCHANGED <<view, link, up, member, gone, net, haste, faults>>
  BY DEF Probe, swimVars
<1>2. p # n
  BY <1>1 DEF IInv, KnownFit, Other
<1>3. DialsFit'
  <2> SUFFICES ASSUME NEW a \in Node, NEW b \in Node, {a, b} \in dials' PROVE a # b
    BY DEF DialsFit
  <2>1. CASE {a, b} \in dials
    BY <2>1 DEF IInv, DialsFit
  <2>2. CASE {a, b} \notin dials
    BY <1>1, <1>2, <2>2
  <2> QED
    BY <2>1, <2>2
<1>4. LinksFit' /\ KnownFit' /\ NetFits(net)' /\ Bounded'
  BY <1>1 DEF IInv, LinksFit, KnownFit, NetFits, Bounded
<1>5. DOMAIN view' = Node /\ \A a \in Node : Fit(a, view[a])' /\ Standing(a, view[a])'
  BY <1>1 DEF IInv, Standing, Fit
<1> QED
  BY <1>3, <1>4, <1>5 DEF IInv

-----------------------------------------------------------------------------
LEMMA InitIInv == Init => IInv
<1> SUFFICES ASSUME Init PROVE IInv
  OBVIOUS
<1>1. \A n \in Node : Fit(n, view[n]) /\ Standing(n, view[n])
  BY BootFits DEF Init, Standing
<1>2. DOMAIN view = Node /\ LinksFit /\ Bounded
  BY SizeAssumption DEF Init, LinksFit, Bounded
<1>3. KnownFit
  BY DEF Init, KnownFit
<1>4. DialsFit
  <2> SUFFICES ASSUME NEW a \in Node, NEW b \in Node, {a, b} \in dials PROVE a # b
    BY DEF DialsFit
  <2>1. PICK n \in Other(Seed) : {a, b} = {n, Seed}
    BY DEF Init
  <2> QED
    BY <2>1 DEF Other
<1>5. NetFits(net)
  BY MailFits DEF Init, NetFits, Nothing
<1> QED
  BY <1>1, <1>2, <1>3, <1>4, <1>5 DEF IInv

LEMMA IInvStep == IInv /\ [Next]_vars => IInv'
<1> SUFFICES ASSUME IInv, [Next]_vars PROVE IInv'
  OBVIOUS
<1>1. CASE UNCHANGED vars
  <2>1. UNCHANGED <<view, link, up, dials, member, gone, net, haste, faults>>
    BY <1>1 DEF vars, swimVars
  <2>2. LinksFit' /\ DialsFit' /\ KnownFit' /\ NetFits(net)' /\ Bounded'
    BY <2>1 DEF IInv, LinksFit, DialsFit, KnownFit, NetFits, Bounded
  <2>3. DOMAIN view' = Node /\ \A a \in Node : Fit(a, view[a])' /\ Standing(a, view[a])'
    BY <2>1 DEF IInv, Standing, Fit
  <2> QED
    BY <2>2, <2>3 DEF IInv
<1>2. ASSUME NEW n \in Node, NEW p \in Node, Deliver(n, p) \/ Overtake(n, p)
      PROVE  IInv'
  <2>1. Bounded' /\ \E i \in {1, 2} : Receive(n, p, i)
    BY <1>2, TimersBounded DEF Deliver, Overtake, Receive, IInv
  <2> QED
    BY <2>1, ReceiveOK
<1>3. ASSUME NEW n \in Node, NEW p \in Node,
             Connect(n, p) \/ SessionDown(n, p) \/ CloseDead(n, p) \/ Probe(n, p)
      PROVE  IInv'
  BY <1>3, ConnectOK, SessionDownOK, ProbeOK
<1>4. ASSUME NEW n \in Node,
             JoinRetry(n) \/ Lapse(n) \/ Scan(n) \/ Shuffle(n) \/ Rotate(n) \/ Sweep(n)
      PROVE  IInv'
  BY <1>4, JoinRetryOK, LapseOK, ScanOK, ShuffleOK, RotateOK, SweepOK
<1>5. ASSUME NEW n \in Node, NEW p \in Node, Lose(n, p) \/ Confirm(n, p) \/ HearConfirm(n, p)
      PROVE  IInv'
  BY <1>5, LoseOK, ConfirmOK
<1>6. ASSUME NEW n \in Node, Restart(n) PROVE IInv'
  BY <1>6, RestartOK
<1>7. ASSUME NEW l \in link, Break(l) PROVE IInv'
  <2>1. /\ link' = link \ {l} /\ net' = Cut({l})
        /\ UNCHANGED <<view, up, dials, swimVars>> /\ Bounded'
    BY <1>7, TimersBounded DEF Break, IInv
  <2> QED
    BY <2>1, CutOK
<1> QED
  BY <1>1, <1>2, <1>3, <1>4, <1>5, <1>6, <1>7 DEF Next, Transport

\* The inductive invariant: what travels, travels on a session that works; such a
\* session is known to both ends.
THEOREM OverlayInvariance == Spec => []IInv
<1> QED
  BY InitIInv, IInvStep, PTL DEF Spec

\* The views stay within their sizes and apart from each other, and the failure
\* detector knows whoever a node has a session with (hyparview.zig, addActive,
\* addPassive, propose; node.zig, onSessionUp).
THEOREM OverlayTypeCorrect == Spec => []TypeOK
<1>1. IInv => TypeOK
  BY DEF IInv, TypeOK, Fit, View, Standing, KnownFit, Bounded
<1> QED
  BY <1>1, OverlayInvariance, PTL

\* No neighbour without a session, however joins, proposals, late answers, breaks,
\* restarts and wrong verdicts interleave (hyparview.zig,
\* onSessionDown, and node.zig around it).
THEOREM NeighboursAreBacked == Spec => []Backed
<1>1. IInv => Backed
  BY DEF IInv, Backed, Standing
<1> QED
  BY <1>1, OverlayInvariance, PTL
=============================================================================
