--------------------------- MODULE SessionsProofs ---------------------------
(***************************************************************************)
(* One session per pair of peers, and a node that knows of it, for every   *)
(* set of connections and any number of faults. An endpoint changes only   *)
(* by closing, adopting or establishing a session, so it is enough to show *)
(* what each of these does to one endpoint.                                *)
(***************************************************************************)
EXTENDS Sessions, TLAPS

IsUp(e) == \E c \in Conn : e.byPeer = c /\ e.phase[c] = "up"

\* An endpoint as it should be between two steps. That no established session
\* stands in for a replaced one is what makes the report of its loss right.
Sound(e) ==
    /\ e \in Endpoint
    /\ \A c \in Conn : Held(e, c) <=> e.byPeer = c
    /\ e.told <=> e.replaced \/ IsUp(e)
    /\ e.replaced => ~IsUp(e)

LEMMA AtFacts ==
    ASSUME NEW e \in Endpoint, NEW c \in Conn, NEW ph \in Phase
    PROVE  /\ At(e, c, ph) \in Endpoint
           /\ At(e, c, ph).phase[c] = ph
           /\ \A d \in Conn \ {c} : At(e, c, ph).phase[d] = e.phase[d]
           /\ At(e, c, ph).byPeer = e.byPeer /\ At(e, c, ph).told = e.told
           /\ At(e, c, ph).replaced = e.replaced /\ At(e, c, ph).dead = e.dead
  BY DEF At, Endpoint

\* What closing a session that is not closed yet comes to.
LEMMA CloseFacts ==
    ASSUME NEW e \in Endpoint, NEW c \in Conn, e.phase[c] # "closed"
    PROVE  LET f == CloseSession(e, c)
           IN  /\ f \in Endpoint /\ f.phase[c] = "closed"
               /\ \A d \in Conn \ {c} : f.phase[d] = e.phase[d]
               /\ f.byPeer = IF e.byPeer = c THEN None ELSE e.byPeer
               /\ f.told <=> e.told /\ ~(e.byPeer = c /\ e.phase[c] = "up")
               /\ f.replaced <=> e.replaced
<1> DEFINE g == At(e, c, "closed")
           t == e.told /\ ~(e.byPeer = c /\ e.phase[c] = "up")
<1>1. /\ g \in Endpoint /\ g.phase[c] = "closed"
      /\ \A d \in Conn \ {c} : g.phase[d] = e.phase[d]
      /\ g.byPeer = e.byPeer /\ g.told = e.told /\ g.replaced = e.replaced
  BY AtFacts, "closed" \in Phase DEF Phase
<1>2. CloseSession(e, c) = [g EXCEPT !.byPeer = IF @ = c THEN None ELSE @,
                                     !.told = @ /\ ~(e.byPeer = c /\ e.phase[c] = "up")]
  BY DEF CloseSession
<1>3. (IF g.byPeer = c THEN None ELSE g.byPeer) \in Conn \cup {None}
  BY <1>1 DEF Endpoint
<1> HIDE DEF g
<1> QED
  BY <1>1, <1>2, <1>3 DEF Endpoint

LEMMA CloseSound ==
    ASSUME NEW e, Sound(e), NEW c \in Conn
    PROVE  Sound(CloseSession(e, c)) /\ CloseSession(e, c).byPeer \in {None, e.byPeer}
<1>1. CASE e.phase[c] = "closed"
  BY <1>1 DEF CloseSession
<1>2. CASE e.phase[c] # "closed"
  <2> DEFINE f == CloseSession(e, c)
  <2>1. /\ f \in Endpoint /\ f.phase[c] = "closed"
        /\ \A d \in Conn \ {c} : f.phase[d] = e.phase[d]
        /\ f.byPeer = IF e.byPeer = c THEN None ELSE e.byPeer
        /\ f.told <=> e.told /\ ~(e.byPeer = c /\ e.phase[c] = "up")
        /\ f.replaced <=> e.replaced
    BY <1>2, CloseFacts DEF Sound
  <2> HIDE DEF f
  <2>2. \A d \in Conn : Held(f, d) <=> f.byPeer = d
    BY <2>1, SessionsAssumption DEF Sound, Held
  <2>3. IsUp(f) <=> IsUp(e) /\ e.byPeer # c
    BY <2>1, SessionsAssumption DEF IsUp
  <2>4. e.byPeer = c /\ e.phase[c] = "up" => IsUp(e)
    BY DEF IsUp
  <2>5. IsUp(e) /\ e.byPeer = c => e.phase[c] = "up"
    BY DEF IsUp
  <2>6. f.told <=> f.replaced \/ IsUp(f)
    BY <2>1, <2>3, <2>4, <2>5 DEF Sound
  <2> QED
    BY <2>1, <2>2, <2>3, <2>6 DEF Sound, f
<1> QED
  BY <1>1, <1>2

LEMMA AdoptSound ==
    ASSUME NEW n \in Node, NEW e, Sound(e), NEW c \in Conn, ~Held(e, c)
    PROVE  LET f == Adopt(n, At(e, c, "bound"), c)
           IN  Sound(f) /\ f.byPeer \in {None, e.byPeer, c}
<1> DEFINE g == At(e, c, "bound")
<1>1. /\ g \in Endpoint /\ g.phase[c] = "bound"
      /\ \A d \in Conn \ {c} : g.phase[d] = e.phase[d]
      /\ g.byPeer = e.byPeer /\ g.told = e.told /\ g.replaced = e.replaced
  BY AtFacts, "bound" \in Phase DEF Phase, Sound
<1>2. e.byPeer # c /\ e.byPeer \in Conn \cup {None}
  BY DEF Sound, Endpoint
<1>3. IsUp(e) <=> e.byPeer # None /\ g.phase[e.byPeer] = "up"
  BY <1>1, <1>2, SessionsAssumption DEF IsUp
<1> HIDE DEF g
<1>4. CASE g.byPeer = None
  <2> DEFINE f == [g EXCEPT !.byPeer = c]
  <2>1. /\ Adopt(n, g, c) = f
        /\ f \in Endpoint /\ f.phase = g.phase /\ f.byPeer = c
        /\ f.told = g.told /\ f.replaced = g.replaced
    BY <1>1, <1>4 DEF Adopt, Endpoint
  <2> HIDE DEF f
  <2>2. \A d \in Conn : Held(f, d) <=> f.byPeer = d
    BY <1>1, <1>4, <2>1, SessionsAssumption DEF Sound, Held
  <2>3. ~IsUp(f) /\ ~IsUp(e)
    BY <1>1, <1>3, <1>4, <2>1 DEF IsUp
  <2> QED
    BY <1>1, <2>1, <2>2, <2>3 DEF Sound, g
<1>5. CASE g.byPeer # None /\ (~Preferred(n, c) \/ Preferred(n, g.byPeer))
  <2> DEFINE f == CloseSession(g, c)
  <2>1. Adopt(n, g, c) = f
    BY <1>5 DEF Adopt
  <2>2. /\ f \in Endpoint /\ f.phase[c] = "closed"
        /\ \A d \in Conn \ {c} : f.phase[d] = e.phase[d]
        /\ f.byPeer = e.byPeer /\ (f.told <=> e.told) /\ (f.replaced <=> e.replaced)
    BY <1>1, <1>2, CloseFacts
  <2> HIDE DEF f
  <2>3. \A d \in Conn : Held(f, d) <=> f.byPeer = d
    BY <1>2, <2>2 DEF Sound, Held
  <2>4. IsUp(f) <=> IsUp(e)
    BY <1>2, <2>2 DEF IsUp
  <2> QED
    BY <2>1, <2>2, <2>3, <2>4 DEF Sound, g
<1>6. CASE g.byPeer # None /\ ~(~Preferred(n, c) \/ Preferred(n, g.byPeer))
  <2> DEFINE x == g.byPeer
             h == [g EXCEPT !.byPeer = c, !.replaced = @ \/ g.phase[g.byPeer] = "up"]
             f == CloseSession(h, x)
  <2>1. Adopt(n, g, c) = f
    BY <1>6 DEF Adopt
  <2>2. x \in Conn /\ x # c /\ Held(e, x) /\ g.phase[x] = e.phase[x]
    BY <1>1, <1>2, <1>6 DEF Sound
  <2>3. /\ h \in Endpoint /\ h.phase = g.phase /\ h.byPeer = c /\ (h.told <=> e.told)
        /\ h.replaced <=> e.replaced \/ g.phase[x] = "up"
    BY <1>1 DEF Endpoint
  <2> HIDE DEF h, x
  <2>4. h.phase[x] # "closed"
    BY <2>2, <2>3 DEF Held
  <2>5. /\ f \in Endpoint /\ f.phase[x] = "closed"
        /\ \A d \in Conn \ {x} : f.phase[d] = h.phase[d]
        /\ f.byPeer = c /\ (f.told <=> e.told) /\ (f.replaced <=> h.replaced)
    BY <2>2, <2>3, <2>4, CloseFacts
  <2> HIDE DEF f
  <2>6. \A d \in Conn : Held(f, d) <=> f.byPeer = d
    BY <1>1, <2>2, <2>3, <2>5 DEF Sound, Held, x
  <2>7. ~IsUp(f)
    BY <1>1, <2>2, <2>3, <2>5 DEF IsUp
  <2>8. f.replaced <=> e.replaced \/ IsUp(e)
    BY <1>1, <1>3, <1>6, <2>3, <2>5 DEF x
  <2> QED
    BY <2>1, <2>5, <2>6, <2>7, <2>8 DEF Sound, g
<1> QED
  BY <1>4, <1>5, <1>6 DEF g

LEMMA EstablishedSound ==
    ASSUME NEW e, Sound(e), NEW c \in Conn, Held(e, c)
    PROVE  Sound(Established(e, c)) /\ Established(e, c).byPeer = e.byPeer
<1> DEFINE g == At(e, c, "up")
           f == [g EXCEPT !.told = TRUE, !.dead = FALSE, !.replaced = FALSE]
<1>1. e.byPeer = c
  BY DEF Sound
<1>2. /\ g \in Endpoint /\ g.phase[c] = "up"
      /\ \A d \in Conn \ {c} : g.phase[d] = e.phase[d]
      /\ g.byPeer = e.byPeer
  BY AtFacts, "up" \in Phase DEF Phase, Sound
<1>3. Established(e, c) = f
  BY <1>1 DEF Established
<1> HIDE DEF g
<1>4. /\ f \in Endpoint /\ f.phase = g.phase /\ f.byPeer = c /\ f.told /\ ~f.replaced
  BY <1>1, <1>2 DEF Endpoint
<1> HIDE DEF f
<1>5. \A d \in Conn : Held(f, d) <=> f.byPeer = d
  BY <1>1, <1>2, <1>4 DEF Sound, Held
<1>6. IsUp(f)
  BY <1>2, <1>4 DEF IsUp
<1> QED
  BY <1>1, <1>3, <1>4, <1>5, <1>6 DEF Sound

\* A session nobody holds may begin or be forgotten.
LEMMA UnheldSound ==
    ASSUME NEW e, Sound(e), NEW c \in Conn, ~Held(e, c), NEW ph \in {"none", "dialing"}
    PROVE  Sound(At(e, c, ph))
<1> DEFINE g == At(e, c, ph)
<1>0. ph \in Phase /\ e \in Endpoint
  BY DEF Phase, Sound
<1>1. /\ g \in Endpoint /\ g.phase[c] = ph
      /\ \A d \in Conn \ {c} : g.phase[d] = e.phase[d]
      /\ g.byPeer = e.byPeer /\ g.told = e.told /\ g.replaced = e.replaced
  BY <1>0, AtFacts
<1>2. e.byPeer # c
  BY DEF Sound
<1> HIDE DEF g
<1>3. IsUp(g) <=> IsUp(e)
  BY <1>1, <1>2 DEF IsUp
<1>4. \A d \in Conn : Held(g, d) <=> g.byPeer = d
  BY <1>1, <1>2 DEF Sound, Held
<1> QED
  BY <1>1, <1>3, <1>4 DEF Sound, g

-----------------------------------------------------------------------------
(* The steps.                                                              *)

\* Only connections whose handshake is finished are held.
HeldIsFinished == \A n \in Node, c \in Conn : local[n].byPeer = c => c \in finished

SessionsInv == TypeOK /\ HeldIsFinished /\ \A n \in Node : Sound(local[n])

LEMMA InitOK == Init => SessionsInv
<1> SUFFICES ASSUME Init PROVE SessionsInv
  OBVIOUS
<1>1. NoEndpoint \in Endpoint
  BY DEF NoEndpoint, Endpoint, Phase
<1>2. Sound(NoEndpoint) /\ \A c \in Conn : NoEndpoint.byPeer # c
  <2>1. \A c \in Conn : ~Held(NoEndpoint, c) /\ NoEndpoint.byPeer # c
    BY SessionsAssumption DEF NoEndpoint, Held
  <2>2. ~NoEndpoint.told /\ ~NoEndpoint.replaced /\ ~IsUp(NoEndpoint)
    BY <2>1 DEF NoEndpoint, IsUp
  <2> QED
    BY <1>1, <2>1, <2>2 DEF Sound
<1> QED
  BY <1>1, <1>2, SessionsAssumption DEF Init, SessionsInv, HeldIsFinished, TypeOK

\* One endpoint changes, soundly, and holds nothing new but c.
LEMMA OneEndpoint ==
    ASSUME SessionsInv, NEW n \in Node, NEW e, Sound(e), NEW c \in finished,
           e.byPeer \in {None, local[n].byPeer, c},
           local' = [local EXCEPT ![n] = e],
           UNCHANGED <<dialer, finished>>,
           greeted' \in [Conn -> SUBSET Node], faults' \in 0 .. MaxFaults
    PROVE  SessionsInv'
<1>1. local \in [Node -> Endpoint] /\ e \in Endpoint
  BY DEF SessionsInv, TypeOK, Sound
<1>2. local'[n] = e /\ \A m \in Node \ {n} : local'[m] = local[m]
  BY <1>1
<1>3. \A m \in Node : Sound(local'[m])
  BY <1>2 DEF SessionsInv
<1>4. TypeOK'
  BY <1>1 DEF SessionsInv, TypeOK
<1>5. HeldIsFinished'
  BY <1>2, SessionsAssumption DEF SessionsInv, HeldIsFinished
<1> QED
  BY <1>3, <1>4, <1>5 DEF SessionsInv

\* One endpoint changes and holds nothing new.
LEMMA OneEndpointLess ==
    ASSUME SessionsInv, NEW n \in Node, NEW e, Sound(e),
           e.byPeer \in {None, local[n].byPeer},
           local' = [local EXCEPT ![n] = e],
           UNCHANGED <<dialer, finished>>,
           greeted' \in [Conn -> SUBSET Node], faults' \in 0 .. MaxFaults
    PROVE  SessionsInv'
<1>1. local \in [Node -> Endpoint] /\ e \in Endpoint
  BY DEF SessionsInv, TypeOK, Sound
<1>2. local'[n] = e /\ \A m \in Node \ {n} : local'[m] = local[m]
  BY <1>1
<1>3. \A m \in Node : Sound(local'[m])
  BY <1>2 DEF SessionsInv
<1>4. TypeOK'
  BY <1>1 DEF SessionsInv, TypeOK
<1>5. HeldIsFinished'
  BY <1>2, SessionsAssumption DEF SessionsInv, HeldIsFinished
<1> QED
  BY <1>3, <1>4, <1>5 DEF SessionsInv

LEMMA CloseOK ==
    ASSUME SessionsInv, NEW n \in Node, NEW c \in Conn,
           local' = [local EXCEPT ![n] = CloseSession(local[n], c)],
           UNCHANGED <<dialer, finished, greeted>>, faults' \in 0 .. MaxFaults
    PROVE  SessionsInv'
<1>1. Sound(local[n])
  BY DEF SessionsInv
<1> QED
  BY <1>1, CloseSound, OneEndpointLess DEF SessionsInv, TypeOK

LEMMA DialOK ==
    ASSUME SessionsInv, NEW n \in Node, NEW c \in Conn, Dial(n, c)
    PROVE  SessionsInv'
<1>1. \A m \in Node : Sound(local[m]) /\ ~Held(local[m], c)
  BY DEF SessionsInv, Dial, Free, Live, Held
<1>2. local' = [m \in Node |-> At(local[m], c, IF m = n THEN "dialing" ELSE "none")]
  BY DEF Dial
<1>3. ASSUME NEW m \in Node
      PROVE  Sound(local'[m]) /\ local'[m].byPeer = local[m].byPeer
  <2>1. PICK ph \in {"none", "dialing"} : local'[m] = At(local[m], c, ph)
    BY <1>2
  <2>2. ph \in Phase /\ local[m] \in Endpoint
    BY <1>1 DEF Sound, Phase
  <2>3. At(local[m], c, ph).byPeer = local[m].byPeer
    BY <2>2, AtFacts
  <2> QED
    BY <1>1, <2>1, <2>3, UnheldSound
<1>4. local' \in [Node -> Endpoint]
  BY <1>2, <1>3 DEF Sound
<1>5. TypeOK'
  BY <1>4 DEF SessionsInv, TypeOK, Dial
<1>6. HeldIsFinished'
  BY <1>1, <1>3 DEF SessionsInv, HeldIsFinished, Sound, Dial
<1> QED
  BY <1>3, <1>5, <1>6 DEF SessionsInv

LEMMA RestartOK ==
    ASSUME SessionsInv, NEW n \in Node, Restart(n)
    PROVE  SessionsInv'
<1> DEFINE ph == [c \in Conn |->
              IF dialer[c] = Other(n) /\ c \notin finished THEN local[n].phase[c]
              ELSE IF dialer[c] = None THEN "none" ELSE "closed"]
           e == [NoEndpoint EXCEPT !.phase = ph]
<1>1. ph \in [Conn -> Phase]
  BY DEF SessionsInv, TypeOK, Endpoint, Phase
<1>2. ASSUME NEW c \in Conn PROVE ph[c] \notin {"bound", "up"}
  BY DEF SessionsInv, HeldIsFinished, Sound, Held
<1>3. local' = [local EXCEPT ![n] = e]
  BY DEF Restart
<1> HIDE DEF ph
<1>4. e \in Endpoint /\ e.phase = ph /\ e.byPeer = None /\ ~e.told /\ ~e.replaced
  BY <1>1 DEF NoEndpoint, Endpoint
<1> HIDE DEF e
<1>5. Sound(e)
  BY <1>2, <1>4, SessionsAssumption DEF Sound, Held, IsUp
<1>6. faults' \in 0 .. MaxFaults
  BY SessionsAssumption DEF Restart, Fault, SessionsInv, TypeOK
<1> QED
  BY <1>3, <1>4, <1>5, <1>6, OneEndpointLess DEF Restart, SessionsInv, TypeOK

LEMMA NextOK == SessionsInv /\ [Next]_vars => SessionsInv'
<1> SUFFICES ASSUME SessionsInv, [Next]_vars PROVE SessionsInv'
  OBVIOUS
<1>1. /\ \A n \in Node : Sound(local[n])
      /\ greeted \in [Conn -> SUBSET Node] /\ faults \in 0 .. MaxFaults
  BY DEF SessionsInv, TypeOK
<1>2. Fault => faults' \in 0 .. MaxFaults
  BY <1>1, SessionsAssumption DEF Fault
<1>3. ASSUME NEW n \in Node, NEW c \in Conn, Dial(n, c) PROVE SessionsInv'
  BY <1>3, DialOK
<1>4. ASSUME NEW n \in Node, NEW c \in Conn, BindDial(n, c) PROVE SessionsInv'
  <2> DEFINE e == Adopt(n, At(local[n], c, "bound"), c)
  <2>1. ~Held(local[n], c) /\ c \in finished /\ local' = [local EXCEPT ![n] = e]
        /\ UNCHANGED <<dialer, finished, faults>>
    BY <1>4 DEF BindDial, Held
  <2>2. Sound(e) /\ e.byPeer \in {None, local[n].byPeer, c}
    BY <1>1, <2>1, AdoptSound
  <2>3. greeted' \in [Conn -> SUBSET Node]
    BY <1>1, <1>4 DEF BindDial
  <2> HIDE DEF e
  <2> QED
    BY <1>1, <2>1, <2>2, <2>3, OneEndpoint
<1>5. ASSUME NEW n \in Node, NEW c \in Conn, Accept(n, c) PROVE SessionsInv'
  <2> DEFINE e == Adopt(n, At(local[n], c, "bound"), c)
  <2>1. ~Held(local[n], c) /\ c \in finished /\ local' = [local EXCEPT ![n] = e]
        /\ UNCHANGED <<dialer, finished, greeted, faults>>
    BY <1>5 DEF Accept, Held
  <2>2. Sound(e) /\ e.byPeer \in {None, local[n].byPeer, c}
    BY <1>1, <2>1, AdoptSound
  <2> HIDE DEF e
  <2> QED
    BY <1>1, <2>1, <2>2, OneEndpoint
<1>6. ASSUME NEW n \in Node, NEW c \in Conn, HandleHello(n, c) PROVE SessionsInv'
  <2> DEFINE e == Established(local[n], c)
  <2>1. Held(local[n], c) /\ local' = [local EXCEPT ![n] = e]
        /\ UNCHANGED <<dialer, finished, greeted, faults>>
    BY <1>6 DEF HandleHello, Held
  <2>2. Sound(e) /\ e.byPeer = local[n].byPeer
    BY <1>1, <2>1, EstablishedSound
  <2> HIDE DEF e
  <2> QED
    BY <1>1, <2>1, <2>2, OneEndpointLess
<1>7. ASSUME NEW n \in Node, NEW c \in Conn, NoticeClose(n, c) \/ Break(n, c)
      PROVE  SessionsInv'
  BY <1>1, <1>2, <1>7, CloseOK DEF NoticeClose, Break
<1>8. ASSUME NEW n \in Node, CloseDead(n) PROVE SessionsInv'
  BY <1>1, <1>8, CloseOK DEF CloseDead, Doomed
<1>9. ASSUME NEW n \in Node, Confirm(n) PROVE SessionsInv'
  <2> DEFINE e == [local[n] EXCEPT !.dead = TRUE]
  <2>1. /\ e \in Endpoint /\ e.phase = local[n].phase /\ e.byPeer = local[n].byPeer
        /\ e.told = local[n].told /\ e.replaced = local[n].replaced
    BY <1>1 DEF Sound, Endpoint
  <2>2. local' = [local EXCEPT ![n] = e] /\ faults' \in 0 .. MaxFaults
        /\ UNCHANGED <<dialer, finished, greeted>>
    BY <1>2, <1>9 DEF Confirm
  <2> HIDE DEF e
  <2>3. Sound(e)
    BY <1>1, <2>1 DEF Sound, Held, IsUp
  <2> QED
    BY <1>1, <2>1, <2>2, <2>3, OneEndpointLess
<1>10. ASSUME NEW n \in Node, Restart(n) PROVE SessionsInv'
  BY <1>10, RestartOK
<1>11. ASSUME NEW c \in Conn, Handshake(c) PROVE SessionsInv'
  BY <1>11 DEF Handshake, SessionsInv, TypeOK, HeldIsFinished
<1>12. ASSUME NEW n \in Node, NEW c \in Conn, SendHello(n, c) PROVE SessionsInv'
  BY <1>1, <1>12 DEF SendHello, SessionsInv, TypeOK, HeldIsFinished
<1>13. CASE UNCHANGED vars
  BY <1>13 DEF vars, SessionsInv, TypeOK, HeldIsFinished
<1> QED
  BY <1>3, <1>4, <1>5, <1>6, <1>7, <1>8, <1>9, <1>10, <1>11, <1>12, <1>13 DEF Next

-----------------------------------------------------------------------------
(* The theorems.                                                           *)

\* The inductive invariant: types, and both endpoints sound.
THEOREM SessionsInvariant == Spec => []SessionsInv
<1> QED
  BY InitOK, NextOK, PTL DEF Spec

\* The variables of the endpoints keep their types (endpoint.zig, Session).
THEOREM SessionsTypeCorrect == Spec => []TypeOK
<1>1. SessionsInv => TypeOK
  BY DEF SessionsInv
<1> QED
  BY <1>1, SessionsInvariant, PTL

\* At most one session of a peer is open once its identity is known, and it is
\* the one by_peer names (endpoint.zig, adoptSession).
THEOREM AtMostOneSession == Spec => []OnePerPair
<1>1. SessionsInv => OnePerPair
  BY DEF SessionsInv, Sound, OnePerPair
<1> QED
  BY <1>1, SessionsInvariant, PTL

\* The node is told of sessions and of their loss, but for the loss of a
\* replacement that never was established (endpoint.zig, closeSession).
THEOREM NodeKnows == Spec => []NodeInformed
<1>1. SessionsInv => NodeInformed
  BY DEF SessionsInv, Sound, IsUp, NodeInformed
<1> QED
  BY <1>1, SessionsInvariant, PTL
=============================================================================
