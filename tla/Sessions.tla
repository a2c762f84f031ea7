------------------------------ MODULE Sessions ------------------------------
(***************************************************************************)
(* The QUIC endpoints of two nodes (src/src/quic/endpoint.zig) and the     *)
(* connections between them: both may dial at once, each settles the tie   *)
(* by itself, and a session reaches the node above only with the peer's    *)
(* HELLO. Pairs of peers do not share state, so one pair is enough.        *)
(*                                                                         *)
(* The transport is what it is to the endpoint: a handshake finishes at    *)
(* the dialing end first, a HELLO arrives after it, a closed end is        *)
(* noticed at the other end in the end, and a connection may break at      *)
(* either end at any time.                                                 *)
(***************************************************************************)
EXTENDS Integers, FiniteSets

CONSTANTS
    Lower, Higher,  \* the two nodes, by the order of their ids
    Conn,           \* connections; one that is over at both ends is reused
    None,
    MaxFaults       \* bound: breaks, verdicts and restarts

ASSUME SessionsAssumption ==
    /\ Lower # Higher /\ None \notin Conn \cup {Lower, Higher}
    /\ MaxFaults \in Nat

Node == {Lower, Higher}
Other(n) == IF n = Lower THEN Higher ELSE Lower

VARIABLES
    dialer,     \* who dialed a connection, None of one never used
    finished,   \* connections whose handshake the dialing end has finished
    greeted,    \* the ends that have sent their HELLO
    local,      \* what each endpoint, and its node, hold
    faults      \* faults so far

vars == <<dialer, finished, greeted, local, faults>>

-----------------------------------------------------------------------------
(* An endpoint: the phase of its session on each connection, the session   *)
(* by_peer names, whether the node was told of one (onSessionUp without a  *)
(* later onSessionLost), whether the failure detector holds the peer dead, *)
(* and a history: the session the node was told of was replaced by one     *)
(* that has shown no HELLO.                                                *)

\* A session that is connecting is dialing until its peer is known, then bound.
Phase == {"none", "dialing", "bound", "up", "closed"}

Endpoint == [phase : [Conn -> Phase], byPeer : Conn \cup {None},
             told : BOOLEAN, dead : BOOLEAN, replaced : BOOLEAN]

NoEndpoint == [phase |-> [c \in Conn |-> "none"], byPeer |-> None,
               told |-> FALSE, dead |-> FALSE, replaced |-> FALSE]

Live(e, c) == e.phase[c] \in {"dialing", "bound", "up"}
Held(e, c) == e.phase[c] \in {"bound", "up"}
At(e, c, ph) == [e EXCEPT !.phase = [@ EXCEPT ![c] = ph]]

\* Closes the session and unmaps it; the node is told of the loss of an
\* established one, if it is still the one by_peer names.
CloseSession(e, c) ==
    IF e.phase[c] = "closed" THEN e
    ELSE [At(e, c, "closed") EXCEPT
             !.byPeer = IF @ = c THEN None ELSE @,
             !.told = @ /\ ~(e.byPeer = c /\ e.phase[c] = "up")]

\* Of two connections the one the lower id dialed is preferred.
Preferred(n, c) == (dialer[c] = n) = (n = Lower)

\* What a session whose peer is now known becomes: mapped, dropped for the one
\* there is, or put in its place, which is then closed without a report.
\* Deviation: the session it replaces is left open.
AdoptBeside(n, e, c) ==
    CASE e.byPeer = None -> [e EXCEPT !.byPeer = c]
      [] e.byPeer # None /\ (~Preferred(n, c) \/ Preferred(n, e.byPeer)) -> CloseSession(e, c)
      [] OTHER -> [e EXCEPT !.byPeer = c, !.replaced = @ \/ e.phase[e.byPeer] = "up"]
\* Deviation: the old session is closed before the new one is mapped.
AdoptAfterClose(n, e, c) ==
    CASE e.byPeer = None -> [e EXCEPT !.byPeer = c]
      [] e.byPeer # None /\ (~Preferred(n, c) \/ Preferred(n, e.byPeer)) -> CloseSession(e, c)
      [] OTHER -> [CloseSession(e, e.byPeer) EXCEPT
                      !.byPeer = c, !.replaced = @ \/ e.phase[e.byPeer] = "up"]
Adopt(n, e, c) ==
    CASE e.byPeer = None -> [e EXCEPT !.byPeer = c]
      [] e.byPeer # None /\ (~Preferred(n, c) \/ Preferred(n, e.byPeer)) -> CloseSession(e, c)
      [] OTHER -> CloseSession([e EXCEPT !.byPeer = c,
                                         !.replaced = @ \/ e.phase[e.byPeer] = "up"],
                               e.byPeer)

\* A HELLO makes a mapped session established; the node and its failure
\* detector learn that the peer is alive.
Established(e, c) ==
    IF e.byPeer # c THEN CloseSession(e, c)
    ELSE [At(e, c, "up") EXCEPT !.told = TRUE, !.dead = FALSE, !.replaced = FALSE]

\* Sessions a service pass closes because the failure detector holds the peer
\* dead: established ones only.
\* Deviation: sessions that are still connecting too.
DoomedConnecting(e) == {c \in Conn : e.dead /\ e.byPeer = c}
Doomed(e) == {c \in Conn : e.dead /\ e.byPeer = c /\ e.phase[c] = "up"}

-----------------------------------------------------------------------------
Init ==
    /\ dialer = [c \in Conn |-> None]
    /\ finished = {}
    /\ greeted = [c \in Conn |-> {}]
    /\ local = [n \in Node |-> NoEndpoint]
    /\ faults = 0

\* A connection both ends are through with. A handshake on its way from a
\* dialing end that closed may still be accepted, or never arrive.
Free(c) == \A n \in Node : ~Live(local[n], c)

\* connectPeer: no session, and no dial of its own in flight.
Dial(n, c) ==
    /\ local[n].byPeer = None
    /\ ~ \E d \in Conn : dialer[d] = n /\ local[n].phase[d] \in {"dialing", "bound"}
    /\ Free(c)
    /\ dialer' = [dialer EXCEPT ![c] = n]
    /\ finished' = finished \ {c}
    /\ greeted' = [greeted EXCEPT ![c] = {}]
    /\ local' = [m \in Node |-> At(local[m], c, IF m = n THEN "dialing" ELSE "none")]
    /\ UNCHANGED faults

\* The dialing end finishes the handshake.
Handshake(c) ==
    /\ c \notin finished
    /\ \E n \in Node : /\ dialer[c] = n /\ local[n].phase[c] = "dialing"
                       /\ local[Other(n)].phase[c] = "none"
    /\ finished' = finished \cup {c}
    /\ UNCHANGED <<dialer, greeted, local, faults>>

\* The endpoint finds its dial finished: the peer's certificate binds it, and
\* if it is kept, the HELLO goes out.
BindDial(n, c) ==
    /\ dialer[c] = n /\ c \in finished
    /\ local[n].phase[c] = "dialing"
    /\ LET e == Adopt(n, At(local[n], c, "bound"), c)
       IN  /\ local' = [local EXCEPT ![n] = e]
           /\ greeted' = IF e.phase[c] = "closed" THEN greeted
                         ELSE [greeted EXCEPT ![c] = @ \cup {n}]
    /\ UNCHANGED <<dialer, finished, faults>>

\* The other end finishes the handshake, while the server feeds it packets.
Accept(n, c) ==
    /\ dialer[c] = Other(n) /\ c \in finished
    /\ local[n].phase[c] = "none"
    /\ local' = [local EXCEPT ![n] = Adopt(n, At(@, c, "bound"), c)]
    /\ UNCHANGED <<dialer, finished, greeted, faults>>

\* The next service pass sends the accepting end's HELLO.
SendHello(n, c) ==
    /\ Held(local[n], c) /\ n \notin greeted[c]
    /\ greeted' = [greeted EXCEPT ![c] = @ \cup {n}]
    /\ UNCHANGED <<dialer, finished, local, faults>>

HandleHello(n, c) ==
    /\ local[n].phase[c] = "bound" /\ greeted[c] = Node
    /\ local' = [local EXCEPT ![n] = Established(@, c)]
    /\ UNCHANGED <<dialer, finished, greeted, faults>>

\* An end notices that the other has closed, or is not there any more.
NoticeClose(n, c) ==
    /\ Live(local[n], c) /\ local[Other(n)].phase[c] = "closed"
    /\ local' = [local EXCEPT ![n] = CloseSession(@, c)]
    /\ UNCHANGED <<dialer, finished, greeted, faults>>

CloseDead(n) ==
    \E c \in Doomed(local[n]) :
        /\ local' = [local EXCEPT ![n] = CloseSession(@, c)]
        /\ UNCHANGED <<dialer, finished, greeted, faults>>

-----------------------------------------------------------------------------
(* Faults.                                                                 *)

Fault == faults < MaxFaults /\ faults' = faults + 1

\* A connection fails at one end: a timeout, a write or a certificate refused,
\* or a dial abandoned for a better address.
Break(n, c) ==
    /\ Fault /\ Live(local[n], c)
    /\ local' = [local EXCEPT ![n] = CloseSession(@, c)]
    /\ UNCHANGED <<dialer, finished, greeted>>

\* The failure detector confirms the peer dead, rightly or not.
Confirm(n) ==
    /\ Fault /\ ~local[n].dead
    /\ local' = [local EXCEPT ![n] = [@ EXCEPT !.dead = TRUE]]
    /\ UNCHANGED <<dialer, finished, greeted>>

\* A node stops and starts with empty memory. Its connections are over; a
\* dial to it that has not got its answer gets it from the new process.
Restart(n) ==
    /\ Fault
    /\ local' = [local EXCEPT ![n] =
          [NoEndpoint EXCEPT !.phase = [c \in Conn |->
              IF dialer[c] = Other(n) /\ c \notin finished THEN local[n].phase[c]
              ELSE IF dialer[c] = None THEN "none" ELSE "closed"]]]
    /\ UNCHANGED <<dialer, finished, greeted>>

Next ==
    \/ \E n \in Node, c \in Conn :
          \/ Dial(n, c) \/ BindDial(n, c) \/ Accept(n, c) \/ SendHello(n, c)
          \/ HandleHello(n, c) \/ NoticeClose(n, c) \/ Break(n, c)
    \/ \E c \in Conn : Handshake(c)
    \/ \E n \in Node : CloseDead(n) \/ Confirm(n) \/ Restart(n)

Spec == Init /\ [][Next]_vars

\* Loops and packets of both ends go on, and somebody dials while no session
\* is there (join retries, repairs of the active view, probes of the dead).
\* Nothing is assumed of a handshake whose dialing end has closed.
Fairness ==
    /\ WF_vars(\E n \in Node, c \in Conn : Dial(n, c))
    /\ \A c \in Conn : WF_vars(Handshake(c))
    /\ \A n \in Node : WF_vars(CloseDead(n))
    /\ \A n \in Node, c \in Conn :
          /\ WF_vars(BindDial(n, c))
          /\ WF_vars(Accept(n, c) /\ Live(local[Other(n)], c))
          /\ WF_vars(SendHello(n, c))
          /\ WF_vars(HandleHello(n, c))
          /\ WF_vars(NoticeClose(n, c))

FairSpec == Spec /\ Fairness

-----------------------------------------------------------------------------
(* Properties.                                                             *)

\* Variables have their types.
TypeOK ==
    /\ dialer \in [Conn -> Node \cup {None}]
    /\ finished \subseteq Conn
    /\ greeted \in [Conn -> SUBSET Node]
    /\ local \in [Node -> Endpoint]
    /\ faults \in 0 .. MaxFaults

\* An endpoint keeps at most one session of a peer once it knows whose it is,
\* and by_peer names it: no second one survives simultaneous dials, and none
\* is left open that nothing can reach any more.
OnePerPair ==
    \A n \in Node, c \in Conn : Held(local[n], c) <=> local[n].byPeer = c

\* The node believes in a session exactly while one is established, or while
\* the preferred connection stands in for one it replaced: no replacement is
\* reported as a loss, and no loss goes unreported but of a replacement that
\* fails before its HELLO.
NodeInformed ==
    \A n \in Node :
        LET e == local[n]
        IN  e.told <=> e.replaced \/ \E c \in Conn : e.byPeer = c /\ e.phase[c] = "up"

\* In the end both endpoints hold the same connection, established, whatever
\* dials crossed and whomever the failure detectors had given up.
Meets ==
    <>[](\E c \in Conn : \A n \in Node :
            local[n].byPeer = c /\ local[n].phase[c] = "up" /\ local[n].told)
=============================================================================
