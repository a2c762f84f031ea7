---------------------------- MODULE SessionPool ----------------------------
(***************************************************************************)
(* The pool of application sessions (src/composition/root.zig): which      *)
(* peers an application demands, and for each the session that serves it,  *)
(* whether the pool dialed it or adopted it, and when to try again.        *)
(*                                                                         *)
(* The pool is called, never runs by itself: an action is one call of      *)
(* ensure, service, forget or deinit, or a step of what it reads: the      *)
(* mesh (member), the resolver (addr) and the messaging Node (sess).       *)
(* Times are kept relative to the pool's clock: the time left until        *)
(* retry_at_us, until the dial times out, until the lease is idle.         *)
(***************************************************************************)
EXTENDS Integers, FiniteSets

CONSTANTS
    Peer, Sess, Addr,   \* peers, session ids, endpoints
    None,               \* no session, no address
    Stranger,           \* the identity of somebody nobody asked for
    MaxPeers,           \* options.max_peers
    RetryInitial,       \* options.retry_initial_us
    RetryMax,           \* options.retry_max_us
    DialTimeout,        \* options.dial_timeout_us
    IdleTimeout,        \* options.idle_timeout_us, 0 for no eviction
    MaxStep             \* bound: the time that passes between two calls

ASSUME PoolAssumption ==
    /\ IsFiniteSet(Peer) /\ IsFiniteSet(Sess)
    /\ None \notin Sess \cup Addr \cup Peer /\ Stranger \notin Peer \cup {None}
    /\ MaxPeers \in Nat \ {0} /\ RetryInitial \in Nat \ {0}
    /\ RetryMax \in Nat /\ RetryMax >= RetryInitial
    /\ DialTimeout \in Nat \ {0} /\ IdleTimeout \in Nat /\ MaxStep \in Nat

VARIABLES
    member,     \* what mesh.member answers of a peer
    addr,       \* what the resolver answers, None when it fails
    sess,       \* the sessions of the messaging Node
    demand,     \* the peers that have an entry
    entry,      \* their entries, Blank without one
    settled     \* history: the last step was a service pass

env == <<member, addr>>
vars == <<member, addr, sess, demand, entry, settled>>

-----------------------------------------------------------------------------
(* Sessions and entries.                                                   *)

\* want is the peer the pool dialed for, None for a session that came in;
\* at is the endpoint dialed; cert the identity the handshake showed.
Session == [state : {"gone", "connecting", "ready", "closing"},
            want : Peer \cup {None}, at : Addr \cup {None},
            cert : Peer \cup {Stranger, None}]

NoSession == [state |-> "gone", want |-> None, at |-> None, cert |-> None]

Entry == [endpoint : Addr \cup {None}, session : Sess \cup {None},
          owned : BOOLEAN, ready : BOOLEAN, draining : BOOLEAN,
          retryIn : Nat, dialLeft : Nat, idleLeft : Nat, backoff : Nat]

Blank == [endpoint |-> None, session |-> None,
          owned |-> FALSE, ready |-> FALSE, draining |-> FALSE,
          retryIn |-> 0, dialLeft |-> 0, idleLeft |-> 0, backoff |-> 0]

Gone(s) == sess[s].state = "gone"
Authentic(p, s) == sess[s].state = "ready" /\ sess[s].cert = p

\* Ids the Node may hand out next: they are never reused while remembered.
Fresh == {s \in Sess : Gone(s) /\ \A q \in demand : entry[q].session # s}

Left(t, d) == IF d < t THEN t - d ELSE 0
LesserOf(a, b) == IF a < b THEN a ELSE b

\* The entry d later.
Elapsed(e, d) == [e EXCEPT !.retryIn = Left(@, d), !.dialLeft = Left(@, d),
                           !.idleLeft = Left(@, d)]

Init ==
    /\ member = [p \in Peer |-> "absent"]
    /\ addr = [p \in Peer |-> None]
    /\ sess = [s \in Sess |-> NoSession]
    /\ demand = {}
    /\ entry = [p \in Peer |-> Blank]
    /\ settled = FALSE

-----------------------------------------------------------------------------
(* One entry being refreshed: the entry, the sessions it closes and the    *)
(* session it dials. The refresh of the code is Refresh and, for an entry  *)
(* that seeks a session after it, Connect.                                 *)

Work(e) == [e |-> e, closed |-> {}, dialed |-> None]

\* Closes the session if the pool dialed it, and forgets it either way.
\* Deviation: the session is forgotten and left open.
ReleaseUnclosed(w) ==
    [w EXCEPT !.e = [@ EXCEPT !.session = None, !.owned = FALSE, !.ready = FALSE,
                              !.draining = FALSE, !.dialLeft = 0]]
\* Deviation: an adopted session is closed too.
ReleaseClosing(w) ==
    [ReleaseUnclosed(w) EXCEPT !.closed = @ \cup ({w.e.session} \ {None})]
Release(w) ==
    [w EXCEPT !.e = [@ EXCEPT !.session = None, !.owned = FALSE, !.ready = FALSE,
                              !.draining = FALSE, !.dialLeft = 0],
              !.closed = @ \cup (IF w.e.owned THEN {w.e.session} ELSE {})]

\* Deviation: the failure is counted, the retry time left as it was.
ScheduleNothing(e) ==
    [e EXCEPT !.backoff = IF @ = 0 THEN RetryInitial ELSE LesserOf(2 * @, RetryMax)]
ScheduleRetry(e) ==
    LET b == IF e.backoff = 0 THEN RetryInitial ELSE LesserOf(2 * e.backoff, RetryMax)
    IN  [e EXCEPT !.backoff = b, !.retryIn = b]

\* A new endpoint of a live member, or of one without a session, replaces the
\* old one; suspicion defers the change of an established session.
\* Deviation: suspicion defers nothing.
MovedAnyway(p, e) == addr[p] \notin {None, e.endpoint}
Moved(p, e) ==
    /\ addr[p] \notin {None, e.endpoint}
    /\ member[p] = "alive" \/ e.session = None

\* Deviation: the new endpoint is noted, the old session kept.
FollowNoted(p, w) ==
    IF Moved(p, w.e) THEN [w EXCEPT !.e = [@ EXCEPT !.endpoint = addr[p]]] ELSE w
Follow(p, w) ==
    IF ~Moved(p, w.e) THEN w
    ELSE LET v == IF w.e.endpoint = None THEN w ELSE Release(w)
         IN  [v EXCEPT !.e = [@ EXCEPT !.endpoint = addr[p],
                                       !.retryIn = 0, !.backoff = 0]]

\* What the status of the held session makes of the entry: a ready session of
\* the right identity is the route, a closing one drains, a dial has its time,
\* anything else has failed.
\* Deviation: any ready session is the route.
CheckNoCert(p, w) ==
    IF w.e.session # None /\ sess[w.e.session].state = "ready"
    THEN [w EXCEPT !.e = [@ EXCEPT !.ready = TRUE, !.draining = FALSE, !.backoff = 0]]
    ELSE w
Check(p, w) ==
    LET s == w.e.session IN
    CASE s = None -> w
      [] s # None /\ Authentic(p, s) ->
            [w EXCEPT !.e = [@ EXCEPT !.ready = TRUE, !.draining = FALSE, !.backoff = 0]]
      [] s # None /\ sess[s].state = "closing" ->
            [w EXCEPT !.e = [@ EXCEPT !.ready = FALSE, !.draining = TRUE]]
      [] s # None /\ sess[s].state = "connecting" /\ w.e.dialLeft > 0 -> w
      [] OTHER -> LET v == Release(w) IN [v EXCEPT !.e = ScheduleRetry(@)]

\* Everything refresh does to an entry before it looks for a session: under
\* suspicion it only sets the next try.
\* Deviation: a suspect member is treated like any other.
RefreshSuspect(p, e) == Check(p, Follow(p, Work(e)))
Refresh(p, e) ==
    LET w == Check(p, Follow(p, Work(e)))
    IN  IF w.e.session = None /\ member[p] = "suspect"
        THEN [w EXCEPT !.e = [@ EXCEPT !.retryIn = RetryInitial]]
        ELSE w

Seeks(w) == w.e.session = None /\ w.e.retryIn = 0

\* What an entry that seeks a session may find: one that findReady answers, or
\* the id of a new dial; None when dial fails, or when there is neither a ready
\* session nor an address. findReady may answer any session authenticated as p
\* (or none, when none serves the patterns asked for), but not one that the
\* refresh has just closed.
Answers(p) ==
    {s \in Sess : Authentic(p, s) /\ ~(entry[p].owned /\ entry[p].session = s)}
    \cup (IF addr[p] = None THEN {} ELSE Fresh) \cup {None}

Connect(p, w, s) ==
    CASE s = None -> [w EXCEPT !.e = ScheduleRetry(@)]
      [] s # None /\ Gone(s) ->
            [w EXCEPT !.e = [@ EXCEPT !.session = s, !.owned = TRUE,
                                      !.dialLeft = DialTimeout],
                      !.dialed = s]
      [] OTHER ->
            [w EXCEPT !.e = [@ EXCEPT !.session = s, !.ready = TRUE]]

\* Entries d after the previous call.
Aged(d) == [p \in Peer |-> IF p \in demand THEN Elapsed(entry[p], d) ELSE Blank]

\* The Node after the pool closed and dialed.
Sessions(work) ==
    [s \in Sess |->
        IF \E p \in DOMAIN work : s \in work[p].closed THEN NoSession
        ELSE IF \E p \in DOMAIN work : work[p].dialed = s
             THEN LET p == CHOOSE q \in DOMAIN work : work[q].dialed = s
                  IN  [state |-> "connecting", want |-> p,
                       at |-> work[p].e.endpoint, cert |-> None]
             ELSE sess[s]]

-----------------------------------------------------------------------------
(* The calls.                                                              *)

\* remove: the entry goes, and its session if the pool owns it.
Removed(e) == [Release(Work(e)) EXCEPT !.e = Blank]

Unlisted(p) == member[p] \in {"absent", "dead"}

\* Whom ensure serves: who has an entry, and live members while there is room.
\* Deviation: one more is admitted than there are entries.
AdmitsOneMore(p) ==
    p \in demand \/ (member[p] = "alive" /\ Cardinality(demand) <= MaxPeers)
Admits(p) ==
    p \in demand \/ (member[p] = "alive" /\ Cardinality(demand) < MaxPeers)

\* ensure of a member that may be served: demand starts or is renewed.
Ensure(p, d) ==
    /\ ~Unlisted(p) /\ Admits(p)
    /\ LET w == Refresh(p, [Aged(d)[p] EXCEPT !.idleLeft = IdleTimeout])
       IN  \E s \in IF Seeks(w) THEN Answers(p) ELSE {None} :
              LET v == IF Seeks(w) THEN Connect(p, w, s) ELSE w
              IN  /\ entry' = [Aged(d) EXCEPT ![p] = v.e]
                  /\ sess' = Sessions([q \in {p} |-> v])
    /\ demand' = demand \cup {p}
    /\ settled' = FALSE
    /\ UNCHANGED env

\* ensure of an unknown or dead peer forgets it and answers an error.
EnsureUnlisted(p, d) ==
    /\ Unlisted(p)
    /\ entry' = [Aged(d) EXCEPT ![p] = Blank]
    /\ sess' = Sessions([q \in {p} |-> Removed(entry[p])])
    /\ demand' = demand \ {p}
    /\ settled' = FALSE
    /\ UNCHANGED env

\* ensure that admits nothing only moves the clock.
EnsureRefused(p, d) ==
    /\ ~Unlisted(p) /\ ~Admits(p)
    /\ entry' = Aged(d)
    /\ settled' = FALSE
    /\ UNCHANGED <<env, sess, demand>>

Lapsed(e) == IdleTimeout # 0 /\ e.idleLeft = 0

\* service: every entry is removed or refreshed. The answers one entry gets do
\* not depend on the others: identities differ, and so do the ids of two dials.
Service(d) ==
    LET aged == Aged(d)
        leaving == {p \in demand : Unlisted(p) \/ Lapsed(aged[p])}
        looked == [p \in demand |-> IF p \in leaving THEN Removed(aged[p])
                                    ELSE Refresh(p, aged[p])]
        seeking == {p \in demand \ leaving : Seeks(looked[p])}
    IN  \E got \in [seeking -> Sess \cup {None}] :
          /\ \A p \in seeking : got[p] \in Answers(p)
          /\ \A p, q \in seeking : p # q => got[p] # got[q] \/ got[p] = None
          /\ LET work == [p \in demand |-> IF p \in seeking THEN Connect(p, looked[p], got[p])
                                           ELSE looked[p]]
             IN  /\ entry' = [p \in Peer |-> IF p \in demand THEN work[p].e ELSE Blank]
                 /\ sess' = Sessions(work)
          /\ demand' = demand \ leaving
          /\ settled' = TRUE
          /\ UNCHANGED env

Forget(p) ==
    /\ p \in demand
    /\ entry' = [entry EXCEPT ![p] = Blank]
    /\ sess' = Sessions([q \in {p} |-> Removed(entry[p])])
    /\ demand' = demand \ {p}
    /\ settled' = FALSE
    /\ UNCHANGED env

\* deinit; the application may init another pool on the same Node.
Deinit ==
    /\ entry' = [p \in Peer |-> Blank]
    /\ sess' = Sessions([p \in demand |-> Removed(entry[p])])
    /\ demand' = {}
    /\ settled' = FALSE
    /\ UNCHANGED env

\* The deadlines nextDeadline takes the earliest of.
\* Deviation: a dial in flight needs no wakeup.
DeadlinesWithoutDial ==
    {entry[p].retryIn : p \in {q \in demand : entry[q].session = None}}
    \cup (IF IdleTimeout = 0 THEN {} ELSE {entry[p].idleLeft : p \in demand})
Deadlines ==
    {entry[p].retryIn : p \in {q \in demand : entry[q].session = None}}
    \cup {entry[p].dialLeft : p \in {q \in demand : /\ entry[q].session # None
                                                    /\ ~entry[q].ready
                                                    /\ ~entry[q].draining}}
    \cup (IF IdleTimeout = 0 THEN {} ELSE {entry[p].idleLeft : p \in demand})

-----------------------------------------------------------------------------
(* What the pool reads: the mesh, the resolver, the Node.                  *)

Membership(p) ==
    /\ \E st \in {"alive", "suspect", "dead"} \ {member[p]} : member' = [member EXCEPT ![p] = st]
    /\ settled' = FALSE
    /\ UNCHANGED <<addr, sess, demand, entry>>

Readdress(p) ==
    /\ \E a \in (Addr \cup {None}) \ {addr[p]} : addr' = [addr EXCEPT ![p] = a]
    /\ settled' = FALSE
    /\ UNCHANGED <<member, sess, demand, entry>>

\* The dialed peer answers, with the identity wanted or with another.
Handshake(s) ==
    /\ sess[s].state = "connecting"
    /\ \E c \in {sess[s].want, Stranger} :
          sess' = [sess EXCEPT ![s] = [@ EXCEPT !.state = "ready", !.cert = c]]
    /\ settled' = FALSE
    /\ UNCHANGED <<env, demand, entry>>

\* GOAWAY, or a close under way.
Drain(s) ==
    /\ sess[s].state \in {"connecting", "ready"}
    /\ sess' = [sess EXCEPT ![s] = [@ EXCEPT !.state = "closing"]]
    /\ settled' = FALSE
    /\ UNCHANGED <<env, demand, entry>>

Vanish(s) ==
    /\ ~Gone(s)
    /\ sess' = [sess EXCEPT ![s] = NoSession]
    /\ settled' = FALSE
    /\ UNCHANGED <<env, demand, entry>>

Incoming(p, s) ==
    /\ s \in Fresh
    /\ sess' = [sess EXCEPT ![s] = [NoSession EXCEPT !.state = "ready", !.cert = p]]
    /\ settled' = FALSE
    /\ UNCHANGED <<env, demand, entry>>

Next ==
    \/ \E p \in Peer, d \in 0..MaxStep : Ensure(p, d) \/ EnsureUnlisted(p, d) \/ EnsureRefused(p, d)
    \/ \E d \in 0..MaxStep : Service(d)
    \/ \E p \in Peer : Forget(p) \/ Membership(p) \/ Readdress(p)
    \/ Deinit
    \/ \E s \in Sess : Handshake(s) \/ Drain(s) \/ Vanish(s)
    \/ \E p \in Peer, s \in Sess : Incoming(p, s)

Spec == Init /\ [][Next]_vars

-----------------------------------------------------------------------------
(* Properties.                                                             *)

\* Variables have their types, the peers that have an entry fit the array of
\* max_peers entries, and one without an entry holds nothing.
TypeOK ==
    /\ member \in [Peer -> {"absent", "alive", "suspect", "dead"}]
    /\ addr \in [Peer -> Addr \cup {None}]
    /\ sess \in [Sess -> Session]
    /\ demand \in SUBSET Peer /\ Cardinality(demand) <= MaxPeers
    /\ entry \in [Peer -> Entry]
    /\ \A p \in Peer \ demand : entry[p] = Blank
    /\ settled \in BOOLEAN

\* A session the pool dialed is in the Node only as long as the entry of the
\* peer it was dialed for owns it: whatever path drops it (timeout, failure,
\* wrong identity, endpoint change, eviction, forget, deinit) closes it.
NoSessionLeaked ==
    \A s \in Sess : sess[s].want # None =>
        LET e == entry[sess[s].want] IN e.owned /\ e.session = s

\* A session an entry owns leads where the entry says: dialed for this peer at
\* the endpoint now recorded, so no route survives a change of endpoint.
OwnedAsDialed ==
    \A p \in demand : entry[p].owned =>
        /\ entry[p].session # None /\ entry[p].endpoint # None
        /\ Gone(entry[p].session) \/ /\ sess[entry[p].session].want = p
                                     /\ sess[entry[p].session].at = entry[p].endpoint

\* The session lookup gives out for a peer never shows another identity, even
\* when it drains or is lost after the pool last looked.
ReadyIsAuthentic ==
    \A p \in demand : entry[p].ready =>
        /\ entry[p].session # None
        /\ Gone(entry[p].session) \/ sess[entry[p].session].cert = p

\* A route under way: established, or closing while it answers what it accepted.
Established(p, s) == s # None /\ (Authentic(p, s) \/ sess[s].state = "closing")

\* The pool never closes a session that came in: adopted sessions stay the
\* messaging Node's. (Only a call of the pool changes an entry.)
OnlyOwnClosed ==
    [][entry' # entry =>
        \A s \in Sess : ~Gone(s) /\ sess'[s].state = "gone" => sess[s].want # None]_vars

\* An entry gives up an established or draining session only with the entry
\* itself, or when a live member's endpoint moved: suspicion, a resolver that
\* fails, dial deadlines and backoff never take it away.
EstablishedKept ==
    [][\A p \in demand \cap demand' : Established(p, entry[p].session) =>
          \/ entry'[p].session = entry[p].session
          \/ member[p] = "alive" /\ addr[p] \notin {None, entry[p].endpoint}]_vars

\* A dial goes to a member held alive, at the address the resolver gives now:
\* an endpoint learnt before a suspicion or an outage is not dialed again.
DialsOnlyAlive ==
    [][\A s \in Sess : Gone(s) /\ sess'[s].state = "connecting" =>
          member[sess'[s].want] = "alive" /\ sess'[s].at = addr[sess'[s].want]]_vars

\* After a service pass the pool asks for a wakeup in the future or for none:
\* a caller that sleeps until nextDeadline does not spin.
NeverSpins == settled => \A t \in Deadlines : t > 0

\* A caller may sleep that long: while nothing it reads changes, no service
\* before nextDeadline would evict an entry, close, dial or change a route.
SleepsSafely ==
    settled => \A d \in 0..MaxStep : (\A t \in Deadlines : d < t) =>
        \A p \in demand :
            LET e == Elapsed(entry[p], d)
                w == Refresh(p, e)
            IN  /\ ~Lapsed(e) /\ ~Seeks(w)
                /\ w.closed = {}
                /\ w.e.session = e.session /\ w.e.ready = e.ready
=============================================================================
