------------------------- MODULE SessionPoolProofs -------------------------
(***************************************************************************)
(* Ownership of the sessions of SessionPool, for every set of peers, ids   *)
(* and endpoints and all options: nothing the pool dialed is leaked,       *)
(* nothing it adopted is closed, and routes keep their identity.           *)
(***************************************************************************)
EXTENDS SessionPool, FiniteSetTheorems, TLAPS

Works == [e : Entry, closed : SUBSET Sess, dialed : Sess \cup {None}]

-----------------------------------------------------------------------------
(* What the stages of a refresh do to an entry.                            *)

LEMMA ReleaseFacts ==
    ASSUME NEW w \in Works, w.e.owned => w.e.session \in Sess
    PROVE  /\ Release(w) \in Works
           /\ Release(w).e.session = None /\ Release(w).e.endpoint = w.e.endpoint
           /\ ~Release(w).e.owned /\ ~Release(w).e.ready
           /\ Release(w).e.backoff = w.e.backoff
           /\ Release(w).closed = w.closed \cup (IF w.e.owned THEN {w.e.session} ELSE {})
           /\ Release(w).dialed = w.dialed
  BY PoolAssumption DEF Release, Works, Entry

LEMMA ScheduleRetryFacts ==
    ASSUME NEW e \in Entry
    PROVE  /\ ScheduleRetry(e) \in Entry
           /\ ScheduleRetry(e).session = e.session /\ ScheduleRetry(e).endpoint = e.endpoint
           /\ ScheduleRetry(e).owned = e.owned /\ ScheduleRetry(e).ready = e.ready
           /\ ScheduleRetry(e).retryIn > 0
<1> DEFINE b == IF e.backoff = 0 THEN RetryInitial ELSE LesserOf(2 * e.backoff, RetryMax)
<1>1. b \in Nat /\ b > 0
  BY PoolAssumption DEF LesserOf, Entry
<1>2. ScheduleRetry(e) = [e EXCEPT !.backoff = b, !.retryIn = b]
  BY DEF ScheduleRetry
<1> HIDE DEF b
<1> QED
  BY <1>1, <1>2 DEF Entry

\* What a refresh of entry e of p has come to, before it looks for a session:
\* the session e had is kept, or it is dropped and closed if the pool owned it.
Reached(p, e, w) ==
    /\ w \in Works /\ w.dialed = None
    /\ \/ /\ w.closed = {}
          /\ w.e.session = e.session /\ (w.e.owned <=> e.owned)
          /\ e.owned => w.e.endpoint = e.endpoint
       \/ /\ w.closed = IF e.owned THEN {e.session} ELSE {}
          /\ w.e.session = None /\ ~w.e.owned /\ ~w.e.ready
    /\ w.e.ready => \/ e.ready /\ w.e.session = e.session
                    \/ w.e.session # None /\ Authentic(p, w.e.session)

\* Of the entry, this is what a refresh relies on.
Sane(e) ==
    /\ e \in Entry
    /\ e.owned => e.session # None /\ e.endpoint # None
    /\ e.ready => e.session # None

LEMMA FollowFacts ==
    ASSUME NEW p \in Peer, NEW e, Sane(e), addr \in [Peer -> Addr \cup {None}]
    PROVE  /\ Reached(p, e, Follow(p, Work(e)))
           /\ (member[p] = "alive" /\ addr[p] # None) => Follow(p, Work(e)).e.endpoint = addr[p]
<1> DEFINE w == Work(e)
<1>1. w \in Works /\ w.e = e /\ w.closed = {} /\ w.dialed = None
  BY DEF Work, Works, Sane
<1>2. e.owned => e.session \in Sess
  BY DEF Sane, Entry
<1>3. CASE ~Moved(p, e)
  BY <1>1, <1>3 DEF Follow, Moved, Reached, Sane
<1>4. CASE Moved(p, e)
  <2> DEFINE v == IF e.endpoint = None THEN w ELSE Release(w)
  <2>1. v \in Works /\ v.dialed = None
    BY <1>1, <1>2, ReleaseFacts
  <2>2. \/ v = w /\ ~e.owned
        \/ /\ v.closed = IF e.owned THEN {e.session} ELSE {}
           /\ v.e.session = None /\ ~v.e.owned /\ ~v.e.ready
    BY <1>1, <1>2, ReleaseFacts DEF Sane
  <2>3. Follow(p, w) = [v EXCEPT !.e = [@ EXCEPT !.endpoint = addr[p],
                                                 !.retryIn = 0, !.backoff = 0]]
    BY <1>1, <1>4 DEF Follow
  <2>4. addr[p] \in Addr
    BY <1>4 DEF Moved
  <2> DEFINE f == [v.e EXCEPT !.endpoint = addr[p], !.retryIn = 0, !.backoff = 0]
  <2> HIDE DEF v, w
  <2>5. /\ f \in Entry /\ Follow(p, w) = [v EXCEPT !.e = f]
        /\ f.endpoint = addr[p] /\ f.session = v.e.session
        /\ f.owned = v.e.owned /\ f.ready = v.e.ready
    BY <2>1, <2>3, <2>4 DEF Works, Entry
  <2> HIDE DEF f
  <2>6. Follow(p, w).e.endpoint = addr[p] /\ Follow(p, w).e.session = v.e.session
        /\ Follow(p, w).e.owned = v.e.owned /\ Follow(p, w).e.ready = v.e.ready
        /\ Follow(p, w).closed = v.closed /\ Follow(p, w).dialed = v.dialed
        /\ Follow(p, w) \in Works
    BY <2>1, <2>5 DEF Works
  <2> QED
    BY <1>1, <2>1, <2>2, <2>6 DEF Reached, Sane, w
<1> QED
  BY <1>3, <1>4

LEMMA CheckFacts ==
    ASSUME NEW p \in Peer, NEW e, Sane(e), NEW w, Reached(p, e, w)
    PROVE  /\ Reached(p, e, Check(p, w))
           /\ Check(p, w).e.endpoint = w.e.endpoint
<1> DEFINE s == w.e.session
<1>1. w \in Works /\ w.e \in Entry /\ w.dialed = None /\ s \in Sess \cup {None}
  BY DEF Reached, Works, Entry
<1>2. CASE s = None
  BY <1>2 DEF Check
<1>3. CASE s # None /\ Authentic(p, s)
  <2> DEFINE f == [w.e EXCEPT !.ready = TRUE, !.draining = FALSE, !.backoff = 0]
  <2>1. /\ f \in Entry /\ Check(p, w) = [w EXCEPT !.e = f]
        /\ f.session = s /\ f.endpoint = w.e.endpoint /\ f.owned = w.e.owned
    BY <1>1, <1>3 DEF Check, Authentic, Entry
  <2> HIDE DEF f
  <2>2. /\ Check(p, w).e = f /\ Check(p, w) \in Works
        /\ Check(p, w).closed = w.closed /\ Check(p, w).dialed = None
    BY <1>1, <2>1 DEF Works
  <2> QED
    BY <1>3, <2>1, <2>2 DEF Reached
<1>4. CASE s # None /\ ~Authentic(p, s) /\ sess[s].state = "closing"
  <2> DEFINE f == [w.e EXCEPT !.ready = FALSE, !.draining = TRUE]
  <2>1. /\ f \in Entry /\ Check(p, w) = [w EXCEPT !.e = f] /\ ~f.ready
        /\ f.session = s /\ f.endpoint = w.e.endpoint /\ f.owned = w.e.owned
    BY <1>1, <1>4 DEF Check, Entry
  <2> HIDE DEF f
  <2>2. /\ Check(p, w).e = f /\ Check(p, w) \in Works
        /\ Check(p, w).closed = w.closed /\ Check(p, w).dialed = None
    BY <1>1, <2>1 DEF Works
  <2> QED
    BY <1>4, <2>1, <2>2 DEF Reached
<1>5. CASE /\ s # None /\ ~Authentic(p, s) /\ sess[s].state = "connecting"
           /\ w.e.dialLeft > 0
  BY <1>5 DEF Check
<1>6. CASE /\ s # None /\ ~Authentic(p, s) /\ sess[s].state # "closing"
           /\ ~(sess[s].state = "connecting" /\ w.e.dialLeft > 0)
  <2> DEFINE v == Release(w)
             f == ScheduleRetry(v.e)
  <2>1. Check(p, w) = [v EXCEPT !.e = f]
    BY <1>6 DEF Check
  <2>2. /\ v \in Works /\ v.e \in Entry
        /\ v.e.session = None /\ v.e.endpoint = w.e.endpoint
        /\ ~v.e.owned /\ ~v.e.ready /\ v.dialed = None
        /\ v.closed = w.closed \cup (IF w.e.owned THEN {s} ELSE {})
    BY <1>1, <1>6, ReleaseFacts DEF Works
  <2> HIDE DEF v
  <2>3. /\ f \in Entry /\ f.session = None /\ f.endpoint = w.e.endpoint
        /\ ~f.owned /\ ~f.ready
    BY <2>2, ScheduleRetryFacts
  <2> HIDE DEF f
  <2>4. /\ Check(p, w).e = f /\ Check(p, w) \in Works
        /\ Check(p, w).closed = v.closed /\ Check(p, w).dialed = None
    BY <2>1, <2>2, <2>3 DEF Works
  <2>5. w.closed = {} /\ (w.e.owned <=> e.owned) /\ s = e.session
    BY <1>6 DEF Reached
  <2> QED
    BY <2>2, <2>3, <2>4, <2>5 DEF Reached
<1> QED
  BY <1>2, <1>3, <1>4, <1>5, <1>6

\* An entry seeks a session only for a live member, and if it has an address
\* at that address.
LEMMA RefreshFacts ==
    ASSUME NEW p \in Peer, NEW e, Sane(e), addr \in [Peer -> Addr \cup {None}],
           member[p] \in {"alive", "suspect"}
    PROVE  /\ Reached(p, e, Refresh(p, e))
           /\ Seeks(Refresh(p, e)) =>
                 /\ member[p] = "alive"
                 /\ addr[p] # None => Refresh(p, e).e.endpoint = addr[p]
<1> DEFINE w == Check(p, Follow(p, Work(e)))
<1>1. /\ Reached(p, e, w)
      /\ (member[p] = "alive" /\ addr[p] # None) => w.e.endpoint = addr[p]
  BY FollowFacts, CheckFacts
<1>2. w \in Works /\ w.e \in Entry
  BY <1>1 DEF Reached, Works
<1>3. Refresh(p, e) = IF w.e.session = None /\ member[p] = "suspect"
                      THEN [w EXCEPT !.e = [@ EXCEPT !.retryIn = RetryInitial]]
                      ELSE w
  BY DEF Refresh
<1> HIDE DEF w
<1>4. CASE ~(w.e.session = None /\ member[p] = "suspect")
  BY <1>1, <1>3, <1>4 DEF Seeks
<1>5. CASE w.e.session = None /\ member[p] = "suspect"
  <2> DEFINE f == [w.e EXCEPT !.retryIn = RetryInitial]
  <2>1. /\ f \in Entry /\ f.retryIn > 0 /\ f.session = w.e.session
        /\ f.owned = w.e.owned /\ f.ready = w.e.ready /\ f.endpoint = w.e.endpoint
    BY <1>2, PoolAssumption DEF Entry
  <2>2. Refresh(p, e) = [w EXCEPT !.e = f]
    BY <1>3, <1>5
  <2> HIDE DEF f
  <2>3. /\ Refresh(p, e).e = f /\ Refresh(p, e) \in Works
        /\ Refresh(p, e).closed = w.closed /\ Refresh(p, e).dialed = w.dialed
    BY <1>2, <2>1, <2>2 DEF Works
  <2> QED
    BY <1>1, <2>1, <2>3 DEF Reached, Seeks
<1> QED
  BY <1>4, <1>5

LEMMA RemovedFacts ==
    ASSUME NEW p \in Peer, NEW e, Sane(e)
    PROVE  Reached(p, e, Removed(e)) /\ Removed(e).e = Blank
<1>1. Work(e) \in Works /\ Work(e).e = e /\ Work(e).closed = {} /\ Work(e).dialed = None
  BY DEF Work, Works, Sane
<1>2. e.owned => e.session \in Sess
  BY DEF Sane, Entry
<1>3. /\ Release(Work(e)) \in Works /\ Release(Work(e)).dialed = None
      /\ Release(Work(e)).closed = IF e.owned THEN {e.session} ELSE {}
  BY <1>1, <1>2, ReleaseFacts
<1>4. /\ Blank \in Entry /\ Blank.session = None /\ ~Blank.owned /\ ~Blank.ready
  BY PoolAssumption DEF Blank, Entry
<1>5. /\ Removed(e).e = Blank /\ Removed(e) \in Works
      /\ Removed(e).closed = Release(Work(e)).closed
      /\ Removed(e).dialed = Release(Work(e)).dialed
  BY <1>3, <1>4 DEF Removed, Works
<1> QED
  BY <1>3, <1>4, <1>5 DEF Reached

\* What a whole refresh, or the removal, of the entry of p may come to: as
\* Reached, or a session adopted, or one newly dialed at the address of a live
\* member.
Sound(p, e, w) ==
    \/ Reached(p, e, w)
    \/ /\ w \in Works /\ w.dialed = None /\ ~w.e.owned
       /\ w.closed = IF e.owned THEN {e.session} ELSE {}
       /\ w.e.session # None /\ Authentic(p, w.e.session)
    \/ /\ w \in Works /\ w.dialed \in Fresh
       /\ member[p] = "alive" /\ addr[p] \in Addr /\ w.e.endpoint = addr[p]
       /\ w.e.session = w.dialed /\ w.e.owned /\ ~w.e.ready
       /\ w.closed = IF e.owned THEN {e.session} ELSE {}

\* An entry that seeks a session comes out sound whatever it finds.
LEMMA ConnectFacts ==
    ASSUME NEW p \in Peer, NEW e, Sane(e), NEW w, Reached(p, e, w), Seeks(w),
           addr \in [Peer -> Addr \cup {None}], sess \in [Sess -> Session],
           member[p] = "alive", addr[p] # None => w.e.endpoint = addr[p],
           NEW s \in Answers(p)
    PROVE  Sound(p, e, Connect(p, w, s))
<1>1. /\ w \in Works /\ w.e \in Entry /\ w.dialed = None
      /\ w.e.session = None /\ ~w.e.owned /\ ~w.e.ready
      /\ w.closed = IF e.owned THEN {e.session} ELSE {}
  BY DEF Reached, Seeks, Works, Sane
<1>2. CASE s = None
  <2> DEFINE f == ScheduleRetry(w.e)
  <2>1. Connect(p, w, s) = [w EXCEPT !.e = f]
    BY <1>2 DEF Connect
  <2>2. f \in Entry /\ f.session = None /\ ~f.owned /\ ~f.ready
    BY <1>1, ScheduleRetryFacts
  <2> HIDE DEF f
  <2>3. /\ Connect(p, w, s) \in Works /\ Connect(p, w, s).e = f
        /\ Connect(p, w, s).closed = w.closed /\ Connect(p, w, s).dialed = None
    BY <1>1, <2>1, <2>2 DEF Works
  <2> QED
    BY <1>1, <2>2, <2>3 DEF Sound, Reached
<1>3. CASE s # None /\ Gone(s)
  <2> DEFINE f == [w.e EXCEPT !.session = s, !.owned = TRUE, !.dialLeft = DialTimeout]
  <2>1. s \in Fresh /\ s \in Sess /\ addr[p] # None
    BY <1>3 DEF Answers, Fresh, Gone, Authentic
  <2>2. Connect(p, w, s) = [w EXCEPT !.e = f, !.dialed = s]
    BY <1>3 DEF Connect
  <2>3. /\ f \in Entry /\ f.session = s /\ f.owned /\ ~f.ready
        /\ f.endpoint = w.e.endpoint
    BY <1>1, <2>1, PoolAssumption DEF Entry
  <2> HIDE DEF f
  <2>4. /\ Connect(p, w, s) \in Works /\ Connect(p, w, s).e = f
        /\ Connect(p, w, s).closed = w.closed /\ Connect(p, w, s).dialed = s
    BY <1>1, <2>1, <2>2, <2>3 DEF Works
  <2> QED
    BY <1>1, <2>1, <2>3, <2>4 DEF Sound
<1>4. CASE s # None /\ ~Gone(s)
  <2> DEFINE f == [w.e EXCEPT !.session = s, !.ready = TRUE]
  <2>1. s \in Sess /\ Authentic(p, s)
    BY <1>4 DEF Answers, Fresh
  <2>2. Connect(p, w, s) = [w EXCEPT !.e = f]
    BY <1>4 DEF Connect
  <2>3. f \in Entry /\ f.session = s /\ ~f.owned /\ f.ready
    BY <1>1, <2>1 DEF Entry
  <2> HIDE DEF f
  <2>4. /\ Connect(p, w, s) \in Works /\ Connect(p, w, s).e = f
        /\ Connect(p, w, s).closed = w.closed /\ Connect(p, w, s).dialed = None
    BY <1>1, <2>2, <2>3 DEF Works
  <2> QED
    BY <1>1, <1>4, <2>1, <2>3, <2>4 DEF Sound
<1> QED
  BY <1>2, <1>3, <1>4

-----------------------------------------------------------------------------
(* A call of the pool: sound work on some entries, at most age on the rest. *)

\* What makes the ownership of sessions inductive besides itself: a session
\* still connecting has shown no identity a route could rely on.
Uncertified == \A s \in Sess : sess[s].state = "connecting" => sess[s].cert = None

Owned == NoSessionLeaked /\ OwnedAsDialed /\ ReadyIsAuthentic /\ Uncertified

Alike(e, f) == /\ e.endpoint = f.endpoint /\ e.session = f.session
               /\ (e.owned <=> f.owned) /\ (e.ready <=> f.ready)

\* The steps of the two action properties about sessions.
ClosesOwn == \A s \in Sess : ~Gone(s) /\ sess'[s].state = "gone" => sess[s].want # None
DialsAlive == \A s \in Sess : Gone(s) /\ sess'[s].state = "connecting" =>
                 member[sess'[s].want] = "alive" /\ sess'[s].at = addr[sess'[s].want]

\* What is sound for an entry is sound for it at another age.
LEMMA SoundAtAnyAge ==
    ASSUME NEW p, NEW e, NEW f, NEW w, Alike(e, f), Sound(p, e, w)
    PROVE  Sound(p, f, w)
  BY DEF Alike, Sound, Reached

Call(D, work) ==
    /\ DOMAIN work = D
    /\ \A p \in D : Sound(p, entry[p], work[p])
    /\ \A p, q \in D : p # q => work[p].dialed # work[q].dialed \/ work[p].dialed = None
    /\ \A p \in D : entry'[p] = work[p].e
    /\ \A p \in Peer \ D : Alike(entry'[p], entry[p])
    /\ sess' = Sessions(work)

\* What a call makes of one session: closed, dialed or left.
LEMMA CallSessions ==
    ASSUME NEW D, NEW work, Call(D, work), NEW s \in Sess
    PROVE  LET Closed == \E p \in D : s \in work[p].closed
               Dialed == \E p \in D : work[p].dialed = s
           IN  /\ Closed => sess'[s] = NoSession
               /\ ~Closed /\ Dialed =>
                     \E p \in D : /\ work[p].dialed = s
                                  /\ sess'[s] = [state |-> "connecting", want |-> p,
                                                 at |-> entry'[p].endpoint, cert |-> None]
               /\ ~Closed /\ ~Dialed => sess'[s] = sess[s]
<1> DEFINE Closed == \E p \in D : s \in work[p].closed
           Dialed == \E p \in D : work[p].dialed = s
           c == CHOOSE q \in D : work[q].dialed = s
<1>1. DOMAIN work = D /\ sess' = Sessions(work) /\ \A p \in D : entry'[p] = work[p].e
  BY DEF Call
<1>2. sess'[s] = IF Closed THEN NoSession
                 ELSE IF Dialed
                      THEN [state |-> "connecting", want |-> c,
                            at |-> work[c].e.endpoint, cert |-> None]
                      ELSE sess[s]
  BY <1>1 DEF Sessions
<1>3. Dialed => c \in D /\ work[c].dialed = s
  OBVIOUS
<1> QED
  BY <1>1, <1>2, <1>3

LEMMA CallKeeps ==
    ASSUME TypeOK, Owned, NEW D \in SUBSET Peer, NEW work, Call(D, work),
           demand' \in SUBSET Peer
    PROVE  Owned' /\ sess' \in [Sess -> Session] /\ ClosesOwn /\ DialsAlive
<1>1. \A p \in Peer : /\ entry[p] \in Entry
                      /\ entry[p].owned => entry[p].session \in Sess
                      /\ entry[p].owned =>
                            \/ Gone(entry[p].session)
                            \/ /\ sess[entry[p].session].want = p
                               /\ sess[entry[p].session].at = entry[p].endpoint
  BY DEF TypeOK, Owned, OwnedAsDialed, Blank, Entry
<1>2. \A s \in Fresh : s \in Sess /\ Gone(s) /\ \A p \in Peer : entry[p].session # s
  BY PoolAssumption DEF Fresh, TypeOK, Blank
<1>3. \A p \in D : Sound(p, entry[p], work[p]) /\ entry'[p] = work[p].e
  BY DEF Call
<1>4. \A p \in D : \A s \in work[p].closed :
         /\ s \in Sess /\ entry[p].owned /\ entry[p].session = s
         /\ ~(entry'[p].owned /\ entry'[p].session = s)
  <2> TAKE p \in D
  <2>1. CASE Reached(p, entry[p], work[p])
    BY <1>1, <1>3, <2>1, PoolAssumption DEF Reached
  <2>2. CASE ~Reached(p, entry[p], work[p])
    <3>1. /\ work[p].closed = IF entry[p].owned THEN {entry[p].session} ELSE {}
          /\ entry'[p].owned => entry'[p].session \in Fresh
      BY <1>3, <2>2 DEF Sound
    <3>2. entry'[p].owned => entry'[p].session # entry[p].session
      BY <1>2, <3>1
    <3> QED
      BY <1>1, <3>1, <3>2
  <2> QED
    BY <2>1, <2>2
<1>5. \A p \in D : work[p].dialed # None =>
         /\ work[p].dialed \in Fresh /\ entry'[p].session = work[p].dialed
         /\ entry'[p].owned /\ ~entry'[p].ready /\ entry'[p].endpoint = addr[p]
         /\ addr[p] \in Addr /\ member[p] = "alive"
  BY <1>3 DEF Sound, Reached
<1>6. \A p \in Peer : entry'[p].owned =>
         \/ /\ entry[p].owned /\ entry'[p].session = entry[p].session
            /\ entry'[p].endpoint = entry[p].endpoint
         \/ p \in D /\ work[p].dialed = entry'[p].session /\ work[p].dialed \in Fresh
  <2>1. ASSUME NEW p \in Peer \ D PROVE Alike(entry'[p], entry[p])
    BY DEF Call
  <2> QED
    BY <1>3, <2>1 DEF Sound, Reached, Alike
<1>7. \A p \in Peer : entry[p].owned =>
         \/ entry'[p].owned /\ entry'[p].session = entry[p].session
         \/ p \in D /\ entry[p].session \in work[p].closed
  <2>1. ASSUME NEW p \in Peer \ D PROVE Alike(entry'[p], entry[p])
    BY DEF Call
  <2> QED
    BY <1>3, <2>1 DEF Sound, Reached, Alike
<1>8. \A p \in Peer : entry'[p].ready =>
         /\ entry'[p].session \in Sess
         /\ \/ entry[p].ready /\ entry'[p].session = entry[p].session
            \/ Authentic(p, entry'[p].session)
  <2> TAKE p \in Peer
  <2>1. entry[p].ready => entry[p].session \in Sess
    BY DEF TypeOK, Owned, ReadyIsAuthentic, Blank, Entry
  <2>2. CASE p \notin D
    BY <2>1, <2>2 DEF Call, Alike
  <2>3. CASE p \in D
    <3>1. entry'[p] = work[p].e /\ Sound(p, entry[p], work[p])
      BY <1>3, <2>3
    <3>2. work[p].e.session \in Sess \cup {None}
      BY <3>1 DEF Sound, Reached, Works, Entry
    <3> QED
      BY <2>1, <3>1, <3>2 DEF Sound, Reached
  <2> QED
    BY <2>2, <2>3
<1> DEFINE Closed(s) == \E p \in D : s \in work[p].closed
           Dialed(s) == \E p \in D : work[p].dialed = s
<1>9. \A s \in Sess :
         /\ Closed(s) => sess'[s] = NoSession
         /\ ~Closed(s) /\ Dialed(s) =>
               \E p \in D : /\ work[p].dialed = s
                            /\ sess'[s] = [state |-> "connecting", want |-> p,
                                           at |-> entry'[p].endpoint, cert |-> None]
         /\ ~Closed(s) /\ ~Dialed(s) => sess'[s] = sess[s]
  BY CallSessions
<1>10. \A s \in Sess, p, q \in D : work[p].dialed = s /\ work[q].dialed = s => p = q
  BY PoolAssumption DEF Call
<1> HIDE DEF Closed, Dialed
<1>11. sess \in [Sess -> Session] /\ DOMAIN sess' = Sess
  BY DEF TypeOK, Call, Sessions
<1>12. sess' \in [Sess -> Session]
  <2>1. NoSession \in Session
    BY DEF NoSession, Session
  <2>2. ASSUME NEW s \in Sess PROVE sess'[s] \in Session
    <3>1. CASE ~Closed(s) /\ Dialed(s)
      <4> PICK p \in D : /\ work[p].dialed = s
                         /\ sess'[s] = [state |-> "connecting", want |-> p,
                                        at |-> entry'[p].endpoint, cert |-> None]
        BY <1>9, <3>1
      <4> QED
        BY <1>5, PoolAssumption DEF Session
    <3> QED
      BY <1>9, <1>11, <2>1, <3>1
  <2>3. sess' = [s \in Sess |-> sess'[s]]
    BY DEF Call, Sessions
  <2> QED
    BY <2>2, <2>3
<1>13. NoSessionLeaked'
  <2> SUFFICES ASSUME NEW s \in Sess, sess'[s].want # None
               PROVE  entry'[sess'[s].want].owned /\ entry'[sess'[s].want].session = s
    BY DEF NoSessionLeaked
  <2>1. ~Closed(s)
    BY <1>9 DEF NoSession
  <2>2. CASE Dialed(s)
    <3> PICK p \in D : /\ work[p].dialed = s
                       /\ sess'[s] = [state |-> "connecting", want |-> p,
                                      at |-> entry'[p].endpoint, cert |-> None]
      BY <1>9, <2>1, <2>2
    <3>1. s # None
      BY PoolAssumption
    <3> QED
      BY <1>5, <3>1
  <2>3. CASE ~Dialed(s)
    <3>1. sess'[s] = sess[s] /\ sess[s].want \in Peer
      BY <1>9, <1>11, <2>1, <2>3 DEF Session
    <3>2. entry[sess[s].want].owned /\ entry[sess[s].want].session = s
      BY <3>1 DEF Owned, NoSessionLeaked
    <3> QED
      BY <1>7, <2>1, <3>1, <3>2 DEF Closed
  <2> QED
    BY <2>2, <2>3
<1>14. OwnedAsDialed'
  <2> SUFFICES ASSUME NEW p \in Peer, entry'[p].owned
               PROVE  /\ entry'[p].session # None /\ entry'[p].endpoint # None
                      /\ \/ sess'[entry'[p].session].state = "gone"
                         \/ /\ sess'[entry'[p].session].want = p
                            /\ sess'[entry'[p].session].at = entry'[p].endpoint
    BY DEF OwnedAsDialed, Gone
  <2> DEFINE s == entry'[p].session
  <2>1. /\ s \in Sess /\ s # None /\ entry'[p].endpoint # None
        /\ \/ /\ entry[p].owned /\ s = entry[p].session
              /\ entry'[p].endpoint = entry[p].endpoint
           \/ p \in D /\ work[p].dialed = s /\ s \in Fresh
    <3>1. entry[p].owned => entry[p].endpoint # None
      BY DEF TypeOK, Owned, OwnedAsDialed, Blank
    <3> QED
      BY <1>1, <1>2, <1>5, <1>6, <3>1, PoolAssumption
  <2> HIDE DEF s
  <2>2. CASE Closed(s)
    <3>1. sess'[s] = NoSession /\ NoSession.state = "gone"
      BY <1>9, <2>1, <2>2 DEF NoSession
    <3>2. sess'[s].state = "gone"
      BY <3>1
    <3> QED
      BY <2>1, <3>2 DEF s
  <2>3. CASE ~Closed(s) /\ Dialed(s)
    <3> PICK q \in D : /\ work[q].dialed = s
                       /\ sess'[s] = [state |-> "connecting", want |-> q,
                                      at |-> entry'[q].endpoint, cert |-> None]
      BY <1>9, <2>1, <2>3
    <3>1. s \in Fresh
      BY <1>5, <2>1
    <3>2. q = p
      BY <1>2, <1>10, <2>1, <3>1
    <3> QED
      BY <2>1, <3>2 DEF s
  <2>4. CASE ~Closed(s) /\ ~Dialed(s)
    <3>1. sess'[s] = sess[s] /\ entry[p].owned
      BY <1>9, <2>1, <2>4 DEF Dialed
    <3> QED
      BY <1>1, <2>1, <2>4, <3>1 DEF Gone, Dialed, s
  <2> QED
    BY <2>1, <2>2, <2>3, <2>4 DEF s
<1>15. ReadyIsAuthentic'
  <2> SUFFICES ASSUME NEW p \in Peer, entry'[p].ready
               PROVE  /\ entry'[p].session # None
                      /\ \/ sess'[entry'[p].session].state = "gone"
                         \/ sess'[entry'[p].session].cert = p
    BY DEF ReadyIsAuthentic, Gone
  <2> DEFINE s == entry'[p].session
  <2>1. /\ s \in Sess /\ s # None
        /\ (entry[p].ready /\ s = entry[p].session) \/ Authentic(p, s)
    BY <1>8, PoolAssumption
  <2>2. /\ Gone(s) \/ sess[s].cert = p
        /\ s \notin Fresh
    BY <1>2, <2>1 DEF TypeOK, Owned, ReadyIsAuthentic, Blank, Authentic, Gone
  <2>3. ~Dialed(s)
    BY <1>5, <2>1, <2>2 DEF Dialed
  <2> HIDE DEF s
  <2>4. sess'[s].state = "gone" \/ sess'[s] = sess[s]
    BY <1>9, <2>1, <2>3 DEF NoSession
  <2> QED
    BY <2>1, <2>2, <2>4 DEF Gone, s
<1>16. ClosesOwn
  <2> SUFFICES ASSUME NEW s \in Sess, ~Gone(s), sess'[s].state = "gone"
               PROVE  sess[s].want # None
    BY DEF ClosesOwn
  <2>1. Closed(s)
    <3> SUFFICES ASSUME ~Closed(s) PROVE FALSE
      OBVIOUS
    <3>1. Dialed(s)
      BY <1>9 DEF Gone
    <3> PICK p \in D : /\ work[p].dialed = s
                       /\ sess'[s] = [state |-> "connecting", want |-> p,
                                      at |-> entry'[p].endpoint, cert |-> None]
      BY <1>9, <3>1
    <3> QED
      OBVIOUS
  <2>2. PICK p \in D : entry[p].owned /\ entry[p].session = s
    BY <1>4, <2>1 DEF Closed
  <2> QED
    BY <1>1, <2>2, PoolAssumption
<1>17. DialsAlive
  <2> SUFFICES ASSUME NEW s \in Sess, Gone(s), sess'[s].state = "connecting"
               PROVE  member[sess'[s].want] = "alive" /\ sess'[s].at = addr[sess'[s].want]
    BY DEF DialsAlive
  <2>1. ~Closed(s) /\ Dialed(s)
    BY <1>9 DEF Gone, NoSession
  <2> PICK p \in D : /\ work[p].dialed = s
                     /\ sess'[s] = [state |-> "connecting", want |-> p,
                                    at |-> entry'[p].endpoint, cert |-> None]
    BY <1>9, <2>1
  <2>2. s # None
    BY PoolAssumption
  <2> QED
    BY <1>5, <2>2
<1>18. Uncertified'
  <2> SUFFICES ASSUME NEW s \in Sess, sess'[s].state = "connecting"
               PROVE  sess'[s].cert = None
    BY DEF Uncertified
  <2>1. CASE ~Closed(s) /\ Dialed(s)
    <3> PICK p \in D : /\ work[p].dialed = s
                      /\ sess'[s] = [state |-> "connecting", want |-> p,
                                     at |-> entry'[p].endpoint, cert |-> None]
      BY <1>9, <2>1
    <3> QED
      OBVIOUS
  <2>2. CASE Closed(s)
    BY <1>9, <2>2 DEF NoSession
  <2>3. CASE ~Closed(s) /\ ~Dialed(s)
    BY <1>9, <2>3 DEF Owned, Uncertified
  <2> QED
    BY <2>1, <2>2, <2>3
<1> QED
  BY <1>12, <1>13, <1>14, <1>15, <1>16, <1>17, <1>18 DEF Owned

-----------------------------------------------------------------------------
(* The calls keep the invariant.                                           *)

PoolInv == TypeOK /\ Owned

\* Entries that got older are the same but for their timers.
LEMMA AgedFacts ==
    ASSUME PoolInv, NEW d \in Nat, NEW p \in Peer
    PROVE  /\ Sane(Aged(d)[p]) /\ Sane(entry[p])
           /\ Alike(Aged(d)[p], entry[p]) /\ (Aged(d)[p].draining <=> entry[p].draining)
           /\ p \notin demand => Aged(d)[p] = Blank
<1>1. entry[p] \in Entry /\ (p \notin demand => entry[p] = Blank)
  BY DEF PoolInv, TypeOK
<1>2. Sane(entry[p])
  <2>1. /\ entry[p].owned => entry[p].session # None /\ entry[p].endpoint # None
        /\ entry[p].ready => entry[p].session # None
    BY <1>1 DEF PoolInv, Owned, OwnedAsDialed, ReadyIsAuthentic, Blank
  <2> QED
    BY <1>1, <2>1 DEF Sane
<1>3. \A t \in Nat : Left(t, d) \in Nat
  BY DEF Left
<1>4. /\ Elapsed(entry[p], d) \in Entry
      /\ Alike(Elapsed(entry[p], d), entry[p])
      /\ Elapsed(entry[p], d).draining <=> entry[p].draining
  BY <1>1, <1>3 DEF Elapsed, Entry, Alike
<1>5. Aged(d)[p] = IF p \in demand THEN Elapsed(entry[p], d) ELSE Blank
  BY DEF Aged
<1>6. /\ Aged(d)[p] \in Entry /\ Alike(Aged(d)[p], entry[p])
      /\ Aged(d)[p].draining <=> entry[p].draining
  BY <1>1, <1>4, <1>5 DEF Alike
<1>7. Sane(Aged(d)[p])
  BY <1>2, <1>6 DEF Sane, Alike
<1> QED
  BY <1>2, <1>5, <1>6, <1>7

\* What refreshing entry e of p may come to, whatever the answers.
Outcome(p, e, v) ==
    LET w == Refresh(p, e)
    IN  IF Seeks(w) THEN \E s \in Answers(p) : v = Connect(p, w, s) ELSE v = w

\* Whatever the answers, refreshing an entry is sound.
LEMMA WorkSound ==
    ASSUME PoolInv, NEW p \in Peer, ~Unlisted(p), NEW e, Sane(e), Alike(e, entry[p]),
           NEW v, Outcome(p, e, v)
    PROVE  Sound(p, entry[p], v)
<1>1. /\ addr \in [Peer -> Addr \cup {None}] /\ sess \in [Sess -> Session]
      /\ member[p] \in {"alive", "suspect"}
  BY DEF PoolInv, TypeOK, Unlisted
<1>2. /\ Reached(p, e, Refresh(p, e))
      /\ Seeks(Refresh(p, e)) =>
            /\ member[p] = "alive"
            /\ addr[p] # None => Refresh(p, e).e.endpoint = addr[p]
  BY <1>1, RefreshFacts
<1>3. CASE ~Seeks(Refresh(p, e))
  <2>1. v = Refresh(p, e)
    BY <1>3 DEF Outcome
  <2>2. Sound(p, e, v)
    BY <1>2, <2>1 DEF Sound
  <2> QED
    BY <2>2, SoundAtAnyAge
<1>4. CASE Seeks(Refresh(p, e))
  <2>1. PICK s \in Answers(p) : v = Connect(p, Refresh(p, e), s)
    BY <1>4 DEF Outcome
  <2>2. Sound(p, e, v)
    BY <1>1, <1>2, <1>4, <2>1, ConnectFacts
  <2> QED
    BY <2>2, SoundAtAnyAge
<1> QED
  BY <1>3, <1>4

LEMMA RemovedSound ==
    ASSUME PoolInv, NEW p \in Peer, NEW e, Sane(e), Alike(e, entry[p])
    PROVE  Sound(p, entry[p], Removed(e)) /\ Removed(e).e = Blank /\ Removed(e).dialed = None
<1>1. Reached(p, e, Removed(e)) /\ Removed(e).e = Blank
  BY RemovedFacts
<1> QED
  BY <1>1, SoundAtAnyAge DEF Sound, Reached

LEMMA SoundType ==
    ASSUME NEW p, NEW e, NEW w, Sound(p, e, w)
    PROVE  w.e \in Entry
  BY DEF Sound, Reached, Works

LEMMA DemandSize ==
    ASSUME TypeOK
    PROVE  /\ IsFiniteSet(demand) /\ Cardinality(demand) \in Nat
           /\ \A D \in SUBSET demand : Cardinality(D) <= MaxPeers
           /\ \A p \in Peer : Admits(p) => Cardinality(demand \cup {p}) <= MaxPeers
<1>1. IsFiniteSet(demand) /\ Cardinality(demand) \in Nat /\ Cardinality(demand) <= MaxPeers
  BY PoolAssumption, FS_Subset, FS_CardinalityType DEF TypeOK
<1>2. ASSUME NEW D \in SUBSET demand PROVE Cardinality(D) <= MaxPeers
  <2>1. Cardinality(D) <= Cardinality(demand) /\ Cardinality(D) \in Nat
    BY <1>1, FS_Subset, FS_CardinalityType
  <2> QED
    BY <1>1, <2>1, PoolAssumption
<1>3. ASSUME NEW p \in Peer, Admits(p) PROVE Cardinality(demand \cup {p}) <= MaxPeers
  <2>1. CASE p \in demand
    <3>1. demand \cup {p} = demand
      BY <2>1
    <3> QED
      BY <1>1, <3>1
  <2>2. CASE p \notin demand
    <3>1. Cardinality(demand) < MaxPeers
      BY <1>3, <2>2 DEF Admits
    <3>2. Cardinality(demand \cup {p}) = Cardinality(demand) + 1
      BY <1>1, <2>2, FS_AddElement
    <3> QED
      BY <1>1, <3>1, <3>2, PoolAssumption
  <2> QED
    BY <2>1, <2>2
<1> QED
  BY <1>1, <1>2, <1>3

\* What every step has to be shown to do.
StepOK == PoolInv' /\ (entry' # entry => ClosesOwn) /\ DialsAlive

LEMMA CallOK ==
    ASSUME PoolInv, NEW D \in SUBSET Peer, NEW work, Call(D, work),
           demand' \in SUBSET Peer, Cardinality(demand') <= MaxPeers,
           entry' \in [Peer -> Entry], \A p \in Peer \ demand' : entry'[p] = Blank,
           UNCHANGED env, settled' \in BOOLEAN
    PROVE  StepOK
<1>1. Owned' /\ sess' \in [Sess -> Session] /\ ClosesOwn /\ DialsAlive
  BY CallKeeps DEF PoolInv
<1>2. TypeOK'
  BY <1>1 DEF PoolInv, TypeOK, env
<1> QED
  BY <1>1, <1>2 DEF StepOK, PoolInv

\* ensure of a member is a call about its entry, renewed and refreshed.
LEMMA EnsureCall ==
    ASSUME PoolInv, NEW p \in Peer, NEW d \in Nat, Ensure(p, d)
    PROVE  \E e, v :
             /\ Sane(e) /\ Alike(e, entry[p]) /\ (e.draining <=> entry[p].draining)
             /\ Outcome(p, e, v) /\ ~Unlisted(p)
             /\ entry' = [Aged(d) EXCEPT ![p] = v.e]
             /\ Call({p}, [q \in {p} |-> v])
<1> DEFINE e == [Aged(d)[p] EXCEPT !.idleLeft = IdleTimeout]
           w == Refresh(p, e)
<1>1. Sane(e) /\ Alike(e, entry[p]) /\ (e.draining <=> entry[p].draining)
  <2>1. /\ Sane(Aged(d)[p]) /\ Alike(Aged(d)[p], entry[p])
        /\ Aged(d)[p].draining <=> entry[p].draining
    BY AgedFacts
  <2>2. e \in Entry /\ Alike(e, Aged(d)[p]) /\ e.draining = Aged(d)[p].draining
    BY <2>1, PoolAssumption DEF Sane, Entry, Alike
  <2> QED
    BY <2>1, <2>2 DEF Sane, Alike
<1> HIDE DEF e
<1>2. ~Unlisted(p)
  BY DEF Ensure
<1>3. PICK v : /\ entry' = [Aged(d) EXCEPT ![p] = v.e]
               /\ sess' = Sessions([q \in {p} |-> v])
               /\ Outcome(p, e, v)
  <2>1. PICK s \in IF Seeks(w) THEN Answers(p) ELSE {None} :
           LET v == IF Seeks(w) THEN Connect(p, w, s) ELSE w
           IN  /\ entry' = [Aged(d) EXCEPT ![p] = v.e]
               /\ sess' = Sessions([q \in {p} |-> v])
    BY DEF Ensure, e
  <2> HIDE DEF w
  <2>2. CASE Seeks(w)
    <3>1. Outcome(p, e, Connect(p, w, s))
      BY <2>1, <2>2 DEF Outcome, w
    <3> QED
      BY <2>1, <2>2, <3>1
  <2>3. CASE ~Seeks(w)
    <3>1. Outcome(p, e, w)
      BY <2>3 DEF Outcome, w
    <3> QED
      BY <2>1, <2>3, <3>1
  <2> QED
    BY <2>2, <2>3
<1> DEFINE work == [q \in {p} |-> v]
<1>4. entry'[p] = v.e /\ \A q \in Peer \ {p} : Alike(entry'[q], entry[q])
  BY <1>3, AgedFacts DEF Aged
<1>5. Call({p}, work)
  BY <1>1, <1>2, <1>3, <1>4, WorkSound DEF Call
<1> HIDE DEF work
<1> QED
  BY <1>1, <1>2, <1>3, <1>5 DEF work

LEMMA EnsureOK ==
    ASSUME PoolInv, NEW p \in Peer, NEW d \in Nat, Ensure(p, d)
    PROVE  StepOK
<1>1. PICK e, v : /\ Sane(e) /\ Alike(e, entry[p]) /\ Outcome(p, e, v) /\ ~Unlisted(p)
                  /\ entry' = [Aged(d) EXCEPT ![p] = v.e]
                  /\ Call({p}, [q \in {p} |-> v])
  BY EnsureCall
<1> DEFINE work == [q \in {p} |-> v]
<1>2. /\ entry' \in [Peer -> Entry]
      /\ \A q \in Peer \ {p} : q \notin demand => entry'[q] = Blank
  <2>1. v.e \in Entry
    BY <1>1, WorkSound, SoundType
  <2>2. Aged(d) = [q \in Peer |-> Aged(d)[q]] /\ \A q \in Peer : Aged(d)[q] \in Entry
    BY AgedFacts DEF Aged, Sane
  <2>3. Aged(d) \in [Peer -> Entry]
    BY <2>2
  <2>4. \A q \in Peer : q \notin demand => Aged(d)[q] = Blank
    BY AgedFacts
  <2> QED
    BY <1>1, <2>1, <2>3, <2>4
<1>3. demand' = demand \cup {p} /\ settled' = FALSE /\ UNCHANGED env /\ Admits(p)
  BY DEF Ensure
<1>4. demand' \in SUBSET Peer /\ Cardinality(demand') <= MaxPeers
  BY <1>3, DemandSize DEF PoolInv, TypeOK
<1>5. Call({p}, work)
  BY <1>1
<1> HIDE DEF work
<1> QED
  BY <1>2, <1>3, <1>4, <1>5, CallOK

\* A removal outside a service pass: of one entry, the others possibly aged.
LEMMA RemovalOK ==
    ASSUME PoolInv, NEW p \in Peer,
           entry' \in [Peer -> Entry], entry'[p] = Blank,
           \A q \in Peer \ {p} : /\ Alike(entry'[q], entry[q])
                                 /\ q \notin demand => entry'[q] = Blank,
           sess' = Sessions([q \in {p} |-> Removed(entry[p])]),
           demand' = demand \ {p}, settled' = FALSE, UNCHANGED env
    PROVE  StepOK
<1> DEFINE work == [q \in {p} |-> Removed(entry[p])]
<1>1. Sound(p, entry[p], Removed(entry[p])) /\ Removed(entry[p]).e = Blank
  <2>1. Sane(entry[p])
    BY AgedFacts, 0 \in Nat
  <2> QED
    BY <2>1, RemovedSound DEF Alike
<1>2. Call({p}, work)
  BY <1>1 DEF Call
<1>3. demand \in SUBSET Peer /\ demand' \in SUBSET demand
  BY DEF PoolInv, TypeOK
<1>4. demand' \in SUBSET Peer /\ Cardinality(demand') <= MaxPeers
  BY <1>3, DemandSize DEF PoolInv
<1>5. \A q \in Peer \ demand' : entry'[q] = Blank
  OBVIOUS
<1>6. settled' \in BOOLEAN /\ {p} \in SUBSET Peer
  OBVIOUS
<1> HIDE DEF work
<1> QED
  BY <1>2, <1>4, <1>5, <1>6, CallOK

LEMMA EnsureUnlistedOK ==
    ASSUME PoolInv, NEW p \in Peer, NEW d \in Nat, EnsureUnlisted(p, d)
    PROVE  StepOK
<1>1. /\ \A q \in Peer : /\ Aged(d)[q] \in Entry /\ Alike(Aged(d)[q], entry[q])
                         /\ q \notin demand => Aged(d)[q] = Blank
      /\ Aged(d) = [q \in Peer |-> Aged(d)[q]]
  BY AgedFacts DEF Sane, Aged
<1>2. Blank \in Entry
  BY PoolAssumption DEF Blank, Entry
<1>3. entry' = [Aged(d) EXCEPT ![p] = Blank]
  BY DEF EnsureUnlisted
<1>4. /\ entry' \in [Peer -> Entry] /\ entry'[p] = Blank
      /\ \A q \in Peer \ {p} : /\ Alike(entry'[q], entry[q])
                               /\ q \notin demand => entry'[q] = Blank
  BY <1>1, <1>2, <1>3
<1> QED
  BY <1>4, RemovalOK DEF EnsureUnlisted

LEMMA ForgetOK ==
    ASSUME PoolInv, NEW p \in Peer, Forget(p)
    PROVE  StepOK
<1>1. Blank \in Entry
  BY PoolAssumption DEF Blank, Entry
<1>2. /\ entry' \in [Peer -> Entry] /\ entry'[p] = Blank
      /\ \A q \in Peer \ {p} : /\ Alike(entry'[q], entry[q])
                               /\ q \notin demand => entry'[q] = Blank
  BY <1>1 DEF Forget, PoolInv, TypeOK, Alike
<1> QED
  BY <1>2, RemovalOK DEF Forget

LEMMA EnsureRefusedOK ==
    ASSUME PoolInv, NEW p \in Peer, NEW d \in Nat, EnsureRefused(p, d)
    PROVE  StepOK
<1> DEFINE work == [q \in {} |-> Removed(entry[q])]
<1>1. /\ \A q \in Peer : /\ Aged(d)[q] \in Entry /\ Alike(Aged(d)[q], entry[q])
                         /\ q \notin demand => Aged(d)[q] = Blank
      /\ Aged(d) = [q \in Peer |-> Aged(d)[q]]
  BY AgedFacts DEF Sane, Aged
<1>2. /\ entry' \in [Peer -> Entry]
      /\ \A q \in Peer : /\ Alike(entry'[q], entry[q])
                         /\ q \notin demand => entry'[q] = Blank
  BY <1>1 DEF EnsureRefused
<1>3. sess = Sessions(work)
  <2>1. sess = [s \in Sess |-> sess[s]]
    BY DEF PoolInv, TypeOK
  <2>2. DOMAIN work = {}
    OBVIOUS
  <2> HIDE DEF work
  <2> QED
    BY <2>1, <2>2 DEF Sessions
<1>4. Call({}, work)
  BY <1>2, <1>3 DEF Call, EnsureRefused
<1>5. /\ demand' = demand /\ demand \in SUBSET Peer /\ Cardinality(demand) <= MaxPeers
      /\ settled' \in BOOLEAN /\ UNCHANGED env
  BY DEF EnsureRefused, PoolInv, TypeOK
<1> HIDE DEF work
<1> QED
  BY <1>2, <1>4, <1>5, CallOK

LEMMA DeinitOK ==
    ASSUME PoolInv, Deinit
    PROVE  StepOK
<1> DEFINE work == [p \in demand |-> Removed(entry[p])]
<1>1. demand \in SUBSET Peer /\ entry \in [Peer -> Entry]
      /\ \A p \in Peer \ demand : entry[p] = Blank
  BY DEF PoolInv, TypeOK
<1>2. Blank \in Entry
  BY PoolAssumption DEF Blank, Entry
<1>3. ASSUME NEW p \in demand
      PROVE  /\ Sound(p, entry[p], Removed(entry[p])) /\ Removed(entry[p]).e = Blank
             /\ Removed(entry[p]).dialed = None
  <2>1. p \in Peer /\ Sane(entry[p])
    BY <1>1, AgedFacts, 0 \in Nat
  <2> QED
    BY <2>1, RemovedSound DEF Alike
<1>4. entry' \in [Peer -> Entry] /\ \A p \in Peer : entry'[p] = Blank
  BY <1>2 DEF Deinit
<1>5. Call(demand, work)
  BY <1>1, <1>3, <1>4 DEF Call, Deinit, Alike
<1>6. /\ demand' \in SUBSET Peer /\ Cardinality(demand') <= MaxPeers
      /\ settled' \in BOOLEAN /\ UNCHANGED env
  <2>1. demand' = {} /\ settled' = FALSE /\ UNCHANGED env
    BY DEF Deinit
  <2>2. Cardinality({}) <= MaxPeers
    BY DemandSize DEF PoolInv
  <2> QED
    BY <2>1, <2>2
<1> HIDE DEF work
<1> QED
  BY <1>1, <1>4, <1>5, <1>6, CallOK

\* A service pass is a call about every entry: those of peers that go or whose
\* lease ran out are removed, the others refreshed.
LEMMA ServiceCall ==
    ASSUME PoolInv, NEW d \in Nat, Service(d)
    PROVE  /\ demand' = {p \in demand : ~Unlisted(p) /\ ~Lapsed(Aged(d)[p])}
           /\ \E work :
                /\ Call(demand, work)
                /\ entry' = [p \in Peer |-> IF p \in demand THEN work[p].e ELSE Blank]
                /\ \A p \in demand \ demand' : work[p] = Removed(Aged(d)[p])
                /\ \A p \in demand' : Outcome(p, Aged(d)[p], work[p])
<1> DEFINE leaving == {p \in demand : Unlisted(p) \/ Lapsed(Aged(d)[p])}
           looked == [p \in demand |-> IF p \in leaving THEN Removed(Aged(d)[p])
                                       ELSE Refresh(p, Aged(d)[p])]
           seeking == {p \in demand \ leaving : Seeks(looked[p])}
           Work2(got) == [p \in demand |-> IF p \in seeking
                                           THEN Connect(p, looked[p], got[p])
                                           ELSE looked[p]]
<1>1. demand \in SUBSET Peer
  BY DEF PoolInv, TypeOK
<1>2. PICK got \in [seeking -> Sess \cup {None}] :
         /\ \A p \in seeking : got[p] \in Answers(p)
         /\ \A p, q \in seeking : p # q => got[p] # got[q] \/ got[p] = None
         /\ entry' = [p \in Peer |-> IF p \in demand THEN Work2(got)[p].e ELSE Blank]
         /\ sess' = Sessions(Work2(got))
         /\ demand' = demand \ leaving
  BY DEF Service
<1> DEFINE work == Work2(got)
<1>3. ASSUME NEW p \in demand
      PROVE  p \in Peer /\ Sane(Aged(d)[p]) /\ Alike(Aged(d)[p], entry[p])
  BY <1>1, AgedFacts
<1>4. ASSUME NEW p \in leaving
      PROVE  /\ work[p] = Removed(Aged(d)[p])
             /\ Sound(p, entry[p], work[p]) /\ work[p].dialed = None
  <2>1. work[p] = Removed(Aged(d)[p])
    OBVIOUS
  <2> QED
    BY <1>3, <2>1, RemovedSound
<1>5. ASSUME NEW p \in seeking
      PROVE  /\ Sound(p, entry[p], work[p]) /\ Outcome(p, Aged(d)[p], work[p])
             /\ work[p].dialed \in {None, got[p]}
  <2>1. /\ work[p] = Connect(p, Refresh(p, Aged(d)[p]), got[p])
        /\ Seeks(Refresh(p, Aged(d)[p])) /\ ~Unlisted(p) /\ p \in demand
        /\ got[p] \in Answers(p)
    BY <1>2
  <2> HIDE DEF work
  <2>2. Outcome(p, Aged(d)[p], work[p])
    BY <2>1 DEF Outcome
  <2>3. Sound(p, entry[p], work[p])
    BY <1>3, <2>1, <2>2, WorkSound
  <2>4. Reached(p, Aged(d)[p], Refresh(p, Aged(d)[p]))
    BY <1>3, <2>1, RefreshFacts DEF PoolInv, TypeOK, Unlisted
  <2> DEFINE w == Refresh(p, Aged(d)[p])
  <2>5. w \in Works /\ w.dialed = None
    BY <2>4 DEF Reached
  <2> HIDE DEF w
  <2>6. Connect(p, w, got[p]).dialed \in {None, got[p]}
    BY <2>5 DEF Connect, Works
  <2> QED
    BY <2>1, <2>2, <2>3, <2>6 DEF w
<1>6. ASSUME NEW p \in demand, p \notin leaving, p \notin seeking
      PROVE  /\ Sound(p, entry[p], work[p]) /\ Outcome(p, Aged(d)[p], work[p])
             /\ work[p].dialed = None
  <2>1. work[p] = Refresh(p, Aged(d)[p]) /\ ~Unlisted(p) /\ ~Seeks(Refresh(p, Aged(d)[p]))
    BY <1>6
  <2> HIDE DEF work
  <2>2. Outcome(p, Aged(d)[p], work[p])
    BY <2>1 DEF Outcome
  <2>3. Reached(p, Aged(d)[p], Refresh(p, Aged(d)[p]))
    BY <1>3, <2>1, RefreshFacts DEF PoolInv, TypeOK, Unlisted
  <2> QED
    BY <1>3, <2>1, <2>2, <2>3, WorkSound DEF Reached
<1>7. DOMAIN work = demand
  OBVIOUS
<1>8. seeking \in SUBSET demand
  OBVIOUS
<1>9. /\ entry' = [p \in Peer |-> IF p \in demand THEN work[p].e ELSE Blank]
      /\ sess' = Sessions(work) /\ demand' = demand \ leaving
  BY <1>2
<1>10. leaving \in SUBSET demand
       /\ demand \ leaving = {p \in demand : ~Unlisted(p) /\ ~Lapsed(Aged(d)[p])}
  OBVIOUS
<1> HIDE DEF work, leaving, seeking
<1>11. Call(demand, work)
  <2>1. \A p, q \in demand : p # q => work[p].dialed # work[q].dialed \/ work[p].dialed = None
    BY <1>2, <1>4, <1>5, <1>6
  <2>2. \A p \in demand : entry'[p] = work[p].e
    BY <1>1, <1>9
  <2>3. \A p \in Peer \ demand : Alike(entry'[p], entry[p])
    BY <1>9 DEF PoolInv, TypeOK, Alike
  <2>4. \A p \in demand : Sound(p, entry[p], work[p])
    BY <1>4, <1>5, <1>6
  <2> QED
    BY <1>7, <1>9, <2>1, <2>2, <2>3, <2>4 DEF Call
<1>12. \A p \in demand' : Outcome(p, Aged(d)[p], work[p])
  BY <1>5, <1>6, <1>9
<1>13. \A p \in demand \ demand' : work[p] = Removed(Aged(d)[p])
  BY <1>4, <1>9
<1> QED
  BY <1>9, <1>10, <1>11, <1>12, <1>13

LEMMA ServiceOK ==
    ASSUME PoolInv, NEW d \in Nat, Service(d)
    PROVE  StepOK
<1>1. demand' = {p \in demand : ~Unlisted(p) /\ ~Lapsed(Aged(d)[p])}
  BY ServiceCall
<1>2. PICK work :
         /\ Call(demand, work)
         /\ entry' = [p \in Peer |-> IF p \in demand THEN work[p].e ELSE Blank]
         /\ \A p \in demand \ demand' : work[p] = Removed(Aged(d)[p])
  BY ServiceCall
<1>3. demand \in SUBSET Peer /\ demand' \in SUBSET demand
  BY <1>1 DEF PoolInv, TypeOK
<1>4. entry' \in [Peer -> Entry]
  <2>1. Blank \in Entry
    BY PoolAssumption DEF Blank, Entry
  <2>2. \A p \in demand : work[p].e \in Entry
    BY <1>2, SoundType DEF Call
  <2> QED
    BY <1>2, <2>1, <2>2
<1>5. \A p \in Peer \ demand' : entry'[p] = Blank
  <2>1. \A p \in demand \ demand' : Removed(Aged(d)[p]).e = Blank
    BY <1>3, AgedFacts, RemovedFacts
  <2> QED
    BY <1>2, <2>1
<1>6. demand' \in SUBSET Peer /\ Cardinality(demand') <= MaxPeers
  BY <1>3, DemandSize DEF PoolInv
<1>7. settled' \in BOOLEAN /\ UNCHANGED env
  BY DEF Service
<1> QED
  BY <1>2, <1>3, <1>4, <1>5, <1>6, <1>7, CallOK

-----------------------------------------------------------------------------
(* The steps of the Node, and the theorems.                                *)

\* One session changes by itself: it goes, or gets on keeping what it was
\* dialed for and any identity it has shown, or it comes in under a fresh id.
LEMMA NodeKeeps ==
    ASSUME PoolInv, NEW s \in Sess, NEW x \in Session, sess' = [sess EXCEPT ![s] = x],
           UNCHANGED <<env, demand, entry>>, settled' = FALSE,
           \/ x.state = "gone" /\ x.want = None
           \/ /\ x.state \in {"ready", "closing"}
              /\ x.want = sess[s].want /\ x.at = sess[s].at
              /\ x.cert = sess[s].cert \/ sess[s].cert = None
              /\ ~Gone(s)
           \/ s \in Fresh /\ x.state = "ready" /\ x.want = None
    PROVE  StepOK
<1>1. sess \in [Sess -> Session] /\ sess' \in [Sess -> Session]
  BY DEF PoolInv, TypeOK
<1>2. sess'[s] = x /\ \A u \in Sess \ {s} : sess'[u] = sess[u]
  BY <1>1
<1>3. /\ demand' = demand /\ entry' = entry /\ addr' = addr /\ member' = member
      /\ demand \in SUBSET Peer /\ entry \in [Peer -> Entry]
  BY DEF env, PoolInv, TypeOK
<1>4. TypeOK'
  BY <1>1, <1>3 DEF PoolInv, TypeOK
<1>5. NoSessionLeaked'
  BY <1>2, <1>3 DEF PoolInv, Owned, NoSessionLeaked
<1>6. ASSUME NEW p \in demand
      PROVE  /\ entry[p].owned => entry[p].session \in Sess
             /\ entry[p].ready => entry[p].session \in Sess
             /\ s \in Fresh => entry[p].session # s
  BY <1>3 DEF PoolInv, Owned, OwnedAsDialed, ReadyIsAuthentic, Entry, Fresh
<1>7. OwnedAsDialed'
  <2> SUFFICES ASSUME NEW p \in demand, entry[p].owned
               PROVE  /\ entry[p].session # None /\ entry[p].endpoint # None
                      /\ \/ sess'[entry[p].session].state = "gone"
                         \/ /\ sess'[entry[p].session].want = p
                            /\ sess'[entry[p].session].at = entry[p].endpoint
    BY <1>3 DEF OwnedAsDialed, Gone
  <2>1. /\ entry[p].session # None /\ entry[p].endpoint # None
        /\ \/ sess[entry[p].session].state = "gone"
           \/ /\ sess[entry[p].session].want = p
              /\ sess[entry[p].session].at = entry[p].endpoint
    BY DEF PoolInv, Owned, OwnedAsDialed, Gone
  <2> QED
    BY <1>2, <1>6, <2>1 DEF Gone
<1>8. ReadyIsAuthentic'
  <2> SUFFICES ASSUME NEW p \in demand, entry[p].ready
               PROVE  /\ entry[p].session # None
                      /\ \/ sess'[entry[p].session].state = "gone"
                         \/ sess'[entry[p].session].cert = p
    BY <1>3 DEF ReadyIsAuthentic, Gone
  <2>1. /\ entry[p].session # None /\ p # None
        /\ \/ sess[entry[p].session].state = "gone"
           \/ sess[entry[p].session].cert = p
    BY <1>3, PoolAssumption DEF PoolInv, Owned, ReadyIsAuthentic, Gone
  <2> QED
    BY <1>2, <1>6, <2>1 DEF Gone
<1>9. Uncertified'
  BY <1>2 DEF PoolInv, Owned, Uncertified
<1>10. DialsAlive
  BY <1>2 DEF DialsAlive, Gone
<1> QED
  BY <1>3, <1>4, <1>5, <1>7, <1>8, <1>9, <1>10 DEF StepOK, PoolInv, Owned

LEMMA NodeOK ==
    ASSUME PoolInv, NEW s \in Sess,
           Handshake(s) \/ Drain(s) \/ Vanish(s) \/ \E p \in Peer : Incoming(p, s)
    PROVE  StepOK
<1>1. sess[s] \in Session /\ NoSession \in Session
  BY DEF PoolInv, TypeOK, NoSession, Session
<1>2. CASE Handshake(s)
  <2>1. PICK c \in {sess[s].want, Stranger} :
           sess' = [sess EXCEPT ![s] = [@ EXCEPT !.state = "ready", !.cert = c]]
    BY <1>2 DEF Handshake
  <2> DEFINE x == [sess[s] EXCEPT !.state = "ready", !.cert = c]
  <2>2. /\ x \in Session /\ x.state = "ready" /\ x.want = sess[s].want
        /\ x.at = sess[s].at
    BY <1>1 DEF Session
  <2>3. sess' = [sess EXCEPT ![s] = x]
    BY <2>1
  <2>4. sess[s].cert = None /\ ~Gone(s)
    BY <1>2 DEF Handshake, PoolInv, Owned, Uncertified, Gone
  <2>5. UNCHANGED <<env, demand, entry>> /\ settled' = FALSE
    BY <1>2 DEF Handshake
  <2> HIDE DEF x
  <2> QED
    BY <2>2, <2>3, <2>4, <2>5, NodeKeeps
<1>3. CASE Drain(s)
  <2> DEFINE x == [sess[s] EXCEPT !.state = "closing"]
  <2>1. /\ x \in Session /\ x.state = "closing" /\ x.want = sess[s].want
        /\ x.at = sess[s].at /\ x.cert = sess[s].cert
    BY <1>1 DEF Session
  <2>2. sess' = [sess EXCEPT ![s] = x] /\ ~Gone(s)
    BY <1>3 DEF Drain, Gone
  <2>3. UNCHANGED <<env, demand, entry>> /\ settled' = FALSE
    BY <1>3 DEF Drain
  <2> HIDE DEF x
  <2> QED
    BY <2>1, <2>2, <2>3, NodeKeeps
<1>4. CASE Vanish(s)
  <2>1. NoSession.state = "gone" /\ NoSession.want = None
    BY DEF NoSession
  <2> QED
    BY <1>1, <1>4, <2>1, NodeKeeps DEF Vanish
<1>5. ASSUME NEW p \in Peer, Incoming(p, s)
      PROVE  StepOK
  <2> DEFINE x == [NoSession EXCEPT !.state = "ready", !.cert = p]
  <2>1. /\ x \in Session /\ x.state = "ready" /\ x.want = None
    BY DEF NoSession, Session
  <2>2. sess' = [sess EXCEPT ![s] = x] /\ s \in Fresh
    BY <1>5 DEF Incoming
  <2> HIDE DEF x
  <2>3. UNCHANGED <<env, demand, entry>> /\ settled' = FALSE
    BY <1>5 DEF Incoming
  <2> QED
    BY <2>1, <2>2, <2>3, NodeKeeps
<1> QED
  BY <1>2, <1>3, <1>4, <1>5

\* What the mesh and the resolver answer disturbs nothing by itself.
LEMMA MeshOK ==
    ASSUME PoolInv, NEW p \in Peer, Membership(p) \/ Readdress(p)
    PROVE  StepOK
<1>1. UNCHANGED <<sess, demand, entry>> /\ settled' = FALSE
  BY DEF Membership, Readdress
<1>2. /\ member' \in [Peer -> {"absent", "alive", "suspect", "dead"}]
      /\ addr' \in [Peer -> Addr \cup {None}]
  BY DEF Membership, Readdress, PoolInv, TypeOK
<1>3. TypeOK'
  BY <1>1, <1>2 DEF PoolInv, TypeOK
<1>4. Owned'
  BY <1>1 DEF PoolInv, Owned, NoSessionLeaked, OwnedAsDialed, ReadyIsAuthentic,
              Uncertified, Gone
<1>5. DialsAlive
  BY <1>1 DEF DialsAlive, Gone
<1> QED
  BY <1>1, <1>3, <1>4, <1>5 DEF StepOK, PoolInv

LEMMA InitPoolInv == Init => PoolInv
<1> SUFFICES ASSUME Init PROVE PoolInv
  OBVIOUS
<1>1. Blank \in Entry /\ NoSession \in Session /\ Cardinality({}) <= MaxPeers
  BY PoolAssumption, FS_EmptySet DEF Blank, Entry, NoSession, Session
<1>2. TypeOK
  BY <1>1 DEF Init, TypeOK
<1>3. Owned
  BY DEF Init, Owned, NoSessionLeaked, OwnedAsDialed, ReadyIsAuthentic, Uncertified,
         NoSession
<1> QED
  BY <1>2, <1>3 DEF PoolInv

LEMMA NextOK == PoolInv /\ [Next]_vars => PoolInv' /\ [StepOK]_vars
<1> SUFFICES ASSUME PoolInv, [Next]_vars PROVE PoolInv' /\ [StepOK]_vars
  OBVIOUS
<1>1. CASE Next
  <2>1. \A d \in 0..MaxStep : d \in Nat
    BY PoolAssumption
  <2>2. ASSUME NEW p \in Peer, NEW d \in 0..MaxStep,
               Ensure(p, d) \/ EnsureUnlisted(p, d) \/ EnsureRefused(p, d)
        PROVE  StepOK
    BY <2>1, <2>2, EnsureOK, EnsureUnlistedOK, EnsureRefusedOK
  <2>3. ASSUME NEW d \in 0..MaxStep, Service(d)
        PROVE  StepOK
    BY <2>1, <2>3, ServiceOK
  <2>4. ASSUME NEW p \in Peer, Forget(p) \/ Membership(p) \/ Readdress(p) PROVE StepOK
    BY <2>4, ForgetOK, MeshOK
  <2>5. ASSUME Deinit PROVE StepOK
    BY <2>5, DeinitOK
  <2>6. ASSUME NEW s \in Sess,
               Handshake(s) \/ Drain(s) \/ Vanish(s) \/ \E p \in Peer : Incoming(p, s)
        PROVE  StepOK
    BY <2>6, NodeOK
  <2>7. StepOK
    BY <1>1, <2>2, <2>3, <2>4, <2>5, <2>6 DEF Next
  <2> QED
    BY <2>7 DEF StepOK
<1>2. CASE UNCHANGED vars
  BY <1>2 DEF vars, PoolInv, TypeOK, Owned, NoSessionLeaked, OwnedAsDialed,
              ReadyIsAuthentic, Uncertified, Gone
<1> QED
  BY <1>1, <1>2

\* The inductive invariant: types, and who owns which session.
THEOREM PoolInvariant == Spec => []PoolInv
<1> QED
  BY InitPoolInv, NextOK, PTL DEF Spec

\* The pool's variables keep their types, and the entries fit their array
\* (root.zig, ensure).
THEOREM PoolTypeCorrect == Spec => []TypeOK
<1>1. PoolInv => TypeOK
  BY DEF PoolInv
<1> QED
  BY <1>1, PoolInvariant, PTL

\* Whatever makes the pool drop a session it dialed, it closes it (root.zig,
\* release and its callers).
THEOREM NothingLeaked == Spec => []NoSessionLeaked
<1>1. PoolInv => NoSessionLeaked
  BY DEF PoolInv, Owned
<1> QED
  BY <1>1, PoolInvariant, PTL

\* Owned sessions lead to the peer and the endpoint recorded (root.zig, refresh).
THEOREM RoutesAsDialed == Spec => []OwnedAsDialed
<1>1. PoolInv => OwnedAsDialed
  BY DEF PoolInv, Owned
<1> QED
  BY <1>1, PoolInvariant, PTL

\* Routes given out show the identity asked for (root.zig, lookup).
THEOREM RoutesAuthentic == Spec => []ReadyIsAuthentic
<1>1. PoolInv => ReadyIsAuthentic
  BY DEF PoolInv, Owned
<1> QED
  BY <1>1, PoolInvariant, PTL

\* Sessions that came in are never closed by the pool (root.zig, release).
THEOREM AdoptedStay == Spec => OnlyOwnClosed
<1>1. [StepOK]_vars =>
        [entry' # entry =>
           \A s \in Sess : ~Gone(s) /\ sess'[s].state = "gone" => sess[s].want # None]_vars
  BY DEF StepOK, ClosesOwn
<1> QED
  BY <1>1, InitPoolInv, NextOK, PTL DEF Spec, OnlyOwnClosed

\* Dials go to live members at their present address (root.zig, refresh).
THEOREM DialsGoToTheLiving == Spec => DialsOnlyAlive
<1>1. [StepOK]_vars =>
        [\A s \in Sess : Gone(s) /\ sess'[s].state = "connecting" =>
           member[sess'[s].want] = "alive" /\ sess'[s].at = addr[sess'[s].want]]_vars
  BY DEF StepOK, DialsAlive
<1> QED
  BY <1>1, InitPoolInv, NextOK, PTL DEF Spec, DialsOnlyAlive
-----------------------------------------------------------------------------
(* Established sessions are kept.                                          *)

\* What a step must do for an established session of p.
Kept(p) ==
    Established(p, entry[p].session) =>
        \/ entry'[p].session = entry[p].session
        \/ member[p] = "alive" /\ addr[p] \notin {None, entry[p].endpoint}

\* A refresh keeps an established session unless a live member moved.
LEMMA RefreshKeeps ==
    ASSUME NEW p \in Peer, NEW e, Sane(e), Established(p, e.session),
           ~(member[p] = "alive" /\ addr[p] \notin {None, e.endpoint})
    PROVE  Refresh(p, e).e.session = e.session /\ ~Seeks(Refresh(p, e))
<1>1. e.session # None /\ e \in Entry
  BY DEF Established, Sane
<1>2. Follow(p, Work(e)) = Work(e) /\ Work(e).e = e
  BY <1>1 DEF Moved, Follow, Work
<1> DEFINE w == Check(p, Work(e))
<1>3. w.e.session = e.session
  <2>1. CASE Authentic(p, e.session)
    <3>1. w = [Work(e) EXCEPT !.e = [@ EXCEPT !.ready = TRUE, !.draining = FALSE,
                                              !.backoff = 0]]
      BY <1>1, <1>2, <2>1 DEF Check, Authentic
    <3> QED
      BY <1>1, <3>1 DEF Work, Entry
  <2>2. CASE ~Authentic(p, e.session) /\ sess[e.session].state = "closing"
    <3>1. w = [Work(e) EXCEPT !.e = [@ EXCEPT !.ready = FALSE, !.draining = TRUE]]
      BY <1>1, <1>2, <2>2 DEF Check
    <3> QED
      BY <1>1, <3>1 DEF Work, Entry
  <2> QED
    BY <2>1, <2>2 DEF Established
<1>4. Refresh(p, e) = w
  BY <1>1, <1>2, <1>3 DEF Refresh
<1> HIDE DEF w
<1> QED
  BY <1>1, <1>3, <1>4 DEF Seeks

\* The same of an entry that has only grown older.
LEMMA RefreshKeepsAged ==
    ASSUME PoolInv, NEW p \in Peer, NEW e, Sane(e), Alike(e, entry[p]),
           Established(p, entry[p].session),
           ~(member[p] = "alive" /\ addr[p] \notin {None, entry[p].endpoint})
    PROVE  Refresh(p, e).e.session = entry[p].session /\ ~Seeks(Refresh(p, e))
  BY RefreshKeeps DEF Alike

LEMMA EnsureKeeps ==
    ASSUME PoolInv, NEW p \in Peer, NEW d \in Nat, Ensure(p, d), NEW q \in Peer
    PROVE  Kept(q)
<1> DEFINE e == [Aged(d)[p] EXCEPT !.idleLeft = IdleTimeout]
           w == Refresh(p, e)
<1>1. \A r \in Peer : Sane(Aged(d)[r]) /\ Alike(Aged(d)[r], entry[r])
  BY AgedFacts
<1>2. Sane(e) /\ Alike(e, entry[p])
  BY <1>1, PoolAssumption DEF Sane, Entry, Alike
<1> HIDE DEF e
<1>3. PICK s \in IF Seeks(w) THEN Answers(p) ELSE {None} :
         LET v == IF Seeks(w) THEN Connect(p, w, s) ELSE w
         IN  entry' = [Aged(d) EXCEPT ![p] = v.e]
  BY DEF Ensure, e
<1>4. \A r \in Peer : r \in DOMAIN Aged(d)
  BY DEF Aged
<1>5. CASE q = p
  <2> SUFFICES ASSUME Established(p, entry[p].session),
                      ~(member[p] = "alive" /\ addr[p] \notin {None, entry[p].endpoint})
               PROVE  entry'[p].session = entry[p].session
    BY <1>5 DEF Kept
  <2>1. w.e.session = entry[p].session /\ ~Seeks(w)
    BY <1>2, RefreshKeepsAged
  <2> HIDE DEF w
  <2> QED
    BY <1>3, <1>4, <2>1
<1>6. CASE q # p
  <2>1. entry'[q] = Aged(d)[q]
    BY <1>3, <1>6
  <2> QED
    BY <1>1, <2>1 DEF Kept, Alike
<1> QED
  BY <1>5, <1>6

LEMMA ServiceKeeps ==
    ASSUME PoolInv, NEW d \in Nat, Service(d), NEW p \in demand \cap demand'
    PROVE  Kept(p)
<1> DEFINE leaving == {q \in demand : Unlisted(q) \/ Lapsed(Aged(d)[q])}
           looked == [q \in demand |-> IF q \in leaving THEN Removed(Aged(d)[q])
                                       ELSE Refresh(q, Aged(d)[q])]
           seeking == {q \in demand \ leaving : Seeks(looked[q])}
           Work2(got) == [q \in demand |-> IF q \in seeking
                                           THEN Connect(q, looked[q], got[q])
                                           ELSE looked[q]]
<1> SUFFICES ASSUME Established(p, entry[p].session),
                    ~(member[p] = "alive" /\ addr[p] \notin {None, entry[p].endpoint})
             PROVE  entry'[p].session = entry[p].session
  BY DEF Kept
<1>1. PICK got \in [seeking -> Sess \cup {None}] :
         /\ entry' = [q \in Peer |-> IF q \in demand THEN Work2(got)[q].e ELSE Blank]
         /\ demand' = demand \ leaving
  BY DEF Service
<1>2. p \in Peer /\ p \in demand /\ p \notin leaving
  BY <1>1 DEF PoolInv, TypeOK
<1>3. Sane(Aged(d)[p]) /\ Alike(Aged(d)[p], entry[p])
  BY <1>2, AgedFacts
<1>4. looked[p] = Refresh(p, Aged(d)[p])
  BY <1>2
<1>5. Refresh(p, Aged(d)[p]).e.session = entry[p].session /\ ~Seeks(Refresh(p, Aged(d)[p]))
  BY <1>2, <1>3, RefreshKeepsAged
<1>6. Work2(got)[p] = Refresh(p, Aged(d)[p])
  BY <1>2, <1>4, <1>5
<1> QED
  BY <1>1, <1>2, <1>5, <1>6

\* Whatever the step, sessions under way outlive it in the entries that do.
LEMMA NextKeeps ==
    ASSUME PoolInv, Next, NEW p \in demand \cap demand'
    PROVE  Kept(p)
<1>1. p \in Peer /\ \A d \in 0..MaxStep : d \in Nat
  BY PoolAssumption DEF PoolInv, TypeOK
<1>2. \A d \in Nat : Alike(Aged(d)[p], entry[p]) /\ p \in DOMAIN Aged(d)
  BY <1>1, AgedFacts DEF Aged
<1>3. ASSUME NEW q \in Peer, NEW d \in 0..MaxStep, Ensure(q, d) PROVE Kept(p)
  BY <1>1, <1>3, EnsureKeeps
<1>4. ASSUME NEW q \in Peer, NEW d \in 0..MaxStep,
             EnsureUnlisted(q, d) \/ EnsureRefused(q, d)
      PROVE  Kept(p)
  <2>1. entry'[p] = Aged(d)[p]
    BY <1>1, <1>2, <1>4 DEF EnsureUnlisted, EnsureRefused
  <2> QED
    BY <1>1, <1>2, <2>1 DEF Kept, Alike
<1>5. ASSUME NEW d \in 0..MaxStep, Service(d) PROVE Kept(p)
  BY <1>1, <1>5, ServiceKeeps
<1>6. ASSUME NEW q \in Peer, Forget(q) PROVE Kept(p)
  BY <1>1, <1>6 DEF Forget, Kept, PoolInv, TypeOK
<1>7. CASE Deinit
  BY <1>7 DEF Deinit
<1>8. ASSUME entry' = entry PROVE Kept(p)
  BY <1>8 DEF Kept
<1> QED
  BY <1>3, <1>4, <1>5, <1>6, <1>7, <1>8
     DEF Next, Membership, Readdress, Handshake, Drain, Vanish, Incoming

\* Sessions are given up only with their entries, or for a live member's new
\* endpoint (root.zig, refresh).
THEOREM RoutesKept == Spec => EstablishedKept
<1>1. PoolInv /\ [Next]_vars =>
        [\A p \in demand \cap demand' : Established(p, entry[p].session) =>
            \/ entry'[p].session = entry[p].session
            \/ member[p] = "alive" /\ addr[p] \notin {None, entry[p].endpoint}]_vars
  BY NextKeeps DEF Kept
<1> QED
  BY <1>1, InitPoolInv, NextOK, PTL DEF Spec, EstablishedKept

-----------------------------------------------------------------------------
(* What a service pass leaves to wait for.                                 *)

\* An entry drains a session only when that is closing or gone, and holds one
\* it did not dial only when that shows its peer's identity or is gone.
Held(p, f) ==
    /\ f.draining => f.session \in Sess /\ sess[f.session].state \in {"closing", "gone"}
    /\ (f.session # None /\ ~f.owned) => Gone(f.session) \/ sess[f.session].cert = p
HeldInv == \A p \in Peer : Held(p, entry[p])

\* A session dialed for somebody never shows the identity of somebody else that
\* the pool might have asked for.
Identified ==
    \A s \in Sess : sess[s].want # None => sess[s].cert \in {sess[s].want, Stranger, None}

\* The session an entry holds serves it, drains, or has time left to be set up.
OnSession(p, f) ==
    \/ Authentic(p, f.session) /\ f.ready /\ ~f.draining
    \/ sess[f.session].state = "closing" /\ ~f.ready /\ f.draining
    \/ sess[f.session].state = "connecting" /\ f.dialLeft > 0 /\ ~f.draining

\* An entry with nothing to do now: it is neither to be removed nor moved, and
\* it has a session in order or a time left before the next try.
Quiet(p) ==
    LET f == entry[p] IN
    /\ member[p] \in {"alive", "suspect"}
    /\ IdleTimeout # 0 => f.idleLeft > 0
    /\ member[p] = "alive" => addr[p] \in {None, f.endpoint}
    /\ IF f.session = None THEN f.retryIn > 0 /\ ~f.owned /\ ~f.ready /\ ~f.draining
                           ELSE OnSession(p, f)

Settled == settled => \A p \in demand : Quiet(p)

WakeInv == PoolInv /\ HeldInv /\ Identified /\ Settled

-----------------------------------------------------------------------------
(* What a refresh makes of an entry's timers, drain and session.           *)

LEMMA ReleaseTimers ==
    ASSUME NEW w \in Works
    PROVE  /\ ~Release(w).e.draining /\ Release(w).e.session = None
           /\ Release(w).e.idleLeft = w.e.idleLeft
  BY DEF Release, Works, Entry

LEMMA ScheduleTimers ==
    ASSUME NEW e \in Entry
    PROVE  /\ ScheduleRetry(e).idleLeft = e.idleLeft
           /\ ScheduleRetry(e).draining = e.draining
  BY DEF ScheduleRetry, Entry

LEMMA FollowTimers ==
    ASSUME NEW p \in Peer, NEW e, Sane(e), Held(p, e), addr \in [Peer -> Addr \cup {None}]
    PROVE  LET f == Follow(p, Work(e)).e
           IN  /\ f.idleLeft = e.idleLeft /\ Held(p, f)
               /\ (member[p] = "alive" => addr[p] \in {None, f.endpoint})
<1> DEFINE w == Work(e)
<1>1. w \in Works /\ w.e = e /\ w.closed = {} /\ w.dialed = None
  BY DEF Work, Works, Sane
<1>2. CASE ~Moved(p, e)
  BY <1>1, <1>2 DEF Follow, Moved
<1>3. CASE Moved(p, e)
  <2> DEFINE v == IF e.endpoint = None THEN w ELSE Release(w)
  <2>1. /\ v \in Works /\ v.e \in Entry
        /\ v.e.idleLeft = e.idleLeft
        /\ Held(p, v.e)
    <3>1. e.owned => e.session \in Sess
      BY DEF Sane, Entry
    <3>2. CASE e.endpoint = None
      BY <1>1, <3>2 DEF Works
    <3>3. CASE e.endpoint # None
      BY <1>1, <3>1, <3>3, ReleaseFacts, ReleaseTimers DEF Works, Held
    <3> QED
      BY <3>2, <3>3
  <2>2. Follow(p, w) = [v EXCEPT !.e = [@ EXCEPT !.endpoint = addr[p],
                                                 !.retryIn = 0, !.backoff = 0]]
    BY <1>1, <1>3 DEF Follow
  <2>3. addr[p] \in Addr
    BY <1>3 DEF Moved
  <2> HIDE DEF v, w
  <2> DEFINE f == [v.e EXCEPT !.endpoint = addr[p], !.retryIn = 0, !.backoff = 0]
  <2>4. /\ Follow(p, w).e = f
        /\ f.endpoint = addr[p] /\ f.session = v.e.session /\ f.idleLeft = v.e.idleLeft
        /\ f.owned = v.e.owned /\ f.draining = v.e.draining
    BY <2>1, <2>2, <2>3 DEF Works, Entry
  <2> HIDE DEF f
  <2>5. Held(p, f)
    BY <2>1, <2>4 DEF Held
  <2> QED
    BY <2>1, <2>4, <2>5 DEF w
<1> QED
  BY <1>2, <1>3

LEMMA CheckTimers ==
    ASSUME NEW p \in Peer, NEW w \in Works, Held(p, w.e), None \notin Sess,
           w.e.owned => w.e.session \in Sess
    PROVE  LET f == Check(p, w).e
           IN  /\ f.idleLeft = w.e.idleLeft /\ Held(p, f)
               /\ (f.session # None => OnSession(p, f))
<1> DEFINE s == w.e.session
<1>1. w.e \in Entry /\ s \in Sess \cup {None}
  BY DEF Works, Entry
<1>2. CASE s = None
  BY <1>2 DEF Check
<1>3. CASE s # None /\ Authentic(p, s)
  <2> DEFINE f == [w.e EXCEPT !.ready = TRUE, !.draining = FALSE, !.backoff = 0]
  <2>1. /\ Check(p, w).e = f /\ f.session = s /\ f.ready /\ ~f.draining
        /\ f.idleLeft = w.e.idleLeft
    BY <1>1, <1>3 DEF Check, Authentic, Entry, Works
  <2> HIDE DEF f
  <2>2. Held(p, f) /\ OnSession(p, f)
    BY <1>1, <1>3, <2>1 DEF Held, Authentic, OnSession
  <2> QED
    BY <2>1, <2>2
<1>4. CASE s # None /\ ~Authentic(p, s) /\ sess[s].state = "closing"
  <2> DEFINE f == [w.e EXCEPT !.ready = FALSE, !.draining = TRUE]
  <2>1. /\ Check(p, w).e = f /\ f.session = s /\ ~f.ready /\ f.draining
        /\ f.idleLeft = w.e.idleLeft /\ f.owned = w.e.owned
    BY <1>1, <1>4 DEF Check, Entry, Works
  <2> HIDE DEF f
  <2>2. Held(p, f) /\ OnSession(p, f)
    BY <1>1, <1>4, <2>1 DEF Held, OnSession
  <2> QED
    BY <2>1, <2>2
<1>5. CASE /\ s # None /\ ~Authentic(p, s) /\ sess[s].state = "connecting"
           /\ w.e.dialLeft > 0
  <2>1. Check(p, w) = w
    BY <1>5 DEF Check
  <2> QED
    BY <1>5, <2>1 DEF Held, OnSession
<1>6. CASE /\ s # None /\ ~Authentic(p, s) /\ sess[s].state # "closing"
           /\ ~(sess[s].state = "connecting" /\ w.e.dialLeft > 0)
  <2> DEFINE v == Release(w)
             f == ScheduleRetry(v.e)
  <2>1. Check(p, w) = [v EXCEPT !.e = f]
    BY <1>6 DEF Check
  <2>2. /\ v \in Works /\ v.e \in Entry /\ v.e.session = None
        /\ ~v.e.draining /\ v.e.idleLeft = w.e.idleLeft
    BY <1>1, ReleaseFacts, ReleaseTimers DEF Works
  <2> HIDE DEF v
  <2>3. f.session = None /\ ~f.draining /\ f.idleLeft = v.e.idleLeft
    BY <2>2, ScheduleRetryFacts, ScheduleTimers
  <2> HIDE DEF f
  <2>4. Check(p, w).e = f
    BY <2>1, <2>2 DEF Works
  <2> QED
    BY <2>2, <2>3, <2>4 DEF Held
<1> QED
  BY <1>2, <1>3, <1>4, <1>5, <1>6

LEMMA RefreshTimers ==
    ASSUME NEW p \in Peer, NEW e, Sane(e), Held(p, e), addr \in [Peer -> Addr \cup {None}],
           member[p] \in {"alive", "suspect"}
    PROVE  LET f == Refresh(p, e).e
           IN  /\ f.idleLeft = e.idleLeft /\ Held(p, f)
               /\ (member[p] = "alive" => addr[p] \in {None, f.endpoint})
               /\ (f.session # None => OnSession(p, f))
<1> DEFINE u == Follow(p, Work(e))
           w == Check(p, u)
<1>1. /\ u.e.idleLeft = e.idleLeft /\ Held(p, u.e)
      /\ member[p] = "alive" => addr[p] \in {None, u.e.endpoint}
  BY FollowTimers
<1>2. Reached(p, e, u) /\ Reached(p, e, w) /\ w.e.endpoint = u.e.endpoint
  BY FollowFacts, CheckFacts
<1>3. u \in Works /\ w \in Works /\ w.e \in Entry /\ (u.e.owned => u.e.session \in Sess)
  BY <1>2 DEF Reached, Works, Entry, Sane
<1> HIDE DEF u
<1>4. /\ w.e.idleLeft = u.e.idleLeft /\ Held(p, w.e)
      /\ w.e.session # None => OnSession(p, w.e)
  BY <1>1, <1>3, CheckTimers, PoolAssumption
<1>5. Refresh(p, e) = IF w.e.session = None /\ member[p] = "suspect"
                      THEN [w EXCEPT !.e = [@ EXCEPT !.retryIn = RetryInitial]]
                      ELSE w
  BY DEF Refresh, u
<1> HIDE DEF w
<1>6. CASE ~(w.e.session = None /\ member[p] = "suspect")
  BY <1>1, <1>2, <1>4, <1>5, <1>6
<1>7. CASE w.e.session = None /\ member[p] = "suspect"
  <2> DEFINE f == [w.e EXCEPT !.retryIn = RetryInitial]
  <2>1. /\ f.session = w.e.session /\ f.owned = w.e.owned /\ f.idleLeft = w.e.idleLeft
        /\ f.draining = w.e.draining
    BY <1>3 DEF Entry
  <2>2. Refresh(p, e).e = f
    BY <1>3, <1>5, <1>7 DEF Works
  <2> HIDE DEF f
  <2> QED
    BY <1>1, <1>4, <1>7, <2>1, <2>2 DEF Held
<1> QED
  BY <1>6, <1>7

\* What a refresh, with the connection it may seek, leaves: nothing to do about
\* the entry before its timers run out.
Rested(p, e, v) ==
    /\ v.e.idleLeft = e.idleLeft /\ v.e.session \notin v.closed
    /\ member[p] = "alive" => addr[p] \in {None, v.e.endpoint}
    /\ IF v.dialed # None THEN ~v.e.draining /\ v.e.dialLeft > 0
       ELSE /\ Held(p, v.e)
            /\ IF v.e.session = None THEN v.e.retryIn > 0 ELSE OnSession(p, v.e)

LEMMA ConnectTimers ==
    ASSUME NEW p \in Peer, NEW e, Sane(e), NEW w, Reached(p, e, w), Seeks(w), Held(p, w.e),
           member[p] = "alive" => addr[p] \in {None, w.e.endpoint},
           w.e.idleLeft = e.idleLeft, Alike(e, entry[p]), sess \in [Sess -> Session],
           \A u \in Fresh : entry[p].session # u, NEW s \in Answers(p)
    PROVE  Rested(p, e, Connect(p, w, s))
<1>1. /\ w \in Works /\ w.e \in Entry /\ w.dialed = None
      /\ w.e.session = None /\ ~w.e.owned /\ ~w.e.ready /\ ~w.e.draining
      /\ w.closed = IF e.owned THEN {e.session} ELSE {}
      /\ e.owned => e.session \in Sess
  BY PoolAssumption DEF Reached, Seeks, Works, Sane, Held, Entry
<1>2. CASE s = None
  <2> DEFINE f == ScheduleRetry(w.e)
  <2>1. Connect(p, w, s) = [w EXCEPT !.e = f]
    BY <1>2 DEF Connect
  <2>2. /\ f \in Entry /\ f.session = None /\ f.retryIn > 0 /\ ~f.draining
        /\ f.idleLeft = w.e.idleLeft /\ f.endpoint = w.e.endpoint
    BY <1>1, ScheduleRetryFacts, ScheduleTimers
  <2> HIDE DEF f
  <2>3. /\ Connect(p, w, s).e = f
        /\ Connect(p, w, s).closed = w.closed /\ Connect(p, w, s).dialed = None
    BY <1>1, <2>1 DEF Works
  <2> QED
    BY <1>1, <2>2, <2>3, PoolAssumption DEF Rested, Held
<1>3. CASE s # None /\ Gone(s)
  <2> DEFINE f == [w.e EXCEPT !.session = s, !.owned = TRUE, !.dialLeft = DialTimeout]
  <2>1. s \in Fresh /\ s \in Sess
    BY <1>3 DEF Answers, Fresh, Gone, Authentic
  <2>2. /\ f.session = s /\ ~f.draining /\ f.dialLeft > 0
        /\ f.idleLeft = w.e.idleLeft /\ f.endpoint = w.e.endpoint
    BY <1>1, PoolAssumption DEF Entry
  <2>3. Connect(p, w, s) = [w EXCEPT !.e = f, !.dialed = s]
    BY <1>3 DEF Connect
  <2> HIDE DEF f
  <2>4. /\ Connect(p, w, s).e = f
        /\ Connect(p, w, s).closed = w.closed /\ Connect(p, w, s).dialed = s
    BY <1>1, <2>3 DEF Works
  <2>5. s \notin w.closed
    BY <1>1, <2>1 DEF Alike
  <2> QED
    BY <1>3, <2>2, <2>4, <2>5 DEF Rested
<1>4. CASE s # None /\ ~Gone(s)
  <2> DEFINE f == [w.e EXCEPT !.session = s, !.ready = TRUE]
  <2>1. s \in Sess /\ Authentic(p, s) /\ ~(entry[p].owned /\ entry[p].session = s)
    BY <1>4 DEF Answers, Fresh
  <2>2. /\ f.session = s /\ f.ready /\ ~f.draining /\ ~f.owned
        /\ f.idleLeft = w.e.idleLeft /\ f.endpoint = w.e.endpoint
    BY <1>1 DEF Entry
  <2>3. Connect(p, w, s) = [w EXCEPT !.e = f]
    BY <1>4 DEF Connect
  <2> HIDE DEF f
  <2>4. /\ Connect(p, w, s).e = f
        /\ Connect(p, w, s).closed = w.closed /\ Connect(p, w, s).dialed = None
    BY <1>1, <2>3 DEF Works
  <2>5. s \notin w.closed
    BY <1>1, <2>1 DEF Alike
  <2>6. Held(p, f) /\ OnSession(p, f)
    BY <2>1, <2>2 DEF Held, OnSession, Authentic
  <2> QED
    BY <1>4, <2>2, <2>4, <2>5, <2>6 DEF Rested
<1> QED
  BY <1>2, <1>3, <1>4

LEMMA FreshFacts ==
    ASSUME TypeOK, NEW s \in Fresh
    PROVE  s \in Sess /\ Gone(s) /\ \A p \in Peer : entry[p].session # s
  BY PoolAssumption DEF Fresh, TypeOK, Blank

\* Whatever the answers, a refreshed entry rests.
LEMMA WorkRests ==
    ASSUME PoolInv, NEW p \in Peer, ~Unlisted(p), NEW e, Sane(e), Alike(e, entry[p]),
           Held(p, e), NEW v, Outcome(p, e, v)
    PROVE  Rested(p, e, v)
<1> DEFINE w == Refresh(p, e)
<1>1. /\ addr \in [Peer -> Addr \cup {None}] /\ sess \in [Sess -> Session]
      /\ member[p] \in {"alive", "suspect"}
  BY DEF PoolInv, TypeOK, Unlisted
<1>2. /\ w.e.idleLeft = e.idleLeft /\ Held(p, w.e)
      /\ member[p] = "alive" => addr[p] \in {None, w.e.endpoint}
      /\ w.e.session # None => OnSession(p, w.e)
  BY <1>1, RefreshTimers
<1>3. Reached(p, e, w)
  BY <1>1, RefreshFacts
<1>4. IF Seeks(w) THEN \E s \in Answers(p) : v = Connect(p, w, s) ELSE v = w
  BY DEF Outcome
<1> HIDE DEF w
<1>5. CASE ~Seeks(w)
  <2>1. w.dialed = None /\ w.e \in Entry /\ w.closed \in SUBSET Sess
    BY <1>3 DEF Reached, Works
  <2>2. w.e.session \notin w.closed
    BY <1>3, <2>1, PoolAssumption DEF Reached
  <2>3. w.e.session = None => w.e.retryIn > 0
    BY <1>5, <2>1 DEF Seeks, Entry
  <2> QED
    BY <1>2, <1>4, <1>5, <2>1, <2>2, <2>3 DEF Rested
<1>6. CASE Seeks(w)
  <2>1. PICK s \in Answers(p) : v = Connect(p, w, s)
    BY <1>4, <1>6
  <2>2. \A u \in Fresh : entry[p].session # u
    BY FreshFacts DEF PoolInv
  <2> QED
    BY <1>1, <1>2, <1>3, <1>6, <2>1, <2>2, ConnectTimers
<1> QED
  BY <1>5, <1>6

-----------------------------------------------------------------------------
(* What a call leaves of the sessions other entries hold.                  *)

\* Work that leaves its entry consistent with the session it holds.
Tended(p, v) ==
    /\ v.e.session \notin v.closed
    /\ IF v.dialed # None THEN ~v.e.draining ELSE Held(p, v.e)

\* No call touches a session held: it stays, or was gone before, or is the
\* one just dialed.
LEMMA CallHolds ==
    ASSUME TypeOK, Owned, HeldInv, Identified, NEW D \in SUBSET Peer, NEW work, Call(D, work),
           \A p \in D : Tended(p, work[p]),
           \A p \in Peer \ D : entry'[p].draining <=> entry[p].draining
    PROVE  /\ HeldInv' /\ Identified'
           /\ \A p \in Peer : LET s == entry'[p].session IN
                 s # None =>
                    \/ p \in D /\ work[p].dialed = s /\ sess'[s].state = "connecting"
                    \/ (p \in D => work[p].dialed = None)
                       /\ ((Gone(s) /\ sess'[s].state = "gone") \/ sess'[s] = sess[s])
<1> DEFINE Closed(s) == \E p \in D : s \in work[p].closed
           Dialed(s) == \E p \in D : work[p].dialed = s
<1>1. \A s \in Sess :
         /\ Closed(s) => sess'[s] = NoSession
         /\ ~Closed(s) /\ Dialed(s) =>
               \E p \in D : /\ work[p].dialed = s
                            /\ sess'[s] = [state |-> "connecting", want |-> p,
                                           at |-> entry'[p].endpoint, cert |-> None]
         /\ ~Closed(s) /\ ~Dialed(s) => sess'[s] = sess[s]
  BY CallSessions
<1>2. ASSUME NEW p \in D
      PROVE  /\ Sound(p, entry[p], work[p]) /\ entry'[p] = work[p].e
             /\ Tended(p, work[p])
  BY DEF Call
<1>3. ASSUME NEW q \in D, NEW s \in work[q].closed
      PROVE  /\ s \in Sess /\ entry[q].owned /\ entry[q].session = s
             /\ Gone(s) \/ sess[s].want = q
  <2>1. /\ entry[q] \in Entry /\ (entry[q].owned => q \in demand)
    BY DEF TypeOK, Blank
  <2>2. entry[q].owned => /\ entry[q].session \in Sess
                          /\ Gone(entry[q].session) \/ sess[entry[q].session].want = q
    BY <2>1 DEF Owned, OwnedAsDialed, Entry
  <2>3. s \in IF entry[q].owned THEN {entry[q].session} ELSE {}
    BY <1>2 DEF Sound, Reached
  <2> QED
    BY <2>2, <2>3
<1>4. ASSUME NEW q \in D, work[q].dialed # None
      PROVE  /\ work[q].dialed \in Fresh /\ entry'[q].session = work[q].dialed
             /\ entry'[q].owned
  BY <1>2, <1>4 DEF Sound, Reached
<1> HIDE DEF Closed, Dialed
<1>5. ASSUME NEW p \in Peer, p \in D => work[p].dialed = None
      PROVE  /\ Held(p, entry'[p])
             /\ entry'[p].session \in Sess \cup {None}
             /\ entry'[p].session # None =>
                   \/ entry'[p].session = entry[p].session
                   \/ Authentic(p, entry'[p].session)
             /\ entry'[p].owned => entry[p].owned /\ entry'[p].session = entry[p].session
             /\ p \in D => entry'[p].session \notin work[p].closed
  <2>1. CASE p \notin D
    <3>1. Alike(entry'[p], entry[p]) /\ (entry'[p].draining <=> entry[p].draining)
      BY <2>1 DEF Call
    <3>2. Held(p, entry[p]) /\ entry[p] \in Entry
      BY DEF HeldInv, TypeOK
    <3>3. entry[p].session \in Sess \cup {None}
      BY <3>2 DEF Entry
    <3> QED
      BY <2>1, <3>1, <3>2, <3>3 DEF Held, Alike
  <2>2. CASE p \in D
    <3>1. Held(p, entry'[p]) /\ entry'[p].session \notin work[p].closed
      BY <1>2, <1>5, <2>2 DEF Tended
    <3>2. Sound(p, entry[p], work[p]) /\ entry'[p] = work[p].e /\ work[p].dialed = None
      BY <1>2, <1>5, <2>2
    <3>3. work[p].e.session \in Sess \cup {None}
      BY <3>2 DEF Sound, Reached, Works, Entry
    <3>4. None \notin Fresh
      BY PoolAssumption DEF Fresh
    <3> QED
      BY <3>1, <3>2, <3>3, <3>4 DEF Sound, Reached
  <2> QED
    BY <2>1, <2>2
<1>6. ASSUME NEW p \in Peer, p \in D => work[p].dialed = None, entry'[p].session # None
      PROVE  LET s == entry'[p].session IN
             /\ s \in Sess
             /\ (Gone(s) /\ sess'[s].state = "gone") \/ sess'[s] = sess[s]
  <2> DEFINE s == entry'[p].session
  <2>1. s \in Sess /\ s # None
    BY <1>5, <1>6
  <2>2. s \notin Fresh
    BY <1>5, <1>6, FreshFacts DEF Authentic, Gone
  <2>3. ~Dialed(s)
    BY <1>4, <2>1, <2>2 DEF Dialed
  <2>4. ASSUME Closed(s), ~Gone(s) PROVE FALSE
    <3>1. PICK q \in D : s \in work[q].closed
      BY <2>4 DEF Closed
    <3>2. sess[s].want = q /\ q \in Peer
      BY <1>3, <2>4, <3>1
    <3>3. q # p
      BY <1>5, <1>6, <3>1
    <3>4. entry'[p].owned => sess[s].want = p
      BY <1>5, <1>6, <2>4 DEF TypeOK, Owned, OwnedAsDialed, Blank
    <3>5. ~entry'[p].owned => sess[s].cert = p
      BY <1>5, <1>6, <2>1, <2>4 DEF Held
    <3>6. sess[s].cert \in {q, Stranger, None}
      BY <2>1, <3>2, PoolAssumption DEF Identified
    <3> QED
      BY <3>2, <3>3, <3>4, <3>5, <3>6, PoolAssumption
  <2> HIDE DEF s
  <2>5. Closed(s) => Gone(s) /\ sess'[s].state = "gone"
    BY <1>1, <2>1, <2>4 DEF NoSession
  <2>6. ~Closed(s) => sess'[s] = sess[s]
    BY <1>1, <2>1, <2>3
  <2> QED
    BY <2>1, <2>5, <2>6 DEF s
<1>7. ASSUME NEW p \in D, work[p].dialed # None
      PROVE  /\ entry'[p].session = work[p].dialed /\ entry'[p].session \in Sess
             /\ sess'[entry'[p].session].state = "connecting"
             /\ ~entry'[p].draining /\ entry'[p].owned
  <2> DEFINE s == work[p].dialed
  <2>1. /\ s \in Fresh /\ s \in Sess /\ entry'[p].session = s /\ entry'[p].owned
        /\ \A q \in Peer : entry[q].session # s
    BY <1>4, <1>7, FreshFacts
  <2>2. ~Closed(s)
    BY <1>3, <2>1 DEF Closed
  <2>3. Dialed(s)
    BY DEF Dialed
  <2>4. ~entry'[p].draining
    BY <1>2, <1>7 DEF Tended
  <2> HIDE DEF s
  <2>5. PICK q \in D : sess'[s] = [state |-> "connecting", want |-> q,
                                  at |-> entry'[q].endpoint, cert |-> None]
    BY <1>1, <2>1, <2>2, <2>3
  <2>6. sess'[s].state = "connecting"
    BY <2>5
  <2> QED
    BY <2>1, <2>4, <2>6 DEF s
<1>8. HeldInv'
  <2> SUFFICES ASSUME NEW p \in Peer
               PROVE  /\ entry'[p].draining => /\ entry'[p].session \in Sess
                                               /\ sess'[entry'[p].session].state \in {"closing", "gone"}
                      /\ (entry'[p].session # None /\ ~entry'[p].owned) =>
                            \/ sess'[entry'[p].session].state = "gone"
                            \/ sess'[entry'[p].session].cert = p
    BY DEF HeldInv, Held, Gone
  <2>1. CASE p \in D /\ work[p].dialed # None
    BY <1>7, <2>1
  <2>2. CASE p \in D => work[p].dialed = None
    <3>1. Held(p, entry'[p])
      BY <1>5, <2>2
    <3>2. CASE entry'[p].session = None
      BY <3>1, <3>2, PoolAssumption DEF Held
    <3>3. CASE entry'[p].session # None
      BY <1>6, <2>2, <3>1, <3>3 DEF Held, Gone
    <3> QED
      BY <3>2, <3>3
  <2> QED
    BY <2>1, <2>2
<1>9. Identified'
  <2> SUFFICES ASSUME NEW s \in Sess, sess'[s].want # None
               PROVE  sess'[s].cert \in {sess'[s].want, Stranger, None}
    BY DEF Identified
  <2>1. CASE ~Closed(s) /\ Dialed(s)
    <3> PICK p \in D : sess'[s] = [state |-> "connecting", want |-> p,
                                   at |-> entry'[p].endpoint, cert |-> None]
      BY <1>1, <2>1
    <3> QED
      OBVIOUS
  <2>2. CASE Closed(s)
    BY <1>1, <2>2 DEF NoSession
  <2>3. CASE ~Closed(s) /\ ~Dialed(s)
    BY <1>1, <2>3 DEF Identified
  <2> QED
    BY <2>1, <2>2, <2>3
<1> QED
  <2>1. ASSUME NEW p \in Peer, entry'[p].session # None
        PROVE  LET s == entry'[p].session IN
               \/ p \in D /\ work[p].dialed = s /\ sess'[s].state = "connecting"
               \/ (p \in D => work[p].dialed = None)
                  /\ ((Gone(s) /\ sess'[s].state = "gone") \/ sess'[s] = sess[s])
    <3>1. CASE p \in D /\ work[p].dialed # None
      BY <1>7, <3>1
    <3>2. CASE p \in D => work[p].dialed = None
      BY <1>6, <2>1, <3>2
    <3> QED
      BY <3>1, <3>2
  <2> QED
    BY <1>8, <1>9, <2>1

-----------------------------------------------------------------------------
(* The steps keep what a sleeper relies on.                                *)

Holds == HeldInv /\ Identified

LEMMA RemovedTends ==
    ASSUME NEW p \in Peer, NEW e, Sane(e)
    PROVE  Tended(p, Removed(e))
<1>1. Reached(p, e, Removed(e)) /\ Removed(e).e = Blank
  BY RemovedFacts
<1>2. Removed(e).dialed = None /\ Removed(e).closed \in SUBSET Sess
  BY <1>1 DEF Reached, Works
<1> QED
  BY <1>1, <1>2, PoolAssumption DEF Tended, Held, Blank

LEMMA HeldAged ==
    ASSUME PoolInv, HeldInv, NEW p \in Peer, NEW e, Alike(e, entry[p]),
           e.draining <=> entry[p].draining
    PROVE  Held(p, e)
  BY DEF HeldInv, Held, Alike

LEMMA EnsureHolds ==
    ASSUME PoolInv, Holds, NEW p \in Peer, NEW d \in Nat, Ensure(p, d)
    PROVE  Holds'
<1>1. PICK e, v : /\ Sane(e) /\ Alike(e, entry[p]) /\ (e.draining <=> entry[p].draining)
                  /\ Outcome(p, e, v) /\ ~Unlisted(p)
                  /\ entry' = [Aged(d) EXCEPT ![p] = v.e]
                  /\ Call({p}, [q \in {p} |-> v])
  BY EnsureCall
<1>2. Rested(p, e, v)
  BY <1>1, HeldAged, WorkRests DEF Holds
<1>3. Tended(p, v)
  BY <1>2 DEF Rested, Tended
<1>4. \A q \in Peer \ {p} : entry'[q].draining <=> entry[q].draining
  BY <1>1, AgedFacts DEF Aged
<1> DEFINE work == [q \in {p} |-> v]
<1>5. Call({p}, work) /\ \A q \in {p} : Tended(q, work[q])
  BY <1>1, <1>3
<1> HIDE DEF work
<1> QED
  BY <1>4, <1>5, CallHolds DEF PoolInv, Holds

LEMMA RemovalHolds ==
    ASSUME PoolInv, Holds, NEW p \in Peer, entry'[p] = Blank,
           \A q \in Peer \ {p} : /\ Alike(entry'[q], entry[q])
                                 /\ entry'[q].draining <=> entry[q].draining,
           sess' = Sessions([q \in {p} |-> Removed(entry[p])])
    PROVE  Holds'
<1> DEFINE work == [q \in {p} |-> Removed(entry[p])]
<1>1. Sane(entry[p])
  BY AgedFacts, 0 \in Nat
<1>2. /\ Sound(p, entry[p], Removed(entry[p])) /\ Removed(entry[p]).e = Blank
      /\ Tended(p, Removed(entry[p]))
  BY <1>1, RemovedSound, RemovedTends DEF Alike
<1>3. Call({p}, work) /\ \A q \in {p} : Tended(q, work[q])
  BY <1>2 DEF Call
<1> HIDE DEF work
<1> QED
  BY <1>3, CallHolds DEF PoolInv, Holds

LEMMA EnsureUnlistedHolds ==
    ASSUME PoolInv, Holds, NEW p \in Peer, NEW d \in Nat, EnsureUnlisted(p, d)
    PROVE  Holds'
<1>1. \A q \in Peer : /\ Alike(Aged(d)[q], entry[q])
                      /\ Aged(d)[q].draining <=> entry[q].draining
  BY AgedFacts
<1>2. entry' = [Aged(d) EXCEPT ![p] = Blank] /\ DOMAIN Aged(d) = Peer
  BY DEF EnsureUnlisted, Aged
<1>3. entry'[p] = Blank /\ \A q \in Peer \ {p} : entry'[q] = Aged(d)[q]
  BY <1>2
<1> QED
  BY <1>1, <1>3, RemovalHolds DEF EnsureUnlisted

LEMMA ForgetHolds ==
    ASSUME PoolInv, Holds, NEW p \in Peer, Forget(p)
    PROVE  Holds'
<1>1. entry'[p] = Blank /\ \A q \in Peer \ {p} : entry'[q] = entry[q]
  BY DEF Forget, PoolInv, TypeOK
<1> QED
  BY <1>1, RemovalHolds DEF Forget, Alike

LEMMA EnsureRefusedHolds ==
    ASSUME PoolInv, Holds, NEW p \in Peer, NEW d \in Nat, EnsureRefused(p, d)
    PROVE  Holds'
<1>1. entry' = Aged(d) /\ sess' = sess
  BY DEF EnsureRefused
<1>2. Identified'
  BY <1>1 DEF Holds, Identified
<1>3. \A q \in Peer : Held(q, Aged(d)[q])
  BY AgedFacts, HeldAged DEF Holds
<1>4. HeldInv'
  BY <1>1, <1>3 DEF HeldInv, Held, Gone
<1> QED
  BY <1>2, <1>4 DEF Holds

LEMMA DeinitHolds ==
    ASSUME PoolInv, Holds, Deinit
    PROVE  Holds'
<1> DEFINE work == [p \in demand |-> Removed(entry[p])]
<1>1. demand \in SUBSET Peer /\ \A p \in Peer \ demand : entry[p] = Blank
  BY DEF PoolInv, TypeOK
<1>2. ASSUME NEW p \in demand
      PROVE  /\ Sound(p, entry[p], Removed(entry[p])) /\ Removed(entry[p]).e = Blank
             /\ Removed(entry[p]).dialed = None /\ Tended(p, Removed(entry[p]))
  <2>1. p \in Peer /\ Sane(entry[p])
    BY <1>1, AgedFacts, 0 \in Nat
  <2> QED
    BY <2>1, RemovedSound, RemovedTends DEF Alike
<1>3. \A p \in Peer : entry'[p] = Blank
  BY DEF Deinit
<1>4. Call(demand, work) /\ \A p \in demand : Tended(p, work[p])
  BY <1>1, <1>2, <1>3 DEF Call, Deinit, Alike
<1> HIDE DEF work
<1> QED
  BY <1>1, <1>3, <1>4, CallHolds DEF PoolInv, Holds

\* A service pass keeps them too, and leaves every entry quiet.
LEMMA ServiceHolds ==
    ASSUME PoolInv, PoolInv', Holds, NEW d \in Nat, Service(d)
    PROVE  Holds' /\ Settled'
<1>1. demand' = {p \in demand : ~Unlisted(p) /\ ~Lapsed(Aged(d)[p])}
  BY ServiceCall
<1>2. PICK work :
         /\ Call(demand, work)
         /\ entry' = [p \in Peer |-> IF p \in demand THEN work[p].e ELSE Blank]
         /\ \A p \in demand \ demand' : work[p] = Removed(Aged(d)[p])
         /\ \A p \in demand' : Outcome(p, Aged(d)[p], work[p])
  BY ServiceCall
<1>3. demand \in SUBSET Peer /\ demand' \in SUBSET demand
      /\ UNCHANGED env
  BY <1>1 DEF PoolInv, TypeOK, Service
<1>4. ASSUME NEW p \in demand'
      PROVE  /\ Rested(p, Aged(d)[p], work[p]) /\ p \in Peer /\ p \in demand
             /\ ~Unlisted(p) /\ ~Lapsed(Aged(d)[p]) /\ Aged(d)[p] \in Entry
  <2>1. p \in Peer /\ p \in demand /\ ~Unlisted(p) /\ ~Lapsed(Aged(d)[p])
    BY <1>1, <1>3
  <2>2. /\ Sane(Aged(d)[p]) /\ Alike(Aged(d)[p], entry[p])
        /\ Aged(d)[p].draining <=> entry[p].draining
    BY <2>1, AgedFacts
  <2>3. Held(p, Aged(d)[p])
    BY <2>1, <2>2, HeldAged DEF Holds
  <2> QED
    BY <1>2, <2>1, <2>2, <2>3, WorkRests DEF Sane
<1>5. \A p \in demand : Tended(p, work[p])
  <2>1. ASSUME NEW p \in demand, p \notin demand' PROVE Tended(p, work[p])
    BY <1>2, <1>3, <2>1, AgedFacts, RemovedTends
  <2>2. ASSUME NEW p \in demand' PROVE Tended(p, work[p])
    BY <1>4, <2>2 DEF Rested, Tended
  <2> QED
    BY <2>1, <2>2
<1>6. \A p \in Peer \ demand : entry'[p].draining <=> entry[p].draining
  BY <1>2 DEF PoolInv, TypeOK
<1>7. /\ Holds'
      /\ \A p \in Peer : LET s == entry'[p].session IN
            s # None =>
               \/ p \in demand /\ work[p].dialed = s /\ sess'[s].state = "connecting"
               \/ (p \in demand => work[p].dialed = None)
                  /\ ((Gone(s) /\ sess'[s].state = "gone") \/ sess'[s] = sess[s])
  BY <1>2, <1>3, <1>5, <1>6, CallHolds DEF PoolInv, Holds
<1>8. ASSUME NEW p \in demand' PROVE Quiet(p)'
  <2> DEFINE f == entry'[p]
  <2>1. f = work[p].e /\ f \in Entry
    BY <1>2, <1>3, <1>4 DEF PoolInv, TypeOK
  <2>2. member'[p] \in {"alive", "suspect"} /\ member'[p] = member[p] /\ addr'[p] = addr[p]
    BY <1>3, <1>4 DEF Unlisted, PoolInv, TypeOK, env
  <2>3. IdleTimeout # 0 => f.idleLeft > 0
    BY <1>4, <2>1 DEF Rested, Lapsed, Entry
  <2>4. member[p] = "alive" => addr[p] \in {None, f.endpoint}
    BY <1>4, <2>1 DEF Rested
  <2>5. CASE f.session = None
    <3>1. work[p].dialed = None
      BY <1>2, <1>4, <2>1, <2>5, PoolAssumption DEF Call, Sound, Reached, Fresh
    <3>2. f.retryIn > 0 /\ Held(p, f)
      BY <1>4, <2>1, <2>5, <3>1 DEF Rested
    <3>3. ~f.draining
      BY <2>5, <3>2, PoolAssumption DEF Held
    <3>4. ~f.owned /\ ~f.ready
      BY <1>8, <2>5 DEF PoolInv, Owned, OwnedAsDialed, ReadyIsAuthentic
    <3> QED
      BY <2>2, <2>3, <2>4, <2>5, <3>2, <3>3, <3>4 DEF Quiet
  <2>6. CASE f.session # None
    <3>1. CASE work[p].dialed = f.session /\ sess'[f.session].state = "connecting"
      <4>1. f.dialLeft > 0 /\ ~f.draining
        BY <1>4, <2>1, <2>6, <3>1 DEF Rested
      <4> QED
        BY <2>2, <2>3, <2>4, <2>6, <3>1, <4>1 DEF Quiet, OnSession
    <3>2. CASE /\ work[p].dialed = None
               /\ \/ Gone(f.session) /\ sess'[f.session].state = "gone"
                  \/ sess'[f.session] = sess[f.session]
      <4>1. OnSession(p, f)
        BY <1>4, <2>1, <2>6, <3>2 DEF Rested
      <4>2. ~Gone(f.session)
        BY <4>1 DEF OnSession, Authentic, Gone
      <4>3. sess'[f.session] = sess[f.session]
        BY <3>2, <4>2
      <4> QED
        BY <2>2, <2>3, <2>4, <2>6, <4>1, <4>3 DEF Quiet, OnSession, Authentic
    <3> QED
      BY <1>4, <1>7, <2>6, <3>1, <3>2
  <2> QED
    BY <2>5, <2>6
<1>9. Settled'
  BY <1>8 DEF Settled
<1> QED
  BY <1>7, <1>9

LEMMA NodeHolds ==
    ASSUME PoolInv, Holds, NEW s \in Sess, NEW x \in Session,
           sess' = [sess EXCEPT ![s] = x], entry' = entry,
           \/ x.state = "gone" /\ x.want = None
           \/ /\ sess[s].state = "connecting" /\ x.want = sess[s].want
              /\ x.cert \in {sess[s].want, Stranger}
           \/ x.state = "closing" /\ x.want = sess[s].want /\ x.cert = sess[s].cert
              /\ ~Gone(s)
           \/ s \in Fresh /\ x.want = None
    PROVE  Holds'
<1>1. sess'[s] = x /\ \A u \in Sess \ {s} : sess'[u] = sess[u]
  BY DEF PoolInv, TypeOK
<1>2. \A p \in Peer : s \in Fresh => entry[p].session # s
  BY FreshFacts DEF PoolInv
<1>3. Identified'
  BY <1>1 DEF Holds, Identified
<1>4. HeldInv'
  <2> SUFFICES ASSUME NEW p \in Peer
               PROVE  /\ entry[p].draining => /\ entry[p].session \in Sess
                                              /\ sess'[entry[p].session].state \in {"closing", "gone"}
                      /\ (entry[p].session # None /\ ~entry[p].owned) =>
                            \/ sess'[entry[p].session].state = "gone"
                            \/ sess'[entry[p].session].cert = p
    BY DEF HeldInv, Held, Gone
  <2>1. /\ Held(p, entry[p]) /\ entry[p].session \in Sess \cup {None}
        /\ p # None
    BY PoolAssumption DEF Holds, HeldInv, PoolInv, TypeOK, Entry
  <2>2. CASE entry[p].session # s
    BY <1>1, <2>1, <2>2 DEF Held, Gone
  <2>3. CASE entry[p].session = s
    <3>1. sess[s].state = "connecting" => sess[s].cert = None
      BY DEF PoolInv, Owned, Uncertified
    <3>2. s \notin Fresh
      BY <1>2, <2>3
    <3> QED
      BY <1>1, <2>1, <2>3, <3>1, <3>2 DEF Held, Gone
  <2> QED
    BY <2>2, <2>3
<1> QED
  BY <1>3, <1>4 DEF Holds

LEMMA SessionStepHolds ==
    ASSUME PoolInv, Holds, NEW s \in Sess,
           Handshake(s) \/ Drain(s) \/ Vanish(s) \/ \E p \in Peer : Incoming(p, s)
    PROVE  Holds'
<1>1. sess[s] \in Session /\ NoSession \in Session
  BY DEF PoolInv, TypeOK, NoSession, Session
<1>2. CASE Handshake(s)
  <2>1. PICK c \in {sess[s].want, Stranger} :
           sess' = [sess EXCEPT ![s] = [@ EXCEPT !.state = "ready", !.cert = c]]
    BY <1>2 DEF Handshake
  <2> DEFINE x == [sess[s] EXCEPT !.state = "ready", !.cert = c]
  <2>2. x \in Session /\ x.want = sess[s].want /\ x.cert = c
    BY <1>1 DEF Session
  <2>3. sess' = [sess EXCEPT ![s] = x]
    BY <2>1
  <2> HIDE DEF x
  <2> QED
    BY <1>2, <2>2, <2>3, NodeHolds DEF Handshake
<1>3. CASE Drain(s)
  <2> DEFINE x == [sess[s] EXCEPT !.state = "closing"]
  <2>1. x \in Session /\ x.state = "closing" /\ x.want = sess[s].want /\ x.cert = sess[s].cert
    BY <1>1 DEF Session
  <2>2. sess' = [sess EXCEPT ![s] = x] /\ ~Gone(s)
    BY <1>3 DEF Drain, Gone
  <2> HIDE DEF x
  <2> QED
    BY <1>3, <2>1, <2>2, NodeHolds DEF Drain
<1>4. CASE Vanish(s)
  <2>1. NoSession.state = "gone" /\ NoSession.want = None
    BY DEF NoSession
  <2> QED
    BY <1>1, <1>4, <2>1, NodeHolds DEF Vanish
<1>5. ASSUME NEW p \in Peer, Incoming(p, s) PROVE Holds'
  <2> DEFINE x == [NoSession EXCEPT !.state = "ready", !.cert = p]
  <2>1. x \in Session /\ x.want = None
    BY DEF NoSession, Session
  <2>2. sess' = [sess EXCEPT ![s] = x] /\ s \in Fresh /\ entry' = entry
    BY <1>5 DEF Incoming
  <2> HIDE DEF x
  <2> QED
    BY <2>1, <2>2, NodeHolds
<1> QED
  BY <1>2, <1>3, <1>4, <1>5

LEMMA InitWakes == Init => WakeInv
<1> SUFFICES ASSUME Init PROVE WakeInv
  OBVIOUS
<1>1. HeldInv
  BY DEF Init, HeldInv, Held, Blank
<1>2. Identified
  BY DEF Init, Identified, NoSession
<1>3. Settled
  BY DEF Init, Settled
<1> QED
  BY <1>1, <1>2, <1>3, InitPoolInv DEF WakeInv

LEMMA NextWakes == WakeInv /\ [Next]_vars => WakeInv'
<1> SUFFICES ASSUME WakeInv, [Next]_vars PROVE WakeInv'
  OBVIOUS
<1>1. PoolInv /\ PoolInv' /\ Holds
  BY NextOK DEF WakeInv, Holds
<1>2. CASE Next
  <2>1. \A d \in 0..MaxStep : d \in Nat
    BY PoolAssumption
  <2>2. ASSUME NEW p \in Peer, NEW d \in 0..MaxStep,
               Ensure(p, d) \/ EnsureUnlisted(p, d) \/ EnsureRefused(p, d)
        PROVE  Holds' /\ settled' = FALSE
    <3>1. Holds'
      BY <1>1, <2>1, <2>2, EnsureHolds, EnsureUnlistedHolds, EnsureRefusedHolds
    <3> QED
      BY <2>2, <3>1 DEF Ensure, EnsureUnlisted, EnsureRefused
  <2>3. ASSUME NEW d \in 0..MaxStep, Service(d) PROVE Holds' /\ Settled'
    BY <1>1, <2>1, <2>3, ServiceHolds
  <2>4. ASSUME NEW p \in Peer, Forget(p) PROVE Holds' /\ settled' = FALSE
    BY <1>1, <2>4, ForgetHolds DEF Forget
  <2>5. ASSUME NEW p \in Peer, Membership(p) \/ Readdress(p)
        PROVE  Holds' /\ settled' = FALSE
    BY <1>1, <2>5 DEF Membership, Readdress, Holds, HeldInv, Held, Identified, Gone
  <2>6. ASSUME Deinit PROVE Holds' /\ settled' = FALSE
    BY <1>1, <2>6, DeinitHolds DEF Deinit
  <2>7. ASSUME NEW s \in Sess,
               Handshake(s) \/ Drain(s) \/ Vanish(s) \/ \E p \in Peer : Incoming(p, s)
        PROVE  Holds' /\ settled' = FALSE
    <3>1. Holds'
      BY <1>1, <2>7, SessionStepHolds
    <3> QED
      BY <2>7, <3>1 DEF Handshake, Drain, Vanish, Incoming
  <2>8. settled' = FALSE => Settled'
    BY DEF Settled
  <2>9. Holds' /\ Settled'
    BY <1>2, <2>2, <2>3, <2>4, <2>5, <2>6, <2>7, <2>8 DEF Next
  <2> QED
    BY <1>1, <2>9 DEF WakeInv, Holds
<1>3. CASE UNCHANGED vars
  <2>1. HeldInv' /\ Identified'
    BY <1>1, <1>3 DEF vars, Holds, HeldInv, Held, Identified, Gone
  <2>2. Settled'
    BY <1>3 DEF vars, env, WakeInv, Settled, Quiet, OnSession, Authentic
  <2> QED
    BY <1>1, <2>1, <2>2 DEF WakeInv
<1> QED
  BY <1>2, <1>3

\* The inductive invariant of the pool's waiting.
THEOREM WakeInvariant == Spec => []WakeInv
<1> QED
  BY InitWakes, NextWakes, PTL DEF Spec

\* After a service pass no deadline is due (root.zig, nextDeadline): a caller
\* that sleeps until the next one does not spin.
THEOREM NoDeadlineDue == Spec => []NeverSpins
<1>1. WakeInv => NeverSpins
  <2> SUFFICES ASSUME WakeInv, settled, NEW t \in Deadlines PROVE t > 0
    BY DEF NeverSpins
  <2>1. \A p \in demand : Quiet(p) /\ p \in Peer /\ entry[p] \in Entry
    BY DEF WakeInv, Settled, PoolInv, TypeOK
  <2>2. ASSUME NEW p \in demand, entry[p].session = None PROVE entry[p].retryIn > 0
    BY <2>1, <2>2 DEF Quiet
  <2>3. ASSUME NEW p \in demand, entry[p].session # None, ~entry[p].ready, ~entry[p].draining
        PROVE  entry[p].dialLeft > 0
    BY <2>1, <2>3 DEF Quiet, OnSession
  <2>4. ASSUME NEW p \in demand, IdleTimeout # 0 PROVE entry[p].idleLeft > 0
    BY <2>1, <2>4 DEF Quiet
  <2> QED
    BY <2>2, <2>3, <2>4 DEF Deadlines
<1> QED
  BY <1>1, WakeInvariant, PTL

\* What a later pass would do to a quiet entry before its deadlines: nothing a
\* caller would notice.
LEMMA QuietSleeps ==
    ASSUME WakeInv, NEW p \in demand, Quiet(p), NEW d \in Nat, \A t \in Deadlines : d < t
    PROVE  LET e == Elapsed(entry[p], d)
               w == Refresh(p, e)
           IN  /\ ~Lapsed(e) /\ ~Seeks(w) /\ w.closed = {}
               /\ w.e.session = e.session /\ w.e.ready = e.ready
<1> DEFINE f == entry[p]
           e == Elapsed(f, d)
<1>1. p \in Peer /\ f \in Entry
  BY DEF WakeInv, PoolInv, TypeOK
<1>2. /\ e \in Entry
      /\ e.session = f.session /\ e.endpoint = f.endpoint /\ e.owned = f.owned
      /\ e.ready = f.ready /\ e.draining = f.draining
      /\ e.retryIn = Left(f.retryIn, d) /\ e.dialLeft = Left(f.dialLeft, d)
      /\ e.idleLeft = Left(f.idleLeft, d)
  <2>1. \A t \in Nat : Left(t, d) \in Nat
    BY DEF Left
  <2> QED
    BY <1>1, <2>1 DEF Elapsed, Entry
<1>3. \A t \in Nat : d < t => Left(t, d) > 0
  BY DEF Left
<1>4. IdleTimeout # 0 => d < f.idleLeft
  BY DEF Deadlines
<1>5. f.session = None => d < f.retryIn
  BY DEF Deadlines
<1>6. (f.session # None /\ ~f.ready /\ ~f.draining) => d < f.dialLeft
  BY DEF Deadlines
<1>7. /\ f.retryIn \in Nat /\ f.dialLeft \in Nat /\ f.idleLeft \in Nat
      /\ f.session \in Sess \cup {None}
  BY <1>1 DEF Entry
<1>8. ~Lapsed(e)
  BY <1>2, <1>3, <1>4, <1>7 DEF Lapsed
<1>9. f.session # None /\ sess[f.session].state = "connecting" => ~f.ready
  <2>1. f.ready => Gone(f.session) \/ sess[f.session].cert = p
    BY DEF WakeInv, PoolInv, Owned, ReadyIsAuthentic
  <2>2. f.session # None /\ sess[f.session].state = "connecting" => sess[f.session].cert = None
    BY <1>7 DEF WakeInv, PoolInv, Owned, Uncertified
  <2> QED
    BY <1>1, <2>1, <2>2, PoolAssumption DEF Gone
<1>10. /\ member[p] \in {"alive", "suspect"}
       /\ member[p] = "alive" => addr[p] \in {None, f.endpoint}
       /\ IF f.session = None THEN f.retryIn > 0 /\ ~f.owned /\ ~f.ready /\ ~f.draining
                              ELSE OnSession(p, f)
  BY DEF Quiet
<1> HIDE DEF f, e
<1>11. Work(e).e = e /\ Work(e).closed = {} /\ Work(e) \in Works
  BY <1>2 DEF Work, Works
<1>12. CASE f.session # None
  <2>1. Follow(p, Work(e)) = Work(e)
    BY <1>2, <1>10, <1>11, <1>12 DEF Follow, Moved
  <2> DEFINE w == Check(p, Work(e))
  <2>2. w.e.session = e.session /\ w.e.ready = e.ready /\ w.closed = {}
    <3>1. CASE Authentic(p, f.session) /\ f.ready
      <4>1. w = [Work(e) EXCEPT !.e = [e EXCEPT !.ready = TRUE, !.draining = FALSE,
                                                !.backoff = 0]]
        BY <1>2, <1>11, <1>12, <3>1 DEF Check, Authentic
      <4> DEFINE g == [e EXCEPT !.ready = TRUE, !.draining = FALSE, !.backoff = 0]
      <4>2. g.session = e.session /\ g.ready = TRUE
        BY <1>2 DEF Entry
      <4> HIDE DEF g, w
      <4>3. w.e = g /\ w.closed = {}
        BY <1>11, <4>1 DEF Works, g
      <4>4. e.ready = TRUE
        BY <1>2, <3>1 DEF Entry
      <4> QED
        BY <4>2, <4>3, <4>4
    <3>2. CASE sess[f.session].state = "closing" /\ ~f.ready
      <4>1. w = [Work(e) EXCEPT !.e = [e EXCEPT !.ready = FALSE, !.draining = TRUE]]
        BY <1>2, <1>11, <1>12, <3>2 DEF Check, Authentic
      <4> DEFINE g == [e EXCEPT !.ready = FALSE, !.draining = TRUE]
      <4>2. g.session = e.session /\ g.ready = FALSE
        BY <1>2 DEF Entry
      <4> HIDE DEF g, w
      <4>3. w.e = g /\ w.closed = {}
        BY <1>11, <4>1 DEF Works, g
      <4>4. e.ready = FALSE
        BY <1>2, <3>2 DEF Entry
      <4> QED
        BY <4>2, <4>3, <4>4
    <3>3. CASE sess[f.session].state = "connecting" /\ ~f.draining
      <4>1. e.dialLeft > 0
        BY <1>2, <1>3, <1>6, <1>7, <1>9, <1>12, <3>3
      <4>2. w = Work(e)
        BY <1>2, <1>11, <1>12, <3>3, <4>1 DEF Check, Authentic
      <4> QED
        BY <1>11, <4>2
    <3> QED
      BY <1>10, <1>12, <3>1, <3>2, <3>3 DEF OnSession
  <2> HIDE DEF w
  <2>3. Refresh(p, e) = w
    BY <1>2, <1>12, <2>1, <2>2 DEF Refresh, w
  <2> QED
    BY <1>2, <1>8, <1>12, <2>2, <2>3 DEF Seeks, e, f
<1>13. CASE f.session = None /\ ~Moved(p, e)
  <2>1. Follow(p, Work(e)) = Work(e)
    BY <1>11, <1>13 DEF Follow
  <2>2. Check(p, Work(e)) = Work(e)
    BY <1>2, <1>11, <1>13 DEF Check
  <2>3. e.retryIn > 0
    BY <1>2, <1>3, <1>5, <1>7, <1>13
  <2>4. Refresh(p, e) = IF member[p] = "suspect"
                        THEN [Work(e) EXCEPT !.e = [e EXCEPT !.retryIn = RetryInitial]]
                        ELSE Work(e)
    BY <1>2, <1>11, <1>13, <2>1, <2>2 DEF Refresh
  <2> DEFINE g == [e EXCEPT !.retryIn = RetryInitial]
             w == Refresh(p, e)
  <2>5. g.session = e.session /\ g.ready = e.ready /\ g.retryIn > 0
    BY <1>2, PoolAssumption DEF Entry
  <2>6. w.e \in {e, g} /\ w.closed = {}
    BY <1>11, <2>4 DEF Works
  <2> HIDE DEF g, w
  <2>7. /\ ~Seeks(w) /\ w.closed = {} /\ w.e.session = e.session /\ w.e.ready = e.ready
    BY <2>3, <2>5, <2>6 DEF Seeks
  <2> QED
    BY <1>8, <2>7 DEF w, e, f
<1>14. CASE f.session = None /\ Moved(p, e)
  <2>1. member[p] = "suspect" /\ addr[p] \in Addr
    <3>1. addr[p] \in Addr \cup {None}
      BY <1>1 DEF WakeInv, PoolInv, TypeOK
    <3> QED
      BY <1>2, <1>10, <1>14, <3>1 DEF Moved
  <2> DEFINE v == IF e.endpoint = None THEN Work(e) ELSE Release(Work(e))
             u == Follow(p, Work(e))
  <2>2. /\ v \in Works /\ v.closed = {} /\ v.e.session = None /\ ~v.e.ready
    BY <1>2, <1>10, <1>11, <1>14, ReleaseFacts
  <2>3. u = [v EXCEPT !.e = [@ EXCEPT !.endpoint = addr[p], !.retryIn = 0, !.backoff = 0]]
    BY <1>11, <1>14 DEF Follow
  <2> HIDE DEF v, u
  <2>4. /\ u \in Works /\ u.closed = {} /\ u.e.session = None /\ u.e.ready = v.e.ready
    <3> DEFINE g == [v.e EXCEPT !.endpoint = addr[p], !.retryIn = 0, !.backoff = 0]
    <3>1. g \in Entry /\ g.session = None /\ g.ready = v.e.ready
      BY <2>1, <2>2 DEF Works, Entry
    <3>2. u = [v EXCEPT !.e = g]
      BY <2>3
    <3> HIDE DEF g
    <3> QED
      BY <2>2, <3>1, <3>2 DEF Works
  <2>5. Check(p, u) = u
    BY <2>4 DEF Check
  <2>6. Refresh(p, e) = [u EXCEPT !.e = [u.e EXCEPT !.retryIn = RetryInitial]]
    BY <2>1, <2>4, <2>5 DEF Refresh, u
  <2> DEFINE g == [u.e EXCEPT !.retryIn = RetryInitial]
             w == Refresh(p, e)
  <2>7. g.session = None /\ g.ready = u.e.ready /\ g.retryIn > 0
    BY <2>4, PoolAssumption DEF Entry, Works
  <2> HIDE DEF g
  <2>8. w.e = g /\ w.closed = {}
    BY <2>4, <2>6 DEF Works, g
  <2>9. e.ready = FALSE /\ v.e.ready = FALSE
    BY <1>2, <1>10, <1>14, <2>2 DEF Entry, Works
  <2> HIDE DEF w
  <2>10. w.e.ready = e.ready
    BY <2>4, <2>7, <2>8, <2>9, Zenon
  <2>11. ~Seeks(w) /\ w.closed = {} /\ w.e.session = e.session
    <3>1. w.e.retryIn # 0
      BY <2>7, <2>8
    <3> QED
      BY <1>2, <1>14, <2>7, <2>8, <3>1 DEF Seeks
  <2> QED
    BY <1>8, <2>10, <2>11 DEF w, e, f
<1> QED
  BY <1>12, <1>13, <1>14

\* A caller may sleep until nextDeadline: while nothing it reads changes, no
\* pass before it would do anything (root.zig, service and nextDeadline).
THEOREM SleepIsSafe == Spec => []SleepsSafely
<1>1. WakeInv => SleepsSafely
  <2> SUFFICES ASSUME WakeInv, settled, NEW d \in 0..MaxStep, \A t \in Deadlines : d < t,
                      NEW p \in demand
               PROVE  LET e == Elapsed(entry[p], d)
                          w == Refresh(p, e)
                      IN  /\ ~Lapsed(e) /\ ~Seeks(w)
                          /\ w.closed = {}
                          /\ w.e.session = e.session /\ w.e.ready = e.ready
    BY DEF SleepsSafely
  <2>1. d \in Nat /\ Quiet(p)
    BY PoolAssumption DEF WakeInv, Settled
  <2> QED
    BY <2>1, QuietSleeps
<1> QED
  BY <1>1, WakeInvariant, PTL
=============================================================================
