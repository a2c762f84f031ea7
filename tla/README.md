# Verification of qmesh-zig

TLA+ models of the qmesh gossip mesh, their TLC runs and their TLAPS proofs.
Sources are named relative to the repository (`src/swim.zig` is the membership
protocol). `PROJECT.json` maps every definition to the lines it models, and
lists the runs, the deviations that show each property can fail, the hazards,
the findings and the theorems.

## 1. The system

Every node runs three protocols, each a pure state machine (explicit clock and
random source, effects returned in bounded lists), multiplexed by a driver on
QUIC sessions.

| Part | State | Operations | Hard behaviours | What makes it correct |
|---|---|---|---|---|
| Membership table, `src/swim.zig` | up to 1024 rows: state, incarnation, address with the evidence that supplied it | observe, observeAuthenticated, noteSessionAlive, apply | claims in any order, address evidence older or weaker than what is held, full table | a row is the strongest claim ever made, rows only rise, addresses are never lost or redirected by stale gossip |
| SWIM failure detector, `src/swim.zig` | own incarnation, one probe, nonces, 4 relays, ring of 8 events, suspicion windows, local health, buddies, corroboration | tick (probe, PING_REQ, suspect, confirm, relay expiry), handle (ping, ack, ping_req, alive, suspect, confirm) | lost and late messages, timers racing answers, restarts at incarnation 0, evidence that bypasses the lattice | no suspicion without two failed phases, confirm only a suspected incarnation, refutation works, live peers end up alive, crashed ones dead |
| HyParView overlay, `src/hyparview.zig` | active and passive views, pending join, proposals, round-trip ranking | startJoin, session up/down, six messages, tick | proposal timing out as it is accepted, lost DISCONNECT, eviction at a full view | views disjoint and bounded, edges end up symmetric and backed by sessions |
| Plumtree broadcast, `src/plumtree.zig` | eager and lazy peers, seen and payload rings, missing and requested ids, pending digests, deliveries | publish, handle (gossip, ihave, iwant, prune), tick | lost eager copy, ring eviction, graft racing the payload | delivered once while remembered, eventually everywhere, eager and lazy disjoint |
| Node driver, `src/node.zig` | the three machines, event ring | handleWire, publish, session up/lost, tick | the three learn of a peer's loss at different moments | broadcast peers follow the active view, dead members leave both |
| Endpoint, `src/quic/endpoint.zig` | connections, sessions, HELLO progress, dials | connectPeer, service, handleHello, adoptSession, dropSession | simultaneous dials, replacement before HELLO, close racing resurrection | both ends keep the same connection, each session is reported up and lost once |
| Session pool, `src/composition/root.zig` | entries: session, ownership, ready, draining, retry and idle times | ensure, service, forget, nextDeadline | dial timeout, suspicion, endpoint change and drain interleaving | only own sessions closed and none leaked, ready only with the right identity |
| Runner, `src/quic/loop.zig` | clock, sockets, park/wake | step, run, park | missed wake | no deadline overslept |
| Examples, `examples/` | replicated snapshot state, chaos plans | apply, recover | stale revisions | revisions only grow |
| Qualification tooling, `tools/check-composition.py` and the scripts of `evidence/sprint-4-2026-10-26/` | reports, gate records and logs, package, index, container, verification | gate run, packaging, composition run, isolated checkpoint, final acceptance | trees edited under a run, interrupts, time limits, processes that outlive their command, evidence replaced after it was read | what a report or the verification says is true of the sources it names; the checkpoint ends |

The driver calls `swim.observeAuthenticated` and `overlay.onSessionUp` when a
session comes up, `overlay.onSessionDown` and `broadcast.removePeer` when it is
lost (the failure detector hears nothing of a loss), and on every tick pushes
dead members out of the overlay and the tree. A probe's `connect` effect asks
the endpoint for a session. The endpoint closes sessions to members held dead.
The pool reads the table through `member(peer)`. The qualification scripts know
the library only as trees to build and test; they talk to each other through
files and exit codes.

## 2. Plan

In order.

1. `SwimLattice`, `SwimTable`, `SwimTableProofs`: the table of one node, the
   abstract promise of the membership protocol, and its proofs. *Done.*
2. `Swim`: the whole protocol between nodes, with losses, crashes, restarts.
   *Done,* except what only sets timers.
3. `SessionPool`, `SessionPoolProofs`: the pool of application sessions and
   the proof of its ownership. *Done.*
4. `CompositionGate`, `Checkpoint`, `Qualification`: the qualification tooling,
   bottom up. *Done,* the gates' own content excepted.
5. `Broadcast`, `Plumtree`, `PlumtreeProofs`: the broadcast tree over lossy
   sessions, and the abstract broadcast it implements. *Done,* restarts of the
   epoch excepted.
6. `HyParView`: the overlay on every node with the part of the driver that acts
   around it. *Done,* the ranking excepted.
7. `Sessions`, `SessionsProofs`: simultaneous dials between two endpoints, and
   the proof that each keeps one session and its node knows of it. *Done,*
   what travels on a session excepted.
8. `SwimRefinesTable`: the table of each node of `Swim` implements `SwimTable`
   without addresses (refinement mapping: the rows of one node; history: the
   claims it handled).
9. `SuspicionWindow`: corroboration, local health, buddies and the window of a
   standing suspicion in ticks.
10. `NodeDriver`: the three protocols of one node in one state.
11. Proofs: the safety of `Swim` and `SwimTable`, of the pool, the endpoints,
    the overlay, the tree (with its refinement) and the qualification scripts.

Stages 8 to 10 are left; stage 11 covers every safety property the runs check
(section 5).

## 3. Modules

**`SwimLattice`** - states, claims, and when a claim replaces an entry
(`apply`, `lattice`, `stateRank`). A peer without a row is "absent", below
everything.

**`SwimTable`** - one node's table. An action is one call that can change it:
the three kinds of event through `apply`, `observe`, `observeAuthenticated`
(with the `noteSessionAlive` it calls), the two overrides of the message
handler (a PING from a member held dead, the ACK of the probed member), and the
two changes of `self_incarnation`. `member` is the array of rows, indexed by
peer; the order of the array matters to nothing here. `heard` is history: every
claim made about a peer since it has a row. Timestamps, the round-trip average
and the descriptor's id are left out.

**`Swim`** - all nodes. `node[n]` is the `Swim` record: `inc` is
`self_incarnation`, `table` the rows' state and incarnation, `ring` the
piggyback ring with its oldest event first (`takePiggyback` sends the oldest
`piggyback_max` of the 8), `probe`, `nonce` and `relays` their namesakes.
Handlers are functions from the record to the record and the messages it
sends, so an action is a whole call: `Tick` (probe step, then a confirmation,
then relay expiry), one `Receive...` per message, `SessionUp` for
`observeAuthenticated` on a new session. Addresses and capacity belong to
`SwimTable`. `msgs` is the ephemeral traffic in flight: delivered in any order,
lost by `Lose`. Two equal messages in flight are one, and none is delivered
twice: QUIC datagrams are not duplicated. Two fields of a message are history,
read by properties and by `Prompt` only: `for` is the node whose probe it serves,
`by` of an ACK who answered. `Crash` stops a process,
`Restart` starts it with the memory of `init`.

Time is not modelled: a tick finds any timer due or not due, and any suspicion
window over or not. That covers every profile, local health, corroboration and
round-trip budgets. `Prompt` adds what configurations are made for: a timer of
a probe or relay is not due while a message of that probe is still in flight.
Every instance counts nonces from 1 at every node, as `init` does.

**`SessionPool`** - the pool. `demand` are the peers with an entry, `entry` the
`Entry` records by peer (their order in the array matters to nothing), with
times relative to the pool's clock: `retryIn`, `dialLeft`, `idleLeft` stand for
`retry_at_us`, `dial_started_us`, `last_used_us`. An action is one call:
`Ensure` and its two error paths, `Service` over all entries at once, `Forget`,
`Deinit`. `Refresh` is `refresh` up to the point where it looks for a session,
`Connect` the rest, given what `findReady` or `dial` answers. The environment
acts between calls: `member` and `addr` are what `mesh.member` and the resolver
answer; `sess` are the Node's sessions, which shake hands (with the identity
wanted or a stranger's), drain, vanish or come in. `want` records for which
peer the pool dialed a session and is how leaks and foreign sessions are told.
Closing succeeds and takes effect at once. A call with an earlier time changes
nothing and is left out.

**`Sessions`** - the endpoints of one pair of nodes (pairs share no state).
`local[n]` is an endpoint: `phase` the state of its session on each connection
("dialing" and "bound" are `connecting` before and after the peer is known),
`byPeer` its entry of `by_peer`, `told` what its node was last told of the
session, `dead` whether its failure detector holds the peer dead; `replaced` is
history. `CloseSession`, `Adopt` and `Established` are the functions of the
code on that record. `Dial` is `connectPeer`; `BindDial` is the service pass
that finds a dial finished, with the HELLO it sends; `Accept` runs while the
server is fed packets, its HELLO follows in a service pass (`SendHello`);
`NoticeClose` and `CloseDead` are the two ways a service pass closes a session.
A handshake finishes at the dialing end first, and may still be accepted after
that end closed. `Break` is any failure of one end, abandoned dials and refused
identities included. `Restart` is a process with empty memory: what it had is
over, a dial that has no answer yet is answered by the new process. Connections
are taken again when both ends are through with them. Left out: what travels on
a session, its outboxes and receive tables, and a failed allocation.

**`HyParView`** - the overlay of every node. `view[n]` is its active and passive
view, its open proposals and its attempts at joining; `link` are the sessions
that work, `up` what a node has been told of them, `dials` the `connect` effects
under way. Messages between two nodes form a queue (`net`): JOIN, JOIN_ACK and
NEIGHBOR_ACCEPT go over streams, the others may be lost or overtake (`Lose`,
`Overtake`). Handlers are operators that give the set of views that may come of
a view, because evictions and samples are drawn at random. What `node.zig` does
around them is part of the actions: `member` and `gone` are the members of the
failure detector and those it holds dead, `Connect` and `SessionDown` the calls
at session events, `Sweep` the pass over the members at the end of a tick. A
verdict of death changes `gone` only, and, if it falls in a tick of the node
(`Confirm`), the views at the end of that tick; one heard from others
(`HearConfirm`) reaches them at the next tick. The session is closed by a later
service pass (`CloseDead`), and the other end learns of that in its own time.
Simplified: the ranking by round-trip time is off (its default); a session comes
up at both ends at once, and two nodes connect again only after both noticed the
loss; a node learns of members through sessions only; an urgent proposal is
never rejected, so NEIGHBOR_REJECT, which answers only the others, is never
sent; a descriptor is its sender's.

**`Broadcast`** - what the tree promises: only published messages are
delivered, and none that is among the last `Window` the node saw.

**`Plumtree`** - the tree on every node. `eager`, `lazy`, `seen`, `cache`,
`missing`, `asked`, `pending` are its namesakes in `plumtree.zig` (`asked` is
the table of outstanding requests, in which a request may stand more than once);
`log` is history. `Receive` is `handle`, split by message; `Flush`, `Ask`,
`Lapse` and `Exchange` are the parts of `tick`, so that a tick at which several
timers are due is several steps. Any message may be lost: datagrams by the
network, the gossip that answers a request with the stream it goes over, which
nobody retries. `Queue` keeps the cap on pending announcements (`MaxPending`,
64) and `Ask`, `Flush` and `RecentIds` that on the ids of a message (`MaxIds`,
16, while 32 payloads are held). `Promise` instantiates `Broadcast` with the
size of the seen ring as the window. Left out: the caps of 32 lazy peers and 64
deliveries, the order of ids within a batch, and a restart, which would begin a
new epoch of ids. Identical messages in flight are one.

**`CompositionGate`** - one run of `tools/check-composition.py`, for a set of
repositories and a list of checks. `gate.report` is `report.json`, `used` is
history: what each repository held when the staging or a check read it. A check
of the released pins (`OnPins`) reads their package from `zig-pkg` (`Pins`) as
well, which is identified when it is fetched and never again: what it held then
is recorded as "unknown", and the properties say that they promise nothing of it.
A kill may leave the report torn. `ReportTrue` says what a report may claim.

**`Checkpoint`** - `linux-checkpoint-launcher.py` on the host, its docker
client, the container and `container-checkpoint.py` in it, around one
`CompositionGate` per build mode. `group[m]` are the processes alive of mode
`m`: a command may return, ignore TERM, or leave a child behind that goes on
writing to the workspace. The inner time limit is followed by TERM, a grace and
KILL of the group, the launcher's by the removal of the container. Nobody looks
whether `docker rm` removed anything: `RemoveContainer` may leave the container
as it is and go on to the result, and `left`, which is history, remembers that.
`Host` and `Container` are the two processes, for their fairness. The collection
of the evidence and the copies are taken as they succeed or fail as a whole.

**`Qualification`** - everything around it: people edit code and documents and
freeze the trees; `run-gate.py`, `make-package.py` and the two
`finalize-evidence.py` work as the sources say. A command of `run-gate.py` may
leave a child behind however it ends, by a normal return as well (`Leaves`). One
script runs at a time, in the order producer, host, Linux, and nobody goes on
beside a container that stayed. One composition run on the host stands for the
two the final script reads, which it treats alike. No edit restores an earlier
content, so that an identity taken before and after a read shows whether the
content changed between: an edit that is undone in time is invisible to the
scripts too.

**`MCSwimTable`**, **`MCSwim`**, **`MCSessionPool`**, **`MCSessions`**,
**`MCHyParView`**, **`MCPlumtree`**, **`MCQualification`** - constants and
symmetry of the instances.

**`SwimLatticeProofs`** (lemmas about `SwimLattice`), **`SwimTableProofs`**,
**`SwimProofs`**, **`SessionPoolProofs`**, **`SessionsProofs`**,
**`HyParViewProofs`**, **`PlumtreeProofs`**, **`QualificationProofs`** - the
theorems about the module each is named for.

## 4. Runs

| Run | Instance | Shows |
|---|---|---|
| `swim_table` | 2 peers for 1 row, incarnations 0..2, 2 addresses | the lattice, contact and capacity properties of the table |
| `swim_loss` | 3 nodes, two probing, 3 probes each, 5 messages in flight, 1 loss, `Prompt` | until two probes with one nonce are under way, one lost message makes nobody suspect anybody; an ACK that ends a probe is genuine or serves another node's probe of that nonce |
| `swim_churn` | 3 nodes, one probing once, timers free, 3 messages in flight, 1 crash, 1 restart, incarnations 0..2 | no own row, gossip never ahead of the table, rows rise, confirm only what was suspected |
| `swim_live` | 3 nodes, one probing for ever, 1 loss, 1 crash, `Prompt` | live peers held alive for good, the crashed one dead for good |
| `swim_return` | 2 nodes, 2 losses, 1 crash, 1 restart, `Prompt` | a peer back at incarnation 0 is held alive for good |
| `swim_nonce` | 3 nodes, all probing, 2 probes each, 1 loss, `Prompt` | *violated*: every ACK that ends a probe is its target's answer; one ends the probe of another target |
| `swim_refute` | 3 nodes, 2 probing, timers free, sessions re-established | *violated*: a refutation that does not win |
| `pool` | 2 peers, 1 entry, 2 session ids, 2 endpoints, idle eviction | ownership, routes, drains, dials and wakeups of the pool |
| `sessions` | 2 endpoints, 3 connections, 2 faults | one session per pair, which the node knows of, and in the end the same one at both ends |
| `plumtree` | 3 nodes, 1 publisher, 2 messages, rings of 2, 1 id per message, 1 missing id, 1 request, 2 pending announcements, 2 faults | the tree implements the abstract broadcast; every message reaches every node, unless a time comes when no exchange names it |
| `hyparview` | 3 nodes, one with room for 1 neighbour, the others for 2, 1 passive peer, 1 proposal, 2 hasty steps or 1 fault (a wrong verdict in a tick or heard is one) | views disjoint and bounded, active edges backed by sessions, no node alone for good |
| `qualification` | 2 repositories, 1 gate run twice, 2 host checks, 2 modes, 1 edit | reports and the verification are true of the frozen sources, a mode that timed out is over, the host's result is final or of a container docker left, the checkpoint ends |

**Why the bounds are enough.** Two peers and one row are what capacity needs;
row properties are per peer, and three incarnations give a claim room below, at
and above a row. Three nodes are prober, target and helper. In `swim_loss` both
probers count from 1, so probes of one nonce do meet: three probes each let one
node be ahead, with its probes and relays overlapping the other's of different
nonces, and a behaviour is judged up to the first clash. A second lost message
would be one more than the cluster has helpers, and does make a node suspected.
A ring of two events of which one travels shows eviction and the oldest-first
choice; a relay table of one shows its eviction. In `swim_churn` nothing need be
lost: a message that stays in flight is one. In `swim_live` and `swim_return`
the largest incarnation reached lies below `MaxInc` (raising `MaxInc` adds no
state), so that bound never blocks a step; the bound on messages in flight can,
which is why the fairness of ticks is strong. `NonceSpan` bounds probes;
`RecycleNonce` lifts that bound for the liveness runs, and with `Prompt` a nonce
comes back only when no message of its earlier use is left. Every bound is a
guard of `Commit` or of the action it limits, never a state constraint. In the
pool one entry competes with two peers for room, and two session ids are a
dialed session and one that came in, or the closed and the new one of an
endpoint change. That entries refreshed by one service pass do not disturb each
other is left to the proofs, which have any number of entries. Timeouts of one
or two units with steps of at most one let each timer run out before, at and
after each other event.

In `sessions` three connections are one dialed by each side and one that is
not over yet at the other end; two faults are, for instance, a verdict that
closes the session while the next dial breaks.

In `plumtree` two messages compete for one missing id and one request, so both
tables fill; two faults are, for instance, an eager copy and the announcement
lost, or a session broken while a timer races its answer. Two messages fit the
rings: the run never evicts, so what happens after an eviction is left to the
proof, which has no bounds. An exchange names one id of the two held, as the
code's 16 of 32: a message whose gossip and announcement are lost, and which a
later one displaces from the exchanges, stays at those who have it for ever.
`Repaired` therefore promises nothing once no node names the id; "unless no node
holds its payload any more" is violated. An exchange while messages are in
flight is a fault (its period is seconds). In `hyparview` the node with room for
one has to evict at every join, and three nodes are a joiner, its contact and a
walk's end. A timer that does not wait for the messages in flight is a step in
haste (`MaxHaste`) or, for a timeout, a fault (`MaxFaults`); one behaviour has
the one or the other. In `qualification` one edit can fall between any two
steps, a second run of a gate supersedes the first, and a stray process of the
first mode meets the second; the repository it may write to is the transport's.
A verdict of death and the close of its session are two steps of `hyparview`,
with everything else between them.

**Fairness** (`FairSpec`). A node that probes keeps ticking, and its probe
timers and suspicion windows run out: the runner ticks at every deadline. Every
member is probed again and again: `startProbe` rotates over the members, and
`dead_probe_every` (8 by default, 0 would switch it off and void the
assumption) gives dead members their turn. A message that is not lost is
delivered. Nothing is assumed of sessions, crashes, restarts and losses.

`Sessions` assumes that both loops go on, that packets arrive in the end on a
connection that does not break, and that one of the two dials while it has no
session: join retries, proposals and the probes of dead members emit `connect`.
That a close is noticed is the wire's CLOSE or the idle timeout. Nothing is
assumed of a handshake whose dialing end has closed, and nothing says that a
verdict of death is lifted but by a HELLO.

The pool is only checked for safety: nobody has to call it.

`Plumtree` and `HyParView` state what the timers achieve, not that they
fire: a bare weak fairness of a timer that waits for a quiet network would say
nothing while traffic goes on. The ticks justify it: pending digests are
flushed, a missing id is asked for or forgotten, a request and a proposal lapse,
a node below `ActiveMin` proposes while it has a candidate, the exchange picks a
random neighbour at its period, a dial ends. Messages are delivered unless
lost. `HyParView` also counts on the failure detector to probe its members and
on the sweep to offer them to the overlay.

`HyParView` assumes further that service passes go on, which close the sessions of
members held dead.

`Qualification` assumes of the launcher and of the container that each goes on
with its next step (`Host`, `Container`), time limits included. No gate and no
check is assumed to return, and no process to heed a signal it may ignore.
`CheckpointEnds` needs the inner limits: a launcher interrupted before its
client created the container, or whose removal fails, leaves one that nobody
removes, and that runs until its script ends. Removal is never assumed to work.

**Deadlock.** A tick that finds nothing due leaves a running node as it is, so
no state of `Swim` is stuck; `SwimTable` always accepts a claim;
the pool can always be asked to `Service`; a node can always exchange ids with a
peer, or connect to one, in `Plumtree`, and a node that is up always sweeps in
`HyParView`. A qualification ends, and two endpoints that hold a session have
nothing left to do once the faults are used up, so `qualification` and
`sessions` do not check deadlock.

## 5. What is proved

About `SwimTable`, for every set of peers (finite), addresses, capacity and
incarnation bound (`SwimTableProofs`):

* `TableInvariant`: types, `RowIsStrongestClaim`, `ContactSound`, and that an
  absent row is blank. The conjunction is inductive: that a row is the
  strongest claim needs the claims to be claims, the contact part needs rows
  that are absent to carry no address. Each action is shown to move one row
  *as the lattice does* (`RowStep`: up, covering the claims made, contact
  sound), and `RowStepKeeps` turns that into the invariant and the action
  properties. The heart is `SupersedesIsStrict`: a rejected claim was already
  known.
* `SameClaimsSameRow`: two rows that heard the same claims agree on state and
  incarnation, the convergence the module comment of `swim.zig` promises. It
  does not extend to addresses: the last accepted ALIVE wins there.
* `KnowledgeGrows`, `AddressesKept`, `AuthenticatedAddressesStand`: the action
  properties, from the same step lemma.
* `CapacityKept`: only a peer that has a row, or a table with room, gains one.

About `Swim`, for every set of nodes, every assignment of nonces and all bounds
(`SwimProofs`; the assumption is `SwimConstants`). A handler is a function of a
node's record, so the argument is about one record: `Serves` says what a handler
may make of it (its ring is true of its table, rows only rise, and a row that
turns dead was confirmed by an event the handler was told or decided). `Serves`
composes, each handler is shown to serve, and `Commit` turns an outcome into a
step. The events of a frame are a function over their positions; `Counting`, the
least number principle for a set, stands in for the induction.

* `Invariance`: `NodeOK` of every record and `MsgOK` of every message. That no
  node has a row about itself needs that no probe targets and no relay answers
  the node itself, and that no message goes from a node to itself.
* `TypeCorrect`, `NotOwnMember` (`NeverOwnMember`), `RingHeldTrue`
  (`GossipHeldTrue`) from the invariant; `TablesRise` (`TablesOnlyRise`) and
  `ConfirmsAreWarranted` (`ConfirmNeedsSuspicion`) from the step lemma.
* `AcksAreGenuine` (`OwnEvidenceGenuine`), where nodes are not restarted and do
  not use a nonce twice (`OneLife`), wherever they count from: an ACK that ends
  a probe is its target's answer, or was asked for by another node that drew the
  same nonce. `NInv` ties a message in flight, whoever relayed it, to the one
  probe of the node it serves (`for`) and to that probe's target. So the nonces
  of two nodes meeting is the only way to be deceived, and `swim_nonce` shows
  that way taken: `init` starts every node at nonce 1.
* `FewLossesAreHarmless` (`LossNeverSuspects`), where nobody crashes, timeouts
  exceed the delays, the cluster is finite, and losses are no more than the
  other nodes a probe can ask, than `Fanout` and than `RelayCap` (`FewLosses`;
  the run `swim_loss` is an instance). Nonces are counted from anywhere; the
  theorem is about the behaviours in which two probes of one nonce are never
  under way together (`NoncesClash`), which is a condition on the behaviour and
  no assumption on the constants. `Undivided` is what the step lemma takes from
  it: what bears the nonce of an outstanding probe serves that probe. So with
  the code's 3 helpers and 4 relays up to three losses among five nodes are
  harmless; a fourth can take the PING and every PING_REQ, and with fewer relays
  than losses a request can evict the one that was still needed.
  * `Handover` says what a handler makes of the exchanges: a relay still of use
    stays, a probe goes on, ends, starts, or asks enough helpers, and each
    message is answered or passed on. There is one lemma per handler
    (`OnPingHandover` to `TickHandover`), about a record; `HandsOver` is such a
    step of the cluster.
  * `LInv` is inductive. A set `L` accounts for the losses (`Accounted`): one
    element for each exchange in trouble (its direct probe is carried by
    nothing, or its helpers were asked), and one for each of `MaxLoss` helpers
    of an indirect probe that neither has the PING_REQ, nor relays the PING or
    its ACK, nor has answered. With at most `MaxLoss` elements, `L` leaves a
    helper (`HelpedInTransit`: the probe's timer is not due) and room in every
    relay table (`RelayFits`).
  * `RequestsOwned` and `RequestsOnce` make a message tell the one helper its
    loss takes away: requests bear nonces their prober issued, no helper is
    asked twice, and nobody is asked for a direct probe.

About `SessionPool`, for all peers, session ids, endpoints and options that
`init` accepts (`SessionPoolProofs`):

* `PoolInvariant`: `TypeOK`, `NoSessionLeaked`, `OwnedAsDialed`,
  `ReadyIsAuthentic`, and that a connecting session has shown no identity
  (without it, a route could turn false when a handshake ends). No leak needs
  owned sessions to be those dialed for the entry (else closing one could orphan
  another), which needs entries not to share fresh ids.
* The argument: each stage of a refresh is `Reached` (the session is kept, or
  dropped and closed if owned), a whole refresh or removal is `Sound`, and
  `CallKeeps` turns sound work on any set of entries into the invariant and the
  two action properties. Each call of the pool is such work.
* `NothingLeaked`, `RoutesAsDialed`, `RoutesAuthentic`, `PoolTypeCorrect` from
  the invariant; `AdoptedStay` (`OnlyOwnClosed`) and `DialsGoToTheLiving`
  (`DialsOnlyAlive`) from the step lemma.
* `RoutesKept` (`EstablishedKept`): `RefreshKeeps` follows an established or
  draining session through the stages of a refresh; `NextKeeps` adds that a
  call only ages the other entries.

* `WakeInvariant`: what the pool waits for. A session an entry drains is closing
  or gone, one it adopted shows its peer's identity or is gone (`Held`); a
  session the pool dialed shows the identity wanted or a stranger's
  (`Identified`: otherwise another entry could close a session this one
  adopted); after a service pass every entry is in order or has time left
  (`Quiet`).
* `NoDeadlineDue` (`NeverSpins`): from `Quiet`. `SleepIsSafe` (`SleepsSafely`):
  an entry whose deadlines lie ahead, and whose sessions are what it holds them
  to be, refreshes into itself.

About `Sessions`, for any connections and any number of faults
(`SessionsProofs`):

* `SessionsInvariant`: types, each endpoint `Sound`, and only connections whose
  handshake is finished are held (so that a dial that outlives a restart of its
  peer is not one). `Sound` adds to the two properties below that no established
  session stands in for a replaced one; without it, reporting the loss of an
  established session could leave the node told of nothing it was owed.
  An endpoint changes by closing, adopting or establishing a session;
  `CloseSound`, `AdoptSound` and `EstablishedSound` each keep it sound, and the
  steps follow.
* `AtMostOneSession` (`OnePerPair`), `NodeKnows` (`NodeInformed`) and
  `SessionsTypeCorrect` from the invariant.

About `HyParView`, for any finite mesh, any sizes and any number of faults and
hasty steps (`HyParViewProofs`; `SizeAssumption`):

* `OverlayInvariance`: each view is `Fit` and its neighbours are backed;
  messages travel only on sessions that work; of a session that works both ends
  have been told, also while one of them holds the other dead. The last is what
  makes an edge added on a message safe: the message proves the session.
  Handlers give sets of views, so each operator on views is shown to keep a view
  fit whatever is drawn.
* `NeighboursAreBacked` (`Backed`) and `OverlayTypeCorrect` from the invariant.

About `Plumtree`, for all nodes, publishers, ring and table sizes
(`PlumtreeProofs`; the assumption is `SizeAssumption`: sizes are positive, as
`init` has it):

* `TreeImplementsBroadcast`: `Spec => BroadcastPromise`, the refinement of
  `Broadcast`. A delivery needs its id to have been published, hence
  `BroadcastInvariant`: gossip in flight carries, and the payload rings hold,
  published ids only (`Carried`, `Memory`); and it needs its id not to be among
  the last the node saw, hence `SeenIsRecent`: the ring is the end of the
  history. `PushKeepsEnd` shows a push keeps it so, `RecentIsSeen` that what
  the abstract broadcast remembers is in the ring. Only `Publish` and a fresh
  gossip touch memory; the other steps are shown to send no gossip but of held
  payloads (`SendKeepsCarried`) and map to stutters.
* `TreeInvariant`: what a node waits for, announces or sends was published, its
  eager and lazy peers are apart, every table, the pending announcements included,
  is within its size, and no message names more ids than it may;
  `TreeTypeCorrect` from it.

About `Qualification`, `Checkpoint` and `CompositionGate` in it, for any
repositories, modes, gates, host checks and numbers of edits and runs
(`QualificationProofs`; `RepoAssumption`, by which the pins' package is none of
the repositories, `BoundAssumption`, `MarkAssumption`):

* `QualificationInvariant`, a conjunction by part. Of a composition run: what is
  identified lies below (is an earlier content than) what is used later, which
  lies below what is there now (`Ascending`); so two ends that agree pin
  everything between. The host's run and a mode's run are the same record over
  different trees, and `RunStepOK` serves both. Of a workspace: it holds what
  was frozen, or is `Dirty`, and what a run read of it is the frozen content
  unless it is disturbed now (`Drawn`). Of launcher, client and container: who
  may be alive at each point of the others (`Launched`, `Awaited`, `Counted`),
  and that what is gone has no process left (`Over`). Of `run-gate.py`: the
  version of a log identifies the run that wrote it (`Records`). Of the final
  script: while it works nothing else does, no container included (`Quiescent`),
  so what it read stays so (`Verified`).
* `ReportsAreTrue`, `TimedOutModesAreOver`, `HostResultIsFinal`,
  `VerificationIsTrue`, `QualificationTypeCorrect` from it. The first covers a
  kill at any point, an edit between any two reads, and a stray process that
  writes to the workspace.

Only model-checked is liveness, under fairness out of the prover's reach:
`LivePeersHeldAlive`, `DownPeersHeldDead`, `Meets`, `Repaired`, `Heals`,
`CheckpointEnds`. The types of `SwimTable` and `Sessions`
are proved and not checked by a run. The assumptions on constants are what
`init` or the scripts enforce, that sizes are numbers and sets of nodes finite,
and that markers such as `None` differ from what they stand beside; TLC
evaluates all of them.

## 6. Findings

* `swim_nonce`. The ACK handler compares nonces only. The comment says the
  target's identity disambiguates; it is never compared.
* `swim_refute`. A refutation raises the own incarnation by one, whatever the
  suspicion's. After an override or a restart that may only tie with it. The
  member is then confirmed and comes back by an ACK or a session, which
  `swim_return` shows: it costs a spell of being dead, not the membership.

Seen while modelling, without a run: two probes of one nonce under way may let a
lost message suspect a live member (the relayed ACK ends another probe); the
module comment says only an ALIVE resurrects, while a SUSPECT at a greater
incarnation also leaves "dead" (it satisfies the stated lattice);
`takePiggyback` sends the oldest events of the ring, so with 8 slots and 6 sent
the two newest wait for further events; an ACK at the suspected incarnation does
not lift the suspicion; a CONFIRM about the node itself is ignored;
`observeAuthenticated` without an address, on a row that is not alive, turns an
authenticated address into a gossiped one.

Of the endpoint. When the preferred connection replaces an established one, the
old one is closed without a report, since the new one stands in for it. If the
new one fails before its HELLO, `closeSession` reports nothing either, because
that session was never established: the node keeps an active edge and a tree
peer without a session and is not told (the doc at `endpoint.zig:935` says a
finished session is told once). One crossed dial and one broken connection
suffice: a state with `told` and no `byPeer`. It lasts until the failure
detector confirms the peer dead, or a new session comes up; `NodeInformed` says
it is the only loss that goes unreported, and `Meets` that it ends.

Of the tree. An announcement that answers a request for ids its sender does not
hold re-arms the missing entry at the asker, who asks again, for ever; the
comment at `plumtree.zig:60` says asking stops and the exchange takes over. Such
an id keeps its place in the table; the instance of `Repaired` evicts no
payload. An exchange names the newest 16 of up to 32 cached ids, so that a
message further back which lost both its gossip and its announcement is cached
everywhere else and still never arrives, though `tick` leaves "the rest" to the
exchange. Taking a peer back as eager happens at one end only. The
doc of `recentIds` says newest first, the order is oldest first. After the ring
forgets an id, a late copy is delivered again.

Of the overlay. An edge need not be agreed by both ends, against
`hyparview.zig:10`: a JOIN_ACK adds a contact that had become a neighbour by its
own proposal and was evicted since, and a lost or overtaken DISCONNECT leaves
one end with an edge that only a rotation, a proposal or a join repairs. The
header says candidates that time out leave the passive view; `tick` keeps them.
With a full passive view, filing a peer that is about to be purged can evict
another candidate.

Of the qualification scripts. `run-gate.py` kills a timed-out command's group
only if the command itself outlives the grace, so that a child that ignores
TERM stays and may go on writing to the log (the container script kills the
group in any case). The records survive that because the log is hashed again
when they are indexed. The packages fetched into `zig-pkg` are not identified
again at the end of a composition run (`Pins`), the launcher's result does not say
whether its container was removed, and the producer's index is written
before its last look at the sources.

## 7. Not modelled

Suspicion window arithmetic, local health, buddies and corroboration (stage 9),
of the endpoint what travels on its sessions, the three protocols of a node in
one state (stage 10; `Swim`, `HyParView` and `Plumtree` each have the driver's
calls that concern them). Of the overlay the ranking; of the tree the restart of
an epoch; of the scripts what the gates test, the counts and options a report
must show, and the producers' evidence other than the transport's. Scripts that
benchmark, summarise logs or run a list of commands keep no state. Of the pool:
its statistics, the formatting of endpoints, a close that fails, and a session
dialed for one demanded peer that turns out to be another demanded one (the
dialer's contract excludes it; a stranger is modelled). Wire encoding, metrics,
event ring, discovery, the command-line tools and the simulator are sequential
or pure I/O and stay out. Incarnations are unbounded naturals cut by `MaxInc`:
the 32-bit overflow is out of reach of real runs.
