----------------------------- MODULE Checkpoint -----------------------------
(***************************************************************************)
(* The isolated Linux checkpoint.  linux-checkpoint-launcher.py copies the *)
(* frozen sources into clones, bundles them, starts one container and      *)
(* always removes it; container-checkpoint.py unpacks the bundle and runs  *)
(* the composition gate once per build mode, each in a process group of    *)
(* its own and for a limited time.  The original trees are live meanwhile, *)
(* and anything that still runs in the container may touch its workspace.  *)
(***************************************************************************)
EXTENDS Naturals, Sequences

CONSTANTS
    Repo, Self, Packed, OnPins, Pins, None, Begun, Torn,
    Modes,          \* how many build modes are run, one after the other
    LinuxChecks,    \* the checks of a mode, in order
    Dirty,          \* a content that no freeze has
    Touched         \* bound: the repositories a stray process writes to

VARIABLES
    tree,       \* the original trees
    frozen,     \* the frozen identities, None before there are any
    launcher,   \* the script on the host
    client,     \* its docker client: "none", "up", "exited"
    box,        \* the container and the script in it
    ws,         \* the workspace in the container
    group,      \* per mode, the processes alive in its process group
    inner,      \* the gate run of the current mode
    rows,       \* what checkpoint-result.json says of the modes so far
    checkpoint, \* its verdict: None, "failed so far", or passed or not
    host        \* host-result.json

G == INSTANCE CompositionGate WITH gate <- inner, tree <- ws

hostVars == <<launcher, client, host>>
boxVars  == <<box, ws, group, inner, rows, checkpoint>>
vars     == <<tree, frozen, hostVars, boxVars>>

Nothing == [r \in Repo |-> None]

Init ==
    /\ launcher = [pc |-> "off", known |-> {}, inventory |-> Nothing, clone |-> Nothing,
                   code |-> None, interrupted |-> FALSE, left |-> FALSE]
    /\ client = "none"
    /\ host = None
    /\ box = [pc |-> "none", mode |-> 1, code |-> None]
    /\ ws = Nothing
    /\ group = [m \in 1 .. Modes |-> {}]
    /\ inner = G!Off
    /\ rows = <<>>
    /\ checkpoint = None

----------------------------------------------------------------------------
(* The launcher, up to the start of the container.                          *)

Abort == launcher' = [launcher EXCEPT !.pc = "aborted"]

Authorize ==
    /\ launcher.pc = "off"
    /\ frozen # None
    /\ launcher' = [launcher EXCEPT !.pc = "prepare"]
    /\ UNCHANGED <<client, host>>

\* An original must be what was frozen ...
Identify(r) ==
    /\ launcher.pc = "prepare"
    /\ r \notin launcher.known
    /\ \A q \in launcher.known : launcher.inventory[q] # None
    /\ IF tree[r] = frozen[r]
       THEN launcher' = [launcher EXCEPT !.known = @ \cup {r}]
       ELSE Abort
    /\ UNCHANGED <<client, host>>

\* ... and its files are listed and hashed.
TakeInventory(r) ==
    /\ launcher.pc = "prepare"
    /\ r \in launcher.known
    /\ launcher.inventory[r] = None
    /\ launcher' = [launcher EXCEPT !.inventory[r] = tree[r]]
    /\ UNCHANGED <<client, host>>

\* A clone is accepted if each file copied is the one listed and the whole is
\* what was frozen.
CloneAccepted(r) == tree[r] = launcher.inventory[r] /\ tree[r] = frozen[r]

\* The files are copied over a clone of the repository.
Overlay(r) ==
    /\ launcher.pc = "prepare"
    /\ \A q \in Repo : launcher.inventory[q] # None
    /\ launcher.clone[r] = None
    /\ IF CloneAccepted(r)
       THEN launcher' = [launcher EXCEPT !.clone[r] = tree[r]]
       ELSE Abort
    /\ UNCHANGED <<client, host>>

\* The originals are looked at again; the clones are bundled.
Bundle ==
    /\ launcher.pc = "prepare"
    /\ \A r \in Repo : launcher.clone[r] # None
    /\ IF tree = frozen
       THEN launcher' = [launcher EXCEPT !.pc = "launch"]
       ELSE Abort
    /\ UNCHANGED <<client, host>>

\* The image is inspected and the docker client started.
Launch ==
    /\ launcher.pc = "launch"
    /\ \/ /\ launcher' = [launcher EXCEPT !.pc = "wait"]
          /\ client' = "up"
       \/ Abort /\ UNCHANGED client
    /\ UNCHANGED host

(* Waiting for the container, and what always follows.                      *)

\* The container goes, with all that runs in it and its workspace.
Vanish ==
    /\ box' = [box EXCEPT !.pc = "gone"]
    /\ group' = [m \in 1 .. Modes |-> {}]
    /\ inner' = G!Off
    /\ ws' = Nothing
    /\ UNCHANGED <<rows, checkpoint>>

ClientDone ==
    /\ launcher.pc = "wait"
    /\ client = "exited"
    /\ launcher' = [launcher EXCEPT !.pc = "remove", !.code = box.code]
    /\ UNCHANGED <<client, host>>

\* The limit is hours; the client has created the container by then.
LauncherTimeout ==
    /\ launcher.pc = "wait"
    /\ client = "up"
    /\ box.pc # "none"
    /\ launcher' = [launcher EXCEPT !.pc = "remove", !.code = 124]
    /\ UNCHANGED <<client, host>>

\* An interrupt runs the cleanup and ends the script there.
Interrupt ==
    /\ launcher.pc = "wait"
    /\ launcher' = [launcher EXCEPT !.pc = "remove", !.interrupted = TRUE]
    /\ UNCHANGED <<client, host>>

\* Deviation: a container whose client is still up is left to the client.
RemoveUnattended ==
    /\ launcher.pc = "remove"
    /\ launcher' = [launcher EXCEPT !.pc = "reap"]
    /\ IF client = "up" THEN UNCHANGED boxVars ELSE Vanish
    /\ UNCHANGED <<client, host>>

\* Removing a container kills all that runs in it.  Nobody asks whether docker
\* did it, or whether there was one: left is history, a container that stayed.
RemoveContainer ==
    /\ launcher.pc = "remove"
    /\ \/ /\ launcher' = [launcher EXCEPT !.pc = "reap",
                                           !.left = box.pc \notin {"none", "gone"}]
          /\ UNCHANGED boxVars
       \/ /\ launcher' = [launcher EXCEPT !.pc = "reap"]
          /\ box.pc # "none"
          /\ Vanish
    /\ UNCHANGED <<client, host>>

\* The client is terminated if it has not ended by itself.
Reap ==
    /\ launcher.pc = "reap"
    /\ client' = "exited"
    /\ launcher' = [launcher EXCEPT !.pc = IF launcher.interrupted THEN "aborted" ELSE "report"]
    /\ UNCHANGED host

\* The originals are identified once more and the result is written.
ReportHost ==
    /\ launcher.pc = "report"
    /\ host' = [code |-> launcher.code, unchanged |-> tree = frozen]
    /\ launcher' = [launcher EXCEPT !.pc = "ended"]
    /\ UNCHANGED client

Prepare ==
    \/ Authorize
    \/ \E r \in Repo : Identify(r) \/ TakeInventory(r) \/ Overlay(r)
    \/ Bundle
    \/ Launch

Await == ClientDone \/ LauncherTimeout

CleanUp == Reap \/ ReportHost

----------------------------------------------------------------------------
(* In the container.                                                        *)

CreateContainer ==
    /\ client = "up"
    /\ box.pc = "none"
    /\ box' = [box EXCEPT !.pc = "load"]
    /\ UNCHANGED <<ws, group, inner, rows, checkpoint>>

\* Bundle, compiler, helper and identities are verified and the workspace
\* filled; or an assertion fails and the script is over.
Load ==
    /\ box.pc = "load"
    /\ \/ /\ ws' = launcher.clone
          /\ box' = [box EXCEPT !.pc = "ready"]
       \/ /\ box' = [box EXCEPT !.pc = "exited", !.code = 1]
          /\ UNCHANGED ws
    /\ UNCHANGED <<group, inner, rows, checkpoint>>

\* The gate is started for the next mode, leading a new process group.
StartMode ==
    /\ box.pc = "ready"
    /\ box' = [box EXCEPT !.pc = "run", !.code = None]
    /\ inner' = G!Fresh(None, LinuxChecks)
    /\ group' = [group EXCEPT ![box.mode] = {"wrapper"}]
    /\ UNCHANGED <<ws, rows, checkpoint>>

\* The gate takes a step; a check is a child of its.
RunGate ==
    /\ "wrapper" \in group[box.mode]
    /\ G!Step
    /\ group' = [group EXCEPT ![box.mode] =
                    IF inner'.pc = "ended" THEN {}
                    ELSE {"wrapper"} \cup (IF inner'.building THEN {"child"} ELSE {})]
    /\ UNCHANGED <<box, rows, checkpoint, ws>>

\* The kernel kills the gate (memory); what it started runs on.
WrapperDies ==
    /\ box.pc = "run"
    /\ "wrapper" \in group[box.mode]
    /\ G!Kill
    /\ group' = [group EXCEPT ![box.mode] = @ \ {"wrapper"}]
    /\ UNCHANGED <<box, rows, checkpoint, ws>>

\* Any child that is still alive, of whichever mode, writes to the sources; once.
Disturb ==
    /\ \E m \in 1 .. Modes : "child" \in group[m]
    /\ \A r \in Repo : ws[r] # Dirty
    /\ \E r \in Touched : ws' = [ws EXCEPT ![r] = Dirty]
    /\ UNCHANGED <<box, group, inner, rows, checkpoint>>

\* The gate returned, or was killed by somebody else (another code than 0).
GateReturned ==
    /\ box.pc = "run"
    /\ group[box.mode] \cap {"wrapper"} = {}
    /\ box' = [box EXCEPT !.pc = "collect",
                          !.code = IF inner.pc = "ended" THEN inner.code ELSE 1]
    /\ UNCHANGED <<ws, group, inner, rows, checkpoint>>

\* A gate that has gone takes its run with it.
Survivors(alive) ==
    /\ group' = [group EXCEPT ![box.mode] = alive]
    /\ IF "wrapper" \in group[box.mode] \ alive THEN G!Kill ELSE UNCHANGED inner

\* Time is up: the group is sent TERM, which any of its processes may ignore.
Terminate ==
    /\ box.pc = "run"
    /\ "wrapper" \in group[box.mode]
    /\ box' = [box EXCEPT !.pc = "grace"]
    /\ \E alive \in SUBSET group[box.mode] : Survivors(alive)
    /\ UNCHANGED <<ws, rows, checkpoint>>

\* Deviation: the group is killed only if the gate itself outlived the grace.
KillGroupOfWrapper ==
    /\ box.pc = "grace"
    /\ box' = [box EXCEPT !.pc = "collect", !.code = 124]
    /\ Survivors(IF "wrapper" \in group[box.mode] THEN {} ELSE group[box.mode])
    /\ UNCHANGED <<ws, rows, checkpoint>>

\* Deviation: the gate is waited for without a limit after TERM.
KillGroupAfterWrapper ==
    /\ box.pc = "grace"
    /\ "wrapper" \notin group[box.mode]
    /\ box' = [box EXCEPT !.pc = "collect", !.code = 124]
    /\ Survivors({})
    /\ UNCHANGED <<ws, rows, checkpoint>>

\* After the gate's end or ten seconds the whole group is killed.
KillGroup ==
    /\ box.pc = "grace"
    /\ box' = [box EXCEPT !.pc = "collect", !.code = 124]
    /\ Survivors({})
    /\ UNCHANGED <<ws, rows, checkpoint>>

\* Whether a mode passed: the gate says so, the workspace is what was unpacked,
\* and every expected check ran some test.
ModePassed(report) ==
    /\ box.code = 0
    /\ report \notin {None, Begun}
    /\ report.passed
    /\ ws = launcher.clone
    /\ [i \in DOMAIN report.checks |-> report.checks[i].name] = LinuxChecks
    /\ \A i \in DOMAIN report.checks : report.checks[i].outcome # "empty"

\* Deviation: there is always a next mode.
ModeAfter == [box EXCEPT !.pc = "ready", !.mode = @ + 1]

\* The script after a mode: on to the next one, or to the verdict.
ModeOver ==
    IF box.mode = Modes
    THEN [box EXCEPT !.pc = "final"]
    ELSE [box EXCEPT !.pc = "ready", !.mode = @ + 1]

\* The mode's row is added; a torn report is an exception instead.  No later step
\* reads the report.
Collect ==
    /\ box.pc = "collect"
    /\ inner' = G!Off
    /\ LET report == inner.report
       IN IF report = Torn
          THEN /\ box' = [box EXCEPT !.pc = "final"]
               /\ UNCHANGED <<rows, checkpoint>>
          ELSE /\ rows' = Append(rows, [code |-> box.code, passed |-> ModePassed(report),
                                        used |-> IF ModePassed(report) THEN report.used ELSE {}])
               /\ checkpoint' = [passed |-> FALSE]
               /\ box' = ModeOver
    /\ UNCHANGED <<ws, group>>

\* The verdict over all modes is written, whatever happened before.
Conclude ==
    /\ box.pc = "final"
    /\ LET passed == /\ Len(rows) = Modes
                     /\ \A m \in 1 .. Modes : rows[m].passed
                     /\ ws = launcher.clone
       IN /\ checkpoint' = [passed |-> passed]
          /\ box' = [box EXCEPT !.pc = "exited", !.code = IF passed THEN 0 ELSE 1]
    /\ UNCHANGED <<ws, group, inner, rows>>

\* A container that ended is removed, and its client ends if it is still up.
ContainerEnds ==
    /\ box.pc = "exited"
    /\ Vanish
    /\ client' = "exited"
    /\ UNCHANGED <<launcher, host>>

\* The script's own steps: none of them waits for a process of its for ever.
Script ==
    \/ Load
    \/ StartMode
    \/ GateReturned
    \/ Terminate
    \/ KillGroup
    \/ Collect
    \/ Conclude

Inside ==
    \/ CreateContainer
    \/ Script
    \/ box.pc \in {"run", "grace"} /\ RunGate
    \/ WrapperDies
    \/ Disturb

Next ==
    /\ \/ (Prepare \/ Await \/ Interrupt \/ CleanUp) /\ UNCHANGED boxVars
       \/ Inside /\ UNCHANGED hostVars
       \/ RemoveContainer
       \/ ContainerEnds
    /\ UNCHANGED <<tree, frozen>>

\* The launcher once it waits, and the container from its creation to its end;
\* each is at one step at a time.
Host == ((Await \/ CleanUp) /\ UNCHANGED boxVars) \/ RemoveContainer

Container == ((CreateContainer \/ Script) /\ UNCHANGED hostVars) \/ ContainerEnds

\* Time passes, the docker daemon works and the scripts are scheduled.  No gate,
\* and no check, is assumed to get anywhere.
Fairness ==
    /\ WF_vars(Host /\ UNCHANGED <<tree, frozen>>)
    /\ WF_vars(Container /\ UNCHANGED <<tree, frozen>>)

----------------------------------------------------------------------------
\* A mode that ran out of time leaves no process behind: nothing of it can
\* touch the workspace of the next mode.
TimedOutIsOver == \A m \in DOMAIN rows : rows[m].code = 124 => group[m] = {}

\* host-result.json appears when the container is gone with all that ran in it,
\* unless docker did not remove it; and a code 0 in it always means that, and a
\* checkpoint that passed.
HostResultFinal ==
    host # None =>
        /\ \/ box.pc = "gone" /\ \A m \in 1 .. Modes : group[m] = {}
           \/ launcher.left /\ host.code # 0
        /\ host.code = 0 => checkpoint # None /\ checkpoint.passed

\* A checkpoint that passed ran every mode on the frozen sources.
CheckpointTrue ==
    checkpoint # None /\ checkpoint.passed =>
        \A m \in 1 .. Modes : \A u \in rows[m].used : u[1] # Pins => u[2] = frozen[u[1]]

\* Once the launcher waits it ends, and no container outlives it for ever, even
\* if every gate hangs, the launcher is interrupted and docker removes nothing.
CheckpointEnds ==
    launcher.pc = "wait" ~>
        launcher.pc \in {"ended", "aborted"} /\ client = "exited" /\ box.pc \in {"none", "gone"}
=============================================================================
