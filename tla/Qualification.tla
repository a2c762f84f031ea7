--------------------------- MODULE Qualification ---------------------------
(***************************************************************************)
(* How a candidate is qualified: run-gate.py runs the producer's gates,    *)
(* make-package.py freezes and packs the transport's source, its           *)
(* finalize-evidence.py indexes both, check-composition.py runs on the     *)
(* host with that package, the checkpoint runs in its container, and the   *)
(* evidence directory's finalize-evidence.py accepts all of it or stops.   *)
(* One script runs at a time on the host; people edit the trees whenever   *)
(* they like, a script may be interrupted, and what a gate started may     *)
(* outlive it.                                                             *)
(***************************************************************************)
EXTENDS Naturals, Sequences

CONSTANTS
    Repo, Self, Packed, OnPins, Pins, None, Begun, Torn, Modes, LinuxChecks, Dirty, Touched,
    HostChecks,   \* the checks of the host's composition run, in order
    Gates,        \* the producer's gates
    MaxEdits,     \* bound: edits of code
    MaxRuns,      \* bound: starts of one gate
    MaxLog        \* bound: what a gate's log file holds in turn

ASSUME RepoAssumption == {Self, Packed} \subseteq Repo /\ Self # Packed /\ Pins \notin Repo

VARIABLES
    tree, frozen, launcher, client, box, ws, group, inner, rows, checkpoint, host,
    edits,        \* edits of code so far
    mac,          \* the composition run on the host
    gate,         \* run-gate.py: the run in progress
    record,       \* the record each gate left, None before
    log,          \* what each gate's log holds; every writing changes it
    runs,         \* history: how often each gate was started
    stray,        \* gates of which a process outlived its run
    pkg,          \* make-package.py and what it made
    index,        \* index.json and the manifest it names, None before
    fin           \* the final script and its verification.json

CP  == INSTANCE Checkpoint
Mac == INSTANCE CompositionGate WITH gate <- mac, tree <- tree

checkpointVars == <<launcher, client, box, ws, group, inner, rows, checkpoint, host>>
gateVars       == <<gate, record, log, runs, stray>>
vars == <<tree, frozen, checkpointVars, edits, mac, gateVars, pkg, index, fin>>

\* What a tree holds: its code and its documents, as versions.
Content == [code : 0 .. MaxEdits, docs : {0, 1}]

ASSUME BoundAssumption == Modes \in Nat \ {0} /\ {MaxEdits, MaxRuns, MaxLog} \subseteq Nat
ASSUME MarkAssumption  == None \notin {0} \cup [passed : BOOLEAN] /\ Dirty \notin Content

\* The candidate the producer started from (initial-candidate-manifest.json).
Initial == [code |-> 0, docs |-> 0]

\* run-gate.py does not run.
NoGate == [pc |-> "off", name |-> None, code |-> None, alive |-> {}]

Init ==
    /\ CP!Init
    /\ tree = [r \in Repo |-> Initial]
    /\ frozen = None
    /\ edits = 0
    /\ mac = Mac!Off
    /\ gate = NoGate
    /\ record = [n \in Gates |-> None]
    /\ log = [n \in Gates |-> 0]
    /\ runs = [n \in Gates |-> 0]
    /\ stray = {}
    /\ pkg = [pc |-> "off", before |-> None, archive |-> None, source |-> None]
    /\ index = None
    /\ fin = [pc |-> "off", known |-> {}, file |-> None]

\* No script is at work on the host, and the final one has not created its
\* directory: there is one, and nothing after it is qualified.  A launch that was
\* aborted ends the attempt, and nobody goes on beside a container that stayed.
Idle ==
    /\ mac.pc \in {"off", "ended", "killed"}
    /\ gate.pc = "off"
    /\ pkg.pc \in {"off", "done", "failed"}
    /\ launcher.pc \in {"off", "ended"}
    /\ box.pc \in {"none", "gone"}
    /\ fin.pc = "off"

----------------------------------------------------------------------------
(* People.                                                                  *)

\* Code is edited.  No edit restores an earlier content.
EditCode(r) ==
    /\ edits < MaxEdits
    /\ edits' = edits + 1
    /\ tree' = [tree EXCEPT ![r].code = @ + 1]
    /\ UNCHANGED <<frozen, checkpointVars, mac, gateVars, pkg, index, fin>>

\* The release documents of the candidate are written.
EditDocs ==
    /\ tree[Packed].docs = 0
    /\ tree' = [tree EXCEPT ![Packed].docs = 1]
    /\ UNCHANGED <<frozen, checkpointVars, edits, mac, gateVars, pkg, index, fin>>

\* The identities of all trees are recorded as the ones to qualify.
Freeze ==
    /\ frozen = None
    /\ Idle
    /\ frozen' = tree
    /\ UNCHANGED <<tree, checkpointVars, edits, mac, gateVars, pkg, index, fin>>

People == EditDocs \/ Freeze \/ \E r \in Repo : EditCode(r)

----------------------------------------------------------------------------
(* run-gate.py                                                              *)

\* The files that are built are the initial candidate's.
RuntimeUnchanged == tree[Packed].code = Initial.code

\* A gate is started on an unchanged candidate; its log is emptied.
StartGate(n) ==
    /\ Idle
    /\ mac.pc = "off"
    /\ runs[n] < MaxRuns /\ log[n] < MaxLog
    /\ RuntimeUnchanged
    /\ gate' = [pc |-> "run", name |-> n, code |-> None, alive |-> {"wrapper", "child"}]
    /\ log' = [log EXCEPT ![n] = @ + 1]
    /\ runs' = [runs EXCEPT ![n] = @ + 1]
    /\ UNCHANGED <<record, stray>>

\* What is still alive when the script has done with its command stays.
Leaves(alive) == stray' = IF alive = {} THEN stray ELSE stray \cup {gate.name}

\* The command returns, with whatever code; nobody looks for a child of it.
GateReturns ==
    /\ gate.pc = "run"
    /\ \E code \in {0, 1} : gate' = [gate EXCEPT !.pc = "record", !.code = code, !.alive = {}]
    /\ \E alive \in SUBSET {"child"} : Leaves(alive)
    /\ UNCHANGED <<record, log, runs>>

\* Time is up: TERM to the group, which any of its processes may ignore.
GateTimesOut ==
    /\ gate.pc = "run"
    /\ \E alive \in SUBSET gate.alive : gate' = [gate EXCEPT !.pc = "grace", !.alive = alive]
    /\ UNCHANGED <<record, log, runs, stray>>

\* The group is killed only if the command outlives the grace; if it went, a
\* child that ignored TERM stays.
GateGraceOver ==
    /\ gate.pc = "grace"
    /\ gate' = [gate EXCEPT !.pc = "record", !.code = 124, !.alive = {}]
    /\ Leaves(IF "wrapper" \in gate.alive THEN {} ELSE gate.alive)
    /\ UNCHANGED <<record, log, runs>>

\* The script is interrupted: no record, and its command runs on.
GateInterrupted ==
    /\ gate.pc \in {"run", "grace"}
    /\ gate' = NoGate
    /\ Leaves(gate.alive)
    /\ UNCHANGED <<record, log, runs>>

\* A gate passed if it returned 0 and the candidate still is the initial one.
GatePassed == gate.code = 0 /\ RuntimeUnchanged

\* The log is hashed and the record replaced.  run is history.
RecordGate ==
    /\ gate.pc = "record"
    /\ record' = [record EXCEPT ![gate.name] =
                     [passed |-> GatePassed, log |-> log[gate.name], run |-> runs[gate.name]]]
    /\ gate' = NoGate
    /\ UNCHANGED <<log, runs, stray>>

\* What outlived a run still writes to the log.
StrayWrites ==
    /\ \E n \in stray : log[n] < MaxLog /\ log' = [log EXCEPT ![n] = @ + 1]
    /\ UNCHANGED <<gate, record, runs, stray>>

RunGate ==
    \/ \E n \in Gates : StartGate(n)
    \/ GateReturns
    \/ GateTimesOut
    \/ GateGraceOver
    \/ GateInterrupted
    \/ RecordGate
    \/ StrayWrites

----------------------------------------------------------------------------
(* make-package.py, and the producer's finalize-evidence.py                 *)

PackageBegin ==
    /\ Idle
    /\ pkg.pc = "off"
    /\ pkg' = [pkg EXCEPT !.pc = "copy", !.before = tree[Packed]]

\* The snapshot equals the source identified before, and differs from the
\* initial candidate in the release documents only.
PackageCopy ==
    /\ pkg.pc = "copy"
    /\ LET snapshot == tree[Packed]
       IN IF /\ snapshot = pkg.before
             /\ snapshot.code = Initial.code
             /\ snapshot.docs # Initial.docs
          THEN pkg' = [pkg EXCEPT !.pc = "compare", !.archive = snapshot]
          ELSE pkg' = [pkg EXCEPT !.pc = "failed"]

\* The source is looked at again before the manifest is written.
PackageEnd ==
    /\ pkg.pc = "compare"
    /\ IF tree[Packed] = pkg.before
       THEN pkg' = [pkg EXCEPT !.pc = "done", !.source = pkg.before]
       ELSE pkg' = [pkg EXCEPT !.pc = "failed"]

MakePackage ==
    /\ PackageBegin \/ PackageCopy \/ PackageEnd
    /\ UNCHANGED index

\* A record counts if it says passed and its log is the one it hashed.
RecordHolds(n) == record[n] # None /\ record[n].passed /\ record[n].log = log[n]

\* Source, package and every required gate hold; only then is the index written.
IndexGates ==
    /\ Idle
    /\ mac.pc = "off"
    /\ pkg.source # None
    /\ tree[Packed] = pkg.source
    /\ \A n \in Gates : RecordHolds(n)
    /\ index' = [source |-> pkg.source, archive |-> pkg.archive, gates |-> record]
    /\ UNCHANGED pkg

----------------------------------------------------------------------------
(* check-composition.py on the host, with the package.                      *)

StartMac ==
    /\ Idle
    /\ mac.pc = "off"
    /\ index # None
    /\ mac' = Mac!Fresh(pkg.archive, HostChecks)

RunMac == StartMac \/ Mac!Step \/ Mac!Kill

----------------------------------------------------------------------------
(* The final script.  Until it creates its directory a failed assertion     *)
(* leaves nothing behind, and it may be run again.                          *)

\* The next phase if the evidence of this one is accepted.
Phase(now, accepted, next) ==
    /\ fin.pc = now
    /\ fin' = [fin EXCEPT !.pc = IF accepted THEN next ELSE "off"]

\* The trees are what was frozen.
FinSources ==
    /\ fin.pc = "off"
    /\ Idle
    /\ frozen # None
    /\ tree = frozen
    /\ fin' = [fin EXCEPT !.pc = "matrix"]

\* Every check of the selected sources passed and counted its tests.  One that
\* built the released pins may have counted none, or failed in the known way.
ChecksAccepted(report) ==
    /\ [i \in DOMAIN report.checks |-> report.checks[i].name] = HostChecks
    /\ \A i \in DOMAIN report.checks :
          report.checks[i].name \in OnPins \/ report.checks[i].outcome = "passed"

\* The report is complete and says that the sources did not change.
MatrixComplete ==
    /\ mac.report \notin {None, Begun, Torn}
    /\ mac.report.unchanged
    /\ ChecksAccepted(mac.report)

\* Deviation: the report's sources are not compared with the frozen ones.
MatrixUnchanged == MatrixComplete

\* The run on the host is complete, and of the frozen sources.
MatrixAccepted == MatrixComplete /\ mac.report.sources = frozen

\* The log of a check that failed does or does not show the known assertion.
FinMatrix ==
    \/ Phase("matrix", MatrixAccepted, "producer")
    \/ Phase("matrix", FALSE, "off")

\* The index is of the frozen source and its package; every record and log is
\* still the one indexed.
ProducerAccepted ==
    /\ index # None
    /\ index.source = frozen[Packed]
    /\ index.archive = pkg.archive
    /\ \A n \in Gates : record[n] = index.gates[n] /\ RecordHolds(n)

FinProducer == Phase("producer", ProducerAccepted, "linux")

\* The checkpoint passed and the launcher saw it end well on unchanged originals.
LinuxAccepted ==
    /\ host # None
    /\ host.code = 0 /\ host.unchanged
    /\ checkpoint # None /\ checkpoint.passed
    /\ Len(rows) = Modes
    /\ \A m \in 1 .. Modes : rows[m].passed

FinLinux == Phase("linux", LinuxAccepted, "copy")

\* The directory is created and filled; from here on the script runs once.
FinCopy == Phase("copy", TRUE, "post")

\* The trees are looked at again, the new directory left out, and the
\* verification is written.  latest is history.
FinWrite ==
    /\ fin.pc = "post"
    /\ fin' = IF tree = frozen
              THEN [fin EXCEPT !.pc = "done", !.file = [latest |-> runs]]
              ELSE [fin EXCEPT !.pc = "failed"]

Finalize == FinSources \/ FinMatrix \/ FinProducer \/ FinLinux \/ FinCopy \/ FinWrite

----------------------------------------------------------------------------
\* The order the scripts are run in: the producer's evidence, the host, Linux.
\* Nobody goes on with evidence the final script would not take: the long run
\* comes last.
Promising == Idle /\ MatrixAccepted /\ ProducerAccepted

RunLauncher ==
    /\ CP!Next
    /\ launcher.pc = "off" /\ launcher' # launcher => Promising

Next ==
    \/ People
    \/ RunLauncher /\ UNCHANGED <<edits, mac, gateVars, pkg, index, fin>>
    \/ RunGate /\ UNCHANGED <<tree, frozen, checkpointVars, edits, mac, pkg, index, fin>>
    \/ (MakePackage \/ IndexGates)
       /\ UNCHANGED <<tree, frozen, checkpointVars, edits, mac, gateVars, fin>>
    \/ RunMac /\ UNCHANGED <<tree, frozen, checkpointVars, edits, gateVars, pkg, index, fin>>
    \/ Finalize
       /\ UNCHANGED <<tree, frozen, checkpointVars, edits, mac, gateVars, pkg, index>>

Spec == Init /\ [][Next]_vars

FairSpec == Spec /\ CP!Fairness

----------------------------------------------------------------------------
TypeOK ==
    /\ tree \in [Repo -> Content]
    /\ frozen \in [Repo -> Content] \cup {None}
    /\ launcher.pc \in {"off", "prepare", "launch", "wait", "remove", "reap", "report",
                        "ended", "aborted"}
    /\ client \in {"none", "up", "exited"}
    /\ box.pc \in {"none", "load", "ready", "run", "grace", "collect", "final", "exited",
                   "gone"}
    /\ box.mode \in 1 .. Modes
    /\ group \in [1 .. Modes -> SUBSET {"wrapper", "child"}]
    /\ ws \in [Repo -> Content \cup {Dirty, None}]
    /\ gate.pc \in {"off", "run", "grace", "record"}
    /\ runs \in [Gates -> 0 .. MaxRuns]
    /\ log \in [Gates -> 0 .. MaxLog]
    /\ stray \subseteq Gates

\* Every report.json says "passed" or "unchanged" of what was really built.
ReportsTrue == Mac!ReportTrue(mac.report) /\ CP!G!ReportTrue(inner.report)

TimedOutIsOver == CP!TimedOutIsOver
HostResultFinal == CP!HostResultFinal
CheckpointEnds == CP!CheckpointEnds

\* verification.json exists only if everything it rests on was made of the
\* frozen sources: what the host's checks and every mode in the container read,
\* the package, and the last run of each gate, which passed on the same code.
VerificationTrue ==
    fin.file # None =>
        /\ \A u \in mac.report.used : u[1] # Pins => u[2] = frozen[u[1]]
        /\ CP!CheckpointTrue /\ checkpoint.passed
        /\ pkg.archive = frozen[Packed] /\ frozen[Packed].code = Initial.code
        /\ \A n \in Gates : index.gates[n].passed /\ index.gates[n].run = fin.file.latest[n]
=============================================================================
