-------------------------- MODULE CompositionGate --------------------------
(***************************************************************************)
(* One run of tools/check-composition.py.  It records the identity of      *)
(* every source it builds, stages the tests, fetches dependencies, runs    *)
(* the checks one after another and saves the report after each.  At the   *)
(* end it takes the identities again, and only then may it say "passed".   *)
(* The trees are live: somebody may edit them meanwhile.                   *)
(***************************************************************************)
EXTENDS Naturals, Sequences

CONSTANTS
    Repo,     \* the repositories built together
    Self,     \* the one the script belongs to (ROOT)
    Packed,   \* the one that may be given as an archive (quic)
    OnPins,   \* the checks that build Packed from the released pins instead
    Pins,     \* the package of the released pins, in zig-pkg
    None,
    Begun,    \* a report that has not come to its verdict: passed is false
    Torn      \* a report that was being written when the process died

VARIABLES
    gate,     \* the run
    tree      \* what each repository's tree holds

----------------------------------------------------------------------------
\* How a check ends; "empty": exit code 0, but the summary counts no test.
Outcome == {"passed", "failed", "empty"}

\* The report of run g with its verdict.  used is history: what the staging and
\* each check read, <<repository, content>>.
Verdict(g, passed, unchanged) ==
    [passed |-> passed, unchanged |-> unchanged, sources |-> g.sources,
     checks |-> g.checks, used |-> g.used]

\* A run with the checks todo ahead; archive is the content of the archive
\* given for Packed, None without that option.
Fresh(archive, todo) ==
    [pc |-> "start", archive |-> archive, sources |-> [r \in Repo |-> None],
     todo |-> todo, building |-> FALSE, checks |-> <<>>, used |-> {}, code |-> None,
     report |-> None]

\* No run.
Off == [Fresh(None, <<>>) EXCEPT !.pc = "off"]

\* Where repository r is built from: the extracted archive, or its tree.
Source(r) == IF r = Packed /\ gate.archive # None THEN gate.archive ELSE tree[r]

\* Whether every check so far returned 0.
AllGreen(g) == \A i \in DOMAIN g.checks : g.checks[i].outcome # "failed"

\* The run with its report saved as it stands: not passed.
Saved(g) == [g EXCEPT !.report = Begun]

Ended(g, code) == [g EXCEPT !.pc = "ended", !.code = code]

----------------------------------------------------------------------------
\* The new output directory: ROOT is identified and the report opened.
IdentifySelf ==
    /\ gate.pc = "start"
    /\ gate' = Saved([gate EXCEPT !.pc = "inputs", !.sources[Self] = tree[Self]])

\* An archive whose digest is not the one asked for stops the run.
RejectArchive ==
    /\ gate.pc = "inputs"
    /\ gate.archive # None
    /\ gate.sources[Packed] = None
    /\ gate' = Ended(gate, 1)

\* Another repository's tree, or the extracted archive, is identified.
IdentifyInput(r) ==
    /\ gate.pc = "inputs"
    /\ gate.sources[r] = None
    /\ gate' = Saved([gate EXCEPT !.sources[r] = Source(r)])

\* The tests and the build file of ROOT are copied to the stage.
Stage ==
    /\ gate.pc = "inputs"
    /\ \A r \in Repo : gate.sources[r] # None
    /\ gate' = Saved([gate EXCEPT !.pc = "fetch", !.used = @ \cup {<<Self, tree[Self]>>}])

\* The dependencies are fetched; a failure ends the run.
Fetch ==
    /\ gate.pc = "fetch"
    /\ \/ gate' = Saved([gate EXCEPT !.pc = "checks"])
       \/ gate' = Ended(Saved(gate), 1)

\* What a check started now builds from.  The package of the pins is identified
\* when it is fetched and never again: nobody knows what it holds by now.
Inputs(check) ==
    IF check \in OnPins
    THEN {<<r, Source(r)>> : r \in Repo \ {Packed}} \cup {<<Pins, "unknown">>}
    ELSE {<<r, Source(r)>> : r \in Repo}

\* The next check is started on what the trees hold now.
StartCheck ==
    /\ gate.pc = "checks"
    /\ ~gate.building
    /\ gate.todo # <<>>
    /\ gate' = [gate EXCEPT !.building = TRUE, !.used = @ \cup Inputs(Head(gate.todo))]

\* It ends and is added to the report; the next one follows whatever it says.
EndCheck ==
    /\ gate.pc = "checks"
    /\ gate.building
    /\ \E outcome \in Outcome :
          LET row == [name |-> Head(gate.todo), outcome |-> outcome] IN
          gate' = Saved([gate EXCEPT !.building = FALSE, !.todo = Tail(@),
                                     !.checks = Append(@, row)])

\* Deviation: only the script's own repository is looked at again.
UnchangedSelf == Source(Self) = gate.sources[Self]

\* Whether every source still is what was recorded.
Unchanged == \A r \in Repo : Source(r) = gate.sources[r]

\* The identities are taken again, and the verdict is written.
Finish ==
    /\ gate.pc = "checks"
    /\ ~gate.building
    /\ gate.todo = <<>>
    /\ LET passed == AllGreen(gate) /\ Unchanged IN
       gate' = Ended([gate EXCEPT !.report = Verdict(gate, passed, Unchanged)],
                     IF passed THEN 0 ELSE 1)

Step ==
    \/ IdentifySelf
    \/ RejectArchive
    \/ \E r \in Repo : IdentifyInput(r)
    \/ Stage
    \/ Fetch
    \/ StartCheck
    \/ EndCheck
    \/ Finish

\* The process is killed, perhaps while the report is being written.
Kill ==
    /\ gate.pc \notin {"off", "ended", "killed"}
    /\ \E report \in {gate.report, Torn} :
          gate' = [Off EXCEPT !.pc = "killed", !.report = report]

----------------------------------------------------------------------------
\* A report that says "passed" is true: every check returned 0, and all that
\* the staging and the checks read of the repositories is what the report names
\* as its sources.  Of the pins' package it promises nothing.
ReportTrue(report) ==
    report \notin {None, Begun, Torn} =>
        /\ report.passed =>
              /\ report.unchanged
              /\ \A i \in DOMAIN report.checks : report.checks[i].outcome # "failed"
        /\ report.unchanged => \A u \in report.used : u[1] # Pins => u[2] = report.sources[u[1]]
=============================================================================
