------------------------- MODULE QualificationProofs -------------------------
(***************************************************************************)
(* Proofs about Qualification: what verification.json, host-result.json    *)
(* and every report say is true of the trees, for any number of            *)
(* repositories, build modes, gates and edits.                             *)
(***************************************************************************)
EXTENDS Qualification, SequenceTheorems, TLAPS

----------------------------------------------------------------------------
(* A run of check-composition.py, as a record g over trees t: the one on    *)
(* the host and the one of a mode in the container are both of this kind.   *)

\* What a tree or a workspace may hold.
Value == Content \cup {Dirty}

\* CompositionGate!Source, of the run g over the trees t.
SourceOf(g, t, r) == IF r = Packed /\ g.archive # None THEN g.archive ELSE t[r]

\* b is what a becomes by edits (in a workspace, by being disturbed).
Below(a, b) ==
    \/ a = b
    \/ b = Dirty
    \/ {a, b} \subseteq Content /\ a.code <= b.code /\ a.docs <= b.docs

\* The verdicts among the reports; ReportTrue of one.
IsVerdict(report) == report \notin {None, Begun, Torn}

Genuine(report) ==
    IsVerdict(report) =>
        /\ report.passed =>
              /\ report.unchanged
              /\ \A i \in DOMAIN report.checks : report.checks[i].outcome # "failed"
        /\ report.unchanged => \A u \in report.used : u[1] # Pins => u[2] = report.sources[u[1]]

\* What a run may have read: of the repositories, and the pins' package.
Uses == (Repo \X Value) \cup {<<Pins, "unknown">>}

RunShape(g) ==
    /\ g = [pc |-> g.pc, archive |-> g.archive, sources |-> g.sources, todo |-> g.todo,
            building |-> g.building, checks |-> g.checks, used |-> g.used, code |-> g.code,
            report |-> g.report]
    /\ g.pc \in {"off", "start", "inputs", "fetch", "checks", "ended", "killed"}
    /\ g.archive \in Content \cup {None}
    /\ g.sources \in [Repo -> Value \cup {None}]
    /\ g.used \subseteq Uses
    /\ g.pc = "ended" => g.code \in {0, 1}
    /\ g.pc # "ended" => ~IsVerdict(g.report)
    /\ IsVerdict(g.report) => g.report.used \subseteq Uses

\* What was identified, what was used and what is there now lie one below the
\* other: if the last is the first, so is all that was used between them.
Ascending(g, t) ==
    /\ g.pc \in {"off", "start", "inputs"} => g.used = {}
    /\ g.pc = "start" => \A r \in Repo : g.sources[r] = None
    /\ g.pc = "inputs" =>
          \A r \in Repo : g.sources[r] = None \/ Below(g.sources[r], SourceOf(g, t, r))
    /\ g.pc \in {"fetch", "checks"} =>
          /\ \A r \in Repo : Below(g.sources[r], SourceOf(g, t, r))
          /\ \A u \in g.used : u[1] # Pins =>
                Below(g.sources[u[1]], u[2]) /\ Below(u[2], SourceOf(g, t, u[1]))

RunInv(g, t) == RunShape(g) /\ Ascending(g, t) /\ Genuine(g.report)

----------------------------------------------------------------------------
(* The inductive invariant.                                                 *)

Trees ==
    /\ tree \in [Repo -> Content]
    /\ frozen \in [Repo -> Content] \cup {None}
    /\ edits \in 0 .. MaxEdits
    /\ \A r \in Repo : tree[r].code <= edits

Codes == {None, 0, 1, 124}

Row == [code : Codes, passed : BOOLEAN, used : SUBSET Uses]

LauncherShape ==
    /\ launcher = [pc |-> launcher.pc, known |-> launcher.known,
                   inventory |-> launcher.inventory, clone |-> launcher.clone,
                   code |-> launcher.code, interrupted |-> launcher.interrupted,
                   left |-> launcher.left]
    /\ launcher.pc \in {"off", "prepare", "launch", "wait", "remove", "reap", "report",
                        "ended", "aborted"}
    /\ launcher.clone \in [Repo -> Content \cup {None}]
    /\ launcher.interrupted \in BOOLEAN /\ launcher.left \in BOOLEAN

Shapes ==
    /\ LauncherShape
    /\ client \in {"none", "up", "exited"}
    /\ box = [pc |-> box.pc, mode |-> box.mode, code |-> box.code]
    /\ box.pc \in {"none", "load", "ready", "run", "grace", "collect", "final", "exited",
                   "gone"}
    /\ box.mode \in 1 .. Modes
    /\ box.code \in Codes
    /\ group \in [1 .. Modes -> SUBSET {"wrapper", "child"}]
    /\ ws \in [Repo -> Value \cup {None}]
    /\ rows \in Seq(Row)
    /\ checkpoint \in {None} \cup [passed : BOOLEAN]

\* The verdict of the checkpoint is that it passed.
Passed == checkpoint # None /\ checkpoint.passed

\* Nothing is cloned before there are frozen identities, and only what they
\* name; the container exists only after all is cloned.
Launched ==
    /\ launcher.pc # "off" => frozen # None
    /\ \A r \in Repo : launcher.clone[r] # None =>
          launcher.pc # "off" /\ launcher.clone[r] = frozen[r]
    /\ client # "none" => launcher.clone = frozen /\ frozen # None
    /\ launcher.pc = "launch" => launcher.clone = frozen
    /\ launcher.pc \in {"wait", "remove", "reap"} => client # "none"
    /\ launcher.pc \in {"off", "prepare", "launch"} => client = "none"
    /\ client = "none" => box.pc = "none"

\* The container is gone, or docker did not remove it.
Over == box.pc = "gone" \/ (launcher.left /\ box.pc # "none")

\* What the launcher knows of the container's end.
Awaited ==
    /\ launcher.pc \in {"off", "prepare", "launch", "wait"} => ~launcher.interrupted
    /\ launcher.pc = "wait" /\ client = "exited" => box.pc = "gone"
    /\ launcher.pc = "remove" /\ ~launcher.interrupted => box.pc # "none"
    /\ launcher.pc = "reap" /\ ~launcher.interrupted => Over
    /\ launcher.pc \in {"report", "ended"} => Over
    /\ box.pc = "exited" /\ box.code = 0 => Passed
    /\ launcher.pc = "wait" /\ box.pc = "gone" /\ box.code = 0 => Passed
    /\ launcher.code = 0 => box.pc = "gone" /\ Passed
    /\ host # None => launcher.pc = "ended" /\ host.code = launcher.code

\* The modes so far, and what is alive of them.
Counted ==
    /\ box.pc \in {"none", "load"} => box.mode = 1 /\ rows = <<>>
    /\ box.pc \in {"ready", "run", "grace", "collect"} => Len(rows) = box.mode - 1
    /\ Len(rows) <= box.mode
    /\ Passed => Len(rows) = Modes /\ box.pc \in {"exited", "gone"}
    /\ box.pc \in {"none", "gone"} => \A m \in 1 .. Modes : group[m] = {}
    /\ box.pc = "collect" /\ box.code = 124 => group[box.mode] = {}
    /\ TimedOutIsOver

\* The workspace holds the frozen sources, or was disturbed since.
Filled == frozen # None /\ \A r \in Repo : ws[r] \in {frozen[r], Dirty}

\* u was read when the workspace held the frozen sources, or it is disturbed now.
Drawn(u) == u[1] = Pins \/ u[2] = frozen[u[1]] \/ (u[2] = Dirty /\ ws[u[1]] = Dirty)

\* The run of the current mode.
Inner ==
    /\ RunInv(inner, ws)
    /\ inner.archive = None
    /\ inner.pc # "off" => Filled
    /\ \A u \in inner.used : Drawn(u)
    /\ IsVerdict(inner.report) => \A u \in inner.report.used : Drawn(u)

Worked ==
    /\ Inner
    /\ box.pc \in {"none", "load"} => inner.pc = "off"
    /\ box.pc \in {"ready", "run", "grace", "collect", "final"} => Filled
    /\ \A m \in DOMAIN rows : \A u \in rows[m].used : u[1] # Pins => u[2] = frozen[u[1]]

\* A record's log was written by the run it names, or it has been written since.
Records ==
    /\ gate = [pc |-> gate.pc, name |-> gate.name, code |-> gate.code, alive |-> gate.alive]
    /\ gate.pc \in {"off", "run", "grace", "record"}
    /\ gate.pc # "off" => gate.name \in Gates
    /\ record \in [Gates -> {None} \cup [passed : BOOLEAN, log : Nat, run : Nat]]
    /\ runs \in [Gates -> 0 .. MaxRuns]
    /\ log \in [Gates -> 0 .. MaxLog]
    /\ stray \subseteq Gates
    /\ \A n \in Gates : record[n] # None =>
          /\ record[n].log <= log[n]
          /\ record[n].log = log[n] => record[n].run = runs[n]

Packaged ==
    /\ pkg = [pc |-> pkg.pc, before |-> pkg.before, archive |-> pkg.archive,
              source |-> pkg.source]
    /\ {pkg.before, pkg.archive} \subseteq Content \cup {None}
    /\ pkg.source # None => pkg.pc = "done"
    /\ pkg.pc \in {"compare", "done"} =>
          pkg.archive = pkg.before /\ pkg.before.code = Initial.code
    /\ pkg.pc = "done" => pkg.source = pkg.before
    /\ index # None =>
          pkg.pc = "done" /\ index.source = pkg.source /\ index.archive = pkg.archive

\* While the final script is at work no other one is.
Quiescent ==
    /\ mac.pc \in {"off", "ended", "killed"}
    /\ gate.pc = "off"
    /\ pkg.pc \in {"off", "done", "failed"}
    /\ launcher.pc \in {"off", "ended"}
    /\ box.pc \in {"none", "gone"}

\* What ProducerAccepted found, and what of it no stray process can undo.
ProducerHeld ==
    /\ index # None
    /\ index.source = frozen[Packed]
    /\ index.archive = pkg.archive
    /\ \A n \in Gates : index.gates[n].passed /\ index.gates[n].run = runs[n]

Verified ==
    /\ fin = [pc |-> fin.pc, known |-> fin.known, file |-> fin.file]
    /\ fin.pc \in {"off", "matrix", "producer", "linux", "copy", "post", "done", "failed"}
    /\ fin.pc # "off" => Quiescent /\ frozen # None
    /\ fin.pc \notin {"off", "matrix"} => MatrixAccepted
    /\ fin.pc \notin {"off", "matrix", "producer"} => ProducerHeld
    /\ fin.pc \notin {"off", "matrix", "producer", "linux"} => LinuxAccepted
    /\ fin.file # None => fin.pc = "done" /\ fin.file.latest = runs

IInv ==
    /\ Trees /\ Shapes /\ Launched /\ Awaited /\ Counted /\ Worked
    /\ RunInv(mac, tree) /\ Records /\ Packaged /\ Verified

----------------------------------------------------------------------------
(* A step of a run.                                                         *)

\* CompositionGate!Step from the run g to the run h.
RunStep(g, h, t) ==
    \/ /\ g.pc = "start"
       /\ h = [g EXCEPT !.pc = "inputs", !.sources[Self] = t[Self], !.report = Begun]
    \/ /\ g.pc \in {"inputs", "fetch"}
       /\ \E report \in {g.report, Begun} :
             h = [g EXCEPT !.report = report, !.pc = "ended", !.code = 1]
    \/ /\ g.pc = "inputs"
       /\ \E r \in Repo : h = [g EXCEPT !.sources[r] = SourceOf(g, t, r), !.report = Begun]
    \/ /\ g.pc = "inputs"
       /\ \A r \in Repo : g.sources[r] # None
       /\ h = [g EXCEPT !.pc = "fetch", !.used = @ \cup {<<Self, t[Self]>>}, !.report = Begun]
    \/ /\ g.pc = "fetch"
       /\ h = [g EXCEPT !.pc = "checks", !.report = Begun]
    \/ /\ g.pc = "checks"
       /\ \E S \in SUBSET Repo, Q \in SUBSET {<<Pins, "unknown">>} :
             h = [g EXCEPT !.building = TRUE,
                           !.used = @ \cup ({<<r, SourceOf(g, t, r)>> : r \in S} \cup Q)]
    \/ /\ g.pc = "checks"
       /\ \E todo, checks :
             h = [g EXCEPT !.building = FALSE, !.todo = todo, !.checks = checks, !.report = Begun]
    \/ /\ g.pc = "checks"
       /\ \E passed, unchanged \in BOOLEAN :
             /\ passed => /\ unchanged
                          /\ \A i \in DOMAIN g.checks : g.checks[i].outcome # "failed"
             /\ unchanged => \A r \in Repo : SourceOf(g, t, r) = g.sources[r]
             /\ h = [g EXCEPT !.report = [passed |-> passed, unchanged |-> unchanged,
                                          sources |-> g.sources, checks |-> g.checks,
                                          used |-> g.used],
                              !.pc = "ended", !.code = IF passed THEN 0 ELSE 1]

LEMMA MacStep == ASSUME Mac!Step PROVE RunStep(mac, mac', tree)
<1>1. CASE Mac!IdentifySelf
  BY <1>1 DEF Mac!IdentifySelf, Mac!Saved, RunStep
<1>2. CASE Mac!RejectArchive
  BY <1>2 DEF Mac!RejectArchive, Mac!Ended, RunStep
<1>3. CASE \E r \in Repo : Mac!IdentifyInput(r)
  BY <1>3 DEF Mac!IdentifyInput, Mac!Saved, Mac!Source, SourceOf, RunStep
<1>4. CASE Mac!Stage
  BY <1>4 DEF Mac!Stage, Mac!Saved, RunStep
<1>5. CASE Mac!Fetch
  BY <1>5 DEF Mac!Fetch, Mac!Saved, Mac!Ended, RunStep
<1>6. CASE Mac!StartCheck
  <2>1. mac.pc = "checks"
        /\ mac' = [mac EXCEPT !.building = TRUE, !.used = @ \cup Mac!Inputs(Head(mac.todo))]
    BY <1>6 DEF Mac!StartCheck
  <2>2. PICK S \in SUBSET Repo, Q \in SUBSET {<<Pins, "unknown">>} :
           Mac!Inputs(Head(mac.todo)) = {<<r, Mac!Source(r)>> : r \in S} \cup Q
    <3>1. CASE Head(mac.todo) \in OnPins
      BY <3>1 DEF Mac!Inputs
    <3>2. CASE Head(mac.todo) \notin OnPins
      <4>1. Mac!Inputs(Head(mac.todo)) = {<<r, Mac!Source(r)>> : r \in Repo} \cup {}
        BY <3>2 DEF Mac!Inputs
      <4> QED
        BY <4>1
    <3> QED
      BY <3>1, <3>2
  <2>3. \A r : Mac!Source(r) = SourceOf(mac, tree, r)
    BY DEF Mac!Source, SourceOf
  <2>4. Mac!Inputs(Head(mac.todo)) = {<<r, SourceOf(mac, tree, r)>> : r \in S} \cup Q
    BY <2>2, <2>3
  <2> QED
    BY <2>1, <2>4 DEF RunStep
<1>7. CASE Mac!EndCheck
  <2>1. PICK outcome \in Mac!Outcome :
           mac' = [mac EXCEPT !.building = FALSE, !.todo = Tail(@),
                           !.checks = Append(@, [name |-> Head(mac.todo), outcome |-> outcome]),
                           !.report = Begun]
    BY <1>7 DEF Mac!EndCheck, Mac!Saved
  <2>2. \E todo, checks : mac' = [mac EXCEPT !.building = FALSE, !.todo = todo,
                                           !.checks = checks, !.report = Begun]
    <3> WITNESS Tail(mac.todo),
                Append(mac.checks, [name |-> Head(mac.todo), outcome |-> outcome])
    <3> QED
      BY <2>1
  <2> QED
    BY <1>7, <2>2 DEF Mac!EndCheck, RunStep
<1>8. CASE Mac!Finish
  BY <1>8 DEF Mac!Finish, Mac!Ended, Mac!Verdict, Mac!AllGreen, Mac!Unchanged, Mac!Source,
              SourceOf, RunStep
<1> QED BY <1>1, <1>2, <1>3, <1>4, <1>5, <1>6, <1>7, <1>8 DEF Mac!Step

LEMMA InnerStep == ASSUME CP!G!Step PROVE RunStep(inner, inner', ws)
<1>1. CASE CP!G!IdentifySelf
  BY <1>1 DEF CP!G!IdentifySelf, CP!G!Saved, RunStep
<1>2. CASE CP!G!RejectArchive
  BY <1>2 DEF CP!G!RejectArchive, CP!G!Ended, RunStep
<1>3. CASE \E r \in Repo : CP!G!IdentifyInput(r)
  BY <1>3 DEF CP!G!IdentifyInput, CP!G!Saved, CP!G!Source, SourceOf, RunStep
<1>4. CASE CP!G!Stage
  BY <1>4 DEF CP!G!Stage, CP!G!Saved, RunStep
<1>5. CASE CP!G!Fetch
  BY <1>5 DEF CP!G!Fetch, CP!G!Saved, CP!G!Ended, RunStep
<1>6. CASE CP!G!StartCheck
  <2>1. inner.pc = "checks"
        /\ inner' = [inner EXCEPT !.building = TRUE, !.used = @ \cup CP!G!Inputs(Head(inner.todo))]
    BY <1>6 DEF CP!G!StartCheck
  <2>2. PICK S \in SUBSET Repo, Q \in SUBSET {<<Pins, "unknown">>} :
           CP!G!Inputs(Head(inner.todo)) = {<<r, CP!G!Source(r)>> : r \in S} \cup Q
    <3>1. CASE Head(inner.todo) \in OnPins
      BY <3>1 DEF CP!G!Inputs
    <3>2. CASE Head(inner.todo) \notin OnPins
      <4>1. CP!G!Inputs(Head(inner.todo)) = {<<r, CP!G!Source(r)>> : r \in Repo} \cup {}
        BY <3>2 DEF CP!G!Inputs
      <4> QED
        BY <4>1
    <3> QED
      BY <3>1, <3>2
  <2>3. \A r : CP!G!Source(r) = SourceOf(inner, ws, r)
    BY DEF CP!G!Source, SourceOf
  <2>4. CP!G!Inputs(Head(inner.todo)) = {<<r, SourceOf(inner, ws, r)>> : r \in S} \cup Q
    BY <2>2, <2>3
  <2> QED
    BY <2>1, <2>4 DEF RunStep
<1>7. CASE CP!G!EndCheck
  <2>1. PICK outcome \in CP!G!Outcome :
           inner' = [inner EXCEPT !.building = FALSE, !.todo = Tail(@),
                           !.checks = Append(@, [name |-> Head(inner.todo), outcome |-> outcome]),
                           !.report = Begun]
    BY <1>7 DEF CP!G!EndCheck, CP!G!Saved
  <2>2. \E todo, checks : inner' = [inner EXCEPT !.building = FALSE, !.todo = todo,
                                           !.checks = checks, !.report = Begun]
    <3> WITNESS Tail(inner.todo),
                Append(inner.checks, [name |-> Head(inner.todo), outcome |-> outcome])
    <3> QED
      BY <2>1
  <2> QED
    BY <1>7, <2>2 DEF CP!G!EndCheck, RunStep
<1>8. CASE CP!G!Finish
  BY <1>8
  DEF CP!G!Finish, CP!G!Ended, CP!G!Verdict, CP!G!AllGreen, CP!G!Unchanged, CP!G!Source,
              SourceOf, RunStep
<1> QED BY <1>1, <1>2, <1>3, <1>4, <1>5, <1>6, <1>7, <1>8 DEF CP!G!Step

LEMMA BelowRefl == ASSUME NEW a PROVE Below(a, a)
  BY DEF Below

LEMMA BelowAntisym == ASSUME NEW a, NEW b, Below(a, b), Below(b, a) PROVE a = b
  BY BoundAssumption, MarkAssumption DEF Below, Content

LEMMA BelowTrans == ASSUME NEW a, NEW b, NEW c, Below(a, b), Below(b, c) PROVE Below(a, c)
  BY BoundAssumption, MarkAssumption DEF Below, Content

\* A step of a run keeps its invariant, whatever the trees hold.
LEMMA RunStepOK ==
  ASSUME NEW g, NEW h, NEW t \in [Repo -> Value], RunInv(g, t), RunStep(g, h, t)
  PROVE  RunInv(h, t)
<1>1. CASE /\ g.pc = "start"
           /\ h = [g EXCEPT !.pc = "inputs", !.sources[Self] = t[Self], !.report = Begun]
  <2>1. RunShape(h) /\ Genuine(h.report)
    BY <1>1, RepoAssumption DEF RunInv, RunShape, Genuine, IsVerdict
  <2>2. h.pc = "inputs" /\ h.used = {} /\ h.archive = g.archive
        /\ h.sources = [g.sources EXCEPT ![Self] = t[Self]]
    BY <1>1 DEF RunInv, RunShape, Ascending
  <2>3. ASSUME NEW r \in Repo
        PROVE  h.sources[r] = None \/ Below(h.sources[r], SourceOf(h, t, r))
    BY <1>1, <2>2, RepoAssumption, BelowRefl DEF RunInv, RunShape, Ascending, SourceOf
  <2> QED
    BY <2>1, <2>2, <2>3 DEF RunInv, Ascending
<1>2. CASE /\ g.pc \in {"inputs", "fetch"}
           /\ \E report \in {g.report, Begun} :
                 h = [g EXCEPT !.report = report, !.pc = "ended", !.code = 1]
  BY <1>2 DEF RunInv, RunShape, Ascending, Genuine, IsVerdict
<1>3. CASE /\ g.pc = "inputs"
           /\ \E r \in Repo : h = [g EXCEPT !.sources[r] = SourceOf(g, t, r), !.report = Begun]
  <2>1. PICK r \in Repo : h = [g EXCEPT !.sources[r] = SourceOf(g, t, r), !.report = Begun]
    BY <1>3
  <2>2. SourceOf(g, t, r) \in Value \cup {None}
    BY DEF SourceOf, RunInv, RunShape, Value
  <2>3. RunShape(h) /\ Genuine(h.report)
    BY <1>3, <2>1, <2>2 DEF RunInv, RunShape, Genuine, IsVerdict
  <2>4. h.pc = "inputs" /\ h.used = {} /\ h.archive = g.archive
        /\ h.sources = [g.sources EXCEPT ![r] = SourceOf(g, t, r)]
    BY <1>3, <2>1 DEF RunInv, RunShape, Ascending
  <2>5. ASSUME NEW q \in Repo
        PROVE  h.sources[q] = None \/ Below(h.sources[q], SourceOf(h, t, q))
    BY <1>3, <2>4, BelowRefl DEF RunInv, RunShape, Ascending, SourceOf
  <2> QED
    BY <2>3, <2>4, <2>5 DEF RunInv, Ascending
<1>4. CASE /\ g.pc = "inputs"
           /\ \A r \in Repo : g.sources[r] # None
           /\ h = [g EXCEPT !.pc = "fetch", !.used = @ \cup {<<Self, t[Self]>>}, !.report = Begun]
  <2>1. h.pc = "fetch" /\ h.used = {<<Self, t[Self]>>} /\ h.archive = g.archive
        /\ h.sources = g.sources
    BY <1>4 DEF RunInv, RunShape, Ascending
  <2>2. <<Self, t[Self]>> \in Repo \X Value
    BY RepoAssumption
  <2>3. h.report = Begun
        /\ h = [pc |-> h.pc, archive |-> h.archive, sources |-> h.sources, todo |-> h.todo,
                building |-> h.building, checks |-> h.checks, used |-> h.used, code |-> h.code,
                report |-> h.report]
    BY <1>4 DEF RunInv, RunShape
  <2>4. RunShape(h) /\ Genuine(h.report)
    BY <2>1, <2>2, <2>3 DEF RunInv, RunShape, Genuine, IsVerdict, Uses
  <2>5. ASSUME NEW r \in Repo
        PROVE  Below(h.sources[r], SourceOf(h, t, r))
    BY <1>4, <2>1 DEF RunInv, RunShape, Ascending, SourceOf
  <2>6. SourceOf(h, t, Self) = t[Self]
    BY RepoAssumption DEF SourceOf
  <2> QED
    BY <2>4, <2>1, <2>5, <2>6, RepoAssumption, BelowRefl DEF RunInv, Ascending
<1>5. CASE g.pc = "fetch" /\ h = [g EXCEPT !.pc = "checks", !.report = Begun]
  BY <1>5 DEF RunInv, RunShape, Ascending, Genuine, IsVerdict, SourceOf
<1>6. CASE /\ g.pc = "checks"
           /\ \E S \in SUBSET Repo, Q \in SUBSET {<<Pins, "unknown">>} :
                 h = [g EXCEPT !.building = TRUE,
                               !.used = @ \cup ({<<r, SourceOf(g, t, r)>> : r \in S} \cup Q)]
  <2>1. PICK S \in SUBSET Repo, Q \in SUBSET {<<Pins, "unknown">>} :
               h = [g EXCEPT !.building = TRUE,
                             !.used = @ \cup ({<<r, SourceOf(g, t, r)>> : r \in S} \cup Q)]
    BY <1>6
  <2>2. ASSUME NEW r \in Repo PROVE <<r, SourceOf(g, t, r)>> \in Repo \X Value
    BY <1>6 DEF SourceOf, RunInv, RunShape, Value
  <2>3. h.pc = "checks" /\ h.archive = g.archive /\ h.sources = g.sources /\ h.report = g.report
        /\ h.used = g.used \cup ({<<r, SourceOf(g, t, r)>> : r \in S} \cup Q)
    BY <1>6, <2>1 DEF RunInv, RunShape
  <2>4. h.used \subseteq Uses
    BY <2>2, <2>3 DEF RunInv, RunShape, Uses
  <2>5. h = [pc |-> h.pc, archive |-> h.archive, sources |-> h.sources, todo |-> h.todo,
             building |-> h.building, checks |-> h.checks, used |-> h.used, code |-> h.code,
             report |-> h.report]
    BY <2>1 DEF RunInv, RunShape
  <2>6. RunShape(h)
    BY <1>6, <2>3, <2>4, <2>5 DEF RunInv, RunShape
  <2>7. \A r \in Repo : SourceOf(h, t, r) = SourceOf(g, t, r)
    BY <2>3 DEF SourceOf
  <2>8. ASSUME NEW u \in h.used, u[1] # Pins
        PROVE  Below(h.sources[u[1]], u[2]) /\ Below(u[2], SourceOf(h, t, u[1]))
    <3>1. CASE u \in g.used
      BY <1>6, <2>3, <2>7, <2>8, <3>1 DEF RunInv, RunShape, Ascending, Uses
    <3>2. CASE \E r \in S : u = <<r, SourceOf(g, t, r)>>
      BY <1>6, <2>3, <2>7, <3>2, BelowRefl DEF RunInv, Ascending
    <3> QED
      BY <2>3, <2>8, <3>1, <3>2
  <2> QED
    BY <1>6, <2>3, <2>6, <2>7, <2>8 DEF RunInv, Ascending
<1>7. CASE /\ g.pc = "checks"
           /\ \E todo, checks :
                 h = [g EXCEPT !.building = FALSE, !.todo = todo, !.checks = checks,
                               !.report = Begun]
  BY <1>7 DEF RunInv, RunShape, Ascending, Genuine, IsVerdict, SourceOf
<1>8. CASE /\ g.pc = "checks"
           /\ \E passed, unchanged \in BOOLEAN :
                 /\ passed => /\ unchanged
                              /\ \A i \in DOMAIN g.checks : g.checks[i].outcome # "failed"
                 /\ unchanged => \A r \in Repo : SourceOf(g, t, r) = g.sources[r]
                 /\ h = [g EXCEPT !.report = [passed |-> passed, unchanged |-> unchanged,
                                              sources |-> g.sources, checks |-> g.checks,
                                              used |-> g.used],
                                  !.pc = "ended", !.code = IF passed THEN 0 ELSE 1]
  <2>1. PICK passed \in BOOLEAN, unchanged \in BOOLEAN :
                 /\ passed => /\ unchanged
                              /\ \A i \in DOMAIN g.checks : g.checks[i].outcome # "failed"
                 /\ unchanged => \A r \in Repo : SourceOf(g, t, r) = g.sources[r]
                 /\ h = [g EXCEPT !.report = [passed |-> passed, unchanged |-> unchanged,
                                              sources |-> g.sources, checks |-> g.checks,
                                              used |-> g.used],
                                  !.pc = "ended", !.code = IF passed THEN 0 ELSE 1]
    BY <1>8
  <2>2. RunShape(h)
    BY <2>1 DEF RunInv, RunShape
  <2>3. h.pc = "ended" /\ (h.report.passed <=> passed) /\ (h.report.unchanged <=> unchanged)
        /\ h.report.sources = g.sources /\ h.report.checks = g.checks /\ h.report.used = g.used
    BY <2>1 DEF RunInv, RunShape
  <2>4. ASSUME unchanged, NEW u \in g.used, u[1] # Pins
        PROVE  u[2] = g.sources[u[1]]
    <3>1. u[1] \in Repo
      BY <2>4 DEF RunInv, RunShape, Uses
    <3>2. Below(g.sources[u[1]], u[2]) /\ Below(u[2], g.sources[u[1]])
      BY <1>8, <2>1, <2>4, <3>1 DEF RunInv, Ascending
    <3> QED
      BY <3>2, BelowAntisym
  <2>5. Genuine(h.report)
    BY <2>1, <2>3, <2>4 DEF Genuine
  <2> QED
    BY <2>2, <2>3, <2>5 DEF RunInv, Ascending
<1> QED
  BY <1>1, <1>2, <1>3, <1>4, <1>5, <1>6, <1>7, <1>8 DEF RunStep

\* Edits of the trees, and disturbances of the workspace, keep it too.
LEMMA RiseOK ==
  ASSUME NEW g, NEW t, NEW u, RunInv(g, t), \A r \in Repo : Below(t[r], u[r])
  PROVE  RunInv(g, u)
<1>1. ASSUME NEW r \in Repo
      PROVE  Below(SourceOf(g, t, r), SourceOf(g, u, r))
  BY BelowRefl DEF SourceOf
<1>2. ASSUME NEW a, NEW r \in Repo, Below(a, SourceOf(g, t, r))
      PROVE  Below(a, SourceOf(g, u, r))
  BY <1>1, <1>2, BelowTrans
<1>3. \A v \in g.used : v[1] # Pins => v[1] \in Repo
  BY DEF RunInv, RunShape, Uses
<1> QED
  BY <1>2, <1>3 DEF RunInv, Ascending

LEMMA FreshOK ==
  ASSUME NEW t, NEW archive \in Content \cup {None}, NEW todo,
         NEW pc \in {"off", "start", "killed"}, NEW report, ~IsVerdict(report)
  PROVE  RunInv([pc |-> pc, archive |-> archive, sources |-> [r \in Repo |-> None],
                 todo |-> todo, building |-> FALSE, checks |-> <<>>, used |-> {}, code |-> None,
                 report |-> report], t)
BY DEF RunInv, RunShape, Ascending, Genuine

\* A killed run is over, and no verdict of its is left.
Dead(report) ==
    [pc |-> "killed", archive |-> None, sources |-> [r \in Repo |-> None], todo |-> <<>>,
     building |-> FALSE, checks |-> <<>>, used |-> {}, code |-> None, report |-> report]

LEMMA MacKill ==
  ASSUME Mac!Kill
  PROVE  mac.pc \notin {"off", "ended", "killed"}
         /\ \E report \in {mac.report, Torn} : mac' = Dead(report)
BY DEF Mac!Kill, Mac!Off, Mac!Fresh, Dead

LEMMA InnerKill ==
  ASSUME CP!G!Kill
  PROVE  inner.pc \notin {"off", "ended", "killed"}
         /\ \E report \in {inner.report, Torn} : inner' = Dead(report)
BY DEF CP!G!Kill, CP!G!Off, CP!G!Fresh, Dead

LEMMA DeadOK ==
  ASSUME NEW g, NEW t, NEW u, RunInv(g, t), g.pc # "ended", NEW report \in {g.report, Torn}
  PROVE  RunInv(Dead(report), u) /\ ~IsVerdict(report)
<1>1. ~IsVerdict(report)
  BY DEF RunInv, RunShape, IsVerdict
<1> QED
  BY <1>1, FreshOK DEF Dead

\* What a step reads, it reads of the trees; only a run that ends has a verdict,
\* of what it read.
LEMMA RunStepUses ==
  ASSUME NEW g, NEW h, NEW t, RunShape(g), RunStep(g, h, t)
  PROVE  /\ g.pc \in {"start", "inputs", "fetch", "checks"}
         /\ h.pc \in {"inputs", "fetch", "checks", "ended"}
         /\ h.archive = g.archive
         /\ \A u \in h.used : u[1] = Pins \/ u \in g.used
                                  \/ (u[1] \in Repo /\ u[2] = SourceOf(g, t, u[1]))
         /\ h.report \in {g.report, Begun} \/ h.report.used = g.used
<1>1. CASE /\ g.pc = "start"
           /\ h = [g EXCEPT !.pc = "inputs", !.sources[Self] = t[Self], !.report = Begun]
  BY <1>1 DEF RunShape
<1>2. CASE /\ g.pc \in {"inputs", "fetch"}
           /\ \E report \in {g.report, Begun} :
                 h = [g EXCEPT !.report = report, !.pc = "ended", !.code = 1]
  BY <1>2 DEF RunShape
<1>3. CASE /\ g.pc = "inputs"
           /\ \E r \in Repo : h = [g EXCEPT !.sources[r] = SourceOf(g, t, r), !.report = Begun]
  BY <1>3 DEF RunShape
<1>4. CASE /\ g.pc = "inputs"
           /\ \A r \in Repo : g.sources[r] # None
           /\ h = [g EXCEPT !.pc = "fetch", !.used = @ \cup {<<Self, t[Self]>>}, !.report = Begun]
  BY <1>4, RepoAssumption DEF RunShape, SourceOf
<1>5. CASE g.pc = "fetch" /\ h = [g EXCEPT !.pc = "checks", !.report = Begun]
  BY <1>5 DEF RunShape
<1>6. CASE /\ g.pc = "checks"
           /\ \E S \in SUBSET Repo, Q \in SUBSET {<<Pins, "unknown">>} :
                 h = [g EXCEPT !.building = TRUE,
                               !.used = @ \cup ({<<r, SourceOf(g, t, r)>> : r \in S} \cup Q)]
  <2>1. PICK S \in SUBSET Repo, Q \in SUBSET {<<Pins, "unknown">>} :
               h = [g EXCEPT !.building = TRUE,
                             !.used = @ \cup ({<<r, SourceOf(g, t, r)>> : r \in S} \cup Q)]
    BY <1>6
  <2>2. h.pc = "checks" /\ h.archive = g.archive /\ h.report = g.report
        /\ h.used = g.used \cup ({<<r, SourceOf(g, t, r)>> : r \in S} \cup Q)
    BY <1>6, <2>1 DEF RunShape
  <2> QED
    BY <1>6, <2>2
<1>7. CASE /\ g.pc = "checks"
           /\ \E todo, checks :
                 h = [g EXCEPT !.building = FALSE, !.todo = todo, !.checks = checks,
                               !.report = Begun]
  BY <1>7 DEF RunShape
<1>8. CASE /\ g.pc = "checks"
           /\ \E passed, unchanged \in BOOLEAN :
                 /\ passed => /\ unchanged
                              /\ \A i \in DOMAIN g.checks : g.checks[i].outcome # "failed"
                 /\ unchanged => \A r \in Repo : SourceOf(g, t, r) = g.sources[r]
                 /\ h = [g EXCEPT !.report = [passed |-> passed, unchanged |-> unchanged,
                                              sources |-> g.sources, checks |-> g.checks,
                                              used |-> g.used],
                                  !.pc = "ended", !.code = IF passed THEN 0 ELSE 1]
  BY <1>8 DEF RunShape
<1> QED
  BY <1>1, <1>2, <1>3, <1>4, <1>5, <1>6, <1>7, <1>8 DEF RunStep

----------------------------------------------------------------------------
(* The launcher and the container.                                          *)

\* The parts of the invariant their steps can disturb.
Container == Shapes /\ Launched /\ Awaited /\ Counted /\ Worked

LEMMA LauncherFrame ==
  ASSUME LauncherShape, UNCHANGED launcher
  PROVE  LauncherShape'
BY DEF LauncherShape

LEMMA CountedFrame ==
  ASSUME Counted, UNCHANGED <<box, group, rows, checkpoint>>
  PROVE  Counted'
BY DEF Counted, TimedOutIsOver, CP!TimedOutIsOver, Passed

LEMMA InnerFrame ==
  ASSUME Inner, UNCHANGED <<frozen, ws, inner>>
  PROVE  Inner'
BY DEF Inner, RunInv, RunShape, Ascending, SourceOf, Genuine, Filled, Drawn

\* When a mode is over, or the container, nothing is left of the mode's run.
LEMMA OffOK ==
  ASSUME inner' = CP!G!Off
  PROVE  Inner' /\ inner'.pc = "off"
<1> DEFINE off == [pc |-> "off", archive |-> None, sources |-> [r \in Repo |-> None],
                   todo |-> <<>>, building |-> FALSE, checks |-> <<>>, used |-> {},
                   code |-> None, report |-> None]
<1>1. inner' = off
  BY DEF CP!G!Off, CP!G!Fresh
<1>2. ~IsVerdict(None)
  BY DEF IsVerdict
<1>3. RunInv(off, ws')
  BY <1>2, FreshOK
<1>4. off.pc = "off" /\ off.archive = None /\ off.used = {} /\ off.report = None
  OBVIOUS
<1> HIDE DEF off
<1> QED
  BY <1>1, <1>2, <1>3, <1>4 DEF Inner

LEMMA WorkedFrame ==
  ASSUME Worked, UNCHANGED <<frozen, box, ws, inner, rows>>
  PROVE  Worked'
BY InnerFrame DEF Worked, Filled

LEMMA PrepareOK ==
  ASSUME Trees, Container, CP!Prepare,
         UNCHANGED <<tree, frozen, box, ws, group, inner, rows, checkpoint>>
  PROVE  Container'
<1>1. Counted' /\ Worked'
  BY CountedFrame, WorkedFrame DEF Container
<1>2. CASE CP!Authorize
  BY <1>1, <1>2
  DEF Container, Shapes, LauncherShape, Launched, Awaited, Over, Passed, CP!Authorize
<1>3. CASE \E r \in Repo : CP!Identify(r)
  BY <1>1, <1>3
  DEF Container, Shapes, LauncherShape, Launched, Awaited, Over, Passed, CP!Identify, CP!Abort
<1>4. CASE \E r \in Repo : CP!TakeInventory(r)
  BY <1>1, <1>4
  DEF Container, Shapes, LauncherShape, Launched, Awaited, Over, Passed, CP!TakeInventory
<1>5. ASSUME NEW r \in Repo, CP!Overlay(r)
      PROVE  Shapes' /\ Launched' /\ Awaited'
  <2>1. \/ /\ tree[r] = frozen[r] /\ tree[r] \in Content
           /\ launcher' = [launcher EXCEPT !.clone[r] = tree[r]]
        \/ launcher' = [launcher EXCEPT !.pc = "aborted"]
    BY <1>5 DEF Trees, CP!Overlay, CP!CloneAccepted, CP!Abort
  <2>2. launcher.pc = "prepare" /\ UNCHANGED <<client, host>>
    BY <1>5 DEF CP!Overlay
  <2>3. Shapes'
    BY <2>1, <2>2 DEF Container, Shapes, LauncherShape
  <2>4. Launched'
    BY <2>1, <2>2 DEF Container, Shapes, LauncherShape, Launched
  <2>5. Awaited'
    BY <2>1, <2>2 DEF Container, Shapes, LauncherShape, Awaited, Over, Passed
  <2> QED
    BY <2>3, <2>4, <2>5
<1>6. CASE CP!Bundle
  BY <1>1, <1>6
  DEF Trees, Container, Shapes, LauncherShape, Launched, Awaited, Over, Passed, CP!Bundle,
      CP!Abort
<1>7. CASE CP!Launch
  BY <1>1, <1>7
  DEF Container, Shapes, LauncherShape, Launched, Awaited, Over, Passed, CP!Launch, CP!Abort
<1> QED
  BY <1>1, <1>2, <1>3, <1>4, <1>5, <1>6, <1>7 DEF CP!Prepare, Container

LEMMA AwaitOK ==
  ASSUME Container, CP!Await \/ CP!Interrupt \/ CP!CleanUp,
         UNCHANGED <<tree, frozen, box, ws, group, inner, rows, checkpoint>>
  PROVE  Container'
<1>1. Counted' /\ Worked'
  BY CountedFrame, WorkedFrame DEF Container
<1>2. CASE CP!ClientDone
  BY <1>1, <1>2
  DEF Container, Shapes, LauncherShape, Launched, Awaited, Over, Passed, CP!ClientDone
<1>3. CASE CP!LauncherTimeout
  <2>1. /\ launcher.pc = "wait" /\ client = "up" /\ box.pc # "none"
        /\ launcher' = [launcher EXCEPT !.pc = "remove", !.code = 124]
        /\ UNCHANGED <<client, host>>
    BY <1>3 DEF CP!LauncherTimeout
  <2>2. Shapes' /\ Launched'
    BY <2>1 DEF Container, Shapes, LauncherShape, Launched
  <2>3. Awaited'
    BY <2>1 DEF Container, Shapes, LauncherShape, Awaited, Over, Passed
  <2> QED
    BY <1>1, <2>2, <2>3 DEF Container
<1>4. CASE CP!Interrupt
  BY <1>1, <1>4, MarkAssumption
  DEF Container, Shapes, LauncherShape, Launched, Awaited, Over, Passed, CP!Interrupt
<1>5. CASE CP!Reap
  <2>1. launcher.pc = "reap" /\ client' = "exited" /\ UNCHANGED host
    BY <1>5 DEF CP!Reap
  <2>2. /\ launcher' = [launcher EXCEPT !.pc = launcher'.pc]
        /\ launcher'.pc = IF launcher.interrupted THEN "aborted" ELSE "report"
    BY <1>5 DEF CP!Reap, Container, Shapes, LauncherShape
  <2>3. Shapes' /\ Launched'
    BY <2>1, <2>2 DEF Container, Shapes, LauncherShape, Launched
  <2>4. Awaited'
    BY <2>1, <2>2 DEF Container, Shapes, LauncherShape, Awaited, Over, Passed
  <2> QED
    BY <1>1, <2>3, <2>4 DEF Container
<1>6. CASE CP!ReportHost
  BY <1>1, <1>6
  DEF Container, Shapes, LauncherShape, Launched, Awaited, Over, Passed, CP!ReportHost
<1> QED
  BY <1>1, <1>2, <1>3, <1>4, <1>5, <1>6 DEF CP!Await, CP!CleanUp, Container

\* While the script works in the container the launcher knows nothing of its end.
LEMMA ScriptFrame ==
  ASSUME Launched, Awaited, UNCHANGED <<frozen, launcher, client, host>>,
         box.pc \notin {"none", "exited", "gone"}, box'.pc \notin {"none", "exited", "gone"}
  PROVE  Launched' /\ Awaited'
BY DEF Launched, Awaited, Over, Passed

LEMMA InnerStepOK ==
  ASSUME Trees, Shapes, Inner, CP!G!Step, UNCHANGED <<frozen, ws>>
  PROVE  Inner' /\ inner.pc # "off"
<1>1. RunShape(inner) /\ RunStep(inner, inner', ws)
  BY InnerStep DEF Inner, RunInv
<1>2. /\ inner.pc # "off" /\ inner'.pc # "off"
      /\ inner'.archive = None
      /\ \A u \in inner'.used :
            u[1] = Pins \/ u \in inner.used
            \/ (u[1] \in Repo /\ u[2] = SourceOf(inner, ws, u[1]))
      /\ inner'.report \in {inner.report, Begun} \/ inner'.report.used = inner.used
  BY <1>1, RunStepUses DEF Inner
<1>3. Filled /\ ws \in [Repo -> Value]
  BY <1>2 DEF Inner, Filled, Shapes, LauncherShape, Trees, Value
<1>4. RunInv(inner', ws)
  BY <1>1, <1>3, RunStepOK DEF Inner
<1>5. \A r \in Repo : SourceOf(inner, ws, r) = ws[r]
  BY DEF SourceOf, Inner
<1>6. \A u \in inner'.used : Drawn(u)
  BY <1>2, <1>3, <1>5 DEF Inner, Drawn, Filled
<1>7. IsVerdict(inner'.report) => \A u \in inner'.report.used : Drawn(u)
  BY <1>2 DEF Inner, IsVerdict
<1> QED
  BY <1>2, <1>3, <1>4, <1>6, <1>7 DEF Inner, RunInv, RunShape, Ascending, SourceOf, Genuine,
     Filled, Drawn

LEMMA InnerKillOK ==
  ASSUME Inner, CP!G!Kill, UNCHANGED <<frozen, ws>>
  PROVE  Inner' /\ inner.pc # "off"
<1>1. PICK report \in {inner.report, Torn} : inner' = Dead(report)
  BY InnerKill
<1>2. inner.pc # "off" /\ inner.pc # "ended"
  BY InnerKill
<1>3. RunInv(Dead(report), ws) /\ ~IsVerdict(report)
  BY <1>2, DeadOK DEF Inner
<1>4. inner'.archive = None /\ inner'.used = {} /\ inner'.report = report
  BY <1>1 DEF Dead
<1>5. RunInv(inner', ws')
  BY <1>1, <1>3
<1> QED
  BY <1>2, <1>3, <1>4, <1>5 DEF Inner, Filled

\* A gate that survived goes on as it was; one that did not is dead.
LEMMA SurvivorsOK ==
  ASSUME Shapes, Inner, NEW alive \in SUBSET {"wrapper", "child"}, CP!Survivors(alive),
         UNCHANGED <<frozen, ws>>
  PROVE  /\ Inner'
         /\ inner' = inner \/ inner.pc # "off"
         /\ group' = [group EXCEPT ![box.mode] = alive]
<1>1. CASE CP!G!Kill
  BY <1>1, InnerKillOK DEF CP!Survivors
<1>2. CASE UNCHANGED inner
  BY <1>2, InnerFrame DEF CP!Survivors
<1> QED
  BY <1>1, <1>2 DEF CP!Survivors

LEMMA LoadOK ==
  ASSUME Trees, Container, CP!CreateContainer \/ CP!Load,
         UNCHANGED <<frozen, launcher, client, host>>
  PROVE  Container'
<1>1. CASE CP!CreateContainer
  <2>1. box' = [box EXCEPT !.pc = "load"] /\ UNCHANGED <<ws, group, inner, rows, checkpoint>>
        /\ client = "up" /\ box.pc = "none"
    BY <1>1 DEF CP!CreateContainer
  <2>2. Shapes' /\ box'.pc = "load" /\ box'.mode = box.mode /\ box'.code = box.code
    BY <2>1, LauncherFrame DEF Container, Shapes
  <2>3. Launched' /\ Awaited'
    BY <2>1, <2>2 DEF Container, Launched, Awaited, Over, Passed
  <2>4. Counted'
    BY <2>1, <2>2 DEF Container, Counted, Passed, TimedOutIsOver, CP!TimedOutIsOver
  <2>5. Worked'
    BY <2>1, <2>2, InnerFrame DEF Container, Worked
  <2> QED
    BY <2>2, <2>3, <2>4, <2>5 DEF Container
<1>2. CASE CP!Load
  <2>1. /\ box.pc = "load" /\ UNCHANGED <<group, inner, rows, checkpoint>>
        /\ \/ ws' = launcher.clone /\ box' = [box EXCEPT !.pc = "ready"]
           \/ UNCHANGED ws /\ box' = [box EXCEPT !.pc = "exited", !.code = 1]
    BY <1>2 DEF CP!Load
  <2>2. launcher.clone = frozen /\ frozen # None
    BY <2>1 DEF Container, Launched
  <2>3. Shapes' /\ box'.mode = box.mode
        /\ \/ box'.pc = "ready" /\ ws' = launcher.clone
           \/ box'.pc = "exited" /\ box'.code = 1 /\ UNCHANGED ws
    <3>1. launcher.clone \in [Repo -> Value \cup {None}]
      BY DEF Container, Shapes, LauncherShape, Value
    <3>2. ws' \in [Repo -> Value \cup {None}]
      BY <2>1, <3>1 DEF Container, Shapes, LauncherShape
    <3>3. CASE ws' = launcher.clone /\ box' = [box EXCEPT !.pc = "ready"]
      BY <2>1, <3>2, <3>3, LauncherFrame DEF Container, Shapes
    <3>4. CASE UNCHANGED ws /\ box' = [box EXCEPT !.pc = "exited", !.code = 1]
      BY <2>1, <3>4, LauncherFrame DEF Container, Shapes, Codes
    <3> QED
      BY <2>1, <3>3, <3>4
  <2>4. Launched' /\ Awaited'
    BY <2>1, <2>3 DEF Container, Launched, Awaited, Over, Passed
  <2>5. Counted'
    BY <2>1, <2>3
    DEF Container, Counted, Passed, TimedOutIsOver, CP!TimedOutIsOver, Shapes, LauncherShape
  <2>6. inner.pc = "off" /\ inner.used = {} /\ ~IsVerdict(inner.report)
    BY <2>1 DEF Container, Worked, Inner, RunInv, RunShape, Ascending
  <2>7. Inner'
    <3>1. RunInv(inner, ws')
      BY <2>6 DEF Container, Worked, Inner, RunInv, Ascending
    <3>2. RunInv(inner', ws')
      BY <2>1, <3>1
    <3>3. inner'.archive = None /\ inner'.pc = "off" /\ inner'.used = {}
          /\ ~IsVerdict(inner'.report)
      BY <2>1, <2>6 DEF Container, Worked, Inner
    <3> QED
      BY <3>2, <3>3 DEF Inner
  <2>8. box'.pc = "ready" => Filled'
    BY <2>1, <2>2, <2>3 DEF Filled
  <2>9. Worked'
    BY <2>1, <2>3, <2>7, <2>8 DEF Container, Worked
  <2> QED
    BY <2>3, <2>4, <2>5, <2>9 DEF Container
<1> QED
  BY <1>1, <1>2

\* What the current mode leaves alive is no matter of the rows of the earlier ones.
LEMMA ModeGroup ==
  ASSUME Shapes, Counted, box.pc \in {"ready", "run", "grace"}, UNCHANGED rows,
         NEW alive \in SUBSET {"wrapper", "child"}, group' = [group EXCEPT ![box.mode] = alive]
  PROVE  TimedOutIsOver' /\ group' \in [1 .. Modes -> SUBSET {"wrapper", "child"}]
         /\ group'[box.mode] = alive
<1>1. Len(rows) = box.mode - 1 /\ box.mode \in Nat
  BY BoundAssumption DEF Counted, Shapes, LauncherShape
<1>2. DOMAIN rows = 1 .. Len(rows) /\ Len(rows) \in Nat
  BY LenProperties DEF Shapes, LauncherShape
<1>3. \A m \in DOMAIN rows : group'[m] = group[m]
  BY <1>1, <1>2 DEF Shapes, LauncherShape
<1> QED
  BY <1>3 DEF Shapes, LauncherShape, Counted, TimedOutIsOver, CP!TimedOutIsOver

\* A step of the script, or of what it started, between the loading and the end.
LEMMA ModeOK ==
  ASSUME Trees, Container, UNCHANGED <<frozen, launcher, client, host>>,
         CP!StartMode \/ (box.pc \in {"run", "grace"} /\ CP!RunGate) \/ CP!WrapperDies
         \/ CP!GateReturned \/ CP!Terminate \/ CP!KillGroup
  PROVE  Container'
<1>1. CASE CP!StartMode
  <2>1. /\ box.pc = "ready" /\ box' = [box EXCEPT !.pc = "run", !.code = None]
        /\ group' = [group EXCEPT ![box.mode] = {"wrapper"}]
        /\ inner' = CP!G!Fresh(None, LinuxChecks)
        /\ UNCHANGED <<ws, rows, checkpoint>>
    BY <1>1 DEF CP!StartMode
  <2>2. Shapes' /\ box'.pc = "run" /\ box'.mode = box.mode
    BY <2>1, LauncherFrame DEF Container, Shapes, Codes
  <2>3. Launched' /\ Awaited'
    BY <2>1, <2>2, ScriptFrame DEF Container
  <2>4. Counted'
    <3>1. TimedOutIsOver'
      BY <2>1, ModeGroup DEF Container
    <3> QED
      BY <2>1, <2>2, <3>1 DEF Container, Counted, Passed
  <2>5. inner' = [pc |-> "start", archive |-> None, sources |-> [r \in Repo |-> None],
                  todo |-> LinuxChecks, building |-> FALSE, checks |-> <<>>, used |-> {},
                  code |-> None, report |-> None]
    BY <2>1 DEF CP!G!Fresh
  <2>6. inner'.archive = None /\ inner'.used = {} /\ ~IsVerdict(inner'.report)
    BY <2>5 DEF IsVerdict
  <2>7. RunInv(inner', ws')
    BY <2>5, FreshOK DEF IsVerdict
  <2>8. Filled /\ Filled'
    BY <2>1 DEF Container, Worked, Filled
  <2>9. Inner'
    BY <2>6, <2>7, <2>8 DEF Inner
  <2> QED
    BY <2>1, <2>2, <2>3, <2>4, <2>8, <2>9 DEF Container, Worked
<1>2. CASE box.pc \in {"run", "grace"} /\ CP!RunGate
  <2>1. /\ CP!G!Step /\ UNCHANGED <<box, ws, rows, checkpoint>>
        /\ \E alive \in SUBSET {"wrapper", "child"} :
              group' = [group EXCEPT ![box.mode] = alive]
    BY <1>2 DEF CP!RunGate
  <2>2. Shapes'
    BY <2>1, LauncherFrame DEF Container, Shapes
  <2>3. Launched' /\ Awaited'
    BY <1>2, <2>1, ScriptFrame DEF Container
  <2>4. Counted'
    <3>1. TimedOutIsOver'
      BY <1>2, <2>1, ModeGroup DEF Container
    <3> QED
      BY <1>2, <2>1, <3>1 DEF Container, Counted, Passed
  <2>5. Inner'
    BY <2>1, InnerStepOK DEF Container, Worked
  <2> QED
    BY <1>2, <2>1, <2>2, <2>3, <2>4, <2>5 DEF Container, Worked, Filled
<1>3. CASE CP!WrapperDies
  <2>1. /\ CP!G!Kill /\ UNCHANGED <<box, ws, rows, checkpoint>> /\ box.pc = "run"
        /\ group' = [group EXCEPT ![box.mode] = group[box.mode] \ {"wrapper"}]
    BY <1>3 DEF CP!WrapperDies
  <2>2. group[box.mode] \ {"wrapper"} \in SUBSET {"wrapper", "child"}
    BY DEF Container, Shapes, LauncherShape
  <2>3. TimedOutIsOver' /\ Shapes'
    BY <2>1, <2>2, ModeGroup, LauncherFrame DEF Container, Shapes
  <2>4. Launched' /\ Awaited'
    BY <2>1, ScriptFrame DEF Container
  <2>5. Counted'
    BY <2>1, <2>3 DEF Container, Counted, Passed
  <2>6. Inner'
    BY <2>1, InnerKillOK DEF Container, Worked
  <2> QED
    BY <2>1, <2>3, <2>4, <2>5, <2>6 DEF Container, Worked, Filled
<1>4. CASE CP!GateReturned
  <2>1. /\ UNCHANGED <<ws, group, inner, rows, checkpoint>> /\ box.pc = "run"
        /\ box' = [box EXCEPT !.pc = "collect",
                              !.code = IF inner.pc = "ended" THEN inner.code ELSE 1]
    BY <1>4 DEF CP!GateReturned
  <2>2. (IF inner.pc = "ended" THEN inner.code ELSE 1) \in {0, 1}
    BY DEF Container, Worked, Inner, RunInv, RunShape
  <2>3. box'.pc = "collect" /\ box'.mode = box.mode /\ box'.code \in {0, 1} /\ Shapes'
    BY <2>1, <2>2, LauncherFrame DEF Container, Shapes, Codes
  <2>4. Launched' /\ Awaited'
    BY <2>1, <2>3, ScriptFrame DEF Container
  <2>5. Counted'
    BY <2>1, <2>3 DEF Container, Counted, Passed, TimedOutIsOver, CP!TimedOutIsOver
  <2>6. Inner'
    BY <2>1, InnerFrame DEF Container, Worked
  <2> QED
    BY <2>1, <2>3, <2>4, <2>5, <2>6 DEF Container, Worked, Filled
<1>5. CASE CP!Terminate
  <2>1. PICK alive \in SUBSET group[box.mode] :
           /\ CP!Survivors(alive) /\ UNCHANGED <<ws, rows, checkpoint>> /\ box.pc = "run"
           /\ box' = [box EXCEPT !.pc = "grace"]
    BY <1>5 DEF CP!Terminate
  <2>2. alive \in SUBSET {"wrapper", "child"}
    BY DEF Container, Shapes, LauncherShape
  <2>3. Inner' /\ group' = [group EXCEPT ![box.mode] = alive]
    BY <2>1, <2>2, SurvivorsOK DEF Container, Worked
  <2>4. box'.pc = "grace" /\ box'.mode = box.mode /\ box'.code = box.code
    BY <2>1 DEF Container, Shapes, LauncherShape
  <2>5. TimedOutIsOver' /\ group' \in [1 .. Modes -> SUBSET {"wrapper", "child"}]
    BY <2>1, <2>2, <2>3, ModeGroup DEF Container
  <2>6. Shapes'
    BY <2>1, <2>5, LauncherFrame DEF Container, Shapes
  <2>7. Launched' /\ Awaited'
    BY <2>1, <2>4, ScriptFrame DEF Container
  <2>8. Counted'
    BY <2>1, <2>4, <2>5 DEF Container, Counted, Passed
  <2> QED
    BY <2>1, <2>3, <2>4, <2>6, <2>7, <2>8 DEF Container, Worked, Filled
<1>6. CASE CP!KillGroup
  <2>1. /\ CP!Survivors({}) /\ UNCHANGED <<ws, rows, checkpoint>> /\ box.pc = "grace"
        /\ box' = [box EXCEPT !.pc = "collect", !.code = 124]
    BY <1>6 DEF CP!KillGroup
  <2>2. Inner' /\ group' = [group EXCEPT ![box.mode] = {}]
    BY <2>1, SurvivorsOK DEF Container, Worked
  <2>3. box'.pc = "collect" /\ box'.mode = box.mode /\ box'.code = 124
    BY <2>1 DEF Container, Shapes, LauncherShape
  <2>4. TimedOutIsOver' /\ group' \in [1 .. Modes -> SUBSET {"wrapper", "child"}]
        /\ group'[box.mode] = {}
    BY <2>1, <2>2, ModeGroup DEF Container
  <2>5. Shapes'
    BY <2>1, <2>4, LauncherFrame DEF Container, Shapes, Codes
  <2>6. Launched' /\ Awaited'
    BY <2>1, <2>3, ScriptFrame DEF Container
  <2>7. Counted'
    BY <2>1, <2>3, <2>4 DEF Container, Counted, Passed
  <2> QED
    BY <2>1, <2>2, <2>3, <2>5, <2>6, <2>7 DEF Container, Worked, Filled
<1> QED
  BY <1>1, <1>2, <1>3, <1>4, <1>5, <1>6

\* A disturbance is seen: what it touched is not what was frozen any more.
LEMMA DisturbOK ==
  ASSUME Trees, Container, CP!Disturb, UNCHANGED <<frozen, launcher, client, host>>
  PROVE  Container'
<1>1. /\ \E m \in 1 .. Modes : "child" \in group[m]
      /\ UNCHANGED <<box, group, inner, rows, checkpoint>>
      /\ \E r \in Touched : ws' = [ws EXCEPT ![r] = Dirty]
  BY DEF CP!Disturb
<1>2. Shapes'
  BY <1>1, LauncherFrame DEF Container, Shapes, Value
<1>3. Launched' /\ Awaited'
  BY <1>1 DEF Container, Launched, Awaited, Over, Passed
<1>4. Counted'
  BY <1>1, CountedFrame DEF Container
<1>5. \A r \in Repo : ws'[r] \in {ws[r], Dirty}
  BY <1>1 DEF Container, Shapes, LauncherShape
<1>6. RunInv(inner, ws')
  BY <1>5, RiseOK DEF Container, Worked, Inner, Below
<1>7. Filled => Filled'
  BY <1>5 DEF Filled
<1>8. \A u : u \in Uses /\ Drawn(u) => Drawn(u)'
  BY <1>5 DEF Drawn, Uses
<1>9. /\ \A u \in inner.used : u \in Uses
      /\ IsVerdict(inner.report) => \A u \in inner.report.used : u \in Uses
  BY DEF Container, Worked, Inner, RunInv, RunShape
<1>10. Inner'
  BY <1>1, <1>6, <1>7, <1>8, <1>9 DEF Container, Worked, Inner
<1> QED
  BY <1>1, <1>2, <1>3, <1>4, <1>7, <1>10 DEF Container, Worked

\* The mode's row names what the gate read; if it passed, all of that was frozen.
LEMMA CollectOK ==
  ASSUME Trees, Container, CP!Collect, UNCHANGED <<frozen, launcher, client, host>>
  PROVE  Container'
<1> DEFINE report == inner.report
           ok     == CP!ModePassed(report)
           row    == [code |-> box.code, passed |-> ok, used |-> IF ok THEN report.used ELSE {}]
<1>1. box.pc = "collect" /\ inner' = CP!G!Off /\ UNCHANGED <<ws, group>>
  BY DEF CP!Collect
<1>2. \/ box' = [box EXCEPT !.pc = "final"] /\ UNCHANGED <<rows, checkpoint>>
      \/ /\ report # Torn
         /\ rows' = Append(rows, row)
         /\ checkpoint' = [passed |-> FALSE]
         /\ box' = CP!ModeOver
  BY DEF CP!Collect
<1>3. launcher.clone = frozen /\ Filled /\ frozen \in [Repo -> Content]
  BY <1>1 DEF Container, Launched, Worked, Filled, Trees
<1>4. Len(rows) = box.mode - 1 /\ box.mode \in 1 .. Modes /\ Modes \in Nat /\ ~Passed
  BY <1>1, BoundAssumption DEF Container, Counted, Shapes, LauncherShape
<1>5. /\ Inner' /\ (Filled <=> Filled')
      /\ (IsVerdict(report) => report.used \subseteq Uses)
      /\ (IsVerdict(report) => \A u \in report.used : Drawn(u))
  BY <1>1, OffOK DEF Container, Worked, Inner, RunInv, RunShape, Filled
<1>6. CASE box' = [box EXCEPT !.pc = "final"] /\ UNCHANGED <<rows, checkpoint>>
  <2>1. box'.pc = "final" /\ box'.mode = box.mode /\ Shapes'
    BY <1>1, <1>6, LauncherFrame DEF Container, Shapes
  <2>2. Launched' /\ Awaited'
    BY <1>1, <2>1, ScriptFrame DEF Container
  <2>3. Counted'
    BY <1>1, <1>4, <1>6, <2>1
    DEF Container, Counted, Passed, TimedOutIsOver, CP!TimedOutIsOver
  <2> QED
    BY <1>3, <1>5, <1>6, <2>1, <2>2, <2>3 DEF Container, Worked
<1>7. CASE /\ report # Torn
           /\ rows' = Append(rows, row)
           /\ checkpoint' = [passed |-> FALSE]
           /\ box' = CP!ModeOver
  <2>1. /\ box'.pc \in {"final", "ready"} /\ box'.mode \in 1 .. Modes /\ box'.code = box.code
        /\ box' = [pc |-> box'.pc, mode |-> box'.mode, code |-> box'.code]
        /\ box'.pc = "final" => box'.mode = box.mode
        /\ box'.pc = "ready" => box'.mode = box.mode + 1
    <3>1. CASE box.mode = Modes
      BY <1>4, <1>7, <3>1 DEF CP!ModeOver, Container, Shapes, LauncherShape
    <3>2. CASE box.mode # Modes
      <4>1. box' = [box EXCEPT !.pc = "ready", !.mode = box.mode + 1]
        BY <1>7, <3>2 DEF CP!ModeOver
      <4>2. box.mode + 1 \in 1 .. Modes
        BY <1>4, <3>2
      <4> QED
        BY <4>1, <4>2 DEF Container, Shapes, LauncherShape
    <3> QED
      BY <3>1, <3>2
  <2>2. ok => IsVerdict(report) /\ ws = launcher.clone
    BY <1>7 DEF CP!ModePassed, IsVerdict
  <2>3. row.used \subseteq Uses /\ ok \in BOOLEAN
    BY <1>5, <2>2 DEF CP!ModePassed
  <2>4. row \in Row
    BY <2>3 DEF Row, Container, Shapes, LauncherShape
  <2>5. \A u \in row.used : u[1] # Pins => u[2] = frozen[u[1]]
    <3>1. SUFFICES ASSUME ok, NEW u \in report.used, u[1] # Pins
                   PROVE  u[2] = frozen[u[1]]
      OBVIOUS
    <3>2. u[1] \in Repo /\ Drawn(u)
      BY <1>5, <2>2, <3>1 DEF Uses
    <3>3. ws[u[1]] = frozen[u[1]] /\ frozen[u[1]] # Dirty
      BY <1>3, <2>2, <3>1, <3>2, MarkAssumption
    <3> QED
      BY <3>1, <3>2, <3>3 DEF Drawn
  <2> HIDE DEF row, ok
  <2>6. rows' \in Seq(Row) /\ Len(rows') = Len(rows) + 1 /\ rows'[Len(rows) + 1] = row
        /\ \A m \in 1 .. Len(rows) : rows'[m] = rows[m]
    BY <1>7, <2>4, AppendProperties DEF Container, Shapes, LauncherShape
  <2>7. DOMAIN rows = 1 .. Len(rows) /\ DOMAIN rows' = 1 .. Len(rows) + 1 /\ Len(rows) \in Nat
    BY <2>6, LenProperties DEF Container, Shapes, LauncherShape
  <2>8. Shapes'
    BY <1>1, <1>7, <2>1, <2>6, LauncherFrame DEF Container, Shapes
  <2>9. Launched' /\ Awaited'
    BY <1>1, <2>1, ScriptFrame DEF Container
  <2>10. TimedOutIsOver'
    <3>1. SUFFICES ASSUME NEW m \in DOMAIN rows', rows'[m].code = 124 PROVE group[m] = {}
      BY <1>1 DEF TimedOutIsOver, CP!TimedOutIsOver
    <3>2. CASE m \in DOMAIN rows
      BY <2>6, <2>7, <3>1, <3>2 DEF Container, Counted, TimedOutIsOver, CP!TimedOutIsOver
    <3>3. CASE m = box.mode
      BY <1>1, <1>4, <2>6, <3>1, <3>3 DEF Container, Counted, row
    <3> QED
      BY <1>4, <2>7, <3>2, <3>3
  <2>11. ~Passed'
    BY <1>7 DEF Passed
  <2>12. Counted'
    BY <1>4, <2>1, <2>6, <2>10, <2>11 DEF Counted
  <2>13. \A m \in DOMAIN rows' : \A u \in rows'[m].used : u[1] # Pins => u[2] = frozen'[u[1]]
    BY <2>5, <2>6, <2>7 DEF Container, Worked
  <2>14. Worked'
    BY <1>1, <1>3, <1>5, <2>1, <2>13 DEF Worked
  <2> QED
    BY <2>8, <2>9, <2>12, <2>14 DEF Container
<1> QED
  BY <1>2, <1>6, <1>7

\* The verdict, and the end of the container.
LEMMA ConcludeOK ==
  ASSUME Container, CP!Conclude, UNCHANGED <<frozen, launcher, client, host>>
  PROVE  Container'
<1> DEFINE ok == /\ Len(rows) = Modes
                 /\ \A m \in 1 .. Modes : rows[m].passed
                 /\ ws = launcher.clone
<1>1. /\ box.pc = "final" /\ UNCHANGED <<ws, group, inner, rows>>
      /\ checkpoint' = [passed |-> ok]
      /\ box' = [box EXCEPT !.pc = "exited", !.code = IF ok THEN 0 ELSE 1]
  BY DEF CP!Conclude
<1>2. ok \in BOOLEAN /\ (ok => Len(rows) = Modes)
  OBVIOUS
<1> HIDE DEF ok
<1>3. checkpoint' \in [passed : BOOLEAN] /\ checkpoint' # None /\ (Passed' <=> ok)
  <2>1. checkpoint' \in [passed : BOOLEAN]
    BY <1>1, <1>2
  <2> QED
    BY <1>1, <2>1, MarkAssumption DEF Passed
<1>4. box'.pc = "exited" /\ box'.mode = box.mode /\ box'.code = (IF ok THEN 0 ELSE 1)
  BY <1>1 DEF Container, Shapes, LauncherShape
<1>5. Shapes'
  <2>1. box'.code \in Codes /\ box' = [pc |-> box'.pc, mode |-> box'.mode, code |-> box'.code]
    BY <1>1 DEF Container, Shapes, LauncherShape, Codes
  <2> QED
    BY <1>1, <1>3, <1>4, <2>1 DEF Container, Shapes, LauncherShape
<1>6. Launched' /\ Awaited'
  BY <1>1, <1>3, <1>4 DEF Container, Launched, Awaited, Over
<1>7. Counted'
  BY <1>1, <1>2, <1>3, <1>4 DEF Container, Counted, TimedOutIsOver, CP!TimedOutIsOver
<1>8. Worked'
  BY <1>1, <1>4, InnerFrame DEF Container, Worked, Filled
<1> QED
  BY <1>5, <1>6, <1>7, <1>8 DEF Container

\* A container that goes takes with it all that could still change.
LEMMA VanishOK ==
  ASSUME Container, CP!Vanish, UNCHANGED frozen
  PROVE  /\ Counted' /\ Worked'
         /\ box' = [pc |-> "gone", mode |-> box.mode, code |-> box.code]
         /\ group' \in [1 .. Modes -> SUBSET {"wrapper", "child"}]
         /\ ws' \in [Repo -> Value \cup {None}]
         /\ UNCHANGED <<rows, checkpoint>>
<1>1. /\ box' = [pc |-> "gone", mode |-> box.mode, code |-> box.code]
      /\ group' = [m \in 1 .. Modes |-> {}] /\ inner' = CP!G!Off
      /\ ws' = [r \in Repo |-> None] /\ UNCHANGED <<rows, checkpoint>>
  BY DEF CP!Vanish, CP!Nothing, Container, Shapes, LauncherShape
<1>2. TimedOutIsOver'
  <2>1. DOMAIN rows \subseteq 1 .. Modes
    BY LenProperties, BoundAssumption DEF Container, Counted, Shapes, LauncherShape
  <2> QED
    BY <1>1, <2>1 DEF TimedOutIsOver, CP!TimedOutIsOver
<1>3. Counted'
  BY <1>1, <1>2 DEF Container, Counted, Passed
<1>4. Worked'
  BY <1>1, OffOK DEF Container, Worked
<1> QED
  BY <1>1, <1>3, <1>4

LEMMA GoneOK ==
  ASSUME Container, UNCHANGED <<tree, frozen>>, CP!RemoveContainer \/ CP!ContainerEnds
  PROVE  Container'
<1>1. CASE /\ launcher.pc = "remove" /\ UNCHANGED <<client, host>>
           /\ launcher' = [launcher EXCEPT !.pc = "reap",
                                           !.left = box.pc \notin {"none", "gone"}]
           /\ UNCHANGED CP!boxVars
  <2>1. UNCHANGED <<box, ws, group, inner, rows, checkpoint>>
    BY <1>1 DEF CP!boxVars
  <2>2. Counted' /\ Worked'
    BY <2>1, CountedFrame, WorkedFrame DEF Container
  <2>3. Shapes' /\ Launched'
    BY <1>1, <2>1 DEF Container, Shapes, LauncherShape, Launched
  <2>4. Awaited'
    BY <1>1, <2>1 DEF Container, Shapes, LauncherShape, Awaited, Over, Passed
  <2> QED
    BY <2>2, <2>3, <2>4 DEF Container
<1>2. CASE /\ launcher.pc = "remove" /\ UNCHANGED <<client, host>>
           /\ launcher' = [launcher EXCEPT !.pc = "reap"]
           /\ box.pc # "none" /\ CP!Vanish
  <2>1. /\ launcher'.pc = "reap" /\ launcher'.clone = launcher.clone
        /\ launcher'.code = launcher.code /\ launcher'.interrupted = launcher.interrupted
        /\ box'.pc = "gone" /\ box'.code = box.code /\ UNCHANGED checkpoint
    BY <1>2, VanishOK DEF Container, Shapes, LauncherShape
  <2>2. Shapes'
    BY <1>2, VanishOK DEF Container, Shapes, LauncherShape
  <2>3. Launched' /\ Awaited'
    BY <1>2, <2>1 DEF Container, Launched, Awaited, Over, Passed
  <2> QED
    BY <1>2, <2>2, <2>3, VanishOK DEF Container
<1>3. CASE CP!ContainerEnds
  <2>1. /\ box.pc = "exited" /\ CP!Vanish /\ client' = "exited" /\ UNCHANGED <<launcher, host>>
    BY <1>3 DEF CP!ContainerEnds
  <2>2. Shapes' /\ box'.pc = "gone" /\ box'.code = box.code /\ UNCHANGED checkpoint
    BY <2>1, VanishOK DEF Container, Shapes, LauncherShape
  <2>3. Launched' /\ Awaited'
    BY <2>1, <2>2 DEF Container, Launched, Awaited, Over, Passed
  <2> QED
    BY <2>1, <2>2, <2>3, VanishOK DEF Container
<1> QED
  BY <1>1, <1>2, <1>3 DEF CP!RemoveContainer

\* A step of the launcher, or of the container.
LEMMA ContainerOK ==
  ASSUME Trees, Container, CP!Next
  PROVE  Container'
<1>1. UNCHANGED <<tree, frozen>>
  BY DEF CP!Next
<1>2. CASE (CP!Prepare \/ CP!Await \/ CP!Interrupt \/ CP!CleanUp) /\ UNCHANGED CP!boxVars
  BY <1>1, <1>2, PrepareOK, AwaitOK DEF CP!boxVars
<1>3. CASE CP!Inside /\ UNCHANGED CP!hostVars
  <2>1. UNCHANGED <<launcher, client, host>>
    BY <1>3 DEF CP!hostVars
  <2> QED
    BY <1>1, <1>3, <2>1, LoadOK, ModeOK, DisturbOK, CollectOK, ConcludeOK
    DEF CP!Inside, CP!Script
<1> QED
  BY <1>1, <1>2, <1>3, GoneOK DEF CP!Next

\* Where there is nothing to launch and nothing launched, the only step starts
\* the launcher.
LEMMA AtRest ==
  ASSUME Container, CP!Next, launcher.pc \in {"off", "ended"}, box.pc \in {"none", "gone"}
  PROVE  launcher' # launcher /\ launcher.pc = "off"
<1>1. (box.pc = "none" => client = "none") /\ \A m \in 1 .. Modes : group[m] = {}
  BY DEF Container, Launched, Awaited, Over, Counted
<1>2. ~CP!Inside
  BY <1>1 DEF CP!Inside, CP!Script, CP!CreateContainer, CP!Load, CP!StartMode, CP!WrapperDies,
     CP!Disturb, CP!GateReturned, CP!Terminate, CP!KillGroup, CP!Collect, CP!Conclude
<1>3. ~CP!RemoveContainer /\ ~CP!ContainerEnds
  BY DEF CP!RemoveContainer, CP!ContainerEnds
<1>4. ~CP!Await /\ ~CP!Interrupt /\ ~CP!CleanUp
  BY DEF CP!Await, CP!ClientDone, CP!LauncherTimeout, CP!Interrupt, CP!CleanUp, CP!Reap,
     CP!ReportHost
<1>5. CP!Authorize
  BY <1>2, <1>3, <1>4 DEF CP!Next, CP!Prepare, CP!Identify, CP!TakeInventory, CP!Overlay,
     CP!Bundle, CP!Launch
<1>6. launcher.pc = "off" /\ launcher'.pc = "prepare"
  BY <1>5 DEF CP!Authorize, Container, Shapes, LauncherShape
<1> QED
  BY <1>6

----------------------------------------------------------------------------
(* The rest of the invariant, and what leaves each part of it alone.        *)

LEMMA ContainerFrame ==
  ASSUME Container, UNCHANGED <<frozen, checkpointVars>>
  PROVE  Container'
<1>1. UNCHANGED <<launcher, client, box, ws, group, inner, rows, checkpoint, host>>
  BY DEF checkpointVars
<1>2. Counted' /\ Worked'
  BY <1>1, CountedFrame, WorkedFrame DEF Container
<1> QED
  BY <1>1, <1>2 DEF Container, Shapes, LauncherShape, Launched, Awaited, Over, Passed

LEMMA TreesFrame ==
  ASSUME Trees, UNCHANGED <<tree, frozen, edits>>
  PROVE  Trees'
BY DEF Trees

LEMMA MacFrame ==
  ASSUME RunInv(mac, tree), UNCHANGED <<mac, tree>>
  PROVE  RunInv(mac, tree)'
<1>1. RunInv(mac', tree')
  OBVIOUS
<1> QED
  BY <1>1 DEF RunInv, RunShape, Ascending, SourceOf, Genuine

LEMMA RecordsFrame ==
  ASSUME Records, UNCHANGED gateVars
  PROVE  Records'
BY DEF Records, gateVars

LEMMA PackagedFrame ==
  ASSUME Packaged, UNCHANGED <<pkg, index>>
  PROVE  Packaged'
BY DEF Packaged

LEMMA VerifiedFrame ==
  ASSUME Verified, UNCHANGED <<frozen, checkpointVars, mac, gate, runs, pkg, index, fin>>
  PROVE  Verified'
BY DEF Verified, Quiescent, MatrixAccepted, MatrixComplete, ChecksAccepted, ProducerHeld,
       LinuxAccepted, checkpointVars

\* Before the final script has begun nothing is verified.
LEMMA NotVerified ==
  ASSUME Verified, fin.pc = "off", UNCHANGED fin
  PROVE  Verified'
BY DEF Verified

----------------------------------------------------------------------------
(* Each step.                                                               *)

LEMMA ContentEdits ==
  ASSUME NEW c \in Content
  PROVE  /\ [c EXCEPT !.docs = 1] = [code |-> c.code, docs |-> 1]
         /\ [c EXCEPT !.code = c.code + 1] = [code |-> c.code + 1, docs |-> c.docs]
BY DEF Content

\* An edit raises a tree, and the run on the host sees it or does not need to.
LEMMA EditOK ==
  ASSUME IInv, EditDocs \/ \E r \in Repo : EditCode(r)
  PROVE  IInv'
<1>1. UNCHANGED <<frozen, checkpointVars, mac, gateVars, pkg, index, fin>>
  BY DEF EditDocs, EditCode
<1>2. Trees' /\ \A r \in Repo : Below(tree[r], tree'[r])
  <2>1. CASE EditDocs
    <3>1. /\ tree[Packed] \in Content /\ UNCHANGED edits
          /\ tree' = [tree EXCEPT ![Packed] = [code |-> tree[Packed].code, docs |-> 1]]
      BY <2>1, RepoAssumption, ContentEdits DEF EditDocs, Trees, IInv
    <3>2. [code |-> tree[Packed].code, docs |-> 1] \in Content
      BY <3>1 DEF Content
    <3>3. /\ tree' \in [Repo -> Content]
          /\ \A r \in Repo : tree'[r].code = tree[r].code
          /\ \A r \in Repo : tree'[r] = tree[r] \/ tree'[r].docs = 1
      BY <3>1, <3>2, RepoAssumption DEF IInv, Trees
    <3>4. Trees'
      BY <1>1, <3>1, <3>3 DEF IInv, Trees
    <3>5. ASSUME NEW r \in Repo
          PROVE  Below(tree[r], tree'[r])
      <4>1. {tree[r], tree'[r]} \subseteq Content /\ tree[r] \in Content
        BY <3>3 DEF IInv, Trees
      <4>2. tree[r].code \in Nat /\ tree[r].docs \in {0, 1}
        BY <4>1, BoundAssumption DEF Content
      <4> QED
        BY <3>3, <4>1, <4>2 DEF Below
    <3> QED
      BY <3>4, <3>5
  <2>2. ASSUME NEW r \in Repo, EditCode(r)
        PROVE  Trees' /\ \A q \in Repo : Below(tree[q], tree'[q])
    <3>1. /\ tree[r] \in Content /\ edits \in Nat /\ edits < MaxEdits /\ edits' = edits + 1
          /\ tree[r].code <= edits
          /\ tree' = [tree EXCEPT ![r] = [code |-> tree[r].code + 1, docs |-> tree[r].docs]]
      <4>1. tree[r] \in Content /\ edits \in Nat /\ tree[r].code <= edits
        BY BoundAssumption DEF Trees, IInv
      <4>2. edits < MaxEdits /\ edits' = edits + 1
            /\ tree' = [tree EXCEPT ![r] = [tree[r] EXCEPT !.code = tree[r].code + 1]]
        BY <2>2 DEF EditCode
      <4> QED
        BY <4>1, <4>2, ContentEdits
    <3>2. [code |-> tree[r].code + 1, docs |-> tree[r].docs] \in Content
      BY <3>1, BoundAssumption DEF Content
    <3>3. /\ tree' \in [Repo -> Content]
          /\ \A q \in Repo : \/ tree'[q] = tree[q]
                             \/ /\ q = r
                                /\ tree'[q].code = tree[q].code + 1
                                /\ tree'[q].docs = tree[q].docs
      BY <3>1, <3>2 DEF IInv, Trees
    <3>4. \A q \in Repo : tree[q].code \in Nat /\ tree[q].docs \in {0, 1} /\ tree[q].code <= edits
      BY BoundAssumption DEF IInv, Trees, Content
    <3>5. Trees'
      BY <1>1, <3>1, <3>3, <3>4, BoundAssumption DEF IInv, Trees
    <3>6. ASSUME NEW q \in Repo
          PROVE  Below(tree[q], tree'[q])
      <4>1. {tree[q], tree'[q]} \subseteq Content
        BY <3>3 DEF IInv, Trees
      <4> QED
        BY <3>3, <3>4, <4>1 DEF Below
    <3> QED
      BY <3>5, <3>6
  <2> QED
    BY <2>1, <2>2
<1>3. RunInv(mac, tree')
  BY <1>2, RiseOK DEF IInv
<1>4. RunInv(mac, tree)'
  BY <1>1, <1>3 DEF RunInv, RunShape, Ascending, SourceOf, Genuine
<1>5. Container'
  BY <1>1, ContainerFrame DEF IInv, Container
<1>6. Verified'
  BY <1>1, VerifiedFrame DEF IInv, gateVars
<1> QED
  BY <1>1, <1>2, <1>4, <1>5, <1>6, RecordsFrame, PackagedFrame DEF IInv, Container

\* Identities are frozen once, before anything was launched.
LEMMA FreezeOK ==
  ASSUME IInv, Freeze
  PROVE  IInv'
<1>1. /\ frozen = None /\ Idle /\ frozen' = tree
      /\ UNCHANGED <<tree, checkpointVars, edits, mac, gateVars, pkg, index, fin>>
  BY DEF Freeze
<1>2. /\ launcher.pc = "off" /\ client = "none" /\ box.pc = "none" /\ rows = <<>>
      /\ inner.pc = "off" /\ inner.used = {} /\ ~IsVerdict(inner.report)
      /\ \A r \in Repo : launcher.clone[r] = None
  BY <1>1 DEF IInv, Launched, Counted, Worked, Inner, RunInv, RunShape, Ascending
<1>3. UNCHANGED <<launcher, client, box, ws, group, inner, rows, checkpoint, host>>
  BY <1>1 DEF checkpointVars
<1>4. Trees'
  BY <1>1 DEF IInv, Trees
<1>5. Shapes' /\ Awaited' /\ Counted'
  BY <1>3, CountedFrame DEF IInv, Shapes, LauncherShape, Awaited, Over, Passed
<1>6. Launched'
  BY <1>2, <1>3 DEF Launched
<1>7. Worked'
  <2>1. RunInv(inner, ws)'
    BY <1>3 DEF IInv, Worked, Inner, RunInv, RunShape, Ascending, SourceOf, Genuine
  <2>2. Inner'
    BY <1>2, <1>3, <2>1 DEF IInv, Worked, Inner
  <2> QED
    BY <1>2, <1>3, <2>2 DEF Worked
<1> QED
  BY <1>1, <1>4, <1>5, <1>6, <1>7, MacFrame, RecordsFrame, PackagedFrame, NotVerified
  DEF IInv, Idle

LEMMA LauncherOK ==
  ASSUME IInv, RunLauncher, UNCHANGED <<edits, mac, gateVars, pkg, index, fin>>
  PROVE  IInv'
<1>1. CP!Next /\ (launcher.pc = "off" /\ launcher' # launcher => Promising)
  BY DEF RunLauncher
<1>2. UNCHANGED <<tree, frozen>>
  BY <1>1 DEF CP!Next
<1>3. Container'
  BY <1>1, ContainerOK DEF IInv, Container
<1>4. fin.pc = "off"
  <2>1. SUFFICES ASSUME fin.pc # "off" PROVE FALSE
    OBVIOUS
  <2>2. launcher.pc \in {"off", "ended"} /\ box.pc \in {"none", "gone"}
    BY <2>1 DEF IInv, Verified, Quiescent
  <2>3. Promising
    BY <1>1, <2>2, AtRest DEF IInv, Container
  <2> QED
    BY <2>1, <2>3 DEF Promising, Idle
<1> QED
  BY <1>2, <1>3, <1>4, TreesFrame, MacFrame, RecordsFrame, PackagedFrame, NotVerified
  DEF IInv, Container

\* A record is never of another run than the one whose log it hashed.
LEMMA RunGateOK ==
  ASSUME IInv, RunGate, UNCHANGED <<tree, frozen, checkpointVars, edits, mac, pkg, index, fin>>
  PROVE  Records' /\ Verified'
<1>1. ASSUME NEW n \in Gates, StartGate(n)
      PROVE  Records' /\ fin.pc = "off"
  <2>1. /\ runs[n] \in Nat /\ log[n] \in Nat /\ runs[n] < MaxRuns /\ log[n] < MaxLog
        /\ gate' = [pc |-> "run", name |-> n, code |-> None, alive |-> {"wrapper", "child"}]
        /\ log' = [log EXCEPT ![n] = log[n] + 1]
        /\ runs' = [runs EXCEPT ![n] = runs[n] + 1]
        /\ UNCHANGED <<record, stray>>
    BY <1>1, BoundAssumption DEF StartGate, IInv, Records
  <2>2. runs' \in [Gates -> 0 .. MaxRuns] /\ log' \in [Gates -> 0 .. MaxLog]
    BY <2>1, BoundAssumption DEF IInv, Records
  <2>3. ASSUME NEW m \in Gates, record'[m] # None
        PROVE  record'[m].log <= log'[m] /\ (record'[m].log = log'[m] => record'[m].run = runs'[m])
    <3>1. record[m] \in [passed : BOOLEAN, log : Nat, run : Nat] /\ record[m].log <= log[m]
          /\ (record[m].log = log[m] => record[m].run = runs[m]) /\ log[m] \in Nat
      BY <2>1, <2>3, BoundAssumption DEF IInv, Records
    <3>2. CASE m = n
      BY <2>1, <3>1, <3>2 DEF IInv, Records
    <3>3. CASE m # n
      BY <2>1, <3>1, <3>3 DEF IInv, Records
    <3> QED
      BY <3>2, <3>3
  <2> QED
    BY <1>1, <2>1, <2>2, <2>3 DEF Records, IInv, StartGate, Idle
<1>2. CASE GateReturns
  BY <1>2 DEF GateReturns, Leaves, IInv, Records, Verified, Quiescent
<1>3. CASE GateTimesOut
  BY <1>3 DEF GateTimesOut, IInv, Records, Verified, Quiescent
<1>4. CASE GateGraceOver
  BY <1>4 DEF GateGraceOver, Leaves, IInv, Records, Verified, Quiescent
<1>5. CASE GateInterrupted
  BY <1>5 DEF GateInterrupted, Leaves, NoGate, IInv, Records, Verified, Quiescent
<1>6. CASE RecordGate
  <2>1. /\ gate.pc = "record" /\ gate' = NoGate /\ UNCHANGED <<log, runs, stray>>
        /\ gate.name \in Gates /\ log[gate.name] \in Nat /\ runs[gate.name] \in Nat
        /\ record' = [record EXCEPT ![gate.name] =
                         [passed |-> GatePassed, log |-> log[gate.name], run |-> runs[gate.name]]]
    BY <1>6, BoundAssumption DEF RecordGate, IInv, Records
  <2>2. [passed |-> GatePassed, log |-> log[gate.name], run |-> runs[gate.name]]
           \in [passed : BOOLEAN, log : Nat, run : Nat]
    BY <2>1 DEF GatePassed
  <2>3. record' \in [Gates -> {None} \cup [passed : BOOLEAN, log : Nat, run : Nat]]
    BY <2>1, <2>2 DEF IInv, Records
  <2>4. ASSUME NEW m \in Gates, record'[m] # None
        PROVE  record'[m].log <= log[m] /\ (record'[m].log = log[m] => record'[m].run = runs[m])
    BY <2>1, <2>4 DEF IInv, Records
  <2> QED
    BY <2>1, <2>3, <2>4 DEF IInv, Records, NoGate, Verified, Quiescent
<1>7. CASE StrayWrites
  <2>1. PICK n \in stray : log[n] < MaxLog /\ log' = [log EXCEPT ![n] = log[n] + 1]
    BY <1>7 DEF StrayWrites
  <2>2. UNCHANGED <<gate, record, runs, stray>> /\ n \in Gates /\ log[n] \in Nat
    BY <1>7, BoundAssumption DEF StrayWrites, IInv, Records
  <2>3. log' \in [Gates -> 0 .. MaxLog]
    BY <2>1, <2>2, BoundAssumption DEF IInv, Records
  <2>4. ASSUME NEW m \in Gates, record[m] # None
        PROVE  record[m].log <= log'[m] /\ (record[m].log = log'[m] => record[m].run = runs[m])
    <3>1. record[m] \in [passed : BOOLEAN, log : Nat, run : Nat] /\ record[m].log <= log[m]
          /\ (record[m].log = log[m] => record[m].run = runs[m]) /\ log[m] \in Nat
      BY <2>4, BoundAssumption DEF IInv, Records
    <3> QED
      BY <2>1, <2>2, <3>1 DEF IInv, Records
  <2>5. Records'
    BY <2>2, <2>3, <2>4 DEF IInv, Records
  <2> QED
    BY <2>2, <2>5, VerifiedFrame DEF IInv
<1> QED
  BY <1>1, <1>2, <1>3, <1>4, <1>5, <1>6, <1>7, NotVerified DEF RunGate, IInv

LEMMA PackageOK ==
  ASSUME IInv, MakePackage \/ IndexGates,
         UNCHANGED <<tree, frozen, checkpointVars, edits, mac, gateVars, fin>>
  PROVE  Packaged' /\ Verified'
<1>1. fin.pc = "off"
  BY DEF MakePackage, PackageBegin, PackageCopy, PackageEnd, IndexGates, Idle, IInv, Verified,
     Quiescent
<1>2. tree[Packed] \in Content
  BY RepoAssumption DEF IInv, Trees
<1>3. Verified'
  BY <1>1, NotVerified DEF IInv
<1>4. CASE PackageBegin /\ UNCHANGED index
  BY <1>2, <1>4, <1>3 DEF PackageBegin, IInv, Packaged
<1>5. CASE PackageCopy /\ UNCHANGED index
  <2>1. pkg.pc = "copy" /\ index = None
    BY <1>5 DEF PackageCopy, IInv, Packaged
  <2>2. CASE pkg' = [pkg EXCEPT !.pc = "failed"]
    BY <1>5, <1>3, <2>1, <2>2 DEF IInv, Packaged
  <2>3. CASE /\ tree[Packed] = pkg.before /\ tree[Packed].code = Initial.code
             /\ pkg' = [pkg EXCEPT !.pc = "compare", !.archive = tree[Packed]]
    BY <1>2, <1>5, <1>3, <2>1, <2>3 DEF IInv, Packaged
  <2> QED
    BY <1>5, <2>2, <2>3 DEF PackageCopy
<1>6. CASE PackageEnd /\ UNCHANGED index
  BY <1>6, <1>3 DEF PackageEnd, IInv, Packaged
<1>7. CASE IndexGates
  BY <1>7, <1>3 DEF IndexGates, IInv, Packaged
<1> QED
  BY <1>4, <1>5, <1>6, <1>7 DEF MakePackage

LEMMA RunMacOK ==
  ASSUME IInv, RunMac, UNCHANGED <<tree, frozen, checkpointVars, edits, gateVars, pkg, index, fin>>
  PROVE  RunInv(mac, tree)' /\ Verified'
<1>1. CASE StartMac
  <2>1. mac' = Mac!Fresh(pkg.archive, HostChecks) /\ pkg.archive \in Content \cup {None}
        /\ fin.pc = "off"
    BY <1>1 DEF StartMac, Idle, IInv, Packaged
  <2>2. mac' = [pc |-> "start", archive |-> pkg.archive, sources |-> [r \in Repo |-> None],
                todo |-> HostChecks, building |-> FALSE, checks |-> <<>>, used |-> {},
                code |-> None, report |-> None]
    BY <2>1 DEF Mac!Fresh
  <2>3. RunInv(mac', tree')
    BY <2>1, <2>2, FreshOK DEF IsVerdict
  <2> QED
    BY <2>1, <2>3, NotVerified DEF IInv, RunInv, RunShape, Ascending, SourceOf, Genuine
<1>2. CASE Mac!Step
  <2>1. RunStep(mac, mac', tree) /\ RunInv(mac, tree) /\ tree \in [Repo -> Value]
    BY <1>2, MacStep DEF IInv, Trees, Value
  <2>2. RunInv(mac', tree')
    BY <2>1, RunStepOK
  <2>3. mac.pc \in {"start", "inputs", "fetch", "checks"}
    BY <2>1, RunStepUses DEF RunInv
  <2>4. fin.pc = "off"
    BY <2>3 DEF IInv, Verified, Quiescent
  <2> QED
    BY <2>2, <2>4, NotVerified DEF IInv, RunInv, RunShape, Ascending, SourceOf, Genuine
<1>3. CASE Mac!Kill
  <2>1. mac.pc \notin {"off", "ended", "killed"}
        /\ \E report \in {mac.report, Torn} : mac' = Dead(report)
    BY <1>3, MacKill
  <2>2. RunInv(mac', tree')
    BY <2>1, DeadOK DEF IInv
  <2>3. fin.pc = "off"
    BY <2>1 DEF IInv, Verified, Quiescent
  <2> QED
    BY <2>2, <2>3, NotVerified DEF IInv, RunInv, RunShape, Ascending, SourceOf, Genuine
<1> QED
  BY <1>1, <1>2, <1>3 DEF RunMac

\* The script goes from phase to phase on what nobody changes meanwhile.
LEMMA FinalizeOK ==
  ASSUME IInv, Finalize,
         UNCHANGED <<tree, frozen, checkpointVars, edits, mac, gateVars, pkg, index>>
  PROVE  Verified'
<1>1. UNCHANGED <<launcher, box, rows, checkpoint, host, gate, runs, record, log>>
  BY DEF checkpointVars, gateVars
<1>2. /\ Quiescent' <=> Quiescent
      /\ MatrixAccepted' <=> MatrixAccepted
      /\ ProducerHeld' <=> ProducerHeld
      /\ LinuxAccepted' <=> LinuxAccepted
  BY <1>1
  DEF Quiescent, MatrixAccepted, MatrixComplete, ChecksAccepted, ProducerHeld, LinuxAccepted
<1>3. fin.file # None => fin.pc = "done"
  BY DEF IInv, Verified
<1>4. CASE FinSources
  BY <1>1, <1>2, <1>3, <1>4 DEF FinSources, Idle, IInv, Verified, Quiescent
<1>5. CASE FinMatrix
  BY <1>1, <1>2, <1>3, <1>5 DEF FinMatrix, Phase, IInv, Verified
<1>6. CASE FinProducer
  <2>1. ProducerAccepted => ProducerHeld
    BY DEF ProducerAccepted, ProducerHeld, RecordHolds, IInv, Records
  <2> QED
    BY <1>1, <1>2, <1>3, <1>6, <2>1 DEF FinProducer, Phase, IInv, Verified
<1>7. CASE FinLinux
  BY <1>1, <1>2, <1>3, <1>7 DEF FinLinux, Phase, IInv, Verified
<1>8. CASE FinCopy
  BY <1>1, <1>2, <1>3, <1>8 DEF FinCopy, Phase, IInv, Verified
<1>9. CASE FinWrite
  BY <1>1, <1>2, <1>3, <1>9 DEF FinWrite, IInv, Verified
<1> QED
  BY <1>4, <1>5, <1>6, <1>7, <1>8, <1>9 DEF Finalize

----------------------------------------------------------------------------
LEMMA InitOK == ASSUME Init PROVE IInv
<1>1. /\ launcher = [pc |-> "off", known |-> {}, inventory |-> [r \in Repo |-> None],
                     clone |-> [r \in Repo |-> None], code |-> None, interrupted |-> FALSE,
                     left |-> FALSE]
      /\ client = "none" /\ host = None
      /\ box = [pc |-> "none", mode |-> 1, code |-> None]
      /\ ws = [r \in Repo |-> None] /\ group = [m \in 1 .. Modes |-> {}]
      /\ rows = <<>> /\ checkpoint = None
  BY DEF Init, CP!Init, CP!Nothing
<1>2. /\ tree = [r \in Repo |-> Initial] /\ frozen = None /\ edits = 0
      /\ gate = NoGate /\ record = [n \in Gates |-> None] /\ log = [n \in Gates |-> 0]
      /\ runs = [n \in Gates |-> 0] /\ stray = {}
      /\ pkg = [pc |-> "off", before |-> None, archive |-> None, source |-> None]
      /\ index = None
      /\ fin = [pc |-> "off", known |-> {}, file |-> None]
  BY DEF Init
<1>3. LET off == [pc |-> "off", archive |-> None, sources |-> [r \in Repo |-> None], todo |-> <<>>,
                  building |-> FALSE, checks |-> <<>>, used |-> {}, code |-> None,
                  report |-> None]
      IN  mac = off /\ inner = off
  BY DEF Init, CP!Init, Mac!Off, Mac!Fresh, CP!G!Off, CP!G!Fresh
<1>4. RunInv(mac, tree) /\ RunInv(inner, ws) /\ ~IsVerdict(inner.report)
  BY <1>3, FreshOK DEF IsVerdict
<1>5. Trees
  BY <1>2, BoundAssumption DEF Trees, Initial, Content
<1>6. Shapes
  BY <1>1, BoundAssumption DEF Shapes, LauncherShape, Codes
<1>7. Launched /\ Awaited
  BY <1>1, MarkAssumption DEF Launched, Awaited, Over
<1>8. Counted
  BY <1>1, BoundAssumption DEF Counted, Passed, TimedOutIsOver, CP!TimedOutIsOver
<1>9. Worked
  BY <1>1, <1>3, <1>4 DEF Worked, Inner
<1>10. Records
  BY <1>2, BoundAssumption DEF Records, NoGate
<1>11. Packaged /\ Verified
  BY <1>2 DEF Packaged, Verified
<1> QED
  BY <1>4, <1>5, <1>6, <1>7, <1>8, <1>9, <1>10, <1>11 DEF IInv

LEMMA NextOK == ASSUME IInv, [Next]_vars PROVE IInv'
<1>1. CASE People
  BY <1>1, EditOK, FreezeOK DEF People
<1>2. CASE RunLauncher /\ UNCHANGED <<edits, mac, gateVars, pkg, index, fin>>
  BY <1>2, LauncherOK
<1>3. CASE RunGate /\ UNCHANGED <<tree, frozen, checkpointVars, edits, mac, pkg, index, fin>>
  BY <1>3, RunGateOK, TreesFrame, ContainerFrame, MacFrame, PackagedFrame DEF IInv, Container
<1>4. CASE (MakePackage \/ IndexGates)
           /\ UNCHANGED <<tree, frozen, checkpointVars, edits, mac, gateVars, fin>>
  BY <1>4, PackageOK, TreesFrame, ContainerFrame, MacFrame, RecordsFrame DEF IInv, Container
<1>5. CASE RunMac /\ UNCHANGED <<tree, frozen, checkpointVars, edits, gateVars, pkg, index, fin>>
  BY <1>5, RunMacOK, TreesFrame, ContainerFrame, RecordsFrame, PackagedFrame
  DEF IInv, Container
<1>6. CASE Finalize
           /\ UNCHANGED <<tree, frozen, checkpointVars, edits, mac, gateVars, pkg, index>>
  BY <1>6, FinalizeOK, TreesFrame, ContainerFrame, MacFrame, RecordsFrame, PackagedFrame
  DEF IInv, Container
<1>7. CASE UNCHANGED vars
  BY <1>7, TreesFrame, ContainerFrame, MacFrame, RecordsFrame, PackagedFrame, VerifiedFrame
  DEF IInv, Container, vars, gateVars
<1> QED
  BY <1>1, <1>2, <1>3, <1>4, <1>5, <1>6, <1>7 DEF Next

\* The inductive invariant holds in every reachable state.
THEOREM QualificationInvariant == Spec => []IInv
<1>1. Init => IInv
  BY InitOK
<1>2. IInv /\ [Next]_vars => IInv'
  BY NextOK
<1> QED
  BY <1>1, <1>2, PTL DEF Spec

----------------------------------------------------------------------------
(* What it gives.                                                           *)

\* Every variable keeps its type: the trees, what was frozen of them, and the
\* state of each script.
THEOREM QualificationTypeCorrect == Spec => []TypeOK
<1>1. IInv => TypeOK
  BY DEF IInv, Trees, Shapes, LauncherShape, Records, Value, TypeOK
<1> QED
  BY <1>1, QualificationInvariant, PTL

\* A report of check-composition.py that says "passed" or "unchanged" says it of
\* what was really built, on the host and in the container, whoever edits.
THEOREM ReportsAreTrue == Spec => []ReportsTrue
<1>1. IInv => ReportsTrue
  BY DEF IInv, Worked, Inner, RunInv, Genuine, IsVerdict, ReportsTrue, Mac!ReportTrue,
     CP!G!ReportTrue
<1> QED
  BY <1>1, QualificationInvariant, PTL

\* A mode that run_mode gave up on has no process left when its row is written.
THEOREM TimedOutModesAreOver == Spec => []TimedOutIsOver
<1>1. IInv => TimedOutIsOver
  BY DEF IInv, Counted
<1> QED
  BY <1>1, QualificationInvariant, PTL

\* host-result.json is written when the container is gone with all that ran in
\* it, unless docker did not remove it; its code is 0 only if the container ended
\* by itself and the checkpoint passed.
THEOREM HostResultIsFinal == Spec => []HostResultFinal
<1>1. IInv => HostResultFinal
  BY DEF IInv, Awaited, Over, Counted, Passed, HostResultFinal, CP!HostResultFinal
<1> QED
  BY <1>1, QualificationInvariant, PTL

\* verification.json is written only on evidence of the frozen sources: the host's
\* run, every mode of the checkpoint, the package, and the last run of each gate.
THEOREM VerificationIsTrue == Spec => []VerificationTrue
<1>1. ASSUME IInv PROVE VerificationTrue
  <2>1. SUFFICES ASSUME fin.file # None
                 PROVE  /\ \A u \in mac.report.used : u[1] # Pins => u[2] = frozen[u[1]]
                        /\ CP!CheckpointTrue /\ checkpoint.passed
                        /\ pkg.archive = frozen[Packed] /\ frozen[Packed].code = Initial.code
                        /\ \A n \in Gates : index.gates[n].passed
                                            /\ index.gates[n].run = fin.file.latest[n]
    BY DEF VerificationTrue
  <2>2. MatrixAccepted /\ ProducerHeld /\ LinuxAccepted /\ fin.file.latest = runs
    BY <1>1, <2>1 DEF IInv, Verified
  <2>3. \A u \in mac.report.used : u[1] # Pins => u[2] = frozen[u[1]]
    BY <1>1, <2>2 DEF MatrixAccepted, MatrixComplete, IInv, RunInv, Genuine, IsVerdict
  <2>4. CP!CheckpointTrue
    <3>1. DOMAIN rows = 1 .. Len(rows)
      BY <1>1, LenProperties DEF IInv, Shapes, LauncherShape
    <3> QED
      BY <1>1, <3>1 DEF CP!CheckpointTrue, IInv, Counted, Passed, Worked
  <2>5. pkg.archive = frozen[Packed] /\ frozen[Packed].code = Initial.code
    BY <1>1, <2>2 DEF ProducerHeld, IInv, Packaged
  <2> QED
    BY <2>2, <2>3, <2>4, <2>5 DEF ProducerHeld, LinuxAccepted
<1> QED
  BY <1>1, QualificationInvariant, PTL
=============================================================================
