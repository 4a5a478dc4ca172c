----------------------------- MODULE ReleaseChain -----------------------------
(***************************************************************************)
(* scripts/build_commercial_release.py and the scripts it runs: one script *)
(* after another turns the checkout into evidence, each reading what those *)
(* before it left in the output directory.  The directory is that of every *)
(* earlier run too, so a script that dies leaves a mixture behind.         *)
(*                                                                         *)
(* A file is <<script, kind>>; a wheel, with its source distribution, is   *)
(* <<"build", version>>.  What a script writes is a sequence of writes, of *)
(* which a deadline or a crash leaves any beginning, the next file torn.   *)
(* Left out: contents that no check reads, commits, and the contract value *)
(* that the builder hands to all scripts alike.                            *)
(***************************************************************************)
EXTENDS Naturals, Sequences, FiniteSets, FiniteSetsExt, Functions

CONSTANTS
    Versions,   \* of the package, in the order of the wheels' names
    Options,    \* what the builder is run with: [build, extras]
    MaxRuns,    \* bound: runs of the builder
    MaxMoves    \* bound: checkouts of another version

ASSUME ReleaseAssumption ==
    /\ Versions \subseteq Nat /\ MaxRuns \in Nat /\ MaxMoves \in Nat
    /\ \A o \in Options : o.build \in BOOLEAN
                          /\ o.extras \subseteq {"procurement", "queue", "figma"}

VARIABLES
    version,    \* project.version of the checkout
    moves,      \* how often it has changed
    disk,       \* the output directory and dist
    run,        \* number of the last run
    options,    \* its options
    pending,    \* scripts it has not run yet, in order
    phase,      \* "idle", "stage" or "publish"
    stages      \* manifest["stages"] of the run: <<name, passed>>; lost in a crash

vars == <<version, moves, disk, run, options, pending, phase, stages>>

-----------------------------------------------------------------------------
(* Files *)

NoCites  == <<>>
Absent   == [stamp |-> <<0, 0>>, ok |-> FALSE, version |-> 0, cites |-> NoCites]
Json(s)  == <<s, "json">>
Html(s)  == <<s, "html">>
Archive  == <<"packet", "zip">>
Outputs  == <<"acceptance", "outputs">>

Scripts  == {"build", "acceptance", "benchmark", "sales", "packet", "index", "final",
             "procurement", "queue", "figma"}
Rendered == {"benchmark", "packet", "index", "procurement", "queue", "figma"}
Files    == {Json(s) : s \in Rendered \cup {"acceptance", "sales", "final", "release"}}
            \cup {Html(s) : s \in Rendered \cup {"release"}}
            \cup {Archive, Outputs} \cup {<<"build", v>> : v \in Versions}

\* A file's stamp is its digest: the run and the writing that made it.
Stamp(n)  == <<run, n>>
File(n, ok, cites) == [stamp |-> Stamp(n), ok |-> ok, version |-> version, cites |-> cites]
Torn      == File(0, FALSE, NoCites)
Exists(f) == disk[f] # Absent

\* the digests of those of the files that exist
Digests(fs) == [f \in {g \in fs : Exists(g)} |-> disk[f].stamp]

\* (fault: the other file need only exist)
MatchesIfThere(f, g) == g \in DOMAIN disk[f].cites /\ Exists(g)

\* f names g with the digest g has
Matches(f, g) == g \in DOMAIN disk[f].cites /\ Exists(g) /\ disk[f].cites[g] = disk[g].stamp

Dist  == {v \in Versions : Exists(<<"build", v>>)}
Wheel == <<"build", Min(Dist)>>     \* the first by name

-----------------------------------------------------------------------------
(* What scripts check *)

\* the validator of sales_readiness.py for a manifest with a report, and that for
\* the buyer packet
ReportValid(s) == disk[Json(s)].ok /\ Matches(Json(s), Html(s))
PacketValid    == ReportValid("packet") /\ Matches(Json("packet"), Archive)
Valid(s)       == IF s = "packet" THEN PacketValid ELSE ReportValid(s)

AcceptanceValid == disk[Json("acceptance")].ok /\ Exists(Outputs)

\* run_sales_readiness, asked for some manifests; what it checks of the checkout
\* itself may fail any time
Gate(required) == AcceptanceValid /\ Dist # {} /\ \A s \in required : Valid(s)

PacketAccepts ==
    /\ AcceptanceValid /\ Dist # {} /\ Exists(Json("sales")) /\ Exists(Html("benchmark"))
    /\ disk[Json("benchmark")] \notin {Absent, Torn}

IndexAccepts ==
    /\ \A s \in {"acceptance", "sales"} : disk[Json(s)].ok
    /\ Valid("benchmark") /\ Valid("packet") /\ Dist # {}

Packaged == Dist # {} /\ disk[Wheel].ok /\ Wheel[2] = version

ProcurementAccepts ==
    /\ Packaged /\ disk[Json("release")].ok
    /\ {Wheel, Json("final")} \subseteq DOMAIN disk[Json("release")].cites

\* What a script needs to find for its exit status to be 0.
Accepts(s) ==
    CASE s = "benchmark"   -> AcceptanceValid
      [] s = "sales"       -> Gate({"benchmark"})
      [] s = "packet"      -> PacketAccepts
      [] s = "index"       -> IndexAccepts
      [] s = "final"       -> Gate({"benchmark", "packet", "index"})
      [] s = "procurement" -> ProcurementAccepts
      [] OTHER             -> TRUE

-----------------------------------------------------------------------------
(* What scripts write *)

Write(f, content) == [file |-> f, content |-> content]

Wheels  == {<<"build", v>> : v \in Versions}
Packed  == {Json(s) : s \in {"acceptance", "sales", "benchmark"}}
           \cup {Outputs, Html("benchmark")} \cup Wheels
Indexed == {Json(s) : s \in {"acceptance", "sales", "benchmark", "packet"}}
           \cup {Html("benchmark"), Html("packet"), Archive} \cup Wheels
Listed  == (Files \ ({Outputs, Json("release"), Html("release")} \cup Wheels))
           \cup (IF Dist = {} THEN {} ELSE {Wheel})

\* f with the digest this run's n-th writing gave it, beside other files
Citing(f, n, others) ==
    [g \in {f} \cup DOMAIN others |-> IF g = f THEN Stamp(n) ELSE others[g]]

\* a report and then the manifest that has its digest
Report(s, n, ok, cites) ==
    <<Write(Html(s), File(n, TRUE, NoCites)),
      Write(Json(s), File(n, ok, Citing(Html(s), n, cites)))>>

BuildWrites == <<Write(<<"build", version>>, File(1, TRUE, NoCites))>>

\* The workflow's outputs come first, and its summary only if all of it passed.
AcceptanceWrites ==
    <<Write(Outputs, File(1, TRUE, NoCites)),
      Write(Json("acceptance"), File(1, TRUE, Citing(Outputs, 1, NoCites)))>>

BenchmarkWrites(ok) == Report("benchmark", 1, ok, NoCites)
GateWrites(s, ok)   == <<Write(Json(s), File(1, ok, NoCites))>>

\* build_packet renders its report twice, the second time with the digest of the
\* archive, which holds the first.
PacketWrites ==
    LET files == Digests(Packed) IN
    Report("packet", 1, TRUE, files)
    \o <<Write(Archive, File(1, TRUE, Citing(Html("packet"), 1, files)))>>
    \o Report("packet", 2, TRUE, Citing(Archive, 1, files))

IndexWrites(ok)       == Report("index", 1, ok, Digests(Indexed))
ProcurementWrites(ok) == Report("procurement", 1, ok, NoCites)
QueueWrites(ok)       == Report("queue", 1, ok, NoCites)
FigmaWrites(ok)       == Report("figma", 1, ok, NoCites)

Writes(s, ok) ==
    CASE s = "build"              -> BuildWrites
      [] s = "acceptance"         -> AcceptanceWrites
      [] s = "benchmark"          -> BenchmarkWrites(ok)
      [] s \in {"sales", "final"} -> GateWrites(s, ok)
      [] s = "packet"             -> PacketWrites
      [] s = "index"              -> IndexWrites(ok)
      [] s = "procurement"        -> ProcurementWrites(ok)
      [] s = "queue"              -> QueueWrites(ok)
      [] s = "figma"              -> FigmaWrites(ok)

\* these write a manifest that says failed, the others raise
RefusesInWriting(s) == s \notin {"build", "acceptance", "packet"}

After(writes) == [f \in Files |->
    LET of == {i \in DOMAIN writes : writes[i].file = f} IN
    IF of = {} THEN disk[f] ELSE writes[Max(of)].content]

\* a beginning of the writes, or all, with the next file torn or not begun
Cut(writes) ==
    {SubSeq(writes, 1, k) : k \in 0 .. Len(writes)}
    \cup {Append(SubSeq(writes, 1, k), Write(writes[k + 1].file, Torn)) : k \in 0 .. Len(writes) - 1}

\* what a script may have written when it ends without passing
Leaves(s) ==
    {<<>>} \cup (IF Accepts(s) THEN Cut(Writes(s, TRUE)) ELSE {})
           \cup (IF RefusesInWriting(s) THEN Cut(Writes(s, FALSE)) ELSE {})

-----------------------------------------------------------------------------
(* The builder *)

Core == <<"acceptance", "benchmark", "sales", "packet", "index", "final">>
InCore(s) == s = "build" \/ s \in Range(Core)

\* --skip-build, and the skips of the scripts after the core
If(wanted, s) == IF wanted THEN <<s>> ELSE <<>>

Extras(o) == If("procurement" \in o.extras, "procurement")
             \o If("queue" \in o.extras, "queue") \o If("figma" \in o.extras, "figma")

\* (fault: an archive that is there is not built again)
PlanKeepingArchive(o) ==
    If(o.build, "build") \o SubSeq(Core, 1, 3) \o If(~Exists(Archive), "packet")
    \o SubSeq(Core, 5, 6) \o Extras(o)

Plan(o) == If(o.build, "build") \o Core \o Extras(o)

Init ==
    /\ version \in Versions /\ moves = 0
    /\ disk = [f \in Files |-> Absent]
    /\ run = 0 /\ options \in Options
    /\ pending = <<>> /\ phase = "idle" /\ stages = <<>>

\* Somebody checks out another version.
CheckOut(v) ==
    /\ moves < MaxMoves /\ v # version
    /\ version' = v /\ moves' = moves + 1
    /\ UNCHANGED <<disk, run, options, pending, phase, stages>>

Start(o) ==
    /\ phase = "idle" /\ run < MaxRuns
    /\ run' = run + 1 /\ options' = o
    /\ pending' = Plan(o) /\ phase' = "stage" /\ stages' = <<>>
    /\ UNCHANGED <<version, moves, disk>>

\* A script exits with status 0.  The next one runs at once if it is of the core.
Pass ==
    /\ phase = "stage" /\ Accepts(Head(pending))
    /\ disk' = After(Writes(Head(pending), TRUE))
    /\ stages' = Append(stages, <<Head(pending), TRUE>>)
    /\ pending' = Tail(pending)
    /\ phase' = IF InCore(Head(pending)) /\ Head(pending) # "final" THEN "stage" ELSE "publish"
    /\ UNCHANGED <<version, moves, run, options>>

\* (fault: the scripts after one that failed are run all the same)
CarryOn ==
    /\ phase = "stage"
    /\ \E writes \in Leaves(Head(pending)) : disk' = After(writes)
    /\ stages' = Append(stages, <<Head(pending), FALSE>>)
    /\ pending' = Tail(pending)
    /\ phase' = IF InCore(Head(pending)) /\ Head(pending) # "final" THEN "stage" ELSE "publish"
    /\ UNCHANGED <<version, moves, run, options>>

\* It refuses, raises or is killed at its deadline: the builder stops.
Fail ==
    /\ phase = "stage"
    /\ \E writes \in Leaves(Head(pending)) : disk' = After(writes)
    /\ stages' = Append(stages, <<Head(pending), FALSE>>)
    /\ pending' = <<>> /\ phase' = "publish"
    /\ UNCHANGED <<version, moves, run, options>>

\* (fault: the final gate's manifest decides alone)
FinalDecides == disk[Json("final")].ok

Succeeded == (\A i \in DOMAIN stages : stages[i][2]) /\ disk[Json("final")].ok

ManifestWrites == Report("release", Len(stages), Succeeded, Digests(Listed))

\* The manifest is written after the core and again after every further script.
Publish ==
    /\ phase = "publish"
    /\ disk' = After(ManifestWrites)
    /\ phase' = IF Succeeded /\ pending # <<>> THEN "stage" ELSE "idle"
    /\ UNCHANGED <<version, moves, run, options, pending, stages>>

\* The builder dies with the script it runs.
Crash ==
    /\ phase # "idle"
    /\ \E writes \in IF phase = "publish" THEN Cut(ManifestWrites) ELSE Leaves(Head(pending)) :
           disk' = After(writes)
    /\ pending' = <<>> /\ phase' = "idle" /\ stages' = <<>>
    /\ UNCHANGED <<version, moves, run, options>>

Next ==
    \/ Pass \/ Fail \/ Publish \/ Crash
    \/ \E v \in Versions : CheckOut(v)
    \/ \E o \in Options : Start(o)

Spec == Init /\ [][Next]_vars

-----------------------------------------------------------------------------
(* Properties *)

TypeOK ==
    /\ version \in Versions /\ moves \in 0 .. MaxMoves /\ run \in 0 .. MaxRuns
    /\ DOMAIN disk = Files /\ options \in Options
    /\ phase \in {"idle", "stage", "publish"}
    /\ Range(pending) \subseteq Scripts

\* the last run has published a manifest that says ok
Released   == disk[Json("release")].ok /\ disk[Json("release")].stamp[1] = run
CoreFiles  == {Json(s) : s \in Range(Core)}
              \cup {Html(s) : s \in {"benchmark", "packet", "index"}} \cup {Archive}

\* No evidence of an earlier run passes for this one's: whatever lay in the output
\* directory, all that a released manifest rests on was written by its own run and
\* is there with the digest listed, whatever happened since.  One that went through
\* due diligence lists a whole wheel of the version then checked out, although dist
\* keeps the wheels of earlier versions.
EvidenceOfThisRun ==
    Released =>
        /\ \A f \in CoreFiles : disk[f].stamp[1] = run /\ Matches(Json("release"), f)
        /\ <<"procurement", TRUE>> \in Range(stages) =>
               LET wheels == {f \in DOMAIN disk[Json("release")].cites : f[1] = "build"} IN
               /\ wheels = {<<"build", disk[Json("procurement")].version>>}
               /\ \A f \in wheels : disk[f].ok /\ Matches(Json("release"), f)

\* The archive the buyer opens holds the very files that were accepted and indexed.
BuyerGetsWhatWasIndexed ==
    Released =>
        /\ \A f \in Packed : Exists(f) => f \in DOMAIN disk[Archive].cites
                                          /\ disk[Archive].cites[f] = disk[f].stamp
        /\ \A f \in Indexed : Exists(f) => Matches(Json("index"), f)

\* However a run ends by itself, its manifest tells: ok if every script asked for
\* has passed, and otherwise nothing was run after the first that did not.
ManifestTells ==
    (phase = "idle" /\ stages # <<>>) =>
        /\ disk[Json("release")].stamp[1] = run
        /\ disk[Json("release")].ok <=> [i \in DOMAIN stages |-> stages[i][1]] = Plan(options)
                                        /\ \A i \in DOMAIN stages : stages[i][2]
        /\ \A i \in 1 .. Len(stages) - 1 : stages[i][2]
        /\ \A f \in Files : disk[f].stamp[1] = run =>
               f[1] \in {"release"} \cup {stages[i][1] : i \in DOMAIN stages}

\* What the gate accepts was not pieced together from two runs by a kill: each
\* manifest, its report and its archive come from one.
AcceptedIsWhole ==
    Gate(Rendered) =>
        /\ \A s \in Rendered : disk[Html(s)].stamp = disk[Json(s)].stamp
        /\ disk[Archive].stamp[1] = disk[Json("packet")].stamp[1]

=============================================================================
