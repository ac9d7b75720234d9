----------------------------- MODULE Generation -----------------------------
(***************************************************************************)
(* One consumer repository and the generator that writes into it.          *)
(*                                                                         *)
(* The hook generatePerTypeFiles (extension.go) runs in this order:        *)
(*   refuse  - checkGraphConflicts, before anything is written;            *)
(*   ent     - next.Generate: ent's own generator writes its files;        *)
(*   phase 1 - every file of the extension is rendered and formatted into  *)
(*             memory, aborting on the first failure;                      *)
(*   phase 2 - each file goes to a temporary file and is renamed into      *)
(*             place, one by one, in the order phase 1 produced them;      *)
(*   cleanup - top-level files that carry the ownership marker and were    *)
(*             not written by this run are removed (cleanup.go).           *)
(* Between runs the consumer edits the schema and the files; a hard kill   *)
(* can stop a run anywhere.  A file is <<entity, kind>>; entity 0 stands   *)
(* for the graph and for the consumer's own files.  A file's contents are  *)
(* reduced to who wrote it, in which run, and the marker on its first line.*)
(***************************************************************************)
EXTENDS Naturals, FiniteSets

CONSTANTS
    Entity,       \* positions of the entities in the graph's node order
    Schemas,      \* the schemas the consumer may have
    ScanRank,     \* where os.ReadDir (sorted by name) lists each file
    MaxRuns,      \* bound on generator runs
    MaxKills,     \* bound on hard kills
    MaxEdits      \* bound on the consumer's edits of files

PerTypeKind == {"dto", "filter", "wiring", "handler"}
GraphKind   == {"errors", "http", "openapi", "embed", "softdelete"}
ConsumerKind == {"own_go", "own_md", "legacy_go"}

EntFiles      == Entity \X {"ent"}
ExtFiles      == (Entity \X PerTypeKind) \cup ({0} \X GraphKind)
ConsumerFiles == {0} \X ConsumerKind
File          == EntFiles \cup ExtFiles \cup ConsumerFiles

Document == <<0, "openapi">>     \* openapi.yaml
Embed    == <<0, "embed">>       \* entapi_openapi.go, //go:embed openapi.yaml

\* The entities of a schema, those declared api.Resource(), those embedding
\* the soft-delete mixin, and whether checkGraphConflicts finds a
\* contradiction in it.
Schema == [ents: SUBSET Entity, resources: SUBSET Entity, soft: SUBSET Entity,
           conflict: BOOLEAN]

Run     == 0 .. MaxRuns
Marker  == {"none", "entapi", "entdomain"}
Content == [by: {"nobody", "ent", "entapi", "consumer", "stripped"},
            marker: Marker, run: Run]

ASSUME ConstantsAssumption ==
    /\ Entity \subseteq Nat \ {0}
    /\ Schemas \subseteq Schema
    /\ \A s \in Schemas : s.resources \subseteq s.ents /\ s.soft \subseteq s.ents
    /\ MaxRuns \in Nat /\ MaxKills \in Nat /\ MaxEdits \in Nat

\* os.ReadDir sorts by file name: entapi_openapi.go comes before openapi.yaml,
\* and no two files share a place.
ASSUME ScanAssumption ==
    /\ ScanRank \in [File -> Nat]
    /\ \A f, g \in File : ScanRank[f] = ScanRank[g] => f = g
    /\ ScanRank[Embed] < ScanRank[Document]

VARIABLES
    schema,     \* what the consumer's schema declares
    disk,       \* [File -> Content], the top level of the target directory
    pc,         \* where the current run is
    run,        \* number of the current (or last) run
    written,    \* `written`: the paths of this run's output set
    pending,    \* `pending`: rendered files not yet renamed into place
    temp,       \* the files whose temporary file is open, at most one
    scan,       \* names ReadDir returned and the cleanup loop has not visited
    outcome,    \* how the last run ended; "none" while running or after an edit
    before,     \* history: the disk when the run started
    leaked,     \* files some killed run left a temporary file of
    kills,      \* hard kills so far
    edits       \* consumer file edits so far

runVars == <<pc, run, written, pending, temp, scan>>
vars == <<schema, disk, runVars, outcome, before, leaked, kills, edits>>

Absent     == [by |-> "nobody", marker |-> "none", run |-> 0]
Fresh      == [by |-> "entapi", marker |-> "entapi", run |-> run]
Present(f) == disk[f] # Absent
Marked(f)  == disk[f].marker \in {"entapi", "entdomain"}

(***************************************************************************)
(* What a run produces, and in which order.                                *)
(***************************************************************************)
Outputs(s) ==
    (s.resources \X PerTypeKind)
        \cup (IF s.resources # {} THEN {0} \X {"errors", "http", "openapi", "embed"}
                                  ELSE {})
        \cup (IF s.soft # {} THEN {<<0, "softdelete">>} ELSE {})

RankSwapped ==
    [dto |-> 1, filter |-> 2, wiring |-> 3, handler |-> 4,
     errors |-> 1, http |-> 2, openapi |-> 4, embed |-> 3, softdelete |-> 5]

KindRank ==
    [dto |-> 1, filter |-> 2, wiring |-> 3, handler |-> 4,
     errors |-> 1, http |-> 2, openapi |-> 3, embed |-> 4, softdelete |-> 5]

\* Per node in graph order, then the graph's own files.
WritesBefore(f, g) ==
    \/ f[1] # 0 /\ g[1] = 0
    \/ f[1] # 0 /\ g[1] # 0 /\ f[1] < g[1]
    \/ f[1] = g[1] /\ KindRank[f[2]] < KindRank[g[2]]

IsNextWrite(f, S) == f \in S /\ \A g \in S \ {f} : WritesBefore(f, g)

\* isCleanupCandidate: any .go file, or exactly openapi.yaml.  A temporary
\* file is named .<base>.tmp<random> and is no candidate; nor is own_md.
IsCleanupCandidate(f) == f # <<0, "own_md">>

(***************************************************************************)
(* The consumer, between runs.                                             *)
(***************************************************************************)
EditSchema ==
    /\ pc = "idle" /\ run < MaxRuns
    /\ schema' \in Schemas \ {schema}
    /\ outcome' = "none"
    /\ UNCHANGED <<disk, runVars, before, leaked, kills, edits>>

ConsumerWrites(f, c) ==
    /\ pc = "idle" /\ edits < MaxEdits
    /\ disk' = [disk EXCEPT ![f] = c]
    /\ outcome' = "none"
    /\ edits' = edits + 1
    /\ UNCHANGED <<schema, runVars, before, leaked, kills>>

\* The documented way to take ownership: delete the marker line.
StripMarker(f) ==
    /\ Marked(f)
    /\ ConsumerWrites(f, [by |-> "stripped", marker |-> "none", run |-> 0])

\* A hand-written file, possibly at a name the generator uses (gotcha 13).
HandWrite(f) ==
    /\ ~Present(f)
    /\ ConsumerWrites(f, [by |-> "consumer", marker |-> "none", run |-> 0])

\* A generated file copied under another name, header and all (gotcha 12).
CopyGenerated(f, g) ==
    /\ Marked(f) /\ ~Present(g)
    /\ ConsumerWrites(g, [disk[f] EXCEPT !.by = "consumer"])

(***************************************************************************)
(* The run.                                                                *)
(***************************************************************************)
EndRun(how) ==
    /\ pc' = "idle" /\ outcome' = how
    /\ written' = {} /\ pending' = {} /\ temp' = {} /\ scan' = {}
    /\ UNCHANGED <<schema, run, before, kills, edits>>

StartRun ==
    /\ pc = "idle" /\ run < MaxRuns
    /\ run' = run + 1
    /\ before' = disk
    /\ IF schema.conflict
         THEN pc' = "idle" /\ outcome' = "refused"
         ELSE pc' = "ent"  /\ outcome' = "none"
    /\ UNCHANGED <<schema, disk, written, pending, temp, scan, leaked, kills, edits>>

\* next.Generate(g), external: ent rewrites the files of the entities of the
\* graph and removes those of the entities that left it.
EntOutput(f) ==
    IF f[1] \in schema.ents THEN [by |-> "ent", marker |-> "none", run |-> run]
                            ELSE Absent

EntGenerate ==
    /\ pc = "ent"
    /\ disk' = [f \in File |-> IF f \in EntFiles THEN EntOutput(f) ELSE disk[f]]
    /\ pc' = "render"
    /\ UNCHANGED <<schema, run, written, pending, temp, scan, outcome, before,
                   leaked, kills, edits>>

\* Its writes are not staged: a failure leaves some of them done.
EntFails ==
    /\ pc = "ent"
    /\ \E done \in SUBSET EntFiles :
         disk' = [f \in File |-> IF f \in done THEN EntOutput(f) ELSE disk[f]]
    /\ EndRun("entfail")
    /\ UNCHANGED leaked

RenderWritesThrough ==
    /\ pc = "render"
    /\ \E f \in Outputs(schema) \ written :
         /\ IsNextWrite(f, Outputs(schema) \ written)
         /\ pending' = pending \cup {f}
         /\ written' = written \cup {f}
         /\ disk' = [disk EXCEPT ![f] = Fresh]
    /\ UNCHANGED <<schema, pc, run, temp, scan, outcome, before, leaked,
                   kills, edits>>

\* PHASE 1: one file rendered and formatted into `pending`.
Render ==
    /\ pc = "render"
    /\ \E f \in Outputs(schema) \ written :
         /\ IsNextWrite(f, Outputs(schema) \ written)
         /\ pending' = pending \cup {f}
         /\ written' = written \cup {f}
    /\ UNCHANGED <<schema, disk, pc, run, temp, scan, outcome, before, leaked,
                   kills, edits>>

RenderFails ==
    /\ pc = "render" /\ written # Outputs(schema)
    /\ EndRun("renderfail")
    /\ UNCHANGED <<disk, leaked>>

RenderDone ==
    /\ pc = "render" /\ written = Outputs(schema)
    /\ pc' = "write"
    /\ UNCHANGED <<schema, disk, run, written, pending, temp, scan, outcome,
                   before, leaked, kills, edits>>

\* PHASE 2, writeFormatted: the temporary file ...
CreateTemp ==
    /\ pc = "write" /\ temp = {}
    /\ \E f \in pending : IsNextWrite(f, pending) /\ temp' = {f}
    /\ UNCHANGED <<schema, disk, pc, run, written, pending, scan, outcome,
                   before, leaked, kills, edits>>

\* ... and the rename that replaces whatever is at the path, unread.
Rename ==
    /\ pc = "write"
    /\ \E f \in temp : /\ disk' = [disk EXCEPT ![f] = Fresh]
                       /\ pending' = pending \ {f}
    /\ temp' = {}
    /\ UNCHANGED <<schema, pc, run, written, scan, outcome, before, leaked,
                   kills, edits>>

WriteFailsLeaks ==
    /\ pc = "write" /\ pending # {}
    /\ EndRun("writefail")
    /\ leaked' = leaked \cup temp
    /\ UNCHANGED disk

\* ENOSPC, EACCES ...: the deferred os.Remove takes the temporary file away.
WriteFails ==
    /\ pc = "write" /\ pending # {}
    /\ EndRun("writefail")
    /\ UNCHANGED <<disk, leaked>>

ScanBeforeWritesFinish ==
    /\ pc = "write"
    /\ pc' = "cleanup"
    /\ scan' = {f \in File : Present(f) /\ IsCleanupCandidate(f)}
    /\ UNCHANGED <<schema, disk, run, written, pending, temp, outcome, before,
                   leaked, kills, edits>>

\* removeStaleArtifacts starts: os.ReadDir of the target directory.
ReadDir ==
    /\ pc = "write" /\ pending = {}
    /\ pc' = "cleanup"
    /\ scan' = {f \in File : Present(f) /\ IsCleanupCandidate(f)}
    /\ UNCHANGED <<schema, disk, run, written, pending, temp, outcome, before,
                   leaked, kills, edits>>

ReadDirFails ==
    /\ pc = "write" /\ pending = {}
    /\ EndRun("cleanfail")
    /\ UNCHANGED <<disk, leaked>>

IsNextScanned(f) == f \in scan /\ \A g \in scan : ScanRank[f] <= ScanRank[g]

StaleUnlessWritten(f) == f \notin written

StaleByGraphNames(f) ==
    f \notin written /\ Marked(f) /\ f[1] \in schema.ents \cup {0}

\* removeIfStale: not written by this run, and marked on the first line.
Stale(f) == f \notin written /\ Marked(f)

VisitSkipsNothing ==
    /\ pc = "cleanup"
    /\ \E f \in scan :
         /\ IsNextScanned(f) /\ Stale(f)
         /\ scan' = scan \ {f}
         /\ disk' = [disk EXCEPT ![f] = Absent]
    /\ UNCHANGED <<schema, pc, run, written, pending, temp, outcome, before,
                   leaked, kills, edits>>

Visit ==
    /\ pc = "cleanup"
    /\ \E f \in scan :
         /\ IsNextScanned(f)
         /\ scan' = scan \ {f}
         /\ disk' = IF Stale(f) THEN [disk EXCEPT ![f] = Absent] ELSE disk
    /\ UNCHANGED <<schema, pc, run, written, pending, temp, outcome, before,
                   leaked, kills, edits>>

\* Opening or removing a candidate fails: the loop stops there.
VisitFails ==
    /\ pc = "cleanup"
    /\ \E f \in scan : IsNextScanned(f) /\ f \notin written
    /\ EndRun("cleanfail")
    /\ UNCHANGED <<disk, leaked>>

Finish ==
    /\ pc = "cleanup" /\ scan = {}
    /\ EndRun("ok")
    /\ UNCHANGED <<disk, leaked>>

\* SIGKILL or power loss: no deferred call runs, so an open temporary file stays.
Kill ==
    /\ pc # "idle" /\ kills < MaxKills
    /\ pc' = "idle" /\ outcome' = "killed"
    /\ leaked' = leaked \cup temp
    /\ kills' = kills + 1
    /\ written' = {} /\ pending' = {} /\ temp' = {} /\ scan' = {}
    /\ UNCHANGED <<schema, disk, run, before, edits>>

-----------------------------------------------------------------------------
\* A tree nobody generated into, or one an old release left a file in.
Init ==
    /\ schema \in Schemas
    /\ \E old \in {Absent, [by |-> "entapi", marker |-> "entdomain", run |-> 0]} :
         disk = [f \in File |-> IF f = <<0, "legacy_go">> THEN old ELSE Absent]
    /\ pc = "idle" /\ run = 0
    /\ written = {} /\ pending = {} /\ temp = {} /\ scan = {}
    /\ outcome = "none" /\ before = disk
    /\ leaked = {} /\ kills = 0 /\ edits = 0

Consumer ==
    \/ EditSchema
    \/ \E f \in ExtFiles \cup ConsumerFiles : StripMarker(f)
    \/ \E f \in ExtFiles \cup ConsumerFiles : HandWrite(f)
    \/ \E f \in ExtFiles, g \in ConsumerFiles : CopyGenerated(f, g)

Generator ==
    \/ EntGenerate \/ Render \/ RenderDone
    \/ CreateTemp \/ Rename \/ ReadDir \/ Visit \/ Finish

Failure ==
    \/ EntFails \/ RenderFails \/ WriteFails \/ ReadDirFails \/ VisitFails
    \/ Kill

Next == Consumer \/ StartRun \/ Generator \/ Failure

\* A run that was started keeps executing: the process is scheduled.
Spec == Init /\ [][Next]_vars /\ WF_vars(Generator)

-----------------------------------------------------------------------------
Outcome == {"none", "ok", "refused", "entfail", "renderfail", "writefail",
            "cleanfail", "killed"}

\* Every variable keeps its shape, a run's bookkeeping is empty at rest, and only a
\* hard kill leaves a temporary file, the one trace besides outputs a run may leave.
TypeOK ==
    /\ schema \in Schemas
    /\ disk \in [File -> Content] /\ before \in [File -> Content]
    /\ pc \in {"idle", "ent", "render", "write", "cleanup"}
    /\ run \in Run /\ outcome \in Outcome
    /\ written \in SUBSET ExtFiles /\ pending \in SUBSET written
    /\ temp \in SUBSET pending
    /\ scan \in SUBSET File /\ leaked \in SUBSET ExtFiles
    /\ kills \in 0 .. MaxKills /\ edits \in 0 .. MaxEdits
    /\ leaked # {} => kills > 0
    /\ pc = "idle" => written = {} /\ pending = {} /\ temp = {} /\ scan = {}

\* ADR-0003: a failure in phase 1 (a refused schema, ent's generator, a
\* template bug) leaves every file that is not ent's own exactly as the run
\* found it.
PhaseOneKeepsOutput ==
    pc \in {"ent", "render"} \/ outcome \in {"refused", "entfail", "renderfail"}
        => \A f \in File \ EntFiles : disk[f] = before[f]

\* extension.go: "a run that failed partway must not delete anything".  A file
\* the run found and that is gone was removed only once every output of the
\* run was on disk, and the file carried the marker.
Gone(f) == before[f] # Absent /\ disk[f] = Absent

DeletesOnlyAfterAllWritten ==
    \A f \in File \ EntFiles :
        (pc # "idle" \/ outcome # "none") /\ Gone(f)
            => /\ outcome \in {"none", "ok", "cleanfail", "killed"}
               /\ before[f].marker # "none"
               /\ f \notin Outputs(schema)
               /\ \A g \in Outputs(schema) : disk[g] = Fresh

\* A run that reports success has converged the directory whatever mess
\* earlier kills, failures and schema edits left: the marked candidates are
\* exactly this schema's outputs, all of this run.
SuccessConverges ==
    outcome = "ok" =>
        \A f \in File : IsCleanupCandidate(f) =>
            IF f \in Outputs(schema) THEN disk[f] = Fresh ELSE ~Marked(f)

\* entapi_openapi.go embeds openapi.yaml: the generated embed is never on disk
\* without the document, whatever was killed and wherever a cleanup stopped.
EmbedHasDocument == Marked(Embed) => Present(Document)

\* Rule 1 of cleanup and the rename's scope: once ent's generator is done with
\* its own files, a run changes an unmarked file, ent's included, only by
\* replacing an output of the run with this run's.
UnmarkedLeftAlone ==
    [][\A f \in File :
         /\ pc # "idle" /\ ~(pc = "ent" /\ f \in EntFiles)
         /\ Present(f) /\ ~Marked(f) /\ disk'[f] # disk[f]
         => f \in Outputs(schema) /\ disk'[f] = Fresh]_vars

\* A run that was started ends, one way or another.
RunEnds == pc # "idle" ~> pc = "idle"

\* The run seen as the contract describes it: ent's own files are left out,
\* rendering is preparation, and a rename replaces a file of the plan.
Contract == INSTANCE GenerationContract WITH
    Name   <- File \ EntFiles,
    Body   <- Content,
    NoFile <- Absent,
    Owned  <- {c \in Content : c.marker \in {"entapi", "entdomain"}},
    tree   <- [f \in File \ EntFiles |-> disk[f]],
    stage  <- CASE pc = "write" -> "replace" [] pc = "cleanup" -> "prune"
                [] pc = "idle" -> "rest" [] OTHER -> "prepare",
    plan   <- IF pc \in {"write", "cleanup"} THEN written ELSE {},
    done   <- IF pc \in {"write", "cleanup"} THEN written \ pending ELSE {},
    fresh  <- Fresh

\* Every run of the generator keeps the contract.
KeepsContract == Contract!Spec

\* What extension.go says of every deterministic failure (a template bug, a
\* missing import, a refused schema): it is raised in phase 1, "with not a single
\* path on disk touched".
FailedRunTouchesNothing ==
    outcome \in {"refused", "renderfail"} => disk = before

\* What README and cleanup.go say of the marker line: "delete it and the file
\* is yours".  No run changes a file whose marker the consumer deleted.
StrippedFileIsYours ==
    [][\A f \in File : pc # "idle" /\ disk[f].by = "stripped"
         => disk'[f] = disk[f]]_vars
=============================================================================
