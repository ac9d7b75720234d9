# Verification of entapi

entapi is an extension of the Ent code generator. At build time it reads an ent
schema and writes REST code next to ent's own; at run time the generated code,
a small runtime package and ent serve HTTP requests. This directory holds TLA+
modules of both halves, the TLC configurations that check them on small
instances, and TLAPS proofs of what holds for every value of the constants.

## 1. Inventory

| Component | Where | State it keeps | Operations | What makes it correct |
|---|---|---|---|---|
| Generation run | `extension.go`, `cleanup.go` | the target directory; `pending` and `written` of a run | refuse, ent's generator, render all, write all, clean up | a failed run destroys nothing, a successful one converges the directory, only marked files are deleted |
| Schema refusals | `schema_conflicts.go`, `funcs_scope.go`, `funcs_fields.go`, `funcs_presence.go` | none (a function of the graph) | `checkGraphConflicts` | what is generated from an accepted schema compiles and is usable |
| Annotations | `api/annotations.go` | per-field and per-edge vocabulary | `Merge`, `Except` | order and repetition of declarations do not change the meaning |
| Soft delete | `templates/softdelete*.tmpl`, `runtime/softdelete_context.go`, `softdelete.go` | the `deleted_at` column; two context switches | traverser (reads), hook (deletes) | an acknowledged delete is forever, history is not rewritten |
| Wiring | `templates/wiring.tmpl`, `runtime/query.go` | none; the database | get, list, create, patch, delete, batch delete | each operation is one or two statements, with no transaction around them |
| Paging and sorting | `runtime/query.go`, `runtime/urlquery.go` | none | `Limit`, `Offset`, `ListPage`, `ParsePageParam`, `ParseSortSpecs` | no page is out of bounds, no offset wraps, a walk sees every row once |
| Query filter | `templates/filter.tmpl`, `runtime/queryops.go`, `funcs_filter.go` | none | `ParseQuery`, `Predicates`, `Order` | a parameter is honoured or refused, never dropped |
| Presence (DTOs) | `templates/dto.tmpl`, `funcs_presence.go` | none | Unmarshal, Validate, Apply | absent, null and zero are told apart |
| Binding and handlers | `runtime/bind.go`, `templates/handler.tmpl` | none | `BindJSON`, `Status`, five handlers | every outcome is answered once, with a documented status |
| Error map | `runtime/errors_map.go`, `errors_dialect.go`, `templates/errors.tmpl`, `templates/http.tmpl` | the process-wide `ErrorMap` | `MapError`, `API`, `With` | the class of an error does not depend on the operation that met it |
| Endpoints | `runtime/endpoint.go`, `templates/http.tmpl` | the list of endpoints | `Endpoints`, `Mount`, `Bind`, `ColonPath` | the mounted routes are the documented ones |
| OpenAPI document | `funcs_openapi.go`, `templates/openapi.tmpl` | none | document rendering | the document says what the handlers answer |
| Petstore | `examples/petstore` | four tables and a link table; one mutation per request | list, create, get, patch, delete of four entities; batch deletes from Go | references hold, an answer made of several statements is true, a refusal wrote nothing |

Interaction: the generator writes the wiring, DTOs, filters, handlers and the
error map; a handler binds the request, calls the wiring, and answers; the
wiring calls ent's builders, on which the soft-delete traverser and hook act
through ent's interceptors and hooks; ent's errors go through the `ErrorMap`.
Hard behaviour: hard kills and failed writes between renames; requests that are
two database statements with other requests in between; two context switches
that are independent of each other; the global `ErrorMap`; integer overflow in
the offset; refusal rules that must match what the templates can express; rows
that a soft delete hides from every query and not from a foreign key.

The two halves meet in what the templates write: the generator decides which
operations, fields and operators a type gets, and the modules of the run-time
half take that decision as a constant or as part of the initial state. The
run-time modules meet in the request: `Serving` is the handler around an
operation, `Presence` and `Filtering` what it binds, `Wiring` and `Paging` what
the operation does to the database. `Store` puts them together as one generated
program: four entities with their own validators, defaults, unique columns and
edges, over one database.

## 2. Modules

| Module | Models | Kind |
|---|---|---|
| `Generation` | the hook `generatePerTypeFiles` and `removeStaleArtifacts` | state machine |
| `GenerationContract` | what a run promises the tree it writes into | abstract specification |
| `GenerationProofs` | theorems about `Generation` | proofs |
| `Wiring` | the generated operations as SQL statements of concurrent callers | state machine |
| `RowLifecycle` | what soft delete promises of a row | abstract specification |
| `WiringProofs` | theorems about `Wiring` | proofs |
| `Serving` | `API`, `With`, the `ErrorMap`, the five handlers | state machine |
| `ServingProofs` | theorems about `Serving` | proofs |
| `PageWindow` | `Limit` and `Offset`, with an int that wraps | pure |
| `PagingProofs` | theorems about `PageWindow` and `Paging` | proofs |
| `Paging` | a walk over the pages of a list | state machine, over `PageWindow` |
| `Presence` | create and patch requests, from payload to row | state machine |
| `PresenceProofs` | theorems about `Presence` | proofs |
| `Filtering` | a filter, from URL to rows | state machine |
| `FilteringProofs` | theorems about `Filtering` | proofs |
| `Schema` | the refusals of `checkGraphConflicts`, the annotations, and what the templates write for an accepted schema, under an author's edits | state machine |
| `SchemaProofs` | theorems about `Schema` | proofs |
| `Payloads` | payloads, mutations and rows, what the four entities share | pure |
| `Pets`, `Orders`, `Categories`, `Tags` | one generated entity each: requests, builders, queries, responses, operations | pure |
| `Store` | the petstore server: requests as statements on one database | state machine, over the five above |
| `StoreProofs` | theorems about `Store` | proofs |
| `MC...` | values of the constants for TLC | instances |

Beside a definition there may be another of the same parameters with a name that
says what is wrong with it (`VisitSkipsNothing`, `MapErrorWithoutUnique`,
`QueryFromStaleReplica`). Nothing uses them: each is a plausible bug of the code
in the place of the definition, and the property `PROJECT.json` names for it is
violated when it is put there. They show that no property holds for free.

### 2.1 Generation

State. `disk` is the top level of the target directory: for every path who wrote
it, the marker on its first line, and in which run. `schema` is what the
consumer's ent schema declares. `pc`, `written`, `pending`, `temp` and `scan` are
the local variables of the hook and of the cleanup loop. `before`, `leaked`,
`kills` and `edits` are history and bounds.

| Action | Code |
|---|---|
| `StartRun` | `checkGraphConflicts` returns before anything is written |
| `EntGenerate`, `EntFails` | `next.Generate(g)`, external; a failure leaves any part of ent's files done |
| `Render`, `RenderFails`, `RenderDone` | phase 1, one file of the plan in node order, then the graph's own |
| `CreateTemp`, `Rename`, `WriteFails` | phase 2, `writeFormatted`: temporary file, rename, deferred removal |
| `ReadDir`, `Visit`, `VisitFails`, `Finish` | `removeStaleArtifacts`, `removeIfStale`, in the order `os.ReadDir` gives |
| `Kill` | a hard kill: no deferred call runs |
| `EditSchema`, `StripMarker`, `HandWrite`, `CopyGenerated` | the consumer between runs |

`GenerationContract` says it from the outside: preparing changes nothing, then
the files of the plan are replaced whole, each once, then files outside the plan
that carry the marker are removed, and a run may stop anywhere. `KeepsContract`
is the refinement; ent's own files are left out of the mapping, since no promise
is made of them.

### 2.2 Wiring

State. `rows` is the database: an id has no row, a row, or a row with a
`deletedAt`. `clock` is the last `time.Now()` of the hook. `req` is one request
per caller with the stage it is at. `born` are the ids handed out: the default
of the id is evaluated when the builder is built, before the insert. `acked`,
`writes` and two fields of a request are history.

Two types are enough: a `doc` has no response edge, a `draft` expands a required
edge to a doc. `Soft` says which embed `SoftDeleteMixin`; a context is the two
switches of `runtime/softdelete_context.go`.

| Action | Code |
|---|---|
| `Get`, `List`, `Create`, `Patch`, `Delete`, `DeleteBatch` | a call of the operation of that name in `wiring.tmpl` |
| `Insert`, `Update` | the builder's `Save` in `runtime.SaveOne` |
| `Query`, `Edges` | `Only` of get and of SaveOne's read-back; the eager load, a query of its own |
| `Count`, `Page` | the two statements of `runtime.ListPage` |
| `Hook` | `softDeleteHook`: rewrites a delete, and is entered a second time with the update |
| `ExecSoft`, `ExecHard` | the statement the mutation becomes |
| `Fails` | the database refuses a statement or is not there |

Each is one statement, atomic in the database; nothing spans two of them, as in
the code, where no operation opens a transaction of its own (`UpdateOneID`'s
update-and-select is ent's and is one action). The answer of a write may be lost
after the write happened (`Answer`): the caller sees an error of an operation
that was done. `TypeOf(i) \in Soft` in `Visible` is the generated traverser,
`HardDeleteRequested` the switch the hook asks.

`RowLifecycle` is the promise: unborn, live, deleted, gone, and no way back;
only rows of a hidden type are ever deleted. `KeepsLifecycle` is the refinement.
A refused insert abandons its id, so `LifeOf` needs to know which creates are
still to run (`Expected`).

### 2.3 Serving

State. `unique` is the uniqueness determination of the one `ErrorMap` (none, the
consumer's, or a dialect's), `client` and `custom` what `API` and `With` set up,
`request` the request with the stages it has left, `error` and `answers` what
came of it. Actions: `Supply` (`WithUniqueViolation`), `API`, `With`, `Serve`;
`Refuse`, `Pass`, `StepSucceeds`, `StepFails` for a stage of the handler. An error
is what ent made of it and the sentinels in its chain; a request is the set of
its flaws. One request stands for all: requests share only the `ErrorMap`, which
the documentation forbids to change while serving.

### 2.4 Paging

`PageWindow` has Go's `int` as `-MaxInt-1..MaxInt` with wrapping products.
`Paging` has a table that grows, and one caller who begins a walk with any
parameters (`Begin`), is refused or answered in two statements (`Count`,
`Fetch`), and asks for the next page while pages are full (`Continue`, `Stop`).
Rows an order does not tell apart come in any order, so a missing tiebreak shows.

### 2.5 Presence

State. One entity's `schema`, a `row`, and a `request` on its way through
`Decode` (`BindJSON` and `UnmarshalJSON`), `Validate` and `Save` (`Apply` and
ent's `Save`). A request comes through the generated handler, through a handler
of the consumer's own, or is built in Go (`Build`), in which case it has recorded
no presence.

### 2.6 Filtering

The operator table of a field (`Operators`, `funcs_filter.go`), `ParseValue` for
one value of the URL (`Resolve` is the rule for unknown prefixes, `Stored` the
slot it lands in) and `Selected`, the rows the predicates select under SQL's NULL
rules. `Asks` and `Legal` are the reference, written from the words of GUIDE.md
and compared with what the code does.

### 2.7 Schema

State. `graph` maps entity names to nodes: the `Resource` annotation with its
excepted operations, the soft-delete field, the fields with what ent derives from
them and the words they carry, the edges with their field, their other end and
their annotation. `edits` bounds the author, who declares and removes entities,
exposes and conceals them (`Expose`, `Conceal`), excludes and includes operations,
says and unsays words, annotates edges, misplaces annotations, reshapes fields and
attaches the soft-delete marker by hand (`Mark`), naming a field of the entity or
of another: a marker that names no field of its entity is the first of the two
cases `unusableSoftDeleteField` refuses. `Conflicts` is `checkGraphConflicts`; each refusal is an entity, a member
and a rule, one operator per rule function of `schema_conflicts.go`.

A Go name is the sequence of its words, so that `<<"Pet", "List">> \o
<<"Response">>` and `<<"Pet">> \o <<"List", "Response">>` are the one identifier they
are in Go. `DerivedNames` is the list the code keeps by hand;
`RequestNames` ... `HandlerNames` are read off the five templates, and
`DocumentSchemas`, `DocumentRefs` off the document's.

### 2.8 The petstore

`Pets`, `Orders`, `Categories` and `Tags` define the same names, and `Store`
instantiates the four; `Of` chooses by kind where Go chose at compile time. Each
is translated from the generated files of its entity:

| Names | Files of the entity |
|---|---|
| `Columns`, `Unique`, `References` | `<x>/<x>.go`, `migrate/schema.go` |
| `CreateRequestTags`, `ValidCreate`, `ApplyCreate`, `PatchRequestTags`, `ValidPatch`, `ApplyPatch`, `Reads` | `<x>_dto.go` |
| `Defaults`, `CheckCreate`, `CreateSpec`, `CheckUpdate`, `UpdateSpec` | `<x>_create.go`, `<x>_update.go` |
| `Mutate`, `Hooked`, `Rewritten`, `Visible` | `client.go`, `entapi_softdelete.go` |
| `Prepared`, `Only`, `All`, `Count`, `Load...` | `<x>_query.go` |
| `ParseQuery`, `Legal`, `Predicates`, `SortKeys`, `Order` | `<x>_filter.go` |
| `Entity`, `ResponseEdges`, `Response` | `<x>.go`, `<x>_dto.go` |
| `Handle...`, `Endpoints`, `Plan` | `<x>_handler.go`, `entapi_http.go`, `<x>_wiring.go` |

State of `Store`. `rows` and `links` are the tables, `next` the ids SQLite hands out,
`calls` the request of each client: the statements it has still to run, the
entities and edges it has read, its answer, and as history whether it wrote,
whether another write overtook it, and what was deleted before it began.

| Action | Code |
|---|---|
| `Request` | a handler: decode, validate, refuse, or call the wiring |
| `Insert`, `Update` | `sqlSave` of the create and of the UpdateOne builder, after `defaults` and `check` |
| `Hook`, `Stamp` | the soft-delete hook's rewrite, and the bulk update it becomes |
| `Remove` | `sqlExec` of the delete builder |
| `Select` | `runtime.GetOne`, and the read-back of `SaveOne` |
| `CountRows`, `Page` | `runtime.ListPage` |
| `LoadCategory`, `LoadTags`, `LoadPet` | `loadX` of the query builders, one statement for all entities read |
| `Fail` | any statement fails |

Where `Wiring` has one abstract pair of types, all contexts and retries, `Store` has
the real entities and plain contexts: which columns a patch may clear, that an
order's quantity is only checked by the builder, that orders have no delete route,
that categories and tags go for good while pets stay. Size, number and order of a
page are `Paging`'s, operators `Filtering`'s: a list here asks for values. A batch
delete is called from Go, as no route leads to it.

## 3. Runs

| Run | Question | Result |
|---|---|---|
| `generation_runs` | does every sequence of runs, failures, a kill and edits keep the promises? | holds |
| `generation_touch` | does a failure raised in phase 1 touch nothing, as extension.go says? | violated: ent's own files are rewritten first |
| `generation_strip` | is a file whose marker was deleted the consumer's, as README says? | violated: a rename replaces it unread while the schema still produces it, as GUIDE.md says |
| `wiring_soft` | docs soft, drafts hard, all contexts: reads, totals, edges, deletes, creates and patches that read back | holds |
| `serving_api` | one answer, documented, of the right class | holds |
| `serving_dialect` | does every client's dialect get installed, as errors.tmpl says? | violated: the first handler's stays |
| `paging_walk` | every page is the rows of its number, a walk sees every row once and ends | holds |
| `presence_shapes` | absent, null, zero and value, for a field of every shape | holds |
| `filtering_values` | each value selects what it asks and is refused by the rules only | holds |
| `schema_conflicts` | is what the generator accepts something the templates can write, and is the repair a message offers one? | holds |
| `schema_compiles` | is a graph no correct code can be generated for rejected, as schema_conflicts.go says? | violated: resources `Pet` and `PetList` both declare `PetListResponse` |
| `store_answers` | four entities, one database: references, answers of several statements, refusals, progress | holds |

The violations are disagreements between text and code, listed under `findings`
in `PROJECT.json` with both lines. What the code does there may be what is
wanted; the text says something else. One more has no run: the handlers of get and
delete classify an error with a switch of their own instead of `Status`, so that a
replacement returning `ErrUnsupportedMediaType` is answered 500 there although
bind.go documents 415; `GeneratedStatusDocumented` holds because generated
operations never return it.

### What the properties say

- Generation. `DeletesOnlyAfterAllWritten`: a file is gone only after all outputs
  were on disk, and was marked. `SuccessConverges`: success means the marked files
  are this schema's outputs, whatever mess came before. `EmbedHasDocument`: the
  embedding file is never there without its document (this needs both the write
  order and the alphabetical order of cleanup). `UnmarkedLeftAlone`, `RunEnds`;
  `TypeOK` includes that temporary files are left by a hard kill only.
- Wiring. `ReadsHideDeleted`, `NullEdgeMeansDeleted` and `TotalDriftsOnlyByWrites`
  relate the answer of a two-statement read to what others did in between;
  `AckedDeletesAreFinal`, `TombstonesAreHistory` and `OneDeleteWins` the deletes of
  several callers; `LostCreateWasDeleted` and `ExistsMeansDuplicate` what an error
  answer means.
- Serving. `AnsweredOnce`, `GeneratedStatusDocumented`, `ConflictMeansDuplicate`,
  `OneDialectIsExact`.
- Paging. `PageIsItsNumber`, `WalkSeesEveryRowOnce`, `WalkEnds`.
- Presence. `CreateWritesWhatWasSaid`, `PatchTellsThreeStates`: the row after a save
  is what was said, nothing else is touched. `VerdictIsExact`: what is refused
  could not have been saved, what is accepted can be, and no other spelling of a
  key gets through.
- Filtering. `EachValueIsHonoured`, `RefusedByTheRules`.
- Schema. `CollisionsAreRefused`: the reserved names have kept up with five
  templates. `NameRefusalsStable`: the names are reserved at their most, because, as
  the comment at schema_conflicts.go:586 says, a refusal that appears only after an
  unrelated change is worse than a stable reserved set. `ExceptIsARepair`: what a
  message tells the author to write earns no other refusal. `RoutesCanSucceed`,
  `SecretsStayIn`, `ReferencesResolve`.
- Store. `NoOrphans` relates the foreign keys to soft deletes that keep a row: a
  write's guard is the database's own check, so what the property asks is that each
  write of the four entities has one, and that a tombstone counts as a reference;
  `AnswersAreTrue` what an answer shows to what others deleted or moved while its
  statements ran; `EchoesItsWrite` the answer of a write, a read of its own, to the
  payload, but for a price of 0, which the response leaves out;
  `RefusedMeansUnwritten` the status to the write that may have happened before;
  `RequestsAnswered` that the hook's second dispatch ends.

### Bounds, and why they are enough

- `generation_runs`: two entities (one can leave the schema while the other
  stays, and the write order between entities shows), two runs (the second meets
  everything the first can leave), one kill, one edit. Three runs add no new kind
  of directory: a run's effect depends on the directory it finds, and every kind
  of content a path can hold is there after one run. `SuccessConverges` needs a
  broken run followed by a good one. The schemas: both exposed with one soft, one
  entity dropped, none exposed, and a refused one. `ScanRank` is the alphabetical
  order of the real names.
- `wiring_soft`: two callers and three requests: a delete, the read or write it
  races, and one more before or after it. Two docs and one draft let a reference
  point to either of two, and a unique key be held by a live row, by a tombstone or
  by nobody; one of the two seeds lacks the draft, which may then be created, so
  that its read-back races its own deletion. The two callers are interchangeable
  (the run has no liveness property), so symmetry is sound.
- `serving_api`: two handlers are what it takes for two dialects to meet in the
  one map; a third dialect is one the runtime has no determination for.
- `paging_walk`: four rows in two columns with crossing ties, pages of two and
  three, and a 4-bit int: page numbers 6, 7 and 8 reach the wrapping products, the
  out-of-range branch and a number no int holds.
- `presence_shapes`: one field of each of the 144 shapes beside a plain one, and
  payloads of at most two entries: a key, its repetition, its variant, another
  field's key or an unknown one.
- `schema_conflicts`: every three edits of two schemas that hold each thing a rule
  asks about: a required edge with its field, a write-only field, a tree over
  itself, a tombstone. Every rule is about one entity and at most one neighbour.
- `store_answers`: two clients and three of 28 requests, one failing statement: a
  write, one that overtakes it between its statements, and one before that sets
  the stage (a tombstone, a pet that has moved, a name that is taken). The seed has
  one row where main.go's has several. No symmetry, because of `RequestsAnswered`.
- `filtering_values`: two of 28 values, which cover every operator, each way its
  operand can be wrong, and two values in one slot.

### Fairness

- `Generation`: `WF_vars(Generator)`: the process that runs the hook is scheduled.
  Failures, kills, the consumer and the start of a run are not fair.
- `Wiring`: `WF_vars(Statement(c))` for every caller: a goroutine in the middle of a
  request goes on, and the database answers each statement. `Fails` and new calls
  are not fair.
- `Store`: `WF_vars(Statement(c))` for every client, for the same reason.
- `Paging`: `WF_vars(Walk)`: a caller who walks goes on; nobody has to append rows.
- `Serving`, `Presence`, `Filtering` and `Schema` state no liveness and no fairness.

Deadlock checking is off everywhere: a program with no request, or with its bound
of requests used up, stops.

## 4. Proofs

The theorems hold for every value of the constants that satisfies the named
assumptions; the ones that state a property a run checks are listed with it in
`PROJECT.json`.

### 4.1 `GenerationProofs`

Assumptions: `ConstantsAssumption` (entities are positions from 1 on, resources
and soft types are entities of the schema) and `ScanAssumption` (the scan order is
an order, and the embedding file comes before its document).

The checked invariants are not inductive: what may be on disk depends on how far
the run is. `IInv` adds three parts. `PlanInv`: what `written` and `pending` are at
each stage. `DiskInv`: outside ent's files the disk is the one the run found,
except for what was renamed into place and, in cleanup, for marked files that are
gone. `ScanInv`: what the cleanup loop has passed holds nothing stale. From it
follow `PhaseOneIsHarmless`, `DeletionIsLast`, `Convergence` and `EmbedIsBacked`;
`OwnershipByMarker` is an action property under it, and `GeneratorKeepsContract`
shows each step to be one of the contract or a stutter.

`RunsGoOn` and `RunsRunOut` are what `RunEnds` rests on, short of fairness. The first:
what a step of the run needs is there until its stage is done, because the output
order has a first element in any set of outputs (`OneComesFirst`) and the scan order
in any set of files, infinite ones included (`LeastNat`, from the library's `WFMin`).
The second: each step leads to a later stage or leaves less of this one. With
finitely many entities and a process that is scheduled, a run ends.

### 4.2 `PagingProofs`

Assumptions: `PageWindowAssumption` (the cap is an int, the default within it) and
`PagingAssumption` (ids fit an int, what a sortable column holds is compared by `<`,
and a caller sends lists of numbers and of terms).

`LimitIsUsable`: the limit of a list is in `1..MaxPageSize` whatever was asked.
`OffsetIsExact`: an offset that is honoured is exactly `(page-1)*limit`, and one
whose product would wrap becomes the largest int. The argument: if the wrapped
product divided by the limit gives `page - 1` back, then the product and its
wrapped form differ by less than the limit and by a multiple of `2*(MaxInt+1)`,
so they are equal.

Then the order. `RequestedOrder`: what XOrder makes of a request that is not refused
has the id among its terms, and so is a strict total order (`BeforeTotal`, with the
least term on which two rows differ). `PositionIsRank`: in any arrangement the row at
place `n` has `n - 1` rows before it, by the bijection between the places ahead and
the rows before; `WindowIsPage` puts `OffsetIsExact` on top. This is
`PagesAreTheirNumbers`.

A walk compares pages of different moments, which the database may arrange anew
each time. `IInv` therefore speaks of ranks: `PlaceInv` says that the rows seen so
far and those before the first page are the rows before the page under way, and
`SeenInv` that the `m`-th row seen has rank `m - 1` from the first page on, as long
as nothing was appended or the order is that of the ids, in which appended rows come
last (`RankById`). `TotalInv` keeps what the last answer said of the table it found.
Ranks tell rows apart (`OneRowPerRank`), so that none is seen twice and none is
missed: `WalksSeeEveryRow`.

`WalksRunOut` is what `WalkEnds` rests on: a caller who goes on is not refused at the
next page, which has more rows before it than the last and no more than a table can
hold.

### 4.3 `WiringProofs`

Assumptions: `ConstantsAssumption` (disjoint finite sets of ids, nothing deleted
in a seed, docs refer to nothing) and `SeedAssumption` (the reference of a draft is
required and a foreign key).

The proof has two layers. `Step` says what a step may be: a new request, a read,
a refusal, a written row, a pass through the hook, or a delete that ran, each as
one request replaced and its effect on the rows (`Moves`). The invariant lemmas
(`StartedKeeps`, `ReadKeeps`, ...) then argue over these and no longer over IF and
EXCEPT.

`IInv` strengthens what the runs check with: `RowsInv`, an acknowledged row is not
live, and is gone if its type has no tombstones (else an insert could not be told
from a revival); `CreateInv`, a row that is about to be inserted has never been
there and is nobody else's (ids are handed out once); `Shaped`, a mutation that
reaches the database is the hook's rewrite, restricted to live rows and with a
past stamp, or a real delete that was asked for or of a type without tombstones;
`AnswerInv`, what a request knows was acknowledged, and what it has found while
its eager load is still to run is not among it. From it: `TypeCorrect`,
`DeletesAreFinal`, `ReadsNeverShowDeleted`, `DeletesExclude`,
`CreatesAreLostToDeletes`, and the action properties `TombstonesKept` and
`ExistsOnlyForDuplicates`.

`NullEdgesAreDeleted` needs a second invariant, `RefInv`, relative to the first: the
targets of references, in rows and in answers under way, are settled (handed out,
and not about to be inserted), so that a target that is not live now never will
be. `WiringKeepsLifecycle` maps every step to one of `RowLifecycle` or to a stutter
under `IInv`.

### 4.4 `ServingProofs`

Assumption: `ConstantsAssumption` (known dialects are dialects, `none` and `custom`
are not, what may be replaced are operations). `IInv` has two parts. `SetupInv`: the
determination in the map is some client's dialect unless the consumer gave it, and
is missing only while no client has a known one. `RequestInv`: a request under way
has no answer, the operation is its last stage, and each of its flaws has a stage
ahead that refuses it; an answered request has one status, and it is the right one
(`Right`). Without the stages ahead, nothing would say that the operation is
reached by flawless requests only. From it: `OneAnswer`, `StatusesDocumented`,
`ConflictsAreDuplicates`, `DuplicatesAreConflicts`.

### 4.5 `FilteringProofs`

Assumption: `FilteringAssumption` (shapes are shapes; ent derives the operators of a
kind by family, so that whoever has EQ has NEQ; a value has an operator or a text).
A field that has a range has both bounds for this reason, and `between` needs both.
The proof reads the operator table row by row (`RowsOfSlot`, `RowsOfFlag`,
`RowsOfRange`), shows that a slot that was filled asks what the value asked
(`ValueAsks`, `ListAsks`, `FlagAsks`, `RangeAsks`), that a value never widens what is
selected (`Narrows`), and the other way that a value the rules allow is taken
(`AllowedIsTaken`, `LegalIsTaken`). From these: the action properties
`ValuesHonoured` and `RefusalsByTheRules`.

### 4.6 `SchemaProofs`

Assumptions: `ConstantsAssumption` and `SeedsAssumption` (the seeds, and an entity
declared anew, are graphs ent loads). `CollisionsRefused` rests on
`EmittedIsDerived`: whatever the deviations, what the templates write for an entity
is among `DerivedNames`. `NamesStable`, `RoutesSucceed` and `SecretsKept` follow
from the refusals one rule at a time (`AcceptedFields`, `AcceptedEdges`).
`GraphsLoad` is the invariant of the edits: an edge, its field and an exclusion
always belong to what is declared. Nothing of the kind is assumed of a tombstone:
that an accepted schema declares it is what the refusal has to give. `ReferencesAreResolved` needs it, since a `$ref`
to the summary of an undeclared entity would resolve nowhere. So does
`RepairsRepair`: excluding an operation changes one node and narrows it
(`Narrower`), every rule refuses less of a narrower node, and the rules whose
message names the operation refuse nothing.

### 4.7 `StoreProofs`

Assumptions: `RequestsAssumption` (the kinds and operations of the requests),
`NullAssumption` (NULL is no id and no time) and `SeedAssumption` (ids count from 1, the
rows of a table have its columns, references hold in the seed). `IInv` is `RowInv` (ids
are handed out once, rows keep their columns), `NoOrphans` itself and `CallInv`: a plan
writes with its first statement or not at all, so whoever has written has only
reads left, of a row that was there, and can be refused only if that row has been
deleted since. The tables are argued about first (`InsertKeeps`, `UpdateKeeps`,
`RemoveKeeps`, `StampKeeps`), with "what is deleted stays deleted" as part of each,
then the calls (`PlansAreShaped`, one lemma per statement). From it:
`ForeignKeysHold` and `RefusalsAreClean`.

What an answer says needs `AnswerInv` on top. The statements that are left of a call
(`Remaining`) tell what it has read; relative to them, `NodeTrue` says of every row
read and of every edge loaded what still holds of it, `TotalTrue` what a count is
worth before the page and after it, and `EchoTrue` follows a payload from the row
that was written (`Says`) to the entity that is answered (`Shows`), until somebody
else writes. The payloads are read column by column for each of the four entities
(`CreateSays`, `PatchSays` and what they rest on). A step of another call either
leaves the tables alone or marks this one overtaken (`WriteOvertakes`). From it:
`AnswersStayTrue` and `WritesAreEchoed`; `Invariant` states the two parts together.

`CallsCanGoOn` and `CallsRunOut` are what `RequestsAnswered` rests on. An eager load is
guarded by rows to load for; `LoadInv` says that whoever is to load has read some,
since the page or the select that comes before an eager load ends the call when it
finds none. `Left` counts the statements that are left, a delete the hook will rewrite
as two, and every statement lessens it (`StatementMoves`, `MovesLessen`); statements,
failures and requests of others leave it as it is (`OthersStand`).

`StoreKeepsLifecycle`: the four tables implement `RowLifecycle`, which `Wiring` is shown
to implement for types of its own. `Lives` maps an id of a table to its stage; an insert
is a birth because ids are handed out once and a create names no tombstone
(`BirthLives`), the hook's update hides (`BurialLives`), a delete of the other kinds
removes (`RemovalLives`), and everything else, a patch of a row included, leaves every
row where it is.

### 4.8 `PresenceProofs`

Assumption: `PresenceAssumption` (schemas and payloads are of the types named). A
request is decoded twice: presence is recorded from the raw keys, values are
filled by a decoder that folds case. `DecodedIsSaid` and `PresentIsSaid` show that
both give what the payload said, for a key that is said once, provided no variant
of a key is there; `IInv` says of every request that reaches Validate that it was
read so (`Read`), or was built in Go with no nil in a value type. `ValidIsWritable`
is the other half: under `IInv` what Validate lets through has a content for every
column. From these: `VerdictExact`, `CreatesWrite`, `PatchesTell`. `MaxIsOne`, that
the last of some entries is one of them, is the only induction, and comes from the
library's `WFMin`.

### 4.9 What is only model-checked

Liveness itself (`RunEnds`, `RequestsAnswered`, `WalkEnds`): fairness speaks of
ENABLED, which is out of the prover's reach. What the three rest on is proved: that
there is a next step, and that each leaves less to do (4.1, 4.2, 4.7). No safety
property is left to TLC alone.

What a recursive definition or a fold computes for every input would need induction
over data, whose theorems take an operator. The proofs use least elements
(`WFMin`) where one will do.

## 5. Not modelled

- The path text of endpoints: `ColonPath` and `Bind` rewrite the segments of a
  pattern; no state. Which endpoints there are is in `Schema` and `Store`.
- The petstore's code that no generated operation calls: ent's transactions,
  upserts, `CreateBulk`, aggregates, and the builder methods beside the ones the
  DTOs use. The todo example is the same templates for one entity.
- OpenAPI: the declared statuses are in `Serving`, the references in `Schema`; the
  rest is layout.
- Template loading, import computation and string helpers: pure text.
- A duplicate key in a payload: decoded as encoding/json does, the last entry wins.
  No document promises a meaning, so that no property states which entry should;
  `VerdictIsExact` only asks that what is accepted can be saved.
- A write to the `ErrorMap` while serving: a data race that the documentation tells
  the caller to avoid; configuration comes first in the model.
- Two patches of one row: the last writer of a field wins; the documentation
  promises nothing else.
- Paging while other callers delete or reorder rows: documented to skip or repeat.
- Width of number literals in a filter: the set a type's parser accepts is a
  constant of `Filtering`.

## 6. Plan

Every component the program's own logic lives in has a module, and every safety
property of a run has a theorem. What is left:

- `Serving`: what the proofs carry of an answer (`Right`) is about flaws, duplicates and
  the documented statuses; which status each other cause gets is not stated.
- `Filtering`: values are proved one by one; the set of rows that a whole query selects
  needs a history of the values read, which the model does not keep.
- `Store` filters with one operator per field. `Filtering` has them all, for one field;
  a list with every operator on the tables of the petstore is beyond what TLC can
  enumerate, and would add no code that the two do not cover.
