------------------------------- MODULE Wiring -------------------------------
(***************************************************************************)
(* The generated wiring on a soft-deleting database (templates/wiring.tmpl,*)
(* templates/softdelete.tmpl, runtime/query.go).                           *)
(*                                                                         *)
(* An operation is a sequence of SQL statements with no transaction around *)
(* them, so other requests run in between:                                 *)
(*   get            query, then the eager load of the expanded edge        *)
(*   list           count, page, eager load                                *)
(*   create, patch  save, then a get of the row when the response has edges*)
(*   delete, batch  the hook rewrites the mutation, then one statement     *)
(* Two entity types are enough to tell the cases apart: a doc has no       *)
(* response edge; a draft expands a required edge to a doc.  Soft says     *)
(* which of them embed SoftDeleteMixin.                                    *)
(***************************************************************************)
EXTENDS Naturals, FiniteSets

CONSTANTS
    Client,        \* concurrent callers of the wiring
    Doc, Draft,    \* the ids the rows of either type may get
    Key,           \* values of a unique column
    Soft,          \* the types that embed SoftDeleteMixin
    Contexts,      \* the contexts callers use
    Seed,          \* [id -> row] the database may start with
    MaxRequests    \* bound on requests

Id == Doc \cup Draft
Type == {"doc", "draft"}
IdsOf(t) == IF t = "doc" THEN Doc ELSE Draft
HasEdges(t) == t = "draft"

\* The two context keys of runtime/softdelete_context.go.
Context == [included: BOOLEAN, hard: BOOLEAN]

NoRow == [key |-> "none", ref |-> "none", deletedAt |-> 0]
Row   == [key: Key, ref: Doc \cup {"none"}, deletedAt: Nat]
Op    == {"none", "get", "list", "create", "patch", "delete", "batch"}
Kind  == {"none", "ok", "notfound", "exists", "internal"}
Stage == {"save", "query", "edges", "count", "page", "hook", "exec", "done"}

\* A mutation: its Op, whether it carries the DeletedAtIsNil predicate, and the
\* tombstone it sets, 0 for none.
Mutation == [op: {"delete", "update"}, whereLive: BOOLEAN, stamp: Nat]

Request ==
    [op: Op, type: Type, ids: SUBSET Id, ctx: Context, key: Key \cup {"none"},
     ref: Doc \cup {"none"}, stage: Stage, mutation: Mutation,
     found: SUBSET (Id \X (Doc \cup {"none"})), total: Nat,
     \* the answer: its kind, and the rows of the response with their edges
     kind: Kind, nulls: SUBSET Id,
     \* history: the deletes acknowledged before it began, the writes before
     \* its count
     known: SUBSET Id, since: Nat]

ASSUME ConstantsAssumption ==
    /\ Doc \cap Draft = {} /\ "none" \notin Doc \cup Draft \cup Key
    /\ Soft \subseteq Type /\ Contexts \subseteq Context /\ MaxRequests \in Nat
    /\ IsFiniteSet(Id)
    /\ Seed \subseteq [Id -> Row \cup {NoRow}]
    /\ \A s \in Seed, i \in Id : s[i].deletedAt = 0 /\ (i \in Doc => s[i].ref = "none")
\* The edge of a draft is required, and a foreign key.
ASSUME SeedAssumption ==
    \A s \in Seed, i \in Draft :
        s[i] # NoRow => s[i].ref \in Doc /\ s[s[i].ref] # NoRow

VARIABLES
    rows,       \* [Id -> Row \cup {NoRow}], the database
    born,       \* ids handed out so far; ids are never handed out twice
    clock,      \* the last time.Now() a hook put in a mutation
    req,        \* [Client -> Request], the current or the last request
    acked,      \* history: rows whose delete was acknowledged
    writes,     \* history: write statements that matched a row
    requests    \* requests so far

vars == <<rows, born, clock, req, acked, writes, requests>>
database == <<rows, born, clock, acked, writes>>

TypeOf(i)  == IF i \in Doc THEN "doc" ELSE "draft"
Exists(i)  == rows[i] # NoRow
Live(i)    == Exists(i) /\ rows[i].deletedAt = 0
Deleted(i) == Exists(i) /\ rows[i].deletedAt # 0

SoftDeletedIncluded(ctx) == ctx.included

HardDeleteRequestedByEitherSwitch(ctx) == ctx.hard \/ ctx.included

HardDeleteRequested(ctx) == ctx.hard

\* softDeleteTraverser: what a query under ctx sees of the rows.
Visible(i, ctx) ==
    Exists(i) /\ (TypeOf(i) \in Soft /\ ~SoftDeletedIncluded(ctx) => Live(i))

ClassifyEveryConstraint(violation) == "exists"

\* ErrorMap.MapError on a ConstraintError: only one the dialect's determination
\* recognises as a uniqueness violation is a duplicate.
Classify(violation) == IF violation = "unique" THEN "exists" ELSE "internal"

(***************************************************************************)
(* A request begins.                                                       *)
(***************************************************************************)
NoMutation == [op |-> "update", whereLive |-> FALSE, stamp |-> 0]
DeleteMutation == [NoMutation EXCEPT !.op = "delete"]

NewRequest(op, t, S, x) ==
    [op |-> op, type |-> t, ids |-> S, ctx |-> x, key |-> "none", ref |-> "none",
     stage |-> "query", mutation |-> NoMutation, found |-> {}, total |-> 0,
     kind |-> "none", nulls |-> {}, known |-> acked, since |-> 0]

Begin(c, r) ==
    /\ req[c].stage = "done" /\ requests < MaxRequests
    /\ req' = [req EXCEPT ![c] = r]
    /\ requests' = requests + 1

Get(c, i, x) ==
    /\ Begin(c, NewRequest("get", TypeOf(i), {i}, x))
    /\ UNCHANGED database

List(c, t, x) ==
    /\ Begin(c, [NewRequest("list", t, IdsOf(t), x) EXCEPT !.stage = "count"])
    /\ UNCHANGED database

CreateForgetsId(c, i, k, d, x) ==
    /\ i \notin born /\ (d = "none" <=> i \in Doc)
    /\ Begin(c, [NewRequest("create", TypeOf(i), {i}, x)
                   EXCEPT !.stage = "save", !.key = k, !.ref = d])
    /\ UNCHANGED database

\* The id is the builder's default; the draft's edge is any id the body names.
Create(c, i, k, d, x) ==
    /\ i \notin born /\ (d = "none" <=> i \in Doc)
    /\ Begin(c, [NewRequest("create", TypeOf(i), {i}, x)
                   EXCEPT !.stage = "save", !.key = k, !.ref = d])
    /\ born' = born \cup {i}
    /\ UNCHANGED <<rows, clock, acked, writes>>

Patch(c, i, k, x) ==
    /\ Begin(c, [NewRequest("patch", TypeOf(i), {i}, x)
                   EXCEPT !.stage = "save", !.key = k])
    /\ UNCHANGED database

Delete(c, i, x) ==
    /\ Begin(c, [NewRequest("delete", TypeOf(i), {i}, x)
                   EXCEPT !.stage = "hook", !.mutation = DeleteMutation])
    /\ UNCHANGED database

DeleteBatch(c, t, S, x) ==
    /\ S \subseteq IdsOf(t)
    /\ Begin(c, [NewRequest("batch", t, S, x)
                   EXCEPT !.stage = "hook", !.mutation = DeleteMutation])
    /\ UNCHANGED database

(***************************************************************************)
(* Its statements.                                                         *)
(***************************************************************************)
At(c, stage) == req[c].stage = stage

Finish(c, kind) ==
    req' = [req EXCEPT ![c].stage = "done", ![c].kind = kind]

\* The statement ran; its answer may still be lost (a cancelled context, a
\* dropped connection), and then the caller only sees an error.
Answer == {"ok", "internal"}

\* SaveOne's tail: an entity whose response has edges is read back.
Saved(c, answer) ==
    req' = [req EXCEPT
              ![c].stage = IF answer = "ok" /\ HasEdges(req[c].type) THEN "query" ELSE "done",
              ![c].kind  = IF answer = "ok" /\ HasEdges(req[c].type) THEN "none" ELSE answer,
              ![c].found = IF answer = "ok" /\ ~HasEdges(req[c].type)
                             THEN req[c].ids \X {"none"} ELSE {}]

KeyTaken(k, i) == \E j \in IdsOf(TypeOf(i)) \ {i} : Exists(j) /\ rows[j].key = k
RefDangles(d)  == d # "none" /\ ~Exists(d)

\* The INSERT.  A tombstone still holds its unique key.
Insert(c) ==
    /\ At(c, "save") /\ req[c].op = "create"
    /\ LET r == req[c] IN
       \E i \in r.ids :
         \/ /\ KeyTaken(r.key, i) /\ Finish(c, Classify("unique"))
            /\ UNCHANGED <<rows, writes>>
         \/ /\ RefDangles(r.ref) /\ Finish(c, Classify("foreign key"))
            /\ UNCHANGED <<rows, writes>>
         \/ /\ ~KeyTaken(r.key, i) /\ ~RefDangles(r.ref)
            /\ rows' = [rows EXCEPT ![i] =
                          [key |-> r.key, ref |-> r.ref, deletedAt |-> 0]]
            /\ writes' = writes + 1
            /\ \E answer \in Answer : Saved(c, answer)
    /\ UNCHANGED <<born, clock, acked, requests>>

PatchedAsNew(row, k) == [row EXCEPT !.key = k, !.deletedAt = 0]

\* Apply sets what the body carries and nothing else.
Patched(row, k) == [row EXCEPT !.key = k]

\* UpdateOneID: UPDATE and SELECT by id in one transaction.  It is a mutation,
\* so no interceptor runs: a tombstone is updated like any row.
Update(c) ==
    /\ At(c, "save") /\ req[c].op = "patch"
    /\ LET r == req[c] IN
       \E i \in r.ids :
         \/ /\ ~Exists(i) /\ Finish(c, "notfound")
            /\ UNCHANGED <<rows, writes>>
         \/ /\ Exists(i) /\ KeyTaken(r.key, i) /\ Finish(c, Classify("unique"))
            /\ UNCHANGED <<rows, writes>>
         \/ /\ Exists(i) /\ ~KeyTaken(r.key, i)
            /\ rows' = [rows EXCEPT ![i] = Patched(@, r.key)]
            /\ writes' = writes + 1
            /\ \E answer \in Answer : Saved(c, answer)
    /\ UNCHANGED <<born, clock, acked, requests>>

\* The rows a query of this request returns, with the foreign keys it reads.
Matches(c) ==
    {<<i, rows[i].ref>> : i \in {j \in req[c].ids : Visible(j, req[c].ctx)}}

QueryFromStaleReplica(c) ==
    /\ At(c, "query")
    /\ \/ Finish(c, "notfound")
       \/ /\ Matches(c) # {}
          /\ req' = [req EXCEPT
                       ![c].found = Matches(c),
                       ![c].stage = IF HasEdges(req[c].type) THEN "edges" ELSE "done",
                       ![c].kind  = IF HasEdges(req[c].type) THEN "none" ELSE "ok"]
    /\ UNCHANGED <<database, requests>>

\* Get's Only, and the reload of a create or a patch.
Query(c) ==
    /\ At(c, "query")
    /\ \/ Matches(c) = {} /\ Finish(c, "notfound")
       \/ /\ Matches(c) # {}
          /\ req' = [req EXCEPT
                       ![c].found = Matches(c),
                       ![c].stage = IF HasEdges(req[c].type) THEN "edges" ELSE "done",
                       ![c].kind  = IF HasEdges(req[c].type) THEN "none" ELSE "ok"]
    /\ UNCHANGED <<database, requests>>

LoadedUnfiltered(d, ctx) == Exists(d)

LoadedLive(d, ctx) == Exists(d) /\ (TypeOf(d) \in Soft => Live(d))

\* A With<Edge>() sub-query goes through the interceptors of the target.
Loaded(d, ctx) == Visible(d, ctx)

\* The eager load is a query of its own, and the traverser runs on it: a target
\* it does not return is a null edge.
Edges(c) ==
    /\ At(c, "edges")
    /\ req' = [req EXCEPT
                 ![c].nulls = {p[1] : p \in {q \in req[c].found :
                                               ~Loaded(q[2], req[c].ctx)}},
                 ![c].stage = "done", ![c].kind = "ok"]
    /\ UNCHANGED <<database, requests>>

CountEveryRow(c) ==
    /\ At(c, "count")
    /\ req' = [req EXCEPT ![c].total = Cardinality({i \in req[c].ids : Exists(i)}),
                          ![c].since = writes, ![c].stage = "page"]
    /\ UNCHANGED <<database, requests>>

Count(c) ==
    /\ At(c, "count")
    /\ req' = [req EXCEPT ![c].total = Cardinality(Matches(c)),
                          ![c].since = writes, ![c].stage = "page"]
    /\ UNCHANGED <<database, requests>>

\* One page holds every row here; no eager load is issued for an empty one.
Page(c) ==
    /\ At(c, "page")
    /\ LET more == HasEdges(req[c].type) /\ Matches(c) # {} IN
       req' = [req EXCEPT ![c].found = Matches(c),
                          ![c].stage = IF more THEN "edges" ELSE "done",
                          ![c].kind  = IF more THEN "none" ELSE "ok"]
    /\ UNCHANGED <<database, requests>>

RewrittenAnyRow == [op |-> "update", whereLive |-> FALSE, stamp |-> clock + 1]

RewrittenKeepsOp == [op |-> "delete", whereLive |-> TRUE, stamp |-> clock]

\* m.WhereP(DeletedAtIsNil()); m.SetOp(OpUpdate); m.SetDeletedAt(time.Now()).
Rewritten == [op |-> "update", whereLive |-> TRUE, stamp |-> clock + 1]

\* softDeleteHook: a delete of a soft type is dispatched again as an update,
\* through the same hooks, which let an update pass.
Hook(c) ==
    /\ At(c, "hook")
    /\ LET rewrites == /\ req[c].mutation.op = "delete"
                       /\ ~HardDeleteRequested(req[c].ctx)
                       /\ req[c].type \in Soft
       IN /\ req' = IF rewrites
                      THEN [req EXCEPT ![c].mutation = Rewritten]
                      ELSE [req EXCEPT ![c].stage = "exec"]
          /\ clock' = IF rewrites THEN Rewritten.stamp ELSE clock
    /\ UNCHANGED <<rows, born, acked, writes, requests>>

Affected(c) ==
    {i \in req[c].ids : Exists(i) /\ (req[c].mutation.whereLive => Live(i))}

Referenced(S) == \E i \in Draft : Exists(i) /\ rows[i].ref \in S

\* A delete of one row that affects none is a NotFoundError; a batch reports
\* its count.
Outcome(c, answer) ==
    IF req[c].op = "delete" /\ Affected(c) = {} /\ answer = "ok" THEN "notfound"
                                                                ELSE answer

Acknowledge(c, answer) ==
    /\ req' = [req EXCEPT ![c].stage = "done", ![c].kind = Outcome(c, answer),
                          ![c].total = Cardinality(Affected(c))]
    /\ acked' = IF answer = "ok" THEN acked \cup Affected(c) ELSE acked
    /\ writes' = IF Affected(c) = {} THEN writes ELSE writes + 1

\* The rewritten statement: UPDATE ... SET deleted_at WHERE id IN ... AND
\* deleted_at IS NULL.
ExecSoft(c) ==
    /\ At(c, "exec") /\ req[c].mutation.op = "update"
    /\ rows' = [i \in Id |-> IF i \in Affected(c)
                               THEN [rows[i] EXCEPT !.deletedAt = req[c].mutation.stamp]
                               ELSE rows[i]]
    /\ \E answer \in Answer : Acknowledge(c, answer)
    /\ UNCHANGED <<born, clock, requests>>

\* sqlExec: the real DELETE, which the foreign key of a draft may refuse.
ExecHard(c) ==
    /\ At(c, "exec") /\ req[c].mutation.op = "delete"
    /\ \/ /\ Referenced(Affected(c)) /\ Finish(c, Classify("foreign key"))
          /\ UNCHANGED <<rows, acked, writes>>
       \/ /\ ~Referenced(Affected(c))
          /\ rows' = [i \in Id |-> IF i \in Affected(c) THEN NoRow ELSE rows[i]]
          /\ \E answer \in Answer : Acknowledge(c, answer)
    /\ UNCHANGED <<born, clock, requests>>

\* The database refuses a statement or is not there.
Fails(c) ==
    /\ ~At(c, "done") /\ ~At(c, "hook")
    /\ Finish(c, "internal")
    /\ UNCHANGED <<database, requests>>

-----------------------------------------------------------------------------
NoRequest ==
    [NewRequest("none", "doc", {}, [included |-> FALSE, hard |-> FALSE])
       EXCEPT !.stage = "done"]

Init ==
    /\ rows \in Seed
    /\ born = {i \in Id : Exists(i)}
    /\ clock = 0 /\ acked = {} /\ writes = 0 /\ requests = 0
    /\ req = [c \in Client |-> NoRequest]

Call(c) ==
    \E x \in Contexts :
      \/ \E i \in Id : Get(c, i, x) \/ Delete(c, i, x)
      \/ \E t \in Type : List(c, t, x) \/ \E S \in SUBSET IdsOf(t) : DeleteBatch(c, t, S, x)
      \/ \E i \in Id, k \in Key : Patch(c, i, k, x)
      \/ \E i \in Id, k \in Key, d \in Doc \cup {"none"} : Create(c, i, k, d, x)

Statement(c) ==
    \/ Insert(c) \/ Update(c) \/ Query(c) \/ Edges(c) \/ Count(c) \/ Page(c)
    \/ Hook(c) \/ ExecSoft(c) \/ ExecHard(c)

Next == \E c \in Client : Call(c) \/ Statement(c) \/ Fails(c)

\* A goroutine in the middle of a request keeps running.
Spec == Init /\ [][Next]_vars /\ \A c \in Client : WF_vars(Statement(c))

-----------------------------------------------------------------------------
\* Every variable keeps its shape, tombstones carry past stamps, and what is
\* not born is not there.
TypeOK ==
    /\ rows \in [Id -> Row \cup {NoRow}]
    /\ born \in SUBSET Id /\ acked \in SUBSET born
    /\ \A i \in Id : Exists(i) => i \in born /\ rows[i].deletedAt <= clock
    /\ requests \in 0 .. MaxRequests /\ clock \in Nat /\ writes \in Nat
    /\ req \in [Client -> Request]

PlainDone(c) == req[c].stage = "done" /\ ~req[c].ctx.included
Rows(c)      == {p[1] : p \in req[c].found}

\* README: "Deleted rows disappear from every read - including eager loads".
\* No read that began after a delete was acknowledged answers with the row, nor
\* with a reference to it as an expanded edge, however its statements and other
\* requests interleave.  The answer of a create or a patch that reads its row
\* back is such a read.
ReadsHideDeleted ==
    \A c \in Client :
        /\ PlainDone(c) /\ req[c].kind = "ok"
        /\ req[c].op \in {"get", "list"} \/ HasEdges(req[c].type)
        => \A p \in req[c].found :
             p[1] \notin req[c].known /\ (p[2] \in req[c].known => p[1] \in req[c].nulls)

\* An acknowledged delete, soft or hard, is forever: no patch, create or second
\* delete makes the row live again.
AckedDeletesAreFinal == \A i \in acked : ~Live(i)

\* Hook: deleting a deleted row "surfaces as a not-found rather than as a silent
\* re-stamp".  A tombstone is never stamped anew, and a row of a soft type leaves
\* the table only through a request whose context carries WithHardDelete: the
\* switch that shows tombstones does not arm a real delete.
TombstonesAreHistory ==
    [][\A i \in Id : Exists(i) =>
         IF rows'[i] = NoRow
           THEN TypeOf(i) \in Soft => \E c \in Client :
                  At(c, "exec") /\ i \in req[c].ids /\ req[c].ctx.hard
           ELSE Deleted(i) => rows'[i].deletedAt = rows[i].deletedAt]_vars

\* Two deletes of one row, in any interleaving, are never both acknowledged.
OneDeleteWins ==
    \A c, d \in Client :
        /\ req[c].op = "delete" /\ req[c].kind = "ok"
        /\ req[d].op = "delete" /\ req[d].kind = "ok"
        /\ req[c].ids = req[d].ids
        /\ ~req[c].ctx.hard /\ ~req[d].ctx.hard
        => c = d

\* GUIDE: an expanded edge is null when its target is deleted.  A null edge
\* means the target is deleted for good; under WithSoftDeleted, that it is gone.
NullEdgeMeansDeleted ==
    \A c \in Client : \A p \in req[c].found :
        p[1] \in req[c].nulls =>
            /\ ~Live(p[2])
            /\ req[c].ctx.included => ~Exists(p[2])

\* A list whose total is not the number of rows it returned was overtaken by a
\* write between its count and its page.
TotalDriftsOnlyByWrites ==
    \A c \in Client :
        req[c].op = "list" /\ req[c].kind = "ok" /\ req[c].total # Cardinality(Rows(c))
            => writes # req[c].since

\* A create answered not-found did insert its row, and somebody has deleted it
\* since; it never answers not-found for a row that is there.
LostCreateWasDeleted ==
    \A c \in Client :
        req[c].op = "create" /\ req[c].kind = "notfound" => \A i \in req[c].ids : ~Live(i)

\* Issue 13: only a duplicate key is answered already-exists; a foreign-key
\* failure never is.
ExistsMeansDuplicate ==
    [][\A c \in Client :
         req'[c].kind = "exists" /\ ~At(c, "done")
         => \E i \in req[c].ids : KeyTaken(req[c].key, i)]_vars

\* A row as its life cycle describes it: an id whose insert has not run yet is
\* not born, one whose row is not there any more is gone.
Expected(i) ==
    \E c \in Client : At(c, "save") /\ req[c].op = "create" /\ i \in req[c].ids

LifeOf(i) ==
    IF Live(i) THEN "live" ELSE IF Deleted(i) THEN "deleted"
    ELSE IF i \notin born \/ Expected(i) THEN "unborn" ELSE "gone"

Lifecycle == INSTANCE RowLifecycle WITH
    Row    <- Id,
    Hidden <- {i \in Id : TypeOf(i) \in Soft},
    life   <- [i \in Id |-> LifeOf(i)]

\* Every interleaving of requests moves every row along its life cycle.
KeepsLifecycle == Lifecycle!Spec
=============================================================================
