-------------------------------- MODULE Pets --------------------------------
(***************************************************************************)
(* The pet entity of examples/petstore: its table, its requests, what its  *)
(* builders write and read, and the shape of its response.  A pet belongs  *)
(* to a category, may carry tags, and is deleted softly.  Orders,          *)
(* Categories and Tags define the same names for their entity.             *)
(***************************************************************************)
EXTENDS Payloads, Sequences, FiniteSets

\* The table, and its foreign keys.
Columns == {"deleted_at", "name", "status", "price", "photo_urls", "category_id"}
Unique == {}
References(row) == {<<"category", row.category_id>>}

DefaultStatus == "available"
StatusValidator(s) == s \in {"available", "pending", "sold"}

-----------------------------------------------------------------------------
(***************************************************************************)
(* Requests.                                                               *)
(***************************************************************************)
CreateRequestTags == {"name", "status", "price", "photo_urls", "category_id"}

\* Requiredness of a string is asked by its zero value, of an int by presence.
ValidCreate(b) ==
    /\ Field(b, "name", "") # ""
    /\ Carries(b, "category_id")
    /\ Carries(b, "status") => StatusValidator(b.status)

ApplyCreate(b) == PutCarried(b, CreateRequestTags)

PatchRequestTags == {"name", "status", "price", "photo_urls", "category_id"}

\* What a reader of the validated request reports: whether Apply will set it.
Reads(b, k) == IF k \in PatchRequestTags /\ Carries(b, k) THEN <<b[k]>> ELSE <<>>

Clearable == {"price", "photo_urls"}

ValidPatch(b) ==
    /\ \A k \in PatchRequestTags \ Clearable : ~Clears(b, k)
    /\ Carries(b, "status") => StatusValidator(b.status)

ApplyPatchDropsNull(b) == PutCarried(b, PatchRequestTags)

ApplyPatch(b) == PutOrClear(b, PatchRequestTags)

-----------------------------------------------------------------------------
(***************************************************************************)
(* Builders.                                                               *)
(***************************************************************************)
Defaults(m) == PutDefault(PutDefault(m, "status", DefaultStatus), "price", 0)

CheckCreate(m) ==
    /\ \A k \in {"name", "status", "category_id"} : Given(m, k)
    /\ StatusValidator(m.set.status)

CreateSpec(m) == Inserted(m, Columns)

CheckUpdate(m) == Given(m, "status") => StatusValidator(m.set.status)

UpdateSpec(row, m) == Overlay(row, m)

\* The soft delete's mutation, as a bulk update writes it.
CheckBulk(m) == Given(m, "status") => StatusValidator(m.set.status)
BulkSpec(row, m) == Overlay(row, m)
DeletedAt(m) == Put(m, "deleted_at", Tombstone)

\* An operation's mutation.  The soft-delete hook rewrites a delete and sends
\* the mutation through the hooks again, which let an update pass.
Mutate(op) == [create |-> "insert", patch |-> "update",
               delete |-> "remove", batch |-> "remove"][op]
Hooked(statement) == statement = "remove"

RewrittenKeepsOp(statement) == statement

Rewritten(statement) == "stamp"

-----------------------------------------------------------------------------
(***************************************************************************)
(* Queries.  table is [id -> row].                                         *)
(***************************************************************************)
VisibleUnlessSold(row) == row.deleted_at = Null /\ row.status # "sold"

VisibleAlways(row) == TRUE

\* The traverser excludes tombstones from every query.
Visible(row) == row.deleted_at = Null

Prepared(table) == {i \in DOMAIN table : Visible(table[i])}

Only(table, id) == Prepared(table) \cap {id}

\* The filter: one eq operator for each field, _q over the name, and one sort key.
Legal(k, v) ==
    CASE k = "id"     -> v # Junk
      [] k = "status" -> StatusValidator(v)
      [] k = "price"  -> v # Junk
      [] OTHER        -> TRUE

SortKeys == {"id", "name", "status", "price", "created_at"}

ParseQuery(q) ==
    /\ DOMAIN q \subseteq {"id", "name", "status", "price", "_q", "_sort"}
    /\ \A k \in DOMAIN q : Legal(k, q[k])

Order(q) == "_sort" \in DOMAIN q => q._sort \in SortKeys

Predicates(id, row, q) ==
    \A k \in DOMAIN q : CASE k = "id"    -> id = q.id
                          [] k = "_q"    -> row.name = q._q
                          [] k = "_sort" -> TRUE
                          [] OTHER       -> row[k] = q[k]

All(table, q) == {i \in Prepared(table) : Predicates(i, table[i], q)}

Count(table, q) == Cardinality(All(table, q))

-----------------------------------------------------------------------------
(***************************************************************************)
(* Responses.                                                              *)
(***************************************************************************)
\* The entity a row is scanned into.
Entity(id, row) == [id |-> id, name |-> row.name, status |-> row.status,
                    price |-> Scan(row.price, 0), photo_urls |-> row.photo_urls,
                    category_id |-> row.category_id]

\* The eager-load plan of the response.
ResponseEdges == <<"category", "tags">>

\* The category of a pet and its tags, as their own queries see them.
LoadCategory(e, seen) == IF e.category_id \in seen THEN e.category_id ELSE Null
LoadTags(e, links, seen) == {t \in seen : <<e.id, t>> \in links}

Response(e, edges) ==
    [id |-> e.id, name |-> e.name, status |-> e.status, price |-> PtrOrNil(e.price, 0),
     photo_urls |-> e.photo_urls, category_id |-> e.category_id,
     category |-> edges.category, tags |-> edges.tags]

-----------------------------------------------------------------------------
(***************************************************************************)
(* Operations: what the handler refuses by itself, and the statements the  *)
(* wiring runs otherwise.                                                  *)
(***************************************************************************)
HandleList(q) == IF ParseQuery(q) /\ Order(q) THEN 0 ELSE 400

HandleCreate(b) == IF ~Decodes(b, CreateRequestTags) THEN 400
                   ELSE IF ~ValidCreate(b) THEN 422 ELSE 0

HandleGet(id) == IF id = Junk THEN 400 ELSE 0

\* The id is parsed last.
HandlePatch(id, b) == IF ~Decodes(b, PatchRequestTags) THEN 400
                      ELSE IF ~ValidPatch(b) THEN 422
                      ELSE IF id = Junk THEN 400 ELSE 0

HandleDelete(id) == IF id = Junk THEN 400 ELSE 0

Endpoints == {"list", "create", "get", "patch", "delete"}

\* A save returns no edges: the response is read back.
Reloaded == <<"select">> \o ResponseEdges

Plan(op) ==
    CASE op = "get"                 -> <<"select">> \o ResponseEdges
      [] op = "list"                -> <<"count", "page">> \o ResponseEdges
      [] op \in {"create", "patch"} -> <<Mutate(op)>> \o Reloaded
      [] op \in {"delete", "batch"} -> <<Mutate(op)>>
=============================================================================
