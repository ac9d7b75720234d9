----------------------------- MODULE Categories -----------------------------
(***************************************************************************)
(* The category entity of examples/petstore, in the names of Pets.  Its    *)
(* name is unique; pets refer to it.                                       *)
(***************************************************************************)
EXTENDS Payloads, Sequences, FiniteSets

Columns == {"name"}
Unique == {"name"}
References(row) == {}

-----------------------------------------------------------------------------
(* Requests. *)
CreateRequestTags == {"name"}

ValidCreate(b) == Field(b, "name", "") # ""

ApplyCreate(b) == PutCarried(b, CreateRequestTags)

PatchRequestTags == {"name"}

Reads(b, k) == IF k \in PatchRequestTags /\ Carries(b, k) THEN <<b[k]>> ELSE <<>>

ValidPatch(b) == ~Clears(b, "name")

ApplyPatch(b) == PutOrClear(b, PatchRequestTags)

-----------------------------------------------------------------------------
(* Builders. *)
Defaults(m) == m

CheckCreate(m) == Given(m, "name")

CreateSpec(m) == Inserted(m, Columns)

CheckUpdate(m) == TRUE

UpdateSpec(row, m) == Overlay(row, m)

Mutate(op) == [create |-> "insert", patch |-> "update",
               delete |-> "remove", batch |-> "remove"][op]
Hooked(statement) == FALSE

-----------------------------------------------------------------------------
(* Queries. *)
Visible(row) == TRUE

Prepared(table) == {i \in DOMAIN table : Visible(table[i])}

Only(table, id) == Prepared(table) \cap {id}

Legal(k, v) == k = "id" => v # Junk

SortKeys == {"id", "name"}

ParseQuery(q) ==
    DOMAIN q \subseteq {"id", "name", "_q", "_sort"} /\ \A k \in DOMAIN q : Legal(k, q[k])

Order(q) == "_sort" \in DOMAIN q => q._sort \in SortKeys

Predicates(id, row, q) ==
    \A k \in DOMAIN q : CASE k = "id"            -> id = q.id
                          [] k \in {"name", "_q"} -> row.name = q[k]
                          [] OTHER               -> TRUE

All(table, q) == {i \in Prepared(table) : Predicates(i, table[i], q)}

Count(table, q) == Cardinality(All(table, q))

-----------------------------------------------------------------------------
(* Responses: no edge is expanded, so that the saved entity is the answer. *)
Entity(id, row) == [id |-> id, name |-> row.name]

ResponseEdges == <<>>

Response(e, edges) == e

-----------------------------------------------------------------------------
(* Operations. *)
HandleList(q) == IF ParseQuery(q) /\ Order(q) THEN 0 ELSE 400

HandleCreate(b) == IF ~Decodes(b, CreateRequestTags) THEN 400
                   ELSE IF ~ValidCreate(b) THEN 422 ELSE 0

HandleGet(id) == IF id = Junk THEN 400 ELSE 0

HandlePatch(id, b) == IF ~Decodes(b, PatchRequestTags) THEN 400
                      ELSE IF ~ValidPatch(b) THEN 422
                      ELSE IF id = Junk THEN 400 ELSE 0

HandleDelete(id) == IF id = Junk THEN 400 ELSE 0

Endpoints == {"list", "create", "get", "patch", "delete"}

Reloaded == <<>>

Plan(op) ==
    CASE op = "get"                 -> <<"select">> \o ResponseEdges
      [] op = "list"                -> <<"count", "page">> \o ResponseEdges
      [] op \in {"create", "patch"} -> <<Mutate(op)>> \o Reloaded
      [] op \in {"delete", "batch"} -> <<Mutate(op)>>
=============================================================================
