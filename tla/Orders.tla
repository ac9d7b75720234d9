------------------------------- MODULE Orders -------------------------------
(***************************************************************************)
(* The order entity of examples/petstore, in the names of Pets.  An order  *)
(* is for one pet; no endpoint deletes it (Except(OpDelete)), the wiring   *)
(* still can.                                                              *)
(***************************************************************************)
EXTENDS Payloads, Sequences, FiniteSets

Columns == {"quantity", "status", "ship_date", "pet_id"}
Unique == {}
References(row) == {<<"pet", row.pet_id>>}

DefaultStatus == "placed"
StatusValidator(s) == s \in {"placed", "approved", "delivered"}
QuantityValidator(n) == n > 0

-----------------------------------------------------------------------------
(* Requests. *)
CreateRequestTags == {"quantity", "status", "ship_date", "pet_id"}

ValidCreate(b) ==
    /\ Carries(b, "quantity")
    /\ Carries(b, "pet_id")
    /\ Carries(b, "status") => StatusValidator(b.status)

ApplyCreate(b) == PutCarried(b, CreateRequestTags)

PatchRequestTags == {"quantity", "status", "ship_date", "pet_id"}

Reads(b, k) == IF k \in PatchRequestTags /\ Carries(b, k) THEN <<b[k]>> ELSE <<>>

Clearable == {"ship_date"}

ValidPatch(b) ==
    /\ \A k \in PatchRequestTags \ Clearable : ~Clears(b, k)
    /\ Carries(b, "status") => StatusValidator(b.status)

ApplyPatch(b) == PutOrClear(b, PatchRequestTags)

-----------------------------------------------------------------------------
(* Builders.  Only they know that a quantity is positive. *)
Defaults(m) == PutDefault(m, "status", DefaultStatus)

CheckCreate(m) ==
    /\ \A k \in {"quantity", "status", "pet_id"} : Given(m, k)
    /\ QuantityValidator(m.set.quantity)
    /\ StatusValidator(m.set.status)

CreateSpec(m) == Inserted(m, Columns)

CheckUpdate(m) ==
    /\ Given(m, "quantity") => QuantityValidator(m.set.quantity)
    /\ Given(m, "status") => StatusValidator(m.set.status)

UpdateSpec(row, m) == Overlay(row, m)

Mutate(op) == [create |-> "insert", patch |-> "update",
               delete |-> "remove", batch |-> "remove"][op]
Hooked(statement) == FALSE

-----------------------------------------------------------------------------
(* Queries. *)
Visible(row) == TRUE

Prepared(table) == {i \in DOMAIN table : Visible(table[i])}

Only(table, id) == Prepared(table) \cap {id}

Legal(k, v) == CASE k = "id" -> v # Junk [] k = "status" -> StatusValidator(v) [] OTHER -> TRUE

SortKeys == {"id", "status", "created_at"}

ParseQuery(q) ==
    DOMAIN q \subseteq {"id", "status", "_sort"} /\ \A k \in DOMAIN q : Legal(k, q[k])

Order(q) == "_sort" \in DOMAIN q => q._sort \in SortKeys

Predicates(id, row, q) ==
    \A k \in DOMAIN q : CASE k = "id"     -> id = q.id
                          [] k = "status" -> row.status = q.status
                          [] OTHER        -> TRUE

All(table, q) == {i \in Prepared(table) : Predicates(i, table[i], q)}

Count(table, q) == Cardinality(All(table, q))

-----------------------------------------------------------------------------
(* Responses. *)
Entity(id, row) == [id |-> id, quantity |-> row.quantity, status |-> row.status,
                    ship_date |-> row.ship_date, pet_id |-> row.pet_id]

ResponseEdges == <<"pet">>

LoadPet(e, seen) == IF e.pet_id \in seen THEN e.pet_id ELSE Null

Response(e, edges) ==
    [id |-> e.id, quantity |-> e.quantity, status |-> e.status, ship_date |-> e.ship_date,
     pet_id |-> e.pet_id, pet |-> edges.pet]

-----------------------------------------------------------------------------
(* Operations. *)
HandleList(q) == IF ParseQuery(q) /\ Order(q) THEN 0 ELSE 400

HandleCreate(b) == IF ~Decodes(b, CreateRequestTags) THEN 400
                   ELSE IF ~ValidCreate(b) THEN 422 ELSE 0

HandleGet(id) == IF id = Junk THEN 400 ELSE 0

HandlePatch(id, b) == IF ~Decodes(b, PatchRequestTags) THEN 400
                      ELSE IF ~ValidPatch(b) THEN 422
                      ELSE IF id = Junk THEN 400 ELSE 0

Endpoints == {"list", "create", "get", "patch"}

Reloaded == <<"select">> \o ResponseEdges

Plan(op) ==
    CASE op = "get"                 -> <<"select">> \o ResponseEdges
      [] op = "list"                -> <<"count", "page">> \o ResponseEdges
      [] op \in {"create", "patch"} -> <<Mutate(op)>> \o Reloaded
      [] op \in {"delete", "batch"} -> <<Mutate(op)>>
=============================================================================
