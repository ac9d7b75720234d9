-------------------------------- MODULE Store --------------------------------
(***************************************************************************)
(* The petstore server of examples/petstore as it runs: four entities      *)
(* behind one generated HTTP API, on one database.  A request is decoded   *)
(* and validated by its handler, then the wiring runs its statements one   *)
(* by one, each its own transaction, with the statements of other requests *)
(* in between; each eager load is a statement of its own.                  *)
(*                                                                         *)
(* The database holds four tables and the link table pet_tags, and checks  *)
(* its unique columns and foreign keys.  A category or a tag is removed, a *)
(* pet is stamped and stays for the foreign keys to see.                   *)
(***************************************************************************)
EXTENDS Payloads, Sequences, FiniteSets

CONSTANTS
    Client,         \* concurrent callers
    Requests,       \* the requests they send: [kind, op, ids, body]
    SeedRows,       \* the rows the database starts with: [Kind -> [ids -> row]]
    SeedLinks,      \* the rows of pet_tags it starts with
    MaxRequests,    \* bound on requests
    MaxFailures     \* bound on failures of the database

Kind == {"category", "order", "pet", "tag"}

Pet      == INSTANCE Pets
Order    == INSTANCE Orders
Category == INSTANCE Categories
Tag      == INSTANCE Tags

\* Client.Mutate and the generated functions choose by type.
Of(kind, category, order, pet, tag) ==
    CASE kind = "category" -> category [] kind = "order" -> order
      [] kind = "pet"      -> pet      [] kind = "tag"   -> tag

VARIABLES
    rows,       \* [Kind -> [ids -> row]]
    links,      \* the pairs of pet_tags
    next,       \* [Kind -> the next id]; AUTOINCREMENT never reuses one
    calls,      \* [Client -> the current or last request]
    issued,     \* requests so far
    failures    \* failures of the database so far

vars == <<rows, links, next, calls, issued, failures>>

\* A request at work: the statements still to run; the entities read so far and
\* their edges; the id it is about; the total of a list; its answer, 0 for none.
\* History: whether its write is committed, whether another's write overtook it,
\* and what had been deleted when it began.
Empty == [i \in {} |-> Null]
Idle == [req |-> [kind |-> "pet", op |-> "none", ids |-> {}, body |-> Empty],
         todo |-> <<>>, nodes |-> Empty, edges |-> Empty, id |-> 0, total |-> 0,
         status |-> 0, wrote |-> FALSE, raced |-> FALSE, gone |-> {}]

NoEdges == [category |-> Null, tags |-> {}, pet |-> Null]

Busy(c) == calls[c].todo # <<>>
Runs(c, statement) == Busy(c) /\ Head(calls[c].todo) = statement

-----------------------------------------------------------------------------
(***************************************************************************)
(* The entities by kind.                                                   *)
(***************************************************************************)
References(k, row) == Of(k, Category!References(row), Order!References(row),
                            Pet!References(row), Tag!References(row))
Visible(k, row) == Of(k, Category!Visible(row), Order!Visible(row),
                         Pet!Visible(row), Tag!Visible(row))
Only(k, id) == Of(k, Category!Only(rows[k], id), Order!Only(rows[k], id),
                     Pet!Only(rows[k], id), Tag!Only(rows[k], id))
All(k, q) == Of(k, Category!All(rows[k], q), Order!All(rows[k], q),
                   Pet!All(rows[k], q), Tag!All(rows[k], q))
Count(k, q) == Of(k, Category!Count(rows[k], q), Order!Count(rows[k], q),
                     Pet!Count(rows[k], q), Tag!Count(rows[k], q))
Prepared(k) == Of(k, Category!Prepared(rows[k]), Order!Prepared(rows[k]),
                     Pet!Prepared(rows[k]), Tag!Prepared(rows[k]))
Entity(k, id, row) == Of(k, Category!Entity(id, row), Order!Entity(id, row),
                            Pet!Entity(id, row), Tag!Entity(id, row))
Response(k, e, edges) == Of(k, Category!Response(e, edges), Order!Response(e, edges),
                               Pet!Response(e, edges), Tag!Response(e, edges))
Plan(k, op) == Of(k, Category!Plan(op), Order!Plan(op), Pet!Plan(op), Tag!Plan(op))
Endpoints(k) == Of(k, Category!Endpoints, Order!Endpoints, Pet!Endpoints, Tag!Endpoints)

\* A create builder's mutation, checked; an update builder's.
CreateOf(k, b) ==
    Of(k, Category!Defaults(Category!ApplyCreate(b)), Order!Defaults(Order!ApplyCreate(b)),
          Pet!Defaults(Pet!ApplyCreate(b)), Tag!Defaults(Tag!ApplyCreate(b)))
CheckCreate(k, m) == Of(k, Category!CheckCreate(m), Order!CheckCreate(m),
                           Pet!CheckCreate(m), Tag!CheckCreate(m))
CreateSpec(k, m) == Of(k, Category!CreateSpec(m), Order!CreateSpec(m),
                          Pet!CreateSpec(m), Tag!CreateSpec(m))
PatchOf(k, b) == Of(k, Category!ApplyPatch(b), Order!ApplyPatch(b),
                       Pet!ApplyPatch(b), Tag!ApplyPatch(b))
CheckUpdate(k, m) == Of(k, Category!CheckUpdate(m), Order!CheckUpdate(m),
                           Pet!CheckUpdate(m), Tag!CheckUpdate(m))
UpdateSpec(k, row, m) == Of(k, Category!UpdateSpec(row, m), Order!UpdateSpec(row, m),
                               Pet!UpdateSpec(row, m), Tag!UpdateSpec(row, m))
Reads(k, b, key) == Of(k, Category!Reads(b, key), Order!Reads(b, key),
                          Pet!Reads(b, key), Tag!Reads(b, key))
Columns(k) == Of(k, Category!Columns, Order!Columns, Pet!Columns, Tag!Columns)
Unique(k) == Of(k, Category!Unique, Order!Unique, Pet!Unique, Tag!Unique)

Hooked(k, statement) == Of(k, Category!Hooked(statement), Order!Hooked(statement),
                              Pet!Hooked(statement), Tag!Hooked(statement))

\* What a handler answers without a statement; 0 if it calls the wiring.  A
\* batch is called by the program itself, not over HTTP.
PathId(r) == CHOOSE i \in r.ids : TRUE
Handle(r) ==
    CASE r.op = "list"   -> Of(r.kind, Category!HandleList(r.body), Order!HandleList(r.body),
                                       Pet!HandleList(r.body), Tag!HandleList(r.body))
      [] r.op = "create" -> Of(r.kind, Category!HandleCreate(r.body), Order!HandleCreate(r.body),
                                       Pet!HandleCreate(r.body), Tag!HandleCreate(r.body))
      [] r.op = "get"    -> Of(r.kind, Category!HandleGet(PathId(r)), Order!HandleGet(PathId(r)),
                                       Pet!HandleGet(PathId(r)), Tag!HandleGet(PathId(r)))
      [] r.op = "patch"  -> Of(r.kind, Category!HandlePatch(PathId(r), r.body),
                                       Order!HandlePatch(PathId(r), r.body),
                                       Pet!HandlePatch(PathId(r), r.body),
                                       Tag!HandlePatch(PathId(r), r.body))
      [] r.op = "delete" -> Of(r.kind, Category!HandleDelete(PathId(r)), 405,
                                       Pet!HandleDelete(PathId(r)), Tag!HandleDelete(PathId(r)))
      [] r.op = "batch"  -> 0

Refusal(r) == IF r.op # "batch" /\ r.op \notin Endpoints(r.kind) THEN 405 ELSE Handle(r)

Success(op) == CASE op = "create" -> 201 [] op = "delete" -> 204 [] OTHER -> 200

-----------------------------------------------------------------------------
(***************************************************************************)
(* The database.                                                           *)
(***************************************************************************)
\* Some row refers to row id of kind k; a tombstone refers like any other row.
ReferencedByLive(k, id) ==
    \E j \in Kind : \E i \in DOMAIN rows[j] :
        <<k, id>> \in References(j, rows[j][i]) /\ Visible(j, rows[j][i])

Referenced(k, id) ==
    \E j \in Kind : \E i \in DOMAIN rows[j] : <<k, id>> \in References(j, rows[j][i])

Dangles(k, row) == \E r \in References(k, row) : r[2] \notin DOMAIN rows[r[1]]

Duplicates(k, id, row) ==
    \E c \in Unique(k), i \in DOMAIN rows[k] \ {id} : rows[k][i][c] = row[c]

\* What a delete took away, one way or the other.
Deleted(k, id) == IF id \in DOMAIN rows[k] THEN k = "pet" /\ rows[k][id].deleted_at # Null
                  ELSE id < next[k]
Gone == UNION {{<<k, i>> : i \in {j \in 1..next[k] : Deleted(k, j)}} : k \in Kind}

-----------------------------------------------------------------------------
(***************************************************************************)
(* Steps of a request.                                                     *)
(***************************************************************************)
Refuse(c, status) ==
    calls' = [calls EXCEPT ![c].todo = <<>>, ![c].status = status]

\* Its statement done, call is the request with what it found.
Proceeded(call) ==
    [call EXCEPT !.todo = Tail(@),
                 !.status = IF Len(call.todo) = 1 THEN Success(call.req.op) ELSE 0]

Proceed(c, call) == calls' = [calls EXCEPT ![c] = Proceeded(call)]

\* As Proceed, after a write to rows ids of kind k: whoever lists that kind, or
\* wrote one of them earlier and has not been answered yet, is overtaken.
ProceedWriting(c, call, k, ids) ==
    calls' = [d \in Client |->
        IF d = c THEN Proceeded([call EXCEPT !.wrote = TRUE])
        ELSE IF /\ Busy(d) /\ calls[d].req.kind = k
                /\ calls[d].req.op = "list" \/ (calls[d].wrote /\ calls[d].id \in ids)
             THEN [calls[d] EXCEPT !.raced = TRUE] ELSE calls[d]]

\* call with the rows ids of its kind read, and no edge loaded.
Reading(call, ids) ==
    LET k == call.req.kind IN
    [call EXCEPT !.nodes = [i \in ids |-> Entity(k, i, rows[k][i])],
                 !.edges = [i \in ids |-> NoEdges]]

Request(c, r) ==
    /\ ~Busy(c) /\ issued < MaxRequests
    /\ issued' = issued + 1
    /\ calls' = [calls EXCEPT ![c] =
          [Idle EXCEPT !.req = r,
                       !.id = IF r.ids = {} THEN 0 ELSE PathId(r),
                       !.gone = Gone,
                       !.todo = IF Refusal(r) = 0 THEN Plan(r.kind, r.op) ELSE <<>>,
                       !.status = Refusal(r)]]
    /\ UNCHANGED <<rows, links, next, failures>>

\* CreateNode: the checks of the builder, then the unique columns, then the
\* foreign keys.
Insert(c) ==
    LET call == calls[c]
        k    == call.req.kind
        m    == CreateOf(k, call.req.body)
        id   == next[k]
        row  == CreateSpec(k, m)
        read == [call EXCEPT !.id = id, !.nodes = [i \in {id} |-> Entity(k, id, row)],
                             !.edges = [i \in {id} |-> NoEdges]]
    IN /\ Runs(c, "insert")
       /\ IF ~CheckCreate(k, m) THEN Refuse(c, 422) /\ UNCHANGED <<rows, next>>
          ELSE IF Duplicates(k, id, row) THEN Refuse(c, 409) /\ UNCHANGED <<rows, next>>
          ELSE IF Dangles(k, row) THEN Refuse(c, 500) /\ UNCHANGED <<rows, next>>
          ELSE /\ rows' = [rows EXCEPT ![k] = [i \in DOMAIN @ \cup {id} |->
                                                  IF i = id THEN row ELSE @[i]]]
               /\ next' = [next EXCEPT ![k] = id + 1]
               /\ ProceedWriting(c, read, k, {id})
       /\ UNCHANGED <<links, issued, failures>>

\* UpdateNode: an empty mutation only reads the row back.
Update(c) ==
    LET call == calls[c]
        k    == call.req.kind
        m    == PatchOf(k, call.req.body)
        id   == call.id
        row  == UpdateSpec(k, rows[k][id], m)
        read == [call EXCEPT !.nodes = [i \in {id} |-> Entity(k, id, row)],
                             !.edges = [i \in {id} |-> NoEdges]]
    IN /\ Runs(c, "update")
       /\ IF ~CheckUpdate(k, m) THEN Refuse(c, 422) /\ UNCHANGED rows
          ELSE IF id \notin DOMAIN rows[k] THEN Refuse(c, 404) /\ UNCHANGED rows
          ELSE IF m = NoChange THEN Proceed(c, read) /\ UNCHANGED rows
          ELSE IF Duplicates(k, id, row) THEN Refuse(c, 409) /\ UNCHANGED rows
          ELSE IF Dangles(k, row) THEN Refuse(c, 500) /\ UNCHANGED rows
          ELSE rows' = [rows EXCEPT ![k][id] = row] /\ ProceedWriting(c, read, k, {id})
       /\ UNCHANGED <<links, next, issued, failures>>

\* A delete that a hook rewrites is dispatched again.
Hook(c) ==
    /\ Busy(c) /\ Hooked(calls[c].req.kind, Head(calls[c].todo))
    /\ calls' = [calls EXCEPT ![c].todo = <<Pet!Rewritten(Head(@))>> \o Tail(@)]
    /\ UNCHANGED <<rows, links, next, issued, failures>>

\* DELETE of the rows ids: a row that is referenced fails the whole statement,
\* the links of a tag go with it.
Remove(c) ==
    LET call == calls[c]
        k    == call.req.kind
        hit  == call.req.ids \cap DOMAIN rows[k]
    IN /\ Runs(c, "remove") /\ ~Hooked(k, "remove")
       /\ IF hit = {} /\ call.req.op = "delete" THEN Refuse(c, 404) /\ UNCHANGED <<rows, links>>
          ELSE IF \E i \in hit : Referenced(k, i) THEN Refuse(c, 500) /\ UNCHANGED <<rows, links>>
          ELSE /\ rows' = [rows EXCEPT ![k] = [i \in DOMAIN @ \ hit |-> @[i]]]
               /\ links' = {l \in links : ~(k = "tag" /\ l[2] \in hit)}
               /\ ProceedWriting(c, call, k, hit)
       /\ UNCHANGED <<next, issued, failures>>

\* The rewritten delete of pets: the rows that are live get a tombstone.
Stamp(c) ==
    LET call == calls[c]
        m    == Pet!DeletedAt(NoChange)
        hit  == call.req.ids \cap Pet!Prepared(rows.pet)
    IN /\ Runs(c, "stamp")
       /\ IF ~Pet!CheckBulk(m) THEN Refuse(c, 422) /\ UNCHANGED rows
          ELSE IF hit = {} /\ call.req.op = "delete" THEN Refuse(c, 404) /\ UNCHANGED rows
          ELSE /\ rows' = [rows EXCEPT !.pet = [i \in DOMAIN @ |->
                                                   IF i \in hit THEN Pet!BulkSpec(@[i], m) ELSE @[i]]]
               /\ ProceedWriting(c, call, "pet", hit)
       /\ UNCHANGED <<links, next, issued, failures>>

Select(c) ==
    LET call  == calls[c]
        found == Only(call.req.kind, call.id)
    IN /\ Runs(c, "select")
       /\ IF found = {} THEN Refuse(c, 404) ELSE Proceed(c, Reading(call, found))
       /\ UNCHANGED <<rows, links, next, issued, failures>>

CountRows(c) ==
    /\ Runs(c, "count")
    /\ Proceed(c, [calls[c] EXCEPT !.total = Count(calls[c].req.kind, calls[c].req.body)])
    /\ UNCHANGED <<rows, links, next, issued, failures>>

\* No eager load runs for a page without rows.
Page(c) ==
    LET call  == calls[c]
        found == All(call.req.kind, call.req.body)
    IN /\ Runs(c, "page")
       /\ IF found = {} THEN Refuse(c, 200) ELSE Proceed(c, Reading(call, found))
       /\ UNCHANGED <<rows, links, next, issued, failures>>

\* An eager load asks for the neighbours of all entities read, in one statement.
Load(c, edge, neighbours) ==
    LET call == calls[c] IN
    /\ Runs(c, edge) /\ DOMAIN call.nodes # {}
    /\ Proceed(c, [call EXCEPT !.edges = [i \in DOMAIN call.nodes |->
                                            [call.edges[i] EXCEPT ![edge] = neighbours[i]]]])
    /\ UNCHANGED <<rows, links, next, issued, failures>>

LoadCategory(c) == LET nodes == calls[c].nodes IN
    Load(c, "category", [i \in DOMAIN nodes |-> Pet!LoadCategory(nodes[i], Prepared("category"))])
LoadTags(c) == LET nodes == calls[c].nodes IN
    Load(c, "tags", [i \in DOMAIN nodes |-> Pet!LoadTags(nodes[i], links, Prepared("tag"))])
LoadPet(c) == LET nodes == calls[c].nodes IN
    Load(c, "pet", [i \in DOMAIN nodes |-> Order!LoadPet(nodes[i], Prepared("pet"))])

\* Any statement may fail, and has no effect then.
Fail(c) ==
    /\ Busy(c) /\ failures < MaxFailures
    /\ failures' = failures + 1
    /\ Refuse(c, 500)
    /\ UNCHANGED <<rows, links, next, issued>>

Statement(c) ==
    \/ Insert(c) \/ Update(c) \/ Hook(c) \/ Remove(c) \/ Stamp(c) \/ Select(c)
    \/ CountRows(c) \/ Page(c) \/ LoadCategory(c) \/ LoadTags(c) \/ LoadPet(c)

-----------------------------------------------------------------------------
Operation == {"list", "create", "get", "patch", "delete", "batch"}

ASSUME RequestsAssumption == \A r \in Requests : r.kind \in Kind /\ r.op \in Operation

\* NULL is no id and no time.
ASSUME NullAssumption == Null \notin Nat /\ Null # Tombstone

\* The seed counts its ids from 1, and is a database.
ASSUME SeedAssumption ==
    /\ DOMAIN SeedRows = Kind
    /\ \A k \in Kind : /\ IsFiniteSet(DOMAIN SeedRows[k])
                       /\ DOMAIN SeedRows[k] = 1..Cardinality(DOMAIN SeedRows[k])
    /\ \A k \in Kind : \A i \in DOMAIN SeedRows[k] :
          /\ DOMAIN SeedRows[k][i] = Columns(k)
          /\ \A r \in References(k, SeedRows[k][i]) : r[2] \in DOMAIN SeedRows[r[1]]
    /\ \A l \in SeedLinks : l[1] \in DOMAIN SeedRows.pet /\ l[2] \in DOMAIN SeedRows.tag

Init ==
    /\ rows = SeedRows
    /\ links = SeedLinks
    /\ next = [k \in Kind |-> Cardinality(DOMAIN SeedRows[k]) + 1]
    /\ calls = [c \in Client |-> Idle]
    /\ issued = 0
    /\ failures = 0

Next == \E c \in Client : Statement(c) \/ Fail(c) \/ \E r \in Requests : Request(c, r)

\* Each request is served by a goroutine of its own, which goes on as long as
\* its statements return.
Fairness == \A c \in Client : WF_vars(Statement(c))

Spec == Init /\ [][Next]_vars /\ Fairness
-----------------------------------------------------------------------------
Answered(c) == ~Busy(c) /\ calls[c].status \in {200, 201}
Answer(c)   == [i \in DOMAIN calls[c].nodes |->
                  Response(calls[c].req.kind, calls[c].nodes[i], calls[c].edges[i])]

\* Every row keeps the rows it refers to: pets, tombstones included, their
\* category, orders their pet, links both their ends, whatever creates, moves
\* and deletes of the four entities overlap (migrate/schema.go's foreign keys,
\* against soft deletes that keep a row and category deletes that do not).
NoOrphans ==
    /\ \A k \in Kind : \A i \in DOMAIN rows[k] : ~Dangles(k, rows[k][i])
    /\ \A l \in links : l[1] \in DOMAIN rows.pet /\ l[2] \in DOMAIN rows.tag

\* An answer is put together from several statements and is still true: nothing
\* in it was deleted when the request began; an expanded edge is null only if
\* the pet has moved to another category since, or the order's pet is a
\* tombstone; a list nobody wrote under has as many rows as its total says.
AnswersAreTrue == \A c \in Client : Answered(c) =>
    LET call == calls[c] IN
    /\ \A i \in DOMAIN call.nodes : LET r == Answer(c)[i] IN
          /\ <<call.req.kind, i>> \notin call.gone
          /\ call.req.kind = "pet" =>
                /\ r.category = Null => rows.pet[i].category_id # r.category_id
                /\ <<"category", r.category>> \notin call.gone
                /\ \A t \in r.tags : <<"tag", t>> \notin call.gone
          /\ call.req.kind = "order" =>
                /\ r.pet = Null => Deleted("pet", r.pet_id)
                /\ <<"pet", r.pet>> \notin call.gone
    /\ call.req.op = "list" /\ ~call.raced => call.total = Cardinality(DOMAIN call.nodes)

\* An acknowledged create or patch that nobody overtook answers what it was
\* told: each value that the request's readers report, and nothing for a null
\* that clears; a price of 0 is the exception, which NewPetResponse leaves out as
\* it does no price (PtrOrNil).  The answer is a read of its own after the write.
Shown(key, v) == IF key = "price" THEN PtrOrNil(v, 0) ELSE v
EchoesItsWrite == \A c \in Client :
    LET call == calls[c] IN
    Answered(c) /\ ~call.raced /\ call.req.op \in {"create", "patch"} =>
        /\ DOMAIN call.nodes = {call.id}
        /\ \A key \in DOMAIN call.req.body :
              LET said == Reads(call.req.kind, call.req.body, key) IN
              /\ said # <<>> => Answer(c)[call.id][key] = Shown(key, said[1])
              /\ said = <<>> /\ call.req.op = "patch" => Answer(c)[call.id][key] = Null

\* A request that is refused has written nothing, but for one case: its row was
\* deleted before it could be read back, and it says 404 (SaveOne; a patch of a
\* tombstone is that case from the start).
RefusedMeansUnwritten == \A c \in Client :
    ~Busy(c) /\ calls[c].status \in 400..499 /\ calls[c].wrote =>
        calls[c].status = 404 /\ Deleted(calls[c].req.kind, calls[c].id)

\* Every request is answered, whatever else is at work and whichever statement
\* fails; a page without rows skips its eager loads, and the mutation the hook
\* rewrites does not come back to it for ever.
RequestsAnswered == \A c \in Client : Busy(c) ~> ~Busy(c)
=============================================================================
