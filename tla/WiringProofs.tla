---------------------------- MODULE WiringProofs ----------------------------
(***************************************************************************)
(* What soft delete promises, for any number of callers, rows and requests *)
(* and any set of soft types.                                              *)
(***************************************************************************)
EXTENDS Wiring, FiniteSetTheorems, FunctionTheorems, TLAPS

Creating(c) == At(c, "save") /\ req[c].op = "create"

\* Rows whose delete was acknowledged are not live, and gone when their type
\* has no tombstones.
RowsInv ==
    /\ \A i \in Doc : rows[i].ref = "none"
    /\ \A i \in acked : ~Live(i) /\ (TypeOf(i) \in Soft \/ ~Exists(i))

\* A row that a create is about to insert has never been there.
CreateInv ==
    /\ \A c \in Client : req[c].op = "create" => req[c].ids \subseteq born
    /\ \A c \in Client : Creating(c) =>
         \A i \in req[c].ids : ~Exists(i) /\ i \notin acked
    /\ \A c, d \in Client : c # d /\ Creating(c) /\ req[d].op = "create"
         => req[c].ids \cap req[d].ids = {}

\* Which stages an operation goes through.  A mutation that reaches the database
\* is a real delete where that was asked for or the type has no tombstones, and
\* the hook's rewrite everywhere else.
Shaped(q) ==
    /\ q.ids \subseteq IdsOf(q.type)
    /\ q.stage # "done" => q.kind = "none"
    /\ q.op \notin {"list", "batch", "none"} => \E i \in Id : q.ids = {i}
    /\ q.stage = "save" => q.op \in {"create", "patch"} /\ q.key \in Key
    /\ q.stage \in {"query", "edges"} => q.op \in {"get", "list", "create", "patch"}
    /\ q.stage \in {"count", "page"} => q.op = "list"
    /\ q.stage = "save" /\ q.type = "doc" => q.ref = "none"
    /\ q.stage \in {"hook", "exec"} => q.op \in {"delete", "batch"}
    /\ q.stage = "hook" => q.mutation = DeleteMutation \/ q.mutation.op = "update"
    /\ q.stage \in {"hook", "exec"} /\ q.mutation.op = "update" =>
         /\ q.type \in Soft /\ ~q.ctx.hard
         /\ q.mutation.whereLive
         /\ q.mutation.stamp \in 1..clock
    /\ q.stage = "exec" /\ q.mutation.op = "delete" => q.type \notin Soft \/ q.ctx.hard

ShapeInv == \A c \in Client : Shaped(req[c])

AnswerInv ==
    \A c \in Client :
        /\ req[c].known \subseteq acked
        /\ req[c].op \in {"delete", "batch"} => req[c].found = {}
        /\ req[c].op = "delete" /\ req[c].kind = "ok" => req[c].ids \subseteq acked
        /\ At(c, "edges") /\ ~req[c].ctx.included =>
             \A p \in req[c].found : p[1] \notin req[c].known

\* A row that is referred to is there or was deleted: no create is about to
\* insert it.
Settled(d) == d \in Doc /\ d \in born /\ ~Expected(d)

RefInv ==
    /\ \A i \in Draft : Exists(i) => Settled(rows[i].ref)
    /\ \A c \in Client :
        /\ Creating(c) /\ req[c].type # "doc" => req[c].ref \in Doc
        /\ \A p \in req[c].found : /\ p[1] \in req[c].ids
                                   /\ p[1] \in Draft => Settled(p[2])
                                   /\ \A q \in req[c].found : p[1] = q[1] => p[2] = q[2]
        /\ At(c, "edges") => req[c].type = "draft"
        /\ ~At(c, "done") => req[c].nulls = {}
        /\ req[c].nulls \subseteq Draft

\* A list that no write has overtaken since its count has counted the rows its
\* page will return, and returned the rows it counted.
Told(c) ==
    req[c].op = "list" =>
      /\ req[c].stage # "query" /\ req[c].since <= writes
      /\ writes = req[c].since =>
           /\ At(c, "page") => req[c].total = Cardinality(Matches(c))
           /\ At(c, "edges") \/ req[c].kind = "ok" => req[c].total = Cardinality(Rows(c))

CountInv == \A c \in Client : Told(c)

IInv ==
    /\ TypeOK /\ RowsInv /\ CreateInv /\ ShapeInv /\ AnswerInv
    /\ ReadsHideDeleted /\ OneDeleteWins /\ LostCreateWasDeleted

-----------------------------------------------------------------------------
(***************************************************************************)
(* Types.                                                                  *)
(***************************************************************************)
\* Only the request of the caller that takes the step changes.
LEMMA OneRequest ==
    ASSUME req \in [Client -> Request], NEW c \in Client, NEW r \in Request,
           req' = [req EXCEPT ![c] = r]
    PROVE  /\ req' \in [Client -> Request] /\ req'[c] = r
           /\ \A d \in Client \ {c} : req'[d] = req[d]
  OBVIOUS

\* What an answer makes of its request.
LEMMA FinishStep ==
    ASSUME req \in [Client -> Request], NEW c \in Client, NEW kind \in Kind, Finish(c, kind)
    PROVE  \E r \in Request :
             /\ req' = [req EXCEPT ![c] = r]
             /\ r = [req[c] EXCEPT !.stage = "done", !.kind = kind]
<1> DEFINE r == [req[c] EXCEPT !.stage = "done", !.kind = kind]
<1>1. r \in Request
  BY ZenonT(60) DEF Request, Stage
<1>2. req' = [req EXCEPT ![c] = r]
  BY DEF Finish
<1>. QED  BY <1>1, <1>2

\* What stays of a request while its statements run.
SameCall(r, q) ==
    /\ r.op = q.op /\ r.type = q.type /\ r.ids = q.ids /\ r.ctx = q.ctx
    /\ r.key = q.key /\ r.ref = q.ref /\ r.known = q.known

\* What a save that ran makes of its request.
SavedAs(c, answer, r) ==
    /\ SameCall(r, req[c]) /\ r.nulls = req[c].nulls
    /\ IF answer = "ok" /\ HasEdges(req[c].type)
         THEN r.stage = "query" /\ r.kind = "none" /\ r.found = {}
         ELSE /\ r.stage = "done" /\ r.kind = answer
              /\ r.found = {} \/ (r.found = req[c].ids \X {"none"} /\ ~HasEdges(req[c].type))

\* A save that ran is read back where its response has edges, and answers elsewhere.
LEMMA SavedStep ==
    ASSUME req \in [Client -> Request], NEW c \in Client, NEW answer \in Answer, Saved(c, answer)
    PROVE  \E r \in Request : req' = [req EXCEPT ![c] = r] /\ SavedAs(c, answer, r)
<1> DEFINE stage == IF answer = "ok" /\ HasEdges(req[c].type) THEN "query" ELSE "done"
           kind  == IF answer = "ok" /\ HasEdges(req[c].type) THEN "none" ELSE answer
           found == IF answer = "ok" /\ ~HasEdges(req[c].type)
                      THEN req[c].ids \X {"none"} ELSE {}
           r == [req[c] EXCEPT !.stage = stage, !.kind = kind, !.found = found]
<1>1. stage \in Stage /\ kind \in Kind
  BY DEF Stage, Kind, Answer
<1>2. req[c].ids \in SUBSET Id
  BY DEF Request
<1>3. found \in SUBSET (Id \X (Doc \cup {"none"}))
  BY <1>2
<1>4. r \in Request
  <2>. HIDE DEF stage, kind, found
  <2>. QED  BY <1>1, <1>3, ZenonT(60) DEF Request
<1>5. req' = [req EXCEPT ![c] = r]
  BY DEF Saved
<1>6. /\ r.stage = stage /\ r.kind = kind /\ r.found = found /\ r.nulls = req[c].nulls
      /\ SameCall(r, req[c])
  <2>. HIDE DEF stage, kind, found
  <2>. QED  BY DEF Request, SameCall
<1>7. SavedAs(c, answer, r)
  <2>. HIDE DEF r
  <2>. QED  BY <1>6 DEF SavedAs
<1>. QED  BY <1>4, <1>5, <1>7

\* A request is born with every field of its type.
LEMMA NewRequestTyped ==
    ASSUME NEW op \in Op, NEW t \in Type, NEW S \in SUBSET Id, NEW x \in Contexts,
           acked \in SUBSET Id
    PROVE  NewRequest(op, t, S, x) \in Request
  BY ConstantsAssumption DEF NewRequest, Request, Stage, Kind, NoMutation, Mutation

\* What a call leaves behind: one new request, with nothing found or answered.
Started(r) ==
    /\ r.kind = "none" /\ r.found = {} /\ r.nulls = {} /\ r.known = acked /\ r.since = 0
    /\ r.ids \subseteq IdsOf(r.type) /\ r.op # "none"
    /\ r.op = "get"  => r.stage = "query"
    /\ r.op = "list" => r.stage = "count"
    /\ r.op \in {"create", "patch"} => r.stage = "save" /\ r.key \in Key
    /\ r.op \in {"delete", "batch"} => r.stage = "hook" /\ r.mutation = DeleteMutation
    /\ r.op \notin {"list", "batch"} => \E i \in Id : r.ids = {i}
    /\ r.type = "doc" => r.ref = "none"
    /\ r.op = "create" => r.ids \cap born = {} /\ born' = born \cup r.ids
    /\ r.op = "create" /\ r.type # "doc" => r.ref \in Doc
    /\ r.op # "create" => born' = born

\* Every id has one type, and the ids of a type are of that type.
LEMMA TypeOfFacts ==
    /\ \A i \in Id : TypeOf(i) \in Type /\ i \in IdsOf(TypeOf(i))
    /\ \A t \in Type : IdsOf(t) \subseteq Id /\ \A i \in IdsOf(t) : TypeOf(i) = t
  BY ConstantsAssumption DEF Id, Type, TypeOf, IdsOf

\* A call puts one new request in place of an answered one.
LEMMA CallStep ==
    ASSUME req \in [Client -> Request], acked \in SUBSET Id, NEW c \in Client, Call(c)
    PROVE  /\ req[c].stage = "done" /\ requests < MaxRequests /\ requests' = requests + 1
           /\ UNCHANGED <<rows, clock, acked, writes>>
           /\ \E r \in Request : req' = [req EXCEPT ![c] = r] /\ Started(r)
<1>1. PICK x \in Contexts :
        \/ \E i \in Id : Get(c, i, x) \/ Delete(c, i, x)
        \/ \E t \in Type : List(c, t, x) \/ \E S \in SUBSET IdsOf(t) : DeleteBatch(c, t, S, x)
        \/ \E i \in Id, k \in Key : Patch(c, i, k, x)
        \/ \E i \in Id, k \in Key, d \in Doc \cup {"none"} : Create(c, i, k, d, x)
  BY DEF Call
<1>. DEFINE Goal == /\ req[c].stage = "done" /\ requests < MaxRequests /\ requests' = requests + 1
                    /\ UNCHANGED <<rows, clock, acked, writes>>
                    /\ \E r \in Request : req' = [req EXCEPT ![c] = r] /\ Started(r)
<1>2. ASSUME NEW i \in Id, Get(c, i, x) PROVE Goal
  <2> DEFINE r == NewRequest("get", TypeOf(i), {i}, x)
  <2>1. r \in Request
    BY NewRequestTyped, TypeOfFacts DEF Op
  <2>2. Started(r)
    BY <1>2, TypeOfFacts DEF Started, NewRequest, Get, database
  <2>. QED  BY <1>2, <2>1, <2>2 DEF Get, Begin, database
<1>3. ASSUME NEW i \in Id, Delete(c, i, x) PROVE Goal
  <2> DEFINE n == NewRequest("delete", TypeOf(i), {i}, x)
             r == [n EXCEPT !.stage = "hook", !.mutation = DeleteMutation]
  <2>1. n \in Request
    BY NewRequestTyped, TypeOfFacts DEF Op
  <2>2. r \in Request
    BY <2>1 DEF Request, Stage, Mutation, DeleteMutation, NoMutation
  <2>3. Started(r)
    BY <1>3, TypeOfFacts DEF Started, NewRequest, Delete, database
  <2>. QED  BY <1>3, <2>2, <2>3 DEF Delete, Begin, database
<1>4. ASSUME NEW t \in Type, List(c, t, x) PROVE Goal
  <2> DEFINE n == NewRequest("list", t, IdsOf(t), x)
             r == [n EXCEPT !.stage = "count"]
  <2>1. n \in Request
    BY NewRequestTyped, TypeOfFacts DEF Op
  <2>2. r \in Request
    BY <2>1 DEF Request, Stage
  <2>3. Started(r)
    BY <1>4 DEF Started, NewRequest, List, database
  <2>. QED  BY <1>4, <2>2, <2>3 DEF List, Begin, database
<1>5. ASSUME NEW t \in Type, NEW S \in SUBSET IdsOf(t), DeleteBatch(c, t, S, x) PROVE Goal
  <2> DEFINE n == NewRequest("batch", t, S, x)
             r == [n EXCEPT !.stage = "hook", !.mutation = DeleteMutation]
  <2>1. n \in Request
    BY NewRequestTyped, TypeOfFacts DEF Op
  <2>2. r \in Request
    BY <2>1 DEF Request, Stage, Mutation, DeleteMutation, NoMutation
  <2>3. Started(r)
    BY <1>5 DEF Started, NewRequest, DeleteBatch, database
  <2>. QED  BY <1>5, <2>2, <2>3 DEF DeleteBatch, Begin, database
<1>6. ASSUME NEW i \in Id, NEW k \in Key, Patch(c, i, k, x) PROVE Goal
  <2> DEFINE n == NewRequest("patch", TypeOf(i), {i}, x)
             r == [n EXCEPT !.stage = "save", !.key = k]
  <2>1. n \in Request
    BY NewRequestTyped, TypeOfFacts DEF Op
  <2>2. r \in Request
    BY <2>1 DEF Request, Stage
  <2>3. Started(r)
    BY <1>6, TypeOfFacts DEF Started, NewRequest, Patch, database
  <2>. QED  BY <1>6, <2>2, <2>3 DEF Patch, Begin, database
<1>7. ASSUME NEW i \in Id, NEW k \in Key, NEW d \in Doc \cup {"none"}, Create(c, i, k, d, x)
      PROVE  Goal
  <2> DEFINE n == NewRequest("create", TypeOf(i), {i}, x)
             r == [n EXCEPT !.stage = "save", !.key = k, !.ref = d]
  <2>1. n \in Request
    BY NewRequestTyped, TypeOfFacts DEF Op
  <2>2. r \in Request
    BY <2>1 DEF Request, Stage
  <2>3. Started(r)
    BY <1>7, TypeOfFacts DEF Started, NewRequest, Create, TypeOf
  <2>. QED  BY <1>7, <2>2, <2>3 DEF Create, Begin
<1>. QED  BY <1>1, <1>2, <1>3, <1>4, <1>5, <1>6, <1>7

Reading(c) == Query(c) \/ Edges(c) \/ Count(c) \/ Page(c)

\* What a read makes of its request.
ReadBy(c, r) ==
    /\ SameCall(r, req[c]) /\ r.mutation = req[c].mutation
    /\ ~At(c, "done") /\ ~At(c, "save") /\ ~At(c, "hook") /\ ~At(c, "exec")
    /\ r.stage \in {"edges", "page", "done"}
    /\ r.stage = "page" => At(c, "count")
    /\ r.stage # "done" => r.kind = "none"
    /\ r.stage = "done" => r.kind \in {"ok", "notfound"}
    /\ r.stage = "edges" => r.found = Matches(c) /\ HasEdges(r.type)
    /\ r.found \in {req[c].found, Matches(c)}
    /\ \/ r.nulls = req[c].nulls
       \/ /\ At(c, "edges") /\ r.stage = "done" /\ r.found = req[c].found
          /\ r.nulls = {p[1] : p \in {q \in req[c].found : ~Loaded(q[2], req[c].ctx)}}
    /\ r.kind = "notfound" => At(c, "query") /\ Matches(c) = {}
    /\ r.kind = "ok" =>
         \/ (~HasEdges(r.type) \/ Matches(c) = {}) /\ r.found = Matches(c)
         \/ /\ At(c, "edges") /\ r.found = req[c].found
            /\ r.nulls = {p[1] : p \in {q \in req[c].found : ~Loaded(q[2], req[c].ctx)}}

\* What a query returns are pairs of an id and a reference, finitely many.
LEMMA MatchesTyped ==
    ASSUME req \in [Client -> Request], rows \in [Id -> Row \cup {NoRow}], NEW c \in Client
    PROVE  /\ Matches(c) \in SUBSET (Id \X (Doc \cup {"none"}))
           /\ Cardinality(Matches(c)) \in Nat
<1>1. \A i \in Id : rows[i].ref \in Doc \cup {"none"}
  BY DEF Row, NoRow
<1>2. req[c].ids \in SUBSET Id
  BY DEF Request
<1>3. Matches(c) \in SUBSET (Id \X (Doc \cup {"none"}))
  BY <1>1, <1>2 DEF Matches
<1>4. IsFiniteSet(Doc \cup {"none"})
  <2>1. IsFiniteSet(Doc)
    BY FS_Subset, ConstantsAssumption DEF Id
  <2>. QED  BY <2>1, FS_AddElement
<1>5. IsFiniteSet(Id \X (Doc \cup {"none"}))
  BY <1>4, FS_Product, ConstantsAssumption
<1>. QED  BY <1>3, <1>5, FS_Subset, FS_CardinalityType

\* A read changes its own request only.
LEMMA ReadingStep ==
    ASSUME req \in [Client -> Request], rows \in [Id -> Row \cup {NoRow}], writes \in Nat,
           NEW c \in Client, Reading(c)
    PROVE  /\ UNCHANGED <<rows, born, clock, acked, writes, requests>>
           /\ \E r \in Request : req' = [req EXCEPT ![c] = r] /\ ReadBy(c, r)
<1>. DEFINE Goal == \E r \in Request : req' = [req EXCEPT ![c] = r] /\ ReadBy(c, r)
<1>1. UNCHANGED <<rows, born, clock, acked, writes, requests>>
  BY DEF Reading, Query, Edges, Count, Page, database
<1>. SUFFICES Goal
  BY <1>1
<1>2. req[c] \in Request
  OBVIOUS
<1>3. CASE Query(c) /\ Matches(c) = {}
  <2>1. Finish(c, "notfound")
    BY <1>3 DEF Query
  <2>2. PICK r \in Request : /\ req' = [req EXCEPT ![c] = r]
                             /\ r = [req[c] EXCEPT !.stage = "done", !.kind = "notfound"]
    BY <2>1, FinishStep DEF Kind
  <2>3. ReadBy(c, r)
    BY <1>2, <1>3, <2>2 DEF ReadBy, SameCall, Request, Query, At
  <2>. QED  BY <2>2, <2>3
<1>4. CASE Query(c) /\ Matches(c) # {}
  <2> DEFINE stage == IF HasEdges(req[c].type) THEN "edges" ELSE "done"
             kind  == IF HasEdges(req[c].type) THEN "none" ELSE "ok"
             r == [req[c] EXCEPT !.found = Matches(c), !.stage = stage, !.kind = kind]
  <2>1. req' = [req EXCEPT ![c] = r]
    BY <1>4 DEF Query
  <2>2. r \in Request
    <3>1. stage \in Stage /\ kind \in Kind
      BY DEF Stage, Kind
    <3>. HIDE DEF stage, kind
    <3>. QED  BY <1>2, <3>1, MatchesTyped DEF Request
  <2>3. ReadBy(c, r)
    BY <1>2, <1>4 DEF ReadBy, SameCall, Request, Query, At
  <2>. QED  BY <2>1, <2>2, <2>3
<1>5. CASE Edges(c)
  <2> DEFINE nulls == {p[1] : p \in {q \in req[c].found : ~Loaded(q[2], req[c].ctx)}}
             r == [req[c] EXCEPT !.nulls = nulls, !.stage = "done", !.kind = "ok"]
  <2>1. req' = [req EXCEPT ![c] = r]
    BY <1>5 DEF Edges
  <2>2. r \in Request
    <3>1. req[c].found \in SUBSET (Id \X (Doc \cup {"none"}))
      BY <1>2 DEF Request
    <3>2. nulls \in SUBSET Id
      BY <3>1
    <3>. HIDE DEF nulls
    <3>. QED  BY <1>2, <3>2 DEF Request, Stage, Kind
  <2>3. ReadBy(c, r)
    BY <1>2, <1>5 DEF ReadBy, SameCall, Request, Edges, At
  <2>. QED  BY <2>1, <2>2, <2>3
<1>6. CASE Count(c)
  <2> DEFINE r == [req[c] EXCEPT !.total = Cardinality(Matches(c)), !.since = writes,
                                 !.stage = "page"]
  <2>1. req' = [req EXCEPT ![c] = r]
    BY <1>6 DEF Count
  <2>2. r \in Request
    BY <1>2, MatchesTyped DEF Request, Stage
  <2>3. ReadBy(c, r)
    BY <1>2, <1>6 DEF ReadBy, SameCall, Request, Count, At
  <2>. QED  BY <2>1, <2>2, <2>3
<1>7. CASE Page(c)
  <2> DEFINE more  == HasEdges(req[c].type) /\ Matches(c) # {}
             stage == IF more THEN "edges" ELSE "done"
             kind  == IF more THEN "none" ELSE "ok"
             r == [req[c] EXCEPT !.found = Matches(c), !.stage = stage, !.kind = kind]
  <2>1. req' = [req EXCEPT ![c] = r]
    BY <1>7 DEF Page
  <2>2. r \in Request
    <3>1. stage \in Stage /\ kind \in Kind
      BY DEF Stage, Kind
    <3>. HIDE DEF stage, kind
    <3>. QED  BY <1>2, <3>1, MatchesTyped DEF Request
  <2>3. ReadBy(c, r)
    BY <1>2, <1>7 DEF ReadBy, SameCall, Request, Page, At
  <2>. QED  BY <2>1, <2>2, <2>3
<1>. QED  BY <1>3, <1>4, <1>5, <1>6, <1>7 DEF Reading

\* A statement that changes nothing answers with a refusal.
Refused(c, r) ==
    /\ r = [req[c] EXCEPT !.stage = "done", !.kind = r.kind]
    /\ ~At(c, "done") /\ ~At(c, "hook")
    /\ r.kind \in {"internal", "exists", "notfound"}
    /\ r.kind = "exists" => \E i \in req[c].ids : KeyTaken(req[c].key, i)
    /\ r.kind = "notfound" => req[c].op = "patch"

\* An insert or an update that wrote row i.
Wrote(c, i, r) ==
    /\ At(c, "save") /\ i \in req[c].ids
    /\ SameCall(r, req[c]) /\ r.nulls = req[c].nulls
    /\ r.stage \in {"query", "done"} /\ r.kind \in {"none", "ok", "internal"}
    /\ r.stage = "query" => r.kind = "none" /\ HasEdges(r.type)
    /\ r.found = {} \/ (r.found = req[c].ids \X {"none"} /\ ~HasEdges(r.type))
    /\ r.kind = "ok" => ~HasEdges(r.type)
    /\ \/ /\ r.op = "create" /\ ~RefDangles(r.ref)
          /\ rows' = [rows EXCEPT ![i] = [key |-> r.key, ref |-> r.ref, deletedAt |-> 0]]
       \/ /\ r.op = "patch" /\ Exists(i)
          /\ rows' = [rows EXCEPT ![i].key = r.key]
    /\ writes' = writes + 1

Saving(c) == Insert(c) \/ Update(c)

\* How a statement that changes nothing ends its request.
LEMMA RefusedStep ==
    ASSUME req \in [Client -> Request], NEW c \in Client, NEW kind \in Kind, Finish(c, kind),
           ~At(c, "done"), ~At(c, "hook"), kind \in {"internal", "exists", "notfound"},
           kind = "exists" => \E i \in req[c].ids : KeyTaken(req[c].key, i),
           kind = "notfound" => req[c].op = "patch"
    PROVE  \E r \in Request : req' = [req EXCEPT ![c] = r] /\ Refused(c, r)
<1>1. PICK r \in Request : /\ req' = [req EXCEPT ![c] = r]
                           /\ r = [req[c] EXCEPT !.stage = "done", !.kind = kind]
  BY FinishStep
<1>2. r.kind = kind
  BY <1>1 DEF Request
<1>. QED  BY <1>1, <1>2 DEF Refused

\* How a save that ran ends, as the predicate Wrote says it.
LEMMA WroteStep ==
    ASSUME req \in [Client -> Request], NEW c \in Client, NEW answer \in Answer, Saved(c, answer),
           NEW i \in req[c].ids, At(c, "save"), writes' = writes + 1,
           \/ /\ req[c].op = "create" /\ ~RefDangles(req[c].ref)
              /\ rows' = [rows EXCEPT ![i] =
                            [key |-> req[c].key, ref |-> req[c].ref, deletedAt |-> 0]]
           \/ /\ req[c].op = "patch" /\ Exists(i)
              /\ rows' = [rows EXCEPT ![i].key = req[c].key]
    PROVE  \E r \in Request : req' = [req EXCEPT ![c] = r] /\ Wrote(c, i, r)
<1>1. PICK r \in Request : req' = [req EXCEPT ![c] = r] /\ SavedAs(c, answer, r)
  BY SavedStep
<1>2. Wrote(c, i, r)
  BY <1>1 DEF Wrote, SavedAs, SameCall, Answer
<1>. QED  BY <1>1, <1>2

\* An insert or an update refuses or writes one row.
LEMMA SavingStep ==
    ASSUME req \in [Client -> Request], NEW c \in Client, Saving(c)
    PROVE  /\ UNCHANGED <<born, clock, acked, requests>>
           /\ \E r \in Request :
                /\ req' = [req EXCEPT ![c] = r]
                /\ \/ Refused(c, r) /\ At(c, "save") /\ UNCHANGED <<rows, writes>>
                   \/ \E i \in req[c].ids : Wrote(c, i, r)
<1>1. UNCHANGED <<born, clock, acked, requests>>
  BY DEF Saving, Insert, Update
<1>2. ~At(c, "done") /\ ~At(c, "hook") /\ At(c, "save")
  BY DEF Saving, Insert, Update, At
<1>3. PICK i \in req[c].ids :
        \/ /\ \/ Finish(c, "internal")
              \/ Finish(c, "exists") /\ KeyTaken(req[c].key, i)
              \/ Finish(c, "notfound") /\ req[c].op = "patch"
           /\ UNCHANGED <<rows, writes>>
        \/ /\ \/ /\ req[c].op = "create" /\ ~RefDangles(req[c].ref)
                 /\ rows' = [rows EXCEPT ![i] =
                               [key |-> req[c].key, ref |-> req[c].ref, deletedAt |-> 0]]
              \/ /\ req[c].op = "patch" /\ Exists(i)
                 /\ rows' = [rows EXCEPT ![i].key = req[c].key]
           /\ writes' = writes + 1
           /\ \E answer \in Answer : Saved(c, answer)
  <2>1. CASE Insert(c)
    BY <2>1 DEF Insert, Classify
  <2>2. CASE Update(c)
    BY <2>2 DEF Update, Classify, Patched
  <2>. QED  BY <2>1, <2>2 DEF Saving
<1>4. CASE UNCHANGED <<rows, writes>> /\ \E kind \in {"internal", "exists", "notfound"} :
             /\ Finish(c, kind)
             /\ kind = "exists" => KeyTaken(req[c].key, i)
             /\ kind = "notfound" => req[c].op = "patch"
  BY <1>1, <1>2, <1>4, RefusedStep DEF Kind
<1>5. CASE /\ \/ /\ req[c].op = "create" /\ ~RefDangles(req[c].ref)
                 /\ rows' = [rows EXCEPT ![i] =
                               [key |-> req[c].key, ref |-> req[c].ref, deletedAt |-> 0]]
              \/ /\ req[c].op = "patch" /\ Exists(i)
                 /\ rows' = [rows EXCEPT ![i].key = req[c].key]
           /\ writes' = writes + 1
           /\ \E answer \in Answer : Saved(c, answer)
  BY <1>1, <1>2, <1>5, WroteStep
<1>. QED  BY <1>3, <1>4, <1>5

\* A failure changes nothing.
LEMMA FailsStep ==
    ASSUME req \in [Client -> Request], NEW c \in Client, Fails(c)
    PROVE  /\ UNCHANGED <<rows, born, clock, acked, writes, requests>>
           /\ \E r \in Request : req' = [req EXCEPT ![c] = r] /\ Refused(c, r)
  BY RefusedStep DEF Fails, Kind, database

\* A pass through the hook rewrites a delete or lets the mutation go to the database.
LEMMA HookStep ==
    ASSUME req \in [Client -> Request], clock \in Nat, NEW c \in Client, Hook(c)
    PROVE  /\ At(c, "hook") /\ UNCHANGED <<rows, born, acked, writes, requests>>
           /\ \E r \in Request :
                /\ req' = [req EXCEPT ![c] = r]
                /\ SameCall(r, req[c]) /\ r.found = req[c].found /\ r.kind = req[c].kind
                /\ r.nulls = req[c].nulls
                /\ \/ /\ r.stage = "hook" /\ r.mutation = Rewritten
                      /\ r.type \in Soft /\ ~r.ctx.hard /\ clock' = clock + 1
                   \/ /\ r.stage = "exec" /\ r.mutation = req[c].mutation /\ clock' = clock
                      /\ r.mutation.op = "delete" => r.type \notin Soft \/ r.ctx.hard
<1>1. req[c] \in Request
  OBVIOUS
<1>2. At(c, "hook") /\ UNCHANGED <<rows, born, acked, writes, requests>>
  BY DEF Hook
<1>. DEFINE rewrites == /\ req[c].mutation.op = "delete"
                        /\ ~HardDeleteRequested(req[c].ctx)
                        /\ req[c].type \in Soft
<1>3. CASE rewrites
  <2> DEFINE r == [req[c] EXCEPT !.mutation = Rewritten]
  <2>1. req' = [req EXCEPT ![c] = r] /\ clock' = clock + 1
    BY <1>3 DEF Hook, Rewritten
  <2>2. Rewritten \in Mutation
    BY DEF Rewritten, Mutation
  <2>3. r \in Request
    <3>. HIDE DEF rewrites
    <3>. QED  BY <1>1, <2>2 DEF Request
  <2>4. /\ SameCall(r, req[c]) /\ r.found = req[c].found /\ r.kind = req[c].kind
        /\ r.nulls = req[c].nulls /\ r.stage = "hook" /\ r.mutation = Rewritten
    BY <1>1, <1>2 DEF SameCall, Request, At
  <2>5. r.type \in Soft /\ ~r.ctx.hard
    BY <1>1, <1>3 DEF HardDeleteRequested, Request
  <2>. QED  BY <1>2, <2>1, <2>3, <2>4, <2>5
<1>4. CASE ~rewrites
  <2> DEFINE r == [req[c] EXCEPT !.stage = "exec"]
  <2>1. req' = [req EXCEPT ![c] = r] /\ clock' = clock
    BY <1>4 DEF Hook
  <2>2. r \in Request
    <3>. HIDE DEF rewrites
    <3>. QED  BY <1>1 DEF Request, Stage
  <2>3. /\ SameCall(r, req[c]) /\ r.found = req[c].found /\ r.kind = req[c].kind
        /\ r.nulls = req[c].nulls /\ r.stage = "exec" /\ r.mutation = req[c].mutation
    BY <1>1 DEF SameCall, Request
  <2>4. r.mutation.op = "delete" => r.type \notin Soft \/ r.ctx.hard
    BY <1>1, <1>4, <2>3 DEF HardDeleteRequested, Request, SameCall
  <2>. QED  BY <1>2, <2>1, <2>2, <2>3, <2>4
<1>. QED  BY <1>3, <1>4

\* A delete statement that ran.
Deletes(c, r) ==
    /\ SameCall(r, req[c]) /\ r.found = req[c].found /\ r.nulls = req[c].nulls
    /\ r.stage = "done" /\ r.kind \in {"ok", "internal", "notfound"}
    /\ r.kind = "notfound" => r.op = "delete"
    /\ r.kind = "ok" => Affected(c) \subseteq acked' /\ (r.op = "delete" => Affected(c) # {})
    /\ acked' = acked \/ acked' = acked \cup Affected(c)
    /\ writes' = writes \/ writes' = writes + 1
    /\ \/ /\ req[c].mutation.op = "update"
          /\ rows' = [i \in Id |-> IF i \in Affected(c)
                                     THEN [rows[i] EXCEPT !.deletedAt = req[c].mutation.stamp]
                                     ELSE rows[i]]
       \/ /\ req[c].mutation.op = "delete"
          /\ rows' = [i \in Id |-> IF i \in Affected(c) THEN NoRow ELSE rows[i]]

Executing(c) == ExecSoft(c) \/ ExecHard(c)

\* A delete statement is refused or runs.
LEMMA ExecutingStep ==
    ASSUME req \in [Client -> Request], NEW c \in Client, Executing(c)
    PROVE  /\ At(c, "exec") /\ UNCHANGED <<born, clock, requests>>
           /\ \E r \in Request :
                /\ req' = [req EXCEPT ![c] = r]
                /\ \/ Refused(c, r) /\ UNCHANGED <<rows, acked, writes>>
                   \/ Deletes(c, r)
<1>1. At(c, "exec") /\ UNCHANGED <<born, clock, requests>>
  BY DEF Executing, ExecSoft, ExecHard
<1>2. CASE Finish(c, "internal") /\ UNCHANGED <<rows, acked, writes>>
  <2>1. ~At(c, "done") /\ ~At(c, "hook")
    BY <1>1 DEF At
  <2>. QED  BY <1>1, <1>2, <2>1, RefusedStep DEF Kind
<1>3. ASSUME NEW answer \in Answer, Acknowledge(c, answer),
             \/ /\ req[c].mutation.op = "update"
                /\ rows' = [i \in Id |->
                              IF i \in Affected(c)
                                THEN [rows[i] EXCEPT !.deletedAt = req[c].mutation.stamp]
                                ELSE rows[i]]
             \/ /\ req[c].mutation.op = "delete"
                /\ rows' = [i \in Id |-> IF i \in Affected(c) THEN NoRow ELSE rows[i]]
      PROVE  \E r \in Request : req' = [req EXCEPT ![c] = r] /\ Deletes(c, r)
  <2> DEFINE n == Cardinality(Affected(c))
             r == [req[c] EXCEPT !.stage = "done", !.kind = Outcome(c, answer), !.total = n]
  <2>1. req[c] \in Request
    OBVIOUS
  <2>2. n \in Nat
    <3>1. Affected(c) \subseteq Id
      BY <2>1 DEF Affected, Request
    <3>. QED  BY <3>1, ConstantsAssumption, FS_Subset, FS_CardinalityType
  <2>3. /\ Outcome(c, answer) \in {"ok", "internal", "notfound"}
        /\ Outcome(c, answer) = "notfound" => req[c].op = "delete"
        /\ Outcome(c, answer) = "ok" =>
             answer = "ok" /\ (req[c].op = "delete" => Affected(c) # {})
    BY DEF Outcome, Answer
  <2>4. /\ req' = [req EXCEPT ![c] = r]
        /\ acked' = IF answer = "ok" THEN acked \cup Affected(c) ELSE acked
        /\ writes' = IF Affected(c) = {} THEN writes ELSE writes + 1
    BY <1>3 DEF Acknowledge
  <2>. HIDE DEF n
  <2>5. r \in Request
    BY <2>1, <2>2, <2>3 DEF Request, Stage, Kind
  <2>6. /\ SameCall(r, req[c]) /\ r.found = req[c].found /\ r.nulls = req[c].nulls
        /\ r.stage = "done" /\ r.kind = Outcome(c, answer)
    BY <2>1 DEF Request, SameCall
  <2>. HIDE DEF r
  <2>7. Deletes(c, r)
    BY <1>3, <2>3, <2>4, <2>6 DEF Deletes, SameCall
  <2>. QED  BY <2>4, <2>5, <2>7
<1>4. CASE ExecSoft(c)
  BY <1>1, <1>3, <1>4 DEF ExecSoft
<1>5. CASE ExecHard(c)
  BY <1>1, <1>2, <1>3, <1>5 DEF ExecHard, Classify
<1>. QED  BY <1>4, <1>5 DEF Executing

-----------------------------------------------------------------------------
(***************************************************************************)
(* The invariant.                                                          *)
(***************************************************************************)
LEMMA Born ==
    ASSUME TypeOK
    PROVE  /\ born \subseteq Id /\ acked \subseteq born
           /\ \A i \in Id : Exists(i) => i \in born
           /\ \A i \in Id : Exists(i) => rows[i] \in Row
  BY DEF TypeOK, Exists

\* The invariant holds of every seed.
LEMMA IInvInit == Init => IInv
<1> SUFFICES ASSUME Init PROVE IInv
  OBVIOUS
<1>. USE DEF Init
<1>1. NoRequest \in Request /\ NoRequest.op = "none" /\ NoRequest.kind = "none"
      /\ NoRequest.stage = "done" /\ NoRequest.ids = {} /\ NoRequest.known = acked
      /\ NoRequest.found = {}
  <2>1. NewRequest("none", "doc", {}, [included |-> FALSE, hard |-> FALSE]) \in Request
    BY DEF NewRequest, Request, Stage, Kind, NoMutation, Mutation, Op, Type, Context
  <2>. QED  BY <2>1, ZenonT(60) DEF NoRequest, NewRequest, Request, Stage
<1>2. \A c \in Client : req[c] = NoRequest
  OBVIOUS
<1>3. rows \in [Id -> Row \cup {NoRow}] /\ \A i \in Id : rows[i].deletedAt = 0
  BY ConstantsAssumption
<1>4. TypeOK
  BY <1>1, <1>2, <1>3, ConstantsAssumption DEF TypeOK, Exists
<1>5. RowsInv
  BY ConstantsAssumption DEF RowsInv, Id
<1>. HIDE DEF Init
<1>6. CreateInv /\ ShapeInv /\ AnswerInv
  BY <1>1, <1>2, <1>3 DEF CreateInv, Creating, ShapeInv, Shaped, AnswerInv, At
<1>7. ReadsHideDeleted /\ OneDeleteWins /\ LostCreateWasDeleted
  BY <1>1, <1>2 DEF ReadsHideDeleted, OneDeleteWins, LostCreateWasDeleted
<1>. QED  BY <1>4, <1>5, <1>6, <1>7 DEF IInv

\* A step keeps every request shaped that leaves its own so: stamps stay past ones.
LEMMA ShapedStep ==
    ASSUME ShapeInv, clock \in Nat, clock' \in Nat, clock <= clock', NEW c \in Client,
           NEW r \in Request, Shaped(r)', req'[c] = r,
           \A d \in Client \ {c} : req'[d] = req[d]
    PROVE  ShapeInv'
<1> SUFFICES ASSUME NEW d \in Client PROVE Shaped(req[d])'
  BY DEF ShapeInv
<1>1. CASE d = c
  BY <1>1
<1>2. CASE d # c
  <2>1. req'[d] = req[d] /\ Shaped(req[d])
    BY <1>2 DEF ShapeInv
  <2>. QED  BY <2>1 DEF Shaped
<1>. QED  BY <1>1, <1>2

\* A new request.
LEMMA StartedKeeps ==
    ASSUME IInv, NEW c \in Client, req[c].stage = "done",
           requests < MaxRequests, requests' = requests + 1,
           UNCHANGED <<rows, clock, acked, writes>>,
           NEW r \in Request, req' = [req EXCEPT ![c] = r], Started(r)
    PROVE  IInv'
<1>. USE DEF IInv
<1>1. /\ req' \in [Client -> Request] /\ req'[c] = r
      /\ \A d \in Client \ {c} : req'[d] = req[d]
  BY OneRequest DEF TypeOK
<1>2. \A d \in Client : d = c \/ req'[d] = req[d]
  BY <1>1
<1>3. born \subseteq born' /\ born' \subseteq Id
  BY DEF Started, TypeOK, Request
<1>4. \A i \in Id : (Exists(i) <=> Exists(i)') /\ (Live(i) <=> Live(i)')
  BY DEF Exists, Live
<1>5. TypeOK'
  BY <1>1, <1>3, ConstantsAssumption DEF TypeOK, Exists
<1>6. RowsInv'
  BY DEF RowsInv, Live, Exists
<1>7. CreateInv'
  <2>1. r.op = "create" => r.ids \subseteq born' /\ r.ids \cap born = {}
    BY DEF Started
  <2>2. \A d \in Client : req'[d].op = "create" => req'[d].ids \subseteq born'
    BY <1>1, <1>2, <1>3, <2>1 DEF CreateInv
  <2>3. \A d \in Client : Creating(d)' =>
          \A i \in req'[d].ids : ~Exists(i)' /\ i \notin acked'
    BY <1>1, <1>2, <2>1, Born DEF CreateInv, Creating, Exists, At, Request
  <2>4. \A d, e \in Client : d # e /\ Creating(d)' /\ req'[e].op = "create"
          => req'[d].ids \cap req'[e].ids = {}
    BY <1>1, <1>2, <2>1 DEF CreateInv, Creating, At
  <2>. QED  BY <2>2, <2>3, <2>4 DEF CreateInv
<1>8. ShapeInv'
  <2>1. Shaped(r)'
    <3>1. r.op \in Op /\ DeleteMutation.op = "delete"
      BY DEF Request, DeleteMutation, NoMutation
    <3>. QED  BY <3>1 DEF Shaped, Started, Op
  <2>. QED  BY <1>1, <2>1, ShapedStep DEF TypeOK
<1>9. AnswerInv'
  BY <1>1, <1>2 DEF AnswerInv, Started, At
<1>10. ReadsHideDeleted'
  BY <1>1, <1>2 DEF ReadsHideDeleted, PlainDone, Started
<1>11. OneDeleteWins'
  BY <1>1, <1>2 DEF OneDeleteWins, Started
<1>12. LostCreateWasDeleted'
  BY <1>1, <1>2 DEF LostCreateWasDeleted, Started, Live, Exists
<1>. QED  BY <1>5, <1>6, <1>7, <1>8, <1>9, <1>10, <1>11, <1>12

\* What a query returns is there, and was not deleted before the request began
\* unless its context shows tombstones.
LEMMA MatchesLive ==
    ASSUME IInv, NEW c \in Client, NEW p \in Matches(c)
    PROVE  /\ p[1] \in req[c].ids /\ p[1] \in Id /\ Exists(p[1]) /\ p[2] = rows[p[1]].ref
           /\ ~req[c].ctx.included => p[1] \notin req[c].known
<1>1. PICK i \in req[c].ids : p = <<i, rows[i].ref>> /\ Visible(i, req[c].ctx)
  BY DEF Matches
<1>2. i \in Id /\ Exists(i)
  BY <1>1 DEF IInv, TypeOK, Request, Visible
<1>3. ~req[c].ctx.included => i \notin acked
  BY <1>1, <1>2 DEF IInv, RowsInv, Visible, SoftDeletedIncluded
<1>4. req[c].known \subseteq acked
  BY DEF IInv, AnswerInv
<1>. QED  BY <1>1, <1>2, <1>3, <1>4

\* A step that reads.
LEMMA ReadKeeps ==
    ASSUME IInv, NEW c \in Client, UNCHANGED <<rows, born, clock, acked, writes, requests>>,
           NEW r \in Request, req' = [req EXCEPT ![c] = r], ReadBy(c, r)
    PROVE  IInv'
<1>. USE DEF IInv
<1>1. /\ req' \in [Client -> Request] /\ req'[c] = r
      /\ \A d \in Client \ {c} : req'[d] = req[d]
  BY OneRequest DEF TypeOK
<1>2. \A d \in Client : d = c \/ req'[d] = req[d]
  BY <1>1
<1>3. SameCall(r, req[c]) /\ r.stage \in {"edges", "page", "done"}
  BY DEF ReadBy
<1>4. Shaped(req[c])
  BY DEF ShapeInv
<1>5. req[c].stage \in {"query", "edges", "count", "page"} /\ r.op \notin {"delete", "batch"}
  <2>1. req[c].stage \in {"query", "edges", "count", "page"}
    BY DEF ReadBy, At, TypeOK, Request, Stage
  <2>. QED  BY <1>3, <1>4, <2>1 DEF Shaped, SameCall
<1>6. TypeOK'
  BY <1>1 DEF TypeOK, Exists
<1>7. RowsInv'
  BY DEF RowsInv, Live, Exists
<1>8. CreateInv'
  BY <1>1, <1>2, <1>3 DEF CreateInv, Creating, At, Exists, SameCall
<1>9. ShapeInv'
  <2>1. r.stage = "page" => req[c].stage = "count"
    BY DEF ReadBy, At
  <2>2. r.stage # "done" => r.kind = "none"
    BY DEF ReadBy
  <2>3. Shaped(r)'
    BY <1>3, <1>4, <1>5, <2>1, <2>2 DEF Shaped, SameCall
  <2>. QED  BY <1>1, <2>3, ShapedStep DEF TypeOK
<1>10. AnswerInv'
  <2>1. r.stage = "edges" /\ ~r.ctx.included => \A p \in r.found : p[1] \notin r.known
    BY <1>3, MatchesLive DEF ReadBy, SameCall
  <2>2. r.known \subseteq acked'
    BY <1>3 DEF AnswerInv, SameCall
  <2>. QED  BY <1>1, <1>2, <1>5, <2>1, <2>2 DEF AnswerInv, At
<1>11. ReadsHideDeleted'
  <2>1. ASSUME r.kind = "ok", ~r.ctx.included, NEW p \in r.found
        PROVE  p[1] \notin r.known /\ (p[2] \in r.known => p[1] \in r.nulls)
    <3>1. CASE r.found = Matches(c) /\ (~HasEdges(r.type) \/ Matches(c) = {})
      <4>1. p[1] \notin r.known
        BY <1>3, <2>1, <3>1, MatchesLive DEF SameCall
      <4>2. p[1] \in Doc /\ p[2] = rows[p[1]].ref
        BY <1>3, <1>4, <2>1, <3>1, MatchesLive DEF SameCall, Shaped, IdsOf, HasEdges, TypeOK,
           Request, Type
      <4>3. p[2] \notin Id
        BY <4>2, ConstantsAssumption DEF RowsInv, Id
      <4>4. r.known \subseteq Id
        BY DEF Request
      <4>. QED  BY <4>1, <4>3, <4>4
    <3>2. CASE /\ At(c, "edges") /\ r.found = req[c].found
               /\ r.nulls = {q[1] : q \in {z \in req[c].found : ~Loaded(z[2], req[c].ctx)}}
      <4>1. p[1] \notin r.known
        BY <1>3, <2>1, <3>2 DEF AnswerInv, SameCall
      <4>2. ASSUME p[2] \in r.known PROVE p[1] \in r.nulls
        <5>1. p[2] \in acked /\ p[2] \in Id
          BY <1>3, <4>2 DEF AnswerInv, SameCall, Request
        <5>2. ~Visible(p[2], req[c].ctx)
          BY <1>3, <2>1, <5>1 DEF RowsInv, Visible, SoftDeletedIncluded, SameCall
        <5>. QED  BY <2>1, <3>2, <5>2 DEF Loaded
      <4>. QED  BY <4>1, <4>2
    <3>. QED  BY <2>1, <3>1, <3>2 DEF ReadBy
  <2>2. ASSUME NEW d \in Client, d # c, PlainDone(d)', req'[d].kind = "ok",
               (req[d].op \in {"get", "list"} \/ HasEdges(req[d].type))'
        PROVE  \A p \in req'[d].found :
                 p[1] \notin req'[d].known /\ (p[2] \in req'[d].known => p[1] \in req'[d].nulls)
    BY <1>2, <2>2 DEF ReadsHideDeleted, PlainDone
  <2>. QED  BY <1>1, <2>1, <2>2 DEF ReadsHideDeleted, PlainDone
<1>12. OneDeleteWins'
  BY <1>1, <1>2, <1>5 DEF OneDeleteWins
<1>13. LostCreateWasDeleted'
  <2>1. ASSUME r.op = "create", r.kind = "notfound", NEW i \in r.ids PROVE ~Live(i)
    <3>1. req[c].ids = {i} /\ i \in Id /\ TypeOf(i) \in Type
      BY <1>3, <1>4, <2>1, TypeOfFacts DEF Shaped, SameCall
    <3>2. ~Visible(i, req[c].ctx)
      BY <2>1, <3>1, ZenonT(60) DEF ReadBy, Matches
    <3>. QED  BY <3>2 DEF Visible, Live
  <2>. QED  BY <1>1, <1>2, <2>1 DEF LostCreateWasDeleted, Live, Exists
<1>. QED  BY <1>6, <1>7, <1>8, <1>9, <1>10, <1>11, <1>12, <1>13

\* A step that answers and changes nothing.
LEMMA RefusedKeeps ==
    ASSUME IInv, NEW c \in Client, UNCHANGED <<rows, born, clock, acked, writes, requests>>,
           NEW r \in Request, req' = [req EXCEPT ![c] = r], Refused(c, r)
    PROVE  IInv'
<1>. USE DEF IInv
<1>1. /\ req' \in [Client -> Request] /\ req'[c] = r
      /\ \A d \in Client \ {c} : req'[d] = req[d]
  BY OneRequest DEF TypeOK
<1>2. \A d \in Client : d = c \/ req'[d] = req[d]
  BY <1>1
<1>3. /\ SameCall(r, req[c]) /\ r.stage = "done" /\ r.kind \in {"internal", "exists", "notfound"}
      /\ r.kind = "notfound" => r.op = "patch"
      /\ r.found = req[c].found
  <2>1. /\ r = [req[c] EXCEPT !.stage = "done", !.kind = r.kind]
        /\ r.kind \in {"internal", "exists", "notfound"}
        /\ r.kind = "notfound" => req[c].op = "patch"
    BY DEF Refused
  <2>2. req[c] \in Request
    BY DEF TypeOK
  <2>3. /\ SameCall([req[c] EXCEPT !.stage = "done", !.kind = r.kind], req[c])
        /\ [req[c] EXCEPT !.stage = "done", !.kind = r.kind].stage = "done"
        /\ [req[c] EXCEPT !.stage = "done", !.kind = r.kind].found = req[c].found
    BY <2>2 DEF SameCall, Request
  <2>. QED  BY <2>1, <2>3 DEF SameCall
<1>4. Shaped(req[c])
  BY DEF ShapeInv
<1>5. TypeOK'
  BY <1>1 DEF TypeOK, Exists
<1>6. RowsInv'
  BY DEF RowsInv, Live, Exists
<1>7. CreateInv'
  BY <1>1, <1>2, <1>3 DEF CreateInv, Creating, At, Exists, SameCall
<1>8. ShapeInv'
  <2>1. Shaped(r)'
    BY <1>3, <1>4 DEF Shaped, SameCall
  <2>. QED  BY <1>1, <2>1, ShapedStep DEF TypeOK
<1>9. AnswerInv'
  BY <1>1, <1>2, <1>3 DEF AnswerInv, At, SameCall
<1>10. ReadsHideDeleted'
  BY <1>1, <1>2, <1>3 DEF ReadsHideDeleted, PlainDone
<1>11. OneDeleteWins'
  BY <1>1, <1>2, <1>3 DEF OneDeleteWins
<1>12. LostCreateWasDeleted'
  BY <1>1, <1>2, <1>3 DEF LostCreateWasDeleted, Live, Exists
<1>. QED  BY <1>5, <1>6, <1>7, <1>8, <1>9, <1>10, <1>11, <1>12

\* A pass through the hook.
LEMMA HookKeeps ==
    ASSUME IInv, NEW c \in Client, Hook(c)
    PROVE  IInv'
<1>. USE DEF IInv
<1>1. PICK r \in Request :
        /\ req' = [req EXCEPT ![c] = r]
        /\ SameCall(r, req[c]) /\ r.found = req[c].found /\ r.kind = req[c].kind
        /\ r.nulls = req[c].nulls
        /\ \/ /\ r.stage = "hook" /\ r.mutation = Rewritten
              /\ r.type \in Soft /\ ~r.ctx.hard /\ clock' = clock + 1
           \/ /\ r.stage = "exec" /\ r.mutation = req[c].mutation /\ clock' = clock
              /\ r.mutation.op = "delete" => r.type \notin Soft \/ r.ctx.hard
  BY HookStep DEF TypeOK
<1>2. /\ At(c, "hook") /\ UNCHANGED <<rows, born, acked, writes, requests>>
      /\ clock' \in Nat /\ clock <= clock' /\ r.stage \in {"hook", "exec"}
  BY <1>1, HookStep DEF TypeOK
<1>3. /\ req' \in [Client -> Request] /\ req'[c] = r
      /\ \A d \in Client \ {c} : req'[d] = req[d]
  BY <1>1, OneRequest DEF TypeOK
<1>4. \A d \in Client : d = c \/ req'[d] = req[d]
  BY <1>3
<1>5. Shaped(req[c]) /\ r.op \in {"delete", "batch"} /\ r.kind = "none"
  <2>1. Shaped(req[c])
    BY DEF ShapeInv
  <2>. QED  BY <1>1, <1>2, <2>1 DEF Shaped, At, SameCall
<1>6. TypeOK'
  <2>1. \A i \in Id : rows[i].deletedAt \in Nat
    BY DEF TypeOK, Row, NoRow
  <2>. QED  BY <1>2, <1>3, <2>1 DEF TypeOK, Exists
<1>7. RowsInv'
  BY <1>2 DEF RowsInv, Live, Exists
<1>8. CreateInv'
  BY <1>2, <1>3, <1>4, <1>5 DEF CreateInv, Creating, At, Exists
<1>9. ShapeInv'
  <2>1. CASE r.stage = "hook"
    <3>1. /\ r.mutation.op = "update" /\ r.mutation.whereLive
          /\ r.mutation.stamp = clock + 1 /\ r.type \in Soft /\ ~r.ctx.hard
          /\ clock' = clock + 1
      BY <1>1, <2>1 DEF Rewritten
    <3>2. clock \in Nat
      BY DEF TypeOK
    <3>3. Shaped(r)'
      BY <1>1, <1>5, <2>1, <3>1, <3>2 DEF Shaped, SameCall
    <3>. QED  BY <1>2, <1>3, <3>3, ShapedStep DEF TypeOK
  <2>2. CASE r.stage = "exec"
    <3>1. /\ r.mutation = req[c].mutation /\ clock' = clock
          /\ r.mutation.op = "delete" => r.type \notin Soft \/ r.ctx.hard
      BY <1>1, <2>2
    <3>2. Shaped(r)'
      BY <1>1, <1>2, <1>5, <2>2, <3>1 DEF Shaped, SameCall, At
    <3>. QED  BY <1>2, <1>3, <3>2, ShapedStep DEF TypeOK
  <2>. QED  BY <1>2, <2>1, <2>2
<1>10. AnswerInv'
  BY <1>1, <1>2, <1>3, <1>4, <1>5 DEF AnswerInv, At, SameCall
<1>11. ReadsHideDeleted'
  BY <1>3, <1>4, <1>5 DEF ReadsHideDeleted, PlainDone
<1>12. OneDeleteWins'
  BY <1>3, <1>4, <1>5 DEF OneDeleteWins
<1>13. LostCreateWasDeleted'
  BY <1>2, <1>3, <1>4, <1>5 DEF LostCreateWasDeleted, Live, Exists
<1>. QED  BY <1>6, <1>7, <1>8, <1>9, <1>10, <1>11, <1>12, <1>13

\* What an insert or an update does to the rows: one row is written, a new one
\* is live, and an update neither hides nor revives.
LEMMA WroteRows ==
    ASSUME IInv, NEW c \in Client, NEW r \in Request, NEW i \in req[c].ids, Wrote(c, i, r)
    PROVE  /\ i \in Id /\ req[c].ids = {i} /\ i \in IdsOf(req[c].type)
           /\ rows' \in [Id -> Row \cup {NoRow}]
           /\ \A j \in Id \ {i} : rows'[j] = rows[j]
           /\ Exists(i)' /\ (i \in Doc => rows'[i].ref = "none")
           /\ r.op = "create" => /\ Creating(c) /\ rows'[i].deletedAt = 0
                                 /\ rows'[i].ref = r.ref /\ ~RefDangles(r.ref)
           /\ r.op # "create" => /\ r.op = "patch" /\ Exists(i)
                                 /\ rows'[i].deletedAt = rows[i].deletedAt
                                 /\ rows'[i].ref = rows[i].ref
<1>. USE DEF IInv
<1>1. Shaped(req[c]) /\ req[c].stage = "save" /\ SameCall(r, req[c])
  BY DEF ShapeInv, Wrote, At
<1>2. /\ req[c].op \in {"create", "patch"} /\ req[c].key \in Key
      /\ \E j \in Id : req[c].ids = {j}
  BY <1>1 DEF Shaped
<1>3. i \in Id /\ req[c].ids = {i} /\ i \in IdsOf(req[c].type)
  BY <1>1, <1>2 DEF Shaped
<1>4. i \in Doc => req[c].type = "doc" /\ r.ref = "none"
  <2>1. req[c].type \in Type
    BY DEF TypeOK, Request
  <2>. QED  BY <1>1, <1>3, <2>1, ConstantsAssumption DEF Shaped, SameCall, IdsOf, Type
<1>5. r.key \in Key /\ r.ref \in Doc \cup {"none"}
  BY <1>1, <1>2 DEF SameCall, Request
<1>6. \A w \in Row : w # NoRow
  BY ConstantsAssumption DEF Row, NoRow
<1>7. CASE /\ r.op = "create" /\ ~RefDangles(r.ref)
           /\ rows' = [rows EXCEPT ![i] = [key |-> r.key, ref |-> r.ref, deletedAt |-> 0]]
  <2>1. [key |-> r.key, ref |-> r.ref, deletedAt |-> 0] \in Row
    BY <1>5 DEF Row
  <2>2. Creating(c)
    BY <1>1, <1>7 DEF Creating, At, SameCall
  <2>. QED  BY <1>3, <1>4, <1>6, <1>7, <2>1, <2>2 DEF TypeOK, Exists
<1>8. CASE r.op = "patch" /\ Exists(i) /\ rows' = [rows EXCEPT ![i].key = r.key]
  <2>1. rows[i] \in Row /\ rows \in [Id -> Row \cup {NoRow}]
    BY <1>3, <1>8 DEF TypeOK, Exists
  <2>2. /\ [rows[i] EXCEPT !.key = r.key] \in Row
        /\ [rows[i] EXCEPT !.key = r.key].deletedAt = rows[i].deletedAt
        /\ [rows[i] EXCEPT !.key = r.key].ref = rows[i].ref
    BY <1>5, <2>1 DEF Row
  <2> DEFINE w == [rows[i] EXCEPT !.key = r.key]
  <2>3. rows' = [rows EXCEPT ![i] = w]
    BY <1>8
  <2>. HIDE DEF w
  <2>4. w \in Row /\ w.deletedAt = rows[i].deletedAt /\ w.ref = rows[i].ref
    BY <2>2 DEF w
  <2>5. rows'[i] = w /\ rows' \in [Id -> Row \cup {NoRow}] /\ \A j \in Id \ {i} : rows'[j] = rows[j]
    BY <1>3, <2>1, <2>3, <2>4
  <2>. QED  BY <1>3, <1>6, <1>8, <2>4, <2>5 DEF Exists, RowsInv
<1>. QED  BY <1>7, <1>8 DEF Wrote

\* An insert or an update that ran.
LEMMA WroteKeeps ==
    ASSUME IInv, NEW c \in Client, UNCHANGED <<born, clock, acked, requests>>,
           NEW r \in Request, req' = [req EXCEPT ![c] = r],
           NEW i \in req[c].ids, Wrote(c, i, r)
    PROVE  IInv'
<1>. USE DEF IInv
<1>1. /\ req' \in [Client -> Request] /\ req'[c] = r
      /\ \A d \in Client \ {c} : req'[d] = req[d]
  BY OneRequest DEF TypeOK
<1>2. \A d \in Client : d = c \/ req'[d] = req[d]
  BY <1>1
<1>3. /\ SameCall(r, req[c]) /\ r.stage \in {"query", "done"}
      /\ r.kind \in {"none", "ok", "internal"}
      /\ r.kind = "ok" => ~HasEdges(r.type)
      /\ r.stage = "query" => r.kind = "none"
      /\ req[c].stage = "save" /\ writes' = writes + 1
  BY DEF Wrote, At
<1>4. Shaped(req[c]) /\ r.op \in {"create", "patch"}
  BY <1>3 DEF ShapeInv, Shaped, SameCall
<1>5. /\ i \in Id /\ req[c].ids = {i} /\ r.ids = {i}
      /\ \A j \in Id \ {i} : rows'[j] = rows[j]
      /\ r.op = "create" => Creating(c)
      /\ r.op = "patch" => Exists(i) /\ rows'[i].deletedAt = rows[i].deletedAt
  BY <1>3, WroteRows DEF SameCall
<1>6. ~Creating(c)'
  BY <1>1, <1>3 DEF Creating, At
<1>7. TypeOK'
  <2>1. i \in born
    <3>1. r.op = "create" => i \in born
      BY <1>3, <1>5 DEF CreateInv, SameCall
    <3>. QED  BY <1>4, <1>5, <3>1, Born
  <2>2. rows'[i].deletedAt <= clock
    <3>1. CASE r.op = "create"
      <4>1. rows'[i].deletedAt = 0 /\ clock \in Nat
        BY <3>1, WroteRows DEF TypeOK
      <4>. QED  BY <4>1
    <3>2. CASE r.op = "patch"
      BY <1>5, <3>2 DEF TypeOK
    <3>. QED  BY <1>4, <3>1, <3>2
  <2>. QED  BY <1>1, <1>3, <1>5, <2>1, <2>2, WroteRows DEF TypeOK, Exists
<1>8. RowsInv'
  <2>1. \A j \in Doc : rows'[j].ref = "none"
    BY <1>5, WroteRows DEF RowsInv, Id
  <2>2. ASSUME NEW j \in acked PROVE ~Live(j)' /\ (TypeOf(j) \in Soft \/ ~Exists(j)')
    <3>1. j \in Id /\ ~Live(j) /\ (TypeOf(j) \in Soft \/ ~Exists(j))
      BY DEF RowsInv, TypeOK
    <3>2. CASE j # i
      BY <1>5, <3>1, <3>2 DEF Live, Exists
    <3>3. CASE j = i
      <4>1. r.op = "patch"
        BY <1>4, <1>5, <3>3 DEF CreateInv
      <4>. QED  BY <1>5, <3>1, <3>3, <4>1 DEF Live, Exists
    <3>. QED  BY <3>2, <3>3
  <2>. QED  BY <2>1, <2>2 DEF RowsInv
<1>9. CreateInv'
  <2>1. ASSUME NEW d \in Client, Creating(d)', NEW j \in req'[d].ids
        PROVE  ~Exists(j)' /\ j \notin acked'
    <3>1. d # c /\ req'[d] = req[d] /\ Creating(d)
      BY <1>2, <1>6, <2>1 DEF Creating, At
    <3>2. ~Exists(j) /\ j \notin acked /\ j \in Id
      BY <2>1, <3>1 DEF CreateInv, TypeOK, Request
    <3>3. j # i
      <4>1. CASE r.op = "create"
        BY <1>3, <1>5, <2>1, <3>1, <4>1 DEF CreateInv, SameCall
      <4>2. CASE r.op = "patch"
        BY <1>5, <3>2, <4>2
      <4>. QED  BY <1>4, <4>1, <4>2
    <3>. QED  BY <1>5, <3>2, <3>3 DEF Exists
  <2>2. \A d \in Client : req'[d].op = "create" => req'[d].ids \subseteq born'
    BY <1>1, <1>2, <1>3 DEF CreateInv, SameCall
  <2>3. \A d, e \in Client : d # e /\ Creating(d)' /\ req'[e].op = "create"
          => req'[d].ids \cap req'[e].ids = {}
    BY <1>1, <1>2, <1>3, <1>6 DEF CreateInv, Creating, At, SameCall
  <2>. QED  BY <2>1, <2>2, <2>3 DEF CreateInv
<1>10. ShapeInv'
  <2>1. Shaped(r)'
    BY <1>3, <1>4 DEF Shaped, SameCall
  <2>. QED  BY <1>1, <2>1, ShapedStep DEF TypeOK
<1>11. AnswerInv'
  BY <1>1, <1>2, <1>3, <1>4 DEF AnswerInv, At, SameCall
<1>12. ReadsHideDeleted'
  BY <1>1, <1>2, <1>3, <1>4 DEF ReadsHideDeleted, PlainDone
<1>13. OneDeleteWins'
  BY <1>1, <1>2, <1>4 DEF OneDeleteWins
<1>14. LostCreateWasDeleted'
  <2>1. ASSUME NEW d \in Client, req'[d].op = "create", req'[d].kind = "notfound",
               NEW j \in req'[d].ids
        PROVE  ~Live(j)'
    <3>1. d # c /\ req'[d] = req[d] /\ j \in Id
      <4>1. d # c
        BY <1>1, <1>3, <2>1
      <4>2. req'[d] \in Request
        BY <1>1
      <4>. QED  BY <1>2, <2>1, <4>1, <4>2 DEF Request
    <3>2. ~Live(j)
      BY <2>1, <3>1 DEF LostCreateWasDeleted
    <3>3. CASE j # i
      BY <1>5, <3>1, <3>2, <3>3 DEF Live, Exists
    <3>4. CASE j = i
      <4>1. r.op = "patch"
        <5>1. SUFFICES ASSUME r.op = "create" PROVE FALSE
          BY <1>4
        <5>2. req[c].ids \cap req[d].ids = {}
          BY <1>5, <2>1, <3>1, <5>1 DEF CreateInv
        <5>. QED  BY <1>5, <2>1, <3>1, <3>4, <5>2
      <4>. QED  BY <1>5, <3>2, <3>4, <4>1 DEF Live, Exists
    <3>. QED  BY <3>3, <3>4
  <2>. QED  BY <2>1 DEF LostCreateWasDeleted
<1>. QED  BY <1>7, <1>8, <1>9, <1>10, <1>11, <1>12, <1>13, <1>14

\* What a delete that ran does to the rows: a live row of a soft type becomes a
\* tombstone, any other affected row goes, and no other row changes.
LEMMA DeletesRows ==
    ASSUME IInv, NEW c \in Client, NEW r \in Request, At(c, "exec"), Deletes(c, r)
    PROVE  /\ Affected(c) \subseteq req[c].ids \cap Id
           /\ rows' \in [Id -> Row \cup {NoRow}]
           /\ \A j \in Id \ Affected(c) : rows'[j] = rows[j]
           /\ \A j \in Affected(c) :
                /\ Exists(j) /\ ~Live(j)' /\ (TypeOf(j) \in Soft \/ ~Exists(j)')
                /\ IF req[c].mutation.op = "update"
                     THEN /\ Live(j) /\ TypeOf(j) \in Soft /\ Exists(j)'
                          /\ rows'[j].deletedAt \in 1..clock /\ rows'[j].ref = rows[j].ref
                     ELSE rows'[j] = NoRow
<1>. USE DEF IInv
<1>1. Shaped(req[c]) /\ req[c].stage = "exec"
  BY DEF ShapeInv, At
<1>2. Affected(c) \subseteq req[c].ids \cap Id
  BY DEF Affected, TypeOK, Request
<1>3. \A j \in Affected(c) : Exists(j) /\ (req[c].mutation.whereLive => Live(j))
  BY DEF Affected
<1>4. \A w \in Row : w # NoRow
  BY ConstantsAssumption DEF Row, NoRow
<1>5. CASE /\ req[c].mutation.op = "update"
           /\ rows' = [j \in Id |-> IF j \in Affected(c)
                                      THEN [rows[j] EXCEPT !.deletedAt = req[c].mutation.stamp]
                                      ELSE rows[j]]
  <2>1. /\ req[c].type \in Soft /\ req[c].mutation.whereLive
        /\ req[c].mutation.stamp \in 1..clock
    BY <1>1, <1>5 DEF Shaped
  <2>2. ASSUME NEW j \in Affected(c)
        PROVE  /\ rows[j] \in Row /\ rows'[j] \in Row
               /\ rows'[j].deletedAt = req[c].mutation.stamp /\ rows'[j].ref = rows[j].ref
               /\ TypeOf(j) \in Soft /\ Live(j)
    <3>1. rows[j] \in Row /\ Live(j)
      BY <1>2, <1>3, <2>1, Born
    <3>2. rows'[j] = [rows[j] EXCEPT !.deletedAt = req[c].mutation.stamp]
      BY <1>2, <1>5
    <3>3. /\ rows'[j] \in Row /\ rows'[j].ref = rows[j].ref
          /\ rows'[j].deletedAt = req[c].mutation.stamp
      <4>1. req[c].mutation.stamp \in Nat
        BY <2>1 DEF TypeOK
      <4>. QED  BY <3>1, <3>2, <4>1 DEF Row
    <3>4. TypeOf(j) = req[c].type
      <4>1. req[c].type \in Type /\ j \in IdsOf(req[c].type)
        BY <1>1, <1>2 DEF Shaped, TypeOK, Request
      <4>. QED  BY <4>1, TypeOfFacts
    <3>. QED  BY <2>1, <3>1, <3>3, <3>4
  <2>3. \A j \in Id \ Affected(c) : rows'[j] = rows[j] /\ rows'[j] \in Row \cup {NoRow}
    BY <1>5 DEF TypeOK
  <2>4. rows' \in [Id -> Row \cup {NoRow}]
    <3>1. \A j \in Id : rows'[j] \in Row \cup {NoRow}
      BY <2>2, <2>3
    <3>2. rows' = [j \in Id |-> rows'[j]]
      BY <1>5
    <3>. QED  BY <3>1, <3>2
  <2>5. \A j \in Affected(c) : ~Live(j)' /\ Exists(j)'
    BY <1>4, <2>1, <2>2 DEF Live, Exists
  <2>. QED  BY <1>2, <1>3, <1>5, <2>1, <2>2, <2>3, <2>4, <2>5
<1>6. CASE /\ req[c].mutation.op = "delete"
           /\ rows' = [j \in Id |-> IF j \in Affected(c) THEN NoRow ELSE rows[j]]
  BY <1>2, <1>3, <1>6 DEF TypeOK, Live, Exists
<1>. QED  BY <1>5, <1>6 DEF Deletes

\* A delete that ran.
LEMMA DeletesKeeps ==
    ASSUME IInv, NEW c \in Client, At(c, "exec"), UNCHANGED <<born, clock, requests>>,
           NEW r \in Request, req' = [req EXCEPT ![c] = r], Deletes(c, r)
    PROVE  IInv'
<1>. USE DEF IInv
<1>1. /\ req' \in [Client -> Request] /\ req'[c] = r
      /\ \A d \in Client \ {c} : req'[d] = req[d]
  BY OneRequest DEF TypeOK
<1>2. \A d \in Client : d = c \/ req'[d] = req[d]
  BY <1>1
<1>3. /\ SameCall(r, req[c]) /\ r.stage = "done" /\ r.found = req[c].found
      /\ r.kind = "ok" => Affected(c) \subseteq acked' /\ (r.op = "delete" => Affected(c) # {})
      /\ acked' = acked \/ acked' = acked \cup Affected(c)
      /\ writes' = writes \/ writes' = writes + 1
  BY DEF Deletes
<1>4. Shaped(req[c]) /\ req[c].stage = "exec" /\ r.op \in {"delete", "batch"}
  BY <1>3 DEF ShapeInv, Shaped, SameCall, At
<1>5. /\ Affected(c) \subseteq req[c].ids /\ Affected(c) \subseteq Id
      /\ \A j \in Id \ Affected(c) : rows'[j] = rows[j]
      /\ \A j \in Affected(c) : Exists(j) /\ ~Live(j)' /\ (TypeOf(j) \in Soft \/ ~Exists(j)')
  BY DeletesRows
<1>6. \A j \in Id : /\ Live(j)' => Live(j) /\ j \notin Affected(c)
                    /\ Exists(j)' => Exists(j)
  BY <1>5 DEF Live, Exists
<1>7. TypeOK'
  <2>1. acked' \subseteq born /\ acked \subseteq acked'
    BY <1>3, <1>5, Born
  <2>2. ASSUME NEW j \in Id, Exists(j)' PROVE j \in born' /\ rows'[j].deletedAt <= clock'
    <3>1. j \in born
      BY <1>6, <2>2, Born
    <3>2. CASE j \in Affected(c)
      <4>1. rows'[j].deletedAt \in 1..clock
        BY <2>2, <3>2, DeletesRows DEF Exists
      <4>. QED  BY <3>1, <4>1
    <3>3. CASE j \notin Affected(c)
      <4>1. rows'[j] = rows[j] /\ Exists(j)
        BY <1>5, <1>6, <2>2, <3>3
      <4>. QED  BY <3>1, <4>1 DEF TypeOK
    <3>. QED  BY <3>2, <3>3
  <2>3. writes' \in Nat
    BY <1>3 DEF TypeOK
  <2>4. rows' \in [Id -> Row \cup {NoRow}]
    BY DeletesRows
  <2>. QED  BY <1>1, <2>1, <2>2, <2>3, <2>4 DEF TypeOK
<1>8. RowsInv'
  <2>1. ASSUME NEW j \in Doc PROVE rows'[j].ref = "none"
    <3>1. rows[j].ref = "none" /\ j \in Id
      BY DEF RowsInv, Id
    <3>2. rows'[j].ref = rows[j].ref \/ rows'[j] = NoRow
      BY <3>1, DeletesRows
    <3>. QED  BY <3>1, <3>2 DEF NoRow
  <2>2. ASSUME NEW j \in acked' PROVE ~Live(j)' /\ (TypeOf(j) \in Soft \/ ~Exists(j)')
    <3>1. CASE j \in Affected(c)
      BY <1>5, <3>1
    <3>2. CASE j \notin Affected(c)
      <4>1. j \in acked /\ j \in Id
        BY <1>3, <2>2, <3>2 DEF TypeOK
      <4>. QED  BY <1>6, <4>1 DEF RowsInv
    <3>. QED  BY <3>1, <3>2
  <2>. QED  BY <2>1, <2>2 DEF RowsInv
<1>9. CreateInv'
  <2>1. ASSUME NEW d \in Client, Creating(d)', NEW j \in req'[d].ids
        PROVE  ~Exists(j)' /\ j \notin acked'
    <3>1. req'[d] = req[d] /\ Creating(d)
      BY <1>1, <1>2, <1>3, <2>1 DEF Creating, At
    <3>2. ~Exists(j) /\ j \notin acked /\ j \in Id
      BY <2>1, <3>1 DEF CreateInv, TypeOK, Request
    <3>. QED  BY <1>3, <1>5, <1>6, <3>2
  <2>2. \A d \in Client : req'[d].op = "create" => req'[d].ids \subseteq born'
    BY <1>1, <1>2, <1>4 DEF CreateInv
  <2>3. \A d, e \in Client : d # e /\ Creating(d)' /\ req'[e].op = "create"
          => req'[d].ids \cap req'[e].ids = {}
    BY <1>1, <1>2, <1>3, <1>4 DEF CreateInv, Creating, At
  <2>. QED  BY <2>1, <2>2, <2>3 DEF CreateInv
<1>10. ShapeInv'
  <2>1. Shaped(r)'
    BY <1>3, <1>4 DEF Shaped, SameCall
  <2>. QED  BY <1>1, <2>1, ShapedStep DEF TypeOK
<1>11. AnswerInv'
  <2>1. r.op = "delete" /\ r.kind = "ok" => r.ids \subseteq acked'
    <3>1. r.op = "delete" => \E j \in Id : req[c].ids = {j}
      BY <1>3, <1>4 DEF Shaped, SameCall
    <3>. QED  BY <1>3, <1>5, <3>1 DEF SameCall
  <2>2. acked \subseteq acked'
    BY <1>3
  <2>3. r.known \subseteq acked' /\ r.found = {}
    BY <1>3, <1>4, <2>2 DEF AnswerInv, SameCall
  <2>. QED  BY <1>1, <1>2, <1>3, <2>1, <2>2, <2>3 DEF AnswerInv, At
<1>12. ReadsHideDeleted'
  <2>1. r.found = {}
    BY <1>3, <1>4 DEF AnswerInv, SameCall
  <2>. QED  BY <1>1, <1>2, <2>1 DEF ReadsHideDeleted, PlainDone
<1>13. OneDeleteWins'
  \* Somebody whose delete of the same row was acknowledged left nothing that
  \* this statement affects.
  <2>1. ASSUME NEW d \in Client, d # c, r.op = "delete", r.kind = "ok", ~r.ctx.hard,
               req[d].op = "delete", req[d].kind = "ok", req[d].ids = r.ids
        PROVE  FALSE
    <3>1. PICK j \in Affected(c) : j \in acked /\ j \in Id /\ ~Live(j)
                                   /\ (TypeOf(j) \in Soft \/ ~Exists(j))
      BY <1>3, <1>5, <2>1 DEF AnswerInv, RowsInv, SameCall
    <3>2. ~req[c].ctx.hard
      BY <1>3, <2>1 DEF SameCall
    <3>3. TypeOf(j) = req[c].type
      <4>1. req[c].type \in Type /\ j \in IdsOf(req[c].type)
        BY <1>4, <1>5 DEF Shaped, TypeOK, Request
      <4>. QED  BY <4>1, TypeOfFacts
    <3>4. req[c].mutation.op = "delete" => req[c].type \notin Soft
      BY <1>4, <3>2 DEF Shaped
    <3>5. req[c].mutation.op = "delete"
      BY <3>1, DeletesRows DEF Deletes
    <3>. QED  BY <1>5, <3>1, <3>3, <3>4, <3>5
  <2>. QED  BY <1>1, <1>2, <2>1 DEF OneDeleteWins
<1>14. LostCreateWasDeleted'
  <2>1. ASSUME NEW d \in Client, req'[d].op = "create", req'[d].kind = "notfound",
               NEW j \in req'[d].ids
        PROVE  ~Live(j)'
    <3>1. req'[d] = req[d]
      BY <1>1, <1>2, <1>4, <2>1
    <3>2. ~Live(j)
      BY <2>1, <3>1 DEF LostCreateWasDeleted
    <3>3. j \in Id
      BY <2>1, <3>1 DEF TypeOK, Request
    <3>. QED  BY <1>6, <3>2, <3>3
  <2>. QED  BY <2>1 DEF LostCreateWasDeleted
<1>. QED  BY <1>7, <1>8, <1>9, <1>10, <1>11, <1>12, <1>13, <1>14

\* The steps, by what they change.
Moves(c, r) ==
    \/ /\ req[c].stage = "done" /\ requests < MaxRequests /\ requests' = requests + 1
       /\ UNCHANGED <<rows, clock, acked, writes>> /\ Started(r)
    \/ /\ UNCHANGED <<rows, born, clock, acked, writes, requests>>
       /\ ReadBy(c, r) \/ Refused(c, r)
    \/ /\ UNCHANGED <<born, clock, acked, requests>>
       /\ \E i \in req[c].ids : Wrote(c, i, r)
    \/ /\ Hook(c) /\ UNCHANGED <<rows, born, acked, writes, requests>>
       /\ SameCall(r, req[c]) /\ r.kind = req[c].kind /\ r.found = req[c].found
       /\ r.nulls = req[c].nulls /\ r.stage \in {"hook", "exec"}
    \/ /\ At(c, "exec") /\ UNCHANGED <<born, clock, requests>> /\ Deletes(c, r)

\* Every step is one of the five kinds of Moves.
LEMMA Step ==
    ASSUME TypeOK, NEW c \in Client, Call(c) \/ Statement(c) \/ Fails(c)
    PROVE  \E r \in Request : req' = [req EXCEPT ![c] = r] /\ Moves(c, r)
<1>1. /\ req \in [Client -> Request] /\ rows \in [Id -> Row \cup {NoRow}]
      /\ acked \in SUBSET Id /\ clock \in Nat /\ writes \in Nat
  BY DEF TypeOK
<1>2. CASE Call(c)
  BY <1>1, <1>2, CallStep DEF Moves
<1>3. CASE Reading(c)
  BY <1>1, <1>3, ReadingStep DEF Moves
<1>4. CASE Saving(c)
  BY <1>1, <1>4, SavingStep DEF Moves
<1>5. CASE Hook(c)
  BY <1>1, <1>5, HookStep DEF Moves
<1>6. CASE Executing(c)
  BY <1>1, <1>6, ExecutingStep DEF Moves
<1>7. CASE Fails(c)
  BY <1>1, <1>7, FailsStep DEF Moves
<1>. QED  BY <1>2, <1>3, <1>4, <1>5, <1>6, <1>7 DEF Statement, Reading, Saving, Executing

\* The invariant is inductive.
LEMMA IInvNext == IInv /\ [Next]_vars => IInv'
<1> SUFFICES ASSUME IInv, [Next]_vars PROVE IInv'
  OBVIOUS
<1>1. ASSUME NEW c \in Client, Call(c) \/ Statement(c) \/ Fails(c) PROVE IInv'
  <2>1. PICK r \in Request : req' = [req EXCEPT ![c] = r] /\ Moves(c, r)
    BY <1>1, Step DEF IInv
  <2>. QED  BY <2>1, StartedKeeps, ReadKeeps, RefusedKeeps, WroteKeeps, HookKeeps, DeletesKeeps
            DEF Moves
<1>2. CASE UNCHANGED vars
  <2>1. TypeOK' /\ RowsInv'
    BY <1>2 DEF vars, IInv, TypeOK, Exists, RowsInv, Live
  <2>2. CreateInv' /\ ShapeInv' /\ AnswerInv'
    BY <1>2 DEF vars, IInv, CreateInv, Creating, At, Exists, ShapeInv, Shaped, AnswerInv
  <2>3. ReadsHideDeleted' /\ OneDeleteWins' /\ LostCreateWasDeleted'
    BY <1>2 DEF vars, IInv, ReadsHideDeleted, PlainDone, OneDeleteWins, LostCreateWasDeleted,
       Live, Exists
  <2>. QED  BY <2>1, <2>2, <2>3 DEF IInv
<1>. QED  BY <1>1, <1>2 DEF Next

\* The invariant holds of every reachable state.
LEMMA Inductive == Spec => []IInv
  BY IInvInit, IInvNext, PTL DEF Spec

\* Who is about to insert a row: the caller that just began a create, with an
\* id not handed out before, and the others that were.
LEMMA CreatingStep ==
    ASSUME IInv, NEW c \in Client, NEW r \in Request, req' = [req EXCEPT ![c] = r], Moves(c, r)
    PROVE  /\ req'[c] = r /\ \A d \in Client \ {c} : req'[d] = req[d]
           /\ \A d \in Client \ {c} : Creating(d)' <=> Creating(d)
           /\ Creating(c)' => /\ At(c, "done") /\ Started(r)
                              /\ r.op = "create" /\ r.ids \cap born = {}
           /\ born \subseteq born'
<1>1. req'[c] = r /\ \A d \in Client \ {c} : req'[d] = req[d]
  BY OneRequest DEF IInv, TypeOK
<1>2. Creating(c)' => r.stage = "save" /\ r.op = "create"
  BY <1>1 DEF Creating, At
<1>3. CASE req[c].stage = "done" /\ Started(r)
  BY <1>1, <1>2, <1>3 DEF Creating, At, Started
<1>4. CASE born' = born /\ r.stage # "save"
  BY <1>1, <1>2, <1>4 DEF Creating, At
<1>5. ReadBy(c, r) \/ Refused(c, r) => r.stage # "save"
  <2>1. Refused(c, r) => r.stage = "done"
    <3>1. [req[c] EXCEPT !.stage = "done", !.kind = r.kind].stage = "done"
      BY DEF IInv, TypeOK, Request
    <3>. QED  BY <3>1 DEF Refused
  <2>. QED  BY <2>1 DEF ReadBy
<1>. QED  BY <1>3, <1>4, <1>5 DEF Moves, Wrote, Deletes

\* A settled row stays settled: its id is handed out to nobody else.
LEMMA SettledStep ==
    ASSUME IInv, NEW c \in Client, NEW r \in Request, req' = [req EXCEPT ![c] = r], Moves(c, r),
           NEW d, Settled(d)
    PROVE  Settled(d)'
<1>1. d \in born' /\ d \in Doc
  BY CreatingStep DEF Settled
<1>2. ASSUME NEW e \in Client, Creating(e)' PROVE d \notin req'[e].ids
  <2>1. CASE e = c
    BY <1>2, <2>1, CreatingStep DEF Settled
  <2>2. CASE e # c
    BY <1>2, <2>2, CreatingStep DEF Settled, Expected, Creating
  <2>. QED  BY <2>1, <2>2
<1>. QED  BY <1>1, <1>2 DEF Settled, Expected, Creating

\* A row that is there is settled, and a settled row that is not live stays so;
\* one that is gone stays gone.
LEMMA SettledRows ==
    ASSUME IInv, NEW d \in Doc
    PROVE  /\ Exists(d) => Settled(d)
           /\ \A c \in Client, r \in Request :
                req' = [req EXCEPT ![c] = r] /\ Moves(c, r) /\ Settled(d) =>
                  /\ Live(d)' => Live(d)
                  /\ Exists(d)' => Exists(d)
<1>1. d \in Id
  BY DEF Id
<1>2. Exists(d) => Settled(d)
  BY <1>1, Born DEF Settled, Expected, IInv, CreateInv, Creating
<1>3. ASSUME NEW c \in Client, NEW r \in Request, Moves(c, r), Settled(d)
      PROVE  (Live(d)' => Live(d)) /\ (Exists(d)' => Exists(d))
  <2>1. CASE UNCHANGED rows
    BY <2>1 DEF Live, Exists
  <2>2. ASSUME NEW i \in req[c].ids, Wrote(c, i, r)
        PROVE  (Live(d)' => Live(d)) /\ (Exists(d)' => Exists(d))
    <3>1. CASE d # i
      <4>1. rows'[d] = rows[d]
        BY <1>1, <2>2, <3>1, WroteRows
      <4>. QED  BY <4>1 DEF Live, Exists
    <3>2. CASE d = i
      <4>1. ~Creating(c)
        BY <1>3, <3>2 DEF Settled, Expected, Creating
      <4>2. Exists(d) /\ rows'[d].deletedAt = rows[d].deletedAt
        BY <2>2, <3>2, <4>1, WroteRows
      <4>. QED  BY <4>2 DEF Live
    <3>. QED  BY <3>1, <3>2
  <2>3. ASSUME At(c, "exec"), Deletes(c, r)
        PROVE  (Live(d)' => Live(d)) /\ (Exists(d)' => Exists(d))
    <3>1. CASE d \in Affected(c)
      BY <2>3, <3>1, DeletesRows
    <3>2. CASE d \notin Affected(c)
      <4>1. rows'[d] = rows[d]
        BY <1>1, <2>3, <3>2, DeletesRows
      <4>. QED  BY <4>1 DEF Live, Exists
    <3>. QED  BY <3>1, <3>2
  <2>. QED  BY <1>3, <2>1, <2>2, <2>3 DEF Moves
<1>. QED  BY <1>2, <1>3

\* The references of a seed are settled, and nothing has been answered.
LEMMA RefInit == Init => RefInv /\ NullEdgeMeansDeleted
<1> SUFFICES ASSUME Init PROVE RefInv /\ NullEdgeMeansDeleted
  OBVIOUS
<1>1. \A c \in Client : /\ req[c].found = {} /\ req[c].nulls = {}
                        /\ req[c].stage = "done" /\ req[c].op = "none"
  BY DEF Init, NoRequest, NewRequest
<1>2. ASSUME NEW i \in Draft, Exists(i) PROVE Settled(rows[i].ref)
  <2>1. rows \in Seed /\ born = {j \in Id : Exists(j)}
    BY DEF Init
  <2>2. rows[i].ref \in Doc /\ Exists(rows[i].ref)
    BY <1>2, <2>1, SeedAssumption DEF Exists
  <2>. QED  BY <1>1, <2>1, <2>2 DEF Settled, Expected, At, Id
<1>3. RefInv
  BY <1>1, <1>2 DEF RefInv, Creating, At
<1>4. NullEdgeMeansDeleted
  BY <1>1 DEF NullEdgeMeansDeleted
<1>. QED  BY <1>3, <1>4

\* The reference of a draft stays settled.
LEMMA RefRows ==
    ASSUME IInv, RefInv, NEW c \in Client,
           NEW r \in Request, req' = [req EXCEPT ![c] = r], Moves(c, r),
           NEW i \in Draft, Exists(i)'
    PROVE  Settled(rows[i].ref)'
<1>. SUFFICES Settled(rows'[i].ref)
  <2>1. \A d : Settled(d) => Settled(d)'
    BY SettledStep
  <2>. QED  BY <2>1 DEF Settled, Expected, At
<1>2. i \in Id
  BY DEF Id
<1>3. CASE rows'[i] = rows[i]
  BY <1>3 DEF RefInv, Exists
<1>4. ASSUME NEW j \in req[c].ids, Wrote(c, j, r) PROVE Settled(rows'[i].ref)
  <2>1. CASE i # j
    BY <1>2, <1>3, <1>4, <2>1, WroteRows
  <2>2. CASE i = j /\ r.op = "create"
    <3>1. /\ Creating(c) /\ rows'[i].ref = r.ref /\ ~RefDangles(r.ref) /\ r.ref = req[c].ref
          /\ i \in IdsOf(req[c].type)
      BY <1>4, <2>2, WroteRows DEF Wrote, SameCall
    <3>2. r.ref \in Doc /\ r.ref # "none"
      BY <3>1, ConstantsAssumption DEF RefInv, IdsOf
    <3>3. Exists(r.ref)
      BY <3>1, <3>2 DEF RefDangles
    <3>. QED  BY <3>1, <3>2, <3>3, SettledRows
  <2>3. CASE i = j /\ r.op # "create"
    <3>1. Exists(i) /\ rows'[i].ref = rows[i].ref
      BY <1>4, <2>3, WroteRows
    <3>. QED  BY <3>1 DEF RefInv
  <2>. QED  BY <2>1, <2>2, <2>3
<1>5. ASSUME At(c, "exec"), Deletes(c, r) PROVE Settled(rows'[i].ref)
  <2>1. CASE i \notin Affected(c)
    BY <1>2, <1>3, <1>5, <2>1, DeletesRows
  <2>2. CASE i \in Affected(c)
    <3>1. Exists(i) /\ (rows'[i] = NoRow \/ rows'[i].ref = rows[i].ref)
      BY <1>5, <2>2, DeletesRows
    <3>. QED  BY <3>1 DEF RefInv, Exists
  <2>. QED  BY <2>1, <2>2
<1>. QED  BY <1>3, <1>4, <1>5 DEF Moves

\* What a step leaves of its own request: only the eager load marks edges null.
LEMMA RefRequest ==
    ASSUME IInv, RefInv, NEW c \in Client,
           NEW r \in Request, req' = [req EXCEPT ![c] = r], Moves(c, r)
    PROVE  /\ \A p \in r.found : /\ p[1] \in r.ids
                                 /\ p[1] \in Draft => Settled(p[2])
                                 /\ \A q \in r.found : p[1] = q[1] => p[2] = q[2]
           /\ r.stage = "edges" => r.type = "draft"
           /\ \/ r.nulls = {}
              \/ /\ r.nulls \subseteq Draft /\ r.stage = "done" /\ UNCHANGED rows
                 /\ \A p \in r.found : p[1] \in r.nulls => ~Visible(p[2], r.ctx)
<1>. DEFINE Goal == /\ \A p \in r.found : /\ p[1] \in r.ids
                                          /\ p[1] \in Draft => Settled(p[2])
                                          /\ \A q \in r.found : p[1] = q[1] => p[2] = q[2]
                    /\ r.stage = "edges" => r.type = "draft"
                    /\ \/ r.nulls = {}
                       \/ /\ r.nulls \subseteq Draft /\ r.stage = "done" /\ UNCHANGED rows
                          /\ \A p \in r.found : p[1] \in r.nulls => ~Visible(p[2], r.ctx)
<1>1. Shaped(req[c]) /\ req[c] \in Request
  BY DEF IInv, ShapeInv, TypeOK
<1>2. \A p \in req[c].found : /\ p[1] \in req[c].ids
                              /\ p[1] \in Draft => Settled(p[2])
                              /\ \A q \in req[c].found : p[1] = q[1] => p[2] = q[2]
  BY DEF RefInv
<1>3. ~At(c, "done") => req[c].nulls = {}
  BY DEF RefInv
<1>4. CASE Started(r)
  <2>1. r.op \in Op
    BY DEF Request
  <2>2. r.stage # "edges"
    BY <1>4, <2>1 DEF Started, Op
  <2>. QED  BY <1>4, <2>2 DEF Started
<1>5. CASE ReadBy(c, r) /\ UNCHANGED rows
  <2>1. SameCall(r, req[c]) /\ ~At(c, "done") /\ r.found \in {req[c].found, Matches(c)}
    BY <1>5 DEF ReadBy
  <2>2. \A p \in Matches(c) : /\ p[1] \in req[c].ids
                              /\ p[1] \in Draft => Settled(p[2])
                              /\ \A q \in Matches(c) : p[1] = q[1] => p[2] = q[2]
    BY MatchesLive DEF RefInv
  <2>3. r.stage = "edges" => r.type = "draft"
    BY <1>5 DEF ReadBy, HasEdges
  <2>4. CASE r.nulls = req[c].nulls
    BY <1>2, <1>3, <2>1, <2>2, <2>3, <2>4 DEF SameCall
  <2>5. CASE /\ At(c, "edges") /\ r.stage = "done" /\ r.found = req[c].found
             /\ r.nulls = {p[1] : p \in {q \in req[c].found : ~Loaded(q[2], req[c].ctx)}}
    <3>1. req[c].ids \subseteq Draft
      BY <1>1, <2>5 DEF RefInv, Shaped, IdsOf
    <3>2. r.nulls \subseteq Draft
      BY <1>2, <2>5, <3>1
    <3>3. ASSUME NEW p \in r.found, p[1] \in r.nulls PROVE ~Visible(p[2], r.ctx)
      <4>1. PICK q \in req[c].found : q[1] = p[1] /\ ~Loaded(q[2], req[c].ctx)
        BY <2>5, <3>3
      <4>. QED  BY <1>2, <2>1, <2>5, <3>3, <4>1 DEF Loaded, SameCall
    <3>. QED  BY <1>2, <1>5, <2>1, <2>3, <2>5, <3>2, <3>3 DEF SameCall
  <2>. QED  BY <1>5, <2>4, <2>5 DEF ReadBy
<1>6. ASSUME r.found = req[c].found, r.nulls = req[c].nulls, r.stage # "edges",
             r.ids = req[c].ids, ~At(c, "done")
      PROVE  Goal
  BY <1>2, <1>3, <1>6
<1>7. CASE Refused(c, r)
  <2> DEFINE q == [req[c] EXCEPT !.stage = "done", !.kind = r.kind]
  <2>1. r = q /\ ~At(c, "done")
    BY <1>7 DEF Refused
  <2>2. q.stage = "done" /\ q.ids = req[c].ids /\ q.found = req[c].found /\ q.nulls = req[c].nulls
    BY <1>1 DEF Request
  <2>. QED  BY <1>6, <2>1, <2>2
<1>8. ASSUME NEW i \in req[c].ids, Wrote(c, i, r) PROVE Goal
  <2>1. /\ SameCall(r, req[c]) /\ r.nulls = {} /\ r.stage \in {"query", "done"}
        /\ r.found = {} \/ (r.found = req[c].ids \X {"none"} /\ r.type = "doc")
    <3>1. ~At(c, "done") /\ r.type \in Type
      BY <1>8 DEF Wrote, At, Request
    <3>. QED  BY <1>3, <1>8, <3>1 DEF Wrote, HasEdges, Type
  <2>2. r.type = "doc" => req[c].ids \cap Draft = {}
    BY <1>1, <2>1, ConstantsAssumption DEF Shaped, SameCall, IdsOf
  <2>. QED  BY <2>1, <2>2 DEF SameCall
<1>9. CASE Hook(c) /\ SameCall(r, req[c]) /\ r.found = req[c].found /\ r.nulls = req[c].nulls
           /\ r.stage \in {"hook", "exec"}
  BY <1>6, <1>9 DEF Hook, At, SameCall
<1>10. CASE At(c, "exec") /\ Deletes(c, r)
  BY <1>6, <1>10 DEF Deletes, At, SameCall
<1>. QED  BY <1>4, <1>5, <1>7, <1>8, <1>9, <1>10 DEF Moves

\* The references, and the meaning of a null edge, survive every step.
LEMMA RefStep ==
    ASSUME IInv, RefInv, NullEdgeMeansDeleted, NEW c \in Client,
           NEW r \in Request, req' = [req EXCEPT ![c] = r], Moves(c, r)
    PROVE  RefInv' /\ NullEdgeMeansDeleted'
<1>1. /\ req'[c] = r /\ \A d \in Client \ {c} : req'[d] = req[d]
      /\ \A d \in Client \ {c} : Creating(d)' <=> Creating(d)
      /\ Creating(c)' => Started(r) /\ r.op = "create"
  BY CreatingStep
<1>2. \A d : Settled(d) => Settled(d)'
  BY SettledStep
<1>3. \A d \in Client : d = c \/ req'[d] = req[d]
  BY <1>1
<1>4. \A i \in Draft : Exists(i)' => Settled(rows[i].ref)'
  <2> SUFFICES ASSUME NEW i \in Draft, Exists(i)' PROVE Settled(rows[i].ref)'
    OBVIOUS
  <2>. QED  BY RefRows
<1>5. /\ \A p \in r.found : /\ p[1] \in r.ids
                            /\ p[1] \in Draft => Settled(p[2])
                            /\ \A q \in r.found : p[1] = q[1] => p[2] = q[2]
      /\ r.stage = "edges" => r.type = "draft"
      /\ \/ r.nulls = {}
         \/ /\ r.nulls \subseteq Draft /\ r.stage = "done" /\ UNCHANGED rows
            /\ \A p \in r.found : p[1] \in r.nulls => ~Visible(p[2], r.ctx)
  BY RefRequest
<1>6. ASSUME NEW d \in Client
      PROVE  /\ Creating(d)' /\ req'[d].type # "doc" => req'[d].ref \in Doc
             /\ \A p \in req'[d].found :
                  /\ p[1] \in req'[d].ids
                  /\ p[1] \in Draft => Settled(p[2])'
                  /\ \A q \in req'[d].found : p[1] = q[1] => p[2] = q[2]
             /\ At(d, "edges")' => req'[d].type = "draft"
             /\ ~At(d, "done")' => req'[d].nulls = {}
             /\ req'[d].nulls \subseteq Draft
  <2>1. CASE d = c
    BY <1>1, <1>2, <1>5, <2>1 DEF Started, At
  <2>2. CASE d # c
    BY <1>1, <1>2, <1>3, <2>2 DEF RefInv, At
  <2>. QED  BY <2>1, <2>2
<1>8. RefInv'
  BY <1>4, <1>6 DEF RefInv
<1>9. ASSUME NEW d \in Client, NEW p \in req'[d].found, p[1] \in req'[d].nulls
      PROVE  ~Live(p[2])' /\ (req'[d].ctx.included => ~Exists(p[2])')
  <2>1. CASE d # c
    <3>1. p \in req[d].found /\ p[1] \in req[d].nulls /\ req'[d] = req[d]
      BY <1>3, <1>9, <2>1
    <3>2. Settled(p[2]) /\ p[2] \in Doc
      BY <3>1 DEF RefInv, Settled
    <3>3. ~Live(p[2]) /\ (req[d].ctx.included => ~Exists(p[2]))
      BY <3>1 DEF NullEdgeMeansDeleted
    <3>. QED  BY <3>1, <3>2, <3>3, SettledRows
  <2>2. CASE d = c
    <3>1. UNCHANGED rows /\ ~Visible(p[2], r.ctx)
      BY <1>1, <1>5, <1>9, <2>2
    <3>2. ~Live(p[2]) /\ (r.ctx.included => ~Exists(p[2]))
      BY <3>1 DEF Visible, Live, SoftDeletedIncluded
    <3>. QED  BY <1>1, <2>2, <3>1, <3>2 DEF Live, Exists
  <2>. QED  BY <2>1, <2>2
<1>10. NullEdgeMeansDeleted'
  BY <1>9 DEF NullEdgeMeansDeleted
<1>. QED  BY <1>8, <1>10

\* A query returns as many rows as pairs of a row and its reference.
LEMMA MatchesCounted ==
    ASSUME TypeOK, NEW c \in Client
    PROVE  Cardinality({p[1] : p \in Matches(c)}) = Cardinality(Matches(c))
<1>. DEFINE M == Matches(c)
            R == {p[1] : p \in M}
            f == [p \in M |-> p[1]]
<1>1. IsFiniteSet(M)
  <2>1. IsFiniteSet(Doc \cup {"none"})
    BY FS_Subset, FS_AddElement, ConstantsAssumption DEF Id
  <2>2. IsFiniteSet(Id \X (Doc \cup {"none"}))
    BY <2>1, FS_Product, ConstantsAssumption
  <2>3. M \subseteq Id \X (Doc \cup {"none"})
    BY MatchesTyped DEF TypeOK
  <2>. QED  BY <2>2, <2>3, FS_Subset
<1>2. \A p, q \in M : p[1] = q[1] => p = q
  BY DEF Matches
<1>. HIDE DEF M
<1>3. f \in [M -> R]
  OBVIOUS
<1>4. \A p, q \in M : f[p] = f[q] => p = q
  BY <1>2
<1>5. \A i \in R : \E p \in M : f[p] = i
  OBVIOUS
<1>6. f \in Bijection(M, R)
  BY <1>3, <1>4, <1>5, Fun_IsBij
<1>. QED  BY <1>1, <1>6, FS_Bijection DEF ExistsBijection, M

\* The rows of the database change only under a counted write.
LEMMA WritesCounted ==
    ASSUME TypeOK, NEW c \in Client, Call(c) \/ Statement(c) \/ Fails(c)
    PROVE  (writes' = writes /\ UNCHANGED rows) \/ writes' = writes + 1
<1>1. CASE Call(c) \/ Reading(c) \/ Hook(c) \/ Fails(c)
  BY <1>1 DEF Call, Get, List, Create, Patch, Delete, DeleteBatch, Reading, Query, Edges, Count,
     Page, Hook, Fails, database
<1>2. CASE Saving(c)
  BY <1>2 DEF Saving, Insert, Update
<1>3. CASE Executing(c)
  <2>1. CASE UNCHANGED <<rows, writes>>
    BY <2>1
  <2>2. CASE writes' = IF Affected(c) = {} THEN writes ELSE writes + 1
    <3>1. Affected(c) = {} => rows' = rows
      <4> SUFFICES ASSUME Affected(c) = {} PROVE rows' = rows
        OBVIOUS
      <4>1. rows \in [Id -> Row \cup {NoRow}]
        BY DEF TypeOK
      <4>2. rows' = [i \in Id |-> rows[i]] \/ rows' = rows
        BY <1>3 DEF Executing, ExecSoft, ExecHard
      <4>. QED  BY <4>1, <4>2
    <3>. QED  BY <2>2, <3>1
  <2>. QED  BY <1>3, <2>1, <2>2 DEF Executing, ExecSoft, ExecHard, Acknowledge
<1>. QED  BY <1>1, <1>2, <1>3 DEF Statement, Reading, Saving, Executing

\* A list's own step: its count remembers the writes so far, its page returns
\* what the count counted unless a write came in between.
LEMMA ListStep ==
    ASSUME IInv, CountInv, NEW c \in Client, Call(c) \/ Statement(c) \/ Fails(c)
    PROVE  Told(c)'
<1> SUFFICES ASSUME req'[c].op = "list"
             PROVE  /\ req'[c].stage # "query" /\ req'[c].since <= writes'
                    /\ writes' = req'[c].since =>
                         /\ req'[c].stage = "page" => req'[c].total = Cardinality(Matches(c)')
                         /\ req'[c].stage = "edges" \/ req'[c].kind = "ok" =>
                              req'[c].total = Cardinality({p[1] : p \in req'[c].found})
  BY DEF Told, At, Rows
<1>1. /\ req \in [Client -> Request] /\ req[c] \in Request /\ writes \in Nat
      /\ acked \in SUBSET Id
  BY DEF IInv, TypeOK
<1>2. CASE Call(c)
  <2>1. PICK r \in Request : req' = [req EXCEPT ![c] = r] /\ Started(r)
    BY <1>1, <1>2, CallStep
  <2>2. req'[c] = r /\ writes' = writes
    BY <1>1, <1>2, <2>1, CallStep
  <2>. QED  BY <1>1, <2>1, <2>2 DEF Started
<1>3. ASSUME Statement(c) \/ Fails(c) PROVE req[c].op = "list"
  <2>1. PICK r \in Request : req' = [req EXCEPT ![c] = r] /\ Moves(c, r)
    BY Step DEF IInv
  <2>2. ~At(c, "done")
    BY <1>3 DEF Statement, Insert, Update, Query, Edges, Count, Page, Hook, ExecSoft, ExecHard,
       Fails, At
  <2>3. r.op = req[c].op
    <3>1. Refused(c, r) => r.op = req[c].op
      <4>1. [req[c] EXCEPT !.stage = "done", !.kind = r.kind].op = req[c].op
        BY <1>1 DEF Request
      <4>. QED  BY <4>1 DEF Refused
    <3>. QED  BY <2>1, <2>2, <3>1 DEF Moves, ReadBy, Wrote, Deletes, SameCall, At
  <2>. QED  BY <1>1, <2>1, <2>3
<1>4. /\ req[c].op = "list" => /\ req[c].stage \in {"count", "page", "edges", "done"}
                               /\ req[c].stage # "done" => req[c].kind = "none"
                               /\ req[c].since <= writes
      /\ req[c].since \in Nat
  <2>1. Shaped(req[c]) /\ req[c].stage \in Stage
    BY <1>1 DEF IInv, ShapeInv, Request
  <2>. QED  BY <1>1, <2>1 DEF Shaped, Stage, CountInv, Told, Request
<1>5. CASE Count(c)
  <2>1. /\ req'[c].since = writes /\ req'[c].stage = "page" /\ req'[c].kind = req[c].kind
        /\ req'[c].total = Cardinality(Matches(c)) /\ writes' = writes /\ rows' = rows
        /\ req'[c].ids = req[c].ids /\ req'[c].ctx = req[c].ctx
    BY <1>1, <1>5 DEF Count, Request, database
  <2>2. Matches(c)' = Matches(c)
    BY <2>1 DEF Matches, Visible, Exists, Live
  <2>. QED  BY <1>1, <1>3, <1>4, <1>5, <2>1, <2>2 DEF Statement, Count, At
<1>6. CASE Page(c)
  <2>1. /\ req'[c].since = req[c].since /\ req'[c].found = Matches(c) /\ writes' = writes
        /\ req'[c].stage \in {"edges", "done"} /\ req'[c].total = req[c].total
    BY <1>1, <1>6 DEF Page, Request, database
  <2>2. writes = req[c].since => req[c].total = Cardinality(Matches(c))
    BY <1>3, <1>6 DEF CountInv, Told, Page, Statement
  <2>. QED  BY <1>3, <1>4, <1>6, <2>1, <2>2, MatchesCounted DEF Statement, IInv
<1>7. CASE Edges(c)
  <2>1. /\ req'[c].since = req[c].since /\ req'[c].found = req[c].found /\ writes' = writes
        /\ req'[c].stage = "done" /\ req'[c].total = req[c].total
    BY <1>1, <1>7 DEF Edges, Request, database
  <2>2. writes = req[c].since => req[c].total = Cardinality(Rows(c))
    BY <1>3, <1>7 DEF CountInv, Told, Edges, Statement
  <2>. QED  BY <1>3, <1>4, <1>7, <2>1, <2>2 DEF Statement, Rows
<1>8. CASE Fails(c)
  <2>1. /\ req'[c].since = req[c].since /\ req'[c].stage = "done" /\ req'[c].kind = "internal"
        /\ writes' = writes
    BY <1>1, <1>8 DEF Fails, Finish, Request, database
  <2>. QED  BY <1>3, <1>4, <1>8, <2>1
<1>9. CASE Insert(c) \/ Update(c) \/ Query(c) \/ Hook(c) \/ ExecSoft(c) \/ ExecHard(c)
  BY <1>3, <1>4, <1>9 DEF Statement, Insert, Update, Query, Hook, ExecSoft, ExecHard, At
<1>. QED  BY <1>2, <1>5, <1>6, <1>7, <1>8, <1>9 DEF Statement

\* A step of another caller leaves a list as told, or is a write it sees.
LEMMA OthersList ==
    ASSUME IInv, CountInv, NEW c \in Client, Call(c) \/ Statement(c) \/ Fails(c),
           NEW d \in Client \ {c}
    PROVE  Told(d)'
<1>1. req'[d] = req[d] /\ req[d] \in Request
  BY Step, OneRequest DEF IInv, TypeOK
<1>2. (writes' = writes /\ UNCHANGED rows) \/ writes' = writes + 1
  BY WritesCounted DEF IInv
<1>3. writes \in Nat /\ req[d].since \in Nat
  BY <1>1 DEF IInv, TypeOK, Request
<1>4. Told(d)
  BY DEF CountInv
<1>5. CASE writes' = writes /\ UNCHANGED rows
  <2>1. Matches(d)' = Matches(d)
    BY <1>1, <1>5 DEF Matches, Visible, Exists, Live
  <2>. QED  BY <1>1, <1>4, <1>5, <2>1 DEF Told, At, Rows
<1>6. CASE writes' = writes + 1
  BY <1>1, <1>3, <1>4, <1>6 DEF Told, At
<1>. QED  BY <1>2, <1>5, <1>6

\* The ids of an insert to come, before and after a step of caller c.
LEMMA ExpectedStep ==
    ASSUME IInv, NEW c \in Client, NEW r \in Request, req' = [req EXCEPT ![c] = r], Moves(c, r),
           NEW j \in Id
    PROVE  /\ Expected(j)' <=> \/ \E d \in Client \ {c} : Creating(d) /\ j \in req[d].ids
                               \/ Creating(c)' /\ j \in r.ids
           /\ Creating(c) /\ j \in req[c].ids =>
                ~\E d \in Client \ {c} : Creating(d) /\ j \in req[d].ids
           /\ ~Creating(c) /\ ~Creating(c)' => (Expected(j)' <=> Expected(j))
<1>1. /\ req'[c] = r /\ \A d \in Client \ {c} : req'[d] = req[d]
      /\ \A d \in Client \ {c} : Creating(d)' <=> Creating(d)
  BY CreatingStep
<1>2. Expected(j) <=> \E d \in Client : Creating(d) /\ j \in req[d].ids
  BY DEF Expected, Creating
<1>3. Expected(j)' <=> \E d \in Client : Creating(d)' /\ j \in req'[d].ids
  BY DEF Expected, Creating
<1>4. Creating(c) /\ j \in req[c].ids =>
        ~\E d \in Client \ {c} : Creating(d) /\ j \in req[d].ids
  BY DEF IInv, CreateInv, Creating
<1>5. Expected(j)' <=> \/ \E d \in Client \ {c} : Creating(d) /\ j \in req[d].ids
                       \/ Creating(c)' /\ j \in r.ids
  BY <1>1, <1>3
<1>6. ~Creating(c) /\ ~Creating(c)' => (Expected(j)' <=> Expected(j))
  BY <1>2, <1>5
<1>. QED  BY <1>4, <1>5, <1>6

life == [i \in Id |-> LifeOf(i)]

\* A step is one of the life cycle, or moves no row along it.
LEMMA LifeStep ==
    ASSUME IInv, NEW c \in Client, NEW r \in Request, req' = [req EXCEPT ![c] = r], Moves(c, r)
    PROVE  Lifecycle!Next \/ life' = life
<1>1. /\ req'[c] = r
      /\ Creating(c)' => /\ At(c, "done") /\ Started(r)
                         /\ r.op = "create" /\ r.ids \cap born = {}
  BY CreatingStep
<1>2. Shaped(req[c]) /\ req[c] \in Request /\ req[c].ids \subseteq Id
  BY DEF IInv, ShapeInv, TypeOK, Request
<1>3. ASSUME NEW j \in Id, UNCHANGED rows
      PROVE  (Live(j)' <=> Live(j)) /\ (Deleted(j)' <=> Deleted(j))
  BY <1>3 DEF Live, Deleted, Exists
<1>4. ASSUME \A j \in Id : LifeOf(j)' = LifeOf(j) PROVE life' = life
  BY <1>4 DEF life
\* A create takes an id that was not handed out: unborn before and after.
<1>5. CASE req[c].stage = "done" /\ UNCHANGED rows /\ Started(r)
  <2>1. ~Creating(c)
    BY <1>5 DEF Creating, At
  <2>2. ASSUME NEW j \in Id PROVE LifeOf(j)' = LifeOf(j)
    <3>1. CASE r.op = "create" /\ j \in r.ids
      <4>1. j \notin born /\ ~Exists(j)
        BY <1>5, <3>1, Born DEF Started, IInv
      <4>2. Expected(j)'
        <5>1. Creating(c)'
          BY <1>1, <1>5, <3>1 DEF Creating, At, Started
        <5>. QED  BY <3>1, <5>1, ExpectedStep
      <4>. QED  BY <1>3, <1>5, <4>1, <4>2 DEF LifeOf, Live, Deleted
    <3>2. CASE ~(r.op = "create" /\ j \in r.ids)
      <4>1. Expected(j)' <=> Expected(j)
        <5>1. ~(Creating(c)' /\ j \in r.ids)
          BY <1>1, <3>2
        <5>2. ~(Creating(c) /\ j \in req[c].ids)
          BY <2>1
        <5>3. Expected(j) <=> \E d \in Client \ {c} : Creating(d) /\ j \in req[d].ids
          BY <5>2 DEF Expected, Creating
        <5>. QED  BY <5>1, <5>3, ExpectedStep
      <4>2. j \in born' <=> j \in born
        BY <1>5, <3>2 DEF Started
      <4>. QED  BY <1>3, <1>5, <4>1, <4>2 DEF LifeOf
    <3>. QED  BY <3>1, <3>2
  <2>. QED  BY <1>4, <2>2
\* Steps that touch no row and no create.
<1>6. CASE UNCHANGED <<rows, born>> /\ ~Creating(c) /\ ~Creating(c)'
  BY <1>3, <1>4, <1>6, ExpectedStep DEF LifeOf
\* A refused insert abandons its id.
<1>7. CASE UNCHANGED <<rows, born>> /\ Creating(c) /\ ~Creating(c)'
  <2>1. PICK i \in Id : req[c].ids = {i}
    BY <1>2, <1>7 DEF Shaped, Creating
  <2>2. ~Exists(i) /\ i \in born
    BY <1>7, <2>1 DEF IInv, CreateInv, Creating
  <2>3. Expected(i) /\ ~Expected(i)'
    BY <1>7, <2>1, ExpectedStep, ZenonT(60) DEF Expected, Creating
  <2>4. LifeOf(i) = "unborn" /\ LifeOf(i)' = "gone"
    BY <1>3, <1>7, <2>2, <2>3 DEF LifeOf, Live, Deleted
  <2>5. ASSUME NEW j \in Id, j # i PROVE LifeOf(j)' = LifeOf(j)
    <3>1. Expected(j) <=> \E d \in Client \ {c} : Creating(d) /\ j \in req[d].ids
      BY <2>1, <2>5 DEF Expected, Creating
    <3>2. Expected(j)' <=> Expected(j)
      BY <1>7, <3>1, ExpectedStep
    <3>. QED  BY <1>3, <1>7, <3>2 DEF LifeOf
  <2>6. Lifecycle!Abandon(i)
    BY <2>4, <2>5 DEF Lifecycle!Abandon, Lifecycle!Advance
  <2>. QED  BY <2>6 DEF Lifecycle!Next
<1>8. ASSUME born' = born, NEW i \in req[c].ids, Wrote(c, i, r)
      PROVE  Lifecycle!Next \/ life' = life
  <2>1. ~Creating(c)' /\ r.ids = req[c].ids /\ r.op = req[c].op
    BY <1>1, <1>8 DEF Wrote, SameCall, Creating, At
  <2>2. /\ i \in Id /\ req[c].ids = {i} /\ rows'[i] # NoRow
        /\ \A j \in Id \ {i} : rows'[j] = rows[j]
    BY <1>8, WroteRows DEF Exists
  <2>3. ASSUME NEW j \in Id, j # i PROVE LifeOf(j)' = LifeOf(j)
    <3>1. Expected(j) <=> \E d \in Client \ {c} : Creating(d) /\ j \in req[d].ids
      BY <2>2, <2>3 DEF Expected, Creating
    <3>2. Expected(j)' <=> Expected(j)
      BY <2>1, <3>1, ExpectedStep
    <3>. QED  BY <1>8, <2>2, <2>3, <3>2 DEF LifeOf, Live, Deleted, Exists
  \* An insert: its id was handed out to this create alone.
  <2>4. CASE r.op = "create"
    <3>1. Creating(c) /\ rows'[i].deletedAt = 0
      BY <1>8, <2>4, WroteRows
    <3>2. ~Exists(i) /\ Expected(i)
      BY <2>2, <3>1 DEF IInv, CreateInv, Expected, Creating
    <3>3. LifeOf(i) = "unborn" /\ LifeOf(i)' = "live"
      BY <2>2, <3>1, <3>2 DEF LifeOf, Live, Deleted, Exists
    <3>4. Lifecycle!Insert(i)
      BY <2>2, <2>3, <3>3 DEF Lifecycle!Insert, Lifecycle!Advance
    <3>. QED  BY <2>2, <3>4 DEF Lifecycle!Next
  \* An update leaves its row as live or deleted as it was.
  <2>5. CASE r.op # "create"
    <3>1. Exists(i) /\ rows'[i].deletedAt = rows[i].deletedAt
      BY <1>8, <2>5, WroteRows
    <3>2. LifeOf(i)' = LifeOf(i)
      BY <2>2, <3>1 DEF LifeOf, Live, Deleted, Exists
    <3>. QED  BY <1>4, <2>3, <3>2
  <2>. QED  BY <2>4, <2>5
<1>9. ASSUME born' = born, At(c, "exec"), Deletes(c, r)
      PROVE  Lifecycle!Next
  <2>1. ~Creating(c)' /\ ~Creating(c)
    BY <1>1, <1>9 DEF Deletes, Creating, At
  <2>2. /\ Affected(c) \subseteq Id
        /\ \A j \in Id \ Affected(c) : rows'[j] = rows[j]
    BY <1>9, DeletesRows
  <2>3. ASSUME NEW j \in Id \ Affected(c) PROVE LifeOf(j)' = LifeOf(j)
    BY <1>9, <2>1, <2>2, <2>3, ExpectedStep DEF LifeOf, Live, Deleted, Exists
  <2>4. CASE req[c].mutation.op = "update"
    <3>1. ASSUME NEW j \in Affected(c)
          PROVE  LifeOf(j) = "live" /\ TypeOf(j) \in Soft /\ LifeOf(j)' = "deleted"
      <4>1. /\ Live(j) /\ TypeOf(j) \in Soft /\ Exists(j)' /\ ~Live(j)'
        BY <1>9, <2>4, <3>1, DeletesRows
      <4>. QED  BY <4>1 DEF LifeOf, Live, Deleted
    <3>2. Lifecycle!SoftDelete(Affected(c))
      BY <2>2, <2>3, <3>1 DEF Lifecycle!SoftDelete, Lifecycle!Advance
    <3>. QED  BY <2>2, <3>2 DEF Lifecycle!Next
  <2>5. CASE req[c].mutation.op # "update"
    <3>1. ASSUME NEW j \in Affected(c)
          PROVE  LifeOf(j) \in {"live", "deleted"} /\ LifeOf(j)' = "gone"
      <4>1. Exists(j) /\ rows'[j] = NoRow /\ j \in Id
        BY <1>9, <2>2, <2>5, <3>1, DeletesRows
      <4>2. j \in born' /\ ~Expected(j)
        BY <1>9, <4>1, Born DEF IInv, CreateInv, Expected, Creating
      <4>3. ~Expected(j)'
        BY <2>1, <4>1, <4>2, ExpectedStep
      <4>. QED  BY <4>1, <4>2, <4>3 DEF LifeOf, Live, Deleted, Exists
    <3>2. Lifecycle!Remove(Affected(c))
      BY <2>2, <2>3, <3>1 DEF Lifecycle!Remove, Lifecycle!Advance
    <3>. QED  BY <2>2, <3>2 DEF Lifecycle!Next
  <2>. QED  BY <2>4, <2>5
<1>10. CASE UNCHANGED <<rows, born>> /\ (ReadBy(c, r) \/ Refused(c, r) \/ Hook(c))
  <2>1. ~At(c, "done")
    BY <1>10 DEF ReadBy, Refused, Hook, At
  <2>. QED  BY <1>1, <1>6, <1>7, <1>10, <2>1
<1>. QED  BY <1>5, <1>8, <1>9, <1>10 DEF Moves

-----------------------------------------------------------------------------
(***************************************************************************)
(* The theorems.                                                           *)
(***************************************************************************)
\* Every variable keeps its shape, and rows are there only under ids that were
\* handed out.
THEOREM TypeCorrect == Spec => []TypeOK
<1>1. IInv => TypeOK
  BY DEF IInv
<1>. QED  BY <1>1, Inductive, PTL

\* Whatever set of types is soft and whichever contexts callers use, a row whose
\* delete was acknowledged is never live again.
THEOREM DeletesAreFinal == Spec => []AckedDeletesAreFinal
<1>1. IInv => AckedDeletesAreFinal
  BY DEF IInv, RowsInv, AckedDeletesAreFinal
<1>. QED  BY <1>1, Inductive, PTL

\* No read begun after a delete was acknowledged answers with the deleted row or
\* with a reference to it, in any interleaving of any number of callers.
THEOREM ReadsNeverShowDeleted == Spec => []ReadsHideDeleted
<1>1. IInv => ReadsHideDeleted
  BY DEF IInv
<1>. QED  BY <1>1, Inductive, PTL

\* Of any number of concurrent deletes of a row, one is acknowledged.
THEOREM DeletesExclude == Spec => []OneDeleteWins
<1>1. IInv => OneDeleteWins
  BY DEF IInv
<1>. QED  BY <1>1, Inductive, PTL

\* A create answers not-found only when the row it inserted was deleted before
\* it could be read back.
THEOREM CreatesAreLostToDeletes == Spec => []LostCreateWasDeleted
<1>1. IInv => LostCreateWasDeleted
  BY DEF IInv
<1>. QED  BY <1>1, Inductive, PTL

\* No request stamps a tombstone anew, and none removes a row of a soft type
\* unless its context asks for a hard delete.
THEOREM TombstonesKept == Spec => TombstonesAreHistory
<1>. DEFINE Kept == \A i \in Id : Exists(i) =>
         IF rows'[i] = NoRow
           THEN TypeOf(i) \in Soft => \E c \in Client :
                  At(c, "exec") /\ i \in req[c].ids /\ req[c].ctx.hard
           ELSE Deleted(i) => rows'[i].deletedAt = rows[i].deletedAt
<1>1. ASSUME IInv, [Next]_vars PROVE [Kept]_vars
  <2>1. CASE UNCHANGED rows
    BY <2>1 DEF Exists
  <2>2. ASSUME NEW c \in Client, NEW r \in Request, NEW i \in req[c].ids, Wrote(c, i, r)
        PROVE  Kept
    <3>1. /\ \A j \in Id \ {i} : rows'[j] = rows[j]
          /\ i \in Id /\ rows'[i] # NoRow
          /\ Exists(i) => rows'[i].deletedAt = rows[i].deletedAt
      BY <1>1, <2>2, WroteRows DEF IInv, CreateInv, Exists
    <3>. QED  BY <3>1 DEF Exists
  <2>3. ASSUME NEW c \in Client, NEW r \in Request, At(c, "exec"), Deletes(c, r)
        PROVE  Kept
    <3> SUFFICES ASSUME NEW i \in Id, Exists(i)
                 PROVE  IF rows'[i] = NoRow
                          THEN TypeOf(i) \in Soft =>
                                 At(c, "exec") /\ i \in req[c].ids /\ req[c].ctx.hard
                          ELSE Deleted(i) => rows'[i].deletedAt = rows[i].deletedAt
      OBVIOUS
    <3>1. Shaped(req[c]) /\ req[c].type \in Type
      BY <1>1 DEF IInv, ShapeInv, TypeOK, Request
    <3>2. CASE i \notin Affected(c)
      <4>1. rows'[i] = rows[i]
        BY <1>1, <2>3, <3>2, DeletesRows
      <4>. QED  BY <4>1 DEF Exists
    <3>3. CASE i \in Affected(c) /\ req[c].mutation.op = "update"
      <4>1. Live(i) /\ Exists(i)'
        BY <1>1, <2>3, <3>3, DeletesRows
      <4>. QED  BY <4>1 DEF Live, Deleted, Exists
    <3>4. CASE i \in Affected(c) /\ req[c].mutation.op # "update"
      <4>1. rows'[i] = NoRow /\ i \in req[c].ids /\ req[c].mutation.op = "delete"
        BY <1>1, <2>3, <3>4, DeletesRows DEF Deletes
      <4>2. TypeOf(i) = req[c].type
        BY <3>1, <4>1, TypeOfFacts DEF Shaped
      <4>3. TypeOf(i) \in Soft => req[c].ctx.hard
        BY <2>3, <3>1, <4>1, <4>2 DEF Shaped, At
      <4>. QED  BY <2>3, <4>1, <4>3
    <3>. QED  BY <3>2, <3>3, <3>4
  <2>4. CASE Next
    <3>1. PICK c \in Client : Call(c) \/ Statement(c) \/ Fails(c)
      BY <2>4 DEF Next
    <3>2. PICK r \in Request : Moves(c, r)
      BY <1>1, <3>1, Step DEF IInv
    <3>. QED  BY <2>1, <2>2, <2>3, <3>2 DEF Moves
  <2>. QED  BY <1>1, <2>1, <2>4 DEF vars
<1>. QED  BY <1>1, Inductive, PTL DEF Spec, TombstonesAreHistory

\* A request is answered already-exists only while another row of its type holds
\* the key; a reference that dangles never is.
THEOREM ExistsOnlyForDuplicates == Spec => ExistsMeansDuplicate
<1>. DEFINE Duplicate == \A c \in Client :
         req'[c].kind = "exists" /\ ~At(c, "done")
         => \E i \in req[c].ids : KeyTaken(req[c].key, i)
<1>1. ASSUME IInv, [Next]_vars PROVE [Duplicate]_vars
  <2>1. \A d \in Client : ~At(d, "done") => req[d].kind = "none"
    BY <1>1 DEF IInv, ShapeInv, Shaped, At
  <2>2. CASE Next
    <3>1. PICK c \in Client : Call(c) \/ Statement(c) \/ Fails(c)
      BY <2>2 DEF Next
    <3>2. PICK r \in Request : req' = [req EXCEPT ![c] = r] /\ Moves(c, r)
      BY <1>1, <3>1, Step DEF IInv
    <3>3. req'[c] = r /\ \A d \in Client \ {c} : req'[d] = req[d]
      BY <1>1, <3>2, OneRequest DEF IInv, TypeOK
    <3>4. r.kind = "exists" /\ ~At(c, "done") =>
            \E i \in req[c].ids : KeyTaken(req[c].key, i)
      BY <2>1, <3>2 DEF Moves, ReadBy, Refused, Wrote, Deletes, At
    <3>. QED  BY <2>1, <3>3, <3>4
  <2>. QED  BY <1>1, <2>2
<1>. QED  BY <1>1, Inductive, PTL DEF Spec, ExistsMeansDuplicate

\* An expanded edge is null only when its target has been deleted: never because
\* the target was not there yet, and never again once it answered null.
THEOREM NullEdgesAreDeleted == Spec => []NullEdgeMeansDeleted
<1>. DEFINE I == RefInv /\ NullEdgeMeansDeleted
<1>1. ASSUME IInv, I, [Next]_vars PROVE I'
  <2>1. ASSUME NEW c \in Client, Call(c) \/ Statement(c) \/ Fails(c) PROVE I'
    BY <1>1, <2>1, Step, RefStep DEF IInv
  <2>2. CASE UNCHANGED vars
    <3>1. RefInv'
      BY <1>1, <2>2 DEF vars, RefInv, Settled, Expected, Creating, At, Exists
    <3>2. NullEdgeMeansDeleted'
      BY <1>1, <2>2 DEF vars, NullEdgeMeansDeleted, Live, Exists
    <3>. QED  BY <3>1, <3>2
  <2>. QED  BY <1>1, <2>1, <2>2 DEF Next
<1>. QED  BY <1>1, Inductive, RefInit, PTL DEF Spec

\* A list whose total is not the number of rows it returned was overtaken by a
\* write between its count and its page: with no transaction around the two, that
\* is the only way they can disagree.
THEOREM TotalsDriftOnlyByWrites == Spec => []TotalDriftsOnlyByWrites
<1>1. Init => CountInv
  BY DEF Init, NoRequest, NewRequest, CountInv, Told
<1>2. ASSUME IInv, CountInv, [Next]_vars PROVE CountInv'
  <2>1. ASSUME NEW c \in Client, Call(c) \/ Statement(c) \/ Fails(c) PROVE CountInv'
    <3>1. \A d \in Client : Told(d)'
      BY <1>2, <2>1, ListStep, OthersList
    <3>. QED  BY <3>1 DEF CountInv
  <2>2. CASE UNCHANGED vars
    <3>1. \A d \in Client : Matches(d)' = Matches(d)
      BY <2>2 DEF vars, Matches, Visible, Exists, Live
    <3>. QED  BY <1>2, <2>2, <3>1 DEF vars, CountInv, Told, At, Rows
  <2>. QED  BY <1>2, <2>1, <2>2 DEF Next
<1>3. CountInv => TotalDriftsOnlyByWrites
  BY DEF CountInv, Told, TotalDriftsOnlyByWrites
<1>. QED  BY <1>1, <1>2, <1>3, Inductive, PTL DEF Spec

\* Every interleaving of requests moves every row along its life cycle: born
\* once, hidden or removed by a delete, never back.
THEOREM WiringKeepsLifecycle == Spec => KeepsLifecycle
<1>1. Init => Lifecycle!Init
  <2> SUFFICES ASSUME Init PROVE \A i \in Id : LifeOf(i) \in {"unborn", "live"}
    BY DEF Lifecycle!Init
  <2>1. \A i \in Id : rows[i].deletedAt = 0 /\ (Exists(i) <=> i \in born)
    BY ConstantsAssumption DEF Init
  <2>. QED  BY <2>1 DEF LifeOf, Live, Deleted
<1>2. ASSUME IInv, [Next]_vars PROVE [Lifecycle!Next]_life
  <2>1. ASSUME NEW c \in Client, Call(c) \/ Statement(c) \/ Fails(c)
        PROVE  Lifecycle!Next \/ life' = life
    BY <1>2, <2>1, Step, LifeStep DEF IInv
  <2>2. CASE UNCHANGED vars
    BY <2>2 DEF vars, life, LifeOf, Live, Deleted, Exists, Expected, At
  <2>. QED  BY <1>2, <2>1, <2>2 DEF Next
<1>. QED
  BY <1>1, <1>2, Inductive, PTL DEF Spec, KeepsLifecycle, Lifecycle!Spec, life
=============================================================================
