----------------------------- MODULE StoreProofs -----------------------------
(***************************************************************************)
(* Theorems about Store, for every seed, every set of requests and every   *)
(* bound.  The invariant has a part about the tables (RowInv, NoOrphans)   *)
(* and a part about the requests at work (CallInv): a plan writes with its *)
(* first statement or not at all, so that a request that has written has   *)
(* only reads left.  AnswerInv adds what a request has read so far and     *)
(* that it is still true.                                                  *)
(***************************************************************************)
EXTENDS Store, FiniteSetTheorems, SequenceTheorems, TLAPS

Word    == {"insert", "update", "remove", "stamp", "select", "count", "page", "category",
            "tags", "pet"}
Writing == {"insert", "update", "remove", "stamp"}

\* Ids are handed out once; a row has the columns of its table.
RowInv ==
    /\ DOMAIN rows = Kind /\ next \in [Kind -> Nat]
    /\ \A k \in Kind : \A i \in DOMAIN rows[k] :
          i \in Nat /\ i < next[k] /\ DOMAIN rows[k][i] = Columns(k)

-----------------------------------------------------------------------------
(* What the entities define, as far as the tables go. *)

LEMMA ReferencesAreToKinds ==
    ASSUME NEW k \in Kind, NEW row, NEW r \in References(k, row)
    PROVE  r[1] \in Kind
BY DEF Kind, References, Of, Category!References, Order!References, Pet!References,
       Tag!References

\* A row that lacks nothing goes on lacking nothing while tables only grow.
LEMMA GrowthKeepsReferences ==
    ASSUME NEW k \in Kind, NEW row, ~Dangles(k, row),
           \A j \in Kind : DOMAIN rows[j] \subseteq DOMAIN rows'[j]
    PROVE  \A r \in References(k, row) : r[2] \in DOMAIN rows'[r[1]]
BY ReferencesAreToKinds DEF Dangles

LEMMA PetColumns == Columns("pet") = Pet!Columns
BY DEF Columns, Of

\* A row is written with the columns of its table, and keeps them.
LEMMA RowsHaveTheirColumns ==
    ASSUME NEW k \in Kind, NEW m
    PROVE  /\ DOMAIN CreateSpec(k, m) = Columns(k)
           /\ \A row : DOMAIN row = Columns(k) => DOMAIN UpdateSpec(k, row, m) = Columns(k)
<1>1. CASE k = "category"
  BY <1>1 DEF CreateSpec, UpdateSpec, Columns, Of, Category!CreateSpec, Category!Inserted,
     Category!UpdateSpec, Category!Overlay
<1>2. CASE k = "order"
  BY <1>2 DEF CreateSpec, UpdateSpec, Columns, Of, Order!CreateSpec, Order!Inserted,
     Order!UpdateSpec, Order!Overlay
<1>3. CASE k = "pet"
  BY <1>3 DEF CreateSpec, UpdateSpec, Columns, Of, Pet!CreateSpec, Pet!Inserted,
     Pet!UpdateSpec, Pet!Overlay
<1>4. CASE k = "tag"
  BY <1>4 DEF CreateSpec, UpdateSpec, Columns, Of, Tag!CreateSpec, Tag!Inserted,
     Tag!UpdateSpec, Tag!Overlay
<1> QED
  BY <1>1, <1>2, <1>3, <1>4 DEF Kind

\* A patch names neither the tombstone nor what is no column.
LEMMA UpdateKeepsTombstone ==
    ASSUME NEW row, NEW b, DOMAIN row = Pet!Columns
    PROVE  UpdateSpec("pet", row, PatchOf("pet", b)).deleted_at = row.deleted_at
<1> DEFINE m == Pet!PutOrClear(b, Pet!PatchRequestTags)
<1>1. PatchOf("pet", b) = m
  BY DEF PatchOf, Of, Pet!ApplyPatch
<1>2. ~Pet!Given(m, "deleted_at") /\ "deleted_at" \notin m.cleared
  BY DEF Pet!PutOrClear, Pet!PutCarried, Pet!Given, Pet!PatchRequestTags
<1> HIDE DEF m
<1>3. UpdateSpec("pet", row, m) = Pet!Overlay(row, m)
  BY DEF UpdateSpec, Of, Pet!UpdateSpec
<1>4. Pet!Overlay(row, m).deleted_at = row.deleted_at
  BY <1>2 DEF Pet!Overlay, Pet!Columns
<1> QED
  BY <1>1, <1>3, <1>4 DEF Pet!Overlay

\* The bulk update of the soft delete names the tombstone only.
LEMMA StampKeepsReferences ==
    ASSUME NEW row, DOMAIN row = Pet!Columns
    PROVE  LET stamped == Pet!BulkSpec(row, Pet!DeletedAt(Pet!NoChange))
           IN  /\ DOMAIN stamped = Pet!Columns
               /\ References("pet", stamped) = References("pet", row)
<1> DEFINE m == Pet!DeletedAt(Pet!NoChange)
<1>1. DOMAIN m.set = {"deleted_at"} /\ m.cleared = {}
  BY DEF Pet!DeletedAt, Pet!Put, Pet!NoChange
<1> HIDE DEF m
<1>2. Pet!BulkSpec(row, m).category_id = row.category_id
  BY <1>1 DEF Pet!BulkSpec, Pet!Overlay, Pet!Given, Pet!Columns
<1>3. DOMAIN Pet!BulkSpec(row, m) = Pet!Columns
  BY DEF Pet!BulkSpec, Pet!Overlay
<1> QED
  BY <1>2, <1>3 DEF m, References, Of, Pet!References

-----------------------------------------------------------------------------
(***************************************************************************)
(* The effects of a statement on the tables.  What was deleted stays so,   *)
(* ids are never handed out again, and no pet leaves its table.            *)
(***************************************************************************)
DeletedStay ==
    /\ DOMAIN rows["pet"] \subseteq DOMAIN rows'["pet"]
    /\ \A k \in Kind : next[k] <= next'[k]
    /\ \A k \in Kind, i \in Nat : Deleted(k, i) => Deleted(k, i)'

TablesKept == RowInv' /\ NoOrphans' /\ DeletedStay

LEMMA NothingKeeps ==
    ASSUME RowInv, NoOrphans, UNCHANGED <<rows, links, next>>
    PROVE  TablesKept
BY DEF TablesKept, RowInv, NoOrphans, DeletedStay, Deleted, Dangles

LEMMA InsertKeeps ==
    ASSUME RowInv, NoOrphans, NEW k \in Kind, NEW row, ~Dangles(k, row),
           DOMAIN row = Columns(k),
           rows' = [rows EXCEPT ![k] = [i \in DOMAIN rows[k] \cup {next[k]} |->
                                           IF i = next[k] THEN row ELSE rows[k][i]]],
           next' = [next EXCEPT ![k] = next[k] + 1],
           links' = links
    PROVE  TablesKept
<1>1. \A j \in Kind : /\ DOMAIN rows[j] \subseteq DOMAIN rows'[j]
                      /\ \A i \in DOMAIN rows[j] : rows'[j][i] = rows[j][i]
                      /\ \A i \in DOMAIN rows'[j] \ DOMAIN rows[j] :
                             j = k /\ i = next[k] /\ rows'[j][i] = row
  BY DEF RowInv
<1>2. "pet" \in Kind /\ "tag" \in Kind
  BY DEF Kind
<1>3. NoOrphans'
  <2>1. ASSUME NEW j \in Kind, NEW i \in DOMAIN rows'[j],
               NEW r \in References(j, rows'[j][i])
        PROVE  r[2] \in DOMAIN rows'[r[1]]
    <3>1. ~Dangles(j, rows'[j][i])
      BY <1>1, <2>1 DEF NoOrphans
    <3> QED
      BY <3>1, <2>1, <1>1, GrowthKeepsReferences
  <2>2. \A l \in links : l[1] \in DOMAIN rows'["pet"] /\ l[2] \in DOMAIN rows'["tag"]
    BY <1>1, <1>2 DEF NoOrphans
  <2> QED
    BY <2>1, <2>2 DEF NoOrphans, Dangles
<1>4. RowInv'
  BY <1>1, <1>2 DEF RowInv
<1>5. DeletedStay
  BY <1>1, <1>2 DEF DeletedStay, Deleted, RowInv
<1> QED
  BY <1>3, <1>4, <1>5 DEF TablesKept

LEMMA UpdateKeeps ==
    ASSUME RowInv, NoOrphans, NEW k \in Kind, NEW id \in DOMAIN rows[k], NEW row,
           ~Dangles(k, row), DOMAIN row = Columns(k),
           k = "pet" => row.deleted_at = rows[k][id].deleted_at,
           rows' = [rows EXCEPT ![k][id] = row],
           UNCHANGED <<links, next>>
    PROVE  TablesKept
<1>1. \A j \in Kind : /\ DOMAIN rows[j] = DOMAIN rows'[j]
                     /\ \A i \in DOMAIN rows[j] :
                          rows'[j][i] = IF j = k /\ i = id THEN row ELSE rows[j][i]
  BY DEF RowInv
<1>2. "pet" \in Kind /\ "tag" \in Kind
  BY DEF Kind
<1>3. NoOrphans'
  <2>1. ASSUME NEW j \in Kind, NEW i \in DOMAIN rows'[j],
               NEW r \in References(j, rows'[j][i])
        PROVE  r[2] \in DOMAIN rows'[r[1]]
    <3>1. ~Dangles(j, rows'[j][i])
      BY <1>1, <2>1 DEF NoOrphans
    <3> QED
      BY <3>1, <2>1, <1>1, GrowthKeepsReferences
  <2>2. \A l \in links : l[1] \in DOMAIN rows'["pet"] /\ l[2] \in DOMAIN rows'["tag"]
    BY <1>1, <1>2 DEF NoOrphans
  <2> QED
    BY <2>1, <2>2 DEF NoOrphans, Dangles
<1>4. RowInv'
  BY <1>1, <1>2 DEF RowInv
<1>5. DeletedStay
  BY <1>1, <1>2 DEF DeletedStay, Deleted, RowInv
<1> QED
  BY <1>3, <1>4, <1>5 DEF TablesKept

\* What is removed is no pet and nobody refers to it.
LEMMA RemoveKeeps ==
    ASSUME RowInv, NoOrphans, NEW k \in Kind \ {"pet"}, NEW hit,
           \A i \in hit : ~Referenced(k, i),
           rows' = [rows EXCEPT ![k] = [i \in DOMAIN rows[k] \ hit |-> rows[k][i]]],
           links' = {l \in links : ~(k = "tag" /\ l[2] \in hit)},
           next' = next
    PROVE  TablesKept
<1>1. \A j \in Kind : /\ DOMAIN rows'[j] = IF j = k THEN DOMAIN rows[j] \ hit ELSE DOMAIN rows[j]
                     /\ \A i \in DOMAIN rows'[j] : rows'[j][i] = rows[j][i]
  BY DEF RowInv
<1>2. "pet" \in Kind /\ "tag" \in Kind
  BY DEF Kind
<1>3. NoOrphans'
  <2>1. ASSUME NEW j \in Kind, NEW i \in DOMAIN rows'[j],
               NEW r \in References(j, rows'[j][i])
        PROVE  r[2] \in DOMAIN rows'[r[1]]
    <3>1. i \in DOMAIN rows[j] /\ r \in References(j, rows[j][i]) /\ r[1] \in Kind
      BY <1>1, <2>1, ReferencesAreToKinds
    <3>2. r[2] \in DOMAIN rows[r[1]]
      BY <3>1 DEF NoOrphans, Dangles
    <3>3. r = <<r[1], r[2]>>
      BY <3>1 DEF Kind, References, Of, Category!References, Order!References,
                  Pet!References, Tag!References
    <3>4. r[1] = k => r[2] \notin hit
      BY <3>1, <3>3 DEF Referenced
    <3> QED
      BY <1>1, <3>1, <3>2, <3>4
  <2>2. \A l \in links' : l[1] \in DOMAIN rows'["pet"] /\ l[2] \in DOMAIN rows'["tag"]
    BY <1>1, <1>2 DEF NoOrphans
  <2> QED
    BY <2>1, <2>2 DEF NoOrphans, Dangles
<1>4. RowInv'
  BY <1>1, <1>2 DEF RowInv
<1>5. DeletedStay
  BY <1>1, <1>2 DEF DeletedStay, Deleted, RowInv
<1> QED
  BY <1>3, <1>4, <1>5 DEF TablesKept

LEMMA StampKeeps ==
    ASSUME RowInv, NoOrphans, NEW hit, hit \subseteq Pet!Prepared(rows["pet"]),
           rows' = [rows EXCEPT !["pet"] = [i \in DOMAIN rows["pet"] |->
              IF i \in hit THEN Pet!BulkSpec(rows["pet"][i], Pet!DeletedAt(Pet!NoChange))
              ELSE rows["pet"][i]]],
           UNCHANGED <<links, next>>
    PROVE  TablesKept
<1>0. "pet" \in Kind /\ "tag" \in Kind
  BY DEF Kind
<1>1. \A j \in Kind : /\ DOMAIN rows[j] = DOMAIN rows'[j]
                     /\ \A i \in DOMAIN rows[j] :
                          ~(j = "pet" /\ i \in hit) => rows'[j][i] = rows[j][i]
  BY <1>0 DEF RowInv
<1>2. ASSUME NEW i \in hit
      PROVE  /\ i \in DOMAIN rows["pet"] /\ ~Deleted("pet", i)
             /\ DOMAIN rows'["pet"][i] = Pet!Columns
             /\ References("pet", rows'["pet"][i]) = References("pet", rows["pet"][i])
  <2>1. i \in DOMAIN rows["pet"] /\ rows["pet"][i].deleted_at = Null
    BY <1>2 DEF Pet!Prepared, Pet!Visible
  <2>2. rows'["pet"][i] = Pet!BulkSpec(rows["pet"][i], Pet!DeletedAt(Pet!NoChange))
    BY <1>0, <1>2, <2>1 DEF RowInv
  <2>3. DOMAIN rows["pet"][i] = Pet!Columns
    BY <1>0, <2>1, PetColumns DEF RowInv
  <2> QED
    BY <2>1, <2>2, <2>3, StampKeepsReferences DEF Deleted
<1>3. NoOrphans'
  <2>1. ASSUME NEW j \in Kind, NEW i \in DOMAIN rows'[j],
               NEW r \in References(j, rows'[j][i])
        PROVE  r[2] \in DOMAIN rows'[r[1]]
    <3>1. i \in DOMAIN rows[j] /\ r \in References(j, rows[j][i])
      BY <1>1, <1>2, <2>1
    <3>2. ~Dangles(j, rows[j][i])
      BY <3>1 DEF NoOrphans
    <3> QED
      BY <3>1, <3>2, <1>1, GrowthKeepsReferences
  <2>2. \A l \in links : l[1] \in DOMAIN rows'["pet"] /\ l[2] \in DOMAIN rows'["tag"]
    BY <1>0, <1>1 DEF NoOrphans
  <2> QED
    BY <2>1, <2>2 DEF NoOrphans, Dangles
<1>4. RowInv'
  <2>1. ASSUME NEW j \in Kind, NEW i \in DOMAIN rows'[j]
        PROVE  i \in Nat /\ i < next[j] /\ DOMAIN rows'[j][i] = Columns(j)
    <3>1. i \in DOMAIN rows[j] /\ i \in Nat /\ i < next[j] /\ DOMAIN rows[j][i] = Columns(j)
      BY <1>1, <2>1 DEF RowInv
    <3>2. CASE j = "pet" /\ i \in hit
      BY <1>2, <3>1, <3>2, PetColumns
    <3>3. CASE ~(j = "pet" /\ i \in hit)
      BY <1>1, <3>1, <3>3
    <3> QED
      BY <3>2, <3>3
  <2>2. \A k : Columns(k)' = Columns(k)
    BY DEF Columns
  <2> QED
    BY <2>1, <2>2 DEF RowInv
<1>5. DeletedStay
  <2>1. ASSUME NEW j \in Kind, NEW i \in Nat, Deleted(j, i) PROVE Deleted(j, i)'
    <3>1. CASE j = "pet" /\ i \in hit
      BY <1>2, <2>1, <3>1
    <3>2. CASE ~(j = "pet" /\ i \in hit)
      BY <1>1, <2>1, <3>2 DEF Deleted
    <3> QED
      BY <3>1, <3>2
  <2> QED
    BY <1>0, <1>1, <2>1 DEF DeletedStay, RowInv
<1> QED
  BY <1>3, <1>4, <1>5 DEF TablesKept

-----------------------------------------------------------------------------
(***************************************************************************)
(* The requests at work.                                                   *)
(***************************************************************************)
CallFields == {"req", "todo", "nodes", "edges", "id", "total", "status", "wrote", "raced",
               "gone"}

ReadsOnly(todo) == \A n \in DOMAIN todo : todo[n] \notin Writing

\* A plan writes first; a delete does nothing else.
PlanShape(todo) ==
    /\ todo \in Seq(Word)
    /\ todo # <<>> => /\ ReadsOnly(Tail(todo))
                      /\ Head(todo) \in {"remove", "stamp"} => Tail(todo) = <<>>

\* Whoever has written has only reads left, of a row whose id is handed out, and
\* is refused only if that row is deleted.
CallOK(call) ==
    /\ DOMAIN call = CallFields
    /\ call.req.kind \in Kind /\ call.wrote \in BOOLEAN
    /\ PlanShape(call.todo)
    /\ call.wrote => ReadsOnly(call.todo)
    /\ call.wrote /\ call.todo # <<>> => call.id \in Nat /\ call.id < next[call.req.kind]
    /\ call.wrote /\ call.todo = <<>> /\ call.status \in 400..499 =>
          call.status = 404 /\ call.id \in Nat /\ Deleted(call.req.kind, call.id)

CallInv == DOMAIN calls = Client /\ \A c \in Client : CallOK(calls[c])

\* The same as far as CallOK can see.
Same(a, b) ==
    /\ DOMAIN a = DOMAIN b
    /\ a.req = b.req /\ a.todo = b.todo /\ a.wrote = b.wrote /\ a.id = b.id
    /\ a.status = b.status

LEMMA SuccessIsNoRefusal == \A op : Success(op) \notin 400..499
BY DEF Success

LEMMA ReadsArePlan ==
    ASSUME NEW t \in Seq(Word), ReadsOnly(t)
    PROVE  PlanShape(t)
<1>1. t # <<>> => /\ Tail(t) \in Seq(Word) /\ Head(t) = t[1] /\ 1 \in DOMAIN t
                  /\ DOMAIN Tail(t) = 1..Len(t) - 1 /\ DOMAIN t = 1..Len(t) /\ Len(t) \in Nat
                  /\ \A n \in 1..Len(t) - 1 : Tail(t)[n] = t[n + 1]
  OBVIOUS
<1>2. t # <<>> => ReadsOnly(Tail(t)) /\ Head(t) \notin Writing
  BY <1>1 DEF ReadsOnly
<1> QED
  BY <1>2 DEF PlanShape, Writing

LEMMA TailOfPlan ==
    ASSUME NEW todo, PlanShape(todo), todo # <<>>
    PROVE  /\ PlanShape(Tail(todo)) /\ ReadsOnly(Tail(todo))
           /\ Head(todo) = todo[1] /\ 1 \in DOMAIN todo
           /\ Len(todo) # 1 => Tail(todo) # <<>>
<1>1. todo \in Seq(Word) /\ Len(todo) \in Nat /\ Len(todo) > 0 /\ DOMAIN todo = 1..Len(todo)
  BY DEF PlanShape
<1>2. Tail(todo) \in Seq(Word) /\ Len(Tail(todo)) = Len(todo) - 1
  BY <1>1
<1>3. ReadsOnly(Tail(todo))
  BY DEF PlanShape
<1> DEFINE t == Tail(todo)
<1> HIDE DEF t
<1>4. Len(todo) # 1 => t # <<>>
  <2>1. Len(t) = Len(todo) - 1
    BY <1>2 DEF t
  <2>2. t = <<>> => Len(t) = 0
    OBVIOUS
  <2> QED
    BY <1>1, <2>1, <2>2
<1>5. Head(todo) = todo[1] /\ 1 \in DOMAIN todo
  BY <1>1
<1> QED
  BY <1>2, <1>3, <1>4, <1>5, ReadsArePlan DEF t

\* Who does not move is as fine as before, since nothing deleted comes back.
LEMMA SameStaysOK ==
    ASSUME RowInv, RowInv', DeletedStay, NEW c \in Client, CallOK(calls[c]),
           Same(calls'[c], calls[c])
    PROVE  CallOK(calls[c])'
<1> DEFINE k == calls[c].req.kind
<1>1. k \in Kind /\ next[k] \in Nat /\ next'[k] \in Nat /\ next[k] <= next'[k]
  BY DEF CallOK, RowInv, DeletedStay
<1> QED
  BY <1>1 DEF CallOK, Same, DeletedStay, Deleted

LEMMA RefuseKeeps ==
    ASSUME RowInv, RowInv', DeletedStay, CallInv, NEW c \in Client, NEW status,
           Refuse(c, status),
           calls[c].wrote /\ status \in 400..499 =>
              /\ status = 404 /\ calls[c].id \in Nat
              /\ Deleted(calls[c].req.kind, calls[c].id)
    PROVE  CallInv'
<1>1. /\ DOMAIN calls' = Client
      /\ \A d \in Client \ {c} : calls'[d] = calls[d]
      /\ calls'[c] = [calls[c] EXCEPT !.todo = <<>>, !.status = status]
  BY DEF Refuse, CallInv
<1>2. ASSUME NEW d \in Client \ {c} PROVE CallOK(calls[d])'
  BY <1>1, SameStaysOK DEF Same, CallInv
<1>3. CallOK(calls[c])'
  <2>1. DOMAIN calls[c] = CallFields
    BY DEF CallInv, CallOK
  <2>2. /\ DOMAIN calls'[c] = CallFields /\ calls'[c].todo = <<>>
        /\ calls'[c].status = status /\ calls'[c].req = calls[c].req
        /\ calls'[c].wrote = calls[c].wrote /\ calls'[c].id = calls[c].id
    BY <1>1, <2>1 DEF CallFields
  <2>3. PlanShape(<<>>) /\ ReadsOnly(<<>>)
    BY DEF PlanShape, ReadsOnly
  <2>4. calls[c].req.kind \in Kind /\ calls[c].wrote \in BOOLEAN
    BY DEF CallInv, CallOK
  <2> QED
    BY <2>2, <2>3, <2>4 DEF CallOK, DeletedStay, Deleted
<1> QED
  BY <1>1, <1>2, <1>3 DEF CallInv

\* A statement is done, and the request goes on with the rest of its plan.
LEMMA ProceedKeeps ==
    ASSUME RowInv, RowInv', DeletedStay, CallInv, NEW c \in Client, Busy(c), NEW call,
           DOMAIN calls' = Client, calls'[c] = Proceeded(call),
           \A d \in Client \ {c} : Same(calls'[d], calls[d]),
           DOMAIN call = CallFields, call.req = calls[c].req, call.todo = calls[c].todo,
           call.wrote \in BOOLEAN,
           call.wrote /\ Tail(call.todo) # <<>> =>
              call.id \in Nat /\ call.id < next'[call.req.kind]
    PROVE  CallInv'
<1>1. ASSUME NEW d \in Client \ {c} PROVE CallOK(calls[d])'
  BY <1>1, SameStaysOK DEF CallInv
<1>2. CallOK(calls[c])'
  <2>1. PlanShape(call.todo) /\ call.todo # <<>> /\ call.req.kind \in Kind
    BY DEF CallInv, CallOK, Busy
  <2>2. /\ PlanShape(Tail(call.todo)) /\ ReadsOnly(Tail(call.todo))
        /\ Len(call.todo) # 1 => Tail(call.todo) # <<>>
    BY <2>1, TailOfPlan
  <2>3. /\ DOMAIN calls'[c] = CallFields /\ calls'[c].todo = Tail(call.todo)
        /\ calls'[c].req = call.req /\ calls'[c].wrote = call.wrote /\ calls'[c].id = call.id
        /\ calls'[c].status = IF Len(call.todo) = 1 THEN Success(call.req.op) ELSE 0
    BY DEF Proceeded, CallFields
  <2>4. calls'[c].status \notin 400..499
    BY <2>3, SuccessIsNoRefusal
  <2> QED
    BY <2>1, <2>2, <2>3, <2>4 DEF CallOK
<1> QED
  BY <1>1, <1>2 DEF CallInv

LEMMA WritingKeeps ==
    ASSUME RowInv, RowInv', DeletedStay, CallInv, NEW c \in Client, Busy(c), NEW call,
           NEW k, NEW ids, ProceedWriting(c, call, k, ids),
           DOMAIN call = CallFields, call.req = calls[c].req, call.todo = calls[c].todo,
           Tail(call.todo) # <<>> => call.id \in Nat /\ call.id < next'[call.req.kind]
    PROVE  CallInv'
<1> DEFINE written == [call EXCEPT !.wrote = TRUE]
<1>1. /\ DOMAIN calls' = Client /\ calls'[c] = Proceeded(written)
      /\ \A d \in Client \ {c} : calls'[d] \in {calls[d], [calls[d] EXCEPT !.raced = TRUE]}
  BY DEF ProceedWriting
<1>2. ASSUME NEW d \in Client \ {c} PROVE Same(calls'[d], calls[d])
  <2>1. DOMAIN calls[d] = CallFields
    BY DEF CallInv, CallOK
  <2> QED
    BY <1>1, <2>1 DEF Same, CallFields
<1>3. /\ DOMAIN written = CallFields /\ written.req = call.req /\ written.todo = call.todo
      /\ written.wrote = TRUE /\ written.id = call.id
  BY DEF CallFields
<1> HIDE DEF written
<1>4. /\ written.req = calls[c].req /\ written.todo = calls[c].todo /\ written.wrote \in BOOLEAN
      /\ Tail(written.todo) # <<>> =>
            written.id \in Nat /\ written.id < next'[written.req.kind]
  BY <1>3
<1> QED
  BY <1>1, <1>2, <1>3, <1>4, ProceedKeeps

\* A statement that only reads.
LEMMA ReadingKeeps ==
    ASSUME RowInv, RowInv', DeletedStay, CallInv, NEW c \in Client, Busy(c), NEW call,
           Proceed(c, call),
           DOMAIN call = CallFields, call.req = calls[c].req, call.todo = calls[c].todo,
           call.wrote = calls[c].wrote, call.id = calls[c].id
    PROVE  CallInv'
<1>1. /\ DOMAIN calls' = Client /\ calls'[c] = Proceeded(call)
      /\ \A d \in Client \ {c} : calls'[d] = calls[d]
  BY DEF Proceed, CallInv
<1>2. /\ call.wrote \in BOOLEAN /\ call.req.kind \in Kind
      /\ call.wrote => call.id \in Nat /\ call.id < next[call.req.kind]
  BY DEF CallInv, CallOK, Busy
<1>3. next[call.req.kind] \in Nat /\ next'[call.req.kind] \in Nat
      /\ next[call.req.kind] <= next'[call.req.kind]
  BY <1>2 DEF RowInv, DeletedStay
<1> QED
  BY <1>1, <1>2, <1>3, ProceedKeeps DEF Same

\* Who is at a statement that writes has not written.
LEMMA FirstWrite ==
    ASSUME CallInv, NEW c \in Client, NEW statement \in Writing, Runs(c, statement)
    PROVE  /\ Busy(c) /\ calls[c].wrote = FALSE /\ calls[c].req.kind \in Kind
           /\ DOMAIN calls[c] = CallFields
           /\ statement \in {"remove", "stamp"} => Tail(calls[c].todo) = <<>>
<1>1. CallOK(calls[c]) /\ Busy(c) /\ Head(calls[c].todo) = statement
  BY DEF CallInv, Runs
<1>2. PlanShape(calls[c].todo) /\ calls[c].todo # <<>>
  BY <1>1 DEF CallOK, Busy
<1>3. Head(calls[c].todo) = calls[c].todo[1] /\ 1 \in DOMAIN calls[c].todo
  BY <1>2, TailOfPlan
<1> QED
  BY <1>1, <1>2, <1>3 DEF CallOK, ReadsOnly, PlanShape

-----------------------------------------------------------------------------
LEMMA ReadsThenReads ==
    ASSUME NEW s \in Seq(Word), NEW t \in Seq(Word), ReadsOnly(s), ReadsOnly(t)
    PROVE  s \o t \in Seq(Word) /\ ReadsOnly(s \o t)
<1>1. /\ s \o t \in Seq(Word) /\ Len(s \o t) = Len(s) + Len(t)
      /\ \A i \in 1..Len(s) + Len(t) : (s \o t)[i] = IF i <= Len(s) THEN s[i] ELSE t[i - Len(s)]
  BY ConcatProperties
<1> DEFINE u == s \o t
<1> HIDE DEF u
<1>2. /\ Len(s) \in Nat /\ Len(t) \in Nat /\ DOMAIN s = 1..Len(s) /\ DOMAIN t = 1..Len(t)
      /\ DOMAIN u = 1..Len(s) + Len(t)
  BY <1>1 DEF u
<1>3. \A i \in DOMAIN u : \/ i \in DOMAIN s /\ u[i] = s[i]
                          \/ i - Len(s) \in DOMAIN t /\ u[i] = t[i - Len(s)]
  BY <1>1, <1>2 DEF u
<1>4. ReadsOnly(u)
  BY <1>3 DEF ReadsOnly
<1> QED
  BY <1>1, <1>4 DEF u

LEMMA WriteThenReads ==
    ASSUME NEW w \in Word, NEW t \in Seq(Word), ReadsOnly(t),
           w \in {"remove", "stamp"} => t = <<>>
    PROVE  PlanShape(<<w>> \o t)
<1>1. <<w>> \in Seq(Word) /\ Len(<<w>>) = 1 /\ <<w>>[1] = w
  OBVIOUS
<1> DEFINE u == <<w>> \o t
<1>2. /\ u \in Seq(Word) /\ Len(u) = 1 + Len(t)
      /\ \A i \in 1..1 + Len(t) : u[i] = IF i <= 1 THEN w ELSE t[i - 1]
  BY <1>1, ConcatProperties
<1> HIDE DEF u
<1>3. Len(t) \in Nat /\ DOMAIN t = 1..Len(t)
  OBVIOUS
<1>4. /\ Head(u) = w /\ Tail(u) \in Seq(Word) /\ Len(Tail(u)) = Len(t)
      /\ \A i \in 1..Len(t) : Tail(u)[i] = u[i + 1]
  BY <1>2, <1>3
<1>5. \A i \in 1..Len(t) : Tail(u)[i] = t[i]
  BY <1>2, <1>3, <1>4
<1>6. Tail(u) = t
  BY <1>4, <1>5, SeqEqual
<1> QED
  BY <1>2, <1>4, <1>6 DEF PlanShape, u

LEMMA ShortReads ==
    ASSUME NEW a \in Word \ Writing, NEW b \in Word \ Writing
    PROVE  /\ <<>> \in Seq(Word) /\ ReadsOnly(<<>>)
           /\ <<a>> \in Seq(Word) /\ ReadsOnly(<<a>>)
           /\ <<a, b>> \in Seq(Word) /\ ReadsOnly(<<a, b>>)
<1>1. /\ DOMAIN <<a>> = {1} /\ <<a>>[1] = a
      /\ DOMAIN <<a, b>> = {1, 2} /\ <<a, b>>[1] = a /\ <<a, b>>[2] = b
  OBVIOUS
<1>2. ReadsOnly(<<a>>)
  BY <1>1 DEF ReadsOnly
<1>3. ReadsOnly(<<a, b>>)
  BY <1>1 DEF ReadsOnly
<1>4. <<a>> \in Seq(Word) /\ <<a, b>> \in Seq(Word)
  OBVIOUS
<1>5. ReadsOnly(<<>>)
  BY DEF ReadsOnly
<1> QED
  BY <1>2, <1>3, <1>4, <1>5

LEMMA EdgesAreReads ==
    /\ <<>> \in Seq(Word) /\ ReadsOnly(<<>>)
    /\ <<"pet">> \in Seq(Word) /\ ReadsOnly(<<"pet">>)
    /\ <<"category", "tags">> \in Seq(Word) /\ ReadsOnly(<<"category", "tags">>)
    /\ <<"select">> \in Seq(Word) /\ ReadsOnly(<<"select">>)
    /\ <<"count", "page">> \in Seq(Word) /\ ReadsOnly(<<"count", "page">>)
<1>1. {"pet", "category", "tags", "select", "count", "page"} \subseteq Word \ Writing
  BY DEF Writing, Word
<1> QED
  BY <1>1, ShortReads

\* The forms a plan has.
LEMMA PlanForms ==
    ASSUME NEW t \in Seq(Word), ReadsOnly(t)
    PROVE  /\ PlanShape(<<"select">> \o t) /\ PlanShape(<<"count", "page">> \o t)
           /\ \A w \in {"insert", "update"} : PlanShape(<<w>> \o (<<"select">> \o t))
<1>1. <<"select">> \o t \in Seq(Word) /\ ReadsOnly(<<"select">> \o t)
  BY EdgesAreReads, ReadsThenReads
<1>2. <<"count", "page">> \o t \in Seq(Word) /\ ReadsOnly(<<"count", "page">> \o t)
  BY EdgesAreReads, ReadsThenReads
<1>3. ASSUME NEW w \in {"insert", "update"}
      PROVE  PlanShape(<<w>> \o (<<"select">> \o t))
  <2>1. w \in Word /\ w \notin {"remove", "stamp"}
    BY <1>3 DEF Word
  <2> QED
    BY <2>1, <1>1, WriteThenReads
<1> QED
  BY <1>1, <1>2, <1>3, ReadsArePlan

\* What entities without edges have, and all have a delete.
LEMMA BareForms ==
    \A w \in {"insert", "update", "remove", "select"} : PlanShape(<<w>>)
<1>1. <<>> \in Seq(Word) /\ ReadsOnly(<<>>)
  BY EdgesAreReads
<1> SUFFICES ASSUME NEW w \in Word PROVE PlanShape(<<w>>)
  BY DEF Word
<1>2. <<w>> \o <<>> = <<w>>
  OBVIOUS
<1> QED
  BY <1>1, <1>2, WriteThenReads

LEMMA PlansAreShaped ==
    ASSUME NEW k \in Kind, NEW op \in Operation
    PROVE  PlanShape(Plan(k, op))
<1>1. PlanShape(Category!Plan(op))
  <2>1. Category!Plan(op) \in {<<"select">>, <<"count", "page">>, <<"insert">>, <<"update">>,
                          <<"remove">>}
    <3>1. CASE op = "get" BY <3>1 DEF Category!Plan, Category!ResponseEdges
    <3>2. CASE op = "list" BY <3>2 DEF Category!Plan, Category!ResponseEdges
    <3>3. CASE op \in {"create", "patch"} BY <3>3 DEF Category!Plan, Category!Mutate, Category!Reloaded
    <3>4. CASE op \in {"delete", "batch"} BY <3>4 DEF Category!Plan, Category!Mutate
    <3> QED
      BY <3>1, <3>2, <3>3, <3>4 DEF Operation
  <2> QED
    BY <2>1, BareForms, EdgesAreReads, ReadsArePlan
<1>2. PlanShape(Tag!Plan(op))
  <2>1. Tag!Plan(op) \in {<<"select">>, <<"count", "page">>, <<"insert">>, <<"update">>,
                          <<"remove">>}
    <3>1. CASE op = "get" BY <3>1 DEF Tag!Plan, Tag!ResponseEdges
    <3>2. CASE op = "list" BY <3>2 DEF Tag!Plan, Tag!ResponseEdges
    <3>3. CASE op \in {"create", "patch"} BY <3>3 DEF Tag!Plan, Tag!Mutate, Tag!Reloaded
    <3>4. CASE op \in {"delete", "batch"} BY <3>4 DEF Tag!Plan, Tag!Mutate
    <3> QED
      BY <3>1, <3>2, <3>3, <3>4 DEF Operation
  <2> QED
    BY <2>1, BareForms, EdgesAreReads, ReadsArePlan
<1>3. PlanShape(Order!Plan(op))
  <2> DEFINE e == Order!ResponseEdges
  <2>1. e \in Seq(Word) /\ ReadsOnly(e)
    BY EdgesAreReads DEF Order!ResponseEdges
  <2>2. /\ PlanShape(<<"select">> \o e) /\ PlanShape(<<"count", "page">> \o e)
        /\ PlanShape(<<"insert">> \o (<<"select">> \o e))
        /\ PlanShape(<<"update">> \o (<<"select">> \o e))
    BY <2>1, PlanForms
  <2>3. \/ Order!Plan(op) \in {<<"select">> \o e, <<"count", "page">> \o e, <<"remove">>}
        \/ Order!Plan(op) \in {<<"insert">> \o (<<"select">> \o e),
                              <<"update">> \o (<<"select">> \o e)}
    <3> HIDE DEF e
    <3>1. CASE op = "get" BY <3>1 DEF Order!Plan, e
    <3>2. CASE op = "list" BY <3>2 DEF Order!Plan, e
    <3>3. CASE op \in {"create", "patch"} BY <3>3 DEF Order!Plan, Order!Mutate, Order!Reloaded, e
    <3>4. CASE op \in {"delete", "batch"} BY <3>4 DEF Order!Plan, Order!Mutate
    <3> QED
      BY <3>1, <3>2, <3>3, <3>4 DEF Operation
  <2> QED
    BY <2>2, <2>3, BareForms
<1>4. PlanShape(Pet!Plan(op))
  <2> DEFINE e == Pet!ResponseEdges
  <2>1. e \in Seq(Word) /\ ReadsOnly(e)
    BY EdgesAreReads DEF Pet!ResponseEdges
  <2>2. /\ PlanShape(<<"select">> \o e) /\ PlanShape(<<"count", "page">> \o e)
        /\ PlanShape(<<"insert">> \o (<<"select">> \o e))
        /\ PlanShape(<<"update">> \o (<<"select">> \o e))
    BY <2>1, PlanForms
  <2>3. \/ Pet!Plan(op) \in {<<"select">> \o e, <<"count", "page">> \o e, <<"remove">>}
        \/ Pet!Plan(op) \in {<<"insert">> \o (<<"select">> \o e),
                              <<"update">> \o (<<"select">> \o e)}
    <3> HIDE DEF e
    <3>1. CASE op = "get" BY <3>1 DEF Pet!Plan, e
    <3>2. CASE op = "list" BY <3>2 DEF Pet!Plan, e
    <3>3. CASE op \in {"create", "patch"} BY <3>3 DEF Pet!Plan, Pet!Mutate, Pet!Reloaded, e
    <3>4. CASE op \in {"delete", "batch"} BY <3>4 DEF Pet!Plan, Pet!Mutate
    <3> QED
      BY <3>1, <3>2, <3>3, <3>4 DEF Operation
  <2> QED
    BY <2>2, <2>3, BareForms
<1> QED
  BY <1>1, <1>2, <1>3, <1>4 DEF Plan, Of, Kind

-----------------------------------------------------------------------------
(* One lemma for each action. *)
IInv == RowInv /\ NoOrphans /\ CallInv

LEMMA InitEstablishes == ASSUME Init PROVE IInv
<1>1. \A k \in Kind : /\ Cardinality(DOMAIN SeedRows[k]) \in Nat
                      /\ DOMAIN SeedRows[k] = 1..Cardinality(DOMAIN SeedRows[k])
  BY SeedAssumption, FS_CardinalityType
<1>2. RowInv
  BY <1>1, SeedAssumption DEF Init, RowInv, Kind
<1>3. NoOrphans
  BY SeedAssumption DEF Init, NoOrphans, Dangles
<1>4. CallOK(Idle)
  <2>1. PlanShape(<<>>)
    BY EdgesAreReads DEF PlanShape
  <2> QED
    BY <2>1 DEF CallOK, Idle, CallFields, Kind
<1>5. CallInv
  BY <1>4 DEF CallInv, Init
<1> QED
  BY <1>2, <1>3, <1>5 DEF IInv

LEMMA RequestKeeps ==
    ASSUME IInv, NEW c \in Client, NEW r \in Requests, Request(c, r)
    PROVE  IInv' /\ DeletedStay
<1>1. TablesKept
  BY NothingKeeps DEF IInv, Request
<1> DEFINE todo == IF Refusal(r) = 0 THEN Plan(r.kind, r.op) ELSE <<>>
<1>2. r.kind \in Kind /\ PlanShape(todo)
  BY RequestsAssumption, PlansAreShaped, EdgesAreReads DEF PlanShape
<1> HIDE DEF todo
<1>3. /\ DOMAIN calls' = Client
      /\ \A d \in Client \ {c} : calls'[d] = calls[d]
      /\ DOMAIN calls'[c] = CallFields /\ calls'[c].req = r /\ calls'[c].todo = todo
      /\ calls'[c].wrote = FALSE
  BY DEF Request, IInv, CallInv, Idle, CallFields, todo
<1>4. CallOK(calls[c])'
  BY <1>2, <1>3 DEF CallOK
<1>5. ASSUME NEW d \in Client \ {c} PROVE CallOK(calls[d])'
  BY <1>1, <1>3, SameStaysOK DEF Same, IInv, CallInv, TablesKept
<1> QED
  BY <1>1, <1>3, <1>4, <1>5 DEF IInv, CallInv, TablesKept

LEMMA InsertStepKeeps == ASSUME IInv, NEW c \in Client, Insert(c) PROVE IInv' /\ DeletedStay
<1> DEFINE k == calls[c].req.kind
           m == CreateOf(k, calls[c].req.body)
           id == next[k]
           row == CreateSpec(k, m)
           read == [calls[c] EXCEPT !.id = id, !.nodes = [i \in {id} |-> Entity(k, i, row)],
                                    !.edges = [i \in {id} |-> NoEdges]]
<1>1. /\ Busy(c) /\ calls[c].wrote = FALSE /\ k \in Kind /\ DOMAIN calls[c] = CallFields
      /\ next[k] \in Nat
  BY FirstWrite DEF IInv, Insert, Writing, RowInv
<1>2. \/ \E status : Refuse(c, status) /\ UNCHANGED <<rows, next>>
      \/ /\ ~Dangles(k, row)
         /\ rows' = [rows EXCEPT ![k] = [i \in DOMAIN rows[k] \cup {id} |->
                                             IF i = id THEN row ELSE rows[k][i]]]
         /\ next' = [next EXCEPT ![k] = id + 1]
         /\ ProceedWriting(c, read, k, {id})
  BY DEF Insert
<1>3. links' = links
  BY DEF Insert
<1>4. CASE \E status : Refuse(c, status) /\ UNCHANGED <<rows, next>>
  BY <1>1, <1>3, <1>4, NothingKeeps, RefuseKeeps DEF IInv, TablesKept
<1>5. CASE /\ ~Dangles(k, row)
           /\ rows' = [rows EXCEPT ![k] = [i \in DOMAIN rows[k] \cup {id} |->
                                               IF i = id THEN row ELSE rows[k][i]]]
           /\ next' = [next EXCEPT ![k] = id + 1]
           /\ ProceedWriting(c, read, k, {id})
  <2>1. DOMAIN row = Columns(k)
    BY <1>1, RowsHaveTheirColumns
  <2>2. /\ DOMAIN read = CallFields /\ read.req = calls[c].req /\ read.todo = calls[c].todo
        /\ read.id = id
    BY <1>1 DEF CallFields
  <2> HIDE DEF read, row, m
  <2>3. TablesKept
    BY <1>1, <1>3, <1>5, <2>1, InsertKeeps DEF IInv
  <2>4. read.id \in Nat /\ read.id < next'[read.req.kind]
    BY <1>1, <1>5, <2>2 DEF IInv, RowInv
  <2>5. CallInv'
    BY <1>1, <1>5, <2>2, <2>3, <2>4, WritingKeeps DEF IInv, TablesKept
  <2> QED
    BY <2>3, <2>5 DEF IInv, TablesKept
<1> QED
  BY <1>2, <1>4, <1>5

LEMMA UpdateStepKeeps == ASSUME IInv, NEW c \in Client, Update(c) PROVE IInv' /\ DeletedStay
<1> DEFINE k == calls[c].req.kind
           m == PatchOf(k, calls[c].req.body)
           id == calls[c].id
           row == UpdateSpec(k, rows[k][id], m)
           read == [calls[c] EXCEPT !.nodes = [i \in {id} |-> Entity(k, i, row)],
                                    !.edges = [i \in {id} |-> NoEdges]]
<1>1. /\ Busy(c) /\ calls[c].wrote = FALSE /\ k \in Kind /\ DOMAIN calls[c] = CallFields
  BY FirstWrite DEF IInv, Update, Writing
<1>2. UNCHANGED <<links, next>>
  BY DEF Update
<1>3. /\ DOMAIN read = CallFields /\ read.req = calls[c].req /\ read.todo = calls[c].todo
      /\ read.id = id /\ read.wrote = calls[c].wrote
  BY <1>1 DEF CallFields
<1>4. \/ \E status : Refuse(c, status) /\ UNCHANGED rows
      \/ Proceed(c, read) /\ UNCHANGED rows
      \/ /\ id \in DOMAIN rows[k] /\ ~Dangles(k, row)
         /\ rows' = [rows EXCEPT ![k][id] = row] /\ ProceedWriting(c, read, k, {id})
  BY DEF Update
<1>5. CASE \E status : Refuse(c, status) /\ UNCHANGED rows
  BY <1>1, <1>2, <1>5, NothingKeeps, RefuseKeeps DEF IInv, TablesKept
<1>6. CASE Proceed(c, read) /\ UNCHANGED rows
  <2> HIDE DEF read
  <2> QED
    BY <1>1, <1>2, <1>3, <1>6, NothingKeeps, ReadingKeeps DEF IInv, TablesKept
<1>7. CASE /\ id \in DOMAIN rows[k] /\ ~Dangles(k, row)
           /\ rows' = [rows EXCEPT ![k][id] = row] /\ ProceedWriting(c, read, k, {id})
  <2>1. DOMAIN row = Columns(k) /\ (k = "pet" => row.deleted_at = rows[k][id].deleted_at)
    BY <1>1, <1>7, UpdateKeepsTombstone, RowsHaveTheirColumns, PetColumns DEF IInv, RowInv
  <2> HIDE DEF read, row, m
  <2>2. TablesKept
    BY <1>1, <1>2, <1>7, <2>1, UpdateKeeps DEF IInv
  <2>3. read.id \in Nat /\ read.id < next'[read.req.kind]
    BY <1>1, <1>2, <1>3, <1>7 DEF IInv, RowInv
  <2>4. CallInv'
    BY <1>1, <1>3, <1>7, <2>2, <2>3, WritingKeeps DEF IInv, TablesKept
  <2> QED
    BY <2>2, <2>4 DEF IInv, TablesKept
<1> QED
  BY <1>4, <1>5, <1>6, <1>7

LEMMA OnlyPetsAreHooked ==
    ASSUME NEW k \in Kind, NEW statement
    PROVE  Hooked(k, statement) <=> k = "pet" /\ statement = "remove"
BY DEF Hooked, Of, Kind, Category!Hooked, Order!Hooked, Pet!Hooked, Tag!Hooked

LEMMA HookKeeps == ASSUME IInv, NEW c \in Client, Hook(c) PROVE IInv' /\ DeletedStay
<1> DEFINE k == calls[c].req.kind
           todo == calls[c].todo
<1>1. /\ CallOK(calls[c]) /\ Busy(c) /\ k \in Kind /\ PlanShape(todo) /\ todo # <<>>
  BY DEF IInv, CallInv, CallOK, Hook, Busy
<1>2. Head(todo) = "remove"
  BY <1>1, OnlyPetsAreHooked DEF Hook
<1>3. Tail(todo) = <<>> /\ Runs(c, "remove")
  BY <1>1, <1>2 DEF PlanShape, Runs
<1>4. calls[c].wrote = FALSE /\ DOMAIN calls[c] = CallFields
  BY <1>3, FirstWrite DEF Writing, IInv
<1>5. PlanShape(<<"stamp">> \o <<>>)
  BY EdgesAreReads, WriteThenReads DEF Word
<1>6. TablesKept
  BY NothingKeeps DEF IInv, Hook
<1>7. calls' = [calls EXCEPT ![c].todo = <<"stamp">> \o <<>>]
  BY <1>3 DEF Hook, Pet!Rewritten
<1>8. CallOK(calls[c])'
  <2>1. /\ DOMAIN calls'[c] = CallFields /\ calls'[c].todo = <<"stamp">> \o <<>>
        /\ calls'[c].req = calls[c].req /\ calls'[c].wrote = FALSE
    BY <1>4, <1>7 DEF IInv, CallInv, CallFields
  <2> QED
    BY <1>1, <1>5, <2>1 DEF CallOK
<1>9. ASSUME NEW d \in Client \ {c} PROVE CallOK(calls[d])'
  BY <1>6, <1>7, SameStaysOK DEF Same, IInv, CallInv, TablesKept
<1> QED
  BY <1>6, <1>7, <1>8, <1>9 DEF IInv, CallInv, TablesKept

LEMMA RemoveStepKeeps == ASSUME IInv, NEW c \in Client, Remove(c) PROVE IInv' /\ DeletedStay
<1> DEFINE k == calls[c].req.kind
           hit == calls[c].req.ids \cap DOMAIN rows[k]
<1>1. /\ Busy(c) /\ calls[c].wrote = FALSE /\ k \in Kind /\ DOMAIN calls[c] = CallFields
      /\ Tail(calls[c].todo) = <<>>
  BY FirstWrite DEF IInv, Remove, Writing
<1>2. k # "pet" /\ next' = next
  BY <1>1, OnlyPetsAreHooked DEF Remove
<1>3. \/ \E status : Refuse(c, status) /\ UNCHANGED <<rows, links>>
      \/ /\ \A i \in hit : ~Referenced(k, i)
         /\ rows' = [rows EXCEPT ![k] = [i \in DOMAIN rows[k] \ hit |-> rows[k][i]]]
         /\ links' = {l \in links : ~(k = "tag" /\ l[2] \in hit)}
         /\ ProceedWriting(c, calls[c], k, hit)
  BY DEF Remove
<1>4. CASE \E status : Refuse(c, status) /\ UNCHANGED <<rows, links>>
  BY <1>1, <1>2, <1>4, NothingKeeps, RefuseKeeps DEF IInv, TablesKept
<1>5. CASE /\ \A i \in hit : ~Referenced(k, i)
           /\ rows' = [rows EXCEPT ![k] = [i \in DOMAIN rows[k] \ hit |-> rows[k][i]]]
           /\ links' = {l \in links : ~(k = "tag" /\ l[2] \in hit)}
           /\ ProceedWriting(c, calls[c], k, hit)
  <2> HIDE DEF hit
  <2>1. TablesKept
    BY <1>1, <1>2, <1>5, RemoveKeeps DEF IInv
  <2>2. CallInv'
    BY <1>1, <1>5, <2>1, WritingKeeps DEF IInv, TablesKept
  <2> QED
    BY <2>1, <2>2 DEF IInv, TablesKept
<1> QED
  BY <1>3, <1>4, <1>5

LEMMA StampStepKeeps == ASSUME IInv, NEW c \in Client, Stamp(c) PROVE IInv' /\ DeletedStay
<1> DEFINE m == Pet!DeletedAt(Pet!NoChange)
           hit == calls[c].req.ids \cap Pet!Prepared(rows["pet"])
           stamped == [i \in DOMAIN rows["pet"] |->
                         IF i \in hit THEN Pet!BulkSpec(rows["pet"][i], m) ELSE rows["pet"][i]]
<1>1. /\ Busy(c) /\ calls[c].wrote = FALSE /\ DOMAIN calls[c] = CallFields
      /\ Tail(calls[c].todo) = <<>>
  BY FirstWrite DEF IInv, Stamp, Writing
<1>2. UNCHANGED <<links, next>>
  BY DEF Stamp
<1>3. m = Pet!DeletedAt(NoChange)
  BY DEF NoChange, Pet!NoChange
<1>4. \/ \E status : Refuse(c, status) /\ UNCHANGED rows
      \/ rows' = [rows EXCEPT !["pet"] = stamped] /\ ProceedWriting(c, calls[c], "pet", hit)
  BY <1>3 DEF Stamp
<1>5. CASE \E status : Refuse(c, status) /\ UNCHANGED rows
  BY <1>1, <1>2, <1>5, NothingKeeps, RefuseKeeps DEF IInv, TablesKept
<1>6. CASE rows' = [rows EXCEPT !["pet"] = stamped] /\ ProceedWriting(c, calls[c], "pet", hit)
  <2>1. hit \subseteq Pet!Prepared(rows["pet"])
    OBVIOUS
  <2> HIDE DEF hit
  <2>2. TablesKept
    BY <1>2, <1>6, <2>1, StampKeeps DEF IInv
  <2>3. CallInv'
    BY <1>1, <1>6, <2>2, WritingKeeps DEF IInv, TablesKept
  <2> QED
    BY <2>2, <2>3 DEF IInv, TablesKept
<1> QED
  BY <1>4, <1>5, <1>6

\* A row that was handed out and is not found is deleted.
LEMMA MissedIsDeleted ==
    ASSUME RowInv, NEW k \in Kind, NEW id \in Nat, id < next[k], Only(k, id) = {}
    PROVE  Deleted(k, id)
<1>1. CASE k = "pet"
  BY <1>1 DEF Only, Of, Pet!Only, Pet!Prepared, Pet!Visible, Deleted
<1>2. CASE k # "pet"
  BY <1>2 DEF Kind, Only, Of, Category!Only, Category!Prepared, Category!Visible,
              Order!Only, Order!Prepared, Order!Visible, Tag!Only, Tag!Prepared, Tag!Visible,
              Deleted
<1> QED
  BY <1>1, <1>2

LEMMA SelectKeeps == ASSUME IInv, NEW c \in Client, Select(c) PROVE IInv' /\ DeletedStay
<1> DEFINE k == calls[c].req.kind
           found == Only(k, calls[c].id)
           read == Reading(calls[c], found)
<1>1. CallOK(calls[c]) /\ Busy(c) /\ DOMAIN calls[c] = CallFields
  BY DEF IInv, CallInv, CallOK, Select, Runs
<1>2. TablesKept
  BY NothingKeeps DEF IInv, Select
<1>3. (found = {} /\ Refuse(c, 404)) \/ Proceed(c, read)
  BY DEF Select
<1>4. CASE found = {} /\ Refuse(c, 404)
  <2>1. calls[c].wrote => calls[c].id \in Nat /\ Deleted(k, calls[c].id)
    BY <1>1, <1>4, MissedIsDeleted DEF CallOK, Busy, IInv
  <2> QED
    BY <1>2, <1>4, <2>1, RefuseKeeps DEF IInv, TablesKept
<1>5. CASE Proceed(c, read)
  <2>1. /\ DOMAIN read = CallFields /\ read.req = calls[c].req /\ read.todo = calls[c].todo
        /\ read.wrote = calls[c].wrote /\ read.id = calls[c].id
    BY <1>1 DEF Reading, CallFields
  <2> HIDE DEF read
  <2> QED
    BY <1>1, <1>2, <1>5, <2>1, ReadingKeeps DEF IInv, TablesKept
<1> QED
  BY <1>3, <1>4, <1>5

LEMMA CountRowsKeeps == ASSUME IInv, NEW c \in Client, CountRows(c) PROVE IInv' /\ DeletedStay
<1> DEFINE read == [calls[c] EXCEPT !.total = Count(calls[c].req.kind, calls[c].req.body)]
<1>1. Busy(c) /\ DOMAIN calls[c] = CallFields /\ Proceed(c, read)
  BY DEF IInv, CallInv, CallOK, CountRows, Runs
<1>2. TablesKept
  BY NothingKeeps DEF IInv, CountRows
<1>3. /\ DOMAIN read = CallFields /\ read.req = calls[c].req /\ read.todo = calls[c].todo
      /\ read.wrote = calls[c].wrote /\ read.id = calls[c].id
  BY <1>1 DEF CallFields
<1> HIDE DEF read
<1> QED
  BY <1>1, <1>2, <1>3, ReadingKeeps DEF IInv, TablesKept

LEMMA PageKeeps == ASSUME IInv, NEW c \in Client, Page(c) PROVE IInv' /\ DeletedStay
<1> DEFINE found == All(calls[c].req.kind, calls[c].req.body)
           read == Reading(calls[c], found)
<1>1. Busy(c) /\ DOMAIN calls[c] = CallFields
  BY DEF IInv, CallInv, CallOK, Page, Runs
<1>2. TablesKept
  BY NothingKeeps DEF IInv, Page
<1>3. Refuse(c, 200) \/ Proceed(c, read)
  BY DEF Page
<1>4. CASE Refuse(c, 200)
  BY <1>2, <1>4, RefuseKeeps DEF IInv, TablesKept
<1>5. CASE Proceed(c, read)
  <2>1. /\ DOMAIN read = CallFields /\ read.req = calls[c].req /\ read.todo = calls[c].todo
        /\ read.wrote = calls[c].wrote /\ read.id = calls[c].id
    BY <1>1 DEF Reading, CallFields
  <2> HIDE DEF read
  <2> QED
    BY <1>1, <1>2, <1>5, <2>1, ReadingKeeps DEF IInv, TablesKept
<1> QED
  BY <1>3, <1>4, <1>5

LEMMA LoadKeeps ==
    ASSUME IInv, NEW c \in Client, NEW edge, NEW neighbours, Load(c, edge, neighbours)
    PROVE  IInv' /\ DeletedStay
<1> DEFINE read == [calls[c] EXCEPT !.edges = [i \in DOMAIN calls[c].nodes |->
                      [calls[c].edges[i] EXCEPT ![edge] = neighbours[i]]]]
<1>1. Busy(c) /\ DOMAIN calls[c] = CallFields /\ Proceed(c, read)
  BY DEF IInv, CallInv, CallOK, Load, Runs
<1>2. TablesKept
  BY NothingKeeps DEF IInv, Load
<1>3. /\ DOMAIN read = CallFields /\ read.req = calls[c].req /\ read.todo = calls[c].todo
      /\ read.wrote = calls[c].wrote /\ read.id = calls[c].id
  BY <1>1 DEF CallFields
<1> HIDE DEF read
<1> QED
  BY <1>1, <1>2, <1>3, ReadingKeeps DEF IInv, TablesKept

LEMMA FailKeeps == ASSUME IInv, NEW c \in Client, Fail(c) PROVE IInv' /\ DeletedStay
<1>1. TablesKept
  BY NothingKeeps DEF IInv, Fail
<1> QED
  BY <1>1, RefuseKeeps DEF IInv, Fail, TablesKept

LEMMA StutterKeeps == ASSUME IInv, UNCHANGED vars PROVE IInv' /\ DeletedStay
<1>1. TablesKept
  BY NothingKeeps DEF IInv, vars
<1>2. ASSUME NEW d \in Client PROVE CallOK(calls[d])'
  BY <1>1, SameStaysOK DEF Same, IInv, CallInv, TablesKept, vars
<1> QED
  BY <1>1, <1>2 DEF IInv, CallInv, TablesKept, vars

LEMMA StatementKeeps ==
    ASSUME IInv, NEW c \in Client, Statement(c) PROVE IInv' /\ DeletedStay
<1>1. LoadCategory(c) \/ LoadTags(c) \/ LoadPet(c) => IInv' /\ DeletedStay
  BY LoadKeeps DEF LoadCategory, LoadTags, LoadPet
<1> QED
  BY <1>1, InsertStepKeeps, UpdateStepKeeps, HookKeeps, RemoveStepKeeps, StampStepKeeps,
     SelectKeeps, CountRowsKeeps, PageKeeps DEF Statement

LEMMA NextKeeps == ASSUME IInv, [Next]_vars PROVE IInv'
BY StatementKeeps, FailKeeps, RequestKeeps, StutterKeeps DEF Next

-----------------------------------------------------------------------------
\* In no order of creates, moves, deletes and failures does a row lose one that
\* it refers to, for whatever seed the foreign keys accept.
THEOREM ForeignKeysHold == Spec => []NoOrphans
<1>1. Spec => []IInv
  BY InitEstablishes, NextKeeps, PTL DEF Spec
<1>2. IInv => NoOrphans
  BY DEF IInv
<1> QED
  BY <1>1, <1>2, PTL

\* A refusal after a write is a 404 for a row that somebody has deleted since.
THEOREM RefusalsAreClean == Spec => []RefusedMeansUnwritten
<1>1. Spec => []IInv
  BY InitEstablishes, NextKeeps, PTL DEF Spec
<1>2. IInv => RefusedMeansUnwritten
  BY DEF IInv, CallInv, CallOK, RefusedMeansUnwritten, Busy
<1> QED
  BY <1>1, <1>2, PTL

-----------------------------------------------------------------------------
(***************************************************************************)
(* Answers.  AnswerOK strengthens AnswersAreTrue and EchoesItsWrite to     *)
(* requests at work: which statements are left tells what has been read so *)
(* far, and all of it stays true while other requests run, unless they are *)
(* recorded to have overtaken this one.                                    *)
(***************************************************************************)
\* What is left of a plan once its rows are read, and before.
Whole(k) ==
    IF k = "pet" THEN <<"category", "tags">> ELSE IF k = "order" THEN <<"pet">> ELSE <<>>
Pending(k) ==
    IF k = "pet" THEN {<<"category", "tags">>, <<"tags">>, <<>>}
    ELSE IF k = "order" THEN {<<"pet">>, <<>>} ELSE {<<>>}
Selecting(k) ==
    IF k = "pet" THEN <<"select", "category", "tags">>
    ELSE IF k = "order" THEN <<"select", "pet">> ELSE <<"select">>
Paging(k) ==
    IF k = "pet" THEN <<"page", "category", "tags">>
    ELSE IF k = "order" THEN <<"page", "pet">> ELSE <<"page">>
Counting(k) ==
    IF k = "pet" THEN <<"count", "page", "category", "tags">>
    ELSE IF k = "order" THEN <<"count", "page", "pet">> ELSE <<"count", "page">>
Saving(k, w) ==
    IF k = "pet" THEN <<w, "select", "category", "tags">>
    ELSE IF k = "order" THEN <<w, "select", "pet">> ELSE <<w>>
Saved(k) == IF k \in {"pet", "order"} THEN Selecting(k) ELSE <<>>

Before(k, op) ==
    CASE op = "get"    -> {Selecting(k)}
      [] op = "list"   -> {Counting(k), Paging(k)}
      [] op = "create" -> {Saving(k, "insert"), Selecting(k)}
      [] op = "patch"  -> {Saving(k, "update"), Selecting(k)}
      [] OTHER         -> {<<"remove">>, <<"stamp">>}

\* What may be left of a request.
Remaining(k, op) == Pending(k) \cup Before(k, op)

\* The rows are read, and the request has not been refused.
HasRead(call) ==
    call.todo \in Pending(call.req.kind) /\ (call.todo # <<>> \/ call.status \in {200, 201})

\* A list and a delete have no rows before they read them.
PlanOK(call) ==
    /\ call.todo \in Remaining(call.req.kind, call.req.op)
    /\ call.req.op = "list" /\ call.todo \notin Pending(call.req.kind) => DOMAIN call.nodes = {}
    /\ call.req.op \notin {"list", "get", "create", "patch"} => DOMAIN call.nodes = {}
    /\ DOMAIN call.edges = DOMAIN call.nodes

GoneOK(call) ==
    \A g \in call.gone : \E j \in Kind, i \in Nat : g = <<j, i>> /\ Deleted(j, i)

\* A pet's category is there or was deleted, and an edge that was not loaded
\* had been deleted by then.
PetTrue(call, e, x) ==
    /\ e.category_id \in Nat /\ e.category_id < next["category"]
    /\ call.todo # <<"category", "tags">> =>
         /\ x.category = Null => Deleted("category", e.category_id)
         /\ <<"category", x.category>> \notin call.gone
    /\ call.todo = <<>> => \A t \in x.tags : <<"tag", t>> \notin call.gone

OrderTrue(call, e, x) ==
    /\ e.pet_id \in DOMAIN rows["pet"]
    /\ call.todo = <<>> =>
         /\ x.pet = Null => Deleted("pet", e.pet_id)
         /\ <<"pet", x.pet>> \notin call.gone

NodeTrue(call, i) ==
    /\ <<call.req.kind, i>> \notin call.gone
    /\ call.edges[i] \in [category : {call.edges[i].category}, tags : {call.edges[i].tags},
                          pet : {call.edges[i].pet}]
    /\ call.req.kind = "pet" =>
          i \in DOMAIN rows["pet"] /\ PetTrue(call, call.nodes[i], call.edges[i])
    /\ call.req.kind = "order" => OrderTrue(call, call.nodes[i], call.edges[i])

NodesTrue(call) == HasRead(call) => \A i \in DOMAIN call.nodes : NodeTrue(call, i)

\* A list that nobody wrote under has counted the rows its page returns.
TotalTrue(call) ==
    call.req.op = "list" /\ call.raced = FALSE =>
      /\ call.todo = Paging(call.req.kind) =>
           call.total = Cardinality(All(call.req.kind, call.req.body))
      /\ HasRead(call) => call.total = Cardinality(DOMAIN call.nodes)

\* The keys an entity's payloads may carry; what a row, and what an entity on
\* the wire, has to say of the values a payload gave and of its nulls.
Keys(k) == Of(k, Category!PatchRequestTags, Order!PatchRequestTags,
                 Pet!PatchRequestTags, Tag!PatchRequestTags)

Says(row, req) ==
    \A key \in DOMAIN req.body :
      /\ req.body[key] # Null => row[key] = req.body[key]
      /\ req.body[key] = Null /\ req.op = "patch" => row[key] = Null

Shows(k, e, req) ==
    \A key \in DOMAIN req.body :
      /\ req.body[key] # Null => Response(k, e, NoEdges)[key] = Shown(key, req.body[key])
      /\ req.body[key] = Null /\ req.op = "patch" => Response(k, e, NoEdges)[key] = Null

\* The row that a request has written says what it was told until somebody else
\* writes it, and so does what the request reads of it.
EchoTrue(call) ==
    call.req.op \in {"create", "patch"} =>
      /\ call.todo # <<>> \/ call.status \in {200, 201} =>
           DOMAIN call.req.body \subseteq Keys(call.req.kind)
      /\ call.todo = Selecting(call.req.kind) /\ call.raced = FALSE =>
           \/ DOMAIN call.req.body = {}
           \/ /\ call.wrote = TRUE /\ call.id \in DOMAIN rows[call.req.kind]
              /\ Says(rows[call.req.kind][call.id], call.req)
      /\ HasRead(call) /\ call.raced = FALSE =>
           /\ DOMAIN call.nodes = {call.id}
           /\ Shows(call.req.kind, call.nodes[call.id], call.req)

AnswerOK(call) ==
    /\ call.raced \in BOOLEAN
    /\ PlanOK(call) /\ GoneOK(call) /\ NodesTrue(call) /\ TotalTrue(call) /\ EchoTrue(call)

AnswerInv == \A c \in Client : AnswerOK(calls[c])

-----------------------------------------------------------------------------
(* Plans, statement by statement. *)

\* A sequence is its head before its tail.
LEMMA Cons ==
    ASSUME NEW S, NEW u \in Seq(S), u # <<>>
    PROVE  <<Head(u)>> \o Tail(u) = u
<1> DEFINE w == Head(u)
           t == Tail(u)
           v == <<w>> \o t
<1>1. /\ w \in S /\ t \in Seq(S) /\ Len(u) \in Nat /\ Len(u) > 0 /\ Len(t) = Len(u) - 1 /\ w = u[1]
      /\ \A i \in 1..Len(u) - 1 : t[i] = u[i + 1]
  OBVIOUS
<1>2. <<w>> \in Seq(S) /\ Len(<<w>>) = 1 /\ <<w>>[1] = w
  BY <1>1
<1> HIDE DEF w, t
<1>3. /\ v \in Seq(S) /\ Len(v) = 1 + Len(t)
      /\ \A i \in 1..1 + Len(t) : v[i] = IF i <= 1 THEN w ELSE t[i - 1]
  BY <1>1, <1>2, ConcatProperties
<1> HIDE DEF v
<1>4. \A i \in 1..Len(u) : v[i] = u[i]
  BY <1>1, <1>3
<1>5. v = u
  BY <1>1, <1>3, <1>4, SeqEqual
<1> QED
  BY <1>5 DEF v, w, t

LEMMA Concat2 ==
    ASSUME NEW a, NEW b
    PROVE  <<a>> \o <<b>> = <<a, b>>
<1> DEFINE S == {a, b}
<1>1. /\ Head(<<a, b>>) = a /\ Tail(<<a, b>>) = <<b>> /\ <<a, b>> # <<>>
      /\ <<a, b>> \in Seq(S)
  OBVIOUS
<1> QED
  BY <1>1, Cons

LEMMA Concat3 ==
    ASSUME NEW a, NEW b, NEW c
    PROVE  <<a>> \o <<b, c>> = <<a, b, c>> /\ <<a, b>> \o <<c>> = <<a, b, c>>
<1> DEFINE S == {a, b, c}
<1>1. /\ Head(<<a, b, c>>) = a /\ Tail(<<a, b, c>>) = <<b, c>> /\ <<a, b, c>> # <<>>
      /\ <<a>> \in Seq(S) /\ <<b>> \in Seq(S) /\ <<c>> \in Seq(S) /\ <<a, b, c>> \in Seq(S)
  OBVIOUS
<1> HIDE DEF S
<1>2. <<a>> \o <<b, c>> = <<a, b, c>>
  BY <1>1, Cons
<1>3. (<<a>> \o <<b>>) \o <<c>> = <<a>> \o (<<b>> \o <<c>>)
  BY <1>1, ConcatAssociative
<1> QED
  BY <1>2, <1>3, Concat2

LEMMA Concat4 ==
    ASSUME NEW a, NEW b, NEW c, NEW d
    PROVE  <<a>> \o <<b, c, d>> = <<a, b, c, d>> /\ <<a, b>> \o <<c, d>> = <<a, b, c, d>>
<1> DEFINE S == {a, b, c, d}
<1>1. /\ Head(<<a, b, c, d>>) = a /\ Tail(<<a, b, c, d>>) = <<b, c, d>>
      /\ <<a, b, c, d>> # <<>> /\ <<a, b, c, d>> \in Seq(S)
      /\ <<a>> \in Seq(S) /\ <<b>> \in Seq(S) /\ <<c, d>> \in Seq(S)
  OBVIOUS
<1> HIDE DEF S
<1>2. <<a>> \o <<b, c, d>> = <<a, b, c, d>>
  BY <1>1, Cons
<1>3. (<<a>> \o <<b>>) \o <<c, d>> = <<a>> \o (<<b>> \o <<c, d>>)
  BY <1>1, ConcatAssociative
<1> QED
  BY <1>2, <1>3, Concat2, Concat3

LEMMA PlanIs ==
    ASSUME NEW k \in Kind, NEW op \in Operation
    PROVE  Plan(k, op) = CASE op = "get"    -> Selecting(k)
                           [] op = "list"   -> Counting(k)
                           [] op = "create" -> Saving(k, "insert")
                           [] op = "patch"  -> Saving(k, "update")
                           [] OTHER         -> <<"remove">>
<1>1. /\ <<"select">> \o <<"category", "tags">> = <<"select", "category", "tags">>
      /\ <<"select">> \o <<"pet">> = <<"select", "pet">>
      /\ <<"count", "page">> \o <<"category", "tags">> = <<"count", "page", "category", "tags">>
      /\ <<"count", "page">> \o <<"pet">> = <<"count", "page", "pet">>
  BY Concat2, Concat3, Concat4, ZenonT(60)
<1>2. \A w : /\ <<w>> \o <<"select", "category", "tags">> = <<w, "select", "category", "tags">>
            /\ <<w>> \o <<"select", "pet">> = <<w, "select", "pet">>
  BY Concat3, Concat4, ZenonT(60)
<1>3. \A s \in {<<"select">>, <<"count", "page">>, <<"insert">>, <<"update">>} : s \o <<>> = s
  OBVIOUS
<1>4. CASE k = "category"
  <2>1. Plan(k, op) = Category!Plan(op)
    BY <1>4 DEF Plan, Of
  <2> QED
    BY <1>3, <1>4, <2>1 DEF Category!Plan, Category!ResponseEdges, Category!Mutate,
       Category!Reloaded, Operation, Selecting, Counting, Saving
<1>5. CASE k = "tag"
  <2>1. Plan(k, op) = Tag!Plan(op)
    BY <1>5 DEF Plan, Of
  <2> QED
    BY <1>3, <1>5, <2>1 DEF Tag!Plan, Tag!ResponseEdges, Tag!Mutate, Tag!Reloaded, Operation,
       Selecting, Counting, Saving
<1>6. CASE k = "order"
  <2>1. Plan(k, op) = Order!Plan(op)
    BY <1>6 DEF Plan, Of
  <2> QED
    BY <1>1, <1>2, <1>6, <2>1 DEF Order!Plan, Order!ResponseEdges, Order!Mutate, Order!Reloaded,
       Operation, Selecting, Counting, Saving
<1>7. CASE k = "pet"
  <2>1. Plan(k, op) = Pet!Plan(op)
    BY <1>7 DEF Plan, Of
  <2> QED
    BY <1>1, <1>2, <1>7, <2>1 DEF Pet!Plan, Pet!ResponseEdges, Pet!Mutate, Pet!Reloaded,
       Operation, Selecting, Counting, Saving
<1> QED
  BY <1>4, <1>5, <1>6, <1>7 DEF Kind

\* What comes after each statement.
LEMMA Tails ==
    ASSUME NEW k \in Kind
    PROVE  /\ Tail(Selecting(k)) = Whole(k) /\ Tail(Paging(k)) = Whole(k)
           /\ Tail(Counting(k)) = Paging(k)
           /\ \A w : Tail(Saving(k, w)) = Saved(k)
           /\ Tail(<<"category", "tags">>) = <<"tags">> /\ Tail(<<"tags">>) = <<>>
           /\ Tail(<<"pet">>) = <<>>
<1>1. CASE k = "pet"
  BY <1>1 DEF Selecting, Paging, Counting, Saving, Saved, Whole
<1>2. CASE k = "order"
  BY <1>2 DEF Selecting, Paging, Counting, Saving, Saved, Whole
<1>3. CASE k \notin {"pet", "order"}
  BY <1>3 DEF Selecting, Paging, Counting, Saving, Saved, Whole
<1> QED
  BY <1>1, <1>2, <1>3

\* Its head tells a list of statements apart.
LEMMA Heads ==
    ASSUME NEW k \in Kind
    PROVE  /\ Selecting(k) # <<>> /\ Head(Selecting(k)) = "select"
           /\ Paging(k) # <<>> /\ Head(Paging(k)) = "page"
           /\ Counting(k) # <<>> /\ Head(Counting(k)) = "count"
           /\ \A w : Saving(k, w) # <<>> /\ Head(Saving(k, w)) = w
           /\ <<"category", "tags">> # <<>> /\ Head(<<"category", "tags">>) = "category"
           /\ \A w : <<w>> # <<>> /\ Head(<<w>>) = w
<1>1. CASE k = "pet"
  BY <1>1 DEF Selecting, Paging, Counting, Saving
<1>2. CASE k = "order"
  BY <1>2 DEF Selecting, Paging, Counting, Saving
<1>3. CASE k \notin {"pet", "order"}
  BY <1>3 DEF Selecting, Paging, Counting, Saving
<1> QED
  BY <1>1, <1>2, <1>3

LEMMA PendingHeads ==
    ASSUME NEW k \in Kind, NEW todo \in Pending(k)
    PROVE  \/ todo = <<>>
           \/ k = "pet" /\ todo = <<"category", "tags">> /\ Head(todo) = "category"
           \/ k = "pet" /\ todo = <<"tags">> /\ Head(todo) = "tags"
           \/ k = "order" /\ todo = <<"pet">> /\ Head(todo) = "pet"
BY Heads DEF Pending

\* The head of what is left tells the operation and what comes after.
LEMMA Stages ==
    ASSUME NEW k \in Kind, NEW op, NEW todo \in Remaining(k, op), todo # <<>>
    PROVE  /\ Head(todo) = "insert" => op = "create" /\ todo = Saving(k, "insert")
           /\ Head(todo) = "update" => op = "patch" /\ todo = Saving(k, "update")
           /\ Head(todo) = "select" =>
                op \in {"get", "create", "patch"} /\ todo = Selecting(k)
           /\ Head(todo) = "count" => op = "list" /\ todo = Counting(k)
           /\ Head(todo) = "page" => op = "list" /\ todo = Paging(k)
           /\ Head(todo) = "category" => k = "pet" /\ todo = <<"category", "tags">>
           /\ Head(todo) = "tags" => k = "pet" /\ todo = <<"tags">>
           /\ Head(todo) = "pet" => k = "order" /\ todo = <<"pet">>
           /\ Head(todo) = "remove" => op \notin {"list", "get", "create", "patch"}
           /\ Head(todo) = "stamp" => op \notin {"list", "get", "create", "patch"}
<1>1. CASE todo \in Pending(k)
  BY <1>1, PendingHeads
<1>2. CASE todo \in Before(k, op)
  BY <1>2, Heads DEF Before
<1> QED
  BY <1>1, <1>2 DEF Remaining

\* No rows are read before the last statement that reads them, and a save that
\* needs no second read has them at once.
LEMMA Unread ==
    ASSUME NEW k \in Kind
    PROVE  /\ <<>> \in Pending(k) /\ Whole(k) \in Pending(k)
           /\ k = "pet" => <<"tags">> \in Pending(k)
           /\ Selecting(k) \notin Pending(k) /\ Paging(k) \notin Pending(k)
           /\ Counting(k) \notin Pending(k) /\ Paging(k) # Counting(k)
           /\ \A w \in {"insert", "update"} :
                Saving(k, w) \notin Pending(k) /\ Saving(k, w) # Selecting(k)
           /\ \A w \in {"remove", "stamp"} : <<w>> \notin Pending(k)
           /\ Whole(k) # Selecting(k) /\ Whole(k) # Paging(k)
           /\ \/ k \in {"pet", "order"} /\ Saved(k) = Selecting(k)
              \/ k \notin {"pet", "order"} /\ Saved(k) = <<>>
<1>1. Whole(k) \in Pending(k) /\ <<>> \in Pending(k) /\ (k = "pet" => <<"tags">> \in Pending(k))
  BY DEF Whole, Pending
<1>2. /\ Selecting(k) \notin Pending(k) /\ Paging(k) \notin Pending(k)
      /\ Counting(k) \notin Pending(k) /\ Paging(k) # Counting(k)
  BY PendingHeads, Heads
<1>3. /\ \A w \in {"insert", "update"} :
                Saving(k, w) \notin Pending(k) /\ Saving(k, w) # Selecting(k)
      /\ \A w \in {"remove", "stamp"} : <<w>> \notin Pending(k)
  BY PendingHeads, Heads
<1> QED
  BY <1>1, <1>2, <1>3 DEF Saved

-----------------------------------------------------------------------------
(***************************************************************************)
(* What the entities write and read back.                                  *)
(***************************************************************************)
LEMMA KeysAre ==
    /\ Keys("category") = {"name"} /\ Keys("tag") = {"name"}
    /\ Keys("order") = {"quantity", "status", "ship_date", "pet_id"}
    /\ Keys("pet") = {"name", "status", "price", "photo_urls", "category_id"}
BY DEF Keys, Of, Category!PatchRequestTags, Order!PatchRequestTags, Pet!PatchRequestTags,
       Tag!PatchRequestTags

LEMMA KeysAreColumns == ASSUME NEW k \in Kind PROVE Keys(k) \subseteq Columns(k)
BY KeysAre DEF Kind, Columns, Of, Category!Columns, Order!Columns, Pet!Columns, Tag!Columns

\* The builder of a create sets what the payload carried, and its defaults leave
\* that alone.
LEMMA CreateSays ==
    ASSUME NEW k \in Kind, NEW b, NEW key \in DOMAIN b, key \in Keys(k), b[key] # Null
    PROVE  CreateSpec(k, CreateOf(k, b))[key] = b[key]
<1>1. CASE k = "category"
  BY <1>1, KeysAre DEF CreateSpec, CreateOf, Of, Category!CreateSpec, Category!Inserted,
     Category!Defaults, Category!ApplyCreate, Category!PutCarried, Category!Carries,
     Category!Given, Category!CreateRequestTags, Category!Columns
<1>2. CASE k = "tag"
  BY <1>2, KeysAre DEF CreateSpec, CreateOf, Of, Tag!CreateSpec, Tag!Inserted, Tag!Defaults,
     Tag!ApplyCreate, Tag!PutCarried, Tag!Carries, Tag!Given, Tag!CreateRequestTags, Tag!Columns
<1>3. CASE k = "order"
  <2> DEFINE m == Order!ApplyCreate(b)
  <2>1. key \in DOMAIN m.set /\ m.set[key] = b[key] /\ m = [set |-> m.set, cleared |-> m.cleared]
    BY <1>3, KeysAre DEF Order!ApplyCreate, Order!PutCarried, Order!Carries,
       Order!CreateRequestTags
  <2> HIDE DEF m
  <2>2. /\ key \in DOMAIN Order!Defaults(m).set /\ Order!Defaults(m).set[key] = b[key]
    BY <2>1 DEF Order!Defaults, Order!PutDefault, Order!Put, Order!Given
  <2> QED
    BY <1>3, <2>2, KeysAre DEF CreateSpec, CreateOf, Of, Order!CreateSpec, Order!Inserted,
       Order!Given, Order!Columns, m
<1>4. CASE k = "pet"
  <2> DEFINE m == Pet!ApplyCreate(b)
             n == Pet!PutDefault(m, "status", Pet!DefaultStatus)
             o == Pet!PutDefault(n, "price", 0)
  <2>1. key \in DOMAIN m.set /\ m.set[key] = b[key] /\ m = [set |-> m.set, cleared |-> m.cleared]
    BY <1>4, KeysAre DEF Pet!ApplyCreate, Pet!PutCarried, Pet!Carries, Pet!CreateRequestTags
  <2> HIDE DEF m
  <2>2. key \in DOMAIN n.set /\ n.set[key] = b[key] /\ n = [set |-> n.set, cleared |-> n.cleared]
    BY <2>1 DEF Pet!PutDefault, Pet!Put, Pet!Given
  <2> HIDE DEF n
  <2>3. key \in DOMAIN o.set /\ o.set[key] = b[key]
    BY <2>2 DEF Pet!PutDefault, Pet!Put, Pet!Given
  <2>4. CreateOf(k, b) = o
    BY <1>4 DEF CreateOf, Of, Pet!Defaults, m, n
  <2> HIDE DEF o
  <2> QED
    BY <1>4, <2>3, <2>4, KeysAre DEF CreateSpec, Of, Pet!CreateSpec, Pet!Inserted, Pet!Given,
       Pet!Columns
<1> QED
  BY <1>1, <1>2, <1>3, <1>4 DEF Kind

\* The builder of a patch sets what the payload carried and clears its nulls.
LEMMA PatchSays ==
    ASSUME NEW k \in Kind, NEW row, DOMAIN row = Columns(k), NEW b, NEW key \in DOMAIN b,
           key \in Keys(k)
    PROVE  UpdateSpec(k, row, PatchOf(k, b))[key] = b[key]
<1>0. key \in DOMAIN row
  BY KeysAreColumns
<1>1. CASE k = "category"
  BY <1>0, <1>1, KeysAre DEF UpdateSpec, PatchOf, Of, Category!UpdateSpec, Category!Overlay,
     Category!ApplyPatch, Category!PutOrClear, Category!PutCarried, Category!Carries,
     Category!Clears, Category!Given, Category!PatchRequestTags
<1>2. CASE k = "tag"
  BY <1>0, <1>2, KeysAre DEF UpdateSpec, PatchOf, Of, Tag!UpdateSpec, Tag!Overlay,
     Tag!ApplyPatch, Tag!PutOrClear, Tag!PutCarried, Tag!Carries, Tag!Clears, Tag!Given,
     Tag!PatchRequestTags
<1>3. CASE k = "order"
  BY <1>0, <1>3, KeysAre DEF UpdateSpec, PatchOf, Of, Order!UpdateSpec, Order!Overlay,
     Order!ApplyPatch, Order!PutOrClear, Order!PutCarried, Order!Carries, Order!Clears,
     Order!Given, Order!PatchRequestTags
<1>4. CASE k = "pet"
  BY <1>0, <1>4, KeysAre DEF UpdateSpec, PatchOf, Of, Pet!UpdateSpec, Pet!Overlay,
     Pet!ApplyPatch, Pet!PutOrClear, Pet!PutCarried, Pet!Carries, Pet!Clears, Pet!Given,
     Pet!PatchRequestTags
<1> QED
  BY <1>1, <1>2, <1>3, <1>4 DEF Kind

\* A mutation that changes nothing is of a payload that says nothing.
LEMMA NoChangeSaysNothing ==
    ASSUME NEW k \in Kind, NEW b, DOMAIN b \subseteq Keys(k), PatchOf(k, b) = NoChange
    PROVE  DOMAIN b = {}
<1>1. DOMAIN PatchOf(k, b).set = {} /\ PatchOf(k, b).cleared = {}
  BY DEF NoChange
<1>2. CASE k = "category"
  BY <1>1, <1>2, KeysAre DEF PatchOf, Of, Category!ApplyPatch, Category!PutOrClear,
     Category!PutCarried, Category!Carries, Category!Clears, Category!PatchRequestTags
<1>3. CASE k = "tag"
  BY <1>1, <1>3, KeysAre DEF PatchOf, Of, Tag!ApplyPatch, Tag!PutOrClear, Tag!PutCarried,
     Tag!Carries, Tag!Clears, Tag!PatchRequestTags
<1>4. CASE k = "order"
  BY <1>1, <1>4, KeysAre DEF PatchOf, Of, Order!ApplyPatch, Order!PutOrClear,
     Order!PutCarried, Order!Carries, Order!Clears, Order!PatchRequestTags
<1>5. CASE k = "pet"
  BY <1>1, <1>5, KeysAre DEF PatchOf, Of, Pet!ApplyPatch, Pet!PutOrClear, Pet!PutCarried,
     Pet!Carries, Pet!Clears, Pet!PatchRequestTags
<1> QED
  BY <1>2, <1>3, <1>4, <1>5 DEF Kind

\* What is written comes back on the wire.  Null never is a value on it, but for
\* a price of 0, which EchoesItsWrite reads as nothing.
LEMMA WireShowsRow ==
    ASSUME NEW k \in Kind, NEW id, NEW row, NEW key \in Keys(k)
    PROVE  Response(k, Entity(k, id, row), NoEdges)[key] =
              IF row[key] = Null THEN Null ELSE Shown(key, row[key])
<1>1. CASE k = "category"
  BY <1>1, KeysAre DEF Response, Entity, Of, Category!Response, Category!Entity, Shown
<1>2. CASE k = "tag"
  BY <1>2, KeysAre DEF Response, Entity, Of, Tag!Response, Tag!Entity, Shown
<1>3. CASE k = "order"
  BY <1>3, KeysAre DEF Response, Entity, Of, Order!Response, Order!Entity, Shown, NoEdges
<1>4. CASE k = "pet"
  BY <1>4, KeysAre DEF Response, Entity, Of, Pet!Response, Pet!Entity, Shown, NoEdges,
     Pet!PtrOrNil, Pet!Scan, PtrOrNil
<1> QED
  BY <1>1, <1>2, <1>3, <1>4 DEF Kind

LEMMA SaysShows ==
    ASSUME NEW k \in Kind, NEW id, NEW row, NEW req, DOMAIN req.body \subseteq Keys(k),
           Says(row, req)
    PROVE  Shows(k, Entity(k, id, row), req)
BY WireShowsRow DEF Says, Shows

\* The keys of a payload are none that an eager load fills.
LEMMA EdgesLeaveKeys ==
    ASSUME NEW k \in Kind, NEW e, NEW x, NEW key \in Keys(k)
    PROVE  Response(k, e, x)[key] = Response(k, e, NoEdges)[key]
<1>1. CASE k = "category"
  BY <1>1 DEF Response, Of, Category!Response
<1>2. CASE k = "tag"
  BY <1>2 DEF Response, Of, Tag!Response
<1>3. CASE k = "order"
  BY <1>3, KeysAre DEF Response, Of, Order!Response, NoEdges
<1>4. CASE k = "pet"
  BY <1>4, KeysAre DEF Response, Of, Pet!Response, NoEdges
<1> QED
  BY <1>1, <1>2, <1>3, <1>4 DEF Kind

\* A value that a request's reader reports is the one it carried.
LEMMA ReadsCarried ==
    ASSUME NEW k \in Kind, NEW b, NEW key \in DOMAIN b, key \in Keys(k)
    PROVE  /\ b[key] # Null => Reads(k, b, key) = <<b[key]>>
           /\ b[key] = Null => Reads(k, b, key) = <<>>
<1>1. CASE k = "category"
  BY <1>1, KeysAre DEF Reads, Of, Category!Reads, Category!PatchRequestTags, Category!Carries
<1>2. CASE k = "tag"
  BY <1>2, KeysAre DEF Reads, Of, Tag!Reads, Tag!PatchRequestTags, Tag!Carries
<1>3. CASE k = "order"
  BY <1>3, KeysAre DEF Reads, Of, Order!Reads, Order!PatchRequestTags, Order!Carries
<1>4. CASE k = "pet"
  BY <1>4, KeysAre DEF Reads, Of, Pet!Reads, Pet!PatchRequestTags, Pet!Carries
<1> QED
  BY <1>1, <1>2, <1>3, <1>4 DEF Kind

\* A handler refuses with an error, and a payload with keys of its own.
LEMMA Refusals ==
    ASSUME NEW r, r.kind \in Kind, r.op \in Operation
    PROVE  /\ Refusal(r) \in {0, 400, 405, 422}
           /\ Refusal(r) = 0 /\ r.op \in {"create", "patch"} =>
                DOMAIN r.body \subseteq Keys(r.kind)
<1> DEFINE b == r.body
           id == PathId(r)
<1>1. CASE r.kind = "category"
  <2>1. Handle(r) \in {0, 400, 405, 422}
    BY <1>1 DEF Handle, Of, Operation, Category!HandleList, Category!HandleCreate,
       Category!HandleGet, Category!HandlePatch, Category!HandleDelete
  <2>2. Handle(r) = 0 /\ r.op \in {"create", "patch"} => DOMAIN r.body \subseteq {"name"}
    BY <1>1 DEF Handle, Of, Category!HandleCreate, Category!HandlePatch, Category!Decodes,
       Category!CreateRequestTags, Category!PatchRequestTags
  <2> QED
    BY <1>1, <2>1, <2>2, KeysAre DEF Refusal
<1>2. CASE r.kind = "tag"
  <2>1. Handle(r) \in {0, 400, 405, 422}
    BY <1>2 DEF Handle, Of, Operation, Tag!HandleList, Tag!HandleCreate, Tag!HandleGet,
       Tag!HandlePatch, Tag!HandleDelete
  <2>2. Handle(r) = 0 /\ r.op \in {"create", "patch"} => DOMAIN r.body \subseteq {"name"}
    BY <1>2 DEF Handle, Of, Tag!HandleCreate, Tag!HandlePatch, Tag!Decodes,
       Tag!CreateRequestTags, Tag!PatchRequestTags
  <2> QED
    BY <1>2, <2>1, <2>2, KeysAre DEF Refusal
<1>3. CASE r.kind = "order"
  <2>1. Handle(r) \in {0, 400, 405, 422}
    BY <1>3 DEF Handle, Of, Operation, Order!HandleList, Order!HandleCreate,
       Order!HandleGet, Order!HandlePatch
  <2>2. Handle(r) = 0 /\ r.op \in {"create", "patch"} =>
          DOMAIN r.body \subseteq {"quantity", "status", "ship_date", "pet_id"}
    BY <1>3 DEF Handle, Of, Order!HandleCreate, Order!HandlePatch, Order!Decodes,
       Order!CreateRequestTags, Order!PatchRequestTags
  <2> QED
    BY <1>3, <2>1, <2>2, KeysAre DEF Refusal
<1>4. CASE r.kind = "pet"
  <2>1. Handle(r) \in {0, 400, 405, 422}
    BY <1>4 DEF Handle, Of, Operation, Pet!HandleList, Pet!HandleCreate, Pet!HandleGet,
       Pet!HandlePatch, Pet!HandleDelete
  <2>2. Handle(r) = 0 /\ r.op \in {"create", "patch"} =>
          DOMAIN r.body \subseteq {"name", "status", "price", "photo_urls", "category_id"}
    BY <1>4 DEF Handle, Of, Pet!HandleCreate, Pet!HandlePatch, Pet!Decodes,
       Pet!CreateRequestTags, Pet!PatchRequestTags
  <2> QED
    BY <1>4, <2>1, <2>2, KeysAre DEF Refusal
<1> QED
  BY <1>1, <1>2, <1>3, <1>4 DEF Kind

\* The entities count with the same operator.
LEMMA SameCardinality ==
    \A S : /\ Category!Cardinality(S) = Cardinality(S) /\ Order!Cardinality(S) = Cardinality(S)
           /\ Pet!Cardinality(S) = Cardinality(S) /\ Tag!Cardinality(S) = Cardinality(S)
<1>1. \A S : Category!Cardinality(S) = Cardinality(S)
  BY DEF Category!Cardinality, Cardinality
<1>2. \A S : Order!Cardinality(S) = Cardinality(S)
  BY DEF Order!Cardinality, Cardinality
<1>3. \A S : Pet!Cardinality(S) = Cardinality(S)
  BY DEF Pet!Cardinality, Cardinality
<1>4. \A S : Tag!Cardinality(S) = Cardinality(S)
  BY DEF Tag!Cardinality, Cardinality
<1> QED
  BY <1>1, <1>2, <1>3, <1>4

LEMMA CountsAll ==
    ASSUME NEW k \in Kind, NEW q PROVE Count(k, q) = Cardinality(All(k, q))
<1>1. CASE k = "category" BY SameCardinality, <1>1 DEF Count, All, Of, Category!Count
<1>2. CASE k = "tag" BY SameCardinality, <1>2 DEF Count, All, Of, Tag!Count
<1>3. CASE k = "order" BY SameCardinality, <1>3 DEF Count, All, Of, Order!Count
<1>4. CASE k = "pet" BY SameCardinality, <1>4 DEF Count, All, Of, Pet!Count
<1> QED
  BY <1>1, <1>2, <1>3, <1>4 DEF Kind

\* The queries read the rows that are there and no tombstone.
LEMMA FoundIsThere ==
    ASSUME NEW k \in Kind
    PROVE  /\ \A i \in Prepared(k) : i \in DOMAIN rows[k] /\ ~Deleted(k, i)
           /\ \A id : Only(k, id) \subseteq Prepared(k) \cap {id}
           /\ \A q : All(k, q) \subseteq Prepared(k)
<1>1. CASE k = "category"
  BY <1>1 DEF Prepared, Only, All, Of, Deleted, Category!Prepared, Category!Only, Category!All
<1>2. CASE k = "tag"
  BY <1>2 DEF Prepared, Only, All, Of, Deleted, Tag!Prepared, Tag!Only, Tag!All
<1>3. CASE k = "order"
  BY <1>3 DEF Prepared, Only, All, Of, Deleted, Order!Prepared, Order!Only, Order!All
<1>4. CASE k = "pet"
  BY <1>4 DEF Prepared, Only, All, Of, Deleted, Pet!Prepared, Pet!Only, Pet!All, Pet!Visible
<1> QED
  BY <1>1, <1>2, <1>3, <1>4 DEF Kind

LEMMA UnseenIsDeleted ==
    ASSUME NEW k \in Kind, NEW i \in Nat, i < next[k], i \notin Prepared(k)
    PROVE  Deleted(k, i)
BY DEF Kind, Prepared, Of, Deleted, Category!Prepared, Order!Prepared, Pet!Prepared,
       Tag!Prepared, Category!Visible, Order!Visible, Pet!Visible, Tag!Visible

-----------------------------------------------------------------------------
(***************************************************************************)
(* What stays true of an answer while others write.                        *)
(***************************************************************************)
LEMMA ProceededFields ==
    ASSUME NEW call, DOMAIN call = CallFields
    PROVE  LET done == Proceeded(call) IN
           /\ done.todo = Tail(call.todo) /\ done.req = call.req /\ done.nodes = call.nodes
           /\ done.edges = call.edges /\ done.id = call.id /\ done.total = call.total
           /\ done.wrote = call.wrote /\ done.raced = call.raced /\ done.gone = call.gone
BY DEF Proceeded, CallFields

\* The two calls agree but for what overtaking records.
Agree(a, b) ==
    /\ a.req = b.req /\ a.todo = b.todo /\ a.nodes = b.nodes /\ a.edges = b.edges
    /\ a.id = b.id /\ a.total = b.total /\ a.status = b.status /\ a.wrote = b.wrote
    /\ a.gone = b.gone

LEMMA GoneStays ==
    ASSUME DeletedStay, NEW c \in Client, GoneOK(calls[c]), calls'[c].gone = calls[c].gone
    PROVE  GoneOK(calls[c])'
BY DEF GoneOK, DeletedStay

LEMMA NodesStay ==
    ASSUME RowInv, RowInv', DeletedStay, NEW c \in Client, NodesTrue(calls[c]),
           Agree(calls'[c], calls[c])
    PROVE  NodesTrue(calls[c])'
<1> DEFINE a == calls[c]
           b == calls'[c]
<1>1. /\ "pet" \in Kind /\ "category" \in Kind /\ "tag" \in Kind
      /\ next["category"] \in Nat /\ next'["category"] \in Nat
      /\ next["category"] <= next'["category"]
      /\ DOMAIN rows["pet"] \subseteq DOMAIN rows'["pet"]
      /\ \A j \in Kind, i \in Nat : Deleted(j, i) => Deleted(j, i)'
      /\ \A i \in DOMAIN rows["pet"] : i \in Nat
  BY DEF Kind, RowInv, DeletedStay
<1>2. ASSUME NEW i \in DOMAIN a.nodes, NodeTrue(a, i) PROVE NodeTrue(calls[c], i)'
  <2>1. a.req.kind = "pet" => PetTrue(calls[c], calls[c].nodes[i], calls[c].edges[i])'
    BY <1>1, <1>2 DEF NodeTrue, PetTrue, Agree
  <2>2. a.req.kind = "order" => OrderTrue(calls[c], calls[c].nodes[i], calls[c].edges[i])'
    BY <1>1, <1>2 DEF NodeTrue, OrderTrue, Agree
  <2> QED
    BY <1>1, <1>2, <2>1, <2>2 DEF NodeTrue, Agree
<1> QED
  BY <1>2 DEF NodesTrue, HasRead, Agree

\* A list that is not overtaken goes on counting the same rows, and a saved row
\* goes on saying what it was told.
LEMMA OtherStays ==
    ASSUME IInv, IInv', DeletedStay, NEW d \in Client, AnswerOK(calls[d]),
           calls'[d] \in {calls[d], [calls[d] EXCEPT !.raced = TRUE]},
           calls'[d].raced = FALSE /\ Busy(d) /\ calls[d].req.op = "list" =>
              rows'[calls[d].req.kind] = rows[calls[d].req.kind],
           /\ calls'[d].raced = FALSE /\ Busy(d) /\ calls[d].wrote = TRUE
           /\ calls[d].id \in DOMAIN rows[calls[d].req.kind]
           => /\ calls[d].id \in DOMAIN rows'[calls[d].req.kind]
              /\ rows'[calls[d].req.kind][calls[d].id] = rows[calls[d].req.kind][calls[d].id]
    PROVE  AnswerOK(calls[d])'
<1>1. /\ Agree(calls'[d], calls[d]) /\ calls'[d].raced \in BOOLEAN
      /\ calls'[d].raced = FALSE => calls[d].raced = FALSE
  <2>1. DOMAIN calls[d] = CallFields /\ calls[d].raced \in BOOLEAN
    BY DEF IInv, CallInv, CallOK, AnswerOK
  <2> QED
    BY <2>1 DEF CallFields, Agree
<1>2. PlanOK(calls[d])'
  BY <1>1 DEF AnswerOK, PlanOK, Agree
<1>3. GoneOK(calls[d])'
  BY <1>1, GoneStays DEF AnswerOK, Agree
<1>4. NodesTrue(calls[d])'
  BY <1>1, NodesStay DEF AnswerOK, IInv
<1>5. TotalTrue(calls[d])'
  <2>1. CASE calls'[d].raced = FALSE /\ calls[d].req.op = "list" /\ Busy(d)
    <3>1. rows'[calls[d].req.kind] = rows[calls[d].req.kind]
      BY <2>1
    <3>2. All(calls[d].req.kind, calls[d].req.body)' = All(calls[d].req.kind, calls[d].req.body)
      BY <1>1, <3>1 DEF All, Agree
    <3> QED
      BY <1>1, <2>1, <3>2 DEF AnswerOK, TotalTrue, HasRead, Agree
  <2>2. CASE calls'[d].raced = FALSE /\ calls[d].req.op = "list" /\ ~Busy(d)
    <3>1. calls[d].req.kind \in Kind
      BY DEF IInv, CallInv, CallOK
    <3>2. calls'[d].todo = <<>> /\ Paging(calls[d].req.kind) # <<>>
      BY <1>1, <2>2, <3>1, Heads DEF Busy, Agree
    <3> QED
      BY <1>1, <2>2, <3>2 DEF AnswerOK, TotalTrue, HasRead, Agree
  <2>3. CASE calls'[d].raced # FALSE \/ calls[d].req.op # "list"
    BY <1>1, <2>3 DEF TotalTrue, Agree
  <2> QED
    BY <2>1, <2>2, <2>3
<1>6. EchoTrue(calls[d])'
  <2>1. calls[d].req.kind \in Kind
    BY DEF IInv, CallInv, CallOK
  <2>2. calls[d].todo = Selecting(calls[d].req.kind) => Busy(d)
    BY <2>1, Heads DEF Busy
  <2> QED
    BY <1>1, <2>2 DEF AnswerOK, EchoTrue, HasRead, Agree
<1> QED
  BY <1>1, <1>2, <1>3, <1>4, <1>5, <1>6 DEF AnswerOK

\* A statement that writes nothing overtakes nobody.
LEMMA ReadOvertakesNobody ==
    ASSUME IInv, IInv', DeletedStay, AnswerInv, rows' = rows, NEW c \in Client,
           \A d \in Client \ {c} : calls'[d] = calls[d], AnswerOK(calls[c])'
    PROVE  AnswerInv'
<1>1. ASSUME NEW d \in Client \ {c} PROVE AnswerOK(calls[d])'
  BY OtherStays DEF AnswerInv
<1> QED
  BY <1>1 DEF AnswerInv

\* One that writes rows ids of kind k overtakes whoever has something to lose.
LEMMA WriteOvertakes ==
    ASSUME IInv, IInv', DeletedStay, AnswerInv, NEW c \in Client, NEW call, NEW k, NEW ids,
           ProceedWriting(c, call, k, ids),
           \A j \in Kind \ {k} : rows'[j] = rows[j],
           \A i \in DOMAIN rows[k] \ ids : i \in DOMAIN rows'[k] /\ rows'[k][i] = rows[k][i],
           AnswerOK(calls[c])'
    PROVE  AnswerInv'
<1>1. ASSUME NEW d \in Client \ {c} PROVE AnswerOK(calls[d])'
  <2>1. AnswerOK(calls[d]) /\ DOMAIN calls[d] = CallFields /\ calls[d].req.kind \in Kind
        /\ calls[d].wrote \in BOOLEAN
    BY DEF AnswerInv, IInv, CallInv, CallOK
  <2>2. calls'[d] \in {calls[d], [calls[d] EXCEPT !.raced = TRUE]}
    BY DEF ProceedWriting
  <2>3. /\ Busy(d) /\ calls[d].req.kind = k
        /\ calls[d].req.op = "list" \/ (calls[d].wrote /\ calls[d].id \in ids)
        => calls'[d].raced = TRUE
    BY <2>1 DEF ProceedWriting, CallFields
  <2> QED
    BY <2>1, <2>2, <2>3, OtherStays
<1> QED
  BY <1>1 DEF AnswerInv

-----------------------------------------------------------------------------
(***************************************************************************)
(* What each statement makes true of its own request.                      *)
(***************************************************************************)
\* A refused request answers nothing.
LEMMA RefusedAnswer ==
    ASSUME IInv, IInv', DeletedStay, AnswerInv, NEW c \in Client, NEW status,
           Refuse(c, status), rows' = rows, status \notin {200, 201}
    PROVE  AnswerInv'
<1> DEFINE k == calls[c].req.kind
<1>1. /\ AnswerOK(calls[c]) /\ DOMAIN calls[c] = CallFields /\ k \in Kind
      /\ DOMAIN calls = Client
  BY DEF AnswerInv, IInv, CallInv, CallOK
<1>2. /\ calls'[c].todo = <<>> /\ calls'[c].status = status /\ calls'[c].req = calls[c].req
      /\ calls'[c].nodes = calls[c].nodes /\ calls'[c].edges = calls[c].edges
      /\ calls'[c].raced = calls[c].raced /\ calls'[c].gone = calls[c].gone
      /\ \A d \in Client \ {c} : calls'[d] = calls[d]
  BY <1>1 DEF Refuse, CallFields
<1>3. <<>> \in Pending(k) /\ Selecting(k) # <<>> /\ Paging(k) # <<>>
  BY <1>1, Unread, Heads
<1>4. AnswerOK(calls[c])'
  <2>1. PlanOK(calls[c])'
    BY <1>1, <1>2, <1>3 DEF AnswerOK, PlanOK, Remaining
  <2>2. GoneOK(calls[c])'
    BY <1>1, <1>2, GoneStays DEF AnswerOK
  <2>3. NodesTrue(calls[c])' /\ TotalTrue(calls[c])' /\ EchoTrue(calls[c])'
    BY <1>2, <1>3 DEF NodesTrue, TotalTrue, EchoTrue, HasRead
  <2> QED
    BY <1>1, <1>2, <2>1, <2>2, <2>3 DEF AnswerOK
<1> QED
  BY <1>2, <1>4, ReadOvertakesNobody

\* A delete answers nothing, at whichever of its statements it is.
LEMMA DeleteAnswer ==
    ASSUME DeletedStay, NEW c \in Client, AnswerOK(calls[c]), calls[c].req.kind \in Kind,
           calls[c].req.op \notin {"list", "get", "create", "patch"},
           calls'[c].todo \in {<<>>, <<"stamp">>}, calls'[c].req = calls[c].req,
           calls'[c].nodes = calls[c].nodes, calls'[c].edges = calls[c].edges,
           calls'[c].raced = calls[c].raced, calls'[c].gone = calls[c].gone
    PROVE  AnswerOK(calls[c])'
<1>1. PlanOK(calls[c])'
  BY Unread DEF AnswerOK, PlanOK, Remaining, Before
<1>2. GoneOK(calls[c])'
  BY GoneStays DEF AnswerOK
<1>3. NodesTrue(calls[c])' /\ TotalTrue(calls[c])' /\ EchoTrue(calls[c])'
  BY DEF AnswerOK, PlanOK, NodesTrue, TotalTrue, EchoTrue
<1> QED
  BY <1>1, <1>2, <1>3 DEF AnswerOK

\* A row just saved says what its request was told, and of the kinds that are not
\* read back it is the answer.
LEMMA SavedAnswer ==
    ASSUME DeletedStay, NEW c \in Client, AnswerOK(calls[c]), Busy(c),
           NEW k \in Kind, calls[c].req.kind = k, calls[c].req.op \in {"create", "patch"},
           NEW id, NEW row, Says(row, calls[c].req),
           calls'[c].req = calls[c].req, calls'[c].todo = Saved(k), calls'[c].id = id,
           DOMAIN calls'[c].nodes = {id}, calls'[c].nodes[id] = Entity(k, id, row),
           DOMAIN calls'[c].edges = {id}, calls'[c].edges[id] = NoEdges,
           calls'[c].raced = calls[c].raced, calls'[c].gone = calls[c].gone,
           \/ DOMAIN calls[c].req.body = {}
           \/ calls'[c].wrote = TRUE /\ id \in DOMAIN rows'[k] /\ rows'[k][id] = row,
           k \notin {"pet", "order"} => <<k, id>> \notin calls[c].gone
    PROVE  AnswerOK(calls[c])'
<1>1. /\ <<>> \in Pending(k) /\ Selecting(k) \notin Pending(k)
      /\ \/ k \in {"pet", "order"} /\ Saved(k) = Selecting(k)
         \/ k \notin {"pet", "order"} /\ Saved(k) = <<>>
  BY Unread
<1>2. PlanOK(calls[c])'
  BY <1>1 DEF PlanOK, Remaining, Before
<1>3. GoneOK(calls[c])'
  BY GoneStays DEF AnswerOK
<1>4. NodesTrue(calls[c])'
  BY <1>1 DEF NodesTrue, NodeTrue, HasRead, NoEdges
<1>5. TotalTrue(calls[c])'
  BY DEF TotalTrue
<1>6. EchoTrue(calls[c])'
  <2>1. DOMAIN calls[c].req.body \subseteq Keys(k)
    BY DEF AnswerOK, EchoTrue, Busy
  <2>2. Shows(k, Entity(k, id, row), calls[c].req)
    BY <2>1, SaysShows
  <2> QED
    BY <1>1, <2>1, <2>2 DEF EchoTrue, HasRead
<1> QED
  BY <1>2, <1>3, <1>4, <1>5, <1>6 DEF AnswerOK

LEMMA InsertAnswer ==
    ASSUME IInv, IInv', DeletedStay, AnswerInv, NEW c \in Client, Insert(c)
    PROVE  AnswerInv'
<1> DEFINE k == calls[c].req.kind
           m == CreateOf(k, calls[c].req.body)
           id == next[k]
           row == CreateSpec(k, m)
           read == [calls[c] EXCEPT !.id = id, !.nodes = [i \in {id} |-> Entity(k, id, row)],
                                    !.edges = [i \in {id} |-> NoEdges]]
           written == [read EXCEPT !.wrote = TRUE]
<1>1. /\ AnswerOK(calls[c]) /\ DOMAIN calls[c] = CallFields /\ k \in Kind /\ Busy(c)
      /\ Head(calls[c].todo) = "insert" /\ DOMAIN rows = Kind /\ id \in Nat
  BY DEF AnswerInv, IInv, CallInv, CallOK, RowInv, Insert, Runs
<1>2. calls[c].req.op = "create" /\ calls[c].todo = Saving(k, "insert")
  <2>1. calls[c].todo \in Remaining(k, calls[c].req.op) /\ calls[c].todo # <<>>
    BY <1>1 DEF AnswerOK, PlanOK, Busy
  <2>2. k \in Kind /\ Head(calls[c].todo) = "insert"
    BY <1>1
  <2> HIDE DEF k
  <2> QED
    BY <2>1, <2>2, Stages
<1>3. \/ \E status \in {422, 409, 500} : Refuse(c, status) /\ UNCHANGED <<rows, next>>
      \/ /\ rows' = [rows EXCEPT ![k] = [i \in DOMAIN rows[k] \cup {id} |->
                                             IF i = id THEN row ELSE rows[k][i]]]
         /\ ProceedWriting(c, read, k, {id})
  BY DEF Insert
<1>4. CASE \E status \in {422, 409, 500} : Refuse(c, status) /\ UNCHANGED <<rows, next>>
  BY <1>4, RefusedAnswer
<1>5. CASE /\ rows' = [rows EXCEPT ![k] = [i \in DOMAIN rows[k] \cup {id} |->
                                               IF i = id THEN row ELSE rows[k][i]]]
           /\ ProceedWriting(c, read, k, {id})
  <2>1. /\ DOMAIN written = CallFields /\ written.id = id /\ written.req = calls[c].req
        /\ written.todo = calls[c].todo /\ written.wrote = TRUE
        /\ written.nodes = [i \in {id} |-> Entity(k, id, row)]
        /\ written.edges = [i \in {id} |-> NoEdges]
        /\ written.raced = calls[c].raced /\ written.gone = calls[c].gone
    BY <1>1 DEF CallFields
  <2>2. calls'[c] = Proceeded(written)
    BY <1>5 DEF ProceedWriting
  <2>3. Says(row, calls[c].req)
    <3>1. DOMAIN calls[c].req.body \subseteq Keys(k)
      BY <1>1, <1>2 DEF AnswerOK, EchoTrue, Busy
    <3> QED
      BY <1>1, <1>2, <3>1, CreateSays DEF Says
  <2>4. <<k, id>> \notin calls[c].gone
    BY <1>1 DEF AnswerOK, GoneOK, Deleted, IInv, RowInv
  <2>5. /\ id \in DOMAIN rows'[k] /\ rows'[k][id] = row
        /\ \A j \in Kind \ {k} : rows'[j] = rows[j]
        /\ \A i \in DOMAIN rows[k] \ {id} : i \in DOMAIN rows'[k] /\ rows'[k][i] = rows[k][i]
    BY <1>1, <1>5
  <2>6. Tail(calls[c].todo) = Saved(k)
    BY <1>1, <1>2, Tails
  <2> HIDE DEF written, row, m
  <2>7. AnswerOK(calls[c])'
    <3>1. /\ calls'[c].todo = Saved(k) /\ calls'[c].req = calls[c].req /\ calls'[c].id = id
          /\ DOMAIN calls'[c].nodes = {id} /\ calls'[c].nodes[id] = Entity(k, id, row)
          /\ DOMAIN calls'[c].edges = {id} /\ calls'[c].edges[id] = NoEdges
          /\ calls'[c].wrote = TRUE
          /\ calls'[c].raced = calls[c].raced /\ calls'[c].gone = calls[c].gone
      BY <2>1, <2>2, <2>6, ProceededFields
    <3>2. /\ AnswerOK(calls[c]) /\ Busy(c) /\ k \in Kind /\ calls[c].req.kind = k
          /\ calls[c].req.op \in {"create", "patch"}
      BY <1>1, <1>2
    <3> HIDE DEF k, id, read
    <3> QED
      BY <2>3, <2>4, <2>5, <3>1, <3>2, SavedAnswer
  <2> HIDE DEF read
  <2> QED
    BY <1>5, <2>5, <2>7, WriteOvertakes
<1> QED
  BY <1>3, <1>4, <1>5

LEMMA UpdateAnswer ==
    ASSUME IInv, IInv', DeletedStay, AnswerInv, NEW c \in Client, Update(c)
    PROVE  AnswerInv'
<1> DEFINE k == calls[c].req.kind
           m == PatchOf(k, calls[c].req.body)
           id == calls[c].id
           row == UpdateSpec(k, rows[k][id], m)
           read == [calls[c] EXCEPT !.nodes = [i \in {id} |-> Entity(k, id, row)],
                                    !.edges = [i \in {id} |-> NoEdges]]
           written == [read EXCEPT !.wrote = TRUE]
<1>1. /\ AnswerOK(calls[c]) /\ DOMAIN calls[c] = CallFields /\ k \in Kind /\ Busy(c)
      /\ Head(calls[c].todo) = "update" /\ DOMAIN rows = Kind /\ DOMAIN calls = Client
  BY DEF AnswerInv, IInv, CallInv, CallOK, RowInv, Update, Runs
<1>2. calls[c].req.op = "patch" /\ calls[c].todo = Saving(k, "update")
  <2>1. calls[c].todo \in Remaining(k, calls[c].req.op) /\ calls[c].todo # <<>>
    BY <1>1 DEF AnswerOK, PlanOK, Busy
  <2>2. k \in Kind /\ Head(calls[c].todo) = "update"
    BY <1>1
  <2> HIDE DEF k
  <2> QED
    BY <2>1, <2>2, Stages
<1>3. \/ \E status \in {422, 404, 409, 500} : Refuse(c, status) /\ UNCHANGED rows
      \/ id \in DOMAIN rows[k] /\ m = NoChange /\ Proceed(c, read) /\ UNCHANGED rows
      \/ /\ id \in DOMAIN rows[k] /\ rows' = [rows EXCEPT ![k][id] = row]
         /\ ProceedWriting(c, read, k, {id})
  BY DEF Update
<1>4. CASE \E status \in {422, 404, 409, 500} : Refuse(c, status) /\ UNCHANGED rows
  BY <1>4, RefusedAnswer
<1>5. ASSUME id \in DOMAIN rows[k]
      PROVE  Says(row, calls[c].req) /\ (k \notin {"pet", "order"} => <<k, id>> \notin calls[c].gone)
  <2>1. DOMAIN calls[c].req.body \subseteq Keys(k)
    BY <1>1, <1>2 DEF AnswerOK, EchoTrue, Busy
  <2>2. DOMAIN rows[k][id] = Columns(k)
    BY <1>1, <1>5 DEF IInv, RowInv
  <2>3. Says(row, calls[c].req)
    BY <1>1, <2>1, <2>2, PatchSays DEF Says
  <2>4. k \notin {"pet", "order"} => <<k, id>> \notin calls[c].gone
    BY <1>1, <1>5 DEF AnswerOK, GoneOK, Deleted
  <2> QED
    BY <2>3, <2>4
<1>6. /\ DOMAIN read = CallFields /\ read.id = id /\ read.req = calls[c].req
      /\ read.todo = calls[c].todo
      /\ DOMAIN read.nodes = {id} /\ read.nodes[id] = Entity(k, id, row)
      /\ DOMAIN read.edges = {id} /\ read.edges[id] = NoEdges
      /\ read.raced = calls[c].raced /\ read.gone = calls[c].gone
  BY <1>1 DEF CallFields
<1>7. /\ DOMAIN written = CallFields /\ written.id = id /\ written.req = calls[c].req
      /\ written.todo = calls[c].todo /\ written.nodes = read.nodes
      /\ written.edges = read.edges /\ written.wrote = TRUE
      /\ written.raced = calls[c].raced /\ written.gone = calls[c].gone
  <2> HIDE DEF read
  <2> QED
    BY <1>6 DEF CallFields
<1>8. Tail(calls[c].todo) = Saved(k)
  BY <1>1, <1>2, Tails
<1>9. /\ AnswerOK(calls[c]) /\ Busy(c) /\ k \in Kind /\ calls[c].req.kind = k
      /\ calls[c].req.op \in {"create", "patch"}
  BY <1>1, <1>2
<1>10. CASE id \in DOMAIN rows[k] /\ m = NoChange /\ Proceed(c, read) /\ UNCHANGED rows
  <2>1. DOMAIN calls[c].req.body = {}
    <3>1. DOMAIN calls[c].req.body \subseteq Keys(k)
      BY <1>1, <1>2 DEF AnswerOK, EchoTrue, Busy
    <3> QED
      BY <1>1, <1>10, <3>1, NoChangeSaysNothing
  <2> HIDE DEF read, written, row, m
  <2>2. calls'[c] = Proceeded(read) /\ \A d \in Client \ {c} : calls'[d] = calls[d]
    BY <1>1, <1>10 DEF Proceed
  <2>3. /\ calls'[c].todo = Saved(k) /\ calls'[c].req = calls[c].req /\ calls'[c].id = id
        /\ DOMAIN calls'[c].nodes = {id} /\ calls'[c].nodes[id] = Entity(k, id, row)
        /\ DOMAIN calls'[c].edges = {id} /\ calls'[c].edges[id] = NoEdges
        /\ calls'[c].raced = calls[c].raced /\ calls'[c].gone = calls[c].gone
    BY <1>6, <1>8, <2>2, ProceededFields
  <2>4. Says(row, calls[c].req) /\ (k \notin {"pet", "order"} => <<k, id>> \notin calls[c].gone)
    BY <1>5, <1>10
  <2>5. AnswerOK(calls[c])'
    <3> HIDE DEF k, id
    <3> QED
      BY <1>9, <2>1, <2>3, <2>4, SavedAnswer
  <2> QED
    BY <1>10, <2>2, <2>5, ReadOvertakesNobody
<1>11. CASE /\ id \in DOMAIN rows[k] /\ rows' = [rows EXCEPT ![k][id] = row]
            /\ ProceedWriting(c, read, k, {id})
  <2>1. calls'[c] = Proceeded(written)
    BY <1>11 DEF ProceedWriting
  <2> HIDE DEF read, written, row, m
  <2>2. /\ calls'[c].todo = Saved(k) /\ calls'[c].req = calls[c].req /\ calls'[c].id = id
        /\ DOMAIN calls'[c].nodes = {id} /\ calls'[c].nodes[id] = Entity(k, id, row)
        /\ DOMAIN calls'[c].edges = {id} /\ calls'[c].edges[id] = NoEdges
        /\ calls'[c].raced = calls[c].raced /\ calls'[c].gone = calls[c].gone
        /\ calls'[c].wrote = TRUE
    BY <1>6, <1>7, <1>8, <2>1, ProceededFields
  <2>3. Says(row, calls[c].req) /\ (k \notin {"pet", "order"} => <<k, id>> \notin calls[c].gone)
    BY <1>5, <1>11
  <2>4. /\ id \in DOMAIN rows'[k] /\ rows'[k][id] = row
        /\ \A j \in Kind \ {k} : rows'[j] = rows[j]
        /\ \A i \in DOMAIN rows[k] \ {id} : i \in DOMAIN rows'[k] /\ rows'[k][i] = rows[k][i]
    BY <1>1, <1>11
  <2>5. AnswerOK(calls[c])'
    <3> HIDE DEF k, id
    <3> QED
      BY <1>9, <2>2, <2>3, <2>4, SavedAnswer
  <2> QED
    BY <1>11, <2>4, <2>5, WriteOvertakes
<1> QED
  BY <1>3, <1>4, <1>10, <1>11, ZenonT(60)

LEMMA HookAnswer ==
    ASSUME IInv, IInv', DeletedStay, AnswerInv, NEW c \in Client, Hook(c)
    PROVE  AnswerInv'
<1> DEFINE k == calls[c].req.kind
<1>1. /\ AnswerOK(calls[c]) /\ DOMAIN calls[c] = CallFields /\ k \in Kind /\ Busy(c)
      /\ DOMAIN calls = Client /\ PlanShape(calls[c].todo) /\ rows' = rows
  BY DEF AnswerInv, IInv, CallInv, CallOK, Hook
<1>2. Head(calls[c].todo) = "remove"
  BY <1>1, OnlyPetsAreHooked DEF Hook
<1>3. calls[c].req.op \notin {"list", "get", "create", "patch"}
  <2>1. calls[c].todo \in Remaining(k, calls[c].req.op) /\ calls[c].todo # <<>>
    BY <1>1 DEF AnswerOK, PlanOK, Busy
  <2> HIDE DEF k
  <2> QED
    BY <1>1, <1>2, <2>1, Stages
<1>4. Tail(calls[c].todo) = <<>> /\ <<"stamp">> \o <<>> = <<"stamp">>
  BY <1>1, <1>2 DEF PlanShape, Busy
<1>5. /\ calls' = [calls EXCEPT ![c].todo = <<"stamp">>]
  BY <1>4 DEF Hook, Pet!Rewritten
<1>6. /\ calls'[c].todo = <<"stamp">> /\ calls'[c].req = calls[c].req
      /\ calls'[c].nodes = calls[c].nodes /\ calls'[c].edges = calls[c].edges
      /\ calls'[c].raced = calls[c].raced /\ calls'[c].gone = calls[c].gone
      /\ \A d \in Client \ {c} : calls'[d] = calls[d]
  BY <1>1, <1>5 DEF CallFields
<1>7. AnswerOK(calls[c])'
  BY <1>1, <1>3, <1>6, DeleteAnswer
<1> QED
  BY <1>1, <1>6, <1>7, ReadOvertakesNobody

\* A delete that wrote: what is left of it has nothing to answer.
LEMMA DeletedAnswer ==
    ASSUME IInv, IInv', DeletedStay, AnswerInv, NEW c \in Client,
           Runs(c, "remove") \/ Runs(c, "stamp"), NEW k, NEW hit,
           ProceedWriting(c, calls[c], k, hit),
           \A j \in Kind \ {k} : rows'[j] = rows[j],
           \A i \in DOMAIN rows[k] \ hit : i \in DOMAIN rows'[k] /\ rows'[k][i] = rows[k][i]
    PROVE  AnswerInv'
<1> DEFINE written == [calls[c] EXCEPT !.wrote = TRUE]
<1>1. /\ AnswerOK(calls[c]) /\ DOMAIN calls[c] = CallFields /\ calls[c].req.kind \in Kind
      /\ calls[c].todo # <<>> /\ Head(calls[c].todo) \in {"remove", "stamp"}
      /\ Tail(calls[c].todo) = <<>>
  BY FirstWrite DEF AnswerInv, IInv, CallInv, CallOK, Runs, Busy, Writing
<1>2. calls[c].req.op \notin {"list", "get", "create", "patch"}
  <2> DEFINE j == calls[c].req.kind
  <2>1. calls[c].todo \in Remaining(j, calls[c].req.op) /\ calls[c].todo # <<>>
    BY <1>1 DEF AnswerOK, PlanOK
  <2>2. j \in Kind
    BY <1>1
  <2>3. Head(calls[c].todo) = "remove" \/ Head(calls[c].todo) = "stamp"
    BY <1>1
  <2> HIDE DEF j
  <2>4. CASE Head(calls[c].todo) = "remove"
    BY <2>1, <2>2, <2>4, Stages
  <2>5. CASE Head(calls[c].todo) = "stamp"
    BY <2>1, <2>2, <2>5, Stages
  <2> QED
    BY <2>3, <2>4, <2>5
<1>3. /\ DOMAIN written = CallFields /\ written.req = calls[c].req
      /\ written.todo = calls[c].todo /\ written.nodes = calls[c].nodes
      /\ written.edges = calls[c].edges /\ written.raced = calls[c].raced
      /\ written.gone = calls[c].gone
  BY <1>1 DEF CallFields
<1>4. calls'[c] = Proceeded(written)
  BY DEF ProceedWriting
<1> HIDE DEF written
<1>5. /\ calls'[c].todo = <<>> /\ calls'[c].req = calls[c].req
      /\ calls'[c].nodes = calls[c].nodes /\ calls'[c].edges = calls[c].edges
      /\ calls'[c].raced = calls[c].raced /\ calls'[c].gone = calls[c].gone
  <2>1. /\ calls'[c].todo = Tail(written.todo) /\ calls'[c].req = written.req
        /\ calls'[c].nodes = written.nodes /\ calls'[c].edges = written.edges
        /\ calls'[c].raced = written.raced /\ calls'[c].gone = written.gone
    BY <1>3, <1>4, ProceededFields
  <2> QED
    BY <1>1, <1>3, <2>1
<1>6. AnswerOK(calls[c])'
  BY <1>1, <1>2, <1>5, DeleteAnswer
<1> QED
  BY <1>6, WriteOvertakes

LEMMA RemoveAnswer ==
    ASSUME IInv, IInv', DeletedStay, AnswerInv, NEW c \in Client, Remove(c)
    PROVE  AnswerInv'
<1> DEFINE k == calls[c].req.kind
           hit == calls[c].req.ids \cap DOMAIN rows[k]
<1>1. k \in Kind /\ DOMAIN rows = Kind /\ Runs(c, "remove")
  BY DEF IInv, CallInv, CallOK, RowInv, Remove
<1>2. \/ \E status \in {404, 500} : Refuse(c, status) /\ UNCHANGED <<rows, links>>
      \/ /\ rows' = [rows EXCEPT ![k] = [i \in DOMAIN rows[k] \ hit |-> rows[k][i]]]
         /\ ProceedWriting(c, calls[c], k, hit)
  BY DEF Remove
<1>3. CASE \E status \in {404, 500} : Refuse(c, status) /\ UNCHANGED <<rows, links>>
  BY <1>3, RefusedAnswer
<1>4. CASE /\ rows' = [rows EXCEPT ![k] = [i \in DOMAIN rows[k] \ hit |-> rows[k][i]]]
           /\ ProceedWriting(c, calls[c], k, hit)
  <2> HIDE DEF hit
  <2>1. /\ \A j \in Kind \ {k} : rows'[j] = rows[j]
        /\ \A i \in DOMAIN rows[k] \ hit : i \in DOMAIN rows'[k] /\ rows'[k][i] = rows[k][i]
    BY <1>1, <1>4
  <2> HIDE DEF k
  <2> QED
    BY <1>1, <1>4, <2>1, DeletedAnswer
<1> QED
  BY <1>2, <1>3, <1>4

LEMMA StampAnswer ==
    ASSUME IInv, IInv', DeletedStay, AnswerInv, NEW c \in Client, Stamp(c)
    PROVE  AnswerInv'
<1> DEFINE m == Pet!DeletedAt(NoChange)
           hit == calls[c].req.ids \cap Pet!Prepared(rows["pet"])
<1>1. DOMAIN rows = Kind /\ Runs(c, "stamp") /\ "pet" \in Kind
  BY DEF IInv, RowInv, Stamp, Kind
<1>2. \/ \E status \in {422, 404} : Refuse(c, status) /\ UNCHANGED rows
      \/ /\ rows' = [rows EXCEPT !["pet"] = [i \in DOMAIN rows["pet"] |->
               IF i \in hit THEN Pet!BulkSpec(rows["pet"][i], m) ELSE rows["pet"][i]]]
         /\ ProceedWriting(c, calls[c], "pet", hit)
  BY DEF Stamp
<1>3. CASE \E status \in {422, 404} : Refuse(c, status) /\ UNCHANGED rows
  BY <1>3, RefusedAnswer
<1>4. CASE /\ rows' = [rows EXCEPT !["pet"] = [i \in DOMAIN rows["pet"] |->
                 IF i \in hit THEN Pet!BulkSpec(rows["pet"][i], m) ELSE rows["pet"][i]]]
           /\ ProceedWriting(c, calls[c], "pet", hit)
  <2> HIDE DEF hit, m
  <2>1. /\ \A j \in Kind \ {"pet"} : rows'[j] = rows[j]
        /\ \A i \in DOMAIN rows["pet"] \ hit :
             i \in DOMAIN rows'["pet"] /\ rows'["pet"][i] = rows["pet"][i]
    BY <1>1, <1>4
  <2> QED
    BY <1>1, <1>4, <2>1, DeletedAnswer
<1> QED
  BY <1>2, <1>3, <1>4

-----------------------------------------------------------------------------
(* Statements that read. *)

\* What AnswerOK says of a call is about the tables only.
LEMMA AnswerOfCall ==
    ASSUME UNCHANGED <<rows, next>>, NEW c, NEW call, calls'[c] = call, AnswerOK(call)
    PROVE  AnswerOK(calls[c])'
<1>1. PlanOK(calls[c])'
  BY DEF AnswerOK, PlanOK
<1>2. GoneOK(calls[c])'
  BY DEF AnswerOK, GoneOK, Deleted
<1>3. NodesTrue(calls[c])'
  BY DEF AnswerOK, NodesTrue, NodeTrue, HasRead, PetTrue, OrderTrue, Deleted
<1>4. TotalTrue(calls[c])'
  BY DEF AnswerOK, TotalTrue, HasRead, All
<1>5. EchoTrue(calls[c])'
  BY DEF AnswerOK, EchoTrue, HasRead, Shows, Says
<1> QED
  BY <1>1, <1>2, <1>3, <1>4, <1>5 DEF AnswerOK

\* Rows just read are there, and so is the row they refer to.
LEMMA FreshlyRead ==
    ASSUME IInv, NEW k \in Kind, NEW ids, ids \subseteq Prepared(k), NEW call, call.req.kind = k,
           call.todo = Whole(k), GoneOK(call),
           DOMAIN call.nodes = ids, \A i \in ids : call.nodes[i] = Entity(k, i, rows[k][i]),
           \A i \in ids : call.edges[i] = NoEdges
    PROVE  NodesTrue(call)
<1>1. ASSUME NEW i \in ids PROVE NodeTrue(call, i)
  <2>1. i \in DOMAIN rows[k] /\ ~Deleted(k, i) /\ ~Dangles(k, rows[k][i])
    BY FoundIsThere DEF IInv, NoOrphans
  <2>2. <<k, i>> \notin call.gone
    BY <2>1 DEF GoneOK
  <2>3. call.edges[i] \in [category : {call.edges[i].category}, tags : {call.edges[i].tags},
                           pet : {call.edges[i].pet}]
    BY DEF NoEdges
  <2>4. ASSUME k = "pet" PROVE PetTrue(call, call.nodes[i], call.edges[i])
    <3>1. call.nodes[i].category_id = rows[k][i].category_id
      <4>1. call.nodes[i] = Pet!Entity(i, rows[k][i])
        BY <2>4 DEF Entity, Of
      <4> QED
        BY <4>1 DEF Pet!Entity
    <3>2. rows[k][i].category_id \in DOMAIN rows["category"]
      BY <2>1, <2>4 DEF Dangles, References, Of, Pet!References
    <3>3. call.todo = <<"category", "tags">> /\ call.todo # <<>>
      BY <2>4, Heads DEF Whole
    <3>4. "category" \in Kind
      BY DEF Kind
    <3> QED
      BY <3>1, <3>2, <3>3, <3>4 DEF PetTrue, IInv, RowInv
  <2>5. ASSUME k = "order" PROVE OrderTrue(call, call.nodes[i], call.edges[i])
    <3>1. call.nodes[i].pet_id = rows[k][i].pet_id
      <4>1. call.nodes[i] = Order!Entity(i, rows[k][i])
        BY <2>5 DEF Entity, Of
      <4> QED
        BY <4>1 DEF Order!Entity
    <3>2. rows[k][i].pet_id \in DOMAIN rows["pet"]
      BY <2>1, <2>5 DEF Dangles, References, Of, Order!References
    <3>3. call.todo # <<>>
      BY <2>5 DEF Whole
    <3> QED
      BY <3>1, <3>2, <3>3 DEF OrderTrue
  <2> QED
    BY <2>1, <2>2, <2>3, <2>4, <2>5 DEF NodeTrue
<1> QED
  BY <1>1 DEF NodesTrue

LEMMA ReadingFields ==
    ASSUME NEW call, DOMAIN call = CallFields, NEW ids
    PROVE  LET read == Reading(call, ids) IN
           /\ DOMAIN read = CallFields /\ read.req = call.req /\ read.todo = call.todo
           /\ DOMAIN read.nodes = ids /\ DOMAIN read.edges = ids
           /\ \A i \in ids : /\ read.nodes[i] = Entity(call.req.kind, i, rows[call.req.kind][i])
                             /\ read.edges[i] = NoEdges
           /\ read.id = call.id /\ read.total = call.total /\ read.wrote = call.wrote
           /\ read.raced = call.raced /\ read.gone = call.gone
BY DEF Reading, CallFields

\* What a request has read so far, it is about to send.
LEMMA SelectAnswer ==
    ASSUME IInv, IInv', DeletedStay, AnswerInv, NEW c \in Client, Select(c)
    PROVE  AnswerInv'
<1> DEFINE k == calls[c].req.kind
           id == calls[c].id
           found == Only(k, id)
           read == Reading(calls[c], found)
           done == Proceeded(read)
<1>1. /\ AnswerOK(calls[c]) /\ DOMAIN calls[c] = CallFields /\ k \in Kind
      /\ calls[c].todo # <<>> /\ Head(calls[c].todo) = "select" /\ DOMAIN calls = Client
  BY DEF AnswerInv, IInv, CallInv, CallOK, Select, Runs, Busy
<1>2. calls[c].req.op \in {"get", "create", "patch"} /\ calls[c].todo = Selecting(k)
  <2>1. calls[c].todo \in Remaining(k, calls[c].req.op)
    BY <1>1 DEF AnswerOK, PlanOK
  <2>2. k \in Kind /\ calls[c].todo # <<>> /\ Head(calls[c].todo) = "select"
    BY <1>1
  <2> HIDE DEF k
  <2> QED
    BY <2>1, <2>2, Stages
<1>3. UNCHANGED <<rows, next>> /\ (Refuse(c, 404) \/ (found # {} /\ Proceed(c, read)))
  BY DEF Select
<1>4. CASE Refuse(c, 404)
  BY <1>3, <1>4, RefusedAnswer
<1>5. CASE found # {} /\ Proceed(c, read)
  <2>1. calls'[c] = done /\ \A d \in Client \ {c} : calls'[d] = calls[d]
    BY <1>1, <1>5 DEF Proceed
  <2>2. found = {id} /\ found \subseteq Prepared(k)
    BY <1>1, <1>5, FoundIsThere
  <2>3. /\ DOMAIN read = CallFields /\ read.req = calls[c].req /\ read.todo = calls[c].todo
        /\ DOMAIN read.nodes = found /\ DOMAIN read.edges = found
        /\ \A i \in found : read.nodes[i] = Entity(k, i, rows[k][i]) /\ read.edges[i] = NoEdges
        /\ read.id = id /\ read.raced = calls[c].raced /\ read.gone = calls[c].gone
        /\ read.wrote = calls[c].wrote
    BY <1>1, ReadingFields
  <2> HIDE DEF read, found
  <2>4. /\ done.req = calls[c].req /\ done.todo = Whole(k) /\ done.nodes = read.nodes
        /\ done.edges = read.edges /\ done.id = id /\ done.raced = calls[c].raced
        /\ done.gone = calls[c].gone
    <3>1. done.todo = Tail(calls[c].todo)
      BY <2>3, ProceededFields
    <3>2. Tail(calls[c].todo) = Whole(k)
      BY <1>1, <1>2, Tails
    <3> QED
      BY <2>3, <3>1, <3>2, ProceededFields
  <2> HIDE DEF done
  <2>5. Whole(k) \in Pending(k) /\ Whole(k) # Selecting(k)
    BY <1>1, Unread
  <2>6. PlanOK(done)
    BY <1>2, <2>3, <2>4, <2>5 DEF PlanOK, Remaining
  <2>7. GoneOK(done)
    BY <1>1, <2>4 DEF AnswerOK, GoneOK
  <2>8. NodesTrue(done)
    BY <1>1, <2>2, <2>3, <2>4, <2>7, FreshlyRead
  <2>9. TotalTrue(done)
    BY <1>2, <2>4 DEF TotalTrue
  <2>10. EchoTrue(done)
    <3> SUFFICES ASSUME calls[c].req.op \in {"create", "patch"} PROVE EchoTrue(done)
      BY <2>4 DEF EchoTrue
    <3>1. DOMAIN calls[c].req.body \subseteq Keys(k)
      BY <1>1 DEF AnswerOK, EchoTrue
    <3>2. ASSUME calls[c].raced = FALSE
          PROVE  Shows(k, done.nodes[id], calls[c].req)
      <4>1. done.nodes[id] = Entity(k, id, rows[k][id])
        BY <2>2, <2>3, <2>4
      <4>2. CASE DOMAIN calls[c].req.body = {}
        BY <4>2 DEF Shows
      <4>3. CASE Says(rows[k][id], calls[c].req)
        BY <1>1, <3>1, <4>1, <4>3, SaysShows
      <4> QED
        BY <1>1, <1>2, <3>2, <4>2, <4>3 DEF AnswerOK, EchoTrue
    <3> QED
      BY <2>2, <2>3, <2>4, <2>5, <3>1, <3>2 DEF EchoTrue
  <2>11. AnswerOK(done)
    BY <1>1, <2>4, <2>6, <2>7, <2>8, <2>9, <2>10 DEF AnswerOK
  <2>12. AnswerOK(calls[c])'
    BY <1>3, <2>1, <2>11, AnswerOfCall
  <2> QED
    BY <1>3, <2>1, <2>12, ReadOvertakesNobody
<1> QED
  BY <1>3, <1>4, <1>5

LEMMA CountAnswer ==
    ASSUME IInv, IInv', DeletedStay, AnswerInv, NEW c \in Client, CountRows(c)
    PROVE  AnswerInv'
<1> DEFINE k == calls[c].req.kind
           q == calls[c].req.body
           read == [calls[c] EXCEPT !.total = Count(k, q)]
           done == Proceeded(read)
<1>1. /\ AnswerOK(calls[c]) /\ DOMAIN calls[c] = CallFields /\ k \in Kind
      /\ calls[c].todo # <<>> /\ Head(calls[c].todo) = "count" /\ DOMAIN calls = Client
      /\ UNCHANGED <<rows, next>> /\ Proceed(c, read)
  BY DEF AnswerInv, IInv, CallInv, CallOK, CountRows, Runs, Busy
<1>2. calls[c].req.op = "list" /\ calls[c].todo = Counting(k)
  <2>1. calls[c].todo \in Remaining(k, calls[c].req.op)
    BY <1>1 DEF AnswerOK, PlanOK
  <2>2. k \in Kind /\ calls[c].todo # <<>> /\ Head(calls[c].todo) = "count"
    BY <1>1
  <2> HIDE DEF k
  <2> QED
    BY <2>1, <2>2, Stages
<1>3. calls'[c] = done /\ \A d \in Client \ {c} : calls'[d] = calls[d]
  BY <1>1 DEF Proceed
<1>4. /\ DOMAIN read = CallFields /\ read.req = calls[c].req /\ read.todo = calls[c].todo
      /\ read.nodes = calls[c].nodes /\ read.edges = calls[c].edges
      /\ read.total = Cardinality(All(k, q)) /\ read.raced = calls[c].raced
      /\ read.gone = calls[c].gone
  BY <1>1, CountsAll DEF CallFields
<1> HIDE DEF read
<1>5. /\ done.req = calls[c].req /\ done.todo = Paging(k) /\ done.nodes = calls[c].nodes
      /\ done.edges = calls[c].edges /\ done.total = Cardinality(All(k, q))
      /\ done.raced = calls[c].raced /\ done.gone = calls[c].gone
  <2>1. done.todo = Tail(calls[c].todo)
    BY <1>4, ProceededFields
  <2>2. Tail(calls[c].todo) = Paging(k)
    BY <1>1, <1>2, Tails
  <2> QED
    BY <1>4, <2>1, <2>2, ProceededFields
<1> HIDE DEF done
<1>6. /\ Paging(k) \notin Pending(k) /\ Counting(k) \notin Pending(k)
  BY <1>1, Unread
<1>7. PlanOK(done)
  BY <1>1, <1>2, <1>5, <1>6 DEF AnswerOK, PlanOK, Remaining, Before
<1>8. GoneOK(done)
  BY <1>1, <1>5 DEF AnswerOK, GoneOK
<1>9. NodesTrue(done) /\ TotalTrue(done) /\ EchoTrue(done)
  BY <1>2, <1>5, <1>6 DEF NodesTrue, TotalTrue, EchoTrue, HasRead
<1>10. AnswerOK(done)
  BY <1>1, <1>5, <1>7, <1>8, <1>9 DEF AnswerOK
<1>11. AnswerOK(calls[c])'
  BY <1>1, <1>3, <1>10, AnswerOfCall
<1> QED
  BY <1>1, <1>3, <1>11, ReadOvertakesNobody

LEMMA PageAnswer ==
    ASSUME IInv, IInv', DeletedStay, AnswerInv, NEW c \in Client, Page(c)
    PROVE  AnswerInv'
<1> DEFINE k == calls[c].req.kind
           found == All(k, calls[c].req.body)
           read == Reading(calls[c], found)
           done == Proceeded(read)
<1>1. /\ AnswerOK(calls[c]) /\ DOMAIN calls[c] = CallFields /\ k \in Kind
      /\ calls[c].todo # <<>> /\ Head(calls[c].todo) = "page" /\ DOMAIN calls = Client
  BY DEF AnswerInv, IInv, CallInv, CallOK, Page, Runs, Busy
<1>2. calls[c].req.op = "list" /\ calls[c].todo = Paging(k)
  <2>1. calls[c].todo \in Remaining(k, calls[c].req.op)
    BY <1>1 DEF AnswerOK, PlanOK
  <2>2. k \in Kind /\ calls[c].todo # <<>> /\ Head(calls[c].todo) = "page"
    BY <1>1
  <2> HIDE DEF k
  <2> QED
    BY <2>1, <2>2, Stages
<1>3. /\ UNCHANGED <<rows, next>>
      /\ (found = {} /\ Refuse(c, 200)) \/ Proceed(c, read)
  BY DEF Page
<1>4. /\ Paging(k) \notin Pending(k) /\ <<>> \in Pending(k) /\ Paging(k) # <<>>
      /\ Whole(k) \in Pending(k) /\ Whole(k) # Paging(k)
  BY <1>1, Unread, Heads
<1>5. calls[c].raced = FALSE => calls[c].total = Cardinality(found)
  BY <1>1, <1>2 DEF AnswerOK, TotalTrue
<1>6. CASE found = {} /\ Refuse(c, 200)
  <2>1. /\ calls'[c].todo = <<>> /\ calls'[c].req = calls[c].req
        /\ calls'[c].nodes = calls[c].nodes /\ calls'[c].edges = calls[c].edges
        /\ calls'[c].raced = calls[c].raced /\ calls'[c].gone = calls[c].gone
        /\ calls'[c].total = calls[c].total
        /\ \A d \in Client \ {c} : calls'[d] = calls[d]
    BY <1>1, <1>6 DEF Refuse, CallFields
  <2>2. DOMAIN calls[c].nodes = {} /\ DOMAIN calls[c].edges = {}
    BY <1>1, <1>2, <1>4 DEF AnswerOK, PlanOK
  <2>3. PlanOK(calls[c])'
    BY <1>2, <1>4, <2>1, <2>2 DEF PlanOK, Remaining
  <2>4. GoneOK(calls[c])'
    BY <1>1, <2>1, GoneStays DEF AnswerOK
  <2>5. NodesTrue(calls[c])' /\ EchoTrue(calls[c])'
    BY <1>2, <2>1, <2>2 DEF NodesTrue, EchoTrue
  <2>6. TotalTrue(calls[c])'
    BY <1>4, <1>5, <1>6, <2>1, <2>2 DEF TotalTrue
  <2>7. AnswerOK(calls[c])'
    BY <1>1, <2>1, <2>3, <2>4, <2>5, <2>6 DEF AnswerOK
  <2> QED
    BY <1>3, <2>1, <2>7, ReadOvertakesNobody
<1>7. CASE Proceed(c, read)
  <2>1. calls'[c] = done /\ \A d \in Client \ {c} : calls'[d] = calls[d]
    BY <1>1, <1>7 DEF Proceed
  <2>2. found \subseteq Prepared(k)
    BY <1>1, FoundIsThere
  <2>3. /\ DOMAIN read = CallFields /\ read.req = calls[c].req /\ read.todo = calls[c].todo
        /\ DOMAIN read.nodes = found /\ DOMAIN read.edges = found
        /\ \A i \in found : read.nodes[i] = Entity(k, i, rows[k][i]) /\ read.edges[i] = NoEdges
        /\ read.total = calls[c].total /\ read.raced = calls[c].raced
        /\ read.gone = calls[c].gone
    BY <1>1, ReadingFields
  <2> HIDE DEF read, found
  <2>4. /\ done.req = calls[c].req /\ done.todo = Whole(k) /\ done.nodes = read.nodes
        /\ done.edges = read.edges /\ done.total = calls[c].total
        /\ done.raced = calls[c].raced /\ done.gone = calls[c].gone
    <3>1. done.todo = Tail(calls[c].todo)
      BY <2>3, ProceededFields
    <3>2. Tail(calls[c].todo) = Whole(k)
      BY <1>1, <1>2, Tails
    <3> QED
      BY <2>3, <3>1, <3>2, ProceededFields
  <2> HIDE DEF done
  <2>5. PlanOK(done)
    BY <1>2, <1>4, <2>3, <2>4 DEF PlanOK, Remaining
  <2>6. GoneOK(done)
    BY <1>1, <2>4 DEF AnswerOK, GoneOK
  <2>7. NodesTrue(done)
    BY <1>1, <2>2, <2>3, <2>4, <2>6, FreshlyRead
  <2>8. TotalTrue(done) /\ EchoTrue(done)
    BY <1>2, <1>4, <1>5, <2>3, <2>4 DEF TotalTrue, EchoTrue
  <2>9. AnswerOK(done)
    BY <1>1, <2>4, <2>5, <2>6, <2>7, <2>8 DEF AnswerOK
  <2>10. AnswerOK(calls[c])'
    BY <1>3, <2>1, <2>9, AnswerOfCall
  <2> QED
    BY <1>3, <2>1, <2>10, ReadOvertakesNobody
<1> QED
  BY <1>3, <1>6, <1>7

\* An eager load adds one edge to every entity, and no entity.
Loaded(call, old, edge, neighbours) ==
    /\ call.req = old.req /\ call.todo = Tail(old.todo)
    /\ call.nodes = old.nodes /\ call.gone = old.gone
    /\ \A i \in DOMAIN old.nodes :
         call.edges[i] = [old.edges[i] EXCEPT ![edge] = neighbours[i]]

LEMMA LoadAnswer ==
    ASSUME IInv, IInv', DeletedStay, AnswerInv, NEW c \in Client, NEW edge, NEW neighbours,
           Load(c, edge, neighbours), NEW k \in Kind, k = calls[c].req.kind,
           calls[c].todo \in Pending(k), Tail(calls[c].todo) \in Pending(k),
           \A call : Loaded(call, calls[c], edge, neighbours) =>
                        \A i \in DOMAIN calls[c].nodes : NodeTrue(call, i)
    PROVE  AnswerInv'
<1> DEFINE read == [calls[c] EXCEPT !.edges = [i \in DOMAIN calls[c].nodes |->
                      [calls[c].edges[i] EXCEPT ![edge] = neighbours[i]]]]
           done == Proceeded(read)
<1>1. /\ AnswerOK(calls[c]) /\ DOMAIN calls[c] = CallFields /\ Busy(c)
      /\ DOMAIN calls = Client /\ UNCHANGED <<rows, next>> /\ Proceed(c, read)
  BY DEF AnswerInv, IInv, CallInv, CallOK, Load, Runs
<1>2. calls'[c] = done /\ \A d \in Client \ {c} : calls'[d] = calls[d]
  BY <1>1 DEF Proceed
<1>3. /\ DOMAIN read = CallFields /\ read.req = calls[c].req /\ read.todo = calls[c].todo
      /\ read.nodes = calls[c].nodes /\ DOMAIN read.edges = DOMAIN calls[c].nodes
      /\ \A i \in DOMAIN calls[c].nodes :
           read.edges[i] = [calls[c].edges[i] EXCEPT ![edge] = neighbours[i]]
      /\ read.id = calls[c].id /\ read.total = calls[c].total /\ read.raced = calls[c].raced
      /\ read.gone = calls[c].gone
  BY <1>1 DEF CallFields
<1> HIDE DEF read
<1>4. /\ done.req = calls[c].req /\ done.todo = Tail(calls[c].todo)
      /\ done.nodes = calls[c].nodes /\ done.edges = read.edges /\ done.id = calls[c].id
      /\ done.total = calls[c].total /\ done.raced = calls[c].raced
      /\ done.gone = calls[c].gone
  BY <1>3, ProceededFields
<1> HIDE DEF done
<1>5. /\ HasRead(calls[c])
      /\ Paging(k) \notin Pending(k) /\ Selecting(k) \notin Pending(k)
  BY <1>1, Unread DEF HasRead, Busy
<1>6. PlanOK(done)
  BY <1>1, <1>3, <1>4 DEF AnswerOK, PlanOK, Remaining
<1>7. GoneOK(done)
  BY <1>1, <1>4 DEF AnswerOK, GoneOK
<1>8. NodesTrue(done)
  BY <1>3, <1>4 DEF NodesTrue, Loaded
<1>9. TotalTrue(done)
  BY <1>1, <1>4, <1>5 DEF AnswerOK, TotalTrue
<1>10. EchoTrue(done)
  BY <1>1, <1>4, <1>5 DEF AnswerOK, EchoTrue, Busy
<1>11. AnswerOK(done)
  BY <1>1, <1>4, <1>6, <1>7, <1>8, <1>9, <1>10 DEF AnswerOK
<1>12. AnswerOK(calls[c])'
  BY <1>1, <1>2, <1>11, AnswerOfCall
<1> QED
  BY <1>1, <1>2, <1>12, ReadOvertakesNobody

\* Who asks for a neighbour sees it now, or it was deleted.
LEMMA Neighbour ==
    ASSUME IInv, AnswerInv, NEW c \in Client, NEW k \in Kind, NEW id \in Nat, id < next[k],
           NEW x, x = IF id \in Prepared(k) THEN id ELSE Null
    PROVE  /\ x = Null => Deleted(k, id)
           /\ <<k, x>> \notin calls[c].gone
<1>1. GoneOK(calls[c])
  BY DEF AnswerInv, AnswerOK
<1>2. CASE id \in Prepared(k)
  BY <1>1, <1>2, FoundIsThere, NullAssumption DEF GoneOK
<1>3. CASE id \notin Prepared(k)
  BY <1>1, <1>3, UnseenIsDeleted, NullAssumption DEF GoneOK, IInv
<1> QED
  BY <1>2, <1>3

LEMMA LoadCategoryAnswer ==
    ASSUME IInv, IInv', DeletedStay, AnswerInv, NEW c \in Client, LoadCategory(c)
    PROVE  AnswerInv'
<1> DEFINE nodes == calls[c].nodes
           found == [i \in DOMAIN nodes |-> Pet!LoadCategory(nodes[i], Prepared("category"))]
<1>1. Load(c, "category", found) /\ "category" \in Kind /\ "pet" \in Kind
  BY DEF LoadCategory, Kind
<1>2. /\ AnswerOK(calls[c]) /\ calls[c].req.kind \in Kind
      /\ calls[c].todo # <<>> /\ Head(calls[c].todo) = "category"
  BY <1>1 DEF AnswerInv, IInv, CallInv, CallOK, Load, Runs, Busy
<1>3. calls[c].req.kind = "pet" /\ calls[c].todo = <<"category", "tags">>
  <2>1. calls[c].todo \in Remaining(calls[c].req.kind, calls[c].req.op)
    BY <1>2 DEF AnswerOK, PlanOK
  <2> QED
    BY <1>2, <2>1, Stages
<1>4. /\ calls[c].todo \in Pending("pet") /\ Tail(calls[c].todo) \in Pending("pet")
      /\ Tail(calls[c].todo) = <<"tags">> /\ <<"tags">> # <<>>
  BY <1>1, <1>3, Tails, Heads, Unread DEF Whole
<1>5. ASSUME NEW call, Loaded(call, calls[c], "category", found),
             NEW i \in DOMAIN calls[c].nodes
      PROVE  NodeTrue(call, i)
  <2>1. NodeTrue(calls[c], i)
    BY <1>2, <1>3, <1>4 DEF AnswerOK, NodesTrue, HasRead
  <2>2. /\ nodes[i].category_id \in Nat /\ nodes[i].category_id < next["category"]
    BY <1>3, <2>1 DEF NodeTrue, PetTrue
  <2>3. /\ call.edges[i] \in [category : {call.edges[i].category}, tags : {call.edges[i].tags},
                              pet : {call.edges[i].pet}]
        /\ call.edges[i].category =
             IF nodes[i].category_id \in Prepared("category") THEN nodes[i].category_id ELSE Null
    BY <1>5, <2>1 DEF NodeTrue, Loaded, Pet!LoadCategory
  <2>4. /\ call.edges[i].category = Null => Deleted("category", nodes[i].category_id)
        /\ <<"category", call.edges[i].category>> \notin calls[c].gone
    BY <1>1, <2>2, <2>3, Neighbour
  <2> QED
    BY <1>3, <1>4, <1>5, <2>1, <2>2, <2>3, <2>4 DEF NodeTrue, PetTrue, Loaded
<1> HIDE DEF found
<1> QED
  BY <1>1, <1>3, <1>4, <1>5, LoadAnswer

LEMMA LoadTagsAnswer ==
    ASSUME IInv, IInv', DeletedStay, AnswerInv, NEW c \in Client, LoadTags(c)
    PROVE  AnswerInv'
<1> DEFINE nodes == calls[c].nodes
           found == [i \in DOMAIN nodes |-> Pet!LoadTags(nodes[i], links, Prepared("tag"))]
<1>1. Load(c, "tags", found) /\ "tag" \in Kind /\ "pet" \in Kind
  BY DEF LoadTags, Kind
<1>2. /\ AnswerOK(calls[c]) /\ calls[c].req.kind \in Kind
      /\ calls[c].todo # <<>> /\ Head(calls[c].todo) = "tags"
  BY <1>1 DEF AnswerInv, IInv, CallInv, CallOK, Load, Runs, Busy
<1>3. calls[c].req.kind = "pet" /\ calls[c].todo = <<"tags">>
  <2>1. calls[c].todo \in Remaining(calls[c].req.kind, calls[c].req.op)
    BY <1>2 DEF AnswerOK, PlanOK
  <2> QED
    BY <1>2, <2>1, Stages
<1>4. /\ calls[c].todo \in Pending("pet") /\ Tail(calls[c].todo) \in Pending("pet")
      /\ calls[c].todo # <<"category", "tags">>
  <2>1. Head(<<"tags">>) = "tags" /\ Head(<<"category", "tags">>) = "category"
    BY <1>1, Heads
  <2> QED
    BY <1>1, <1>3, <2>1, Tails, Unread
<1>5. ASSUME NEW call, Loaded(call, calls[c], "tags", found),
             NEW i \in DOMAIN calls[c].nodes
      PROVE  NodeTrue(call, i)
  <2>1. NodeTrue(calls[c], i) /\ GoneOK(calls[c])
    BY <1>2, <1>3, <1>4 DEF AnswerOK, NodesTrue, HasRead
  <2>2. /\ call.edges[i] \in [category : {call.edges[i].category}, tags : {call.edges[i].tags},
                              pet : {call.edges[i].pet}]
        /\ call.edges[i].category = calls[c].edges[i].category
        /\ call.edges[i].tags \subseteq Prepared("tag")
    BY <1>5, <2>1, ZenonT(60) DEF NodeTrue, Loaded, Pet!LoadTags
  <2>3. \A t \in call.edges[i].tags : <<"tag", t>> \notin calls[c].gone
    BY <1>1, <2>1, <2>2, FoundIsThere DEF GoneOK
  <2> QED
    BY <1>3, <1>4, <1>5, <2>1, <2>2, <2>3 DEF NodeTrue, PetTrue, Loaded
<1> HIDE DEF found
<1> QED
  BY <1>1, <1>3, <1>4, <1>5, LoadAnswer

LEMMA LoadPetAnswer ==
    ASSUME IInv, IInv', DeletedStay, AnswerInv, NEW c \in Client, LoadPet(c)
    PROVE  AnswerInv'
<1> DEFINE nodes == calls[c].nodes
           found == [i \in DOMAIN nodes |-> Order!LoadPet(nodes[i], Prepared("pet"))]
<1>1. Load(c, "pet", found) /\ "pet" \in Kind /\ "order" \in Kind
  BY DEF LoadPet, Kind
<1>2. /\ AnswerOK(calls[c]) /\ calls[c].req.kind \in Kind
      /\ calls[c].todo # <<>> /\ Head(calls[c].todo) = "pet"
  BY <1>1 DEF AnswerInv, IInv, CallInv, CallOK, Load, Runs, Busy
<1>3. calls[c].req.kind = "order" /\ calls[c].todo = <<"pet">>
  <2>1. calls[c].todo \in Remaining(calls[c].req.kind, calls[c].req.op)
    BY <1>2 DEF AnswerOK, PlanOK
  <2> QED
    BY <1>2, <2>1, Stages
<1>4. calls[c].todo \in Pending("order") /\ Tail(calls[c].todo) \in Pending("order")
  BY <1>1, <1>3, Tails, Unread DEF Whole
<1>5. ASSUME NEW call, Loaded(call, calls[c], "pet", found),
             NEW i \in DOMAIN calls[c].nodes
      PROVE  NodeTrue(call, i)
  <2>1. NodeTrue(calls[c], i)
    BY <1>2, <1>3, <1>4 DEF AnswerOK, NodesTrue, HasRead
  <2>2. nodes[i].pet_id \in DOMAIN rows["pet"]
    BY <1>3, <2>1 DEF NodeTrue, OrderTrue
  <2>3. nodes[i].pet_id \in Nat /\ nodes[i].pet_id < next["pet"]
    BY <1>1, <2>2 DEF IInv, RowInv
  <2>4. /\ call.edges[i] \in [category : {call.edges[i].category}, tags : {call.edges[i].tags},
                              pet : {call.edges[i].pet}]
        /\ call.edges[i].pet =
             IF nodes[i].pet_id \in Prepared("pet") THEN nodes[i].pet_id ELSE Null
    BY <1>5, <2>1 DEF NodeTrue, Loaded, Order!LoadPet
  <2>5. /\ call.edges[i].pet = Null => Deleted("pet", nodes[i].pet_id)
        /\ <<"pet", call.edges[i].pet>> \notin calls[c].gone
    BY <1>1, <2>3, <2>4, Neighbour
  <2> QED
    BY <1>3, <1>5, <2>1, <2>2, <2>4, <2>5 DEF NodeTrue, OrderTrue, Loaded
<1> HIDE DEF found
<1> QED
  BY <1>1, <1>3, <1>4, <1>5, LoadAnswer

-----------------------------------------------------------------------------
\* A plan begins before anything is read, and with the save if it has one.
LEMMA PlanBegins ==
    ASSUME NEW k \in Kind, NEW op \in Operation
    PROVE  /\ Plan(k, op) \in Remaining(k, op) \ Pending(k)
           /\ op \in {"create", "patch"} => Plan(k, op) # Selecting(k)
           /\ op = "list" => Plan(k, op) # Paging(k)
BY PlanIs, Unread DEF Remaining, Before

LEMMA RequestAnswer ==
    ASSUME IInv, IInv', DeletedStay, AnswerInv, NEW c \in Client, NEW r \in Requests,
           Request(c, r)
    PROVE  AnswerInv'
<1> DEFINE k == r.kind
           todo == IF Refusal(r) = 0 THEN Plan(k, r.op) ELSE <<>>
<1>1. k \in Kind /\ r.op \in Operation /\ DOMAIN calls = Client
  BY RequestsAssumption DEF IInv, CallInv
<1>2. /\ UNCHANGED <<rows, next>> /\ \A d \in Client \ {c} : calls'[d] = calls[d]
      /\ calls'[c].req = r /\ calls'[c].todo = todo /\ calls'[c].status = Refusal(r)
      /\ calls'[c].gone = Gone /\ calls'[c].raced = FALSE
      /\ DOMAIN calls'[c].nodes = {} /\ DOMAIN calls'[c].edges = {}
  BY <1>1 DEF Request, Idle, Empty
<1>3. /\ Refusal(r) \in {0, 400, 405, 422}
      /\ Refusal(r) = 0 /\ r.op \in {"create", "patch"} => DOMAIN r.body \subseteq Keys(k)
  BY <1>1, Refusals
<1>4. /\ Plan(k, r.op) \in Remaining(k, r.op) \ Pending(k)
      /\ r.op \in {"create", "patch"} => Plan(k, r.op) # Selecting(k)
      /\ r.op = "list" => Plan(k, r.op) # Paging(k)
  BY <1>1, PlanBegins
<1>5. <<>> \in Pending(k) /\ Selecting(k) # <<>> /\ Paging(k) # <<>>
  BY <1>1, Unread, Heads
<1>6. /\ Refusal(r) = 0 => calls'[c].todo = Plan(k, r.op)
      /\ Refusal(r) # 0 => calls'[c].todo = <<>> /\ calls'[c].status \notin {200, 201}
  BY <1>2, <1>3
<1> HIDE DEF todo
<1>7. PlanOK(calls[c])'
  BY <1>2, <1>4, <1>5, <1>6 DEF PlanOK, Remaining
<1>8. GoneOK(calls[c])'
  <2>1. ASSUME NEW g \in Gone PROVE \E j \in Kind, i \in Nat : g = <<j, i>> /\ Deleted(j, i)
    <3>1. PICK j \in Kind : g \in {<<j, i>> : i \in {n \in 1..next[j] : Deleted(j, n)}}
      BY <2>1 DEF Gone
    <3>2. PICK i \in {n \in 1..next[j] : Deleted(j, n)} : g = <<j, i>>
      BY <3>1
    <3> QED
      BY <3>1, <3>2
  <2>2. \A j \in Kind, i \in Nat : Deleted(j, i) => Deleted(j, i)'
    BY DEF DeletedStay
  <2> QED
    BY <1>2, <2>1, <2>2 DEF GoneOK
<1>9. ~HasRead(calls[c])'
  BY <1>2, <1>4, <1>6 DEF HasRead
<1>10. NodesTrue(calls[c])'
  BY <1>9 DEF NodesTrue
<1>11. TotalTrue(calls[c])'
  BY <1>2, <1>4, <1>5, <1>6, <1>9 DEF TotalTrue
<1>12. EchoTrue(calls[c])'
  BY <1>2, <1>3, <1>4, <1>5, <1>6, <1>9 DEF EchoTrue
<1>13. AnswerOK(calls[c])'
  BY <1>2, <1>7, <1>8, <1>10, <1>11, <1>12 DEF AnswerOK
<1> QED
  BY <1>2, <1>13, ReadOvertakesNobody

LEMMA InitAnswer == ASSUME Init PROVE AnswerInv
<1>1. AnswerOK(Idle)
  <2>1. /\ Idle.todo = <<>> /\ Idle.status = 0 /\ Idle.req.op = "none" /\ Idle.req.kind = "pet"
        /\ DOMAIN Idle.nodes = {} /\ DOMAIN Idle.edges = {} /\ Idle.gone = {}
        /\ Idle.raced = FALSE
    BY DEF Idle, Empty
  <2>2. <<>> \in Pending("pet")
    BY Unread DEF Kind
  <2> HIDE DEF Idle
  <2> QED
    BY <2>1, <2>2 DEF AnswerOK, PlanOK, GoneOK, NodesTrue, TotalTrue, EchoTrue, Remaining
<1> QED
  BY <1>1 DEF AnswerInv, Init

LEMMA NextAnswer == ASSUME IInv, AnswerInv, [Next]_vars PROVE IInv' /\ AnswerInv'
<1>1. CASE UNCHANGED vars
  <2>1. IInv' /\ DeletedStay
    BY <1>1, StutterKeeps
  <2>2. rows' = rows /\ \A d \in Client : calls'[d] = calls[d]
    BY <1>1 DEF vars
  <2>3. ASSUME NEW d \in Client PROVE AnswerOK(calls[d])'
    BY <2>1, <2>2, OtherStays DEF AnswerInv
  <2> QED
    BY <2>1, <2>3 DEF AnswerInv
<1>2. ASSUME NEW c \in Client, NEW r \in Requests, Request(c, r) PROVE IInv' /\ AnswerInv'
  BY <1>2, RequestKeeps, RequestAnswer
<1>3. ASSUME NEW c \in Client, Fail(c) PROVE IInv' /\ AnswerInv'
  <2>1. IInv' /\ DeletedStay
    BY <1>3, FailKeeps
  <2>2. Refuse(c, 500) /\ rows' = rows
    BY <1>3 DEF Fail
  <2> QED
    BY <2>1, <2>2, RefusedAnswer
<1>4. ASSUME NEW c \in Client, Statement(c) PROVE IInv' /\ AnswerInv'
  <2>1. IInv' /\ DeletedStay
    BY <1>4, StatementKeeps
  <2> QED
    BY <1>4, <2>1, InsertAnswer, UpdateAnswer, HookAnswer, RemoveAnswer, StampAnswer,
       SelectAnswer, CountAnswer, PageAnswer, LoadCategoryAnswer, LoadTagsAnswer,
       LoadPetAnswer DEF Statement
<1> QED
  BY <1>1, <1>2, <1>3, <1>4 DEF Next

-----------------------------------------------------------------------------
(* What the invariant says of an answer that was sent. *)
LEMMA SentIsTrue == ASSUME IInv, AnswerInv PROVE AnswersAreTrue
<1> SUFFICES ASSUME NEW c \in Client, Answered(c)
             PROVE  LET call == calls[c] IN
                    /\ \A i \in DOMAIN call.nodes : LET r == Answer(c)[i] IN
                          /\ <<call.req.kind, i>> \notin call.gone
                          /\ call.req.kind = "pet" =>
                                /\ r.category = Null => rows.pet[i].category_id # r.category_id
                                /\ <<"category", r.category>> \notin call.gone
                                /\ \A t \in r.tags : <<"tag", t>> \notin call.gone
                          /\ call.req.kind = "order" =>
                                /\ r.pet = Null => Deleted("pet", r.pet_id)
                                /\ <<"pet", r.pet>> \notin call.gone
                    /\ call.req.op = "list" /\ ~call.raced =>
                          call.total = Cardinality(DOMAIN call.nodes)
  BY DEF AnswersAreTrue
<1> DEFINE call == calls[c]
<1>1. AnswerOK(call) /\ call.req.kind \in Kind /\ call.todo = <<>> /\ call.status \in {200, 201}
  BY DEF AnswerInv, IInv, CallInv, CallOK, Answered, Busy
<1>2. HasRead(call) /\ call.todo # <<"category", "tags">>
  <2>1. <<>> \in Pending(call.req.kind) /\ <<"category", "tags">> # <<>>
    BY <1>1, Unread, Heads
  <2> QED
    BY <1>1, <2>1 DEF HasRead
<1>3. call.req.op = "list" /\ ~call.raced => call.total = Cardinality(DOMAIN call.nodes)
  BY <1>1, <1>2 DEF AnswerOK, TotalTrue
<1>4. ASSUME NEW i \in DOMAIN call.nodes
      PROVE  /\ <<call.req.kind, i>> \notin call.gone
             /\ call.req.kind = "pet" =>
                  /\ Answer(c)[i].category = Null =>
                        rows.pet[i].category_id # Answer(c)[i].category_id
                  /\ <<"category", Answer(c)[i].category>> \notin call.gone
                  /\ \A t \in Answer(c)[i].tags : <<"tag", t>> \notin call.gone
             /\ call.req.kind = "order" =>
                  /\ Answer(c)[i].pet = Null => Deleted("pet", Answer(c)[i].pet_id)
                  /\ <<"pet", Answer(c)[i].pet>> \notin call.gone
  <2>1. NodeTrue(call, i)
    BY <1>1, <1>2 DEF AnswerOK, NodesTrue
  <2>2. Answer(c)[i] = Response(call.req.kind, call.nodes[i], call.edges[i])
    BY DEF Answer
  <2>3. CASE call.req.kind = "pet"
    <3>1. /\ Answer(c)[i].category = call.edges[i].category
          /\ Answer(c)[i].category_id = call.nodes[i].category_id
          /\ Answer(c)[i].tags = call.edges[i].tags
      <4>1. Answer(c)[i] = Pet!Response(call.nodes[i], call.edges[i])
        BY <2>2, <2>3 DEF Response, Of
      <4> HIDE DEF call
      <4> QED
        BY <4>1 DEF Pet!Response
    <3>2. i \in DOMAIN rows["pet"] /\ PetTrue(call, call.nodes[i], call.edges[i])
      BY <2>1, <2>3 DEF NodeTrue
    <3>3. rows["pet"][i].category_id \in DOMAIN rows["category"]
      BY <3>2 DEF IInv, NoOrphans, Dangles, References, Of, Pet!References, Kind
    <3> QED
      BY <1>1, <1>2, <2>1, <2>3, <3>1, <3>2, <3>3 DEF NodeTrue, PetTrue, Deleted
  <2>4. CASE call.req.kind = "order"
    <3>1. Answer(c)[i].pet = call.edges[i].pet /\ Answer(c)[i].pet_id = call.nodes[i].pet_id
      <4>1. Answer(c)[i] = Order!Response(call.nodes[i], call.edges[i])
        BY <2>2, <2>4 DEF Response, Of
      <4> HIDE DEF call
      <4> QED
        BY <4>1 DEF Order!Response
    <3> QED
      BY <1>1, <2>1, <2>4, <3>1 DEF NodeTrue, OrderTrue
  <2>5. CASE call.req.kind \notin {"pet", "order"}
    BY <2>1, <2>5 DEF NodeTrue
  <2> QED
    BY <2>3, <2>4, <2>5
<1> QED
  BY <1>3, <1>4

LEMMA SentIsEchoed == ASSUME IInv, AnswerInv PROVE EchoesItsWrite
<1> SUFFICES ASSUME NEW c \in Client, Answered(c), ~calls[c].raced,
                    calls[c].req.op \in {"create", "patch"}
             PROVE  LET call == calls[c] IN
                    /\ DOMAIN call.nodes = {call.id}
                    /\ \A key \in DOMAIN call.req.body :
                         LET said == Reads(call.req.kind, call.req.body, key) IN
                         /\ said # <<>> => Answer(c)[call.id][key] = Shown(key, said[1])
                         /\ said = <<>> /\ call.req.op = "patch" =>
                              Answer(c)[call.id][key] = Null
  BY DEF EchoesItsWrite
<1> DEFINE k == calls[c].req.kind
           b == calls[c].req.body
           id == calls[c].id
<1>1. /\ AnswerOK(calls[c]) /\ k \in Kind /\ calls[c].todo = <<>>
      /\ calls[c].status \in {200, 201}
  BY DEF AnswerInv, IInv, CallInv, CallOK, Answered, Busy
<1>2. HasRead(calls[c])
  BY <1>1, Unread DEF HasRead
<1>3. /\ DOMAIN b \subseteq Keys(k) /\ DOMAIN calls[c].nodes = {id}
      /\ Shows(k, calls[c].nodes[id], calls[c].req)
  BY <1>1, <1>2 DEF AnswerOK, EchoTrue
<1>4. ASSUME NEW key \in DOMAIN b
      PROVE  /\ Reads(k, b, key) # <<>> => Answer(c)[id][key] = Shown(key, Reads(k, b, key)[1])
             /\ Reads(k, b, key) = <<>> /\ calls[c].req.op = "patch" => Answer(c)[id][key] = Null
  <2>1. key \in Keys(k)
    BY <1>3
  <2>2. Answer(c)[id] = Response(k, calls[c].nodes[id], calls[c].edges[id])
    BY <1>3 DEF Answer
  <2>3. Answer(c)[id][key] = Response(k, calls[c].nodes[id], NoEdges)[key]
    BY <1>1, <2>1, <2>2, EdgesLeaveKeys
  <2>4. CASE b[key] # Null
    <3>1. Reads(k, b, key) = <<b[key]>>
      BY <1>1, <2>1, <2>4, ReadsCarried
    <3>2. Answer(c)[id][key] = Shown(key, b[key])
      BY <1>3, <2>3, <2>4 DEF Shows
    <3> QED
      BY <3>1, <3>2
  <2>5. CASE b[key] = Null
    <3>1. Reads(k, b, key) = <<>>
      BY <1>1, <2>1, <2>5, ReadsCarried
    <3>2. calls[c].req.op = "patch" => Answer(c)[id][key] = Null
      BY <1>3, <2>3, <2>5 DEF Shows
    <3> QED
      BY <3>1, <3>2
  <2> QED
    BY <2>4, <2>5
<1> QED
  BY <1>3, <1>4

\* The invariant, for every seed, every set of requests and every bound.
THEOREM Invariant == Spec => [](IInv /\ AnswerInv)
<1>1. Init => IInv /\ AnswerInv
  BY InitEstablishes, InitAnswer
<1>2. IInv /\ AnswerInv /\ [Next]_vars => (IInv /\ AnswerInv)'
  BY NextAnswer
<1> QED
  BY <1>1, <1>2, PTL DEF Spec

\* Whatever runs in between its statements, an answer holds nothing that was
\* deleted before the request began, shows null for an edge only where it was
\* deleted, and a list that nobody wrote under counts what it returns.
THEOREM AnswersStayTrue == Spec => []AnswersAreTrue
<1>1. IInv /\ AnswerInv => AnswersAreTrue
  BY SentIsTrue
<1> QED
  BY <1>1, Invariant, PTL

\* A create or a patch that nobody overtook answers every value it was given and
\* nothing for every null that clears, read back from the database.
THEOREM WritesAreEchoed == Spec => []EchoesItsWrite
<1>1. IInv /\ AnswerInv => EchoesItsWrite
  BY SentIsEchoed
<1> QED
  BY <1>1, Invariant, PTL

-----------------------------------------------------------------------------
(***************************************************************************)
(* Progress: what liveness rests on, short of fairness.                    *)
(***************************************************************************)
Edge == {"category", "tags", "pet"}

\* How many statements a plan has left.  A delete that the hook rewrites counts
\* for one more than what it is rewritten to.
Left(todo) == Len(todo) + (IF todo # <<>> /\ Head(todo) = "remove" THEN 1 ELSE 0)

\* Whoever is to load edges has rows to load them for.
Loadable(call) == call.todo # <<>> /\ Head(call.todo) \in Edge => DOMAIN call.nodes # {}

LoadInv == \A c \in Client : Loadable(calls[c])

\* A statement ends the call, is done and has rows if an edge may follow, or is
\* a delete that comes back as an update.
Moves(c) ==
    LET todo == calls[c].todo IN
    \/ calls'[c].todo = <<>>
    \/ /\ calls'[c].todo = Tail(todo)
       /\ DOMAIN calls'[c].nodes # {} \/ Head(todo) \in {"count", "remove", "stamp"}
    \/ Head(todo) = "remove" /\ Tail(todo) = <<>> /\ calls'[c].todo = <<"stamp">>

\* The other calls go nowhere.
OthersStand(c) == \A d \in Client \ {c} :
    calls'[d].todo = calls[d].todo /\ calls'[d].nodes = calls[d].nodes

LEMMA RefuseMoves ==
    ASSUME CallInv, NEW c \in Client, NEW status, Refuse(c, status)
    PROVE  Moves(c) /\ OthersStand(c)
<1>1. DOMAIN calls = Client /\ DOMAIN calls[c] = CallFields
  BY DEF CallInv, CallOK
<1>2. calls'[c].todo = <<>>
  BY <1>1 DEF Refuse, CallFields
<1>3. OthersStand(c)
  BY <1>1 DEF Refuse, OthersStand
<1> QED
  BY <1>2, <1>3 DEF Moves

\* What a statement that is done makes of its call.
LEMMA Doing ==
    ASSUME NEW c \in Client, NEW call, calls'[c] = Proceeded(call),
           DOMAIN call = CallFields, call.todo = calls[c].todo,
           DOMAIN call.nodes # {} \/ Head(call.todo) \in {"count", "remove", "stamp"}
    PROVE  Moves(c)
<1>1. calls'[c].todo = Tail(calls[c].todo) /\ calls'[c].nodes = call.nodes
  BY DEF Proceeded, CallFields
<1> QED
  BY <1>1 DEF Moves

LEMMA ReadMoves ==
    ASSUME CallInv, NEW c \in Client, NEW call, Proceed(c, call),
           DOMAIN call = CallFields, call.todo = calls[c].todo,
           DOMAIN call.nodes # {} \/ Head(call.todo) \in {"count", "remove", "stamp"}
    PROVE  Moves(c) /\ OthersStand(c)
<1>1. DOMAIN calls = Client
  BY DEF CallInv
<1>2. calls'[c] = Proceeded(call) /\ OthersStand(c)
  BY <1>1 DEF Proceed, OthersStand
<1> QED
  BY <1>2, Doing

LEMMA WriteMoves ==
    ASSUME CallInv, NEW c \in Client, NEW call, NEW k, NEW ids, ProceedWriting(c, call, k, ids),
           DOMAIN call = CallFields, call.todo = calls[c].todo,
           DOMAIN call.nodes # {} \/ Head(call.todo) \in {"count", "remove", "stamp"}
    PROVE  Moves(c) /\ OthersStand(c)
<1> DEFINE written == [call EXCEPT !.wrote = TRUE]
<1>1. \A d \in Client : DOMAIN calls[d] = CallFields
  BY DEF CallInv, CallOK
<1>2. /\ calls'[c] = Proceeded(written)
      /\ \A d \in Client \ {c} : calls'[d] \in {calls[d], [calls[d] EXCEPT !.raced = TRUE]}
  BY DEF ProceedWriting
<1>3. OthersStand(c)
  BY <1>1, <1>2 DEF OthersStand, CallFields
<1>4. /\ DOMAIN written = CallFields /\ written.todo = call.todo /\ written.nodes = call.nodes
  BY DEF CallFields
<1> HIDE DEF written
<1> QED
  BY <1>2, <1>3, <1>4, Doing

LEMMA InsertMoves == ASSUME IInv, NEW c \in Client, Insert(c) PROVE Moves(c) /\ OthersStand(c)
<1> DEFINE k == calls[c].req.kind
           id == next[k]
           row == CreateSpec(k, CreateOf(k, calls[c].req.body))
           read == [calls[c] EXCEPT !.id = id, !.nodes = [i \in {id} |-> Entity(k, i, row)],
                                    !.edges = [i \in {id} |-> NoEdges]]
<1>1. CallInv /\ DOMAIN calls[c] = CallFields
  BY DEF IInv, CallInv, CallOK
<1>2. (\E status : Refuse(c, status)) \/ ProceedWriting(c, read, k, {id})
  BY DEF Insert
<1>3. DOMAIN read = CallFields /\ read.todo = calls[c].todo /\ DOMAIN read.nodes # {}
  BY <1>1 DEF CallFields
<1> HIDE DEF read
<1> QED
  BY <1>1, <1>2, <1>3, RefuseMoves, WriteMoves

LEMMA UpdateMoves == ASSUME IInv, NEW c \in Client, Update(c) PROVE Moves(c) /\ OthersStand(c)
<1> DEFINE k == calls[c].req.kind
           id == calls[c].id
           row == UpdateSpec(k, rows[k][id], PatchOf(k, calls[c].req.body))
           read == [calls[c] EXCEPT !.nodes = [i \in {id} |-> Entity(k, i, row)],
                                    !.edges = [i \in {id} |-> NoEdges]]
<1>1. CallInv /\ DOMAIN calls[c] = CallFields
  BY DEF IInv, CallInv, CallOK
<1>2. \/ \E status : Refuse(c, status)
      \/ ProceedWriting(c, read, k, {id}) \/ Proceed(c, read)
  BY DEF Update
<1>3. DOMAIN read = CallFields /\ read.todo = calls[c].todo /\ DOMAIN read.nodes # {}
  BY <1>1 DEF CallFields
<1> HIDE DEF read
<1> QED
  BY <1>1, <1>2, <1>3, RefuseMoves, WriteMoves, ReadMoves

LEMMA HookMoves == ASSUME IInv, NEW c \in Client, Hook(c) PROVE Moves(c) /\ OthersStand(c)
<1> DEFINE k == calls[c].req.kind
           todo == calls[c].todo
<1>1. /\ DOMAIN calls = Client /\ DOMAIN calls[c] = CallFields
      /\ k \in Kind /\ PlanShape(todo) /\ todo # <<>>
  BY DEF IInv, CallInv, CallOK, Hook, Busy
<1>2. Head(todo) = "remove"
  BY <1>1, OnlyPetsAreHooked DEF Hook
<1>3. Tail(todo) = <<>>
  BY <1>1, <1>2 DEF PlanShape
<1>4. calls' = [calls EXCEPT ![c].todo = <<"stamp">> \o <<>>]
  BY <1>3 DEF Hook, Pet!Rewritten
<1>5. <<"stamp">> \o <<>> = <<"stamp">>
  OBVIOUS
<1>6. calls'[c].todo = <<"stamp">> /\ OthersStand(c)
  BY <1>1, <1>4, <1>5 DEF OthersStand, CallFields
<1> QED
  BY <1>2, <1>3, <1>6 DEF Moves

LEMMA RemoveMoves == ASSUME IInv, NEW c \in Client, Remove(c) PROVE Moves(c) /\ OthersStand(c)
<1> DEFINE k == calls[c].req.kind
           hit == calls[c].req.ids \cap DOMAIN rows[k]
<1>1. CallInv /\ DOMAIN calls[c] = CallFields /\ Head(calls[c].todo) = "remove"
  BY DEF IInv, CallInv, CallOK, Remove, Runs
<1>2. (\E status : Refuse(c, status)) \/ ProceedWriting(c, calls[c], k, hit)
  BY DEF Remove
<1> QED
  BY <1>1, <1>2, RefuseMoves, WriteMoves

LEMMA StampMoves == ASSUME IInv, NEW c \in Client, Stamp(c) PROVE Moves(c) /\ OthersStand(c)
<1> DEFINE hit == calls[c].req.ids \cap Pet!Prepared(rows.pet)
<1>1. CallInv /\ DOMAIN calls[c] = CallFields /\ Head(calls[c].todo) = "stamp"
  BY DEF IInv, CallInv, CallOK, Stamp, Runs
<1>2. (\E status : Refuse(c, status)) \/ ProceedWriting(c, calls[c], "pet", hit)
  BY DEF Stamp
<1> QED
  BY <1>1, <1>2, RefuseMoves, WriteMoves

LEMMA SelectMoves == ASSUME IInv, NEW c \in Client, Select(c) PROVE Moves(c) /\ OthersStand(c)
<1> DEFINE found == Only(calls[c].req.kind, calls[c].id)
           read == Reading(calls[c], found)
<1>1. CallInv /\ DOMAIN calls[c] = CallFields
  BY DEF IInv, CallInv, CallOK
<1>2. Refuse(c, 404) \/ (found # {} /\ Proceed(c, read))
  BY DEF Select
<1>3. DOMAIN read = CallFields /\ read.todo = calls[c].todo /\ DOMAIN read.nodes = found
  BY <1>1 DEF Reading, CallFields
<1> HIDE DEF read, found
<1> QED
  BY <1>1, <1>2, <1>3, RefuseMoves, ReadMoves

LEMMA CountRowsMoves ==
    ASSUME IInv, NEW c \in Client, CountRows(c) PROVE Moves(c) /\ OthersStand(c)
<1> DEFINE read == [calls[c] EXCEPT !.total = Count(calls[c].req.kind, calls[c].req.body)]
<1>1. CallInv /\ DOMAIN calls[c] = CallFields /\ Head(calls[c].todo) = "count" /\ Proceed(c, read)
  BY DEF IInv, CallInv, CallOK, CountRows, Runs
<1>2. DOMAIN read = CallFields /\ read.todo = calls[c].todo
  BY <1>1 DEF CallFields
<1> HIDE DEF read
<1> QED
  BY <1>1, <1>2, ReadMoves

LEMMA PageMoves == ASSUME IInv, NEW c \in Client, Page(c) PROVE Moves(c) /\ OthersStand(c)
<1> DEFINE found == All(calls[c].req.kind, calls[c].req.body)
           read == Reading(calls[c], found)
<1>1. CallInv /\ DOMAIN calls[c] = CallFields
  BY DEF IInv, CallInv, CallOK
<1>2. Refuse(c, 200) \/ (found # {} /\ Proceed(c, read))
  BY DEF Page
<1>3. DOMAIN read = CallFields /\ read.todo = calls[c].todo /\ DOMAIN read.nodes = found
  BY <1>1 DEF Reading, CallFields
<1> HIDE DEF read, found
<1> QED
  BY <1>1, <1>2, <1>3, RefuseMoves, ReadMoves

LEMMA LoadMoves ==
    ASSUME IInv, NEW c \in Client, NEW edge, NEW neighbours, Load(c, edge, neighbours)
    PROVE  Moves(c) /\ OthersStand(c)
<1> DEFINE read == [calls[c] EXCEPT !.edges = [i \in DOMAIN calls[c].nodes |->
                      [calls[c].edges[i] EXCEPT ![edge] = neighbours[i]]]]
<1>1. /\ CallInv /\ DOMAIN calls[c] = CallFields /\ DOMAIN calls[c].nodes # {}
      /\ Proceed(c, read)
  BY DEF IInv, CallInv, CallOK, Load
<1>2. DOMAIN read = CallFields /\ read.todo = calls[c].todo /\ read.nodes = calls[c].nodes
  BY <1>1 DEF CallFields
<1> HIDE DEF read
<1> QED
  BY <1>1, <1>2, ReadMoves

LEMMA StatementMoves ==
    ASSUME IInv, NEW c \in Client, Statement(c) PROVE Moves(c) /\ OthersStand(c) /\ Busy(c)
<1>1. ASSUME LoadCategory(c) \/ LoadTags(c) \/ LoadPet(c)
      PROVE  Moves(c) /\ OthersStand(c) /\ Busy(c)
  <2>1. \E edge, neighbours : Load(c, edge, neighbours)
    BY <1>1 DEF LoadCategory, LoadTags, LoadPet
  <2>2. PICK edge, neighbours : Load(c, edge, neighbours)
    BY <2>1
  <2>3. Busy(c)
    BY <2>2 DEF Load, Runs
  <2> QED
    BY <2>2, <2>3, LoadMoves
<1>2. Busy(c)
  BY <1>1 DEF Statement, Insert, Update, Hook, Remove, Stamp, Select, CountRows, Page, Runs
<1> QED
  BY <1>1, <1>2, InsertMoves, UpdateMoves, HookMoves, RemoveMoves, StampMoves,
            SelectMoves, CountRowsMoves, PageMoves DEF Statement

LEMMA FailMoves ==
    ASSUME IInv, NEW c \in Client, Fail(c) PROVE calls'[c].todo = <<>> /\ OthersStand(c) /\ Busy(c)
<1>1. DOMAIN calls = Client /\ DOMAIN calls[c] = CallFields
  BY DEF IInv, CallInv, CallOK
<1> QED
  BY <1>1 DEF Fail, Refuse, OthersStand, CallFields

\* A move leaves less to do.
LEMMA MovesLessen ==
    ASSUME CallInv, NEW c \in Client, Busy(c), Moves(c)
    PROVE  Left(calls'[c].todo) < Left(calls[c].todo)
<1> DEFINE todo == calls[c].todo
<1>1. PlanShape(todo) /\ todo # <<>>
  BY DEF CallInv, CallOK, Busy
<1>2. /\ todo \in Seq(Word) /\ Len(todo) \in Nat /\ Len(todo) >= 1
      /\ Tail(todo) \in Seq(Word) /\ Len(Tail(todo)) = Len(todo) - 1
  BY <1>1 DEF PlanShape
<1>3. ReadsOnly(Tail(todo))
  BY <1>1 DEF PlanShape
<1> HIDE DEF todo
<1>4. Left(todo) >= Len(todo) /\ Left(todo) \in Nat
        /\ (Head(todo) = "remove" => Left(todo) = Len(todo) + 1)
  BY <1>1, <1>2 DEF Left
<1>5. CASE calls'[c].todo = <<>>
  <2>1. Left(<<>>) = 0
    BY DEF Left
  <2> QED
    BY <1>2, <1>4, <1>5, <2>1 DEF todo
<1>6. CASE calls'[c].todo = Tail(todo)
  <2> DEFINE t == Tail(todo)
  <2> HIDE DEF t
  <2>1. t # <<>> => Head(t) # "remove"
    <3>1. t \in Seq(Word) /\ ReadsOnly(t)
      BY <1>2, <1>3 DEF t
    <3>2. t # <<>> => Head(t) = t[1] /\ 1 \in DOMAIN t
      BY <3>1
    <3> QED
      BY <3>1, <3>2 DEF ReadsOnly, Writing
  <2>2. Len(t) = Len(todo) - 1
    BY <1>2 DEF t
  <2>3. Left(t) = Len(t)
    <3>1. Left(t) = Len(t) + 0
      BY <2>1 DEF Left
    <3> QED
      BY <1>2, <2>2, <3>1
  <2> QED
    BY <1>2, <1>4, <1>6, <2>2, <2>3 DEF t, todo
<1>7. CASE Head(todo) = "remove" /\ calls'[c].todo = <<"stamp">>
  <2>1. Left(<<"stamp">>) = 1
    BY DEF Left
  <2> QED
    BY <1>2, <1>4, <1>7, <2>1 DEF todo
<1> QED
  BY <1>5, <1>6, <1>7 DEF Moves, todo

\* A request leaves the others alone, and its plan loads no edge first.
LEMMA RequestLoads ==
    ASSUME CallInv, NEW c \in Client, NEW r \in Requests, Request(c, r)
    PROVE  ~Busy(c) /\ OthersStand(c) /\ Loadable(calls[c])'
<1> DEFINE todo == IF Refusal(r) = 0 THEN Plan(r.kind, r.op) ELSE <<>>
<1>1. DOMAIN calls = Client /\ r.kind \in Kind /\ r.op \in Operation
  BY RequestsAssumption DEF CallInv
<1>2. ~Busy(c) /\ OthersStand(c) /\ calls'[c].todo = todo
  BY <1>1 DEF Request, Idle, OthersStand
<1>3. Head(Plan(r.kind, r.op)) \notin Edge
  BY <1>1, PlanIs, Heads DEF Edge
<1>4. todo # <<>> => Head(todo) \notin Edge
  BY <1>3
<1> HIDE DEF todo
<1> QED
  BY <1>2, <1>4 DEF Loadable

\* So does a move: what may be loaded next is loaded for rows that were read.
LEMMA MovesLoad ==
    ASSUME IInv, AnswerInv, NEW c \in Client, Busy(c), Moves(c)
    PROVE  Loadable(calls[c])'
<1> DEFINE k == calls[c].req.kind
           todo == calls[c].todo
<1>1. /\ k \in Kind /\ PlanShape(todo) /\ todo # <<>>
      /\ todo \in Remaining(k, calls[c].req.op)
  BY DEF IInv, CallInv, CallOK, AnswerInv, AnswerOK, PlanOK, Busy
<1>2. Head(todo) = "count" => Head(Tail(todo)) = "page"
  BY <1>1, Stages, Tails, Heads, SMTT(30)
<1>3. Head(todo) \in {"remove", "stamp"} => Tail(todo) = <<>>
  BY <1>1 DEF PlanShape
<1>4. Head(<<"stamp">>) = "stamp"
  OBVIOUS
<1> QED
  BY <1>2, <1>3, <1>4 DEF Moves, Loadable, Edge

LEMMA NextLoads == ASSUME IInv, AnswerInv, LoadInv, [Next]_vars PROVE LoadInv'
<1>1. ASSUME NEW c \in Client, OthersStand(c), Loadable(calls[c])' PROVE LoadInv'
  BY <1>1 DEF LoadInv, Loadable, OthersStand
<1>2. CASE UNCHANGED vars
  BY <1>2 DEF vars, LoadInv, Loadable
<1>3. ASSUME NEW c \in Client, Statement(c) PROVE LoadInv'
  BY <1>1, <1>3, StatementMoves, MovesLoad
<1>4. ASSUME NEW c \in Client, Fail(c) PROVE LoadInv'
  BY <1>1, <1>4, FailMoves DEF Loadable
<1>5. ASSUME NEW c \in Client, NEW r \in Requests, Request(c, r) PROVE LoadInv'
  BY <1>1, <1>5, RequestLoads DEF IInv
<1> QED
  BY <1>2, <1>3, <1>4, <1>5 DEF Next

\* A request at work has a statement that it can run, whatever the others have
\* done meanwhile: its guards are met, and an eager load is one that its kind
\* has, for rows that were read.
THEOREM CallsCanGoOn ==
    Spec => [](\A c \in Client : Busy(c) =>
        LET k    == calls[c].req.kind
            word == Head(calls[c].todo) IN
        /\ word \in Word
        /\ word \in Edge => DOMAIN calls[c].nodes # {}
        /\ word \in {"category", "tags"} => k = "pet"
        /\ word = "pet" => k = "order")
<1> DEFINE Able == \A c \in Client : Busy(c) =>
              LET k    == calls[c].req.kind
                  word == Head(calls[c].todo) IN
              /\ word \in Word
              /\ word \in Edge => DOMAIN calls[c].nodes # {}
              /\ word \in {"category", "tags"} => k = "pet"
              /\ word = "pet" => k = "order"
<1>1. Init => LoadInv
  BY DEF Init, LoadInv, Loadable, Idle
<1>2. IInv /\ AnswerInv /\ LoadInv /\ [Next]_vars => LoadInv'
  BY NextLoads
<1>3. IInv /\ AnswerInv /\ LoadInv => Able
  <2> SUFFICES ASSUME IInv, AnswerInv, LoadInv, NEW c \in Client, Busy(c)
               PROVE  LET k    == calls[c].req.kind
                          word == Head(calls[c].todo) IN
                      /\ word \in Word
                      /\ word \in Edge => DOMAIN calls[c].nodes # {}
                      /\ word \in {"category", "tags"} => k = "pet"
                      /\ word = "pet" => k = "order"
    OBVIOUS
  <2> DEFINE k == calls[c].req.kind
             todo == calls[c].todo
  <2>1. /\ k \in Kind /\ todo \in Seq(Word) /\ todo # <<>>
        /\ todo \in Remaining(k, calls[c].req.op) /\ Loadable(calls[c])
    BY DEF IInv, CallInv, CallOK, PlanShape, AnswerInv, AnswerOK, PlanOK, LoadInv, Busy
  <2>2. Head(todo) \in Word
    BY <2>1
  <2>3. /\ Head(todo) \in {"category", "tags"} => k = "pet"
        /\ Head(todo) = "pet" => k = "order"
    BY <2>1, Stages
  <2> QED
    BY <2>1, <2>2, <2>3 DEF Loadable
<1> HIDE DEF Able
<1>4. Spec => []Able
  BY <1>1, <1>2, <1>3, Invariant, PTL DEF Spec
<1> QED
  BY <1>4 DEF Able

\* Each statement of a request leaves it less to do, a delete that the hook
\* rewrites included, and nobody else gives it more.
THEOREM CallsRunOut ==
    Spec => [][\A c \in Client : Busy(c) =>
        /\ Statement(c) => Left(calls'[c].todo) < Left(calls[c].todo)
        /\ \/ calls'[c].todo = calls[c].todo
           \/ Left(calls'[c].todo) < Left(calls[c].todo)]_vars
<1> DEFINE Step == \A c \in Client : Busy(c) =>
              /\ Statement(c) => Left(calls'[c].todo) < Left(calls[c].todo)
              /\ \/ calls'[c].todo = calls[c].todo
                 \/ Left(calls'[c].todo) < Left(calls[c].todo)
<1>1. ASSUME IInv, [Next]_vars PROVE [Step]_vars
  <2>1. ASSUME NEW c \in Client, Busy(c), Statement(c)
        PROVE  Left(calls'[c].todo) < Left(calls[c].todo)
    BY <1>1, <2>1, StatementMoves, MovesLessen DEF IInv
  <2>2. ASSUME NEW c \in Client, Busy(c), Fail(c)
        PROVE  Left(calls'[c].todo) < Left(calls[c].todo)
    <3>1. calls'[c].todo = <<>>
      BY <1>1, <2>2, FailMoves
    <3> QED
      BY <1>1, <2>2, <3>1, MovesLessen DEF IInv, Moves
  <2>3. ASSUME NEW c \in Client, Busy(c), NEW d \in Client, d # c,
               Statement(d) \/ Fail(d) \/ \E r \in Requests : Request(d, r)
        PROVE  calls'[c].todo = calls[c].todo
    <3>1. OthersStand(d)
      BY <1>1, <2>3, StatementMoves, FailMoves, RequestLoads DEF IInv
    <3> QED
      BY <2>3, <3>1 DEF OthersStand
  <2>4. ASSUME NEW c \in Client, Busy(c), NEW r \in Requests, Request(c, r) PROVE FALSE
    BY <2>4 DEF Request
  <2>5. CASE UNCHANGED vars
    BY <2>5
  <2>6. CASE Next
    BY <2>1, <2>2, <2>3, <2>4, <2>6 DEF Next
  <2> QED
    BY <1>1, <2>5, <2>6
<1> HIDE DEF Step
<1>2. Spec => [][Step]_vars
  BY <1>1, Invariant, PTL DEF Spec
<1> QED
  BY <1>2 DEF Step

-----------------------------------------------------------------------------
(***************************************************************************)
(* The tables implement the life cycle of a row: what Wiring is shown to   *)
(* do for one type that is hidden and one that is removed, the four tables *)
(* of the petstore do together.                                            *)
(***************************************************************************)
Id    == Nat \ {0}
Place == Kind \X Id

LifeOf(k, i) ==
    IF i \in DOMAIN rows[k] THEN IF Deleted(k, i) THEN "deleted" ELSE "live"
    ELSE IF i < next[k] THEN "gone" ELSE "unborn"

Lives == [p \in Place |-> LifeOf(p[1], p[2])]

Lifecycle == INSTANCE RowLifecycle WITH
    Row    <- Place,
    Hidden <- {"pet"} \X Id,
    life   <- Lives

\* No id is 0: the row 0 of a kind is as good as deleted.
FirstInv == \A k \in Kind : next[k] # 0 /\ Deleted(k, 0)

LEMMA PlaceFacts ==
    ASSUME NEW p \in Place
    PROVE  p = <<p[1], p[2]>> /\ p[1] \in Kind /\ p[2] \in Id /\ Lives[p] = LifeOf(p[1], p[2])
BY DEF Place, Lives

LEMMA LivesAre == \A k \in Kind, i \in Id : <<k, i>> \in Place /\ Lives[<<k, i>>] = LifeOf(k, i)
BY DEF Place, Lives

\* Who moves the rows of a set of places to a stage, and nobody else.
LEMMA AdvanceIs ==
    ASSUME NEW S \in SUBSET Place, NEW to,
           \A k \in Kind, i \in Id : LifeOf(k, i)' = IF <<k, i>> \in S THEN to ELSE LifeOf(k, i)
    PROVE  Lifecycle!Advance(S, to)
<1>1. ASSUME NEW p \in Place
      PROVE  LifeOf(p[1], p[2])' = IF p \in S THEN to ELSE Lives[p]
  BY PlaceFacts
<1>2. Lives' = [p \in Place |-> LifeOf(p[1], p[2])']
  BY DEF Lives
<1> QED
  BY <1>1, <1>2 DEF Lifecycle!Advance

LEMMA NothingLives ==
    ASSUME UNCHANGED <<rows, next>>
    PROVE  Lives' = Lives
BY DEF Lives, LifeOf, Deleted

\* A pet is inserted without a tombstone.
LEMMA PetsAreBornLive ==
    ASSUME NEW b
    PROVE  CreateSpec("pet", CreateOf("pet", b)).deleted_at = Null
<1> DEFINE m == Pet!ApplyCreate(b)
           n == Pet!PutDefault(m, "status", Pet!DefaultStatus)
           o == Pet!PutDefault(n, "price", 0)
<1>1. "deleted_at" \notin DOMAIN m.set /\ m = [set |-> m.set, cleared |-> m.cleared]
  BY DEF Pet!ApplyCreate, Pet!PutCarried, Pet!CreateRequestTags
<1>2. CreateOf("pet", b) = o
  BY DEF CreateOf, Of, Pet!Defaults
<1> HIDE DEF m
<1>3. "deleted_at" \notin DOMAIN n.set /\ n = [set |-> n.set, cleared |-> n.cleared]
  BY <1>1 DEF Pet!PutDefault, Pet!Put, Pet!Given
<1> HIDE DEF n
<1>4. "deleted_at" \notin DOMAIN o.set
  BY <1>3 DEF Pet!PutDefault, Pet!Put, Pet!Given
<1> HIDE DEF o
<1> QED
  BY <1>2, <1>4 DEF CreateSpec, Of, Pet!CreateSpec, Pet!Inserted, Pet!Given, Pet!Columns

LEMMA BirthLives ==
    ASSUME RowInv, NEW k \in Kind, NEW id \in Id, NEW row, next[k] = id,
           k = "pet" => row.deleted_at = Null,
           rows' = [rows EXCEPT ![k] = [i \in DOMAIN rows[k] \cup {id} |->
                                           IF i = id THEN row ELSE rows[k][i]]],
           next' = [next EXCEPT ![k] = id + 1]
    PROVE  Lifecycle!Insert(<<k, id>>)
<1>1. /\ rows'[k] = [i \in DOMAIN rows[k] \cup {id} |-> IF i = id THEN row ELSE rows[k][i]]
      /\ next'[k] = id + 1
      /\ \A j \in Kind : j # k => rows'[j] = rows[j] /\ next'[j] = next[j]
  BY DEF RowInv
<1>2. id \notin DOMAIN rows[k] /\ id \in Nat
  BY DEF RowInv, Id
<1>3. LifeOf(k, id) = "unborn"
  BY <1>2 DEF LifeOf
<1>4. LifeOf(k, id)' = "live"
  <2>1. id \in DOMAIN rows'[k] /\ rows'[k][id] = row
    BY <1>1
  <2>2. ~Deleted(k, id)'
    BY <2>1 DEF Deleted
  <2> QED
    BY <2>1, <2>2 DEF LifeOf
<1>5. ASSUME NEW j \in Kind, NEW i \in Id, ~(j = k /\ i = id)
      PROVE  LifeOf(j, i)' = LifeOf(j, i)
  <2>1. CASE j = k
    <3>1. /\ i \in DOMAIN rows'[j] <=> i \in DOMAIN rows[j]
          /\ i \in DOMAIN rows[j] => rows'[j][i] = rows[j][i]
      BY <1>1, <1>5, <2>1
    <3>2. i < next'[j] <=> i < next[j]
      BY <1>1, <1>2, <1>5, <2>1 DEF Id
    <3> QED
      BY <3>1, <3>2 DEF LifeOf, Deleted
  <2>2. CASE j # k
    BY <1>1, <2>2 DEF LifeOf, Deleted
  <2> QED
    BY <2>1, <2>2
<1>6. <<k, id>> \in Place /\ Lives[<<k, id>>] = "unborn"
  BY <1>3, LivesAre
<1>7. ASSUME NEW j \in Kind, NEW i \in Id
      PROVE  LifeOf(j, i)' = IF <<j, i>> \in {<<k, id>>} THEN "live" ELSE LifeOf(j, i)
  BY <1>4, <1>5
<1>8. Lifecycle!Advance({<<k, id>>}, "live")
  BY <1>6, <1>7, AdvanceIs
<1> QED
  BY <1>6, <1>8 DEF Lifecycle!Insert

LEMMA InsertLives ==
    ASSUME IInv, FirstInv, NEW c \in Client, Insert(c)
    PROVE  Lifecycle!Next \/ Lives' = Lives
<1> DEFINE k == calls[c].req.kind
           row == CreateSpec(k, CreateOf(k, calls[c].req.body))
           id == next[k]
<1>1. k \in Kind /\ RowInv /\ id \in Id
  BY DEF IInv, CallInv, CallOK, RowInv, FirstInv, Id
<1>2. \/ UNCHANGED <<rows, next>>
      \/ /\ rows' = [rows EXCEPT ![k] = [i \in DOMAIN rows[k] \cup {id} |->
                                             IF i = id THEN row ELSE rows[k][i]]]
         /\ next' = [next EXCEPT ![k] = id + 1]
  BY DEF Insert
<1>3. k = "pet" => row.deleted_at = Null
  BY PetsAreBornLive
<1>4. next[k] = id /\ <<k, id>> \in Place
  BY <1>1, LivesAre
<1> HIDE DEF row, k, id
<1> QED
  BY <1>1, <1>2, <1>3, <1>4, BirthLives, NothingLives DEF Lifecycle!Next

\* An update leaves its row as live or deleted as it was.
LEMMA UpdateLives ==
    ASSUME IInv, NEW c \in Client, Update(c)
    PROVE  Lives' = Lives
<1> DEFINE k == calls[c].req.kind
           m == PatchOf(k, calls[c].req.body)
           id == calls[c].id
           row == UpdateSpec(k, rows[k][id], m)
<1>1. k \in Kind /\ RowInv /\ next' = next
  BY DEF IInv, CallInv, CallOK, Update
<1>2. rows' = rows \/ (id \in DOMAIN rows[k] /\ rows' = [rows EXCEPT ![k][id] = row])
  BY DEF Update
<1>3. ASSUME id \in DOMAIN rows[k], rows' = [rows EXCEPT ![k][id] = row]
      PROVE  Lives' = Lives
  <2>1. k = "pet" => row.deleted_at = rows[k][id].deleted_at
    BY <1>1, <1>3, UpdateKeepsTombstone, PetColumns DEF RowInv
  <2> HIDE DEF row, m, k, id
  <2>2. \A j \in Kind : /\ DOMAIN rows'[j] = DOMAIN rows[j]
                        /\ \A i \in DOMAIN rows[j] :
                             rows'[j][i] = IF j = k /\ i = id THEN row ELSE rows[j][i]
    BY <1>1, <1>3 DEF RowInv
  <2>3. ASSUME NEW j \in Kind, NEW i \in Id PROVE LifeOf(j, i)' = LifeOf(j, i)
    <3>1. i \in DOMAIN rows[j] => (Deleted(j, i)' <=> Deleted(j, i))
      BY <2>1, <2>2 DEF Deleted
    <3> QED
      BY <1>1, <2>2, <3>1 DEF LifeOf
  <2>4. \A p \in Place : LifeOf(p[1], p[2])' = LifeOf(p[1], p[2])
    BY <2>3, PlaceFacts
  <2> QED
    BY <2>4 DEF Lives
<1> QED
  BY <1>1, <1>2, <1>3, NothingLives

\* Rows of a kind that is not hidden go away for good.
LEMMA RemovalLives ==
    ASSUME RowInv, NEW k \in Kind \ {"pet"}, NEW hit \in SUBSET DOMAIN rows[k], 0 \notin hit,
           rows' = [rows EXCEPT ![k] = [i \in DOMAIN rows[k] \ hit |-> rows[k][i]]],
           next' = next
    PROVE  Lifecycle!Remove({k} \X hit)
<1>1. /\ DOMAIN rows'[k] = DOMAIN rows[k] \ hit
      /\ \A i \in DOMAIN rows'[k] : rows'[k][i] = rows[k][i]
      /\ \A j \in Kind : j # k => rows'[j] = rows[j]
  BY DEF RowInv
<1>2. hit \subseteq Id /\ \A i \in hit : i < next[k]
  BY DEF RowInv, Id
<1>3. ASSUME NEW j \in Kind, NEW i \in Id
      PROVE  LifeOf(j, i)' = IF <<j, i>> \in {k} \X hit THEN "gone" ELSE LifeOf(j, i)
  <2>1. CASE j = k /\ i \in hit
    BY <1>1, <1>2, <2>1 DEF LifeOf
  <2>2. CASE j = k /\ i \notin hit
    BY <1>1, <2>2 DEF LifeOf, Deleted
  <2>3. CASE j # k
    BY <1>1, <2>3 DEF LifeOf, Deleted
  <2> QED
    BY <2>1, <2>2, <2>3
<1>4. ASSUME NEW i \in hit
      PROVE  <<k, i>> \in Place /\ Lives[<<k, i>>] = "live"
  BY <1>2, LivesAre DEF LifeOf, Deleted
<1>5. \A p \in {k} \X hit : p \in Place /\ Lives[p] = "live"
  BY <1>4
<1>6. Lifecycle!Advance({k} \X hit, "gone")
  <2>1. {k} \X hit \in SUBSET Place
    BY <1>5
  <2> QED
    BY <1>3, <2>1, AdvanceIs
<1> QED
  BY <1>5, <1>6 DEF Lifecycle!Remove

LEMMA RemoveLives ==
    ASSUME IInv, FirstInv, NEW c \in Client, Remove(c)
    PROVE  Lifecycle!Next \/ Lives' = Lives
<1> DEFINE k == calls[c].req.kind
           hit == calls[c].req.ids \cap DOMAIN rows[k]
<1>1. k \in Kind /\ RowInv /\ k # "pet" /\ next' = next
  BY OnlyPetsAreHooked DEF IInv, CallInv, CallOK, Remove
<1>2. \/ rows' = rows
      \/ rows' = [rows EXCEPT ![k] = [i \in DOMAIN rows[k] \ hit |-> rows[k][i]]]
  BY DEF Remove
<1>3. 0 \notin hit
  BY <1>1 DEF FirstInv, Deleted
<1>4. hit \in SUBSET DOMAIN rows[k]
  OBVIOUS
<1>5. \A i \in hit : <<k, i>> \in Place
  BY <1>1, <1>3, LivesAre DEF RowInv, Id
<1> HIDE DEF k, hit
<1>6. {k} \X hit \in SUBSET Place
  BY <1>5
<1> QED
  BY <1>1, <1>2, <1>3, <1>4, <1>6, RemovalLives, NothingLives DEF Lifecycle!Next

\* Pets that are found get a tombstone and stay.
LEMMA BurialLives ==
    ASSUME RowInv, NEW hit \in SUBSET Pet!Prepared(rows["pet"]), 0 \notin hit,
           rows' = [rows EXCEPT !["pet"] = [i \in DOMAIN rows["pet"] |->
              IF i \in hit THEN Pet!BulkSpec(rows["pet"][i], Pet!DeletedAt(Pet!NoChange))
              ELSE rows["pet"][i]]],
           next' = next
    PROVE  Lifecycle!SoftDelete({"pet"} \X hit)
<1>1. /\ "pet" \in Kind /\ DOMAIN rows'["pet"] = DOMAIN rows["pet"]
      /\ \A i \in DOMAIN rows["pet"] \ hit : rows'["pet"][i] = rows["pet"][i]
      /\ \A i \in hit : rows'["pet"][i] =
            Pet!BulkSpec(rows["pet"][i], Pet!DeletedAt(Pet!NoChange))
      /\ \A j \in Kind : j # "pet" => rows'[j] = rows[j]
  BY DEF RowInv, Kind, Pet!Prepared
<1>2. hit \subseteq Id /\ hit \subseteq DOMAIN rows["pet"]
  BY <1>1 DEF RowInv, Id, Pet!Prepared
<1>3. ASSUME NEW i \in hit PROVE LifeOf("pet", i) = "live" /\ LifeOf("pet", i)' = "deleted"
  <2>1. i \in DOMAIN rows["pet"] /\ rows["pet"][i].deleted_at = Null
    BY <1>2 DEF Pet!Prepared, Pet!Visible
  <2>2. LifeOf("pet", i) = "live"
    BY <2>1 DEF LifeOf, Deleted
  <2>3. DOMAIN rows["pet"][i] = Pet!Columns
    BY <1>1, <2>1, PetColumns DEF RowInv
  <2>4. Pet!BulkSpec(rows["pet"][i], Pet!DeletedAt(Pet!NoChange)).deleted_at = Tombstone
    BY <2>3 DEF Pet!BulkSpec, Pet!Overlay, Pet!DeletedAt, Pet!Put, Pet!NoChange, Pet!Given,
       Pet!Columns, Pet!Tombstone, Tombstone
  <2>5. rows'["pet"][i].deleted_at # Null
    BY <1>1, <2>4, NullAssumption
  <2> QED
    BY <1>1, <2>1, <2>2, <2>5 DEF LifeOf, Deleted
<1>4. ASSUME NEW j \in Kind, NEW i \in Id
      PROVE  LifeOf(j, i)' = IF <<j, i>> \in {"pet"} \X hit THEN "deleted" ELSE LifeOf(j, i)
  <2>1. CASE j = "pet" /\ i \in hit
    BY <1>3, <2>1
  <2>2. CASE j = "pet" /\ i \notin hit
    BY <1>1, <2>2 DEF LifeOf, Deleted
  <2>3. CASE j # "pet"
    BY <1>1, <2>3 DEF LifeOf, Deleted
  <2> QED
    BY <2>1, <2>2, <2>3
<1>5. \A p \in {"pet"} \X hit : p \in Place /\ p \in {"pet"} \X Id /\ Lives[p] = "live"
  <2>1. ASSUME NEW i \in hit PROVE <<"pet", i>> \in Place /\ Lives[<<"pet", i>>] = "live"
    BY <1>1, <1>2, <1>3, LivesAre
  <2> QED
    BY <1>2, <2>1
<1>6. Lifecycle!Advance({"pet"} \X hit, "deleted")
  <2>1. {"pet"} \X hit \in SUBSET Place
    BY <1>5
  <2> QED
    BY <1>4, <2>1, AdvanceIs
<1> QED
  BY <1>5, <1>6 DEF Lifecycle!SoftDelete

LEMMA StampLives ==
    ASSUME IInv, FirstInv, NEW c \in Client, Stamp(c)
    PROVE  Lifecycle!Next \/ Lives' = Lives
<1> DEFINE hit == calls[c].req.ids \cap Pet!Prepared(rows["pet"])
<1>1. RowInv /\ next' = next /\ "pet" \in Kind
  BY DEF IInv, Stamp, Kind
<1>2. \/ rows' = rows
      \/ rows' = [rows EXCEPT !["pet"] = [i \in DOMAIN rows["pet"] |->
            IF i \in hit THEN Pet!BulkSpec(rows["pet"][i], Pet!DeletedAt(Pet!NoChange))
            ELSE rows["pet"][i]]]
  BY DEF Stamp, NoChange, Pet!NoChange
<1>3. 0 \notin hit
  BY <1>1 DEF FirstInv, Deleted, Pet!Prepared, Pet!Visible
<1>4. hit \in SUBSET Pet!Prepared(rows["pet"])
  OBVIOUS
<1>5. \A i \in hit : <<"pet", i>> \in Place
  BY <1>1, <1>3, LivesAre DEF RowInv, Id, Pet!Prepared
<1> HIDE DEF hit
<1>6. {"pet"} \X hit \in SUBSET Place
  BY <1>5
<1> QED
  BY <1>1, <1>2, <1>3, <1>4, <1>6, BurialLives, NothingLives DEF Lifecycle!Next

LEMMA NextLives ==
    ASSUME IInv, FirstInv, [Next]_vars
    PROVE  FirstInv' /\ (Lifecycle!Next \/ Lives' = Lives)
<1>1. ASSUME DeletedStay PROVE FirstInv'
  <2>1. \A k \in Kind : next[k] \in Nat /\ next'[k] \in Nat
    BY NextKeeps DEF IInv, RowInv
  <2> QED
    BY <1>1, <2>1 DEF DeletedStay, FirstInv
<1>2. CASE UNCHANGED vars
  BY <1>1, <1>2, StutterKeeps, NothingLives DEF vars
<1>3. ASSUME NEW c \in Client, Fail(c) PROVE FirstInv' /\ Lives' = Lives
  BY <1>1, <1>3, FailKeeps, NothingLives DEF Fail
<1>4. ASSUME NEW c \in Client, NEW r \in Requests, Request(c, r)
      PROVE  FirstInv' /\ Lives' = Lives
  BY <1>1, <1>4, RequestKeeps, NothingLives DEF Request
<1>5. ASSUME NEW c \in Client, Statement(c)
      PROVE  FirstInv' /\ (Lifecycle!Next \/ Lives' = Lives)
  <2>1. DeletedStay
    BY <1>5, StatementKeeps
  <2>2. ASSUME Hook(c) \/ Select(c) \/ CountRows(c) \/ Page(c) PROVE Lives' = Lives
    BY <2>2, NothingLives DEF Hook, Select, CountRows, Page
  <2>3. ASSUME LoadCategory(c) \/ LoadTags(c) \/ LoadPet(c) PROVE Lives' = Lives
    BY <2>3, NothingLives DEF LoadCategory, LoadTags, LoadPet, Load
  <2> QED
    BY <1>1, <1>5, <2>1, <2>2, <2>3, InsertLives, UpdateLives, RemoveLives, StampLives
       DEF Statement
<1> QED
  BY <1>2, <1>3, <1>4, <1>5 DEF Next

LEMMA InitLives == ASSUME Init PROVE FirstInv /\ Lifecycle!Init
<1>1. IInv
  BY InitEstablishes
<1>2. \A k \in Kind : 0 \notin DOMAIN rows[k] /\ next[k] # 0 /\ next[k] \in Nat
  <2>1. \A k \in Kind : /\ Cardinality(DOMAIN SeedRows[k]) \in Nat
                        /\ DOMAIN SeedRows[k] = 1..Cardinality(DOMAIN SeedRows[k])
    BY SeedAssumption, FS_CardinalityType
  <2> QED
    BY <2>1 DEF Init
<1>3. FirstInv
  BY <1>2 DEF FirstInv, Deleted
<1>4. ASSUME NEW k \in Kind, NEW i \in Id
      PROVE  /\ LifeOf(k, i) \in {"unborn", "live", "deleted"}
             /\ LifeOf(k, i) = "deleted" => k = "pet"
  <2>1. i \notin DOMAIN rows[k] => ~(i < next[k])
    BY SeedAssumption, FS_CardinalityType DEF Init, Id
  <2> QED
    BY <2>1 DEF LifeOf, Deleted
<1>5. Lifecycle!Init
  <2>1. \A p \in Place : Lives[p] \in {"unborn", "live", "deleted"}
    BY <1>4, PlaceFacts
  <2>2. Lives \in [Place -> {"unborn", "live", "deleted"}]
    BY <2>1 DEF Lives
  <2>3. \A p \in Place : Lives[p] = "deleted" => p \in {"pet"} \X Id
    BY <1>4, PlaceFacts
  <2> QED
    BY <2>2, <2>3 DEF Lifecycle!Init
<1> QED
  BY <1>3, <1>5

\* Whatever requests overlap and whichever statements fail, each row of the four
\* tables is born once, under an id that nobody had, a pet is hidden by its delete
\* and stays, the other rows are removed by theirs, and no row ever comes back.
THEOREM StoreKeepsLifecycle == Spec => Lifecycle!Spec
<1>1. Init => FirstInv /\ Lifecycle!Init
  BY InitLives
<1>2. IInv /\ FirstInv /\ [Next]_vars => FirstInv' /\ [Lifecycle!Next]_Lives
  BY NextLives
<1>3. IInv /\ AnswerInv => IInv
  OBVIOUS
<1> QED
  BY <1>1, <1>2, <1>3, Invariant, PTL DEF Spec, Lifecycle!Spec
=============================================================================
