--------------------------- MODULE PresenceProofs ---------------------------
(***************************************************************************)
(* What Presence promises, for every schema, every payload and every row.  *)
(*                                                                         *)
(* Presence is recorded from the raw keys, values are filled by a decoder  *)
(* that folds case: the two agree only on payloads without a variant of a  *)
(* key, and UnmarshalJSON refuses the others.  The invariant says so of    *)
(* every request that gets as far as Validate.                             *)
(***************************************************************************)
EXTENDS Presence, WellFoundedInduction, TLAPS

Source  == {"none", "handler", "consumer", "go"}
Value   == Plain \cup {"odd"}
Content == Value \cup {"default", "NULL"}

Request == [kind : {"none", "create", "patch"}, source : Source, body : Seq(Entry),
            fields : [Field -> Value \cup {"nil"}], present : SUBSET Field,
            stage : {"idle", "decode", "validate", "save", "done"},
            outcome : {"none", "refused", "saved", "panic", "failed"}]

TypeInv ==
    /\ schema \in [Field -> Shape]
    /\ row # NoRow => row \in [Field -> Content]
    /\ request \in Request

\* A create has a family and no row yet, a patch has a row.
Placed ==
    /\ request.kind \in {"create", "patch"} /\ request.source # "none"
    /\ request.kind = "create" => HasCreateFamily(schema)
    /\ request.kind = "patch" => row # NoRow
    /\ request.source = "go" => request.body = <<>>

\* What Validate gets: a struct built in Go, or a payload without a variant.
Read(s, r) ==
    IF r.source = "go"
      THEN \A f \in Tags(s, r.kind) : r.fields[f] = "nil" => IsPointer(s, r.kind, f)
    ELSE /\ ~FoldedKey(r.body, Tags(s, r.kind)) /\ ~Mistyped(r.body, Tags(s, r.kind))
         /\ r.present = Present(s, r.kind, r.body)
         /\ \A f \in Tags(s, r.kind) : r.fields[f] = Decoded(r.body, f, IsPointer(s, r.kind, f))

IInv ==
    /\ TypeInv
    /\ request.stage \in {"decode", "validate", "save"} => Placed /\ request.outcome = "none"
    /\ request.stage = "decode" => request.source # "go"
    /\ request.stage \in {"validate", "save"} => Read(schema, request)
    /\ request.stage = "save" => ~Invalid(schema, request)
    /\ request.stage = "idle" => request.outcome = "none"
    /\ VerdictIsExact

-----------------------------------------------------------------------------
(***************************************************************************)
(* Payloads.                                                               *)
(***************************************************************************)
LEMMA MaxIsOne ==
    ASSUME NEW L \in Nat, NEW S \in SUBSET (1..L), S # {}
    PROVE  Max(S) \in S
<1> DEFINE Below == {L - n : n \in S}
<1>1. Below \subseteq Nat /\ Below # {}
  <2>1. \A n \in S : L - n \in Nat
    OBVIOUS
  <2>2. PICK n \in S : TRUE
    OBVIOUS
  <2>3. L - n \in Below
    OBVIOUS
  <2> QED BY <2>1, <2>3
<1>2. PICK x \in Below : \A y \in Below : ~(<<y, x>> \in OpToRel(<, Nat))
  BY <1>1, NatLessThanWellFounded, WFMin
<1>3. \A y \in Below : ~(y < x)
  BY <1>1, <1>2 DEF OpToRel
<1>4. PICK n \in S : x = L - n
  BY <1>2
<1>5. \A m \in S : n >= m
  BY <1>3, <1>4
<1> QED BY <1>5 DEF Max

LEMMA LastEntry ==
    ASSUME NEW body \in Seq(Entry), NEW S \in SUBSET DOMAIN body, S # {}
    PROVE  Max(S) \in S /\ Max(S) \in DOMAIN body /\ body[Max(S)] \in Entry
<1>1. DOMAIN body = 1..Len(body) /\ Len(body) \in Nat
  OBVIOUS
<1>2. Max(S) \in S
  BY <1>1, MaxIsOne
<1>3. \A n \in DOMAIN body : body[n] \in Entry
  BY <1>1
<1> QED BY <1>2, <1>3

\* What a field of a struct holds: a value, or nil if it is a pointer.
LEMMA DecodedValue ==
    ASSUME NEW body \in Seq(Entry), NEW tags, ~Mistyped(body, tags), NEW f \in tags,
           NEW pointer \in BOOLEAN
    PROVE  /\ Decoded(body, f, pointer) \in Value \cup {"nil"}
           /\ ~pointer => Decoded(body, f, pointer) # "nil"
<1> DEFINE setting == {n \in Folded(body, f) : pointer \/ body[n].value # "null"}
           last == Max(setting)
<1>1. CASE setting = {}
  BY <1>1 DEF Decoded, Value, Plain
<1>2. CASE setting # {}
  <2>1. setting \subseteq DOMAIN body
    BY DEF Folded
  <2>2. last \in setting /\ body[last] \in Entry
    BY <1>2, <2>1, LastEntry
  <2>3. body[last].key = f /\ (pointer \/ body[last].value # "null")
    BY <2>2 DEF Folded
  <2>4. body[last].value # "mistyped"
    BY <2>1, <2>2, <2>3 DEF Mistyped
  <2>5. body[last].value \in Value \cup {"null"}
    BY <2>2, <2>4 DEF Entry, Value, Plain
  <2>6. Decoded(body, f, pointer) = IF body[last].value = "null" THEN "nil" ELSE body[last].value
    BY <1>2 DEF Decoded
  <2> QED BY <2>3, <2>5, <2>6 DEF Value, Plain
<1> QED BY <1>1, <1>2

\* Presence is what was said, however often.
LEMMA PresentIsSaid ==
    ASSUME NEW s, NEW kind, NEW body \in Seq(Entry), NEW f \in Field
    PROVE  f \in Present(s, kind, body) <=>
             /\ Said(body, f) # "absent"
             /\ kind = "create" => Said(body, f) # "null"
<1>1. CASE Named(body, f) = {}
  BY <1>1 DEF Present, Said
<1>2. CASE Named(body, f) # {}
  <2>1. body[Max(Named(body, f))] \in Entry
    BY <1>2, LastEntry DEF Named
  <2>2. body[Max(Named(body, f))].value # "absent"
    BY <2>1 DEF Entry, Plain
  <2> QED BY <1>2, <2>2 DEF Present, Said
<1> QED BY <1>1, <1>2

\* A key that is said once is decoded as said.
LEMMA DecodedIsSaid ==
    ASSUME NEW body \in Seq(Entry), NEW tags, ~FoldedKey(body, tags), NEW f \in tags,
           SaidOnce(body, f), NEW pointer \in BOOLEAN
    PROVE  Decoded(body, f, pointer) =
             IF Said(body, f) \in {"absent", "null"} THEN IF pointer THEN "nil" ELSE "zero"
             ELSE Said(body, f)
<1> DEFINE setting == {n \in Folded(body, f) : pointer \/ body[n].value # "null"}
<1>1. Folded(body, f) = Named(body, f)
  BY DEF Folded, Named, FoldedKey
<1>2. CASE Named(body, f) = {}
  BY <1>1, <1>2 DEF Decoded, Said
<1>3. CASE Named(body, f) # {}
  <2> DEFINE n == Max(Named(body, f))
  <2>1. n \in Named(body, f) /\ body[n] \in Entry
    BY <1>3, LastEntry DEF Named
  <2>2. Named(body, f) = {n}
    BY <2>1 DEF SaidOnce
  <2>3. Said(body, f) = body[n].value /\ body[n].value # "absent"
    BY <1>3, <2>1 DEF Said, Entry, Plain
  <2> HIDE DEF n
  <2>4. CASE pointer \/ body[n].value # "null"
    <3>1. setting = Named(body, f)
      BY <1>1, <2>2, <2>4
    <3>2. Decoded(body, f, pointer) =
            IF body[n].value = "null" THEN "nil" ELSE body[n].value
      BY <3>1, <2>2 DEF Decoded, n
    <3> QED BY <2>3, <2>4, <3>2
  <2>5. CASE ~pointer /\ body[n].value = "null"
    <3>1. setting = {}
      BY <1>1, <2>2, <2>5
    <3> QED BY <2>3, <2>5, <3>1 DEF Decoded
  <2> QED BY <2>4, <2>5
<1> QED BY <1>2, <1>3

-----------------------------------------------------------------------------
(***************************************************************************)
(* One lemma per step.                                                     *)
(***************************************************************************)
\* These operators depend on the state by their arguments alone.
LEMMA Primed ==
    /\ HasCreateFamily(schema)' <=> HasCreateFamily(schema')
    /\ Read(schema, request)' <=> Read(schema', request')
    /\ Invalid(schema, request)' <=> Invalid(schema', request')
<1>1. HasCreateFamily(schema)' <=> HasCreateFamily(schema')
  BY DEF HasCreateFamily, BlockedCreateFields, IsCreateRequired, Exposed
<1>2. Read(schema, request)' <=> Read(schema', request')
  BY DEF Read, Tags, CreateFields, PatchFields, Exposed, IsPointer, IsCreatePointer, FoldedKey,
         Mistyped, Present, Named, Decoded, Folded, Max
<1>3. Invalid(schema, request)' <=> Invalid(schema', request')
  BY DEF Invalid, InvalidCreate, InvalidPatch, CreateFields, PatchFields, Exposed, Missing, Has,
         NotAMember, IsCreateRequired, IsCreatePointer, IsPatchClearable
<1> QED BY <1>1, <1>2, <1>3

LEMMA TagsAreFields ==
    ASSUME NEW s, NEW kind
    PROVE  Tags(s, kind) \subseteq Field
BY DEF Tags, CreateFields, PatchFields, Exposed

LEMMA PointerOrNot ==
    ASSUME schema \in [Field -> Shape], NEW kind, NEW f \in Field
    PROVE  IsPointer(schema, kind, f) \in BOOLEAN
BY DEF IsPointer, IsCreatePointer, Shape

\* A request with no outcome has broken nothing yet.
LEMMA NoVerdictYet ==
    ASSUME request'.outcome = "none"
    PROVE  VerdictIsExact'
BY DEF VerdictIsExact

LEMMA Nothing == NoRequest \in Request /\ NoRequest.stage = "idle" /\ NoRequest.outcome = "none"
<1>1. <<>> \in Seq(Entry)
  OBVIOUS
<1> QED BY <1>1 DEF NoRequest, Request, NoFields, Source

LEMMA InitHolds == Init => IInv
<1> SUFFICES ASSUME Init PROVE IInv
  OBVIOUS
<1>1. schema \in [Field -> Shape]
  BY PresenceAssumption DEF Init
<1>2. row # NoRow => row \in [Field -> Content]
  BY DEF Init, Content, Value, Plain
<1>3. request = NoRequest
  BY DEF Init
<1>4. VerdictIsExact
  BY <1>3, Nothing DEF VerdictIsExact
<1> QED BY <1>1, <1>2, <1>3, <1>4, Nothing DEF IInv, TypeInv

LEMMA SendKeeps ==
    ASSUME IInv, NEW kind \in {"create", "patch"}, NEW source \in {"handler", "consumer"},
           NEW body \in Bodies, Send(kind, source, body)
    PROVE  IInv'
<1>1. body \in Seq(Entry)
  BY PresenceAssumption
<1>2. request' = [kind |-> kind, source |-> source, body |-> body, fields |-> NoFields,
                  present |-> {}, stage |-> "decode", outcome |-> "none"]
  BY DEF Send, NoRequest
<1>3. request' \in Request
  BY <1>1, <1>2 DEF Request, Source, NoFields
<1>4. TypeInv'
  BY <1>3 DEF Send, IInv, TypeInv
<1>5. Placed'
  BY <1>2, Primed DEF Send, Ready, Placed
<1> QED BY <1>2, <1>4, <1>5, NoVerdictYet DEF IInv

LEMMA BuildKeeps ==
    ASSUME IInv, NEW kind \in {"create", "patch"}, NEW fields \in [Field -> {"nil", "zero", "v"}],
           Build(kind, fields)
    PROVE  IInv'
<1>1. request' = [kind |-> kind, source |-> "go", body |-> <<>>, fields |-> fields,
                  present |-> {}, stage |-> "validate", outcome |-> "none"]
  BY DEF Build, NoRequest
<1>2. <<>> \in Seq(Entry) /\ fields \in [Field -> Value \cup {"nil"}]
  BY DEF Value, Plain
<1>3. request' \in Request
  BY <1>1, <1>2 DEF Request, Source
<1>4. TypeInv'
  BY <1>3 DEF Build, IInv, TypeInv
<1>5. Placed'
  <2>1. /\ kind = "create" => HasCreateFamily(schema)
        /\ kind = "patch" => row # NoRow
    BY DEF Build, Ready
  <2>2. schema' = schema /\ row' = row
    BY DEF Build
  <2>3. request'.kind = kind /\ request'.source = "go" /\ request'.body = <<>>
    BY <1>1
  <2> QED BY <2>1, <2>2, <2>3, Primed DEF Placed
<1>6. schema' = schema
  BY DEF Build
<1>7. Read(schema', request')
  <2>1. \A f \in Tags(schema, kind) : fields[f] = "nil" => IsPointer(schema, kind, f)
    BY TagsAreFields DEF Build
  <2> QED BY <1>1, <1>6, <2>1 DEF Read
<1> QED BY <1>1, <1>4, <1>5, <1>7, Primed, NoVerdictYet DEF IInv

\* What VerdictIsExact says of a request.
Exact(s, r) ==
    /\ r.outcome \notin {"panic", "failed"}
    /\ r.outcome = "saved" =>
          \A n \in DOMAIN r.body : r.body[n].variant => r.body[n].key \notin Tags(s, r.kind)
    /\ r.stage = "done" /\ r.kind = "create" /\ r.outcome = "refused" =>
        \/ r.source = "go"
        \/ UnknownKey(r.body, CreateFields(s)) \/ Mistyped(r.body, CreateFields(s))
        \/ \E f \in CreateFields(s) :
              \/ IsCreateRequired(s, f) /\ Said(r.body, f) \in {"absent", "null"}
              \/ ~SaidOnce(r.body, f)
              \/ s[f].type = "string" /\ Said(r.body, f) = "zero"
              \/ NotAMember(s, f, Said(r.body, f))

LEMMA ExactIsVerdict ==
    (VerdictIsExact <=> Exact(schema, request)) /\ (VerdictIsExact' <=> Exact(schema', request'))
<1>1. VerdictIsExact <=> Exact(schema, request)
  BY DEF VerdictIsExact, Exact
<1>2. VerdictIsExact' <=> Exact(schema', request')
  BY DEF VerdictIsExact, Exact, Tags, CreateFields, PatchFields, Exposed, UnknownKey, Mistyped,
         IsCreateRequired, Said, SaidOnce, Named, Max, NotAMember
<1> QED BY <1>1, <1>2

LEMMA DecodeKeeps == ASSUME IInv, Decode PROVE IInv'
<1> DEFINE body == request.body
           tags == Tags(schema, request.kind)
           Stops == \/ request.source = "handler" /\ UnknownKey(body, tags)
                    \/ FoldedKey(body, tags) \/ Mistyped(body, tags)
           fields == [f \in Field |->
                        IF f \in tags THEN Decoded(body, f, IsPointer(schema, request.kind, f))
                        ELSE "nil"]
           present == Present(schema, request.kind, body)
<1>1. /\ request \in Request /\ body \in Seq(Entry) /\ schema \in [Field -> Shape]
      /\ request.stage = "decode" /\ Placed /\ request.source # "go" /\ request.outcome = "none"
  BY DEF IInv, TypeInv, Decode, Request
<1>2. schema' = schema /\ row' = row
  BY DEF Decode
<1>3. CASE Stops
  <2>1. request' = [request EXCEPT !.stage = "done", !.outcome = "refused"]
    BY <1>3 DEF Decode
  <2>2. request' \in Request
    BY <1>1, <2>1 DEF Request
  <2>3. /\ request'.stage = "done" /\ request'.outcome = "refused" /\ request'.body = body
        /\ request'.kind = request.kind
    BY <1>1, <2>1 DEF Request
  <2>4. FoldedKey(body, tags) => UnknownKey(body, tags)
    BY DEF FoldedKey, UnknownKey
  <2>5. request.kind = "create" => tags = CreateFields(schema)
    BY DEF Tags
  <2> HIDE DEF body, tags
  <2>6. Exact(schema', request')
    BY <1>2, <1>3, <2>3, <2>4, <2>5 DEF Exact
  <2> QED BY <1>1, <1>2, <2>2, <2>3, <2>6, ExactIsVerdict DEF IInv, TypeInv
<1>4. CASE ~Stops
  <2>1. request' = [request EXCEPT !.stage = "validate", !.present = present, !.fields = fields]
    BY <1>4 DEF Decode
  <2>2. fields \in [Field -> Value \cup {"nil"}]
    BY <1>1, <1>4, DecodedValue, PointerOrNot
  <2>3. present \subseteq Field
    BY DEF Present
  <2> HIDE DEF fields, present
  <2>4. request' \in Request
    BY <1>1, <2>1, <2>2, <2>3 DEF Request
  <2>5. /\ request'.stage = "validate" /\ request'.outcome = "none" /\ request'.body = body
        /\ request'.kind = request.kind /\ request'.source = request.source
        /\ request'.present = present /\ request'.fields = fields
    BY <1>1, <2>1 DEF Request
  <2>6. Read(schema', request')
    <3>1. \A f \in tags : fields[f] = Decoded(body, f, IsPointer(schema, request.kind, f))
      BY TagsAreFields DEF fields
    <3> QED BY <1>1, <1>2, <1>4, <2>5, <3>1 DEF Read, present
  <2>7. Placed'
    <3>1. /\ request.kind \in {"create", "patch"} /\ request.source # "none"
          /\ request.kind = "create" => HasCreateFamily(schema)
          /\ request.kind = "patch" => row # NoRow
      BY <1>1 DEF Placed
    <3> QED BY <1>1, <1>2, <2>5, <3>1, Primed DEF Placed
  <2> HIDE DEF Stops
  <2> QED BY <1>1, <1>2, <2>4, <2>5, <2>6, <2>7, Primed, NoVerdictYet DEF IInv, TypeInv
<1> QED BY <1>3, <1>4

LEMMA SaidValue ==
    ASSUME NEW body \in Seq(Entry), NEW f
    PROVE  Said(body, f) \in Plain \cup {"null", "odd", "mistyped", "absent"}
<1>1. Named(body, f) # {} => body[Max(Named(body, f))] \in Entry
  BY LastEntry DEF Named
<1> QED BY <1>1 DEF Said, Entry

\* What Validate refuses of a create that was decoded could not be saved.
LEMMA RefusedForAReason ==
    ASSUME IInv, request.stage = "validate", request.kind = "create", request.source # "go",
           Invalid(schema, request)
    PROVE  \E f \in CreateFields(schema) :
              \/ IsCreateRequired(schema, f) /\ Said(request.body, f) \in {"absent", "null"}
              \/ ~SaidOnce(request.body, f)
              \/ schema[f].type = "string" /\ Said(request.body, f) = "zero"
              \/ NotAMember(schema, f, Said(request.body, f))
<1>1. PICK f \in CreateFields(schema) :
         \/ IsCreateRequired(schema, f) /\ Missing(schema, request, f)
         \/ request.fields[f] # "nil" /\ NotAMember(schema, f, request.fields[f])
  BY DEF Invalid, InvalidCreate
<1> DEFINE said == Said(request.body, f)
           held == request.fields[f]
           pointer == IsPointer(schema, "create", f)
<1>2. CASE ~SaidOnce(request.body, f)
  BY <1>2
<1>3. CASE SaidOnce(request.body, f)
  <2>1. /\ request.body \in Seq(Entry) /\ schema \in [Field -> Shape] /\ f \in Field
        /\ f \in Tags(schema, "create")
    BY DEF IInv, TypeInv, Request, CreateFields, Exposed, Tags
  <2>2. /\ ~FoldedKey(request.body, Tags(schema, "create"))
        /\ held = Decoded(request.body, f, pointer)
        /\ request.present = Present(schema, "create", request.body)
    BY <2>1 DEF IInv, Read
  <2>3. pointer \in BOOLEAN
    BY <2>1, PointerOrNot
  <2>4. held = IF said \in {"absent", "null"} THEN IF pointer THEN "nil" ELSE "zero" ELSE said
    BY <1>3, <2>1, <2>2, <2>3, DecodedIsSaid
  <2>5. said # "nil"
    BY <2>1, SaidValue DEF Plain
  <2>6. Has(request, f) <=> said \notin {"absent", "null"}
    BY <2>1, <2>2, PresentIsSaid DEF Has
  <2>7. ~pointer => IsCreateRequired(schema, f)
    BY <2>1 DEF IsPointer, IsCreatePointer, IsCreateRequired, Shape
  <2>8. Missing(schema, request, f) =>
          said \in {"absent", "null"} \/ (schema[f].type = "string" /\ said = "zero")
    <3>1. pointer <=> IsCreatePointer(schema, f)
      BY DEF IsPointer
    <3> HIDE DEF said, held, pointer
    <3>2. CASE pointer
      <4>1. Missing(schema, request, f) => held = "nil"
        BY <3>1, <3>2 DEF Missing, held
      <4> QED BY <2>4, <2>5, <4>1
    <3>3. CASE ~pointer
      <4>1. Missing(schema, request, f) =>
               (schema[f].type = "string" /\ held = "zero") \/ ~Has(request, f)
        BY <3>1, <3>3 DEF Missing, held
      <4> QED BY <2>4, <2>6, <4>1
    <3> QED BY <3>2, <3>3
  <2> HIDE DEF said, held, pointer
  <2>9. held # "nil" /\ said \in {"absent", "null"} => IsCreateRequired(schema, f)
    BY <2>4, <2>7
  <2>10. held # "nil" /\ said \notin {"absent", "null"} => held = said
    BY <2>4
  <2>11. \/ IsCreateRequired(schema, f) /\ said \in {"absent", "null"}
         \/ schema[f].type = "string" /\ said = "zero"
         \/ NotAMember(schema, f, said)
    BY <1>1, <2>8, <2>9, <2>10 DEF held
  <2> QED BY <2>11 DEF said
<1> QED BY <1>2, <1>3

LEMMA ValidateKeeps == ASSUME IInv, Validate PROVE IInv'
<1>1. /\ request \in Request /\ request.stage = "validate" /\ Placed /\ request.outcome = "none"
      /\ Read(schema, request)
  BY DEF IInv, TypeInv, Validate
<1>2. schema' = schema /\ row' = row
  BY DEF Validate
<1>3. CASE Invalid(schema, request)
  <2>1. request' = [request EXCEPT !.stage = "done", !.outcome = "refused"]
    BY <1>3 DEF Validate
  <2>2. request' \in Request
    BY <1>1, <2>1 DEF Request
  <2>3. /\ request'.stage = "done" /\ request'.outcome = "refused"
        /\ request'.body = request.body /\ request'.kind = request.kind
        /\ request'.source = request.source
    BY <1>1, <2>1 DEF Request
  <2>4. Exact(schema', request')
    BY <1>1, <1>2, <1>3, <2>3, RefusedForAReason DEF Exact
  <2> QED BY <1>1, <1>2, <2>2, <2>3, <2>4, ExactIsVerdict DEF IInv, TypeInv
<1>4. CASE ~Invalid(schema, request)
  <2>1. request' = [request EXCEPT !.stage = "save"]
    BY <1>4 DEF Validate
  <2>2. request' \in Request
    BY <1>1, <2>1 DEF Request
  <2>3. /\ request'.stage = "save" /\ request'.outcome = "none"
        /\ request'.body = request.body /\ request'.kind = request.kind
        /\ request'.source = request.source /\ request'.present = request.present
        /\ request'.fields = request.fields
    BY <1>1, <2>1 DEF Request
  <2>4. Read(schema', request')
    BY <1>1, <1>2, <2>3 DEF Read
  <2>5. ~Invalid(schema', request')
    BY <1>2, <1>4, <2>3 DEF Invalid, InvalidCreate, InvalidPatch, Missing, Has
  <2>6. Placed'
    <3>1. /\ request.kind \in {"create", "patch"} /\ request.source # "none"
          /\ request.kind = "create" => HasCreateFamily(schema)
          /\ request.kind = "patch" => row # NoRow
          /\ request.source = "go" => request.body = <<>>
      BY <1>1 DEF Placed
    <3> QED BY <1>2, <2>3, <3>1, Primed DEF Placed
  <2> QED BY <1>1, <1>2, <2>2, <2>3, <2>4, <2>5, <2>6, Primed, NoVerdictYet DEF IInv, TypeInv
<1> QED BY <1>3, <1>4

\* What Validate lets through has a content for every column.
LEMMA ValidIsWritable ==
    ASSUME IInv, request.stage = "save", NEW f \in Field
    PROVE  Written(schema, request)[f] \in Content
<1> DEFINE held == request.fields[f]
           pointer == IsPointer(schema, request.kind, f)
<1>1. /\ schema \in [Field -> Shape] /\ request \in Request /\ held \in Value \cup {"nil"}
      /\ Placed /\ Read(schema, request) /\ ~Invalid(schema, request)
  BY DEF IInv, TypeInv, Request
<1>2. pointer \in BOOLEAN
  BY <1>1, PointerOrNot
<1>3. ~pointer /\ f \in Tags(schema, request.kind) => held # "nil"
  <2>1. CASE request.source = "go"
    BY <1>1, <2>1 DEF Read
  <2>2. CASE request.source # "go"
    BY <1>1, <1>2, <2>2, DecodedValue DEF Read, Request
  <2> QED BY <2>1, <2>2
<1>4. Value \subseteq Content /\ "nil" \notin Value /\ "untouched" \notin Content
  BY DEF Value, Content, Plain
<1>5. CASE request.kind = "create"
  <2>1. CASE f \in CreateFields(schema) /\ held # "nil"
    <3>1. Applied(schema, request)[f] = held
      BY <1>5, <2>1 DEF Applied
    <3> QED BY <1>1, <1>4, <2>1, <3>1 DEF Written
  <2>2. CASE ~(f \in CreateFields(schema) /\ held # "nil")
    <3>1. Written(schema, request)[f] = Unset(schema, f)
      BY <1>5, <2>2 DEF Written, Applied
    <3>2. ~IsCreateRequired(schema, f) => Unset(schema, f) \in Content
      BY DEF Unset, IsCreateRequired, Content
    <3>3. ASSUME IsCreateRequired(schema, f) PROVE FALSE
      <4>1. CASE f \notin CreateFields(schema)
        BY <1>1, <1>5, <3>3, <4>1
           DEF Placed, HasCreateFamily, BlockedCreateFields, CreateFields
      <4>2. CASE f \in CreateFields(schema)
        <5>1. held = "nil" /\ pointer
          BY <1>3, <1>5, <2>2, <4>2 DEF Tags
        <5>2. IsCreatePointer(schema, f)
          BY <1>5, <5>1 DEF IsPointer
        <5>3. Missing(schema, request, f)
          BY <5>1, <5>2 DEF Missing
        <5> QED BY <1>1, <1>5, <3>3, <4>2, <5>3 DEF Invalid, InvalidCreate
      <4> QED BY <4>1, <4>2
    <3> QED BY <3>1, <3>2, <3>3
  <2> QED BY <2>1, <2>2
<1>6. CASE request.kind = "patch"
  <2>1. row[f] \in Content
    BY <1>1, <1>6 DEF IInv, TypeInv, Placed
  <2>2. CASE f \notin PatchFields(schema) \/ ~Has(request, f)
    <3>1. Applied(schema, request)[f] = "untouched"
      BY <1>6, <2>2 DEF Applied
    <3> QED BY <1>6, <2>1, <3>1 DEF Written
  <2>3. CASE f \in PatchFields(schema) /\ Has(request, f)
    <3>1. Applied(schema, request)[f] =
            IF IsPatchClearable(schema, f) /\ held = "nil" THEN "NULL" ELSE held
      BY <1>6, <2>3 DEF Applied
    <3>2. ~IsPatchClearable(schema, f) => held # "nil"
      BY <1>1, <1>6, <2>3 DEF Invalid, InvalidPatch
    <3>3. Applied(schema, request)[f] \in Content
      BY <1>1, <1>4, <3>1, <3>2 DEF Content
    <3> QED BY <1>4, <3>3 DEF Written
  <2> QED BY <2>2, <2>3
<1> QED BY <1>1, <1>5, <1>6 DEF Placed

LEMMA SaveWrites ==
    ASSUME IInv, Save
    PROVE  /\ row' = Written(schema, request) /\ schema' = schema
           /\ row' \in [Field -> Content]
           /\ request' = [request EXCEPT !.stage = "done", !.outcome = "saved"]
<1>1. \A f \in Field : Written(schema, request)[f] \in Content
  BY ValidIsWritable DEF Save
<1>2. Written(schema, request) \in [Field -> Content]
  BY <1>1 DEF Written
<1>3. \A f \in Field : Written(schema, request)[f] \notin {"nil", "missing"}
  BY <1>1 DEF Content, Value, Plain
<1> HIDE DEF Content
<1> QED BY <1>2, <1>3 DEF Save

LEMMA SaveKeeps == ASSUME IInv, Save PROVE IInv'
<1>1. /\ request \in Request /\ request.stage = "save" /\ Placed /\ Read(schema, request)
  BY DEF IInv, TypeInv, Save
<1>2. /\ schema' = schema /\ row' \in [Field -> Content]
      /\ request' = [request EXCEPT !.stage = "done", !.outcome = "saved"]
  BY SaveWrites
<1>3. request' \in Request
  BY <1>1, <1>2 DEF Request
<1>4. /\ request'.stage = "done" /\ request'.outcome = "saved" /\ request'.body = request.body
      /\ request'.kind = request.kind
  BY <1>1, <1>2 DEF Request
<1>5. ASSUME NEW n \in DOMAIN request.body, request.body[n].variant
      PROVE  request.body[n].key \notin Tags(schema, request.kind)
  <2>1. CASE request.source = "go"
    BY <1>1, <1>5, <2>1 DEF Placed
  <2>2. CASE request.source # "go"
    BY <1>1, <1>5, <2>2 DEF Read, FoldedKey
  <2> QED BY <2>1, <2>2
<1>6. Exact(schema', request')
  BY <1>2, <1>4, <1>5 DEF Exact
<1> QED BY <1>1, <1>2, <1>3, <1>4, <1>6, ExactIsVerdict DEF IInv, TypeInv

LEMMA AnswerKeeps == ASSUME IInv, Answer PROVE IInv'
<1>1. request' = NoRequest /\ schema' = schema /\ row' = row
  BY DEF Answer
<1> QED BY <1>1, Nothing, NoVerdictYet DEF IInv, TypeInv

LEMMA StutterKeeps == ASSUME IInv, UNCHANGED vars PROVE IInv'
<1>1. schema' = schema /\ row' = row /\ request' = request
  BY DEF vars
<1>2. TypeInv'
  BY <1>1 DEF IInv, TypeInv
<1>3. Placed => Placed'
  BY <1>1, Primed DEF Placed
<1>4. VerdictIsExact'
  BY <1>1, ExactIsVerdict DEF IInv
<1> QED BY <1>1, <1>2, <1>3, <1>4, Primed DEF IInv

LEMMA NextKeeps == IInv /\ [Next]_vars => IInv'
<1> SUFFICES ASSUME IInv, [Next]_vars PROVE IInv'
  OBVIOUS
<1>1. CASE Next
  BY <1>1, SendKeeps, BuildKeeps, DecodeKeeps, ValidateKeeps, SaveKeeps, AnswerKeeps DEF Next
<1>2. CASE UNCHANGED vars
  BY <1>2, StutterKeeps
<1> QED BY <1>1, <1>2

THEOREM Inductive == Spec => []IInv
BY InitHolds, NextKeeps, PTL DEF Spec

-----------------------------------------------------------------------------
(***************************************************************************)
(* Theorems.                                                               *)
(***************************************************************************)
\* Validate and the builders agree, for every schema and payload: nothing it lets
\* through panics or fails, nothing it stops could have been saved, and no other
\* spelling of a key gets through (dto.tmpl).
THEOREM VerdictExact == Spec => []VerdictIsExact
<1>1. IInv => VerdictIsExact
  BY DEF IInv
<1> QED BY <1>1, Inductive, PTL

LEMMA SavedIsWritten ==
    ASSUME IInv, Next, NEW kind, Saved(kind)
    PROVE  Save /\ row' = Written(schema, request) /\ request.kind = kind
<1>1. Save
  BY DEF Next, Saved, Send, Build, Ready, Decode, Validate, Answer
<1> QED BY <1>1, SaveWrites DEF Saved

\* What a decoded request holds of a field that was said at most once.
LEMMA HeldIsSaid ==
    ASSUME IInv, request.stage = "save", request.source # "go",
           NEW f \in Tags(schema, request.kind), SaidOnce(request.body, f)
    PROVE  /\ Said(request.body, f) # "nil"
           /\ request.fields[f] =
                IF Said(request.body, f) \in {"absent", "null"}
                  THEN IF IsPointer(schema, request.kind, f) THEN "nil" ELSE "zero"
                ELSE Said(request.body, f)
           /\ Has(request, f) <=> /\ Said(request.body, f) # "absent"
                                  /\ request.kind = "create" => Said(request.body, f) # "null"
<1>1. request.body \in Seq(Entry) /\ f \in Field /\ schema \in [Field -> Shape]
  BY TagsAreFields DEF IInv, TypeInv, Request
<1>2. Read(schema, request)
  BY DEF IInv
<1>3. /\ ~FoldedKey(request.body, Tags(schema, request.kind))
      /\ request.present = Present(schema, request.kind, request.body)
      /\ request.fields[f] = Decoded(request.body, f, IsPointer(schema, request.kind, f))
  BY <1>2 DEF Read
<1>4. IsPointer(schema, request.kind, f) \in BOOLEAN
  BY <1>1, PointerOrNot
<1>5. Said(request.body, f) # "nil"
  BY <1>1, SaidValue DEF Plain
<1>6. Has(request, f) <=> f \in Present(schema, request.kind, request.body)
  BY <1>3 DEF Has
<1> QED BY <1>1, <1>3, <1>4, <1>5, <1>6, DecodedIsSaid, PresentIsSaid

\* Once saved, a create has in every column what the payload said or what ent
\* gives to a field nobody set (dto.tmpl, UnmarshalJSON, Validate and Apply).
THEOREM CreatesWrite == Spec => CreateWritesWhatWasSaid
<1>1. ASSUME IInv, Next, Saved("create"), request.source # "go"
      PROVE  /\ \A f \in CreateFields(schema) : SaidOnce(request.body, f) =>
                  row'[f] = IF Said(request.body, f) \in {"absent", "null"}
                              THEN Unset(schema, f) ELSE Said(request.body, f)
             /\ \A f \in Field \ Exposed(schema) : row'[f] = Unset(schema, f)
  <2>1. /\ row' = Written(schema, request) /\ request.kind = "create" /\ request.stage = "save"
        /\ ~Invalid(schema, request)
    BY <1>1, SavedIsWritten DEF Saved, IInv
  <2>2. ASSUME NEW f \in CreateFields(schema), SaidOnce(request.body, f)
        PROVE  row'[f] = IF Said(request.body, f) \in {"absent", "null"}
                           THEN Unset(schema, f) ELSE Said(request.body, f)
    <3> DEFINE said == Said(request.body, f)
               held == request.fields[f]
               pointer == IsPointer(schema, "create", f)
    <3>1. f \in Tags(schema, "create") /\ f \in Field
      BY DEF Tags, CreateFields, Exposed
    <3>2. /\ said # "nil"
          /\ held = IF said \in {"absent", "null"} THEN IF pointer THEN "nil" ELSE "zero" ELSE said
          /\ Has(request, f) <=> said \notin {"absent", "null"}
      BY <1>1, <2>1, <2>2, <3>1, HeldIsSaid
    <3>3. row'[f] = IF held # "nil" /\ held # "untouched" THEN held ELSE Unset(schema, f)
      BY <2>1, <3>1 DEF Written, Applied
    <3>4. held # "untouched"
      BY <1>1, <3>1 DEF IInv, TypeInv, Request, Value, Plain
    <3>5. said \in {"absent", "null"} => pointer
      <4> SUFFICES ASSUME said \in {"absent", "null"}, ~pointer PROVE FALSE
        OBVIOUS
      <4>1. ~IsCreatePointer(schema, f) /\ IsCreateRequired(schema, f)
        BY DEF IsPointer, IsCreatePointer, IsCreateRequired
      <4>2. ~Has(request, f) /\ held = "zero"
        BY <3>2
      <4>3. Missing(schema, request, f)
        BY <4>1, <4>2 DEF Missing
      <4> QED BY <2>1, <4>1, <4>3 DEF Invalid, InvalidCreate
    <3> HIDE DEF said, held, pointer
    <3>6. row'[f] = IF said \in {"absent", "null"} THEN Unset(schema, f) ELSE said
      BY <3>2, <3>3, <3>4, <3>5
    <3> QED BY <3>6 DEF said
  <2>3. ASSUME NEW f \in Field \ Exposed(schema) PROVE row'[f] = Unset(schema, f)
    BY <2>1 DEF Written, Applied, CreateFields
  <2> QED BY <2>2, <2>3
<1> QED BY <1>1, Inductive, PTL DEF Spec, CreateWritesWhatWasSaid

\* A patch leaves alone, clears or sets, as the payload says; one that was built
\* in Go does nothing (dto.tmpl, has and Apply).
THEOREM PatchesTell == Spec => PatchTellsThreeStates
<1>1. ASSUME IInv, Next, Saved("patch"), request.source = "go"
      PROVE  UNCHANGED row
  <2>1. /\ row' = Written(schema, request) /\ request.kind = "patch" /\ request.stage = "save"
    BY <1>1, SavedIsWritten DEF Saved
  <2>2. row \in [Field -> Content]
    BY <1>1, <2>1 DEF IInv, TypeInv, Placed
  <2>3. \A f \in Field : ~Has(request, f)
    BY <1>1, <2>1 DEF Has
  <2>4. \A f \in Field : Written(schema, request)[f] = row[f]
    BY <2>1, <2>3 DEF Written, Applied
  <2>5. Written(schema, request) = [f \in Field |-> Written(schema, request)[f]]
    BY DEF Written
  <2>6. Written(schema, request) = row
    BY <2>2, <2>4, <2>5
  <2> QED BY <2>1, <2>6
<1>2. ASSUME IInv, Next, Saved("patch"), request.source # "go"
      PROVE  /\ \A f \in PatchFields(schema) : SaidOnce(request.body, f) =>
                  row'[f] = CASE Said(request.body, f) = "absent" -> row[f]
                              [] Said(request.body, f) = "null"   -> "NULL"
                              [] OTHER -> Said(request.body, f)
             /\ \A f \in Field : f \notin Exposed(schema) \/ schema[f].immutable =>
                  row'[f] = row[f]
  <2>1. /\ row' = Written(schema, request) /\ request.kind = "patch" /\ request.stage = "save"
        /\ ~Invalid(schema, request)
    BY <1>2, SavedIsWritten DEF Saved, IInv
  <2>2. ASSUME NEW f \in PatchFields(schema), SaidOnce(request.body, f)
        PROVE  row'[f] = CASE Said(request.body, f) = "absent" -> row[f]
                           [] Said(request.body, f) = "null"   -> "NULL"
                           [] OTHER -> Said(request.body, f)
    <3> DEFINE said == Said(request.body, f)
               held == request.fields[f]
               clearable == IsPatchClearable(schema, f)
    <3>1. f \in Tags(schema, "patch") /\ f \in Field
      BY DEF Tags, PatchFields, Exposed
    <3>2. IsPointer(schema, "patch", f)
      BY DEF IsPointer
    <3>3. /\ said # "nil"
          /\ held = IF said \in {"absent", "null"} THEN "nil" ELSE said
          /\ Has(request, f) <=> said # "absent"
      BY <1>2, <2>1, <2>2, <3>1, <3>2, HeldIsSaid
    <3>4. Has(request, f) /\ held = "nil" => clearable
      BY <2>1 DEF Invalid, InvalidPatch
    <3>5. row'[f] = IF ~Has(request, f) THEN row[f]
                    ELSE IF clearable /\ held = "nil" THEN "NULL"
                    ELSE IF held # "untouched" THEN held ELSE row[f]
      BY <2>1, <3>1 DEF Written, Applied
    <3>6. held # "untouched"
      BY <1>2, <3>1 DEF IInv, TypeInv, Request, Value, Plain
    <3> HIDE DEF said, held, clearable
    <3>7. /\ said = "absent" => row'[f] = row[f]
          /\ said = "null" => row'[f] = "NULL"
          /\ said \notin {"absent", "null"} => row'[f] = said
      BY <3>3, <3>4, <3>5, <3>6
    <3> QED BY <3>7 DEF said
  <2>3. ASSUME NEW f \in Field, f \notin Exposed(schema) \/ schema[f].immutable
        PROVE  row'[f] = row[f]
    BY <2>1, <2>3 DEF Written, Applied, PatchFields
  <2> QED BY <2>2, <2>3
<1>3. ASSUME IInv, Next, Saved("patch")
      PROVE  IF request.source = "go" THEN UNCHANGED row ELSE
             /\ \A f \in PatchFields(schema) : SaidOnce(request.body, f) =>
                  row'[f] = CASE Said(request.body, f) = "absent" -> row[f]
                              [] Said(request.body, f) = "null"   -> "NULL"
                              [] OTHER -> Said(request.body, f)
             /\ \A f \in Field : f \notin Exposed(schema) \/ schema[f].immutable =>
                  row'[f] = row[f]
  BY <1>1, <1>2, <1>3
<1> QED BY <1>3, Inductive, PTL DEF Spec, PatchTellsThreeStates
=============================================================================
