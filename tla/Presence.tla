------------------------------ MODULE Presence ------------------------------
(***************************************************************************)
(* Create and patch requests (templates/dto.tmpl): which keys a payload    *)
(* carried, what Validate makes of them and what Apply writes.  The shape  *)
(* of a request follows ent's schema (funcs_fields.go, funcs_presence.go); *)
(* the schema, a row and the requests to it are arbitrary.                 *)
(*                                                                         *)
(* A payload is a sequence of entries; its keys are a field's own key, the *)
(* same key in other letters ("variant"), or none of the schema's.  Values *)
(* are null, Go's zero value, two ordinary ones, one that no enum has, and *)
(* one of a wrong JSON type.                                               *)
(***************************************************************************)
EXTENDS Naturals, Sequences, FiniteSetsExt

CONSTANTS
    Field,      \* the fields of the entity
    Schemas,    \* the schemas considered: functions from Field to Shape
    Bodies      \* the payloads considered: sequences of Entry

Shape == [optional : BOOLEAN, default : BOOLEAN, nillable : BOOLEAN, immutable : BOOLEAN,
          word : {"none", "hidden", "read_only"}, type : {"string", "int", "enum"}]

Plain == {"zero", "v", "w"}
Entry == [key : Field \cup {"other"}, variant : BOOLEAN,
          value : Plain \cup {"null", "odd", "mistyped"}]

ASSUME PresenceAssumption ==
    Schemas \subseteq [Field -> Shape] /\ Bodies \subseteq Seq(Entry) /\ "other" \notin Field

VARIABLES
    schema,     \* the entity's fields
    row,        \* [Field -> column], or NoRow
    request     \* the request in hand

vars == <<schema, row, request>>

NoRow == [f \in {} |-> "NULL"]

-----------------------------------------------------------------------------
(***************************************************************************)
(* The shape of the requests.                                              *)
(***************************************************************************)
Exposed(s) == {f \in Field : s[f].word = "none"}

CreateFields(s) == Exposed(s)

PatchFields(s) == {f \in Exposed(s) : ~s[f].immutable}

IsCreatePointerIfNullable(s, f) == s[f].optional \/ s[f].nillable

IsCreatePointer(s, f) == s[f].optional \/ s[f].default \/ s[f].nillable
IsCreateRequired(s, f) == ~s[f].optional /\ ~s[f].default
IsPatchClearable(s, f) == s[f].optional

\* What the deviation words take from a create that cannot do without it: such
\* a schema is refused unless create is Excepted, and then has no create.
BlockedCreateFields(s) == {f \in Field : IsCreateRequired(s, f) /\ f \notin Exposed(s)}
HasCreateFamily(s) == BlockedCreateFields(s) = {}

Tags(s, kind) == IF kind = "create" THEN CreateFields(s) ELSE PatchFields(s)

-----------------------------------------------------------------------------
(***************************************************************************)
(* Decoding.                                                               *)
(***************************************************************************)
\* The entries under a field's own key; encoding/json finds a field whatever the
\* case of the key.
Named(body, f)  == {n \in DOMAIN body : body[n].key = f /\ ~body[n].variant}
Folded(body, f) == {n \in DOMAIN body : body[n].key = f}

UnknownKey(body, tags) == \E n \in DOMAIN body : body[n].variant \/ body[n].key \notin tags

FoldedKeyAccepted(body, tags) == FALSE

\* UnmarshalJSON refuses a variant of a canonical key.
FoldedKey(body, tags) == \E n \in DOMAIN body : body[n].variant /\ body[n].key \in tags

Mistyped(body, tags) == \E n \in DOMAIN body : body[n].key \in tags /\ body[n].value = "mistyped"

\* The last entry wins; null sets a pointer to nil and leaves a value alone.
Decoded(body, f, pointer) ==
    LET setting == {n \in Folded(body, f) : pointer \/ body[n].value # "null"}
    IN IF setting = {} THEN (IF pointer THEN "nil" ELSE "zero")
       ELSE IF body[Max(setting)].value = "null" THEN "nil" ELSE body[Max(setting)].value

\* A create counts null as absent, a patch records it.
Present(s, kind, body) ==
    {f \in Field : /\ Named(body, f) # {}
                   /\ kind = "create" => body[Max(Named(body, f))].value # "null"}

IsPointer(s, kind, f) == kind = "patch" \/ IsCreatePointer(s, f)

HasInGo(r, f) == r.source = "go" \/ f \in r.present

\* A request that was built in Go recorded nothing: then all of a create reads
\* as supplied, and nothing of a patch.
Has(r, f) == IF r.source = "go" THEN r.kind = "create" ELSE f \in r.present

-----------------------------------------------------------------------------
(***************************************************************************)
(* Validation and what the builders do.                                    *)
(***************************************************************************)
NotAMember(s, f, value) == s[f].type = "enum" /\ value \notin {"v", "w"}

Missing(s, r, f) ==
    IF IsCreatePointer(s, f) THEN r.fields[f] = "nil"
    ELSE IF s[f].type = "string" THEN r.fields[f] = "zero"
    ELSE ~Has(r, f)

InvalidCreate(s, r) == \E f \in CreateFields(s) :
    \/ IsCreateRequired(s, f) /\ Missing(s, r, f)
    \/ r.fields[f] # "nil" /\ NotAMember(s, f, r.fields[f])

InvalidPatch(s, r) == \E f \in PatchFields(s) :
    \/ ~IsPatchClearable(s, f) /\ Has(r, f) /\ r.fields[f] = "nil"
    \/ r.fields[f] # "nil" /\ NotAMember(s, f, r.fields[f])

Invalid(s, r) == IF r.kind = "create" THEN InvalidCreate(s, r) ELSE InvalidPatch(s, r)

\* The setters Apply calls: a field is "untouched", cleared ("NULL") or set.
\* "nil" is what a dereference would panic on.
Applied(s, r) ==
    [f \in Field |->
        IF r.kind = "create"
          THEN IF f \in CreateFields(s) /\ r.fields[f] # "nil" THEN r.fields[f] ELSE "untouched"
        ELSE IF f \notin PatchFields(s) \/ ~Has(r, f) THEN "untouched"
        ELSE IF IsPatchClearable(s, f) /\ r.fields[f] = "nil" THEN "NULL"
        ELSE r.fields[f]]

\* ent: what a create makes of a field nobody set, and an update leaves alone.
Unset(s, f) == IF s[f].default THEN "default" ELSE IF s[f].optional THEN "NULL" ELSE "missing"

Written(s, r) ==
    [f \in Field |->
        IF Applied(s, r)[f] # "untouched" THEN Applied(s, r)[f]
        ELSE IF r.kind = "create" THEN Unset(s, f) ELSE row[f]]

Columns(s, f) == Plain \cup {"odd"} \cup (IF s[f].default THEN {"default"} ELSE {})
                  \cup (IF s[f].optional THEN {"NULL"} ELSE {})

-----------------------------------------------------------------------------
(***************************************************************************)
(* A request: decoded, validated, saved.                                   *)
(***************************************************************************)
NoFields == [f \in Field |-> "nil"]

NoRequest == [kind |-> "none", source |-> "none", body |-> <<>>, fields |-> NoFields,
              present |-> {}, stage |-> "idle", outcome |-> "none"]

Ready(kind) ==
    /\ request.stage = "idle"
    /\ IF kind = "create" THEN row = NoRow /\ HasCreateFamily(schema) ELSE row # NoRow

\* Through the generated handler, or a handler of the consumer's own that calls
\* json.Unmarshal.
Send(kind, source, body) ==
    /\ Ready(kind)
    /\ request' = [NoRequest EXCEPT !.kind = kind, !.source = source, !.body = body,
                                    !.stage = "decode"]
    /\ UNCHANGED <<schema, row>>

\* A struct assembled in Go, in which a value type is never nil.
Build(kind, fields) ==
    /\ Ready(kind)
    /\ \A f \in Field : fields[f] = "nil" => f \notin Tags(schema, kind) \/ IsPointer(schema, kind, f)
    /\ request' = [NoRequest EXCEPT !.kind = kind, !.source = "go", !.fields = fields,
                                    !.stage = "validate"]
    /\ UNCHANGED <<schema, row>>

\* BindJSON's unknown-field rule, then UnmarshalJSON.
Decode ==
    LET body == request.body
        tags == Tags(schema, request.kind)
    IN /\ request.stage = "decode"
       /\ request' =
            IF (request.source = "handler" /\ UnknownKey(body, tags))
                 \/ FoldedKey(body, tags) \/ Mistyped(body, tags)
              THEN [request EXCEPT !.stage = "done", !.outcome = "refused"]
              ELSE [request EXCEPT !.stage = "validate",
                      !.present = Present(schema, request.kind, body),
                      !.fields = [f \in Field |->
                          IF f \in tags
                            THEN Decoded(body, f, IsPointer(schema, request.kind, f))
                            ELSE "nil"]]
       /\ UNCHANGED <<schema, row>>

Validate ==
    /\ request.stage = "validate"
    /\ request' = IF Invalid(schema, request)
                    THEN [request EXCEPT !.stage = "done", !.outcome = "refused"]
                    ELSE [request EXCEPT !.stage = "save"]
    /\ UNCHANGED <<schema, row>>

\* Apply, then ent's Save: a column that must hold something and got nothing
\* fails in ent, a nil that is dereferenced panics.
Save ==
    LET written == Written(schema, request)
        Done(outcome) == request' = [request EXCEPT !.stage = "done", !.outcome = outcome]
    IN /\ request.stage = "save" /\ UNCHANGED schema
       /\ IF \E f \in Field : written[f] = "nil"          THEN Done("panic") /\ UNCHANGED row
          ELSE IF \E f \in Field : written[f] = "missing" THEN Done("failed") /\ UNCHANGED row
          ELSE Done("saved") /\ row' = written

\* The request is answered and gone.
Answer ==
    /\ request.stage = "done" /\ request' = NoRequest
    /\ UNCHANGED <<schema, row>>

\* No row yet where there is a create, or a row that somebody else wrote.
Init ==
    /\ schema \in Schemas
    /\ row \in {r \in [Field -> {"v", "NULL"}] : \A f \in Field : r[f] \in Columns(schema, f)}
                 \cup (IF HasCreateFamily(schema) THEN {NoRow} ELSE {})
    /\ request = NoRequest

Next ==
    \/ \E kind \in {"create", "patch"} :
          \/ \E source \in {"handler", "consumer"}, body \in Bodies : Send(kind, source, body)
          \/ \E fields \in [Field -> {"nil", "zero", "v"}] : Build(kind, fields)
    \/ Decode \/ Validate \/ Save \/ Answer

Spec == Init /\ [][Next]_vars

-----------------------------------------------------------------------------
\* What the payload says of a field: the value of its only entry, or nothing.
Said(body, f) == IF Named(body, f) = {} THEN "absent" ELSE body[Max(Named(body, f))].value
SaidOnce(body, f) == \A m, n \in Named(body, f) : m = n

Saved(kind) == request.stage = "save" /\ request.kind = kind /\ request'.outcome = "saved"

\* "An omitted key leaves the schema's default in effect", null is the same as
\* omitted, and a value, zero included, is written; what the words withhold gets
\* its default, whatever the payload says.
CreateWritesWhatWasSaid ==
    [][Saved("create") /\ request.source # "go" =>
         /\ \A f \in CreateFields(schema) : SaidOnce(request.body, f) =>
              row'[f] = IF Said(request.body, f) \in {"absent", "null"}
                          THEN Unset(schema, f) ELSE Said(request.body, f)
         /\ \A f \in Field \ Exposed(schema) : row'[f] = Unset(schema, f)]_vars

\* "Absent means leave it alone, an explicit null means clear it, and a value
\* means set it": the three states of a patch, whatever the row holds.
\* A patch that was built in Go has recorded no presence and writes nothing: it
\* is never taken for an instruction to clear.  Hidden, ReadOnly and immutable
\* fields stay as they are.
PatchTellsThreeStates ==
    [][Saved("patch") =>
         IF request.source = "go" THEN UNCHANGED row ELSE
         /\ \A f \in PatchFields(schema) : SaidOnce(request.body, f) =>
              row'[f] = CASE Said(request.body, f) = "absent" -> row[f]
                          [] Said(request.body, f) = "null"   -> "NULL"
                          [] OTHER -> Said(request.body, f)
         /\ \A f \in Field : f \notin Exposed(schema) \/ schema[f].immutable =>
              row'[f] = row[f]]_vars

\* What Validate lets through can be saved: no nil is dereferenced, and no
\* insert fails in ent for a field the caller could have been told about.  What
\* it stops could not: 0 and false are legal, so a required field that is no
\* string may be sent as zero.  And issue 58 (ADR 0001): no accepted request
\* carried another spelling of a key it has, which would fill a field that
\* nothing then writes.
VerdictIsExact ==
    /\ request.outcome \notin {"panic", "failed"}
    /\ request.outcome = "saved" => \A n \in DOMAIN request.body :
          request.body[n].variant => request.body[n].key \notin Tags(schema, request.kind)
    /\ request.stage = "done" /\ request.kind = "create" /\ request.outcome = "refused" =>
        \/ request.source = "go"
        \/ UnknownKey(request.body, CreateFields(schema)) \/ Mistyped(request.body, CreateFields(schema))
        \/ \E f \in CreateFields(schema) :
              \/ IsCreateRequired(schema, f) /\ Said(request.body, f) \in {"absent", "null"}
              \/ ~SaidOnce(request.body, f)
              \/ schema[f].type = "string" /\ Said(request.body, f) = "zero"
              \/ NotAMember(schema, f, Said(request.body, f))
=============================================================================
