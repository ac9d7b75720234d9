------------------------------ MODULE Serving -------------------------------
(***************************************************************************)
(* The HTTP surface: API() and With() build handlers, a handler takes a    *)
(* request through its stages (templates/handler.tmpl, runtime/bind.go),   *)
(* and errors of the wiring are classified by the one ErrorMap of the      *)
(* package (templates/errors.tmpl, runtime/errors_map.go).                 *)
(*                                                                         *)
(* An error is what ent made of it and the sentinels in its chain; a       *)
(* request is the set of its flaws.                                        *)
(* Requests share nothing but the ErrorMap, which the program may only     *)
(* write before it serves and a request only reads: one request stands for *)
(* all of them.                                                            *)
(***************************************************************************)
EXTENDS Naturals, Sequences, FiniteSets

CONSTANTS
    Handler,         \* the APIHandlers the program builds
    Dialect,         \* the dialects of their clients
    KnownDialect,    \* those UniqueViolation has a determination for
    Replaceable      \* the operations the program may replace

Op == {"list", "create", "get", "patch", "delete"}

Sentinel == {"ErrNotFound", "ErrAlreadyExists", "ErrValidation",
             "ErrUnsupportedMediaType", "ErrRequestTooLarge"}
\* ent's typed error, if the chain holds one: a duplicate and a foreign-key
\* failure are both a ConstraintError, told apart by the driver's error in it.
Cause      == {"none", "not_found", "validation", "duplicate", "foreign_key"}
Constraint == {"duplicate", "foreign_key"}
Error == [cause: Cause, dialect: Dialect \cup {"none"}, sentinels: SUBSET Sentinel]

BindFlaw == {"media_type", "too_large", "malformed", "unknown_field", "shape"}
Flaw     == BindFlaw \cup {"invalid", "bad_id", "bad_query"}

ASSUME ConstantsAssumption ==
    /\ KnownDialect \subseteq Dialect /\ Replaceable \subseteq Op
    /\ {"none", "custom"} \cap Dialect = {}

VARIABLES
    unique,     \* ErrorMap's uniqueness determination: "none", "custom", a dialect
    client,     \* [Handler -> dialect of its client], "none" before API()
    custom,     \* [Handler -> the operations With replaced]
    serving,    \* has a request come in?
    request,    \* the request: handler, operation, flaws, stages left
    error,      \* what the middle step returned
    answers     \* the statuses written for the request, in order

vars == <<unique, client, custom, serving, request, error, answers>>
setup == <<unique, client, custom, serving>>

-----------------------------------------------------------------------------
(***************************************************************************)
(* Classification.                                                         *)
(***************************************************************************)
\* What a determination recognises: one dialect's text or SQLSTATE; the
\* consumer's own, every dialect it was written for.
Recognises(d, e) == e.cause = "duplicate" /\ d \in {"custom", e.dialect}

Adding(e, sentinel) == [e EXCEPT !.sentinels = @ \cup {sentinel}]

MapErrorWithoutUnique(d, e) ==
    IF e.cause = "not_found" THEN Adding(e, "ErrNotFound")
    ELSE IF e.cause = "validation" THEN Adding(e, "ErrValidation")
    ELSE IF e.cause \in Constraint THEN Adding(e, "ErrAlreadyExists")
    ELSE e

\* ErrorMapper.MapError, in its fixed order.
MapError(d, e) ==
    IF e.cause = "not_found" THEN Adding(e, "ErrNotFound")
    ELSE IF e.cause = "validation" THEN Adding(e, "ErrValidation")
    ELSE IF e.cause \in Constraint /\ Recognises(d, e) THEN Adding(e, "ErrAlreadyExists")
    ELSE e

\* runtime.Status, in its order.
Status(e, onValidation) ==
    IF "ErrUnsupportedMediaType" \in e.sentinels THEN 415
    ELSE IF "ErrRequestTooLarge" \in e.sentinels THEN 413
    ELSE IF "ErrNotFound" \in e.sentinels THEN 404
    ELSE IF "ErrAlreadyExists" \in e.sentinels THEN 409
    ELSE IF "ErrValidation" \in e.sentinels THEN onValidation ELSE 500

\* The switch get and delete spell out.
OwnSwitch(e) ==
    IF "ErrNotFound" \in e.sentinels THEN 404 ELSE IF "ErrAlreadyExists" \in e.sentinels THEN 409 ELSE 500

StepStatus(op, e) ==
    IF op \in {"get", "delete"} THEN OwnSwitch(e)
    ELSE Status(e, IF op = "list" THEN 400 ELSE 422)

\* BindJSON stops at the first thing wrong: the media type before the body is
\* read, its size before it is decoded.
BindError(flaws) ==
    Adding([cause |-> "none", dialect |-> "none", sentinels |-> {}],
           IF "media_type" \in flaws THEN "ErrUnsupportedMediaType"
           ELSE IF "too_large" \in flaws THEN "ErrRequestTooLarge" ELSE "ErrValidation")

\* errorStatusesByOp: what the OpenAPI document declares.
Documented(op) ==
    IF op \in {"create", "patch"} THEN {400, 404, 409, 413, 415, 422, 500}
                                  ELSE {400, 404, 500}
Success(op) == IF op = "create" THEN 201 ELSE IF op = "delete" THEN 204 ELSE 200

(***************************************************************************)
(* The stages of a handler.                                                *)
(***************************************************************************)
Stages(op) ==
    [list   |-> <<"query", "step">>,
     create |-> <<"bind", "validate", "step">>,
     get    |-> <<"id", "step">>,
     patch  |-> <<"bind", "validate", "id", "step">>,
     delete |-> <<"id", "step">>][op]

\* What each stage refuses, and with which status.
Refuses(stage, flaws) ==
    \/ stage = "query"    /\ "bad_query" \in flaws
    \/ stage = "bind"     /\ flaws \cap BindFlaw # {}
    \/ stage = "validate" /\ "invalid" \in flaws
    \/ stage = "id"       /\ "bad_id" \in flaws

\* The flaws an operation looks for.
Looked(op) == {flaw \in Flaw :
    \E n \in DOMAIN Stages(op) : Refuses(Stages(op)[n], {flaw})}

RefusalStatus(stage, flaws) ==
    IF stage = "bind" THEN Status(BindError(flaws), 400)
    ELSE IF stage = "validate" THEN 422 ELSE 400

\* The errors a database operation can come back with, as ent types them.
Failed(cause, d) == [cause |-> cause, dialect |-> d, sentinels |-> {}]

EntErrors(op, d) ==
    {Failed(cause, d) : cause \in
        {"none"}
          \cup (IF op = "list" THEN {} ELSE {"not_found"})
          \cup (IF op \in {"create", "patch"} THEN {"validation", "duplicate"} ELSE {})
          \cup (IF op \in {"create", "patch", "delete"} THEN {"foreign_key"} ELSE {})}

\* The generated wiring maps ent's error once; a list refuses a sort key before
\* any mapping.  A replacement returns what it likes.
StepErrors(h, op) ==
    IF op \in custom[h]
      THEN {[Failed("none", "none") EXCEPT !.sentinels = S] :
              S \in {T \in SUBSET Sentinel : Cardinality(T) <= 2}}
      ELSE {MapError(unique, e) : e \in EntErrors(op, client[h])}
             \cup (IF op = "list" THEN {Adding(Failed("none", "none"), "ErrValidation")}
                                  ELSE {})

-----------------------------------------------------------------------------
(***************************************************************************)
(* Configuration, before serving.                                          *)
(***************************************************************************)
Idle == request.stages = <<>>

NoError == Failed("none", "none")

NoRequest == [handler |-> "none", op |-> "none", flaws |-> {}, stages |-> <<>>]

\* The consumer installs its own determination with WithUniqueViolation.
Supply ==
    /\ ~serving /\ unique' = "custom"
    /\ UNCHANGED <<client, custom, serving, request, error, answers>>

InstalledNever(d) == unique

\* API() installs the client's dialect unless a determination is there already.
Installed(d) == IF unique = "none" /\ d \in KnownDialect THEN d ELSE unique

API(h, d) ==
    /\ ~serving /\ client[h] = "none"
    /\ client' = [client EXCEPT ![h] = d]
    /\ unique' = Installed(d)
    /\ UNCHANGED <<custom, serving, request, error, answers>>

With(h, op) ==
    /\ ~serving /\ client[h] # "none" /\ op \notin custom[h]
    /\ custom' = [custom EXCEPT ![h] = @ \cup {op}]
    /\ UNCHANGED <<unique, client, serving, request, error, answers>>

(***************************************************************************)
(* A request.                                                              *)
(***************************************************************************)
Serve(h, op, flaws) ==
    /\ ~serving /\ client[h] # "none" /\ flaws \subseteq Looked(op)
    /\ serving' = TRUE
    /\ request' = [handler |-> h, op |-> op, flaws |-> flaws, stages |-> Stages(op)]
    /\ error' = NoError /\ answers' = <<>>
    /\ UNCHANGED <<unique, client, custom>>

AnswerFallsThrough(status) ==
    /\ answers' = Append(answers, status)
    /\ request' = [request EXCEPT !.stages = Tail(@)]

\* WriteProblem or WriteJSON, and the return that follows it.
Answer(status) ==
    /\ answers' = Append(answers, status)
    /\ request' = [request EXCEPT !.stages = <<>>]

Refuse ==
    /\ ~Idle /\ Refuses(Head(request.stages), request.flaws)
    /\ Answer(RefusalStatus(Head(request.stages), request.flaws))
    /\ UNCHANGED <<setup, error>>

Pass ==
    /\ ~Idle /\ Head(request.stages) # "step"
    /\ ~Refuses(Head(request.stages), request.flaws)
    /\ request' = [request EXCEPT !.stages = Tail(@)]
    /\ UNCHANGED <<setup, error, answers>>

StepSucceeds ==
    /\ ~Idle /\ Head(request.stages) = "step"
    \* WriteJSON marshals before it writes: a value that does not is a 500
    /\ \E status \in {Success(request.op)} \cup (IF request.op = "delete" THEN {} ELSE {500}) :
         Answer(status)
    /\ UNCHANGED <<setup, error>>

StepFails ==
    /\ ~Idle /\ Head(request.stages) = "step"
    /\ \E e \in StepErrors(request.handler, request.op) :
         /\ error' = e
         /\ Answer(StepStatus(request.op, e))
    /\ UNCHANGED setup

-----------------------------------------------------------------------------
Init ==
    /\ unique = "none" /\ serving = FALSE
    /\ client = [h \in Handler |-> "none"] /\ custom = [h \in Handler |-> {}]
    /\ request = NoRequest /\ error = NoError /\ answers = <<>>

Configure == Supply \/ \E h \in Handler :
                 (\E d \in Dialect : API(h, d)) \/ (\E op \in Replaceable : With(h, op))

Handle == Refuse \/ Pass \/ StepSucceeds \/ StepFails

Next == Configure \/ Handle
          \/ \E h \in Handler, op \in Op, flaws \in SUBSET Flaw :
                  Serve(h, op, flaws)

Spec == Init /\ [][Next]_vars

-----------------------------------------------------------------------------
\* handler.tmpl returns after every answer: a request is answered once, and not
\* before its handler is through with it.  A flawed request never gets as far as
\* the operation: its one answer is a client error, and neither 404 nor 409.
AnsweredOnce ==
    /\ Len(answers) <= 1
    /\ serving /\ Idle <=> Len(answers) = 1
    /\ serving /\ Idle /\ request.flaws # {} =>
          answers[1] \in {400, 413, 415, 422} /\ error = NoError

Replaced == request.op \in custom[request.handler]

\* The OpenAPI document describes the generated implementations: none of them
\* answers with a status the document does not declare for its operation.
GeneratedStatusDocumented ==
    serving /\ ~Replaced =>
        \A n \in DOMAIN answers :
            answers[n] \in Documented(request.op) \cup {Success(request.op)}

\* Issue 13: the generated implementations say 409 of a duplicate key and of
\* nothing else, whatever determination is installed.
ConflictMeansDuplicate ==
    serving /\ ~Replaced /\ Idle /\ answers[1] = 409 => error.cause = "duplicate"

\* With the clients of one known dialect in the process, a duplicate key is
\* answered 409, whoever supplied the determination and however often API() ran.
OneDialectIsExact ==
    /\ serving /\ ~Replaced /\ Idle /\ error.cause = "duplicate"
    /\ \E d \in KnownDialect : \A h \in Handler : client[h] \in {d, "none"}
    => answers[1] = 409

\* What errors.tmpl says: "API installs the runtime determination for the
\* client's dialect unless the consumer already supplied one".
DialectInstalled ==
    \A h \in Handler : client[h] \in KnownDialect => unique \in {client[h], "custom"}
=============================================================================
