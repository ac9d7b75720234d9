--------------------------- MODULE ServingProofs ----------------------------
(***************************************************************************)
(* What Serving promises, for every set of handlers, of dialects and of    *)
(* replaceable operations.                                                 *)
(*                                                                         *)
(* A request that is under way has no answer yet, has the operation as its *)
(* last stage, and has for each of its flaws a stage ahead that refuses    *)
(* it: this is why the operation is reached by flawless requests only.     *)
(***************************************************************************)
EXTENDS Serving, SequenceTheorems, TLAPS

Stage == {"query", "bind", "validate", "id", "step"}

\* The determination is some client's dialect, unless the consumer gave it; it
\* is missing only while no client has a known dialect.
SetupInv ==
    /\ client \in [Handler -> Dialect \cup {"none"}]
    /\ custom \in [Handler -> SUBSET Op]
    /\ serving \in BOOLEAN
    /\ unique \in KnownDialect \cup {"none", "custom"}
    /\ unique \in KnownDialect => \E h \in Handler : client[h] = unique
    /\ unique = "none" => \A h \in Handler : client[h] \notin KnownDialect

Received ==
    /\ request \in [handler : Handler, op : Op, flaws : SUBSET Flaw, stages : Seq(Stage)]
    /\ client[request.handler] \in Dialect

\* Every flaw is still ahead, and the operation is the last stage.
Ahead ==
    /\ \A n \in 1..Len(request.stages) : request.stages[n] = "step" <=> n = Len(request.stages)
    /\ \A flaw \in request.flaws :
          \E n \in 1..Len(request.stages) : Refuses(request.stages[n], {flaw})
    /\ \A n \in 1..Len(request.stages) :
          request.stages[n] \in {"bind", "validate"} => request.op \in {"create", "patch"}

UnderWay == Received /\ Ahead /\ answers = <<>> /\ error = NoError

Right(status) ==
    /\ request.flaws # {} => status \in {400, 413, 415, 422} /\ error = NoError
    /\ ~Replaced => status \in Documented(request.op) \cup {Success(request.op)}
    /\ ~Replaced /\ status = 409 => error.cause = "duplicate"
    /\ ~Replaced /\ error.cause = "duplicate" /\ unique \in {"custom", client[request.handler]}
          => status = 409

Answered == Received /\ \E status \in Nat : answers = <<status>> /\ Right(status)

RequestInv ==
    /\ ~serving => Idle /\ answers = <<>>
    /\ serving /\ ~Idle => UnderWay
    /\ serving /\ Idle => Answered

IInv == SetupInv /\ RequestInv

-----------------------------------------------------------------------------
(***************************************************************************)
(* The operators.                                                          *)
(***************************************************************************)
\* A refusal is a client error, neither 404 nor 409.
LEMMA RefusalStatuses ==
    ASSUME NEW stage \in Stage, NEW flaws \in SUBSET Flaw
    PROVE  /\ RefusalStatus(stage, flaws) \in {400, 413, 415, 422}
           /\ stage \notin {"bind", "validate"} => RefusalStatus(stage, flaws) = 400
<1> DEFINE none == [cause |-> "none", dialect |-> "none", sentinels |-> {}]
<1>1. CASE stage = "bind"
  <2>1. \A s : Adding(none, s).sentinels = {s}
    BY DEF Adding
  <2>2. \E s \in {"ErrUnsupportedMediaType", "ErrRequestTooLarge", "ErrValidation"} :
           BindError(flaws).sentinels = {s}
    BY <2>1 DEF BindError
  <2>3. Status(BindError(flaws), 400) \in {400, 413, 415}
    BY <2>2 DEF Status
  <2>4. RefusalStatus(stage, flaws) = Status(BindError(flaws), 400)
    BY <1>1 DEF RefusalStatus
  <2> QED BY <1>1, <2>3, <2>4
<1>2. CASE stage = "validate"
  <2>1. RefusalStatus(stage, flaws) = 422
    BY <1>2 DEF RefusalStatus
  <2> QED BY <1>2, <2>1
<1>3. CASE stage \notin {"bind", "validate"}
  <2>1. RefusalStatus(stage, flaws) = 400
    BY <1>3 DEF RefusalStatus
  <2> QED BY <2>1
<1> QED BY <1>1, <1>2, <1>3

\* A stage that refuses none of a request's flaws taken together refuses none
\* of them taken alone.
LEMMA RefusesOne ==
    ASSUME NEW stage \in Stage, NEW flaws \in SUBSET Flaw, ~Refuses(stage, flaws),
           NEW flaw \in flaws
    PROVE  ~Refuses(stage, {flaw})
BY DEF Refuses, Stage

\* What ErrorMap makes of ent's error, by its cause.
LEMMA Mapped ==
    ASSUME NEW d, NEW cause \in Cause, NEW dialect,
           NEW e, e = MapError(d, Failed(cause, dialect))
    PROVE  /\ e.cause = cause
           /\ "ErrNotFound" \in e.sentinels <=> cause = "not_found"
           /\ "ErrValidation" \in e.sentinels <=> cause = "validation"
           /\ "ErrAlreadyExists" \in e.sentinels
                <=> cause = "duplicate" /\ d \in {"custom", dialect}
           /\ "ErrUnsupportedMediaType" \notin e.sentinels
           /\ "ErrRequestTooLarge" \notin e.sentinels
<1> DEFINE f == Failed(cause, dialect)
<1>1. f.cause = cause /\ f.dialect = dialect /\ f.sentinels = {}
  BY DEF Failed
<1>2. \A s : Adding(f, s).cause = cause /\ Adding(f, s).sentinels = {s}
  BY DEF Adding, Failed
<1> HIDE DEF f
<1>3. e = MapError(d, f)
  BY DEF f
<1>4. CASE cause = "not_found"
  <2>1. e = Adding(f, "ErrNotFound")
    BY <1>1, <1>3, <1>4 DEF MapError
  <2> QED BY <1>2, <1>4, <2>1
<1>5. CASE cause = "validation"
  <2>1. e = Adding(f, "ErrValidation")
    BY <1>1, <1>3, <1>5 DEF MapError
  <2> QED BY <1>2, <1>5, <2>1
<1>6. CASE cause = "duplicate" /\ d \in {"custom", dialect}
  <2>1. e = Adding(f, "ErrAlreadyExists")
    BY <1>1, <1>3, <1>6 DEF MapError, Recognises, Constraint
  <2> QED BY <1>2, <1>6, <2>1
<1>7. CASE /\ cause \notin {"not_found", "validation"}
           /\ ~(cause = "duplicate" /\ d \in {"custom", dialect})
  <2>1. e = f
    BY <1>1, <1>3, <1>7 DEF MapError, Recognises
  <2> QED BY <1>1, <1>7, <2>1
<1> QED BY <1>4, <1>5, <1>6, <1>7

\* The generated wiring's errors: a documented status, 409 for a duplicate
\* only, and for every duplicate the determination recognises.
LEMMA GeneratedErrors ==
    ASSUME SetupInv, NEW h \in Handler, NEW op \in Op, op \notin custom[h],
           NEW e \in StepErrors(h, op)
    PROVE  /\ StepStatus(op, e) \in Documented(op) \cup {Success(op)}
           /\ StepStatus(op, e) = 409 => e.cause = "duplicate"
           /\ e.cause = "duplicate" /\ unique \in {"custom", client[h]} => StepStatus(op, e) = 409
<1>1. CASE op = "list" /\ e = Adding(Failed("none", "none"), "ErrValidation")
  <2>1. e.cause = "none" /\ e.sentinels = {"ErrValidation"}
    BY <1>1 DEF Adding, Failed
  <2>2. StepStatus(op, e) = 400
    BY <1>1, <2>1 DEF StepStatus, Status
  <2> QED BY <1>1, <2>1, <2>2 DEF Documented
<1>2. CASE e \in {MapError(unique, x) : x \in EntErrors(op, client[h])}
  <2>1. PICK x \in EntErrors(op, client[h]) : e = MapError(unique, x)
    BY <1>2
  <2>2. PICK cause \in Cause :
            /\ x = Failed(cause, client[h])
            /\ cause = "not_found" => op # "list"
            /\ cause \in {"validation", "duplicate"} => op \in {"create", "patch"}
            /\ cause = "foreign_key" => op \in {"create", "patch", "delete"}
    BY <2>1 DEF EntErrors, Cause, Op
  <2>3. /\ e.cause = cause
        /\ "ErrNotFound" \in e.sentinels <=> cause = "not_found"
        /\ "ErrValidation" \in e.sentinels <=> cause = "validation"
        /\ "ErrAlreadyExists" \in e.sentinels
             <=> cause = "duplicate" /\ unique \in {"custom", client[h]}
        /\ "ErrUnsupportedMediaType" \notin e.sentinels
        /\ "ErrRequestTooLarge" \notin e.sentinels
    <3>1. e = MapError(unique, Failed(cause, client[h]))
      BY <2>1, <2>2
    <3> QED BY <3>1, Mapped
  <2>4. CASE op \in {"get", "delete"}
    <3>1. StepStatus(op, e) = OwnSwitch(e)
      BY <2>4 DEF StepStatus
    <3>2. cause # "duplicate"
      BY <2>2, <2>4
    <3>3. StepStatus(op, e) \in {404, 500}
      BY <3>1, <3>2, <2>3 DEF OwnSwitch
    <3>4. StepStatus(op, e) \in Documented(op)
      BY <2>4, <3>3 DEF Documented
    <3> QED BY <3>2, <3>3, <3>4, <2>3
  <2>5. CASE op = "list"
    <3>1. StepStatus(op, e) = Status(e, 400)
      BY <2>5 DEF StepStatus
    <3>2. cause \notin {"not_found", "validation", "duplicate"}
      BY <2>2, <2>5
    <3>3. StepStatus(op, e) = 500
      BY <3>1, <3>2, <2>3 DEF Status
    <3>4. StepStatus(op, e) \in Documented(op)
      BY <2>5, <3>3 DEF Documented
    <3> QED BY <3>2, <3>3, <3>4, <2>3
  <2>6. CASE op \in {"create", "patch"}
    <3>1. StepStatus(op, e) = Status(e, 422)
      BY <2>6 DEF StepStatus
    <3>2. StepStatus(op, e) \in {404, 409, 422, 500}
      BY <3>1, <2>3 DEF Status
    <3>3. StepStatus(op, e) = 409 <=> "ErrAlreadyExists" \in e.sentinels
      <4>1. CASE cause = "not_found"
        <5>1. StepStatus(op, e) = 404 BY <3>1, <2>3, <4>1 DEF Status
        <5> QED BY <5>1, <4>1, <2>3
      <4>2. CASE cause # "not_found"
        BY <3>1, <2>3, <4>2 DEF Status
      <4> QED BY <4>1, <4>2
    <3>4. StepStatus(op, e) \in Documented(op)
      BY <2>6, <3>2 DEF Documented
    <3> QED BY <3>3, <3>4, <2>3
  <2> QED BY <2>4, <2>5, <2>6 DEF Op
<1> QED BY <1>1, <1>2 DEF StepErrors

\* A handler's stages: the operation is the last one, and every flaw the
\* operation looks for has its stage.
LEMMA StagesAreAhead ==
    ASSUME NEW op \in Op
    PROVE  /\ Stages(op) \in Seq(Stage) /\ Stages(op) # <<>>
           /\ \A n \in 1..Len(Stages(op)) : Stages(op)[n] = "step" <=> n = Len(Stages(op))
           /\ \A n \in 1..Len(Stages(op)) :
                 Stages(op)[n] \in {"bind", "validate"} => op \in {"create", "patch"}
           /\ \A flaw \in Looked(op) :
                 \E n \in 1..Len(Stages(op)) : Refuses(Stages(op)[n], {flaw})
<1>1. /\ Stages(op) \in Seq(Stage) /\ Stages(op) # <<>>
      /\ \A n \in 1..Len(Stages(op)) : Stages(op)[n] = "step" <=> n = Len(Stages(op))
      /\ \A n \in 1..Len(Stages(op)) :
            Stages(op)[n] \in {"bind", "validate"} => op \in {"create", "patch"}
  <2>1. CASE op = "list"
    <3>1. Stages(op) = <<"query", "step">> BY <2>1 DEF Stages
    <3>2. Stages(op) \in Seq(Stage) /\ Len(Stages(op)) = 2 BY <3>1 DEF Stage
    <3>3. Stages(op)[1] = "query" /\ Stages(op)[2] = "step" BY <3>1
    <3>4. Stages(op) # <<>> BY <3>2
    <3>5. \A n \in 1..Len(Stages(op)) : Stages(op)[n] = "step" <=> n = Len(Stages(op))
      BY <3>2, <3>3
    <3>6. \A n \in 1..Len(Stages(op)) :
             Stages(op)[n] \in {"bind", "validate"} => op \in {"create", "patch"}
      BY <2>1, <3>2, <3>3
    <3> QED BY <3>2, <3>4, <3>5, <3>6
  <2>2. CASE op = "create"
    <3>1. Stages(op) = <<"bind", "validate", "step">> BY <2>2 DEF Stages
    <3>2. Stages(op) \in Seq(Stage) /\ Len(Stages(op)) = 3 BY <3>1 DEF Stage
    <3>3. Stages(op)[1] = "bind" /\ Stages(op)[2] = "validate" /\ Stages(op)[3] = "step" BY <3>1
    <3>4. Stages(op) # <<>> BY <3>2
    <3>5. \A n \in 1..Len(Stages(op)) : Stages(op)[n] = "step" <=> n = Len(Stages(op))
      BY <3>2, <3>3
    <3>6. \A n \in 1..Len(Stages(op)) :
             Stages(op)[n] \in {"bind", "validate"} => op \in {"create", "patch"}
      BY <2>2, <3>2, <3>3
    <3> QED BY <3>2, <3>4, <3>5, <3>6
  <2>3. CASE op \in {"get", "delete"}
    <3>1. Stages(op) = <<"id", "step">> BY <2>3 DEF Stages
    <3>2. <<"id", "step">> \in Seq(Stage) BY DEF Stage
    <3> QED BY <2>3, <3>1, <3>2
  <2>4. CASE op = "patch"
    <3>1. Stages(op) = <<"bind", "validate", "id", "step">> BY <2>4 DEF Stages
    <3>2. Stages(op) \in Seq(Stage) /\ Len(Stages(op)) = 4 BY <3>1 DEF Stage
    <3>3. Stages(op)[1] = "bind" /\ Stages(op)[2] = "validate" /\ Stages(op)[3] = "id" /\ Stages(op)[4] = "step" BY <3>1
    <3>4. Stages(op) # <<>> BY <3>2
    <3>5. \A n \in 1..Len(Stages(op)) : Stages(op)[n] = "step" <=> n = Len(Stages(op))
      BY <3>2, <3>3
    <3>6. \A n \in 1..Len(Stages(op)) :
             Stages(op)[n] \in {"bind", "validate"} => op \in {"create", "patch"}
      BY <2>4, <3>2, <3>3
    <3> QED BY <3>2, <3>4, <3>5, <3>6
  <2> QED BY <2>1, <2>2, <2>3, <2>4 DEF Op
<1>2. DOMAIN Stages(op) = 1..Len(Stages(op))
  BY <1>1
<1>3. \A flaw \in Looked(op) : \E n \in 1..Len(Stages(op)) : Refuses(Stages(op)[n], {flaw})
  BY <1>2 DEF Looked
<1> QED BY <1>1, <1>3

-----------------------------------------------------------------------------
(***************************************************************************)
(* The invariant.                                                          *)
(***************************************************************************)
LEMMA InitHolds == Init => IInv
<1> SUFFICES ASSUME Init PROVE IInv
  OBVIOUS
<1>1. SetupInv
  BY ConstantsAssumption DEF Init, SetupInv
<1>2. request.stages = <<>> /\ answers = <<>> /\ serving = FALSE
  BY DEF Init, NoRequest
<1>3. RequestInv
  BY <1>2 DEF RequestInv, Idle
<1> QED BY <1>1, <1>3 DEF IInv

LEMMA ConfigureKeeps == IInv /\ Configure => IInv'
<1> SUFFICES ASSUME IInv, Configure PROVE IInv'
  OBVIOUS
<1>1. ~serving
  BY DEF Configure, Supply, API, With
<1>2. RequestInv'
  BY <1>1 DEF IInv, RequestInv, Configure, Supply, API, With, Idle
<1>3. SetupInv'
  <2>1. CASE Supply
    BY <2>1, ConstantsAssumption DEF Supply, IInv, SetupInv
  <2>2. ASSUME NEW h \in Handler, NEW d \in Dialect, API(h, d) PROVE SetupInv'
    <3>1. /\ client' \in [Handler -> Dialect \cup {"none"}]
          /\ client'[h] = d /\ \A g \in Handler : g # h => client'[g] = client[g]
      BY <2>2 DEF API, IInv, SetupInv
    <3>2. unique' = Installed(d) /\ client[h] = "none"
      BY <2>2 DEF API
    <3>3. CASE unique = "none" /\ d \in KnownDialect
      <4>1. unique' = d /\ d # "none"
        BY <3>2, <3>3, ConstantsAssumption DEF Installed
      <4> QED BY <2>2, <3>1, <3>3, <4>1 DEF API, IInv, SetupInv
    <3>4. CASE ~(unique = "none" /\ d \in KnownDialect)
      <4>1. unique' = unique
        BY <3>2, <3>4 DEF Installed
      <4>2. unique' \in KnownDialect => \E g \in Handler : client'[g] = unique'
        BY <3>1, <3>2, <4>1, ConstantsAssumption DEF IInv, SetupInv
      <4>3. unique' = "none" => \A g \in Handler : client'[g] \notin KnownDialect
        BY <3>1, <3>4, <4>1 DEF IInv, SetupInv
      <4> QED BY <2>2, <3>1, <4>1, <4>2, <4>3 DEF API, IInv, SetupInv
    <3> QED BY <3>3, <3>4
  <2>3. ASSUME NEW h \in Handler, NEW op \in Replaceable, With(h, op) PROVE SetupInv'
    BY <2>3, ConstantsAssumption DEF With, IInv, SetupInv
  <2> QED BY <2>1, <2>2, <2>3 DEF Configure
<1> QED BY <1>2, <1>3 DEF IInv

LEMMA ServeKeeps ==
    ASSUME IInv, NEW h \in Handler, NEW op \in Op, NEW flaws \in SUBSET Flaw, Serve(h, op, flaws)
    PROVE  IInv'
<1>1. SetupInv'
  BY DEF Serve, IInv, SetupInv
<1>2. /\ request' = [handler |-> h, op |-> op, flaws |-> flaws, stages |-> Stages(op)]
      /\ flaws \subseteq Looked(op) /\ serving' = TRUE
      /\ error' = NoError /\ answers' = <<>> /\ client' = client /\ client[h] # "none"
  BY DEF Serve
<1>3. /\ request'.handler = h /\ request'.op = op /\ request'.flaws = flaws
      /\ request'.stages = Stages(op)
  BY <1>2
<1>4. Received'
  BY <1>2, StagesAreAhead DEF Received, IInv, SetupInv
<1>5. Ahead'
  BY <1>2, <1>3, StagesAreAhead, ZenonT(60) DEF Ahead
<1>6. UnderWay' /\ ~Idle'
  BY <1>2, <1>3, <1>4, <1>5, StagesAreAhead DEF UnderWay, Idle, NoError, Failed
<1>7. RequestInv'
  BY <1>2, <1>6 DEF RequestInv
<1> QED BY <1>1, <1>7 DEF IInv

\* What an answer leaves behind, by what was answered.
LEMMA AnswerKeeps ==
    ASSUME IInv, serving, ~Idle, UNCHANGED setup, NEW status \in Nat, Answer(status),
           /\ request.flaws # {} => status \in {400, 413, 415, 422} /\ error' = NoError
           /\ ~Replaced => status \in Documented(request.op) \cup {Success(request.op)}
           /\ ~Replaced /\ status = 409 => error'.cause = "duplicate"
           /\ ~Replaced /\ error'.cause = "duplicate"
                 /\ unique \in {"custom", client[request.handler]} => status = 409
    PROVE  IInv'
<1>1. SetupInv'
  BY DEF IInv, SetupInv, setup
<1>2. Received /\ answers = <<>>
  BY DEF IInv, RequestInv, UnderWay
<1>3. request' = [request EXCEPT !.stages = <<>>]
  BY DEF Answer
<1>4. /\ request' \in [handler : Handler, op : Op, flaws : SUBSET Flaw, stages : Seq(Stage)]
      /\ request'.handler = request.handler /\ request'.op = request.op
      /\ request'.flaws = request.flaws /\ request'.stages = <<>>
  <2>1. <<>> \in Seq(Stage)
    OBVIOUS
  <2> QED BY <1>2, <1>3, <2>1 DEF Received
<1>5. Received' /\ Idle'
  BY <1>2, <1>4 DEF Received, Idle, setup
<1>6. answers' = <<status>>
  BY <1>2 DEF Answer
<1>7. Replaced' <=> Replaced
  BY <1>4 DEF Replaced, setup
<1>8. Right(status)'
  BY <1>4, <1>7 DEF Right, setup, NoError, Failed
<1>9. Answered'
  BY <1>5, <1>6, <1>8 DEF Answered
<1>10. RequestInv'
  BY <1>5, <1>9 DEF RequestInv, setup
<1> QED BY <1>1, <1>10 DEF IInv

\* The stage a request is at.
LEMMA AtHead ==
    ASSUME UnderWay, ~Idle
    PROVE  /\ Len(request.stages) \in Nat \ {0}
           /\ Head(request.stages) = request.stages[1] /\ request.stages[1] \in Stage
           /\ Tail(request.stages) \in Seq(Stage)
           /\ Len(Tail(request.stages)) = Len(request.stages) - 1
           /\ \A n \in 1..Len(Tail(request.stages)) :
                 Tail(request.stages)[n] = request.stages[n + 1]
<1>1. request.stages \in Seq(Stage) /\ request.stages # <<>>
  BY DEF UnderWay, Received, Idle
<1> QED BY <1>1

LEMMA PassKeeps == IInv /\ serving /\ Pass => IInv'
<1> SUFFICES ASSUME IInv, serving, Pass PROVE IInv'
  OBVIOUS
<1>1. ~Idle /\ UnderWay
  BY DEF Pass, IInv, RequestInv
<1> DEFINE s == request.stages
           t == Tail(request.stages)
<1>2. /\ Len(s) \in Nat \ {0} /\ Head(s) = s[1] /\ s[1] \in Stage
      /\ t \in Seq(Stage) /\ Len(t) = Len(s) - 1 /\ \A n \in 1..Len(t) : t[n] = s[n + 1]
  BY <1>1, AtHead
<1>3. /\ s[1] # "step" /\ ~Refuses(s[1], request.flaws)
      /\ UNCHANGED <<setup, error, answers>> /\ request' = [request EXCEPT !.stages = t]
  BY <1>2 DEF Pass
<1>4. /\ request' \in [handler : Handler, op : Op, flaws : SUBSET Flaw, stages : Seq(Stage)]
      /\ request'.handler = request.handler /\ request'.op = request.op
      /\ request'.flaws = request.flaws /\ request'.stages = t
  BY <1>1, <1>2, <1>3 DEF UnderWay, Received
<1>5. Received'
  BY <1>1, <1>3, <1>4 DEF UnderWay, Received, setup
<1> HIDE DEF t
<1>6. Len(t) # 0
  BY <1>1, <1>2, <1>3 DEF UnderWay, Ahead
<1>7. Ahead'
  <2>1. \A n \in 1..Len(t) : t[n] = "step" <=> n = Len(t)
    BY <1>1, <1>2 DEF UnderWay, Ahead
  <2>2. ASSUME NEW flaw \in request.flaws PROVE \E n \in 1..Len(t) : Refuses(t[n], {flaw})
    <3>1. PICK m \in 1..Len(s) : Refuses(s[m], {flaw})
      BY <1>1 DEF UnderWay, Ahead
    <3>2. ~Refuses(s[1], {flaw})
      BY <1>1, <1>2, <1>3, RefusesOne DEF UnderWay, Received
    <3>3. m # 1
      BY <3>1, <3>2
    <3>4. m - 1 \in 1..Len(t) /\ t[m - 1] = s[m]
      BY <1>2, <3>1, <3>3
    <3> QED BY <3>1, <3>4
  <2>3. \A n \in 1..Len(t) : t[n] \in {"bind", "validate"} => request.op \in {"create", "patch"}
    BY <1>1, <1>2 DEF UnderWay, Ahead
  <2> QED BY <1>4, <2>1, <2>2, <2>3 DEF Ahead
<1>8. UnderWay' /\ ~Idle'
  BY <1>1, <1>3, <1>4, <1>5, <1>6, <1>7 DEF UnderWay, Idle, NoError, Failed
<1>9. SetupInv'
  BY <1>3 DEF IInv, SetupInv, setup
<1> QED BY <1>3, <1>8, <1>9 DEF IInv, RequestInv, setup

LEMMA RefuseKeeps == IInv /\ serving /\ Refuse => IInv'
<1> SUFFICES ASSUME IInv, serving, Refuse PROVE IInv'
  OBVIOUS
<1>1. ~Idle /\ UnderWay
  BY DEF Refuse, IInv, RequestInv
<1> DEFINE stage == request.stages[1]
           status == RefusalStatus(stage, request.flaws)
<1>2. Head(request.stages) = stage /\ stage \in Stage /\ Len(request.stages) \in Nat \ {0}
  BY <1>1, AtHead
<1>3. Answer(status) /\ UNCHANGED setup /\ error' = error
  BY <1>2 DEF Refuse
<1>4. /\ status \in {400, 413, 415, 422}
      /\ stage \notin {"bind", "validate"} => status = 400
  BY <1>1, <1>2, RefusalStatuses DEF UnderWay, Received
<1>5. stage \in {"bind", "validate"} => request.op \in {"create", "patch"}
  BY <1>1, <1>2 DEF UnderWay, Ahead
<1>6. error' = NoError /\ error'.cause = "none"
  BY <1>1, <1>3 DEF UnderWay, NoError, Failed
<1> HIDE DEF status, stage
<1>7. status \in Documented(request.op)
  BY <1>4, <1>5 DEF Documented
<1>8. status \in Nat /\ status # 409
  BY <1>4
<1> QED BY <1>1, <1>3, <1>4, <1>6, <1>7, <1>8, AnswerKeeps

\* The operation runs for a request without flaws.
LEMMA AtStep ==
    ASSUME UnderWay, ~Idle, Head(request.stages) = "step"
    PROVE  request.flaws = {}
<1>1. request.stages[1] = "step" /\ Len(request.stages) \in Nat \ {0}
  BY AtHead
<1>2. Len(request.stages) = 1
  <2>1. 1 \in 1..Len(request.stages)
    BY <1>1
  <2>2. request.stages[1] = "step" <=> 1 = Len(request.stages)
    BY <2>1 DEF UnderWay, Ahead
  <2> QED BY <1>1, <2>2
<1>3. \A flaw \in request.flaws : Refuses("step", {flaw})
  BY <1>1, <1>2 DEF UnderWay, Ahead
<1> QED BY <1>3 DEF Refuses

LEMMA StepSucceedsKeeps == IInv /\ serving /\ StepSucceeds => IInv'
<1> SUFFICES ASSUME IInv, serving, StepSucceeds PROVE IInv'
  OBVIOUS
<1>1. ~Idle /\ UnderWay
  BY DEF StepSucceeds, IInv, RequestInv
<1>2. request.flaws = {}
  BY <1>1, AtStep DEF StepSucceeds
<1>3. PICK status \in {Success(request.op), 500} : Answer(status)
  BY DEF StepSucceeds
<1>4. UNCHANGED setup /\ error' = NoError /\ error'.cause = "none"
  BY <1>1 DEF StepSucceeds, UnderWay, NoError, Failed
<1>5. status \in Documented(request.op) \cup {Success(request.op)}
  BY DEF Documented
<1>6. Success(request.op) \in {200, 201, 204}
  BY DEF Success
<1>7. status \in Nat /\ status # 409
  BY <1>6
<1> QED BY <1>1, <1>2, <1>3, <1>4, <1>5, <1>7, AnswerKeeps

LEMMA StatusesAreNumbers == \A op, e : StepStatus(op, e) \in Nat
<1>1. \A e : OwnSwitch(e) \in Nat
  BY DEF OwnSwitch
<1>2. \A e : Status(e, 400) \in Nat /\ Status(e, 422) \in Nat
  BY DEF Status
<1>3. ASSUME NEW op, NEW e PROVE StepStatus(op, e) \in {OwnSwitch(e), Status(e, 400), Status(e, 422)}
  BY DEF StepStatus
<1> QED BY <1>1, <1>2, <1>3

LEMMA StepFailsKeeps == IInv /\ serving /\ StepFails => IInv'
<1> SUFFICES ASSUME IInv, serving, StepFails PROVE IInv'
  OBVIOUS
<1>1. ~Idle /\ UnderWay
  BY DEF StepFails, IInv, RequestInv
<1>2. request.flaws = {}
  BY <1>1, AtStep DEF StepFails
<1> DEFINE h == request.handler
           op == request.op
<1>3. PICK e \in StepErrors(h, op) : error' = e /\ Answer(StepStatus(op, e))
  BY DEF StepFails
<1> DEFINE status == StepStatus(op, e)
<1>4. UNCHANGED setup /\ h \in Handler /\ op \in Op
  BY <1>1 DEF StepFails, UnderWay, Received
<1>5. status \in Nat
  BY StatusesAreNumbers
<1>6. ASSUME ~Replaced
      PROVE  /\ status \in Documented(op) \cup {Success(op)}
             /\ status = 409 => e.cause = "duplicate"
             /\ e.cause = "duplicate" /\ unique \in {"custom", client[h]} => status = 409
  <2>1. op \notin custom[h] /\ SetupInv
    BY <1>6 DEF Replaced, IInv
  <2> QED BY <1>3, <1>4, <2>1, GeneratedErrors
<1> HIDE DEF status
<1>7. Answer(status) /\ error' = e
  BY <1>3 DEF status
<1> QED BY <1>1, <1>2, <1>4, <1>5, <1>6, <1>7, AnswerKeeps

LEMMA NextKeeps == IInv /\ [Next]_vars => IInv'
<1> SUFFICES ASSUME IInv, [Next]_vars PROVE IInv'
  OBVIOUS
<1>1. CASE Configure
  BY <1>1, ConfigureKeeps
<1>2. CASE Handle
  <2>1. serving
    <3>1. ~Idle
      BY <1>2 DEF Handle, Refuse, Pass, StepSucceeds, StepFails
    <3> QED BY <3>1 DEF IInv, SetupInv, RequestInv
  <2> QED BY <1>2, <2>1, RefuseKeeps, PassKeeps, StepSucceedsKeeps, StepFailsKeeps DEF Handle
<1>3. CASE \E h \in Handler, op \in Op, flaws \in SUBSET Flaw : Serve(h, op, flaws)
  BY <1>3, ServeKeeps
<1>4. CASE UNCHANGED vars
  <2>1. SetupInv'
    BY <1>4 DEF vars, IInv, SetupInv
  <2>2. (UnderWay' <=> UnderWay) /\ (Idle' <=> Idle)
    BY <1>4 DEF vars, UnderWay, Received, Ahead, Idle
  <2>3. \A status \in Nat : Right(status)' <=> Right(status)
    BY <1>4 DEF vars, Right, Replaced
  <2>4. Answered' <=> Answered
    BY <1>4, <2>3 DEF vars, Answered, Received
  <2> QED BY <1>4, <2>1, <2>2, <2>4 DEF vars, IInv, RequestInv
<1> QED BY <1>1, <1>2, <1>3, <1>4 DEF Next

THEOREM Inductive == Spec => []IInv
BY InitHolds, NextKeeps, PTL DEF Spec

-----------------------------------------------------------------------------
\* A request is answered once, and not before its handler is through with it;
\* a flawed one never reaches the operation (handler.tmpl's returns).
THEOREM OneAnswer == Spec => []AnsweredOnce
<1>1. IInv => AnsweredOnce
  <2> SUFFICES ASSUME IInv PROVE AnsweredOnce
    OBVIOUS
  <2>1. CASE serving /\ Idle
    <3>1. PICK status \in Nat : answers = <<status>> /\ Right(status)
      BY <2>1 DEF IInv, RequestInv, Answered
    <3>2. Len(answers) = 1 /\ answers[1] = status
      BY <3>1
    <3> QED BY <2>1, <3>1, <3>2 DEF AnsweredOnce, Right
  <2>2. CASE ~(serving /\ Idle)
    <3>1. answers = <<>>
      BY <2>2 DEF IInv, SetupInv, RequestInv, UnderWay
    <3>2. Len(answers) = 0
      BY <3>1
    <3> QED BY <2>2, <3>2 DEF AnsweredOnce
  <2> QED BY <2>1, <2>2
<1> QED BY <1>1, Inductive, PTL

\* An answer of a generated implementation, with what it was given for.
LEMMA AnswerIsRight ==
    ASSUME IInv, serving, Idle
    PROVE  answers \in Seq(Nat) /\ Len(answers) = 1 /\ Right(answers[1])
<1>1. PICK status \in Nat : answers = <<status>> /\ Right(status)
  BY DEF IInv, RequestInv, Answered
<1>2. Len(answers) = 1 /\ answers[1] = status
  BY <1>1
<1> QED BY <1>1, <1>2

\* No generated implementation answers with a status the OpenAPI document does
\* not declare for its operation (handler.tmpl, openapi.go's errorStatusesByOp).
THEOREM StatusesDocumented == Spec => []GeneratedStatusDocumented
<1>1. IInv => GeneratedStatusDocumented
  <2> SUFFICES ASSUME IInv, serving, ~Replaced, NEW n \in DOMAIN answers
               PROVE  answers[n] \in Documented(request.op) \cup {Success(request.op)}
    BY DEF GeneratedStatusDocumented
  <2>1. CASE Idle
    <3>1. answers \in Seq(Nat) /\ Len(answers) = 1 /\ Right(answers[1])
      BY <2>1, AnswerIsRight
    <3>2. n = 1
      BY <3>1
    <3> QED BY <3>1, <3>2 DEF Right
  <2>2. CASE ~Idle
    BY <2>2 DEF IInv, RequestInv, UnderWay
  <2> QED BY <2>1, <2>2
<1> QED BY <1>1, Inductive, PTL

\* A generated implementation answers 409 to a duplicate key and to nothing
\* else, whatever determination is installed (errors_map.go's MapError).
THEOREM ConflictsAreDuplicates == Spec => []ConflictMeansDuplicate
<1>1. IInv => ConflictMeansDuplicate
  BY AnswerIsRight DEF ConflictMeansDuplicate, Right
<1> QED BY <1>1, Inductive, PTL

\* With the clients of one known dialect, every duplicate is answered 409,
\* in whatever order the program supplied, built and replaced (errors.tmpl).
THEOREM DuplicatesAreConflicts == Spec => []OneDialectIsExact
<1>1. IInv => OneDialectIsExact
  <2> SUFFICES ASSUME IInv, serving, ~Replaced, Idle, error.cause = "duplicate",
                      NEW d \in KnownDialect, \A h \in Handler : client[h] \in {d, "none"}
               PROVE  answers[1] = 409
    BY DEF OneDialectIsExact
  <2>1. Right(answers[1])
    BY AnswerIsRight
  <2>2. request.handler \in Handler /\ client[request.handler] \in Dialect
    BY DEF IInv, RequestInv, Answered, Received
  <2>3. client[request.handler] = d
    BY <2>2, ConstantsAssumption
  <2>4. unique # "none"
    BY <2>2, <2>3 DEF IInv, SetupInv
  <2>5. unique \in {"custom", d}
    BY <2>4, ConstantsAssumption DEF IInv, SetupInv
  <2> QED BY <2>1, <2>3, <2>5 DEF Right
<1> QED BY <1>1, Inductive, PTL
=============================================================================
