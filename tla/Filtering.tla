----------------------------- MODULE Filtering ------------------------------
(***************************************************************************)
(* The filter of a list: the operators a field gets when code is generated *)
(* (funcs_filter.go), the parameters of a URL parsed into the slots of a   *)
(* filter struct (runtime/queryops.go, ParseXQuery in filter.tmpl), and    *)
(* the predicates made of the slots (Predicates, runtime/filter.go).       *)
(*                                                                         *)
(* A literal is a sequence of tokens.  A value of the URL is an operator   *)
(* prefix, "" where it has no colon, and the comma-separated parts of its  *)
(* operand; read as a whole it is the literal <<prefix, parts ...>>.       *)
(***************************************************************************)
EXTENDS Naturals, Sequences, FiniteSets

CONSTANTS
    Shapes,      \* the fields considered
    Kind,        \* their types
    EntOps,      \* [Kind -> SUBSET Slot]: the operators ent derives
    Converts,    \* [Kind -> set of literals]: what the type's parser accepts
    Rank,        \* [literal -> Nat]: the database's order of them
    Rows,        \* the values of the column, literals or Null
    Null,
    Values,      \* the values a URL gives the field
    Terms,       \* the free-text terms
    MaxValues

Compared  == {"EQ", "NEQ", "GT", "GTE", "LT", "LTE"}
Variadic  == {"In", "NotIn"}
Substring == {"Contains", "ContainsFold", "HasPrefix", "HasSuffix"}
Slot      == Compared \cup Variadic \cup Substring

\* opWirePrefix.
Prefix == [EQ |-> "eq", NEQ |-> "ne", GT |-> "gt", GTE |-> "ge", LT |-> "lt", LTE |-> "le",
           In |-> "in", NotIn |-> "not_in", Contains |-> "like", ContainsFold |-> "ilike",
           HasPrefix |-> "prefix", HasSuffix |-> "suffix"]

QueryOperators == {Prefix[s] : s \in Slot} \cup {"is_null", "not_null", "from", "to", "between"}

Shape == [kind : Kind, nullable : BOOLEAN, filterable : BOOLEAN, searchable : BOOLEAN]

ASSUME FilteringAssumption ==
    /\ Shapes \subseteq Shape /\ EntOps \in [Kind -> SUBSET Slot]
    \* ent derives its operators by family
    /\ \A k \in Kind : \A family \in {{"EQ", "NEQ"}, {"GT", "GTE", "LT", "LTE"}, Variadic, Substring} :
          family \subseteq EntOps[k] \/ family \cap EntOps[k] = {}
    /\ \A v \in Values : v.op # "" \/ v.parts # <<>>

VARIABLES
    field,     \* the field the generator was given
    strict,    \* WithStrictQueryOperators
    values,    \* the values of the field's parameter, those left to parse
    term,      \* the value of _q, or Null
    filter,    \* the slots of the filter struct
    outcome    \* "parsing", "refused", "ready"

vars == <<field, strict, values, term, filter, outcome>>

-----------------------------------------------------------------------------
(***************************************************************************)
(* Generation.                                                             *)
(***************************************************************************)
\* The substring class belongs to Searchable fields.
Derived(f) == {s \in EntOps[f.kind] : s \in Substring => f.searchable}

TableRow(prefix, kind, slot, flag) == [prefix |-> prefix, kind |-> kind, slot |-> slot, flag |-> flag]

\* fieldParseOperators: the dispatch table.
Operators(f) ==
    {TableRow(Prefix[s], IF s \in Variadic THEN "list" ELSE "value", s, TRUE) : s \in Derived(f)}
      \cup (IF f.nullable THEN {TableRow("is_null", "flag", "IsNull", TRUE),
                                TableRow("not_null", "flag", "IsNull", FALSE)} ELSE {})
      \cup (IF {"GTE", "LTE"} \subseteq Derived(f)
              THEN {TableRow("from", "value", "GTE", TRUE), TableRow("to", "value", "LTE", TRUE),
                    TableRow("between", "range", "GTE", TRUE)} ELSE {})

\* filterParamsNamed: the slots that Predicates reads.
Params(f) == Derived(f) \cup (IF f.nullable THEN {"IsNull"} ELSE {})

-----------------------------------------------------------------------------
(***************************************************************************)
(* Parsing.                                                                *)
(***************************************************************************)
Empty(value) == value.op = "" /\ value.parts = <<"">>

RowsNamed(f, prefix) == {row \in Operators(f) : row.prefix = prefix}

Whole(value) == [op |-> "eq", literal |-> <<value.op>> \o value.parts, parts |-> <<>>]
Split(value) == [op |-> IF value.op = "" THEN "eq" ELSE value.op,
                 literal |-> <<"">> \o value.parts, parts |-> value.parts]

ResolveAnyPrefix(f, value) ==
    IF RowsNamed(f, Split(value).op) = {} THEN Whole(value) ELSE Split(value)

\* No colon means eq; a prefix outside the vocabulary makes the whole value an
\* operand of eq, unless the generation was strict.
Resolve(f, value) ==
    IF Split(value).op \notin QueryOperators /\ ~strict THEN Whole(value) ELSE Split(value)

Part(part) == <<"", part>>

Accepts(f, row, operand) ==
    LET ok(literal) == literal \in Converts[f.kind] IN
    CASE row.kind = "flag"  -> operand.parts = <<"">>
      [] row.kind = "list"  -> \A n \in DOMAIN operand.parts : ok(Part(operand.parts[n]))
      [] row.kind = "range" -> /\ Len(operand.parts) = 2
                               /\ \A n \in 1..2 : ok(Part(operand.parts[n]))
      [] row.kind = "value" -> ok(operand.literal)

AddedOnce(slots, slot, x) == [slots EXCEPT ![slot] = <<x>>]

Added(slots, slot, x) == [slots EXCEPT ![slot] = Append(@, x)]

Stored(slots, row, operand) ==
    CASE row.kind = "flag"  -> Added(slots, "IsNull", row.flag)
      [] row.kind = "list"  -> Added(slots, row.slot,
                                  {Part(operand.parts[n]) : n \in DOMAIN operand.parts})
      [] row.kind = "range" -> Added(Added(slots, "GTE", Part(operand.parts[1])),
                                     "LTE", Part(operand.parts[2]))
      [] row.kind = "value" -> Added(slots, row.slot, operand.literal)

-----------------------------------------------------------------------------
(***************************************************************************)
(* Predicates and what SQL makes of them: no comparison with NULL is true. *)
(***************************************************************************)
StartsWith(v, x) == Len(x) <= Len(v) /\ SubSeq(v, 1, Len(x)) = x
EndsWith(v, x)   == Len(x) <= Len(v) /\ SubSeq(v, Len(v) - Len(x) + 1, Len(v)) = x
Occurs(v, x)     == x = <<"">> \/ \E n \in DOMAIN v : StartsWith(SubSeq(v, n, Len(v)), x)

Satisfies(slot, v, x) ==
    IF slot = "IsNull" THEN (v = Null) = x
    ELSE /\ v # Null
         /\ CASE slot = "EQ"    -> v = x              [] slot = "NEQ" -> v # x
              [] slot = "GT"    -> Rank[v] > Rank[x]  [] slot = "GTE" -> Rank[v] >= Rank[x]
              [] slot = "LT"    -> Rank[v] < Rank[x]  [] slot = "LTE" -> Rank[v] <= Rank[x]
              [] slot = "In"    -> v \in x            [] slot = "NotIn" -> v \notin x
              [] slot = "HasPrefix" -> StartsWith(Tail(v), Tail(x)) \/ Tail(x) = <<"">>
              [] slot = "HasSuffix" -> EndsWith(Tail(v), Tail(x)) \/ Tail(x) = <<"">>
              [] OTHER -> Occurs(Tail(v), Tail(x))

\* Predicates: one for every entry of every slot, and the free text.
Selected(f, slots) == {v \in Rows :
    /\ \A slot \in Params(f) : \A n \in DOMAIN slots[slot] : Satisfies(slot, v, slots[slot][n])
    /\ term \notin {Null, <<"", "">>} => Satisfies("Contains", v, term)}

-----------------------------------------------------------------------------
NoFilter == [slot \in Slot \cup {"IsNull"} |-> <<>>]

RefuseQuery == outcome' = "refused" /\ UNCHANGED <<field, strict, values, term, filter>>

\* A field without Filterable is refused by its name, and _q where nothing is
\* Searchable.
Unfilterable ==
    /\ outcome = "parsing"
    /\ (values # <<>> /\ ~field.filterable) \/ (term # Null /\ ~field.searchable)
    /\ RefuseQuery

ParseValue ==
    /\ outcome = "parsing" /\ values # <<>> /\ field.filterable
    /\ term # Null => field.searchable
    /\ LET value   == Head(values)
           operand == Resolve(field, value)
           rows    == RowsNamed(field, operand.op)
       IN IF Empty(value)
            THEN values' = Tail(values) /\ UNCHANGED <<field, strict, term, filter, outcome>>
          ELSE \/ /\ \A row \in rows : ~Accepts(field, row, operand)
                  /\ RefuseQuery
               \/ \E row \in rows :
                    /\ Accepts(field, row, operand)
                    /\ filter' = Stored(filter, row, operand) /\ values' = Tail(values)
                    /\ UNCHANGED <<field, strict, term, outcome>>

Parsed ==
    /\ outcome = "parsing" /\ values = <<>> /\ (term # Null => field.searchable)
    /\ outcome' = "ready"
    /\ UNCHANGED <<field, strict, values, term, filter>>

Init ==
    /\ field \in Shapes /\ strict \in BOOLEAN
    /\ values \in UNION {[1..n -> Values] : n \in 0..MaxValues}
    /\ term \in Terms \cup {Null}
    /\ filter = NoFilter /\ outcome = "parsing"

Next == Unfilterable \/ ParseValue \/ Parsed

Spec == Init /\ [][Next]_vars

-----------------------------------------------------------------------------
(***************************************************************************)
(* GUIDE.md, "Structured filtering", read word for word: what a value asks *)
(* of a row, and which values are refused.                                 *)
(***************************************************************************)
TextOps == {"like", "ilike", "prefix", "suffix"}

IsOperator(value) == value.op \in QueryOperators

Operand(value) == IF IsOperator(value) \/ value.op = "" THEN <<"">> \o value.parts
                                                        ELSE <<value.op>> \o value.parts

Asks(value, v) ==
    LET x == Operand(value)
        a == <<"", value.parts[1]>>
        b == <<"", value.parts[Len(value.parts)]>>
        members == {<<"", value.parts[n]>> : n \in DOMAIN value.parts}
    IN \/ Empty(value)
       \/ value.op = "is_null" /\ v = Null
       \/ /\ v # Null
          /\ \/ (value.op = "eq" \/ ~IsOperator(value)) /\ v = x
             \/ value.op = "ne" /\ v # x
             \/ value.op = "gt" /\ Rank[v] > Rank[x]
             \/ value.op \in {"ge", "from"} /\ Rank[v] >= Rank[x]
             \/ value.op = "lt" /\ Rank[v] < Rank[x]
             \/ value.op \in {"le", "to"} /\ Rank[v] <= Rank[x]
             \/ value.op = "between" /\ Rank[v] >= Rank[a] /\ Rank[v] <= Rank[b]
             \/ value.op = "in" /\ v \in members
             \/ value.op = "not_in" /\ v \notin members
             \/ value.op = "not_null"
             \/ value.op = "prefix" /\ (StartsWith(Tail(v), Tail(x)) \/ Tail(x) = <<"">>)
             \/ value.op = "suffix" /\ (EndsWith(Tail(v), Tail(x)) \/ Tail(x) = <<"">>)
             \/ value.op \in {"like", "ilike"} /\ Occurs(Tail(v), Tail(x))

\* Each value selects the rows it asks for and all of them together the rows
\* every one of them does: the value parsed next narrows the selection by
\* exactly what it asks, whichever slot it went through.
EachValueIsHonoured ==
    [][values' # values =>
         Selected(field, filter') = {v \in Selected(field, filter) : Asks(Head(values), v)}]_vars

\* Of a value with an operator.
Allowed(f, value) ==
    CASE value.op \in TextOps -> /\ f.searchable /\ "Contains" \in EntOps[f.kind]
                                /\ Operand(value) \in Converts[f.kind]
      [] value.op \in {"is_null", "not_null"} -> f.nullable /\ value.parts = <<"">>
      [] value.op \in {"in", "not_in"} ->
            /\ "In" \in EntOps[f.kind]
            /\ \A n \in DOMAIN value.parts : <<"", value.parts[n]>> \in Converts[f.kind]
      [] value.op = "between" ->
            /\ "GTE" \in EntOps[f.kind] /\ Len(value.parts) = 2
            /\ \A n \in 1..2 : <<"", value.parts[n]>> \in Converts[f.kind]
      [] value.op \in {"eq", "ne"} ->
            "EQ" \in EntOps[f.kind] /\ Operand(value) \in Converts[f.kind]
      [] OTHER -> "GTE" \in EntOps[f.kind] /\ Operand(value) \in Converts[f.kind]

Legal(f, value) ==
    \/ Empty(value)
    \/ ~IsOperator(value) /\ (value.op = "" \/ ~strict)
         /\ "EQ" \in EntOps[f.kind] /\ Operand(value) \in Converts[f.kind]
    \/ IsOperator(value) /\ Allowed(f, value)

\* A query is refused where the six rules refuse a value of it and nowhere else.
RefusedByTheRules ==
    [][/\ outcome' = "refused" /\ field.filterable /\ values # <<>> /\ (term # Null => field.searchable)
            => ~Legal(field, Head(values))
       /\ values' # values => Legal(field, Head(values)) /\ field.filterable]_vars
=============================================================================
