-------------------------- MODULE FilteringProofs ---------------------------
(***************************************************************************)
(* What Filtering promises, for every field ent can describe, every list   *)
(* of values and every set of rows.                                        *)
(*                                                                         *)
(* The parameters of a URL and the slots of the predicates come from two   *)
(* functions over one list of operators; the proof goes through the table  *)
(* row by row: which rows a prefix has (RowsOf...), and what the slot of   *)
(* each row asks of the database (ValueAsks and its like).                 *)
(***************************************************************************)
EXTENDS Filtering, SequenceTheorems, TLAPS

IsFilter(slots) ==
    /\ slots = [slot \in Slot \cup {"IsNull"} |-> slots[slot]]
    /\ \A slot \in Slot \cup {"IsNull"} : \E S : slots[slot] \in Seq(S)

IInv ==
    /\ field \in Shape /\ strict \in BOOLEAN
    /\ values \in Seq(Values)
    /\ IsFilter(filter)

Single == Slot \ Variadic

-----------------------------------------------------------------------------
(***************************************************************************)
(* The table.                                                              *)
(***************************************************************************)
LEMMA Slots ==
    Slot = {"EQ", "NEQ", "GT", "GTE", "LT", "LTE", "In", "NotIn",
            "Contains", "ContainsFold", "HasPrefix", "HasSuffix"}
BY DEF Slot, Compared, Variadic, Substring

LEMMA Prefixes ==
    /\ Prefix["EQ"] = "eq" /\ Prefix["NEQ"] = "ne" /\ Prefix["GT"] = "gt" /\ Prefix["GTE"] = "ge"
    /\ Prefix["LT"] = "lt" /\ Prefix["LTE"] = "le" /\ Prefix["In"] = "in"
    /\ Prefix["NotIn"] = "not_in" /\ Prefix["Contains"] = "like"
    /\ Prefix["ContainsFold"] = "ilike" /\ Prefix["HasPrefix"] = "prefix"
    /\ Prefix["HasSuffix"] = "suffix"
BY DEF Prefix

LEMMA Operated ==
    QueryOperators = {"eq", "ne", "gt", "ge", "lt", "le", "in", "not_in", "like", "ilike",
                      "prefix", "suffix", "is_null", "not_null", "from", "to", "between"}
BY Slots, Prefixes DEF QueryOperators

LEMMA NotAnOperator == "" \notin QueryOperators
BY Operated

SlotKind(s) == IF s \in Variadic THEN "list" ELSE "value"

\* A row of the table, by where it comes from.
LEMMA Table ==
    ASSUME NEW f, NEW row
    PROVE  row \in Operators(f) <=>
             \/ \E s \in Derived(f) : row = TableRow(Prefix[s], SlotKind(s), s, TRUE)
             \/ f.nullable /\ row = TableRow("is_null", "flag", "IsNull", TRUE)
             \/ f.nullable /\ row = TableRow("not_null", "flag", "IsNull", FALSE)
             \/ {"GTE", "LTE"} \subseteq Derived(f) /\ row = TableRow("from", "value", "GTE", TRUE)
             \/ {"GTE", "LTE"} \subseteq Derived(f) /\ row = TableRow("to", "value", "LTE", TRUE)
             \/ {"GTE", "LTE"} \subseteq Derived(f) /\ row = TableRow("between", "range", "GTE", TRUE)
<1>1. Operators(f) =
        {TableRow(Prefix[s], SlotKind(s), s, TRUE) : s \in Derived(f)}
          \cup (IF f.nullable THEN {TableRow("is_null", "flag", "IsNull", TRUE),
                                    TableRow("not_null", "flag", "IsNull", FALSE)} ELSE {})
          \cup (IF {"GTE", "LTE"} \subseteq Derived(f)
                  THEN {TableRow("from", "value", "GTE", TRUE), TableRow("to", "value", "LTE", TRUE),
                        TableRow("between", "range", "GTE", TRUE)} ELSE {})
  BY DEF Operators, SlotKind
<1> QED BY <1>1

LEMMA DerivedSlots == ASSUME NEW f \in Shape PROVE Derived(f) \subseteq Slot
BY FilteringAssumption DEF Derived, Shape

\* The rows a prefix names: one at most, of a kind that the prefix decides.
LEMMA RowsOfSlot ==
    ASSUME NEW f \in Shape, NEW s \in Slot, NEW row
    PROVE  row \in RowsNamed(f, Prefix[s]) <=>
             s \in Derived(f) /\ row = TableRow(Prefix[s], SlotKind(s), s, TRUE)
<1>1. \A r \in Slot : Prefix[r] = Prefix[s] => r = s
  BY Slots, Prefixes
<1>2. Prefix[s] \notin {"is_null", "not_null", "from", "to", "between"}
  BY Slots, Prefixes
<1>3. row \in RowsNamed(f, Prefix[s]) <=> row \in Operators(f) /\ row.prefix = Prefix[s]
  BY DEF RowsNamed
<1>4. ASSUME row \in Operators(f), row.prefix = Prefix[s]
      PROVE  s \in Derived(f) /\ row = TableRow(Prefix[s], SlotKind(s), s, TRUE)
  <2>1. PICK r \in Derived(f) : row = TableRow(Prefix[r], SlotKind(r), r, TRUE)
    BY <1>2, <1>4, Table DEF TableRow
  <2>2. Prefix[r] = Prefix[s] /\ r \in Slot
    BY <1>4, <2>1, DerivedSlots DEF TableRow
  <2> QED BY <1>1, <2>1, <2>2
<1>5. ASSUME s \in Derived(f), row = TableRow(Prefix[s], SlotKind(s), s, TRUE)
      PROVE  row \in Operators(f) /\ row.prefix = Prefix[s]
  BY <1>5, Table DEF TableRow
<1> QED BY <1>3, <1>4, <1>5

LEMMA RowsOfFlag ==
    ASSUME NEW f \in Shape, NEW row
    PROVE  /\ row \in RowsNamed(f, "is_null") <=>
                f.nullable /\ row = TableRow("is_null", "flag", "IsNull", TRUE)
           /\ row \in RowsNamed(f, "not_null") <=>
                f.nullable /\ row = TableRow("not_null", "flag", "IsNull", FALSE)
<1>1. \A s \in Derived(f) : Prefix[s] \notin {"is_null", "not_null"}
  BY Slots, Prefixes, DerivedSlots
<1>2. \A p : row \in RowsNamed(f, p) <=> row \in Operators(f) /\ row.prefix = p
  BY DEF RowsNamed
<1> QED BY <1>1, <1>2, Table DEF TableRow

LEMMA RowsOfRange ==
    ASSUME NEW f \in Shape, NEW row
    PROVE  /\ row \in RowsNamed(f, "from") <=>
                {"GTE", "LTE"} \subseteq Derived(f) /\ row = TableRow("from", "value", "GTE", TRUE)
           /\ row \in RowsNamed(f, "to") <=>
                {"GTE", "LTE"} \subseteq Derived(f) /\ row = TableRow("to", "value", "LTE", TRUE)
           /\ row \in RowsNamed(f, "between") <=>
                {"GTE", "LTE"} \subseteq Derived(f) /\ row = TableRow("between", "range", "GTE", TRUE)
<1>1. \A s \in Derived(f) : Prefix[s] \notin {"from", "to", "between"}
  BY Slots, Prefixes, DerivedSlots
<1>2. \A p : row \in RowsNamed(f, p) <=> row \in Operators(f) /\ row.prefix = p
  BY DEF RowsNamed
<1> QED BY <1>1, <1>2, Table DEF TableRow

\* Nothing else names a row.
LEMMA RowsOfNothing ==
    ASSUME NEW f \in Shape, NEW prefix, prefix \notin QueryOperators
    PROVE  RowsNamed(f, prefix) = {}
<1>1. \A s \in Derived(f) : Prefix[s] \in QueryOperators
  BY DerivedSlots DEF QueryOperators
<1>2. \A row \in Operators(f) : row.prefix \in QueryOperators
  BY <1>1, Table, Operated DEF TableRow
<1> QED BY <1>2 DEF RowsNamed

-----------------------------------------------------------------------------
(***************************************************************************)
(* The value and the slots.                                                *)
(***************************************************************************)
\* The value has no colon.
Bare(value) == value.op = ""

\* What a value of the URL is taken for.
LEMMA Resolved ==
    ASSUME NEW f, NEW value, NEW operand, operand = Resolve(f, value)
    PROVE  /\ IsOperator(value) =>
                operand.op = value.op /\ operand.literal = Operand(value)
                                      /\ operand.parts = value.parts
           /\ Bare(value) =>
                operand.op = "eq" /\ operand.literal = Operand(value)
                                  /\ operand.parts = value.parts
           /\ ~IsOperator(value) /\ ~Bare(value) /\ ~strict =>
                operand.op = "eq" /\ operand.literal = Operand(value)
           /\ ~IsOperator(value) /\ ~Bare(value) /\ strict => operand.op = value.op
<1>1. /\ Bare(value) => Split(value).op = "eq"
      /\ ~Bare(value) => Split(value).op = value.op
      /\ Split(value).literal = <<"">> \o value.parts /\ Split(value).parts = value.parts
  BY DEF Split, Bare
<1>2. Whole(value).op = "eq" /\ Whole(value).literal = <<value.op>> \o value.parts
  BY DEF Whole
<1>3. "eq" \in QueryOperators
  BY Operated
<1>4. CASE IsOperator(value)
  <2>1. operand = Split(value) /\ ~Bare(value)
    <3>1. ~Bare(value)
      BY <1>4, NotAnOperator DEF IsOperator, Bare
    <3> QED BY <1>1, <1>4, <3>1 DEF IsOperator, Resolve
  <2> QED BY <1>1, <1>4, <2>1 DEF Operand, Bare
<1>5. CASE Bare(value)
  <2>1. operand = Split(value) /\ ~IsOperator(value)
    <3>1. ~IsOperator(value)
      BY <1>5, NotAnOperator DEF IsOperator, Bare
    <3> QED BY <1>1, <1>3, <1>5, <3>1 DEF Resolve
  <2>2. Operand(value) = <<"">> \o value.parts
    BY <1>5 DEF Operand, Bare
  <2>3. operand.op = "eq"
    BY <1>1, <1>5, <2>1
  <2>4. operand.literal = <<"">> \o value.parts /\ operand.parts = value.parts
    BY <1>1, <2>1
  <2> QED BY <1>5, <2>1, <2>2, <2>3, <2>4
<1>6. CASE ~IsOperator(value) /\ ~Bare(value)
  <2>1. operand = IF strict THEN Split(value) ELSE Whole(value)
    BY <1>1, <1>6 DEF IsOperator, Resolve
  <2> QED BY <1>1, <1>2, <1>6, <2>1 DEF Operand, Bare
<1> QED BY <1>4, <1>5, <1>6

LEMMA ParamSlots == ASSUME NEW f \in Shape PROVE Params(f) \subseteq Slot \cup {"IsNull"}
BY DerivedSlots DEF Params

\* One more entry in a slot that Predicates reads narrows the selection by what
\* the slot asks.
LEMMA Narrows ==
    ASSUME NEW f \in Shape, NEW slots, IsFilter(slots), NEW slot \in Params(f), NEW x,
           NEW more, more = Added(slots, slot, x)
    PROVE  /\ IsFilter(more)
           /\ \A v : v \in Selected(f, more) <=> v \in Selected(f, slots) /\ Satisfies(slot, v, x)
<1>1. slot \in Slot \cup {"IsNull"}
  BY ParamSlots
<1>2. PICK S : slots[slot] \in Seq(S)
  BY <1>1 DEF IsFilter
<1> DEFINE q == slots[slot]
           r == Append(q, x)
<1>3. q \in Seq(S \cup {x})
  BY <1>2
<1>4. /\ r \in Seq(S \cup {x}) /\ DOMAIN r = DOMAIN q \cup {Len(q) + 1}
      /\ r[Len(q) + 1] = x /\ \A n \in DOMAIN q : r[n] = q[n]
  BY <1>3
<1>5. /\ DOMAIN slots = Slot \cup {"IsNull"}
      /\ more = [slots EXCEPT ![slot] = r]
  BY DEF IsFilter, Added
<1> HIDE DEF r, q
<1>6. /\ more = [s \in Slot \cup {"IsNull"} |-> more[s]]
      /\ more[slot] = r /\ \A s \in (Slot \cup {"IsNull"}) \ {slot} : more[s] = slots[s]
  BY <1>1, <1>5
<1>7. IsFilter(more)
  <2>1. ASSUME NEW s \in Slot \cup {"IsNull"} PROVE \E T : more[s] \in Seq(T)
    <3>1. CASE s = slot
      BY <1>4, <1>6, <3>1
    <3>2. CASE s # slot
      BY <1>6, <3>2 DEF IsFilter
    <3> QED BY <3>1, <3>2
  <2> QED BY <1>6, <2>1 DEF IsFilter
<1>8. ASSUME NEW v
      PROVE  (\A s \in Params(f) : \A n \in DOMAIN more[s] : Satisfies(s, v, more[s][n]))
               <=> /\ \A s \in Params(f) : \A n \in DOMAIN slots[s] : Satisfies(s, v, slots[s][n])
                   /\ Satisfies(slot, v, x)
  <2>1. (\A n \in DOMAIN more[slot] : Satisfies(slot, v, more[slot][n]))
          <=> (\A n \in DOMAIN slots[slot] : Satisfies(slot, v, slots[slot][n]))
                /\ Satisfies(slot, v, x)
    BY <1>4, <1>6 DEF q
  <2>2. \A s \in Params(f) : s # slot => more[s] = slots[s]
    BY <1>6, ParamSlots
  <2> QED BY <2>1, <2>2
<1> QED BY <1>7, <1>8 DEF Selected

\* What a row of kind "value" stores is what the value asks of a row of the
\* table: the slot is the one the value's operator names.
LEMMA ValueAsks ==
    ASSUME NEW value, ~Empty(value), NEW s \in Single,
           \/ value.op = Prefix[s]
           \/ s = "EQ" /\ value.op \notin QueryOperators
           \/ s = "GTE" /\ value.op = "from"
           \/ s = "LTE" /\ value.op = "to",
           NEW v
    PROVE  Satisfies(s, v, Operand(value)) <=> Asks(value, v)
<1> DEFINE x == Operand(value)
<1>1. s \in {"EQ", "NEQ", "GT", "GTE", "LT", "LTE", "Contains", "ContainsFold", "HasPrefix", "HasSuffix"}
  BY Slots DEF Single, Variadic
<1>2. CASE s = "EQ"
  <2>1. value.op = "eq" \/ value.op \notin QueryOperators
    BY <1>2, Prefixes
  <2> QED BY <1>2, <2>1, Operated DEF Satisfies, Asks, IsOperator
<1>3. CASE s = "NEQ"
  <2>1. value.op = "ne" BY <1>3, Prefixes
  <2> QED BY <1>3, <2>1, Operated DEF Satisfies, Asks, IsOperator
<1>4. CASE s = "GT"
  <2>1. value.op = "gt" BY <1>4, Prefixes
  <2> QED BY <1>4, <2>1, Operated DEF Satisfies, Asks, IsOperator
<1>5. CASE s = "GTE"
  <2>1. value.op \in {"ge", "from"} BY <1>5, Prefixes
  <2> QED BY <1>5, <2>1, Operated DEF Satisfies, Asks, IsOperator
<1>6. CASE s = "LT"
  <2>1. value.op = "lt" BY <1>6, Prefixes
  <2> QED BY <1>6, <2>1, Operated DEF Satisfies, Asks, IsOperator
<1>7. CASE s = "LTE"
  <2>1. value.op \in {"le", "to"} BY <1>7, Prefixes
  <2> QED BY <1>7, <2>1, Operated DEF Satisfies, Asks, IsOperator
<1>8. CASE s \in {"Contains", "ContainsFold"}
  <2>1. value.op \in {"like", "ilike"} BY <1>8, Prefixes
  <2> QED BY <1>8, <2>1, Operated DEF Satisfies, Asks, IsOperator
<1>9. CASE s = "HasPrefix"
  <2>1. value.op = "prefix" BY <1>9, Prefixes
  <2> QED BY <1>9, <2>1, Operated DEF Satisfies, Asks, IsOperator
<1>10. CASE s = "HasSuffix"
  <2>1. value.op = "suffix" BY <1>10, Prefixes
  <2> QED BY <1>10, <2>1, Operated DEF Satisfies, Asks, IsOperator
<1> QED BY <1>1, <1>2, <1>3, <1>4, <1>5, <1>6, <1>7, <1>8, <1>9, <1>10

Members(value) == {Part(value.parts[n]) : n \in DOMAIN value.parts}

LEMMA ListAsks ==
    ASSUME NEW value, ~Empty(value), NEW s \in Variadic, value.op = Prefix[s], NEW v
    PROVE  Satisfies(s, v, Members(value)) <=> Asks(value, v)
<1>1. Members(value) = {<<"", value.parts[n]>> : n \in DOMAIN value.parts}
  BY DEF Members, Part
<1>2. CASE s = "In"
  <2>1. value.op = "in" BY <1>2, Prefixes
  <2>2. Satisfies(s, v, Members(value)) <=> v # Null /\ v \in Members(value)
    BY <1>2 DEF Satisfies
  <2> QED BY <1>1, <2>1, <2>2, Operated DEF Asks, IsOperator
<1>3. CASE s = "NotIn"
  <2>1. value.op = "not_in" BY <1>3, Prefixes
  <2>2. Satisfies(s, v, Members(value)) <=> v # Null /\ v \notin Members(value)
    BY <1>3 DEF Satisfies
  <2> QED BY <1>1, <2>1, <2>2, Operated DEF Asks, IsOperator
<1> QED BY <1>2, <1>3 DEF Variadic

LEMMA FlagAsks ==
    ASSUME NEW value, NEW v
    PROVE  /\ value.op = "is_null" => (Satisfies("IsNull", v, TRUE) <=> Asks(value, v))
           /\ value.op = "not_null" => (Satisfies("IsNull", v, FALSE) <=> Asks(value, v))
BY Operated DEF Satisfies, Asks, IsOperator, Empty

LEMMA RangeAsks ==
    ASSUME NEW value, value.op = "between", Len(value.parts) = 2, NEW v
    PROVE  Satisfies("GTE", v, Part(value.parts[1])) /\ Satisfies("LTE", v, Part(value.parts[2]))
             <=> Asks(value, v)
BY Operated DEF Satisfies, Asks, IsOperator, Empty, Part

-----------------------------------------------------------------------------
(***************************************************************************)
(* A value that is stored.                                                 *)
(***************************************************************************)
\* Where the row of an operand comes from, and so what the value was.
LEMMA AcceptedRow ==
    ASSUME NEW f \in Shape, NEW value, NEW operand, operand = Resolve(f, value),
           NEW row \in RowsNamed(f, operand.op)
    PROVE  /\ operand.op \in QueryOperators
           /\ value.op = operand.op \/ (operand.op = "eq" /\ value.op \notin QueryOperators)
           /\ operand.literal = Operand(value)
           /\ value.op \in QueryOperators => operand.parts = value.parts
<1>1. operand.op \in QueryOperators
  BY RowsOfNothing
<1>2. Bare(value) => value.op \notin QueryOperators
  BY NotAnOperator DEF Bare
<1> QED BY <1>1, <1>2, Resolved DEF IsOperator

\* Whatever row takes a value, its slots then select what the value asks for.
LEMMA Honoured ==
    ASSUME NEW f \in Shape, NEW value, ~Empty(value),
           NEW operand, operand = Resolve(f, value),
           NEW row \in RowsNamed(f, operand.op), Accepts(f, row, operand),
           NEW slots, IsFilter(slots), NEW more, more = Stored(slots, row, operand)
    PROVE  /\ IsFilter(more)
           /\ \A v : v \in Selected(f, more) <=> v \in Selected(f, slots) /\ Asks(value, v)
<1>1. /\ operand.op \in QueryOperators
      /\ value.op = operand.op \/ (operand.op = "eq" /\ value.op \notin QueryOperators)
      /\ operand.literal = Operand(value)
      /\ value.op \in QueryOperators => operand.parts = value.parts
  BY AcceptedRow
<1>2. Derived(f) \subseteq Params(f)
  BY DEF Params
<1>3. ASSUME NEW s \in Single, s \in Params(f), row.kind = "value", row.slot = s,
             \/ value.op = Prefix[s]
             \/ s = "EQ" /\ value.op \notin QueryOperators
             \/ s = "GTE" /\ value.op = "from"
             \/ s = "LTE" /\ value.op = "to"
      PROVE  /\ IsFilter(more)
             /\ \A v : v \in Selected(f, more) <=> v \in Selected(f, slots) /\ Asks(value, v)
  <2>1. more = Added(slots, s, Operand(value))
    BY <1>1, <1>3 DEF Stored
  <2>2. \A v : Satisfies(s, v, Operand(value)) <=> Asks(value, v)
    BY <1>3, ValueAsks
  <2> QED BY <1>3, <2>1, <2>2, Narrows
<1>4. ASSUME NEW s \in Slot, operand.op = Prefix[s]
      PROVE  /\ IsFilter(more)
             /\ \A v : v \in Selected(f, more) <=> v \in Selected(f, slots) /\ Asks(value, v)
  <2>1. s \in Derived(f) /\ row = TableRow(Prefix[s], SlotKind(s), s, TRUE)
    BY <1>4, RowsOfSlot
  <2>2. row.kind = SlotKind(s) /\ row.slot = s
    BY <2>1 DEF TableRow
  <2>3. CASE s \in Variadic
    <3>1. value.op = Prefix[s] /\ value.op \in QueryOperators
      <4>1. operand.op # "eq"
        BY <1>4, <2>3, Prefixes DEF Variadic
      <4> QED BY <1>1, <1>4, <4>1
    <3>2. more = Added(slots, s, Members(value))
      BY <1>1, <2>2, <2>3, <3>1 DEF Stored, SlotKind, Members
    <3>3. \A v : Satisfies(s, v, Members(value)) <=> Asks(value, v)
      BY <2>3, <3>1, ListAsks
    <3> QED BY <1>2, <2>1, <3>2, <3>3, Narrows
  <2>4. CASE s \notin Variadic
    <3>1. s \in Single /\ s \in Params(f) /\ row.kind = "value"
      BY <1>2, <2>1, <2>2, <2>4 DEF Single, SlotKind
    <3>2. value.op = Prefix[s] \/ (s = "EQ" /\ value.op \notin QueryOperators)
      BY <1>1, <1>4, Slots, Prefixes
    <3> QED BY <1>3, <2>2, <3>1, <3>2
  <2> QED BY <2>3, <2>4
<1>5. CASE operand.op \in {"is_null", "not_null"}
  <2>1. value.op = operand.op
    BY <1>1, <1>5
  <2>2. f.nullable /\ row = TableRow(operand.op, "flag", "IsNull", operand.op = "is_null")
    BY <1>5, RowsOfFlag
  <2>3. "IsNull" \in Params(f)
    BY <2>2 DEF Params
  <2>4. more = Added(slots, "IsNull", operand.op = "is_null")
    BY <2>2 DEF Stored, TableRow
  <2>5. \A v : Satisfies("IsNull", v, operand.op = "is_null") <=> Asks(value, v)
    BY <1>5, <2>1, FlagAsks
  <2> QED BY <2>3, <2>4, <2>5, Narrows
<1>6. CASE operand.op \in {"from", "to"}
  <2>1. value.op = operand.op
    BY <1>1, <1>6
  <2>2. /\ {"GTE", "LTE"} \subseteq Derived(f)
        /\ row = TableRow(operand.op, "value", IF operand.op = "from" THEN "GTE" ELSE "LTE", TRUE)
    BY <1>6, RowsOfRange
  <2>3. row.kind = "value" /\ row.slot = IF operand.op = "from" THEN "GTE" ELSE "LTE"
    BY <2>2 DEF TableRow
  <2>4. {"GTE", "LTE"} \subseteq Single \cap Params(f)
    BY <1>2, <2>2, Slots DEF Single, Variadic
  <2> QED BY <1>3, <1>6, <2>1, <2>3, <2>4
<1>7. CASE operand.op = "between"
  <2>1. value.op = "between" /\ operand.parts = value.parts
    BY <1>1, <1>7
  <2>2. /\ {"GTE", "LTE"} \subseteq Derived(f)
        /\ row = TableRow("between", "range", "GTE", TRUE)
    BY <1>7, RowsOfRange
  <2>3. row.kind = "range"
    BY <2>2 DEF TableRow
  <2>4. Len(value.parts) = 2
    BY <2>1, <2>3 DEF Accepts
  <2> DEFINE half == Added(slots, "GTE", Part(value.parts[1]))
  <2>5. more = Added(half, "LTE", Part(value.parts[2]))
    BY <2>1, <2>3 DEF Stored
  <2>6. {"GTE", "LTE"} \subseteq Params(f)
    BY <1>2, <2>2
  <2>7. /\ IsFilter(half)
        /\ \A v : v \in Selected(f, half) <=>
              v \in Selected(f, slots) /\ Satisfies("GTE", v, Part(value.parts[1]))
    BY <2>6, Narrows
  <2> HIDE DEF half
  <2>8. /\ IsFilter(more)
        /\ \A v : v \in Selected(f, more) <=>
              v \in Selected(f, half) /\ Satisfies("LTE", v, Part(value.parts[2]))
    BY <2>5, <2>6, <2>7, Narrows
  <2> QED BY <2>1, <2>4, <2>7, <2>8, RangeAsks
<1>8. \/ \E s \in Slot : operand.op = Prefix[s]
      \/ operand.op \in {"is_null", "not_null", "from", "to", "between"}
  BY <1>1 DEF QueryOperators
<1> QED BY <1>4, <1>5, <1>6, <1>7, <1>8

-----------------------------------------------------------------------------
(***************************************************************************)
(* A value that is refused.                                                *)
(***************************************************************************)
\* The operators of one family come together.
LEMMA Families ==
    ASSUME NEW f \in Shape
    PROVE  /\ "EQ" \in Derived(f) <=> "EQ" \in EntOps[f.kind]
           /\ "NEQ" \in Derived(f) <=> "EQ" \in EntOps[f.kind]
           /\ \A s \in {"GT", "GTE", "LT", "LTE"} : s \in Derived(f) <=> "GTE" \in EntOps[f.kind]
           /\ \A s \in Variadic : s \in Derived(f) <=> "In" \in EntOps[f.kind]
           /\ \A s \in Substring :
                 s \in Derived(f) <=> f.searchable /\ "Contains" \in EntOps[f.kind]
<1>1. f.kind \in Kind
  BY DEF Shape
<1>2. \A s \in {"EQ", "NEQ", "GT", "GTE", "LT", "LTE", "In", "NotIn"} :
         s \in Derived(f) <=> s \in EntOps[f.kind]
  BY DEF Derived, Substring
<1>3. \A s \in Substring : s \in Derived(f) <=> f.searchable /\ s \in EntOps[f.kind]
  BY DEF Derived
<1>4. ASSUME NEW family \in {{"EQ", "NEQ"}, {"GT", "GTE", "LT", "LTE"}, Variadic, Substring},
             NEW s \in family, NEW r \in family
      PROVE  s \in EntOps[f.kind] <=> r \in EntOps[f.kind]
  BY <1>1, <1>4, FilteringAssumption
<1>5. "NEQ" \in EntOps[f.kind] <=> "EQ" \in EntOps[f.kind]
  BY <1>4
<1>6. \A s \in {"GT", "GTE", "LT", "LTE"} : s \in EntOps[f.kind] <=> "GTE" \in EntOps[f.kind]
  BY <1>4
<1>7. \A s \in Variadic : s \in EntOps[f.kind] <=> "In" \in EntOps[f.kind]
  BY <1>4 DEF Variadic
<1>8. \A s \in Substring : s \in EntOps[f.kind] <=> "Contains" \in EntOps[f.kind]
  BY <1>4 DEF Substring
<1> QED BY <1>2, <1>3, <1>5, <1>6, <1>7, <1>8 DEF Variadic

Taken(f, operand) == \E row \in RowsNamed(f, operand.op) : Accepts(f, row, operand)

\* When the table takes an operand, by its prefix.
LEMMA TakenSingle ==
    ASSUME NEW f \in Shape, NEW s \in Single, NEW operand, operand.op = Prefix[s]
    PROVE  Taken(f, operand) <=> s \in Derived(f) /\ operand.literal \in Converts[f.kind]
<1> DEFINE row == TableRow(Prefix[s], "value", s, TRUE)
<1>1. row.kind = "value" /\ SlotKind(s) = "value"
  BY DEF TableRow, SlotKind, Single
<1>2. Accepts(f, row, operand) <=> operand.literal \in Converts[f.kind]
  BY <1>1 DEF Accepts
<1>3. \A r : r \in RowsNamed(f, operand.op) <=> s \in Derived(f) /\ r = row
  BY <1>1, RowsOfSlot DEF Single
<1> QED BY <1>2, <1>3 DEF Taken

LEMMA TakenList ==
    ASSUME NEW f \in Shape, NEW s \in Variadic, NEW operand, operand.op = Prefix[s]
    PROVE  Taken(f, operand) <=>
             /\ s \in Derived(f)
             /\ \A n \in DOMAIN operand.parts : Part(operand.parts[n]) \in Converts[f.kind]
<1> DEFINE row == TableRow(Prefix[s], "list", s, TRUE)
<1>1. row.kind = "list" /\ SlotKind(s) = "list" /\ s \in Slot
  BY DEF TableRow, SlotKind, Slot
<1>2. Accepts(f, row, operand) <=>
        \A n \in DOMAIN operand.parts : Part(operand.parts[n]) \in Converts[f.kind]
  BY <1>1 DEF Accepts
<1>3. \A r : r \in RowsNamed(f, operand.op) <=> s \in Derived(f) /\ r = row
  BY <1>1, RowsOfSlot
<1> QED BY <1>2, <1>3 DEF Taken

\* What follows the colon of is_null and not_null.
Nothing == <<"">>

LEMMA TakenFlag ==
    ASSUME NEW f \in Shape, NEW operand, operand.op \in {"is_null", "not_null"}
    PROVE  Taken(f, operand) <=> f.nullable /\ operand.parts = Nothing
<1> DEFINE row == TableRow(operand.op, "flag", "IsNull", operand.op = "is_null")
<1>1. row.kind = "flag"
  BY DEF TableRow
<1>2. Accepts(f, row, operand) <=> operand.parts = Nothing
  BY <1>1 DEF Accepts, Nothing
<1>3. \A r : r \in RowsNamed(f, operand.op) <=> f.nullable /\ r = row
  BY RowsOfFlag, ZenonT(60)
<1> QED BY <1>2, <1>3 DEF Taken

LEMMA TakenBound ==
    ASSUME NEW f \in Shape, NEW operand, operand.op \in {"from", "to"}
    PROVE  Taken(f, operand) <=>
             {"GTE", "LTE"} \subseteq Derived(f) /\ operand.literal \in Converts[f.kind]
<1> DEFINE row == TableRow(operand.op, "value", IF operand.op = "from" THEN "GTE" ELSE "LTE", TRUE)
<1>1. row.kind = "value"
  BY DEF TableRow
<1>2. Accepts(f, row, operand) <=> operand.literal \in Converts[f.kind]
  BY <1>1 DEF Accepts
<1>3. \A r : r \in RowsNamed(f, operand.op) <=> {"GTE", "LTE"} \subseteq Derived(f) /\ r = row
  BY RowsOfRange
<1> QED BY <1>2, <1>3 DEF Taken

LEMMA TakenRange ==
    ASSUME NEW f \in Shape, NEW operand, operand.op = "between"
    PROVE  Taken(f, operand) <=>
             /\ {"GTE", "LTE"} \subseteq Derived(f) /\ Len(operand.parts) = 2
             /\ \A n \in 1..2 : Part(operand.parts[n]) \in Converts[f.kind]
<1> DEFINE row == TableRow("between", "range", "GTE", TRUE)
<1>1. row.kind = "range"
  BY DEF TableRow
<1>2. Accepts(f, row, operand) <=>
        Len(operand.parts) = 2 /\ \A n \in 1..2 : Part(operand.parts[n]) \in Converts[f.kind]
  BY <1>1 DEF Accepts
<1>3. \A r : r \in RowsNamed(f, operand.op) <=> {"GTE", "LTE"} \subseteq Derived(f) /\ r = row
  BY RowsOfRange
<1> QED BY <1>2, <1>3 DEF Taken

\* The rules of GUIDE.md and the table agree on every operator.
LEMMA AllowedIsTaken ==
    ASSUME NEW f \in Shape, NEW value, IsOperator(value), NEW operand,
           operand.op = value.op, operand.literal = Operand(value), operand.parts = value.parts
    PROVE  Allowed(f, value) <=> Taken(f, operand)
<1>1. CASE value.op \in TextOps
  <2>1. PICK s \in Substring : value.op = Prefix[s]
    BY <1>1, Prefixes DEF TextOps, Substring
  <2>2. s \in Single
    BY DEF Single, Slot, Substring, Variadic
  <2>3. Allowed(f, value) <=> /\ f.searchable /\ "Contains" \in EntOps[f.kind]
                              /\ Operand(value) \in Converts[f.kind]
    BY <1>1 DEF Allowed, TextOps
  <2> QED BY <2>1, <2>2, <2>3, Families, TakenSingle
<1>2. CASE value.op \in {"is_null", "not_null"}
  <2>1. Allowed(f, value) <=> f.nullable /\ value.parts = Nothing
    BY <1>2 DEF Allowed, TextOps, Nothing
  <2>2. operand.op \in {"is_null", "not_null"}
    BY <1>2
  <2>3. Taken(f, operand) <=> f.nullable /\ operand.parts = Nothing
    BY <2>2, TakenFlag
  <2> QED BY <2>1, <2>3
<1>3. CASE value.op \in {"in", "not_in"}
  <2>1. PICK s \in Variadic : value.op = Prefix[s]
    BY <1>3, Prefixes DEF Variadic
  <2>2. Allowed(f, value) <=>
          /\ "In" \in EntOps[f.kind]
          /\ \A n \in DOMAIN value.parts : Part(value.parts[n]) \in Converts[f.kind]
    BY <1>3 DEF Allowed, TextOps, Part
  <2> QED BY <2>1, <2>2, Families, TakenList
<1>4. CASE value.op = "between"
  <2>1. Allowed(f, value) <=>
          /\ "GTE" \in EntOps[f.kind] /\ Len(value.parts) = 2
          /\ \A n \in 1..2 : Part(value.parts[n]) \in Converts[f.kind]
    BY <1>4 DEF Allowed, TextOps, Part
  <2>2. {"GTE", "LTE"} \subseteq Derived(f) <=> "GTE" \in EntOps[f.kind]
    BY Families
  <2> QED BY <1>4, <2>1, <2>2, TakenRange
<1>5. CASE value.op \in {"eq", "ne"}
  <2>1. PICK s \in {"EQ", "NEQ"} : value.op = Prefix[s]
    BY <1>5, Prefixes
  <2>2. s \in Single
    BY DEF Single, Slot, Compared, Variadic
  <2>3. Allowed(f, value) <=> "EQ" \in EntOps[f.kind] /\ Operand(value) \in Converts[f.kind]
    BY <1>5 DEF Allowed, TextOps
  <2> QED BY <2>1, <2>2, <2>3, Families, TakenSingle
<1>6. ASSUME value.op \in {"gt", "ge", "lt", "le", "from", "to"}
      PROVE  Allowed(f, value) <=> "GTE" \in EntOps[f.kind] /\ Operand(value) \in Converts[f.kind]
  BY <1>6 DEF Allowed, TextOps
<1>7. CASE value.op \in {"gt", "ge", "lt", "le"}
  <2>1. PICK s \in {"GT", "GTE", "LT", "LTE"} : value.op = Prefix[s]
    BY <1>7, Prefixes
  <2>2. s \in Single
    BY DEF Single, Slot, Compared, Variadic
  <2> QED BY <1>6, <1>7, <2>1, <2>2, Families, TakenSingle
<1>8. CASE value.op \in {"from", "to"}
  <2>1. {"GTE", "LTE"} \subseteq Derived(f) <=> "GTE" \in EntOps[f.kind]
    BY Families
  <2> QED BY <1>6, <1>8, <2>1, TakenBound
<1> QED BY <1>1, <1>2, <1>3, <1>4, <1>5, <1>7, <1>8, Operated DEF IsOperator, TextOps

LEMMA LegalIsTaken ==
    ASSUME NEW f \in Shape, NEW value, ~Empty(value)
    PROVE  Legal(f, value) <=> Taken(f, Resolve(f, value))
<1> DEFINE operand == Resolve(f, value)
<1>1. /\ IsOperator(value) => operand.op = value.op /\ operand.literal = Operand(value)
                                                  /\ operand.parts = value.parts
      /\ Bare(value) => operand.op = "eq" /\ operand.literal = Operand(value)
      /\ ~IsOperator(value) /\ ~Bare(value) /\ ~strict =>
            operand.op = "eq" /\ operand.literal = Operand(value)
      /\ ~IsOperator(value) /\ ~Bare(value) /\ strict => operand.op = value.op
  BY Resolved
<1>2. Bare(value) => ~IsOperator(value)
  BY NotAnOperator DEF Bare, IsOperator
<1>3. Legal(f, value) <=>
        \/ /\ ~IsOperator(value) /\ (Bare(value) \/ ~strict)
           /\ "EQ" \in EntOps[f.kind] /\ Operand(value) \in Converts[f.kind]
        \/ IsOperator(value) /\ Allowed(f, value)
  BY DEF Legal, Bare
<1> HIDE DEF operand
<1>4. CASE IsOperator(value)
  <2>1. Allowed(f, value) <=> Taken(f, operand)
    BY <1>1, <1>4, AllowedIsTaken
  <2> QED BY <1>3, <1>4, <2>1 DEF operand
<1>5. CASE ~IsOperator(value) /\ (Bare(value) \/ ~strict)
  <2>1. "EQ" \in Single /\ operand.op = Prefix["EQ"] /\ operand.literal = Operand(value)
    BY <1>1, <1>5, Prefixes, Slots DEF Single, Variadic
  <2>2. Taken(f, operand) <=> "EQ" \in Derived(f) /\ Operand(value) \in Converts[f.kind]
    BY <2>1, TakenSingle
  <2> QED BY <1>3, <1>5, <2>2, Families DEF operand
<1>6. CASE ~IsOperator(value) /\ ~Bare(value) /\ strict
  <2>1. RowsNamed(f, operand.op) = {}
    BY <1>1, <1>6, RowsOfNothing DEF IsOperator
  <2> QED BY <1>3, <1>6, <2>1 DEF Taken, operand
<1> QED BY <1>4, <1>5, <1>6

-----------------------------------------------------------------------------
(***************************************************************************)
(* The parser.                                                             *)
(***************************************************************************)
LEMMA InitHolds == Init => IInv
<1> SUFFICES ASSUME Init PROVE IInv
  OBVIOUS
<1>1. field \in Shape /\ strict \in BOOLEAN
  BY FilteringAssumption DEF Init
<1>2. values \in Seq(Values)
  BY DEF Init
<1>3. IsFilter(filter)
  <2>1. filter = [slot \in Slot \cup {"IsNull"} |-> <<>>]
    BY DEF Init, NoFilter
  <2>2. \A slot \in Slot \cup {"IsNull"} : filter[slot] \in Seq({})
    BY <2>1
  <2> QED BY <2>1, <2>2 DEF IsFilter
<1> QED BY <1>1, <1>2, <1>3 DEF IInv

\* A step that moves past a value.
LEMMA ParseStep ==
    ASSUME IInv, ParseValue, values' # values
    PROVE  /\ values # <<>> /\ field.filterable /\ values' = Tail(values)
           /\ UNCHANGED <<field, strict, term, outcome>>
           /\ \/ Empty(Head(values)) /\ filter' = filter
              \/ /\ ~Empty(Head(values))
                 /\ \E row \in RowsNamed(field, Resolve(field, Head(values)).op) :
                       /\ Accepts(field, row, Resolve(field, Head(values)))
                       /\ filter' = Stored(filter, row, Resolve(field, Head(values)))
BY DEF ParseValue, RefuseQuery

LEMMA NextKeeps == IInv /\ [Next]_vars => IInv'
<1> SUFFICES ASSUME IInv, [Next]_vars PROVE IInv'
  OBVIOUS
<1>1. CASE UNCHANGED <<field, strict, values, filter>>
  BY <1>1 DEF IInv, IsFilter
<1>2. CASE ParseValue /\ values' # values
  <2>1. /\ values # <<>> /\ values' = Tail(values) /\ UNCHANGED <<field, strict>>
    BY <1>2, ParseStep
  <2>2. values' \in Seq(Values)
    BY <2>1 DEF IInv
  <2>3. IsFilter(filter')
    <3>1. CASE Empty(Head(values))
      BY <1>2, <3>1, ParseStep DEF IInv
    <3>2. CASE ~Empty(Head(values))
      <4>1. PICK row \in RowsNamed(field, Resolve(field, Head(values)).op) :
              /\ Accepts(field, row, Resolve(field, Head(values)))
              /\ filter' = Stored(filter, row, Resolve(field, Head(values)))
        BY <1>2, <3>2, ParseStep
      <4> QED BY <3>2, <4>1, Honoured DEF IInv
    <3> QED BY <3>1, <3>2
  <2> QED BY <2>1, <2>2, <2>3 DEF IInv, IsFilter
<1>3. Next => \/ UNCHANGED <<field, strict, values, filter>>
              \/ ParseValue /\ values' # values
  <2>1. ParseValue => \/ UNCHANGED <<field, strict, values, filter>>
                      \/ values' # values
    <3>1. values # <<>> => Tail(values) # values
      BY DEF IInv
    <3> QED BY <3>1 DEF ParseValue, RefuseQuery
  <2> QED BY <2>1 DEF Next, Unfilterable, Parsed, RefuseQuery
<1> QED BY <1>1, <1>2, <1>3 DEF vars

\* Every value of the URL narrows the selection by exactly what it asks
\* (ParseFieldValues and Predicates), for every field and every table of rows.
THEOREM ValuesHonoured == Spec => EachValueIsHonoured
<1>1. IInv /\ [Next]_vars =>
        [values' # values =>
           Selected(field, filter') = {v \in Selected(field, filter) : Asks(Head(values), v)}]_vars
  <2> SUFFICES ASSUME IInv, Next, values' # values
               PROVE  Selected(field, filter') =
                        {v \in Selected(field, filter) : Asks(Head(values), v)}
    BY DEF vars
  <2>1. ParseValue
    BY DEF Next, Unfilterable, Parsed, RefuseQuery
  <2>2. CASE Empty(Head(values))
    BY <2>1, <2>2, ParseStep DEF Asks
  <2>3. CASE ~Empty(Head(values))
    <3>1. PICK row \in RowsNamed(field, Resolve(field, Head(values)).op) :
            /\ Accepts(field, row, Resolve(field, Head(values)))
            /\ filter' = Stored(filter, row, Resolve(field, Head(values)))
      BY <2>1, <2>3, ParseStep
    <3>2. \A v : v \in Selected(field, filter') <=>
                   v \in Selected(field, filter) /\ Asks(Head(values), v)
      BY <2>3, <3>1, Honoured DEF IInv
    <3> QED BY <3>2
  <2> QED BY <2>2, <2>3
<1> QED BY <1>1, InitHolds, NextKeeps, PTL DEF Spec, EachValueIsHonoured

\* A query is refused where GUIDE.md's rules refuse one of its values and
\* nowhere else (ParseFieldValues' table against the guide's list).
THEOREM RefusalsByTheRules == Spec => RefusedByTheRules
<1>1. ASSUME IInv, Next, outcome' = "refused", field.filterable, values # <<>>,
             term # Null => field.searchable
      PROVE  ~Legal(field, Head(values))
  <2>1. ParseValue
    BY <1>1 DEF Next, Unfilterable, Parsed
  <2>2. outcome = "parsing"
    BY <2>1 DEF ParseValue
  <2>3. /\ ~Empty(Head(values))
        /\ \A row \in RowsNamed(field, Resolve(field, Head(values)).op) :
              ~Accepts(field, row, Resolve(field, Head(values)))
    BY <1>1, <2>1, <2>2 DEF ParseValue
  <2>4. ~Taken(field, Resolve(field, Head(values)))
    BY <2>3 DEF Taken
  <2> QED BY <1>1, <2>3, <2>4, LegalIsTaken DEF IInv
<1>2. ASSUME IInv, Next, values' # values
      PROVE  Legal(field, Head(values)) /\ field.filterable
  <2>1. ParseValue
    BY <1>2 DEF Next, Unfilterable, Parsed, RefuseQuery
  <2>2. field.filterable
    BY <1>2, <2>1, ParseStep
  <2>3. CASE Empty(Head(values))
    BY <2>2, <2>3 DEF Legal
  <2>4. CASE ~Empty(Head(values))
    <3>1. Taken(field, Resolve(field, Head(values)))
      BY <1>2, <2>1, <2>4, ParseStep DEF Taken
    <3> QED BY <1>2, <2>2, <2>4, <3>1, LegalIsTaken DEF IInv
  <2> QED BY <2>3, <2>4
<1>3. IInv /\ [Next]_vars =>
        [/\ outcome' = "refused" /\ field.filterable /\ values # <<>> /\ (term # Null => field.searchable)
              => ~Legal(field, Head(values))
         /\ values' # values => Legal(field, Head(values)) /\ field.filterable]_vars
  BY <1>1, <1>2
<1> QED BY <1>3, InitHolds, NextKeeps, PTL DEF Spec, RefusedByTheRules
=============================================================================
