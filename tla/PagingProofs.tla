---------------------------- MODULE PagingProofs ----------------------------
(***************************************************************************)
(* What Limit and Offset return, for an int of any width and every bound;  *)
(* that an order with the id in it gives each row of a table one place;    *)
(* and from these that every page of a walk is the rows of its number.     *)
(***************************************************************************)
EXTENDS Paging, FunctionTheorems, FiniteSetTheorems, SequenceTheorems, WellFoundedInduction, TLAPS

(***************************************************************************)
(* Integer arithmetic.                                                     *)
(***************************************************************************)
LEMMA Division ==
    ASSUME NEW a \in Int, NEW m \in Int, m > 0
    PROVE  /\ a \div m \in Int /\ a % m \in 0..(m - 1)
           /\ a = m * (a \div m) + (a % m)
  OBVIOUS

LEMMA OneRemainder ==
    ASSUME NEW m \in Int, m > 0, NEW j \in Int, NEW k \in Int,
           NEW r \in 0..(m - 1), NEW s \in 0..(m - 1), m * j + r = m * k + s
    PROVE  j = k /\ r = s
  OBVIOUS

\* What fits an int is left alone.
LEMMA WrapFits ==
    ASSUME NEW n \in GoInt
    PROVE  Wrap(n) = n
<1> DEFINE m == 2 * (MaxInt + 1)
           a == n + MaxInt + 1
<1>1. m \in Int /\ m > 0 /\ a \in 0..(m - 1)
  BY PageWindowAssumption DEF GoInt
<1>2. a \div m \in Int /\ a % m \in 0..(m - 1) /\ a = m * (a \div m) + (a % m)
  <2> HIDE DEF m
  <2> QED  BY <1>1, Division
<1>3. a % m = a
  <2>1. m * (a \div m) + (a % m) = m * 0 + a
    BY <1>1, <1>2
  <2> HIDE DEF m, a
  <2> QED  BY <1>1, <1>2, <2>1, OneRemainder
<1> QED  BY <1>1, <1>3, PageWindowAssumption DEF Wrap, GoInt

\* What does not fit comes out as some int.
LEMMA WrapIsGoInt ==
    ASSUME NEW n \in Int
    PROVE  Wrap(n) \in GoInt
<1> DEFINE m == 2 * (MaxInt + 1)
           a == n + MaxInt + 1
<1>1. m \in Int /\ m > 0 /\ a \in Int
  BY PageWindowAssumption
<1>2. a % m \in 0..(m - 1)
  <2> HIDE DEF m, a
  <2> QED  BY <1>1, Division
<1>3. Wrap(n) = (a % m) - MaxInt - 1
  BY DEF Wrap
<1> QED  BY <1>1, <1>2, <1>3, PageWindowAssumption DEF GoInt

(***************************************************************************)
(* The window.                                                             *)
(***************************************************************************)
\* Limit is a usable page size whatever was asked for: never zero, never above
\* the bound, and the size asked for whenever that is within it.
THEOREM LimitIsUsable ==
    ASSUME NEW size \in GoInt
    PROVE  /\ Limit(size) \in 1..MaxPageSize
           /\ size \in 1..MaxPageSize => Limit(size) = size
  BY PageWindowAssumption DEF Limit, GoInt

\* The product is exact or it is found out: Offset is the number of rows before
\* the page, and MaxInt where that number does not fit an int.  A wrapped product
\* that divides back to page - 1 is at least the true one, which is above MaxInt,
\* and no int is.
THEOREM OffsetIsExact ==
    ASSUME NEW page \in GoInt, NEW size \in GoInt,
           NEW exact \in Int, exact = IF page <= 1 THEN 0 ELSE (page - 1) * Limit(size)
    PROVE  Offset(page, size) = IF exact <= MaxInt THEN exact ELSE MaxInt
<1> DEFINE l == Limit(size)
           p == page - 1
           off == Wrap(exact)
<1>1. l \in Int /\ l >= 1
  BY LimitIsUsable, PageWindowAssumption
<1>2. CASE page <= 1
  BY <1>2, PageWindowAssumption DEF Offset
<1>3. CASE page > 1
  <2>1. p \in Int /\ p >= 1 /\ exact = p * l
    BY <1>3 DEF GoInt
  <2>2. exact >= p
    <3> HIDE DEF p, l
    <3> QED  BY <1>1, <2>1
  <2>3. Offset(page, size) = IF Quotient(off, l) # p THEN MaxInt ELSE off
    BY <1>3, <2>1 DEF Offset, GoInt
  <2>4. off \in GoInt
    BY WrapIsGoInt
  <2>5. CASE exact <= MaxInt
    <3>1. off = exact
      BY <2>1, <2>2, <2>5, WrapFits, PageWindowAssumption DEF GoInt
    <3>2. off >= 0 /\ off = l * p + 0
      <4> HIDE DEF p, l, off
      <4> QED  BY <1>1, <2>1, <2>2, <3>1
    <3>3. off \div l \in Int /\ off % l \in 0..(l - 1) /\ off = l * (off \div l) + (off % l)
      <4> HIDE DEF l, off
      <4> QED  BY <1>1, <2>4, Division DEF GoInt
    <3>4. off \div l = p
      <4> HIDE DEF p, l, off
      <4> QED  BY <1>1, <2>1, <3>2, <3>3, OneRemainder
    <3> QED  BY <2>3, <2>5, <3>1, <3>2, <3>4 DEF Quotient
  <2>6. CASE exact > MaxInt
    <3>1. SUFFICES ASSUME Quotient(off, l) = p PROVE FALSE
      BY <2>3, <2>6, PageWindowAssumption
    <3>2. off >= 0
      <4> SUFFICES ASSUME off < 0 PROVE FALSE
        BY <2>4 DEF GoInt
      <4>1. off < 0
        OBVIOUS
      <4>2. (-off) \div l \in Int /\ (-off) % l \in 0..(l - 1)
              /\ (-off) = l * ((-off) \div l) + ((-off) % l)
        <5> HIDE DEF l, off
        <5> QED  BY <1>1, <2>4, Division DEF GoInt
      <4>3. (-off) \div l = -p
        <5>1. off \in Int /\ ~(off >= 0)
          BY <2>4, <4>1 DEF GoInt
        <5> HIDE DEF p, l, off
        <5>2. Quotient(off, l) = -((-off) \div l)
          BY <5>1 DEF Quotient
        <5> QED  BY <2>1, <3>1, <4>2, <5>2
      <4> HIDE DEF p, l, off
      <4>4. l * ((-off) \div l) = -(l * p)
        BY <1>1, <2>1, <4>3
      <4>5. l * p >= l
        BY <1>1, <2>1
      <4> QED  BY <1>1, <2>1, <2>4, <4>1, <4>2, <4>4, <4>5 DEF GoInt
    <3>3. off \div l = p
      BY <3>1, <3>2 DEF Quotient
    <3>4. off >= exact
      <4>1. off % l \in 0..(l - 1) /\ off = l * (off \div l) + (off % l)
        <5> HIDE DEF l, off
        <5> QED  BY <1>1, <2>4, Division DEF GoInt
      <4> HIDE DEF p, l, off
      <4>2. off = l * p + (off % l)
        BY <3>3, <4>1
      <4>3. l * p = exact
        BY <1>1, <2>1
      <4> QED  BY <1>1, <4>1, <4>2, <4>3
    <3> QED  BY <2>4, <2>6, <3>4, PageWindowAssumption DEF GoInt
  <2> QED  BY <2>5, <2>6, PageWindowAssumption
<1> QED  BY <1>2, <1>3 DEF GoInt

-----------------------------------------------------------------------------
\* An order of a request: terms over the columns that may be asked for, and the
\* id among them.
Row == 1..MaxRows
Term == [key : SortKey \cup {"id"}, desc : BOOLEAN]
Ordered(order) == order \in Seq(Term) /\ \E n \in DOMAIN order : order[n].key = "id"

(***************************************************************************)
(* The order.                                                              *)
(***************************************************************************)
\* What a column holds is compared by <.
LEMMA Cells ==
    ASSUME NEW r \in Row, NEW t \in Term
    PROVE  At(r, t.key) \in Int
<1>1. CASE t.key = "id"
  BY <1>1, PagingAssumption DEF At, Row
<1>2. CASE t.key # "id"
  <2>1. t.key \in SortKey
    BY <1>2 DEF Term
  <2> QED  BY <1>2, <2>1, PagingAssumption DEF At, Row
<1> QED  BY <1>1, <1>2

\* One term puts r before s.
Precedes(t, r, s) == IF t.desc THEN At(r, t.key) > At(s, t.key) ELSE At(r, t.key) < At(s, t.key)
Ties(t, r, s) == At(r, t.key) = At(s, t.key)

\* Rows that tie on a term may change places in it, and those it tells apart are
\* strictly ordered.
LEMMA TermOrders ==
    ASSUME NEW t \in Term, NEW r \in Row, NEW s \in Row, NEW u \in Row
    PROVE  /\ Ties(t, r, r) /\ ~Precedes(t, r, r) /\ (Ties(t, r, s) <=> Ties(t, s, r))
           /\ Ties(t, r, s) => ~Precedes(t, r, s)
           /\ ~Ties(t, r, s) => Precedes(t, r, s) \/ Precedes(t, s, r)
           /\ Ties(t, r, s) /\ Ties(t, s, u) => Ties(t, r, u)
           /\ Ties(t, r, s) /\ Precedes(t, s, u) => Precedes(t, r, u)
           /\ Precedes(t, r, s) /\ Ties(t, s, u) => Precedes(t, r, u)
           /\ Precedes(t, r, s) /\ Precedes(t, s, u) => Precedes(t, r, u)
<1>1. At(r, t.key) \in Int /\ At(s, t.key) \in Int /\ At(u, t.key) \in Int
  BY Cells
<1> QED  BY <1>1 DEF Precedes, Ties

\* The first term on which two rows differ decides.
LEMMA BeforeAtTerm ==
    ASSUME NEW order \in Seq(Term), NEW r, NEW s
    PROVE  Before(order, r, s) <=>
             \E n \in 1..Len(order) : /\ \A m \in 1..(n - 1) : Ties(order[m], r, s)
                                      /\ Precedes(order[n], r, s)
  BY DEF Before, Precedes, Ties

LEMMA BeforeIrreflexive ==
    ASSUME NEW order \in Seq(Term), NEW r \in Row
    PROVE  ~Before(order, r, r)
<1>1. \A n \in 1..Len(order) : order[n] \in Term
  OBVIOUS
<1> QED  BY <1>1, BeforeAtTerm, TermOrders

LEMMA BeforeTransitive ==
    ASSUME NEW order \in Seq(Term), NEW r \in Row, NEW s \in Row, NEW u \in Row,
           Before(order, r, s), Before(order, s, u)
    PROVE  Before(order, r, u)
<1>1. \A n \in 1..Len(order) : order[n] \in Term
  OBVIOUS
<1>2. PICK i \in 1..Len(order) : /\ \A m \in 1..(i - 1) : Ties(order[m], r, s)
                                 /\ Precedes(order[i], r, s)
  BY BeforeAtTerm
<1>3. PICK j \in 1..Len(order) : /\ \A m \in 1..(j - 1) : Ties(order[m], s, u)
                                 /\ Precedes(order[j], s, u)
  BY BeforeAtTerm
<1>4. CASE i < j
  <2>1. \A m \in 1..(i - 1) : Ties(order[m], r, u)
    <3> SUFFICES ASSUME NEW m \in 1..(i - 1) PROVE Ties(order[m], r, u)
      OBVIOUS
    <3>1. m \in 1..Len(order) /\ m \in 1..(j - 1)
      BY <1>4
    <3>2. order[m] \in Term /\ Ties(order[m], r, s) /\ Ties(order[m], s, u)
      BY <1>1, <1>2, <1>3, <3>1
    <3> QED  BY <3>2, TermOrders
  <2>2. order[i] \in Term /\ Ties(order[i], s, u)
    BY <1>1, <1>3, <1>4
  <2>3. Precedes(order[i], r, u)
    BY <1>2, <2>2, TermOrders
  <2> QED  BY <2>1, <2>3, BeforeAtTerm
<1>5. CASE ~(i < j)
  <2>1. \A m \in 1..(j - 1) : Ties(order[m], r, u)
    <3> SUFFICES ASSUME NEW m \in 1..(j - 1) PROVE Ties(order[m], r, u)
      OBVIOUS
    <3>1. m \in 1..Len(order) /\ m \in 1..(i - 1)
      BY <1>5
    <3>2. order[m] \in Term /\ Ties(order[m], r, s) /\ Ties(order[m], s, u)
      BY <1>1, <1>2, <1>3, <3>1
    <3> QED  BY <3>2, TermOrders
  <2>2. order[j] \in Term /\ (Ties(order[j], r, s) \/ Precedes(order[j], r, s))
    BY <1>1, <1>2, <1>5
  <2>3. Precedes(order[j], r, u)
    BY <1>3, <2>2, TermOrders
  <2> QED  BY <2>1, <2>3, BeforeAtTerm
<1> QED  BY <1>4, <1>5

\* With the id among the terms the order is total.
LEMMA BeforeTotal ==
    ASSUME NEW order, Ordered(order), NEW r \in Row, NEW s \in Row, r # s
    PROVE  Before(order, r, s) \/ Before(order, s, r)
<1> DEFINE Differs == {n \in 1..Len(order) : ~Ties(order[n], r, s)}
<1>1. order \in Seq(Term) /\ \A n \in 1..Len(order) : order[n] \in Term
  BY DEF Ordered
<1>2. PICK n \in 1..Len(order) : order[n].key = "id"
  BY DEF Ordered
<1>3. n \in Differs
  BY <1>2 DEF Ties, At
<1>4. Differs \subseteq Nat /\ Differs # {}
  BY <1>3
<1>5. PICK i \in Differs : \A j \in Differs : ~(<<j, i>> \in OpToRel(<, Nat))
  BY <1>4, NatLessThanWellFounded, WFMin
<1>6. \A m \in 1..(i - 1) : Ties(order[m], r, s)
  <2> SUFFICES ASSUME NEW m \in 1..(i - 1), ~Ties(order[m], r, s) PROVE FALSE
    OBVIOUS
  <2>1. m \in Differs /\ m < i /\ m \in Nat /\ i \in Nat
    OBVIOUS
  <2>2. <<m, i>> \in OpToRel(<, Nat)
    BY <2>1 DEF OpToRel
  <2> QED  BY <1>5, <2>1, <2>2
<1>7. i \in 1..Len(order) /\ order[i] \in Term /\ ~Ties(order[i], r, s)
  BY <1>1
<1>8. \A m \in 1..(i - 1) : Ties(order[m], s, r)
  <2> SUFFICES ASSUME NEW m \in 1..(i - 1) PROVE Ties(order[m], s, r)
    OBVIOUS
  <2> QED  BY <1>6 DEF Ties
<1>9. Precedes(order[i], r, s) \/ Precedes(order[i], s, r)
  BY <1>7, TermOrders
<1> QED  BY <1>1, <1>6, <1>7, <1>8, <1>9, BeforeAtTerm

\* What a request that is not refused asks to be sorted by has the id in it.
LEMMA RequestedOrder ==
    ASSUME NEW sort \in Seq(Seq(STRING \X STRING)), ~RefusedSort(sort)
    PROVE  Ordered(Order(SortSpecs(sort)))
<1> DEFINE specs == SortSpecs(sort)
<1>0. ById(FALSE) \in Term /\ ById(TRUE) \in Term
  BY DEF ById, Term
<1>1. specs \in Seq(Term)
  <2>1. CASE sort = <<>>
    BY <2>1 DEF SortSpecs
  <2>2. CASE sort # <<>>
    <3>1. 1 \in DOMAIN sort /\ sort[1] \in Seq(STRING \X STRING)
      BY <2>2
    <3>2. \A t \in DOMAIN sort[1] : sort[1][t][1] \in SortKey \cup {"id"}
      BY <3>1 DEF RefusedSort
    <3>3. specs = [t \in 1..Len(sort[1]) |->
                     [key |-> sort[1][t][1], desc |-> sort[1][t][2] = "desc"]]
      BY <2>2, <3>1 DEF SortSpecs
    <3>4. \A t \in 1..Len(sort[1]) :
             [key |-> sort[1][t][1], desc |-> sort[1][t][2] = "desc"] \in Term
      BY <3>1, <3>2 DEF Term
    <3>5. Len(sort[1]) \in Nat
      BY <3>1
    <3> HIDE DEF specs
    <3> QED  BY <3>3, <3>4, <3>5
  <2> QED  BY <2>1, <2>2
<1> HIDE DEF specs
<1>2. SUFFICES Ordered(Order(specs))
  BY DEF specs
<1>3. CASE specs = <<>>
  <2>1. Order(specs) = <<ById(FALSE)>>
    BY <1>3 DEF Order
  <2>2. Order(specs) \in Seq(Term) /\ 1 \in DOMAIN Order(specs) /\ Order(specs)[1].key = "id"
    <3> DEFINE t == ById(FALSE)
    <3>1. t \in Term /\ t.key = "id"
      BY <1>0 DEF ById
    <3> HIDE DEF t
    <3>2. <<t>> \in Seq(Term) /\ 1 \in DOMAIN <<t>> /\ <<t>>[1] = t
      BY <3>1
    <3>3. Order(specs) = <<t>>
      BY <2>1 DEF t
    <3> QED  BY <3>1, <3>2, <3>3
  <2> DEFINE o == Order(specs)
  <2> HIDE DEF o
  <2>3. o \in Seq(Term) /\ 1 \in DOMAIN o /\ o[1].key = "id"
    BY <2>2 DEF o
  <2>4. Ordered(o)
    BY <2>3 DEF Ordered
  <2> QED  BY <2>4 DEF o
<1>4. CASE specs # <<>> /\ \E n \in DOMAIN specs : specs[n].key = "id"
  <2>1. Order(specs) = specs
    BY <1>4 DEF Order
  <2> QED  BY <1>1, <1>4, <2>1 DEF Ordered
<1>5. CASE specs # <<>> /\ ~\E n \in DOMAIN specs : specs[n].key = "id"
  <2>1. Last(specs) \in Term
    BY <1>1, <1>5 DEF Last
  <2>2. ById(Last(specs).desc) \in Term
    BY <2>1 DEF ById, Term
  <2>3. Order(specs) = Append(specs, ById(Last(specs).desc))
    BY <1>5 DEF Order
  <2> DEFINE last == ById(Last(specs).desc)
  <2>4. last.key = "id"
    BY DEF ById
  <2> HIDE DEF last
  <2>5. Append(specs, last) \in Seq(Term) /\ Len(specs) + 1 \in DOMAIN Append(specs, last)
          /\ Append(specs, last)[Len(specs) + 1] = last
    BY <1>1, <2>2 DEF last
  <2>6. Order(specs) = Append(specs, last)
    BY <2>3 DEF last
  <2>7. Ordered(Append(specs, last))
    BY <2>4, <2>5 DEF Ordered
  <2> QED  BY <2>6, <2>7
<1> QED  BY <1>3, <1>4, <1>5

\* How many rows of a table come before a row, and the number of a page.
Rank(order, rows, r) == Cardinality({s \in rows : Before(order, s, r)})
Number(page) == IF page <= 1 THEN 1 ELSE page

(***************************************************************************)
(* Positions.                                                              *)
(***************************************************************************)
LEMMA RowsAreFinite ==
    ASSUME NEW rows \in SUBSET Row
    PROVE  /\ IsFiniteSet(rows) /\ Cardinality(rows) \in 0..MaxRows
<1>1. IsFiniteSet(Row) /\ Cardinality(Row) = MaxRows
  BY FS_Interval, PagingAssumption DEF Row
<1>2. IsFiniteSet(rows) /\ Cardinality(rows) <= Cardinality(Row)
  BY <1>1, FS_Subset
<1>3. Cardinality(rows) \in Nat
  BY <1>2, FS_CardinalityType
<1> QED  BY <1>1, <1>2, <1>3, PagingAssumption

\* An arrangement of a table has each of its rows in one place.
LEMMA EachRowOnce ==
    ASSUME NEW order, NEW rows \in SUBSET Row, NEW q \in Arrangements(order, rows)
    PROVE  /\ q \in Seq(rows) /\ Len(q) = Cardinality(rows)
           /\ \A m, n \in 1..Len(q) : q[m] = q[n] => m = n
           /\ \A r \in rows : \E n \in 1..Len(q) : q[n] = r
           /\ \A m, n \in 1..Len(q) : m < n => ~Before(order, q[n], q[m])
<1> DEFINE N == Cardinality(rows)
<1>1. N \in Nat /\ IsFiniteSet(rows)
  BY RowsAreFinite
<1>2. q \in SetToSeqs(rows) /\ \A m, n \in DOMAIN q : m < n => ~Before(order, q[n], q[m])
  BY DEF Arrangements
<1>3. q \in [1..N -> rows] /\ \A m, n \in 1..N : m # n => q[m] # q[n]
  BY <1>2 DEF SetToSeqs
<1> HIDE DEF N
<1>4. q \in Seq(rows) /\ Len(q) = N /\ DOMAIN q = 1..N
  BY <1>1, <1>3
<1>5. q \in Injection(1..N, rows)
  BY <1>3, Fun_IsInj
<1>6. IsFiniteSet(1..N) /\ Cardinality(1..N) = N
  BY <1>1, FS_Interval
<1>7. q \in Surjection(1..N, rows)
  BY <1>1, <1>5, <1>6, FS_Injection DEF N
<1>8. \A r \in rows : \E n \in 1..N : q[n] = r
  BY <1>7 DEF Surjection
<1> QED  BY <1>2, <1>3, <1>4, <1>8 DEF N

\* The row at position n of an arrangement has n - 1 rows before it.
LEMMA PositionIsRank ==
    ASSUME NEW order, Ordered(order), NEW rows \in SUBSET Row,
           NEW q \in Arrangements(order, rows), NEW n \in 1..Len(q)
    PROVE  Rank(order, rows, q[n]) = n - 1
<1> DEFINE Ahead == {s \in rows : Before(order, s, q[n])}
           f == [m \in 1..(n - 1) |-> q[m]]
<1>1. /\ q \in Seq(rows)
      /\ \A m, k \in 1..Len(q) : q[m] = q[k] => m = k
      /\ \A r \in rows : \E k \in 1..Len(q) : q[k] = r
      /\ \A m, k \in 1..Len(q) : m < k => ~Before(order, q[k], q[m])
  BY EachRowOnce
<1>2. \A m \in 1..Len(q) : q[m] \in Row /\ q[m] \in rows
  BY <1>1
<1>3. ~Before(order, q[n], q[n])
  BY <1>2, BeforeIrreflexive DEF Ordered
<1>4. \A m \in 1..(n - 1) : q[m] \in Ahead
  <2> SUFFICES ASSUME NEW m \in 1..(n - 1) PROVE q[m] \in Ahead
    OBVIOUS
  <2>1. m \in 1..Len(q) /\ m < n
    BY <1>1
  <2>2. q[m] # q[n] /\ ~Before(order, q[n], q[m])
    BY <1>1, <2>1
  <2>3. Before(order, q[m], q[n])
    BY <1>2, <2>1, <2>2, BeforeTotal
  <2> QED  BY <1>2, <2>1, <2>3
<1>5. \A s \in Ahead : \E m \in 1..(n - 1) : q[m] = s
  <2> SUFFICES ASSUME NEW s \in Ahead PROVE \E m \in 1..(n - 1) : q[m] = s
    OBVIOUS
  <2>1. PICK m \in 1..Len(q) : q[m] = s
    BY <1>1
  <2>2. ~(n < m) /\ m # n
    BY <1>1, <1>3, <2>1
  <2>3. m \in 1..(n - 1)
    BY <1>1, <2>2
  <2> QED  BY <2>1, <2>3
<1>6. f \in [1..(n - 1) -> Ahead]
  BY <1>4
<1>7. \A m \in 1..(n - 1) : f[m] = q[m]
  OBVIOUS
<1>8. n \in Int /\ n >= 1 /\ \A m \in 1..(n - 1) : m \in 1..Len(q)
  BY <1>1
<1>9. \A m, k \in 1..(n - 1) : f[m] = f[k] => m = k
  BY <1>1, <1>7, <1>8
<1>10. \A s \in Ahead : \E m \in 1..(n - 1) : f[m] = s
  BY <1>5, <1>7
<1> HIDE DEF f, Ahead
<1>11. f \in Bijection(1..(n - 1), Ahead)
  BY <1>6, <1>9, <1>10, Fun_IsBij
<1>12. IsFiniteSet(1..(n - 1)) /\ Cardinality(1..(n - 1)) = n - 1
  BY <1>8, FS_Interval
<1>13. Cardinality(Ahead) = n - 1
  BY <1>11, <1>12, FS_Bijection DEF ExistsBijection
<1> QED  BY <1>13 DEF Rank, Ahead

\* Every row of a table has fewer rows before it than there are.
LEMMA RankIsBelow ==
    ASSUME NEW order, Ordered(order), NEW rows \in SUBSET Row, NEW r \in rows
    PROVE  Rank(order, rows, r) \in 0..(Cardinality(rows) - 1)
<1> DEFINE Ahead == {s \in rows : Before(order, s, r)}
<1>1. r \notin Ahead
  BY BeforeIrreflexive DEF Ordered
<1>2. IsFiniteSet(rows) /\ Cardinality(rows) \in Nat
  BY RowsAreFinite
<1>3. Ahead \subseteq rows
  OBVIOUS
<1> HIDE DEF Ahead
<1>4. IsFiniteSet(Ahead) /\ Cardinality(Ahead) \in Nat /\ Cardinality(Ahead) <= Cardinality(rows)
        /\ (Cardinality(rows) = Cardinality(Ahead) => rows = Ahead)
  BY <1>2, <1>3, FS_Subset, FS_CardinalityType
<1>5. Cardinality(Ahead) # Cardinality(rows)
  BY <1>1, <1>4
<1> QED  BY <1>2, <1>4, <1>5 DEF Rank, Ahead

\* Whoever comes before a row comes before all that follow it.
LEMMA RankFollowsOrder ==
    ASSUME NEW order, Ordered(order), NEW rows \in SUBSET Row, NEW r \in rows, NEW s \in rows,
           Before(order, r, s)
    PROVE  Rank(order, rows, r) < Rank(order, rows, s)
<1> DEFINE AheadOfR == {x \in rows : Before(order, x, r)}
           AheadOfS == {x \in rows : Before(order, x, s)}
<1>1. order \in Seq(Term) /\ rows \subseteq Row
  BY DEF Ordered
<1>2. AheadOfR \subseteq AheadOfS
  BY <1>1, BeforeTransitive
<1>3. r \in AheadOfS /\ r \notin AheadOfR
  BY <1>1, BeforeIrreflexive
<1>4. AheadOfR \in SUBSET Row /\ AheadOfS \in SUBSET Row
  BY <1>1
<1> HIDE DEF AheadOfR, AheadOfS
<1>5. IsFiniteSet(AheadOfS) /\ Cardinality(AheadOfS) \in Int /\ Cardinality(AheadOfR) \in Int
  BY <1>4, RowsAreFinite, PagingAssumption
<1>6. /\ Cardinality(AheadOfR) <= Cardinality(AheadOfS)
      /\ Cardinality(AheadOfR) # Cardinality(AheadOfS)
  BY <1>2, <1>3, <1>5, FS_Subset
<1> QED  BY <1>5, <1>6 DEF Rank, AheadOfR, AheadOfS

\* The rank of a row is its own.
LEMMA OneRowPerRank ==
    ASSUME NEW order, Ordered(order), NEW rows \in SUBSET Row, NEW r \in rows, NEW s \in rows,
           Rank(order, rows, r) = Rank(order, rows, s)
    PROVE  r = s
<1>1. Rank(order, rows, r) \in Int
  BY RankIsBelow, RowsAreFinite
<1> QED  BY <1>1, RankFollowsOrder, BeforeTotal

\* In the default order the ids are the positions, and stay so as rows are appended.
LEMMA RankById ==
    ASSUME NEW n \in Nat, NEW r \in 1..n
    PROVE  Rank(<<ById(FALSE)>>, 1..n, r) = r - 1
<1> DEFINE order == <<ById(FALSE)>>
<1>1. DOMAIN order = {1} /\ order[1].key = "id" /\ order[1].desc = FALSE
  BY DEF ById
<1>2. At(r, "id") = r /\ \A s \in 1..n : At(s, "id") = s
  BY DEF At
<1> HIDE DEF order
<1>3. \A s \in 1..n : Before(order, s, r) <=> s < r
  BY <1>1, <1>2 DEF Before
<1>4. {s \in 1..n : Before(order, s, r)} = 1..(r - 1)
  BY <1>3
<1>5. Cardinality(1..(r - 1)) = r - 1
  BY FS_Interval
<1> QED  BY <1>4, <1>5 DEF Rank, order

(***************************************************************************)
(* A page.                                                                 *)
(***************************************************************************)
\* A page has the rows from its offset on, and is short only where they end.
LEMMA WindowIsPage ==
    ASSUME NEW S, NEW q \in Seq(S), Len(q) < MaxInt,
           NEW page \in 0..MaxInt, NEW size \in 0..MaxInt,
           NEW skip \in Nat, skip = (Number(page) - 1) * Limit(size),
           NEW data, data = Window(q, Offset(page, size), Limit(size))
    PROVE  /\ data \in Seq(S) /\ Len(data) <= Limit(size)
           /\ Len(data) < Limit(size) => Len(q) <= skip + Len(data)
           /\ \A n \in 1..Len(data) : skip + n \in 1..Len(q) /\ data[n] = q[skip + n]
<1> DEFINE lim == Limit(size)
           off == Offset(page, size)
           to == IF off + lim < Len(q) THEN off + lim ELSE Len(q)
<1>1. lim \in Nat /\ lim >= 1 /\ page \in GoInt /\ size \in GoInt /\ MaxInt \in Nat
  BY LimitIsUsable, PageWindowAssumption DEF GoInt
<1>2. skip = IF page <= 1 THEN 0 ELSE (page - 1) * Limit(size)
  BY <1>1 DEF Number
<1>3. off = IF skip <= MaxInt THEN skip ELSE MaxInt
  BY <1>1, <1>2, OffsetIsExact
<1> HIDE DEF lim, off
<1>4. off \in Nat /\ Len(q) \in Nat /\ (off = skip \/ (off > Len(q) /\ skip > Len(q)))
  BY <1>1, <1>3
<1>5. data = SubSeq(q, off + 1, to)
  <2>1. Window(q, off, lim) =
          SubSeq(q, (IF off < 0 THEN 0 ELSE off) + 1,
                 IF (IF off < 0 THEN 0 ELSE off) + lim < Len(q)
                   THEN (IF off < 0 THEN 0 ELSE off) + lim ELSE Len(q))
    BY DEF Window
  <2>2. (IF off < 0 THEN 0 ELSE off) = off
    BY <1>4
  <2>3. data = Window(q, off, lim)
    BY DEF lim, off
  <2> QED  BY <2>1, <2>2, <2>3
<1>6. to \in Int /\ to <= Len(q) /\ to <= off + lim /\ (to = off + lim \/ to = Len(q))
  BY <1>1, <1>4
<1> HIDE DEF to
<1>7. \A i \in (off + 1)..to : q[i] \in S
  BY <1>4, <1>6
<1>8. /\ data \in Seq(S)
      /\ Len(data) = IF off + 1 <= to THEN to - off ELSE 0
      /\ \A i \in 1..(to - off) : data[i] = q[off + i]
  <2>1. /\ data \in Seq(S)
        /\ Len(data) = IF off + 1 <= to THEN to - (off + 1) + 1 ELSE 0
        /\ \A i \in 1..(to - (off + 1) + 1) : data[i] = q[off + 1 + i - 1]
    BY <1>4, <1>5, <1>6, <1>7, SubSeqProperties
  <2> QED  BY <2>1, <1>4, <1>6
<1>9. CASE off = skip
  BY <1>1, <1>4, <1>6, <1>8, <1>9, SMTT(30) DEF lim
<1>10. CASE off > Len(q) /\ skip > Len(q)
  BY <1>1, <1>4, <1>6, <1>8, <1>10 DEF lim
<1> QED  BY <1>4, <1>9, <1>10

-----------------------------------------------------------------------------
(***************************************************************************)
(* The invariant.                                                          *)
(***************************************************************************)
\* The request under way: its page number, page size and order, and how many
\* rows come before its page and before the first page of the walk.
PageNumber == Number(PageParam(sent.page))
Size == Limit(PageParam(sent.size))
SentOrder == Order(SortSpecs(sent.sort))
Skip == (PageNumber - 1) * Size
Start == (Number(first.page) - 1) * Size

\* Nothing was appended that the order of the walk could not put at its end.
Quiet == table = first.table \/ SentOrder = <<ById(FALSE)>>

Answered == phase \in {"answered", "done"} /\ answer.status = 200

TypeOK ==
    /\ \E n \in 0..MaxRows : table = 1..n
    /\ sent \in [page : Seq(Int), size : Seq(Int), sort : Seq(Seq(STRING \X STRING))]
    /\ phase \in {"idle", "count", "page", "answered", "done"}
    /\ total \in Nat
    /\ seen \in Seq(Row)
    /\ first.page \in Int /\ first.table \in SUBSET table
    /\ \E n \in 0..MaxRows : first.table = 1..n

\* How far the walk has come is the number of its page.
PlaceInv ==
    /\ phase = "idle" => seen = <<>>
    /\ phase \in {"count", "page", "answered"} => ~Refused(sent)
    /\ phase \in {"count", "page"} => Start + Len(seen) = Skip
    /\ phase = "answered" =>
         /\ answer.status = 200 /\ answer.page = PageNumber /\ answer.size = Size
         /\ Len(answer.data) \in 0..Size
         /\ Start + Len(seen) = Skip + Len(answer.data)
         /\ Len(answer.data) # 0 => Skip + Len(answer.data) <= MaxRows

\* What an answer says of the table it was given on.
TotalInv ==
    /\ phase = "page" /\ table = first.table => total = Cardinality(table)
    /\ Answered => ~Refused(sent)
    /\ Answered /\ table = first.table => answer.total = Cardinality(table)
    /\ Answered /\ Len(answer.data) # answer.size => Cardinality(first.table) <= Start + Len(seen)
    /\ Answered /\ phase = "done" => Len(answer.data) # answer.size

\* The rows seen are those from the first page on, in their places.
SeenInv ==
    phase # "idle" /\ Quiet =>
      \A m \in 1..Len(seen) :
         seen[m] \in table /\ Rank(SentOrder, table, seen[m]) = Start + m - 1

IInv == TypeOK /\ PlaceInv /\ TotalInv /\ SeenInv

-----------------------------------------------------------------------------
\* The ids of a table are 1 to their number.
LEMMA Tables ==
    ASSUME TypeOK
    PROVE  /\ table \in SUBSET Row /\ first.table \in SUBSET Row
           /\ table = 1..Cardinality(table) /\ Cardinality(table) \in 0..MaxRows
           /\ first.table = 1..Cardinality(first.table) /\ Cardinality(first.table) \in 0..MaxRows
           /\ Cardinality(first.table) <= Cardinality(table)
<1>1. \A n \in 0..MaxRows : Cardinality(1..n) = n
  BY FS_Interval, PagingAssumption
<1>2. PICK n \in 0..MaxRows : table = 1..n
  BY DEF TypeOK
<1>3. PICK k \in 0..MaxRows : first.table = 1..k
  BY DEF TypeOK
<1>4. k <= n
  <2>1. k >= 1 => k \in 1..k
    BY PagingAssumption
  <2>2. \A i \in 1..k : i \in 1..n
    BY <1>2, <1>3 DEF TypeOK
  <2> QED  BY <2>1, <2>2, PagingAssumption
<1> QED  BY <1>1, <1>2, <1>3, <1>4, PagingAssumption DEF Row

\* A number that is not refused is absent or as sent.
LEMMA Honoured ==
    ASSUME NEW values \in Seq(Int), ~RefusedPageParam(values)
    PROVE  /\ PageParam(values) \in 0..MaxInt
           /\ values = <<>> \/ (values = <<PageParam(values)>> /\ PageParam(values) >= 1)
<1>1. CASE values = <<>>
  BY <1>1, PageWindowAssumption DEF PageParam
<1>2. CASE values # <<>>
  <2>1. Len(values) = 1 /\ DOMAIN values = {1} /\ values[1] \in Int
    <3>1. Len(values) \in Nat /\ Len(values) # 0 /\ DOMAIN values = 1..Len(values)
      BY <1>2, EmptySeq, LenProperties
    <3>2. ~(Len(values) > 1)
      BY DEF RefusedPageParam
    <3>3. Len(values) = 1
      BY <3>1, <3>2
    <3> QED  BY <3>1, <3>3
  <2>2. values[1] \in 1..MaxInt
    BY <2>1 DEF RefusedPageParam
  <2>3. values = <<values[1]>>
    BY <2>1
  <2>4. PageParam(values) = values[1]
    BY <1>2 DEF PageParam
  <2> QED  BY <2>2, <2>3, <2>4, PageWindowAssumption
<1> QED  BY <1>1, <1>2

\* What a request that is not refused asks for.
LEMMA Accepted ==
    ASSUME TypeOK, ~Refused(sent)
    PROVE  /\ PageParam(sent.page) \in 0..MaxInt /\ PageParam(sent.size) \in 0..MaxInt
           /\ Ordered(SentOrder)
<1>1. /\ sent.page \in Seq(Int) /\ sent.size \in Seq(Int)
      /\ sent.sort \in Seq(Seq(STRING \X STRING))
  BY DEF TypeOK
<1>2. ~RefusedPageParam(sent.page) /\ ~RefusedPageParam(sent.size) /\ ~RefusedSort(sent.sort)
  BY DEF Refused
<1> QED  BY <1>1, <1>2, Honoured, RequestedOrder DEF SentOrder

\* Size is a page size, whatever was sent.
LEMMA SizeIsUsable ==
    ASSUME NEW values \in Seq(Int)
    PROVE  Limit(PageParam(values)) \in 1..MaxPageSize
<1>1. PageParam(values) \in Int
  BY DEF PageParam
<1> QED  BY <1>1, PageWindowAssumption DEF Limit

LEMMA Products ==
    ASSUME NEW p \in Int, p >= 1, NEW l \in Nat
    PROVE  (p - 1) * l \in Nat /\ (p - 1) * l + l = ((p + 1) - 1) * l
  OBVIOUS

\* Page numbers count from one and offsets from zero.
LEMMA Places ==
    ASSUME TypeOK
    PROVE  /\ Size \in 1..MaxPageSize /\ Size \in Nat
           /\ PageNumber \in Nat /\ PageNumber >= 1 /\ Skip \in Nat /\ Start \in Nat
           /\ first.page <= 1 => Start = 0
<1>1. sent.page \in Seq(Int) /\ sent.size \in Seq(Int) /\ first.page \in Int
  BY DEF TypeOK
<1>2. Size \in 1..MaxPageSize /\ Size \in Nat
  BY <1>1, SizeIsUsable, PageWindowAssumption DEF Size
<1>3. PageParam(sent.page) \in Int
  BY <1>1 DEF PageParam
<1>4. PageNumber \in Nat /\ PageNumber >= 1 /\ Number(first.page) \in Int /\ Number(first.page) >= 1
  BY <1>1, <1>3 DEF PageNumber, Number
<1>5. Skip \in Nat /\ Start \in Nat
  BY <1>2, <1>4, Products DEF Skip, Start
<1>6. first.page <= 1 => Start = 0
  BY <1>2 DEF Start, Number
<1> QED  BY <1>2, <1>4, <1>5, <1>6

\* What Fetch answers.
FetchSays(data) ==
    /\ answer' = [status |-> 200, data |-> data, total |-> total,
                  page |-> PageNumber, size |-> Size]
    /\ data \in Seq(Row) /\ Len(data) \in 0..Size
    /\ Len(data) # Size => Cardinality(table) <= Skip + Len(data)
    /\ Len(data) # 0 => Skip + Len(data) <= MaxRows
    /\ \A n \in 1..Len(data) :
          data[n] \in table /\ Rank(SentOrder, table, data[n]) = Skip + n - 1

LEMMA FetchAnswers ==
    ASSUME TypeOK, ~Refused(sent), Fetch
    PROVE  \E data : FetchSays(data)
<1> DEFINE page == PageParam(sent.page)
           size == PageParam(sent.size)
<1>1. PICK q \in Arrangements(SentOrder, table) : answer' = Page(sent, q)
  BY DEF Fetch, SentOrder
<1> DEFINE data == Window(q, Offset(page, size), Limit(size))
<1>2. page \in 0..MaxInt /\ size \in 0..MaxInt /\ Ordered(SentOrder)
  BY Accepted
<1>3. table \in SUBSET Row /\ Cardinality(table) \in 0..MaxRows
  BY Tables
<1>4. q \in Seq(table) /\ Len(q) = Cardinality(table) /\ Len(q) < MaxInt
  BY <1>3, EachRowOnce, PagingAssumption, PageWindowAssumption
<1>5. Skip \in Nat /\ Skip = (Number(page) - 1) * Limit(size) /\ Size \in Nat
  BY Places DEF Skip, PageNumber, Size
<1>6. answer' = [status |-> 200, data |-> data, total |-> total,
                 page |-> PageNumber, size |-> Size]
  <2>1. PageNumber = IF page <= 0 THEN 1 ELSE page
    BY <1>2 DEF PageNumber, Number
  <2> QED  BY <1>1, <2>1 DEF Page, Size
<1> HIDE DEF page, size
<1>7. /\ data \in Seq(table) /\ Len(data) <= Limit(size)
      /\ Len(data) < Limit(size) => Len(q) <= Skip + Len(data)
      /\ \A n \in 1..Len(data) : Skip + n \in 1..Len(q) /\ data[n] = q[Skip + n]
  BY <1>2, <1>4, <1>5, WindowIsPage
<1>8. Limit(size) = Size
  BY DEF Size, size
<1> HIDE DEF data
<1>9. data \in Seq(Row) /\ Len(data) \in Nat
  BY <1>3, <1>7
<1>10. \A n \in 1..Len(data) :
          data[n] \in table /\ Rank(SentOrder, table, data[n]) = Skip + n - 1
  <2> SUFFICES ASSUME NEW n \in 1..Len(data)
               PROVE  data[n] \in table /\ Rank(SentOrder, table, data[n]) = Skip + n - 1
    OBVIOUS
  <2>1. data[n] \in table /\ Skip + n \in 1..Len(q) /\ data[n] = q[Skip + n]
    BY <1>7
  <2>2. Rank(SentOrder, table, q[Skip + n]) = (Skip + n) - 1
    BY <1>2, <1>3, <2>1, PositionIsRank
  <2> QED  BY <1>5, <2>1, <2>2
<1>11. Len(data) # 0 => Skip + Len(data) <= MaxRows
  <2>1. Len(data) # 0 => Len(data) \in 1..Len(data)
    BY <1>9
  <2>2. Len(data) # 0 => Skip + Len(data) \in 1..Len(q)
    BY <1>7, <2>1
  <2> QED  BY <1>3, <1>4, <1>5, <1>9, <2>2, PagingAssumption
<1>12. FetchSays(data)
  BY <1>11, <1>4, <1>5, <1>6, <1>7, <1>8, <1>9, <1>10 DEF FetchSays
<1> QED  BY <1>12

(***************************************************************************)
(* The steps.                                                              *)
(***************************************************************************)
LEMMA InitInv == Init => IInv
<1> SUFFICES ASSUME Init PROVE IInv
  OBVIOUS
<1>1. PICK n \in 0..MaxRows : table = 1..n
  BY DEF Init
<1>2. first.table = 1..0 /\ 0 \in 0..MaxRows
  BY PagingAssumption DEF Init
<1>3. sent \in [page : Seq(Int), size : Seq(Int), sort : Seq(Seq(STRING \X STRING))]
  BY DEF Init
<1>4. TypeOK
  BY <1>1, <1>2, <1>3 DEF Init, TypeOK
<1> QED  BY <1>4 DEF IInv, Init, PlaceInv, TotalInv, SeenInv, Answered

\* The caller's next request.
LEMMA RequestStep ==
    ASSUME NEW params, Request(params)
    PROVE  /\ sent' = params /\ table' = table /\ total' = total
           /\ \/ phase' = "done" /\ answer' = Refusal /\ Refusal.status = 400
              \/ phase' = "count" /\ answer' = answer /\ ~Refused(params)
  BY DEF Request, Refusal, NoAnswer

LEMMA BeginKeeps ==
    ASSUME IInv, NEW params \in Params, Begin(params)
    PROVE  IInv'
<1>1. /\ sent' = params /\ table' = table /\ total' = total
      /\ \/ phase' = "done" /\ answer' = Refusal /\ Refusal.status = 400
         \/ phase' = "count" /\ answer' = answer /\ ~Refused(params)
  BY RequestStep DEF Begin
<1>2. seen' = <<>> /\ first' = [page |-> PageParam(params.page), table |-> table]
  BY DEF Begin
<1>3. /\ params \in [page : Seq(Int), size : Seq(Int), sort : Seq(Seq(STRING \X STRING))]
      /\ PageParam(params.page) \in Int
  <2>1. params \in [page : Seq(Int), size : Seq(Int), sort : Seq(Seq(STRING \X STRING))]
    BY PagingAssumption DEF Params
  <2> QED  BY <2>1 DEF PageParam
<1>4. TypeOK'
  BY <1>1, <1>2, <1>3 DEF IInv, TypeOK
<1>5. PlaceInv'
  <2>1. Start' = Skip' /\ Skip' \in Nat
    <3>1. first'.page = PageParam(sent'.page)
      BY <1>1, <1>2
    <3>2. Start' = Skip'
      BY <3>1 DEF Start, Skip, PageNumber
    <3>3. Size' \in Nat /\ PageNumber' \in Int /\ PageNumber' >= 1
      <4>1. Limit(PageParam(params.size)) \in 1..MaxPageSize
        BY <1>3, SizeIsUsable
      <4>2. Size' = Limit(PageParam(params.size)) /\ PageNumber' = Number(PageParam(params.page))
        BY <1>1 DEF Size, PageNumber
      <4> QED  BY <1>3, <4>1, <4>2, PageWindowAssumption DEF Number
    <3>4. Skip' \in Nat
      <4>1. Skip' = (PageNumber' - 1) * Size'
        BY DEF Skip
      <4> QED  BY <3>3, <4>1, Products
    <3> QED  BY <3>2, <3>4
  <2>2. phase' = "count" => ~Refused(sent)'
    BY <1>1 DEF Refused
  <2>3. Start' + Len(seen') = Skip'
    <3>1. Len(seen') = 0
      BY <1>2
    <3>2. \A n \in Nat : n + 0 = n
      OBVIOUS
    <3> QED  BY <2>1, <3>1, <3>2
  <2> QED  BY <1>1, <1>2, <2>2, <2>3 DEF PlaceInv
<1>6. TotalInv'
  BY <1>1 DEF TotalInv, Answered
<1>7. SeenInv'
  BY <1>2 DEF SeenInv
<1> QED  BY <1>4, <1>5, <1>6, <1>7 DEF IInv

\* What depends on the request is as it was.
LEMMA SameRequest ==
    ASSUME sent' = sent, first' = first
    PROVE  /\ Size' = Size /\ PageNumber' = PageNumber /\ SentOrder' = SentOrder
           /\ Skip' = Skip /\ Start' = Start /\ Refused(sent)' = Refused(sent)
  BY DEF Size, PageNumber, SentOrder, Skip, Start, Refused

LEMMA SameTable ==
    ASSUME sent' = sent, first' = first, table' = table
    PROVE  /\ Quiet' = Quiet
           /\ \A r : Rank(SentOrder, table, r)' = Rank(SentOrder, table, r)
  BY DEF Quiet, SentOrder

LEMMA CountKeeps ==
    ASSUME IInv, Count
    PROVE  IInv'
<1>1. /\ phase = "count" /\ phase' = "page" /\ total' = Cardinality(table) /\ table' = table
      /\ sent' = sent /\ answer' = answer /\ seen' = seen /\ first' = first
  BY DEF Count
<1>2. total' \in Nat
  BY <1>1, Tables DEF IInv
<1>3. TypeOK'
  BY <1>1, <1>2 DEF IInv, TypeOK
<1>4. PlaceInv'
  BY <1>1, SameRequest DEF IInv, PlaceInv
<1>5. TotalInv'
  BY <1>1 DEF TotalInv, Answered
<1>6. SeenInv'
  BY <1>1, SameRequest, SameTable DEF IInv, SeenInv, Quiet, SentOrder
<1> QED  BY <1>3, <1>4, <1>5, <1>6 DEF IInv

LEMMA FetchKeeps ==
    ASSUME IInv, Fetch
    PROVE  IInv'
<1>1. /\ phase = "page" /\ phase' = "answered" /\ table' = table /\ sent' = sent
      /\ total' = total /\ first' = first /\ seen' = seen \o answer'.data
  BY DEF Fetch
<1>2. TypeOK /\ ~Refused(sent) /\ Start + Len(seen) = Skip /\ seen \in Seq(Row)
  BY <1>1 DEF IInv, PlaceInv, TypeOK
<1>3. PICK data : FetchSays(data)
  BY <1>2, FetchAnswers
<1>4. /\ answer'.status = 200 /\ answer'.data = data /\ answer'.total = total
      /\ answer'.page = PageNumber /\ answer'.size = Size
  BY <1>3 DEF FetchSays
<1>5. /\ data \in Seq(Row) /\ Len(data) \in 0..Size
      /\ Len(data) # Size => Cardinality(table) <= Skip + Len(data)
      /\ Len(data) # 0 => Skip + Len(data) <= MaxRows
      /\ \A n \in 1..Len(data) :
            data[n] \in table /\ Rank(SentOrder, table, data[n]) = Skip + n - 1
  BY <1>3 DEF FetchSays
<1>6. /\ seen' \in Seq(Row) /\ Len(seen') = Len(seen) + Len(data)
      /\ \A m \in 1..(Len(seen) + Len(data)) :
            seen'[m] = IF m <= Len(seen) THEN seen[m] ELSE data[m - Len(seen)]
  BY <1>1, <1>2, <1>4, <1>5, ConcatProperties
<1>7. Skip \in Nat /\ Start \in Nat /\ Len(seen) \in Nat /\ Len(data) \in Nat /\ Size \in Nat
  BY <1>2, <1>5, Places
<1>8. TypeOK'
  BY <1>1, <1>6 DEF IInv, TypeOK
<1>9. PlaceInv'
  <2>1. Start + Len(seen') = Skip + Len(data)
    <3>1. Len(seen') = Len(seen) + Len(data)
      BY <1>6
    <3>2. Start + Len(seen) = Skip
      BY <1>2
    <3> QED  BY <1>7, <3>1, <3>2
  <2>2. /\ ~Refused(sent)' /\ PageNumber' = PageNumber /\ Size' = Size
        /\ Skip' = Skip /\ Start' = Start
    BY <1>1, <1>2, SameRequest
  <2>3. phase' \notin {"idle", "count", "page"}
    BY <1>1
  <2> QED  BY <1>4, <1>5, <2>1, <2>2, <2>3 DEF PlaceInv
<1>10. TotalInv'
  <2>1. Cardinality(first.table) <= Cardinality(table) /\ Cardinality(table) \in Int
          /\ Cardinality(first.table) \in Int
    BY <1>2, Tables
  <2>2. Len(data) # Size => Cardinality(first.table) <= Start + Len(seen')
    BY <1>2, <1>5, <1>6, <1>7, <2>1
  <2> QED  BY <1>1, <1>2, <1>4, <2>2, SameRequest DEF IInv, TotalInv, Answered
<1>11. SeenInv'
  <2> SUFFICES ASSUME Quiet, NEW m \in 1..Len(seen')
               PROVE  seen'[m] \in table /\ Rank(SentOrder, table, seen'[m]) = Start + m - 1
    BY <1>1, SameRequest, SameTable DEF SeenInv, Quiet, SentOrder
  <2>1. CASE m <= Len(seen)
    <3>1. m \in 1..Len(seen) /\ seen'[m] = seen[m]
      BY <1>6, <1>7, <2>1
    <3> QED  BY <1>1, <3>1 DEF IInv, SeenInv
  <2>2. CASE ~(m <= Len(seen))
    <3>1. m - Len(seen) \in 1..Len(data) /\ seen'[m] = data[m - Len(seen)]
      BY <1>6, <1>7, <2>2
    <3>2. seen'[m] \in table /\ Rank(SentOrder, table, seen'[m]) = Skip + (m - Len(seen)) - 1
      BY <1>5, <3>1
    <3>3. m \in Nat
      BY <1>6, <1>7
    <3>4. Skip + (m - Len(seen)) - 1 = Start + m - 1
      BY <1>2, <1>7, <3>3
    <3> QED  BY <3>2, <3>4
  <2> QED  BY <2>1, <2>2
<1> QED  BY <1>8, <1>9, <1>10, <1>11 DEF IInv

LEMMA ContinueKeeps ==
    ASSUME IInv, Continue
    PROVE  IInv'
<1> DEFINE params == [sent EXCEPT !.page = <<answer.page + 1>>]
<1>1. phase = "answered" /\ Len(answer.data) = answer.size /\ seen' = seen /\ first' = first
        /\ Request(params)
  BY DEF Continue
<1>2. /\ TypeOK /\ answer.page = PageNumber /\ answer.size = Size
      /\ Start + Len(seen) = Skip + Len(answer.data)
  BY <1>1 DEF IInv, PlaceInv
<1>3. /\ Size \in Nat /\ PageNumber \in Nat /\ PageNumber >= 1 /\ Skip \in Nat /\ Start \in Nat
  BY <1>2, Places
<1>4. /\ params.page = <<PageNumber + 1>> /\ params.size = sent.size /\ params.sort = sent.sort
      /\ params \in [page : Seq(Int), size : Seq(Int), sort : Seq(Seq(STRING \X STRING))]
  <2> DEFINE next == <<answer.page + 1>>
  <2>1. next \in Seq(Int) /\ next = <<PageNumber + 1>>
    BY <1>2, <1>3
  <2>2. sent \in [page : Seq(Int), size : Seq(Int), sort : Seq(Seq(STRING \X STRING))]
    BY <1>2 DEF TypeOK
  <2>3. params = [sent EXCEPT !.page = next]
    OBVIOUS
  <2> HIDE DEF next, params
  <2> QED  BY <2>1, <2>2, <2>3
<1> HIDE DEF params
<1>5. /\ sent' = params /\ table' = table /\ total' = total
      /\ \/ phase' = "done" /\ answer' = Refusal /\ Refusal.status = 400
         \/ phase' = "count" /\ answer' = answer /\ ~Refused(params)
  BY <1>1, RequestStep
<1>6. Size' = Size /\ SentOrder' = SentOrder /\ Start' = Start
  BY <1>1, <1>4, <1>5 DEF Size, SentOrder, Start
<1>7. PageNumber' = PageNumber + 1
  <2>1. PageParam(sent'.page) = PageNumber + 1
    <3> DEFINE next == PageNumber + 1
    <3>1. sent'.page = <<next>>
      BY <1>4, <1>5
    <3> HIDE DEF next
    <3>2. <<next>> # <<>> /\ <<next>>[1] = next
      OBVIOUS
    <3> QED  BY <3>1, <3>2 DEF PageParam, next
  <2> QED  BY <1>3, <2>1 DEF PageNumber, Number
<1>8. Skip' = Skip + Size
  <2>1. Skip' = ((PageNumber + 1) - 1) * Size
    BY <1>6, <1>7 DEF Skip
  <2>2. Skip = (PageNumber - 1) * Size
    BY DEF Skip
  <2> QED  BY <1>3, <2>1, <2>2, Products
<1>9. TypeOK'
  BY <1>1, <1>2, <1>4, <1>5 DEF TypeOK
<1>10. PlaceInv'
  BY <1>1, <1>2, <1>3, <1>5, <1>6, <1>8 DEF PlaceInv, Refused
<1>11. TotalInv'
  BY <1>5 DEF TotalInv, Answered
<1>12. SeenInv'
  BY <1>1, <1>5, <1>6 DEF IInv, SeenInv, Quiet, Rank
<1> QED  BY <1>9, <1>10, <1>11, <1>12 DEF IInv

LEMMA StopKeeps ==
    ASSUME IInv, Stop
    PROVE  IInv'
<1>1. /\ phase = "answered" /\ Len(answer.data) # answer.size /\ phase' = "done"
      /\ table' = table /\ sent' = sent /\ total' = total /\ answer' = answer /\ seen' = seen
      /\ first' = first
  BY DEF Stop
<1>2. TypeOK'
  BY <1>1 DEF IInv, TypeOK
<1>3. PlaceInv'
  BY <1>1 DEF PlaceInv
<1>4. TotalInv'
  BY <1>1, SameRequest DEF IInv, TotalInv, Answered
<1>5. SeenInv'
  BY <1>1, SameRequest, SameTable DEF IInv, SeenInv, Quiet, SentOrder
<1> QED  BY <1>2, <1>3, <1>4, <1>5 DEF IInv

\* Appended rows come last in the order of the ids, and end the quiet of any other.
LEMMA GrowKeeps ==
    ASSUME IInv, Grow
    PROVE  IInv'
<1>1. /\ Cardinality(table) < MaxRows /\ table' = table \cup {Cardinality(table) + 1}
      /\ phase' = phase /\ sent' = sent /\ total' = total /\ answer' = answer /\ seen' = seen
      /\ first' = first
  BY DEF Grow
<1> DEFINE n == Cardinality(table)
<1>2. table = 1..n /\ n \in 0..MaxRows /\ first.table \subseteq table
  BY Tables DEF IInv, TypeOK
<1> HIDE DEF n
<1>3. table' = 1..(n + 1) /\ n + 1 \in 0..MaxRows /\ n \in Nat
  BY <1>1, <1>2, PagingAssumption DEF n
<1>4. table' # first'.table /\ first'.table \subseteq table'
  <2>1. n + 1 \in table' /\ n + 1 \notin table
    BY <1>2, <1>3
  <2> QED  BY <1>1, <1>2, <2>1
<1>5. TypeOK'
  BY <1>1, <1>3, <1>4 DEF IInv, TypeOK
<1>6. PlaceInv'
  BY <1>1, SameRequest DEF IInv, PlaceInv
<1>7. TotalInv'
  BY <1>1, <1>4, SameRequest DEF IInv, TotalInv, Answered
<1>8. SeenInv'
  <2> SUFFICES ASSUME phase # "idle", SentOrder = <<ById(FALSE)>>, NEW m \in 1..Len(seen)
               PROVE  seen[m] \in table' /\ Rank(SentOrder, table', seen[m]) = Start + m - 1
    BY <1>1, <1>4, SameRequest DEF SeenInv, Quiet, Rank
  <2>1. seen[m] \in table /\ Rank(SentOrder, table, seen[m]) = Start + m - 1
    BY DEF IInv, SeenInv, Quiet
  <2>2. Rank(<<ById(FALSE)>>, 1..n, seen[m]) = seen[m] - 1
    BY <1>2, <1>3, <2>1, RankById
  <2>3. seen[m] \in 1..(n + 1)
    BY <1>2, <1>3, <2>1
  <2>4. Rank(<<ById(FALSE)>>, 1..(n + 1), seen[m]) = seen[m] - 1
    <3> DEFINE k == n + 1
    <3>1. k \in Nat /\ seen[m] \in 1..k
      BY <1>3, <2>3
    <3> HIDE DEF k
    <3>2. Rank(<<ById(FALSE)>>, 1..k, seen[m]) = seen[m] - 1
      BY <3>1, RankById
    <3> QED  BY <3>2 DEF k
  <2> QED  BY <1>2, <1>3, <2>1, <2>2, <2>3, <2>4
<1> QED  BY <1>5, <1>6, <1>7, <1>8 DEF IInv

LEMMA StutterKeeps ==
    ASSUME IInv, UNCHANGED vars
    PROVE  IInv'
<1>1. /\ phase' = phase /\ table' = table /\ sent' = sent /\ total' = total
      /\ answer' = answer /\ seen' = seen /\ first' = first
  BY DEF vars
<1>2. TypeOK'
  BY <1>1 DEF IInv, TypeOK
<1>3. PlaceInv'
  BY <1>1, SameRequest DEF IInv, PlaceInv
<1>4. TotalInv'
  BY <1>1, SameRequest DEF IInv, TotalInv, Answered
<1>5. SeenInv'
  BY <1>1, SameRequest, SameTable DEF IInv, SeenInv, Quiet, SentOrder
<1> QED  BY <1>2, <1>3, <1>4, <1>5 DEF IInv

LEMMA NextInv == IInv /\ [Next]_vars => IInv'
  BY BeginKeeps, CountKeeps, FetchKeeps, ContinueKeeps, StopKeeps, GrowKeeps, StutterKeeps
     DEF Next, Walk

\* The walk's place and what it has seen are what its page number says, in every
\* reachable state.
THEOREM Invariant == Spec => []IInv
  BY InitInv, NextInv, PTL DEF Spec

-----------------------------------------------------------------------------
\* The caller goes on at the next page of the same walk, and is not refused there:
\* a full page and all before it fit the table, so its successor's number fits an
\* int.  Pages come to an end, since each has more rows before it than the last.
THEOREM WalksRunOut ==
    Spec => [][Continue => phase' = "count" /\ Skip < Skip' /\ Skip' <= MaxRows]_vars
<1>1. ASSUME IInv, Continue
      PROVE  phase' = "count" /\ Skip < Skip' /\ Skip' <= MaxRows
  <2> DEFINE params == [sent EXCEPT !.page = <<answer.page + 1>>]
  <2>1. /\ TypeOK /\ ~Refused(sent) /\ answer.page = PageNumber
        /\ Len(answer.data) = Size /\ (Len(answer.data) # 0 => Skip + Len(answer.data) <= MaxRows)
    BY <1>1 DEF Continue, IInv, PlaceInv
  <2>2. /\ Size \in Nat /\ Size >= 1 /\ PageNumber \in Nat /\ PageNumber >= 1 /\ Skip \in Nat
    BY <2>1, Places
  <2>3. Skip + Size <= MaxRows
    BY <2>1, <2>2
  <2>4. PageNumber <= Skip + Size
    <3>1. \A p, l \in Nat : p >= 1 /\ l >= 1 => (p - 1) * l + l >= p
      OBVIOUS
    <3> QED  BY <2>2, <3>1 DEF Skip
  <2>5. PageNumber + 1 \in 1..MaxInt
    BY <2>2, <2>3, <2>4, PagingAssumption, PageWindowAssumption
  <2>6. /\ params.page = <<PageNumber + 1>> /\ params.size = sent.size /\ params.sort = sent.sort
    <3>1. sent \in [page : Seq(Int), size : Seq(Int), sort : Seq(Seq(STRING \X STRING))]
      BY <2>1 DEF TypeOK
    <3> QED  BY <2>1, <3>1
  <2> HIDE DEF params
  <2>7. ~Refused(params)
    <3> DEFINE next == PageNumber + 1
    <3>1. next \in 1..MaxInt /\ params.page = <<next>>
      BY <2>5, <2>6
    <3> HIDE DEF next
    <3>2. Len(<<next>>) = 1 /\ DOMAIN <<next>> = {1} /\ <<next>>[1] = next
      OBVIOUS
    <3>3. ~RefusedPageParam(params.page)
      BY <3>1, <3>2 DEF RefusedPageParam
    <3> QED  BY <2>1, <2>6, <3>3 DEF Refused
  <2>8. Request(params)
    BY <1>1 DEF Continue, params
  <2>9. phase' = "count" /\ sent' = params
    BY <2>7, <2>8 DEF Request
  <2>10. Skip' = Skip + Size
    <3>1. PageParam(sent'.page) = PageNumber + 1
      <4> DEFINE next == PageNumber + 1
      <4>1. sent'.page = <<next>>
        BY <2>6, <2>9
      <4> HIDE DEF next
      <4>2. <<next>> # <<>> /\ <<next>>[1] = next
        OBVIOUS
      <4> QED  BY <4>1, <4>2 DEF PageParam, next
    <3>2. PageNumber' = PageNumber + 1 /\ Size' = Size
      BY <2>2, <2>6, <2>9, <3>1 DEF PageNumber, Number, Size
    <3>3. Skip' = ((PageNumber + 1) - 1) * Size
      BY <3>2 DEF Skip
    <3>4. Skip = (PageNumber - 1) * Size
      BY DEF Skip
    <3> QED  BY <2>2, <3>3, <3>4, Products
  <2> QED  BY <2>2, <2>3, <2>9, <2>10
<1>2. IInv /\ [Next]_vars
        => [Continue => phase' = "count" /\ Skip < Skip' /\ Skip' <= MaxRows]_vars
  BY <1>1
<1> QED  BY <1>2, Invariant, PTL DEF Spec

\* A page is the rows of its number and of no other, for an int of any width, every
\* table, order, page and size (ListRequest.Offset, XOrder, ListPage).
THEOREM PagesAreTheirNumbers == Spec => PageIsItsNumber
<1> DEFINE Numbered ==
      phase' = "answered" /\ phase = "page" =>
         LET order == Order(SortSpecs(sent.sort))
             skip  == (answer'.page - 1) * answer'.size
             data  == answer'.data
         IN /\ sent.page \in {<<>>, <<answer'.page>>}
            /\ \/ sent.size \in {<<>>, <<answer'.size>>}
               \/ sent.size[1] > MaxPageSize /\ answer'.size = MaxPageSize
            /\ \A n \in DOMAIN data :
                  Cardinality({r \in table : Before(order, r, data[n])}) = skip + n - 1
            /\ Len(data) < answer'.size => Cardinality(table) <= skip + Len(data)
<1>1. IInv /\ [Next]_vars => [Numbered]_vars
  <2> SUFFICES ASSUME IInv, Next, phase' = "answered", phase = "page" PROVE Numbered
    BY DEF vars
  <2>1. Fetch
    BY DEF Next, Walk, Begin, Count, Continue, Stop, Grow
  <2>2. TypeOK /\ ~Refused(sent)
    BY DEF IInv, PlaceInv
  <2>3. PICK data : FetchSays(data)
    BY <2>1, <2>2, FetchAnswers
  <2>4. /\ answer'.page = PageNumber /\ answer'.size = Size /\ answer'.data = data
        /\ DOMAIN data = 1..Len(data) /\ Len(data) \in Nat /\ Size \in Nat
    BY <2>2, <2>3, Places DEF FetchSays
  <2>5. sent.page \in {<<>>, <<PageNumber>>}
    <3>1. sent.page \in Seq(Int) /\ ~RefusedPageParam(sent.page)
      BY <2>2 DEF TypeOK, Refused
    <3>2. \/ sent.page = <<>>
          \/ sent.page = <<PageParam(sent.page)>> /\ PageParam(sent.page) >= 1
             /\ PageParam(sent.page) \in 0..MaxInt
      BY <3>1, Honoured
    <3>3. PageParam(sent.page) >= 1 /\ PageParam(sent.page) \in 0..MaxInt
            => PageNumber = PageParam(sent.page)
      BY PageWindowAssumption DEF PageNumber, Number
    <3> QED  BY <3>2, <3>3
  <2>6. \/ sent.size \in {<<>>, <<Size>>}
        \/ sent.size[1] > MaxPageSize /\ Size = MaxPageSize
    <3>1. sent.size \in Seq(Int) /\ ~RefusedPageParam(sent.size)
      BY <2>2 DEF TypeOK, Refused
    <3>2. \/ sent.size = <<>>
          \/ sent.size = <<PageParam(sent.size)>> /\ PageParam(sent.size) >= 1
             /\ PageParam(sent.size) \in 0..MaxInt
      BY <3>1, Honoured
    <3>3. sent.size # <<>> => PageParam(sent.size) = sent.size[1]
      BY DEF PageParam
    <3> DEFINE size == PageParam(sent.size)
    <3>4. size >= 1 /\ size \in 0..MaxInt =>
            Size = size \/ (size > MaxPageSize /\ Size = MaxPageSize)
      BY PageWindowAssumption DEF Size, Limit
    <3> HIDE DEF size
    <3>5. CASE sent.size = <<>>
      BY <3>5
    <3>6. CASE sent.size # <<>>
      <4>1. sent.size = <<size>> /\ size = sent.size[1]
        BY <3>2, <3>3, <3>6 DEF size
      <4>2. Size = size \/ (size > MaxPageSize /\ Size = MaxPageSize)
        BY <3>2, <3>4, <3>6 DEF size
      <4> QED  BY <4>1, <4>2
    <3> QED  BY <3>5, <3>6
  <2>7. \A n \in 1..Len(data) :
          Cardinality({r \in table : Before(SentOrder, r, data[n])}) = Skip + n - 1
    BY <2>3 DEF FetchSays, Rank
  <2>8. Len(data) < Size => Cardinality(table) <= Skip + Len(data)
    <3>1. Len(data) # Size => Cardinality(table) <= Skip + Len(data)
      BY <2>3 DEF FetchSays
    <3>2. \A m, n \in Nat : m < n => m # n
      OBVIOUS
    <3> QED  BY <2>4, <3>1, <3>2
  <2> QED  BY <2>4, <2>5, <2>6, <2>7, <2>8 DEF Skip, SentOrder
<1>2. PageIsItsNumber <=> [][Numbered]_vars
  BY DEF PageIsItsNumber
<1> QED  BY <1>1, <1>2, Invariant, PTL DEF Spec

\* A walk over a table that nobody writes repeats no row and loses none, and in the
\* default order appended rows change nothing of that (ADR 0002).
THEOREM WalksSeeEveryRow == Spec => []WalkSeesEveryRowOnce
<1>1. IInv => WalkSeesEveryRowOnce
  <2> SUFFICES ASSUME IInv, phase # "idle", Quiet
               PROVE  /\ \A m, n \in DOMAIN seen : seen[m] = seen[n] => m = n
                      /\ phase = "done" /\ answer.status = 200 /\ first.page <= 1
                           => /\ first.table \subseteq {seen[n] : n \in DOMAIN seen}
                              /\ table = first.table => Len(seen) = answer.total
    BY DEF WalkSeesEveryRowOnce, Quiet, SentOrder
  <2>1. TypeOK /\ DOMAIN seen = 1..Len(seen) /\ Len(seen) \in Nat
    BY DEF IInv, TypeOK
  <2>2. \A m \in 1..Len(seen) :
           seen[m] \in table /\ Rank(SentOrder, table, seen[m]) = Start + m - 1
    BY DEF IInv, SeenInv
  <2>3. Start \in Nat /\ (first.page <= 1 => Start = 0)
    BY <2>1, Places
  <2>4. \A m, n \in DOMAIN seen : seen[m] = seen[n] => m = n
    <3> SUFFICES ASSUME NEW m \in 1..Len(seen), NEW n \in 1..Len(seen), seen[m] = seen[n]
                 PROVE  m = n
      BY <2>1
    <3>1. Start + m - 1 = Start + n - 1
      BY <2>2
    <3> QED  BY <2>1, <2>3, <3>1
  <2>5. ASSUME phase = "done", answer.status = 200, first.page <= 1
        PROVE  /\ first.table \subseteq {seen[n] : n \in DOMAIN seen}
               /\ table = first.table => Len(seen) = answer.total
    <3>1. /\ ~Refused(sent) /\ Cardinality(first.table) <= Len(seen)
          /\ table = first.table => answer.total = Cardinality(table)
      BY <2>1, <2>3, <2>5 DEF IInv, TotalInv, Answered
    <3>2. Ordered(SentOrder)
      BY <2>1, <3>1, Accepted
    <3>3. /\ table \in SUBSET Row /\ first.table \subseteq table
          /\ table = 1..Cardinality(table) /\ Cardinality(table) \in Nat
          /\ first.table = 1..Cardinality(first.table) /\ Cardinality(first.table) \in Nat
      BY <2>1, Tables DEF TypeOK
    <3>4. ASSUME NEW r \in first.table PROVE \E n \in DOMAIN seen : seen[n] = r
      <4> DEFINE rank == Rank(SentOrder, table, r)
      <4>1. rank \in 0..(Cardinality(table) - 1)
        BY <3>2, <3>3, RankIsBelow
      <4>2. rank < Cardinality(first.table)
        <5>1. CASE table = first.table
          BY <3>3, <4>1, <5>1
        <5>2. CASE SentOrder = <<ById(FALSE)>>
          <6>1. Rank(<<ById(FALSE)>>, 1..Cardinality(table), r) = r - 1
            BY <3>3, RankById
          <6>2. rank = r - 1
            BY <3>3, <5>2, <6>1
          <6> QED  BY <3>3, <6>2
        <5> QED  BY <5>1, <5>2 DEF Quiet
      <4> HIDE DEF rank
      <4>3. rank + 1 \in 1..Len(seen)
        BY <2>1, <3>1, <3>3, <4>1, <4>2
      <4>4. seen[rank + 1] \in table /\ Rank(SentOrder, table, seen[rank + 1]) = rank
        BY <2>2, <2>3, <2>5, <4>1, <4>3
      <4>5. seen[rank + 1] = r
        BY <3>2, <3>3, <4>4, OneRowPerRank DEF rank
      <4> QED  BY <2>1, <4>3, <4>5
    <3>5. ASSUME table = first.table PROVE Len(seen) = answer.total
      <4>1. Cardinality(table) <= Len(seen)
        BY <3>1, <3>5
      <4>2. Len(seen) <= Cardinality(table)
        <5>1. CASE Len(seen) = 0
          BY <3>3, <5>1
        <5>2. CASE Len(seen) # 0
          <6>1. Len(seen) \in 1..Len(seen)
            BY <2>1, <5>2
          <6>2. seen[Len(seen)] \in table
                  /\ Rank(SentOrder, table, seen[Len(seen)]) = Len(seen) - 1
            BY <2>1, <2>2, <2>3, <2>5, <6>1
          <6>3. Len(seen) - 1 \in 0..(Cardinality(table) - 1)
            BY <3>2, <3>3, <6>2, RankIsBelow
          <6> QED  BY <2>1, <3>3, <6>3
        <5> QED  BY <5>1, <5>2
      <4> QED  BY <2>1, <3>1, <3>3, <3>5, <4>1, <4>2
    <3> QED  BY <3>4, <3>5
  <2> QED  BY <2>4, <2>5
<1> QED  BY <1>1, Invariant, PTL
=============================================================================
