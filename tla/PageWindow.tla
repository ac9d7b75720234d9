----------------------------- MODULE PageWindow -----------------------------
(***************************************************************************)
(* runtime/query.go: which rows a page number and a page size stand for.   *)
(* A Go int holds -MaxInt-1..MaxInt and its products wrap.                 *)
(***************************************************************************)
EXTENDS Integers

CONSTANTS MaxInt, DefaultPageSize, MaxPageSize

\* types.go: DefaultPageSize = 20, MaxPageSize = 1000.
ASSUME PageWindowAssumption ==
    /\ MaxInt \in Nat
    /\ MaxPageSize \in 1..MaxInt
    /\ DefaultPageSize \in 1..MaxPageSize

GoInt == (-MaxInt - 1)..MaxInt

Wrap(n) == ((n + MaxInt + 1) % (2 * (MaxInt + 1))) - MaxInt - 1

\* Go's division truncates towards zero; b is positive.
Quotient(a, b) == IF a >= 0 THEN a \div b ELSE -((-a) \div b)

Limit(size) ==
    IF size <= 0 THEN DefaultPageSize
    ELSE IF size > MaxPageSize THEN MaxPageSize ELSE size

\* The sign of a product that wrapped twice says nothing.
OffsetBySign(page, size) ==
    IF page <= 1 THEN 0
    ELSE IF Wrap((page - 1) * Limit(size)) < 0 THEN MaxInt
         ELSE Wrap((page - 1) * Limit(size))

Offset(page, size) ==
    IF page <= 1 THEN 0
    ELSE LET off == Wrap((page - 1) * Limit(size)) IN
         IF Quotient(off, Limit(size)) # page - 1 THEN MaxInt ELSE off
=============================================================================
