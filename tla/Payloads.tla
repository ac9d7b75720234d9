------------------------------ MODULE Payloads ------------------------------
(***************************************************************************)
(* What the four entities of examples/petstore share: the JSON object of a *)
(* request after decoding, the mutation a builder collects, and the row    *)
(* that mutation is written to.                                            *)
(*                                                                         *)
(* A payload b is a function from the keys it carried to values; a row is  *)
(* a function from columns to values.  created_at, which no request can    *)
(* set, is left out of both.                                               *)
(***************************************************************************)
EXTENDS Naturals

CONSTANTS
    Null,   \* JSON's null, SQL's NULL, Go's nil
    Junk    \* a value of a JSON type the field has not, an id that is no int

Tombstone == "deleted"      \* any time in deleted_at

Carries(b, k) == k \in DOMAIN b /\ b[k] # Null
Clears(b, k)  == k \in DOMAIN b /\ b[k] = Null

\* BindJSON: keys outside the tags are refused, then each value is decoded.
Decodes(b, tags) == DOMAIN b \subseteq tags /\ \A k \in DOMAIN b : b[k] # Junk

\* A field of value type after decoding: null leaves Go's zero value.
Field(b, k, zero) == IF Carries(b, k) THEN b[k] ELSE zero

-----------------------------------------------------------------------------
\* A mutation: the columns set, with their values, and the columns cleared.
NoChange == [set |-> [k \in {} |-> Null], cleared |-> {}]

Given(m, k) == k \in DOMAIN m.set

Put(m, k, v) ==
    [m EXCEPT !.set = [x \in DOMAIN @ \cup {k} |-> IF x = k THEN v ELSE @[x]]]

\* SetX only for a key that carried a value.
PutCarried(b, ks) ==
    [set |-> [k \in {x \in ks : Carries(b, x)} |-> b[k]], cleared |-> {}]

PutOrClear(b, ks) ==
    [set |-> PutCarried(b, ks).set, cleared |-> {k \in ks : Clears(b, k)}]

\* A default fills what is not given.
PutDefault(m, k, v) == IF Given(m, k) THEN m ELSE Put(m, k, v)

\* An INSERT names the columns given, the others are NULL.
Inserted(m, columns) == [c \in columns |-> IF Given(m, c) THEN m.set[c] ELSE Null]

\* An UPDATE leaves the columns alone that the mutation does not name.
Overlay(row, m) ==
    [c \in DOMAIN row |-> IF Given(m, c) THEN m.set[c]
                          ELSE IF c \in m.cleared THEN Null ELSE row[c]]

-----------------------------------------------------------------------------
\* A NULL scanned into a Go value, and a Go value on the wire.
Scan(v, zero)     == IF v = Null THEN zero ELSE v
PtrOrNil(v, zero) == IF v = zero THEN Null ELSE v
=============================================================================
