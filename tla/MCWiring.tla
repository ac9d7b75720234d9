------------------------------ MODULE MCWiring ------------------------------
(* TLC instances of Wiring. *)
EXTENDS Wiring, TLC

CONSTANTS d1, d2, t1, k1, k2, c1, c2

Ctx(i, h)  == [included |-> i, hard |-> h]
MCSwitches == {Ctx(FALSE, FALSE), Ctx(TRUE, FALSE), Ctx(FALSE, TRUE)}

Has(k, d) == [key |-> k, ref |-> d, deletedAt |-> 0]

\* A doc, with a draft that refers to it or none yet, and room for a second doc.
MCSeedPair ==
    {[i \in {d1, d2, t1} |-> CASE i = d1 -> Has(k1, "none") [] i = d2 -> NoRow
                               [] OTHER -> draft] : draft \in {Has(k1, d1), NoRow}}

MCSymmetry == Permutations({c1, c2})
=============================================================================
