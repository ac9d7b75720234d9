----------------------------- MODULE MCPresence -----------------------------
(* TLC instances of Presence: one field of every shape beside a plain one. *)
EXTENDS Presence

CONSTANTS f, g

PlainShape == [optional |-> TRUE, default |-> FALSE, nillable |-> TRUE, immutable |-> FALSE,
               word |-> "none", type |-> "int"]

MCSchemas == {s \in [Field -> Shape] : s[g] = PlainShape}

MCEntries == {e \in Entry : (e.key # f => e.value = "v" /\ (e.key = "other" => ~e.variant))
                              /\ (e.variant => e.value \in {"v", "null"})}

MCBodies == {<<>>} \cup {<<e>> : e \in MCEntries} \cup {<<d, e>> : d, e \in MCEntries}
=============================================================================
