------------------------------ MODULE MCSchema ------------------------------
EXTENDS Schema, TLC

\* A field of a type, with the flags and words that hold of it.
F(type, flags, words) ==
    [type |-> type, optional |-> "optional" \in flags, default |-> "default" \in flags,
     immutable |-> "immutable" \in flags, sensitive |-> "sensitive" \in flags,
     reserved |-> "reserved" \in flags, words |-> words, stray |-> FALSE]

E(target, required, field, ref, note) ==
    [target |-> target, required |-> required, field |-> field, ref |-> ref,
     stray |-> FALSE, note |-> note]

N(resource, except, tombstone, fields, edges) ==
    [resource |-> resource, except |-> except, tombstone |-> tombstone,
     id |-> F("int", {}, {}), fields |-> fields, edges |-> edges]

Expanded == [bare |-> FALSE, expand |-> TRUE, key |-> None]

Pet  == <<"Pet">>
Kind == <<"Kind">>
Name == <<"Name">>

\* A pet of a kind: a required edge with its field, expanded; a write-only field.
Shop == Pet :> N(TRUE, {}, None,
                 Name :> F("string", {}, {"Searchable"})
                   @@ <<"Kind", "ID">> :> F("int", {}, {"Filterable"})
                   @@ <<"Secret">> :> F("string", {"optional", "sensitive"}, {}),
                 Kind :> E(Kind, TRUE, <<"Kind", "ID">>, None, Expanded))
     @@ Kind :> N(TRUE, {"create", "patch"}, None, Name :> F("enum", {}, {"Hidden"})
                   @@ <<"Apply">> :> F("int", {"immutable"}, {}), <<>>)

\* A tree over itself, and a tombstone; Name and HasName side by side.
Trees == Pet :> N(TRUE, {}, <<"Deleted">>,
                  <<"Deleted">> :> F("int", {"optional"}, {"Hidden"})
                    @@ Name :> F("string", {"default"}, {"Sortable"})
                    @@ Has(Name) :> F("json", {"optional"}, {"ReadOnly"}),
                  <<"Parent">> :> E(Pet, FALSE, None, <<"Children">>, Expanded)
                    @@ <<"Children">> :> E(Pet, FALSE, None, None, Expanded)
                    @@ Kind :> E(Kind, FALSE, None, None, Bare))
     @@ Kind :> N(TRUE, {"patch"}, None, Name :> F("bytes", {"optional"}, {}),
                  Pet :> E(Pet, TRUE, None, None, Bare))

Plain == N(FALSE, {}, None, Name :> F("string", {"reserved"}, {}), <<>>)

MCSeeds == {Shop, Trees}
MCBlank == Plain
MCPool  == {<<"API">>, <<"Get", "Pet">>, <<"Pet", "List">>, <<"Pet", "Create", "Request", "Tags">>,
            <<"Pet", "Create", "Request">>, <<"List", "Pet", "s", "Fn">>}
=============================================================================
