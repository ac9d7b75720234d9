------------------------------- MODULE MCStore -------------------------------
(***************************************************************************)
(* Two callers and requests that meet on the same rows: pets that move     *)
(* between categories while those are deleted, orders for a pet that is    *)
(* deleted, names already taken, references to nothing, and a payload for  *)
(* each way to be refused.                                                 *)
(***************************************************************************)
EXTENDS Store, TLC

\* The start of main.go's seed, with one row of what it has more of.
MCSeedRows ==
    [category |-> 1 :> [name |-> "Dogs"] @@ 2 :> [name |-> "Cats"],
     tag      |-> 1 :> [name |-> "friendly"],
     pet      |-> 1 :> [deleted_at |-> Null, name |-> "Buddy", status |-> "available",
                        price |-> 499, photo_urls |-> Null, category_id |-> 1],
     order    |-> 1 :> [quantity |-> 1, status |-> "placed", ship_date |-> "tomorrow",
                        pet_id |-> 1]]
MCSeedLinks == {<<1, 1>>}

On(kind, op, ids, body) == [kind |-> kind, op |-> op, ids |-> ids, body |-> body]
Only1(kind, op) == On(kind, op, {1}, Empty)

Writes == {
    On("pet", "create", {}, [name |-> "Rex", category_id |-> 2, price |-> 0, status |-> Null]),
    On("pet", "patch", {1}, [category_id |-> 2]),
    On("pet", "patch", {1}, [price |-> Null, photo_urls |-> <<>>, status |-> "sold"]),
    Only1("pet", "delete"),
    On("order", "create", {}, [quantity |-> 2, pet_id |-> 1]),
    On("order", "patch", {1}, [ship_date |-> Null]),
    On("category", "create", {}, [name |-> "Birds"]),
    On("category", "patch", {1}, [name |-> "Cats"]),
    Only1("category", "delete"),
    Only1("tag", "delete")}

Batches == {
    On("pet", "batch", {1, 2}, Empty), On("category", "batch", {1, 2}, Empty)}

Reads1 == {
    Only1("pet", "get"), On("pet", "list", {}, [status |-> "available"]),
    Only1("order", "get"), On("order", "list", {}, Empty),
    On("category", "list", {}, [_q |-> "Dogs"]), Only1("tag", "get")}

Refused == {
    On("pet", "create", {}, [name |-> "Rex", category_id |-> 9]),
    On("pet", "create", {}, [name |-> "", category_id |-> 1]),
    On("pet", "patch", {1}, [status |-> Null]),
    On("pet", "list", {}, [category_id |-> 1]),
    On("order", "create", {}, [quantity |-> 0, pet_id |-> 1]),
    On("order", "patch", {1}, [quantity |-> 0, status |-> "approved"]),
    On("order", "patch", {1}, [pet_id |-> 9]),
    Only1("order", "delete"),
    On("tag", "patch", {Junk}, [name |-> "young"]),
    On("tag", "list", {}, [_q |-> "young"])}

MCRequests == Writes \cup Batches \cup Reads1 \cup Refused
=============================================================================
