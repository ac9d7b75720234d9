---------------------------- MODULE MCFiltering -----------------------------
(* TLC instances of Filtering.                                             *)
EXTENDS Filtering

MCKind == {"string", "enum", "int", "bool", "json"}

Ordered == {"EQ", "NEQ", "In", "NotIn", "GT", "GTE", "LT", "LTE"}

MCEntOps == [string |-> Slot, int |-> Ordered, enum |-> {"EQ", "NEQ", "In", "NotIn"},
             bool |-> {"EQ", "NEQ"}, json |-> {}]

V(op, parts) == [op |-> op, parts |-> parts]

MCValues ==
    {V("", <<"1">>), V("", <<"">>), V("", <<"x">>), V("eq", <<"">>), V("eq", <<"1">>),
     V("eq", <<"is_null">>), V("ne", <<"1">>), V("gt", <<"1">>), V("ge", <<"2">>),
     V("lt", <<"2">>), V("le", <<"1">>), V("from", <<"2">>), V("to", <<"2">>),
     V("between", <<"1", "2">>), V("between", <<"2", "1">>), V("between", <<"1">>),
     V("in", <<"1", "2">>), V("in", <<"1", "x">>), V("not_in", <<"1">>),
     V("like", <<"1">>), V("ilike", <<"">>), V("prefix", <<"1">>), V("suffix", <<"2">>),
     V("is_null", <<"">>), V("is_null", <<"1">>), V("not_null", <<"">>),
     V("foo", <<"1">>), V("", <<"1", "2">>)}

\* Every literal the values and the rows can be read as.
Numbers == {<<"", "1">>, <<"", "2">>}
Literals == Numbers \cup {<<"", "">>, <<"", "x">>, <<"", "is_null">>, <<"foo", "1">>,
                          <<"", "1", "2">>, <<"", "3">>}

MCConverts == [string |-> Literals, int |-> Numbers \cup {<<"", "3">>}, enum |-> Numbers,
               bool |-> Numbers, json |-> {}]

MCRank == [l \in Literals |->
    CASE l = <<"", "">>       -> 0  [] l = <<"", "1">> -> 1  [] l = <<"", "1", "2">> -> 2
      [] l = <<"", "2">>      -> 3  [] l = <<"", "3">> -> 4  [] l = <<"foo", "1">>   -> 5
      [] l = <<"", "is_null">> -> 6 [] OTHER -> 7]

MCShapes == Shape
MCTerms  == {<<"", "1">>, <<"", "">>}
MCRows   == Literals \cup {Null}
=============================================================================
