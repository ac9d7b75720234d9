------------------------------ MODULE MCPaging ------------------------------
(* TLC instances of Paging: a 4-bit int, so that pages well within the     *)
(* values sent wrap onto small positive offsets.                           *)
EXTENDS Paging

\* Two rows tie on each column, and the ties cross.
MCCell == <<[rank |-> 1, kind |-> 1], [rank |-> 1, kind |-> 2],
            [rank |-> 0, kind |-> 2], [rank |-> 0, kind |-> 1]>>

MCPages == {<<>>, <<1>>, <<2>>, <<3>>, <<6>>, <<7>>, <<0>>, <<-1>>, <<8>>, <<1, 2>>}
MCSizes == {<<>>, <<1>>, <<2>>, <<5>>, <<0>>}
MCSorts == {<<>>, << <<>> >>, << << <<"rank", "">> >> >>, << << <<"rank", "desc">> >> >>,
            << << <<"rank", "desc">>, <<"kind", "asc">> >> >>,
            << << <<"id", "desc">>, <<"rank", "">> >> >>,
            << << <<"secret", "">> >> >>, << << <<"rank", "up">> >> >>,
            << << <<"rank", "">> >>, << <<"kind", "">> >> >>}
=============================================================================
