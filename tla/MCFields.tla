------------------------------ MODULE MCFields ------------------------------
(***************************************************************************)
(* A small instance of Fields for TLC: two of the five fields.             *)
(***************************************************************************)
EXTENDS Fields, TLC

MCLogFields == <<<<"s">>, <<"h">>>>
MCPidKey == <<"p">>
MCPidText == <<"1">>

\* A value that has to be escaped.
MCGiven == {<<Quote>>}

MCKeys == {<<"s">>, <<"h">>, <<"p">>, <<"a">>}
MCValues == {<<Quote>>, <<"1">>, <<>>}

\* A pair of the application, a field that it sets itself, and a clean context.
MCAppRequests ==
    {[op |-> "add", key |-> <<"a">>, value |-> <<"1">>],
     [op |-> "add", key |-> <<"h">>, value |-> <<"1">>],
     [op |-> "clean", key |-> NULL, value |-> NULL]}

Interchangeable == Permutations(Threads)
=============================================================================
