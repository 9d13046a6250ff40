------------------------------- MODULE MCMdc --------------------------------
(***************************************************************************)
(* Small instances of Mdc for TLC.                                         *)
(***************************************************************************)
EXTENDS Mdc, TLC

\* Two or three keys that may be set and one that mdclog_mdc_add() refuses.
TwoKeys == {<<"a">>, <<"b">>, <<Quote>>}
ThreeKeys == TwoKeys \cup {<<"c">>}

\* A plain value, and one with all the characters that are not copied as is.
OneValue == {<<Quote, Unprintable>>}
TwoValues == {<<"x">>, <<Quote, Unprintable, Backslash>>}

\* Entries and threads are interchangeable.
Interchangeable == Permutations(Nodes) \cup Permutations(Threads)
=============================================================================
