------------------------------ MODULE MCConfig ------------------------------
(***************************************************************************)
(* Small instances of Config for TLC.                                      *)
(***************************************************************************)
EXTENDS Config

\* An identity that may be set and two that mdclog_attr_set_ident() refuses.
MCIdents == {<<"a">>, <<Backslash>>, <<"a", "a">>}

\* A program name that has to be escaped.
MCProgName == <<"p", Quote>>

\* malloc() takes the first free place.  Which one it takes cannot be seen as
\* long as every pointer has a string of its own, and SoleOwner fails at once
\* when one has not.
FirstFree(free) == IF free = {} THEN {} ELSE {CHOOSE s \in free : TRUE}
=============================================================================
