------------------------------ MODULE MCMonitor -----------------------------
(***************************************************************************)
(* Small instances of Monitor for TLC.                                     *)
(***************************************************************************)
EXTENDS Monitor

\* A file with a level and one with a level that is unknown.
Sound == {<<"other", "INFO">>, <<"odd">>}

\* Lines that strtok() finds no token or no value in.
Invalid == {<<"other", "bare">>, <<"empty">>}
=============================================================================
