---------------------------- MODULE MCJsonFormat ----------------------------
(***************************************************************************)
(* Small instances of JsonFormat for TLC: short fixed texts, and buffers   *)
(* from one too short up to one that every entry fits into.                *)
(***************************************************************************)
EXTENDS JsonFormat

Words(chars, n) == UNION {[1..i -> chars] : i \in 0..n}

MCLens == 6..31
MCIdentities == {<<"a">>}
MCContexts == {<<>>, <<2>>, <<3, 2>>}
MCMessages == Words({"x", Backslash, Quote}, 4) \cup {<<Unprintable>>}

\* Pairs that leave about 20 bytes of a buffer of PIPE_BUF - 1 bytes.
LongContexts == {<<4023>>, <<4024>>, <<4025>>}

\* The name of a program, escaped, that has a quote as its 100th character.
LongIdentities == {[i \in 1..99 |-> "a"] \o <<Backslash, Quote>>}

OneMessage == {<<"x">>}
=============================================================================
