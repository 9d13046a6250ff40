------------------------------ MODULE JsonText ------------------------------
(***************************************************************************)
(* The character-level helpers of json_format.c, as operators on sequences *)
(* of characters.  The formatter tells four kinds of characters apart: the *)
(* backslash and the quote, which JSON requires to be escaped, the ones    *)
(* isprint() rejects, which are replaced by a space, and all the others.   *)
(***************************************************************************)
EXTENDS Integers, SequencesExt

Backslash == "\\"
Quote == "\""
Space == " "
Unprintable == "\t"      \* stands for every character isprint() rejects

\* The characters the escape loop prefixes with a backslash.
NeedsEscape(c) == c \in {Backslash, Quote}

\* Mutant: every character is copied as it is.
PrintedAsIs(c) == c

Printed(c) == IF c = Unprintable THEN Space ELSE c

\* Mutant: only quotes are escaped.
ImageQuotesOnly(c) == IF c = Quote THEN <<Backslash, c>> ELSE <<Printed(c)>>

\* What one turn of the escape loop writes for the character c.
Image(c) == IF NeedsEscape(c) THEN <<Backslash, c>> ELSE <<Printed(c)>>

\* mdclog_internal_escape() into a buffer that is large enough for all of str.
Escaped(str) == FlattenSeq([i \in DOMAIN str |-> Image(str[i])])

\* mdclog_internal_contains_special_characters().
ContainsSpecial(str) ==
    \E i \in DOMAIN str : str[i] = Unprintable \/ NeedsEscape(str[i])

\* One turn of the loop of mdclog_internal_deescape() reads one character, or a
\* backslash and the one behind it, until the buffer of len bytes is full.
DeescapeTurn(len, done, c) ==
    IF done.bad \/ (Len(done.out) = len - 1 /\ ~done.escape) THEN done
    ELSE CASE ~done.escape /\ c = Backslash -> [done EXCEPT !.escape = TRUE]
           [] done.escape /\ ~NeedsEscape(c) -> [done EXCEPT !.bad = TRUE]
           [] OTHER -> [done EXCEPT !.out = Append(@, c), !.escape = FALSE]

\* What it leaves in the buffer: nothing if a backslash has not its character.
Deescaped(str, len) ==
    LET start == [out |-> <<>>, escape |-> FALSE, bad |-> FALSE]
        end == FoldLeft(LAMBDA done, c : DeescapeTurn(len, done, c), start, str)
    IN  IF end.bad \/ end.escape THEN <<>> ELSE end.out

-----------------------------------------------------------------------------
\* One step of a reader of the inside of a JSON string: "plain" between
\* characters, "escape" after a backslash, "broken" once the text would end
\* the string early or is not legal JSON.
Scan(state, c) ==
    CASE state = "broken"                        -> "broken"
      [] state = "escape"                        -> IF NeedsEscape(c) THEN "plain" ELSE "broken"
      [] state = "plain" /\ c = Backslash        -> "escape"
      [] state = "plain" /\ c \in {Quote, Unprintable} -> "broken"
      [] OTHER                                   -> "plain"

\* The text can stand between two quotes of a log entry as it is.
JsonSafe(text) == FoldLeft(Scan, "plain", text) = "plain"
=============================================================================
