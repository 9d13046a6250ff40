----------------------------- MODULE JsonFormat -----------------------------
(***************************************************************************)
(* The formatter of src/json_format.c: one call of                         *)
(* mdclog_internal_format_to_json_str(), which writes a log entry into a   *)
(* buffer of a given length, field after field, leaving out the fields     *)
(* that do not fit and cutting the message; and one call of                *)
(* escape_and_copy() of src/mdc.c, which uses the same escape loop.        *)
(*                                                                         *)
(* The buffer is modelled by the bytes in it that count, those before the  *)
(* current offset, and by how much of it has ever been written to.  The    *)
(* fixed texts and the fields other than the identity and the message are  *)
(* abstracted to their lengths.                                            *)
(***************************************************************************)
EXTENDS Integers, SequencesExt, JsonText

CONSTANTS
    Open,           \* the length of "msg":" , 7
    Marker,         \* strlen(TRUNCATED), 11
    IdOpen,         \* the length of "id":" , 6
    MdcOpen,        \* the length of "mdc":{ , 7
    MaxIdent,       \* IDENTITY_MAX_LENGTH, 100
    MinBuffer,      \* MIN_BUFFER_LENGTH, 1000
    Lens,           \* the lengths of the buffers that are passed
    Stamps,         \* the lengths of the timestamp field
    Severities,     \* the lengths of the severity field, 0 for a value that is none
    Identities,     \* the identities, as init_library() stores them
    Contexts,       \* the lengths of the pairs of a context, comma included
    Messages,       \* the messages, as vsnprintf() would write them in full
    CanFail         \* TRUE if malloc() and vsnprintf() may fail

LeftBrace == "{"
RightBrace == "}"
Comma == ","

MinMessage == Open + Marker + 1     \* strlen(MINIMUM_MESSAGE)

ASSUME LengthAssumption ==
    /\ {Open, Marker, IdOpen, MdcOpen} \subseteq Nat \ {0} /\ MaxIdent \in Nat
    /\ Lens \subseteq Nat /\ MinBuffer \in Nat /\ MinBuffer >= MinMessage + 2
    /\ Stamps \subseteq Nat \ {0} /\ Severities \subseteq Nat
    /\ \A c \in Contexts : c \in Seq(Nat \ {0})

\* The characters of all texts; an identity has been refused or escaped if one
\* of its own could not be printed.
Chars == UNION {Range(str) : str \in Messages \cup Identities}

ASSUME TextAssumption ==
    /\ \A str \in Messages \cup Identities : str \in Seq(Chars)
    /\ \A id \in Identities : Unprintable \notin Range(id)

VARIABLES
    input,      \* the arguments of the call
    pc,         \* the field or the loop the call is at
    text,       \* buffer[0..offset-1]
    top,        \* the number of bytes of buffer that have been written to
    base, limit,    \* where the buffer of the loop the call is in begins, and its len
    k,          \* how many pairs, or characters of the message, the loop has done
    printed,    \* the message as far as vsnprintf() has come with it
    truncated

loop == <<base, limit, k>>
vars == <<input, pc, text, top, loop, printed, truncated>>

-----------------------------------------------------------------------------
Inputs ==
    [op : {"format"}, len : Lens, ts : Stamps, crit : Severities, id : Identities,
     pairs : Contexts, msg : Messages]

Copies == [op : {"copy"}, len : {0}, msg : Messages]

Bytes(c, n) == [i \in 1..n |-> c]

\* Mutant: no room for the ending zero.
EscapedSizeNoZero(str) == Len(str) + Cardinality({i \in DOMAIN str : NeedsEscape(str[i])})

\* mdclog_internal_escaped_size().
EscapedSize(str) == Len(str) + Cardinality({i \in DOMAIN str : NeedsEscape(str[i])}) + 1

\* The part of the identity that format_identity() shows.
Shown(id) == SubSeq(id, 1, Min({Len(id), MaxIdent}))

FieldText(f) ==
    CASE f = "id"  -> Bytes("id", IdOpen) \o Shown(input.id) \o <<Quote>>
      [] OTHER     -> Bytes(f, input[f])

\* What format_log_entry() lets the next field use.  It computes this with an
\* unsigned type; InBounds says that it is never negative.
Budget == input.len - Len(text) - MinMessage - 1

\* Bytes up to the n-th one have been written to.
Wrote(n) == top' = Max({top, n})

\* A step that only adds to the buffer.
Goto(from, to) ==
    pc = from /\ pc' = to /\ UNCHANGED <<input, loop, printed, truncated>>

Init ==
    /\ input \in Inputs \cup Copies
    /\ pc = "start"
    /\ text = <<>>
    /\ top = 0
    /\ base = 0 /\ limit = 0 /\ k = 0
    /\ printed = <<>> /\ truncated = FALSE

\* mdclog_internal_format_to_json_str() and the first byte of the entry.
Begin ==
    /\ Goto("start", "ts")
    /\ input.op = "format" /\ input.len >= MinBuffer
    /\ text' = <<LeftBrace>>
    /\ Wrote(1)

TooShort ==
    /\ Goto("start", "failed")
    /\ input.op = "format" /\ input.len < MinBuffer
    /\ UNCHANGED <<text, top>>

\* escape_and_copy() allocates what mdclog_internal_escaped_size() says.
BeginCopy ==
    /\ pc = "start" /\ input.op = "copy"
    /\ limit' = EscapedSize(input.msg)
    /\ printed' = input.msg
    /\ pc' = "escape"
    /\ UNCHANGED <<input, text, top, base, k, truncated>>

-----------------------------------------------------------------------------
After(f) == CASE f = "ts" -> "crit" [] f = "crit" -> "id" [] f = "id" -> "mdc"

\* format_timestamp(), format_severity(), format_identity(): snprintf() tells
\* the length the field would have; one that fits is followed by a comma.
AddField(f) ==
    /\ Goto(f, After(f))
    /\ LET n == Len(FieldText(f)) IN
         /\ 0 < n /\ n < Budget
         /\ text' = text \o FieldText(f) \o <<Comma>>
         /\ Wrote(Len(text) + n + 1)

\* A field that does not fit, or a severity that is none, is taken back by a
\* zero at its first byte, whether or not there is room for it.
SkipField(f) ==
    /\ Goto(f, After(f))
    /\ LET n == Len(FieldText(f)) IN
         /\ n = 0 \/ n >= Budget
         /\ Wrote(Len(text) + (IF n = 0 THEN 1 ELSE Max({1, Budget})))
    /\ UNCHANGED text

-----------------------------------------------------------------------------
\* format_mdc() opens the object if the closing brace fits too.
OpenMdc ==
    /\ pc = "mdc"
    /\ MdcOpen + 1 < Budget
    /\ text' = text \o Bytes("mdc", MdcOpen)
    /\ base' = Len(text) /\ limit' = Budget /\ k' = 0
    /\ Wrote(Len(text) + MdcOpen + 1)
    /\ pc' = "pairs"
    /\ UNCHANGED <<input, printed, truncated>>

SkipMdc ==
    /\ Goto("mdc", "message")
    /\ MdcOpen + 1 >= Budget
    /\ Wrote(Len(text) + Max({1, Min({MdcOpen + 1, Budget})}))
    /\ UNCHANGED text

\* What is left of the buffer of the loop.
Left == limit - (Len(text) - base)

PairFits == k < Len(input.pairs) /\ input.pairs[k + 1] < Left

\* One pair of the context.
AddPair ==
    /\ pc = "pairs" /\ PairFits
    /\ text' = text \o Bytes("pair", input.pairs[k + 1] - 1) \o <<Comma>>
    /\ Wrote(Len(text') + 1)
    /\ k' = k + 1
    /\ UNCHANGED <<input, pc, base, limit, printed, truncated>>

\* Mutant: a pair that does not fit does not end the loop.
PairsAtEnd == k = Len(input.pairs)

\* The loop is at its end or the next pair does not fit.
PairsDone == ~PairFits

\* The last comma makes way for the brace; a pair that did not fit has filled all
\* that was left.
CloseMdc ==
    /\ Goto("pairs", "message") /\ PairsDone
    /\ text' = (IF k > 0 THEN Front(text) ELSE text) \o <<RightBrace, Comma>>
    /\ Wrote(IF k = Len(input.pairs) THEN Len(text') ELSE Max({base + limit, Len(text')}))

-----------------------------------------------------------------------------
\* What format_message() may use.
MessageBudget == input.len - Len(text) - 1

\* format_message() begins, with a buffer for the message in full.  If vsnprintf()
\* fails, the buffer has what came before the argument it could not print, and
\* its result, -1 in an unsigned type, plus one is zero: not too long.
OpenMessage ==
    /\ pc = "message"
    /\ MessageBudget > MinMessage
    /\ text' = text \o Bytes("msg", Open - 1) \o <<Quote>>
    /\ base' = Len(text) + Open /\ limit' = MessageBudget - Open - 1 /\ k' = 0
    /\ \/ /\ printed' = input.msg
          /\ truncated' = (Len(input.msg) + 1 >= MessageBudget - Open)
       \/ /\ CanFail
          /\ printed' \in {p \in Prefixes(input.msg) : Len(p) <= limit'}
          /\ truncated' = FALSE
    /\ Wrote(Len(text) + Open + 1)
    /\ pc' = "escape"
    /\ UNCHANGED input

\* There is no room for the shortest message, or no memory for the buffer once
\* the opening of the message has been written: the whole entry is dropped.
DropEntry ==
    /\ Goto("message", "failed")
    /\ \/ MessageBudget <= MinMessage /\ Wrote(Len(text) + 1)
       \/ MessageBudget > MinMessage /\ CanFail /\ Wrote(Len(text) + Open + 1)
    /\ text' = <<>>

\* The string mdclog_internal_escape() is given: all of it for a copy, what
\* vsnprintf() had room for in a log entry.
Str == SubSeq(printed, 1, Min({Len(printed), limit}))

\* Mutant: the last byte of the buffer is not kept for the zero.
LoopingTooFar == Len(text) - base < limit /\ k < Len(Str)

Looping == Len(text) - base < limit - 1 /\ k < Len(Str)

EscapeNext ==
    /\ pc = "escape"
    /\ Looping
    /\ text' = text \o Image(Str[k + 1])
    /\ Wrote(Len(text'))
    /\ k' = k + 1
    /\ UNCHANGED <<input, pc, base, limit, printed, truncated>>

\* Mutant: it is not noticed that the last turn reached the end of the buffer.
NeverAtEnd == FALSE

\* The last turn of the loop has written a pair up to the end of the buffer.
PairAtEnd == Len(text) - base = limit

\* The loop is over; the zero takes the place of both bytes of a pair at the end.
EscapeDone ==
    /\ pc = "escape"
    /\ ~Looping
    /\ text' = IF PairAtEnd THEN SubSeq(text, 1, base + limit - 2) ELSE text
    /\ truncated' = (truncated \/ PairAtEnd \/ k < Len(Str))
    /\ Wrote(Len(text') + 1)
    /\ pc' = (IF input.op = "copy" THEN "done" ELSE IF truncated' THEN "cut" ELSE "quote")
    /\ UNCHANGED <<input, loop, printed>>

-----------------------------------------------------------------------------
\* The loop that makes room for the marker.
NoRoomForMarker == (Len(text) - base + Open) + Marker >= limit + Open

\* Mutant: the loop takes one byte at a time.
OneByte(c) == 1

\* How many bytes a turn takes back when c is the last one.
Width(c) == IF NeedsEscape(c) THEN 2 ELSE 1

CutBack ==
    /\ pc = "cut"
    /\ NoRoomForMarker
    /\ text' = SubSeq(text, 1, Len(text) - Width(Last(text)))
    /\ UNCHANGED <<input, pc, top, loop, printed, truncated>>

AddMarker ==
    /\ Goto("cut", "close")
    /\ ~NoRoomForMarker
    /\ text' = text \o Bytes("marker", Marker) \o <<Quote>>
    /\ Wrote(Len(text') + 1)

EndMessage ==
    /\ Goto("quote", "close")
    /\ text' = text \o <<Quote>>
    /\ Wrote(Len(text') + 1)

\* The last bytes of format_log_entry().
Close ==
    /\ Goto("close", "done")
    /\ text' = text \o <<RightBrace>>
    /\ Wrote(Len(text') + 1)

Next ==
    \/ Begin \/ TooShort \/ BeginCopy
    \/ \E f \in {"ts", "crit", "id"} : AddField(f) \/ SkipField(f)
    \/ OpenMdc \/ SkipMdc \/ AddPair \/ CloseMdc
    \/ OpenMessage \/ DropEntry \/ EscapeNext \/ EscapeDone
    \/ CutBack \/ AddMarker \/ EndMessage \/ Close

Spec == Init /\ [][Next]_vars

\* The call runs to its end: it waits for nothing.
FairSpec == Spec /\ WF_vars(Next)

-----------------------------------------------------------------------------
Labels == {"start", "ts", "crit", "id", "mdc", "pairs", "message", "escape", "cut", "quote",
           "close", "done", "failed"}

\* What may be in the buffer: an unprintable character never is.
Printables == {LeftBrace, RightBrace, Comma, "ts", "crit", "id", "mdc", "pair", "msg", "marker", Space}
                \cup (Chars \ {Unprintable})

TypeOK ==
    /\ input \in Inputs \cup Copies
    /\ pc \in Labels
    /\ text \in Seq(Printables \cup {Backslash, Quote})
    /\ {top, base, limit, k} \subseteq Nat
    /\ printed \in Prefixes(input.msg)
    /\ truncated \in BOOLEAN

\* The size of the buffer the caller has passed or escape_and_copy() allocated.
Size == IF input.op = "copy" THEN EscapedSize(input.msg) ELSE input.len

\* No byte beyond the buffer is ever written, the ending zero included, and no
\* length that a function of the formatter passes to another is a negative
\* number turned into a large unsigned one.
InBounds ==
    /\ pc # "start" => top <= Size
    /\ pc \in {"ts", "crit", "id", "mdc"} => Budget >= 0
    /\ pc = "message" => MessageBudget >= 0
    /\ pc = "pairs" => Left > 0
    /\ pc \in {"cut", "quote"} => Len(text) >= base

\* The shapes an entry may have: each field is there as a whole or not at all,
\* the context has the first of its pairs and no comma too many, and the
\* message, as far as it could be printed, is complete, or ends between two
\* characters with the marker.
Fields(K, n) ==
    LET part(f) == IF f \in K THEN FieldText(f) \o <<Comma>> ELSE <<>>
        pair(i) == Bytes("pair", input.pairs[i] - 1) \o (IF i < n THEN <<Comma>> ELSE <<>>)
        mdc == Bytes("mdc", MdcOpen) \o FlattenSeq([i \in 1..n |-> pair(i)]) \o <<RightBrace, Comma>>
    IN  <<LeftBrace>> \o part("ts") \o part("crit") \o part("id")
          \o (IF "mdc" \in K THEN mdc ELSE <<>>)

Message(j) ==
    Bytes("msg", Open - 1) \o <<Quote>> \o Escaped(SubSeq(printed, 1, j))
      \o (IF j < Len(printed) THEN Bytes("marker", Marker) ELSE <<>>) \o <<Quote>>

\* format_log_entry() writes entries of these shapes only, whatever does not
\* fit: never half a field and never half an escaped character.
EntryWhole ==
    pc = "done" /\ input.op = "format" =>
        \E K \in SUBSET {"ts", "crit", "id", "mdc"}, n \in 0..Len(input.pairs),
           j \in 0..Len(printed) :
               text = Fields(K, n) \o Message(j) \o <<RightBrace>>

\* A message is truncated exactly if it does not fit with its closing quote.
TruncatedWhenNeeded ==
    pc \in {"cut", "quote", "close", "done"} /\ input.op = "format" =>
        (truncated <=> Len(Escaped(printed)) >= limit)

\* escape_and_copy() never loses a character: the size it allocates is the one
\* the escape loop needs.
CopyWhole ==
    pc = "done" /\ input.op = "copy" => text = Escaped(input.msg) /\ ~truncated

\* mdclog_internal_deescape() gives back what was escaped, with a space for what
\* cannot be printed: all of it, or as many characters as its buffer can take.
CopyReversible ==
    pc = "done" /\ input.op = "copy" =>
        LET shown == [i \in DOMAIN input.msg |-> Printed(input.msg[i])] IN
        \A len \in 1..Size : Deescaped(text, len) = SubSeq(shown, 1, Min({Len(shown), len - 1}))

\* Every call returns: the loops over the context and the message, and the one
\* that goes back to make room for the marker, end.
FormatEnds == <>(pc \in {"done", "failed"})

\* "If the length of the log entry after formatting exceeds PIPE_BUF bytes, the
\* log entry is truncated": in a buffer of the required length, and with
\* memory, no entry is dropped.
EntryNotDropped ==
    pc = "failed" /\ ~CanFail => input.len < MinBuffer

\* "output: json string": what stands between the quotes of a field in an entry is
\* legal there, as far as the formatter is responsible for it: the identity too,
\* which init_library() stores escaped and format_identity() cuts.
EntryIsJson ==
    pc = "done" /\ "id" \in Range(text) => JsonSafe(Shown(input.id))
=============================================================================
