-------------------------- MODULE JsonFormatProofs --------------------------
(***************************************************************************)
(* Theorems about JsonFormat for buffers of any length and any identities, *)
(* contexts and messages.                                                  *)
(***************************************************************************)
EXTENDS JsonFormat, FiniteSetTheorems, TextLemmas

Byte == Printables \cup {Backslash, Quote}

\* What one turn of the escape loop writes: one byte, or two of which the last
\* one tells that there are two.
LEMMA ImageProperties ==
    ASSUME NEW c \in Chars
    PROVE  /\ Image(c) \in Seq(Byte)
           /\ Len(Image(c)) = Width(c)
           /\ Width(Last(Image(c))) = Width(c)
           /\ Width(c) \in {1, 2} /\ (Width(c) = 2 <=> NeedsEscape(c))
<1> USE CharsDiffer DEF NeedsEscape, Width
<1>1. CASE NeedsEscape(c)
  <2>1. Image(c) = <<Backslash, c>>
    BY <1>1 DEF Image
  <2>2. Last(Image(c)) = c
    BY <2>1 DEF Last
  <2>3. <<Backslash, c>> \in Seq(Byte)
    BY <1>1 DEF Byte, Printables
  <2>. QED  BY <1>1, <2>1, <2>2, <2>3
<1>2. CASE ~NeedsEscape(c)
  <2>1. Image(c) = <<Printed(c)>>
    BY <1>2 DEF Image
  <2>2. Printed(c) \in Byte /\ ~NeedsEscape(Printed(c))
    BY <1>2 DEF Printed, Byte, Printables
  <2>3. Last(Image(c)) = Printed(c)
    BY <2>1 DEF Last
  <2>. QED  BY <1>2, <2>1, <2>2, <2>3
<1>. QED  BY <1>1, <1>2

-----------------------------------------------------------------------------
LEMMA EscapedHeadType ==
    ASSUME NEW str \in Seq(Chars), NEW j \in 0..Len(str)
    PROVE  EscapedHead(str, j) \in Seq(Byte)
BY ImageProperties, EscapedHeadTypeIn

\* One turn of the loop.
LEMMA EscapedHeadStep ==
    ASSUME NEW str \in Seq(Chars), NEW j \in 1..Len(str)
    PROVE  /\ EscapedHead(str, j) = EscapedHead(str, j - 1) \o Image(str[j])
           /\ Len(EscapedHead(str, j)) = Len(EscapedHead(str, j - 1)) + Width(str[j])
<1>1. str[j] \in Chars /\ j - 1 \in 0..Len(str)
  OBVIOUS
<1>2. EscapedHead(str, j) = EscapedHead(str, j - 1) \o Image(str[j])
  BY ImageProperties, EscapedHeadStepIn
<1>3. EscapedHead(str, j - 1) \in Seq(Byte) /\ Image(str[j]) \in Seq(Byte) /\ Len(Image(str[j])) = Width(str[j])
  BY <1>1, EscapedHeadType, ImageProperties
<1>4. Len(EscapedHead(str, j - 1) \o Image(str[j])) = Len(EscapedHead(str, j - 1)) + Len(Image(str[j]))
  BY <1>3, ConcatProperties
<1>. QED  BY <1>2, <1>3, <1>4

LEMMA EscapedHeadFull ==
    ASSUME NEW str \in Seq(Chars)
    PROVE  EscapedHead(str, Len(str)) = Escaped(str) /\ Escaped(str) \in Seq(Byte)
<1>1. EscapedHead(str, Len(str)) = Escaped(str)
  BY EscapedHeadFullIn
<1>2. EscapedHead(str, Len(str)) \in Seq(Byte)
  BY EscapedHeadType
<1>. QED  BY <1>1, <1>2

\* The characters to escape among the first j.
Specials(str, j) == {i \in 1..j : NeedsEscape(str[i])}

LEMMA SpecialsFinite ==
    ASSUME NEW str, NEW j \in Nat
    PROVE  IsFiniteSet(Specials(str, j)) /\ Cardinality(Specials(str, j)) \in Nat
<1>1. IsFiniteSet(1..j)
  BY FS_Interval
<1>2. IsFiniteSet(Specials(str, j))
  BY <1>1, FS_Subset DEF Specials
<1>. QED  BY <1>2, FS_CardinalityType

LEMMA EscapedHeadLength ==
    ASSUME NEW str \in Seq(Chars)
    PROVE  \A j \in 0..Len(str) : Len(EscapedHead(str, j)) = j + Cardinality(Specials(str, j))
<1> DEFINE Bad == {j \in 0..Len(str) : Len(EscapedHead(str, j)) # j + Cardinality(Specials(str, j))}
<1> SUFFICES ASSUME Bad # {} PROVE FALSE
  OBVIOUS
<1>1. Bad \in SUBSET Nat
  OBVIOUS
<1>2. PICK j \in Bad : \A i \in Bad : j <= i
  BY <1>1, LeastNatural
<1>3. j # 0
  <2>1. Specials(str, 0) = {} /\ EscapedHead(str, 0) = <<>> /\ Len(<<>>) = 0
    BY EscapedHeadEmpty DEF Specials
  <2>2. Cardinality({}) = 0
    BY FS_EmptySet
  <2>. QED  BY <1>2, <2>1, <2>2, SMTT(30)
<1>4. j \in 1..Len(str) /\ j - 1 \in Nat /\ str[j] \in Chars
  BY <1>2, <1>3
<1>5. Len(EscapedHead(str, j - 1)) = j - 1 + Cardinality(Specials(str, j - 1))
  BY <1>2, <1>4
<1>6. Cardinality(Specials(str, j)) = Cardinality(Specials(str, j - 1)) + Width(str[j]) - 1
  <2>1. IsFiniteSet(Specials(str, j - 1)) /\ Cardinality(Specials(str, j - 1)) \in Nat
    BY <1>4, SpecialsFinite
  <2>2. CASE NeedsEscape(str[j])
    <3>1. Specials(str, j) = Specials(str, j - 1) \cup {j} /\ j \notin Specials(str, j - 1)
      BY <1>4, <2>2 DEF Specials
    <3>2. Cardinality(Specials(str, j)) = Cardinality(Specials(str, j - 1)) + 1
      BY <2>1, <3>1, FS_AddElement
    <3>. QED  BY <2>1, <2>2, <3>2 DEF Width
  <2>3. CASE ~NeedsEscape(str[j])
    <3>1. Specials(str, j) = Specials(str, j - 1)
      BY <1>4, <2>3 DEF Specials
    <3>. QED  BY <2>1, <2>3, <3>1 DEF Width
  <2>. QED  BY <2>2, <2>3
<1>7. Len(EscapedHead(str, j)) = Len(EscapedHead(str, j - 1)) + Width(str[j])
  BY <1>4, EscapedHeadStep
<1>8. Cardinality(Specials(str, j - 1)) \in Nat /\ Width(str[j]) \in Nat
  BY <1>4, SpecialsFinite DEF Width
<1>9. Len(EscapedHead(str, j)) = j + Cardinality(Specials(str, j))
  <2> DEFINE c == Cardinality(Specials(str, j - 1))
             w == Width(str[j])
  <2>1. Len(EscapedHead(str, j)) = j - 1 + c + w /\ Cardinality(Specials(str, j)) = c + w - 1
    BY <1>5, <1>6, <1>7
  <2>2. c \in Nat /\ w \in Nat /\ j \in Nat
    BY <1>4, <1>8
  <2> HIDE DEF c, w
  <2>. QED  BY <2>1, <2>2
<1>. QED  BY <1>2, <1>9

\* Every character takes at least one byte.
LEMMA EscapedHeadGrows ==
    ASSUME NEW str \in Seq(Chars), NEW i \in 0..Len(str), NEW j \in i..Len(str)
    PROVE  Len(EscapedHead(str, i)) + (j - i) <= Len(EscapedHead(str, j))
<1>1. Specials(str, i) \subseteq Specials(str, j)
  BY DEF Specials
<1>2. i \in Nat /\ j \in Nat /\ j \in 0..Len(str)
  OBVIOUS
<1>3. IsFiniteSet(Specials(str, j)) /\ Cardinality(Specials(str, i)) \in Nat /\ Cardinality(Specials(str, j)) \in Nat
  BY <1>2, SpecialsFinite
<1>4. Cardinality(Specials(str, i)) <= Cardinality(Specials(str, j))
  BY <1>1, <1>3, FS_Subset
<1>5. /\ Len(EscapedHead(str, i)) = i + Cardinality(Specials(str, i))
      /\ Len(EscapedHead(str, j)) = j + Cardinality(Specials(str, j))
  BY <1>2, EscapedHeadLength
<1> DEFINE c == Cardinality(Specials(str, i))
           d == Cardinality(Specials(str, j))
<1>6. c \in Nat /\ d \in Nat /\ c <= d
  BY <1>3, <1>4
<1> HIDE DEF c, d
<1>7. i + c + (j - i) <= j + d
  BY <1>2, <1>6
<1>. QED  BY <1>5, <1>7 DEF c, d

\* mdclog_internal_escaped_size() returns the size that the escaped text and its
\* ending zero take.
LEMMA EscapedSizeExact ==
    ASSUME NEW str \in Seq(Chars)
    PROVE  EscapedSize(str) = Len(Escaped(str)) + 1
<1>1. Len(Escaped(str)) = Len(str) + Cardinality(Specials(str, Len(str)))
  <2>1. Len(str) \in 0..Len(str)
    OBVIOUS
  <2>. QED  BY <2>1, EscapedHeadLength, EscapedHeadFull
<1>2. Specials(str, Len(str)) = {i \in DOMAIN str : NeedsEscape(str[i])}
  BY DEF Specials
<1>. QED  BY <1>1, <1>2 DEF EscapedSize

-----------------------------------------------------------------------------
\* What a call has before its first step, and which fields are part of a log
\* entry only.
Calling ==
    /\ pc = "start" => text = <<>> /\ top = 0 /\ base = 0 /\ k = 0 /\ truncated = FALSE
    /\ pc \notin {"start", "escape", "done"} => input.op = "format"

\* What is left of the buffer.  The loop of format_mdc() ends before the room for
\* the shortest message begins, the one of mdclog_internal_escape() two bytes
\* before the end of the entry.
Room ==
    /\ pc # "start" => top <= Size
    /\ pc \in {"ts", "crit", "id", "mdc"} => Budget >= 0
    /\ pc = "pairs" =>
           /\ Left > 0 /\ base + limit = input.len - MinMessage - 1
           /\ base + MdcOpen <= Len(text) /\ k <= Len(input.pairs)
    /\ pc = "message" => MessageBudget >= 0
    /\ pc \in {"escape", "cut", "quote", "close"} =>
           IF input.op = "copy" THEN base = 0 /\ limit = Size
                                ELSE base + limit = input.len - 2 /\ limit > Marker
    /\ pc = "close" => Len(text) <= base + limit

\* The fields written before the one at pc.
FieldsBefore(f) ==
    CASE f = "ts" -> {} [] f = "crit" -> {"ts"} [] f = "id" -> {"ts", "crit"} [] OTHER -> {"ts", "crit", "id"}

Kinds == {"ts", "crit", "id", "mdc"}
Pair(i) == Bytes("pair", input.pairs[i] - 1) \o <<Comma>>
Pairs(n) == FlattenSeq([i \in 1..n |-> Pair(i)])

\* The entry so far consists of whole fields.
FieldsWhole ==
    /\ pc \in Kinds => \E K \in SUBSET FieldsBefore(pc) : text = Fields(K, 0)
    /\ pc = "pairs" => \E K \in SUBSET FieldsBefore("mdc") :
           text = Fields(K, 0) \o Bytes("mdc", MdcOpen) \o Pairs(k)
    /\ pc = "message" => \E K \in SUBSET Kinds, n \in 0..Len(input.pairs) : text = Fields(K, n)

\* What stands before the message.
MessageFront(P) ==
    IF input.op = "copy" THEN P = <<>>
    ELSE \E K \in SUBSET Kinds, n \in 0..Len(input.pairs) :
             P = Fields(K, n) \o Bytes("msg", Open - 1) \o <<Quote>>

\* The message is there up to its j-th character.
Written(j) ==
    \E P \in Seq(Byte) : MessageFront(P) /\ Len(P) = base /\ text = P \o EscapedHead(printed, j)

\* The message consists of whole characters, and it is truncated if not all of
\* them fit.
MessageWhole ==
    /\ pc = "escape" =>
           /\ k \in 0..Len(Str) /\ Written(k)
           /\ Len(EscapedHead(printed, k)) <= limit
           /\ PairAtEnd => k > 0 /\ NeedsEscape(printed[k])
           /\ IF truncated THEN Len(printed) >= limit ELSE Len(printed) <= limit
           /\ input.op = "copy" => printed = input.msg
    /\ pc = "cut" => \E j \in 0..Len(printed) : Written(j) /\ Len(EscapedHead(printed, j)) <= limit
    /\ pc = "quote" => Written(Len(printed))
    /\ pc \in {"cut", "quote", "close", "done"} /\ input.op = "format" =>
           (truncated <=> Len(Escaped(printed)) >= limit)
    /\ pc = "cut" => truncated
    /\ pc = "quote" => ~truncated
    /\ pc = "close" => \E K \in SUBSET Kinds, n \in 0..Len(input.pairs), j \in 0..Len(printed) :
           text = Fields(K, n) \o Message(j)

Inv == TypeOK /\ Calling /\ Room /\ FieldsWhole /\ MessageWhole /\ EntryWhole /\ CopyWhole

-----------------------------------------------------------------------------
LEMMA BytesType ==
    ASSUME NEW S, NEW c \in S, NEW n \in Nat
    PROVE  Bytes(c, n) \in Seq(S) /\ Len(Bytes(c, n)) = n
BY DEF Bytes

LEMMA ByteMembers ==
    {LeftBrace, RightBrace, Comma, Quote, "ts", "crit", "id", "mdc", "pair", "msg", "marker"} \subseteq Byte
BY DEF Byte, Printables

\* The parts of a log entry's input.
LEMMA FormatInput ==
    ASSUME input \in Inputs
    PROVE  /\ input.op = "format" /\ input.len \in Nat
           /\ input["ts"] \in Nat \ {0} /\ input["crit"] \in Nat
           /\ input.id \in Identities /\ input.msg \in Seq(Chars)
           /\ input.pairs \in Seq(Nat \ {0})
BY LengthAssumption, TextAssumption DEF Inputs

LEMMA FieldTextType ==
    ASSUME input \in Inputs, NEW f \in {"ts", "crit", "id"}
    PROVE  FieldText(f) \in Seq(Byte)
<1> USE FormatInput
<1>1. CASE f = "id"
  <2>1. input.id \in Seq(Chars) /\ \A i \in 1..Len(input.id) : input.id[i] \in Byte
    <3>1. input.id \in Seq(Chars) /\ Unprintable \notin Range(input.id)
      BY TextAssumption
    <3>2. \A i \in 1..Len(input.id) : input.id[i] \in Chars /\ input.id[i] # Unprintable
      BY <3>1, SMTT(30) DEF Range
    <3>. QED  BY <3>1, <3>2 DEF Byte, Printables
  <2>2. Min({Len(input.id), MaxIdent}) \in 0..Len(input.id)
    <3>1. Len(input.id) \in Nat /\ MaxIdent \in Nat
      BY <2>1, LengthAssumption
    <3>2. Len(input.id) \in Int /\ MaxIdent \in Int
      BY <3>1
    <3>3. Min({Len(input.id), MaxIdent}) = IF Len(input.id) <= MaxIdent THEN Len(input.id) ELSE MaxIdent
      BY <3>2, MinOfTwo
    <3>. QED  BY <3>1, <3>3
  <2>3. Shown(input.id) \in Seq(Byte)
    <3> DEFINE m == Min({Len(input.id), MaxIdent})
    <3>0. m \in 0..Len(input.id) /\ Len(input.id) \in Nat
      BY <2>1, <2>2
    <3> HIDE DEF m
    <3>1. m \in Int /\ 1 \in Int /\ \A i \in 1..m : input.id[i] \in Byte
      BY <2>1, <3>0
    <3>2. SubSeq(input.id, 1, m) \in Seq(Byte)
      BY <3>1, SubSeqProperties
    <3>. QED  BY <3>2 DEF Shown, m
  <2>4. Bytes("id", IdOpen) \in Seq(Byte) /\ <<Quote>> \in Seq(Byte)
    BY ByteMembers, BytesType, LengthAssumption
  <2>. QED  BY <1>1, <2>3, <2>4, ConcatProperties DEF FieldText
<1>2. CASE f # "id"
  <2>1. FieldText(f) = Bytes(f, input[f])
    BY <1>2, Zenon DEF FieldText
  <2>2. f \in {"ts", "crit"}
    BY <1>2
  <2>3. input[f] \in Nat
    BY <2>2, Zenon
  <2>4. f \in Byte
    BY <2>2, ByteMembers
  <2>. QED  BY <2>1, <2>3, <2>4, BytesType
<1>. QED  BY <1>1, <1>2

\* A field with its comma, or nothing.
Part(K, f) == IF f \in K THEN FieldText(f) \o <<Comma>> ELSE <<>>

\* A context of n pairs.
BarePair(n, i) == Bytes("pair", input.pairs[i] - 1) \o (IF i < n THEN <<Comma>> ELSE <<>>)
BarePairs(n) == FlattenSeq([i \in 1..n |-> BarePair(n, i)])
MdcText(n) == Bytes("mdc", MdcOpen) \o BarePairs(n) \o <<RightBrace, Comma>>

LEMMA FieldsAre ==
    ASSUME NEW K, NEW n
    PROVE  Fields(K, n) = <<LeftBrace>> \o Part(K, "ts") \o Part(K, "crit") \o Part(K, "id")
                             \o (IF "mdc" \in K THEN MdcText(n) ELSE <<>>)
BY Zenon DEF Fields, Part, BarePair, BarePairs, MdcText

LEMMA PartType ==
    ASSUME input \in Inputs, NEW K, NEW f \in {"ts", "crit", "id"}
    PROVE  Part(K, f) \in Seq(Byte)
<1>1. <<Comma>> \in Seq(Byte) /\ <<>> \in Seq(Byte)
  BY ByteMembers
<1>. QED  BY <1>1, FieldTextType, ConcatProperties DEF Part

\* The pairs of a context, with a comma after each, or between them.
LEMMA PairsType ==
    ASSUME input \in Inputs, NEW n \in 0..Len(input.pairs)
    PROVE  /\ Pairs(n) \in Seq(Byte) /\ BarePairs(n) \in Seq(Byte)
           /\ [i \in 1..n |-> Pair(i)] \in Seq(Seq(Byte))
           /\ [i \in 1..n |-> BarePair(n, i)] \in Seq(Seq(Byte))
<1>1. ASSUME NEW i \in 1..n PROVE Pair(i) \in Seq(Byte) /\ BarePair(n, i) \in Seq(Byte)
  <2>1. input.pairs[i] - 1 \in Nat
    <3>1. input.pairs \in Seq(Nat \ {0})
      BY FormatInput
    <3>2. i \in 1..Len(input.pairs)
      BY <3>1
    <3>3. input.pairs[i] \in Nat \ {0}
      BY <3>1, <3>2, ElementOfSeq
    <3>. QED  BY <3>3
  <2>2. Bytes("pair", input.pairs[i] - 1) \in Seq(Byte) /\ <<Comma>> \in Seq(Byte) /\ <<>> \in Seq(Byte)
    <3>1. "pair" \in Byte /\ Comma \in Byte
      BY ByteMembers
    <3>2. Bytes("pair", input.pairs[i] - 1) \in Seq(Byte)
      BY <2>1, <3>1, BytesType
    <3>. QED  BY <3>1, <3>2
  <2>. QED  BY <2>2, ConcatProperties DEF Pair, BarePair
<1>2. [i \in 1..n |-> Pair(i)] \in Seq(Seq(Byte)) /\ [i \in 1..n |-> BarePair(n, i)] \in Seq(Seq(Byte))
  <2>1. n \in Nat
    OBVIOUS
  <2>. QED  BY <1>1, <2>1, SMTT(30)
<1>. QED  BY <1>2, FlattenType DEF Pairs, BarePairs

LEMMA FieldsType ==
    ASSUME input \in Inputs, NEW K, NEW n \in 0..Len(input.pairs)
    PROVE  Fields(K, n) \in Seq(Byte)
<1>1. /\ Part(K, "ts") \in Seq(Byte) /\ Part(K, "crit") \in Seq(Byte) /\ Part(K, "id") \in Seq(Byte)
      /\ <<LeftBrace>> \in Seq(Byte) /\ <<>> \in Seq(Byte) /\ <<RightBrace, Comma>> \in Seq(Byte)
  BY PartType, ByteMembers
<1>2. MdcText(n) \in Seq(Byte)
  <2>1. Bytes("mdc", MdcOpen) \in Seq(Byte) /\ BarePairs(n) \in Seq(Byte)
    BY BytesType, ByteMembers, LengthAssumption, PairsType
  <2>. QED  BY <1>1, <2>1, ConcatProperties DEF MdcText
<1>3. <<LeftBrace>> \o Part(K, "ts") \o Part(K, "crit") \o Part(K, "id") \in Seq(Byte)
  BY <1>1, ConcatProperties
<1>. QED  BY <1>1, <1>2, <1>3, FieldsAre, ConcatProperties
-----------------------------------------------------------------------------
\* Sequences of bytes, put together.
LEMMA Joined ==
    ASSUME NEW s \in Seq(Byte), NEW t \in Seq(Byte)
    PROVE  /\ s \o t \in Seq(Byte) /\ Len(s \o t) = Len(s) + Len(t)
           /\ Len(s) \in Nat /\ Len(t) \in Nat
BY ConcatProperties, LenProperties

LEMMA JoinedEmpty ==
    ASSUME NEW s \in Seq(Byte)
    PROVE  s \o <<>> = s /\ <<>> \o s = s /\ <<>> \in Seq(Byte) /\ Len(<<>>) = 0
BY ConcatEmptySeq, EmptySeq

LEMMA Reassociate ==
    ASSUME NEW s \in Seq(Byte), NEW t \in Seq(Byte), NEW u \in Seq(Byte)
    PROVE  (s \o t) \o u = s \o (t \o u)
BY ConcatAssociative

LEMMA HeadOfJoined ==
    ASSUME NEW s \in Seq(Byte), NEW t \in Seq(Byte)
    PROVE  SubSeq(s \o t, 1, Len(s)) = s
<1> DEFINE u == SubSeq(s \o t, 1, Len(s))
<1>1. /\ s \o t \in Seq(Byte) /\ Len(s \o t) = Len(s) + Len(t) /\ Len(s) \in Nat /\ Len(t) \in Nat
      /\ \A i \in 1..Len(s) : (s \o t)[i] = s[i]
  BY ConcatProperties, LenProperties
<1>2. \A i \in 1..Len(s) : (s \o t)[i] \in Byte
  BY <1>1, ElementOfSeq
<1>3. u \in Seq(Byte) /\ Len(u) = Len(s) /\ \A i \in 1..Len(s) : u[i] = s[i]
  <2>1. /\ u \in Seq(Byte) /\ Len(u) = (IF 1 <= Len(s) THEN Len(s) - 1 + 1 ELSE 0)
        /\ \A i \in 1..(Len(s) - 1 + 1) : u[i] = (s \o t)[1 + i - 1]
    <3>1. 1 \in Int /\ Len(s) \in Int
      BY <1>1
    <3>. QED  BY <1>2, <3>1, SubSeqProperties
  <2>2. Len(s) - 1 + 1 = Len(s) /\ \A i \in 1..Len(s) : 1 + i - 1 = i
    BY <1>1
  <2>. QED  BY <1>1, <2>1, <2>2, SMTT(30)
<1> HIDE DEF u
<1>4. u = s
  BY <1>3, SeqEqual
<1>. QED  BY <1>4 DEF u

LEMMA FrontOfJoined ==
    ASSUME NEW s \in Seq(Byte), NEW c \in Byte
    PROVE  Front(s \o <<c>>) = s
<1>1. <<c>> \in Seq(Byte) /\ Len(<<c>>) = 1
  OBVIOUS
<1>2. Len(s \o <<c>>) = Len(s) + 1 /\ Len(s) \in Nat
  BY <1>1, Joined
<1>3. Len(s \o <<c>>) - 1 = Len(s)
  BY <1>2
<1>. QED  BY <1>1, <1>3, HeadOfJoined DEF Front

-----------------------------------------------------------------------------
\* A field that fits is added to those before it.
LEMMA FieldsAdd ==
    ASSUME input \in Inputs, NEW f \in {"ts", "crit", "id"}, NEW K \in SUBSET FieldsBefore(f)
    PROVE  Fields(K \cup {f}, 0) = Fields(K, 0) \o FieldText(f) \o <<Comma>>
<1> DEFINE L == K \cup {f}
           c == <<Comma>>
           o == <<LeftBrace>>
           F == FieldText(f)
<1>1. c \in Seq(Byte) /\ o \in Seq(Byte) /\ F \in Seq(Byte) /\ <<>> \in Seq(Byte)
  BY ByteMembers, FieldTextType
<1>2. /\ Part(K, "ts") \in Seq(Byte) /\ Part(K, "crit") \in Seq(Byte) /\ Part(K, "id") \in Seq(Byte)
  BY PartType
<1>3. "mdc" \notin K /\ "mdc" \notin L
  BY DEF FieldsBefore
<1>4. /\ Fields(K, 0) = o \o Part(K, "ts") \o Part(K, "crit") \o Part(K, "id") \o <<>>
      /\ Fields(L, 0) = o \o Part(L, "ts") \o Part(L, "crit") \o Part(L, "id") \o <<>>
  BY <1>3, FieldsAre
<1>5. Part(L, f) = F \o c
  BY DEF Part
<1>6. CASE f = "ts"
  <2>1. Part(K, "ts") = <<>> /\ Part(K, "crit") = <<>> /\ Part(K, "id") = <<>>
    BY <1>6 DEF Part, FieldsBefore
  <2>2. Part(L, "crit") = <<>> /\ Part(L, "id") = <<>>
    BY <1>6 DEF Part, FieldsBefore
  <2> DEFINE q == o
  <2>3. q \in Seq(Byte) /\ Fields(K, 0) = q
    BY <1>1, <1>2, <1>4, <2>1, Joined, JoinedEmpty
  <2> HIDE DEF L, c, o, F
  <2>4. F \o c \in Seq(Byte) /\ Part(L, "ts") = F \o c
    BY <1>1, <1>5, <1>6, Joined
  <2>5. q \o (F \o c) \in Seq(Byte)
    BY <2>3, <2>4, Joined
  <2>6. Fields(L, 0) = q \o (F \o c) \o <<>> \o <<>> \o <<>>
    BY <1>4, <2>2, <2>4
  <2> HIDE DEF q
  <2>7. Fields(L, 0) = q \o (F \o c)
    BY <2>5, <2>6, JoinedEmpty
  <2>8. Fields(L, 0) = q \o F \o c
    BY <1>1, <2>3, <2>7, Reassociate
  <2>. QED  BY <2>3, <2>8 DEF L, c, F
<1>7. CASE f = "crit"
  <2>1. Part(K, "crit") = <<>> /\ Part(K, "id") = <<>>
    BY <1>7 DEF Part, FieldsBefore
  <2>2. Part(L, "ts") = Part(K, "ts") /\ Part(L, "id") = <<>>
    BY <1>7 DEF Part, FieldsBefore
  <2> DEFINE q == o \o Part(K, "ts")
  <2>3. q \in Seq(Byte) /\ Fields(K, 0) = q
    BY <1>1, <1>2, <1>4, <2>1, Joined, JoinedEmpty
  <2> HIDE DEF L, c, o, F
  <2>4. F \o c \in Seq(Byte) /\ Part(L, "crit") = F \o c
    BY <1>1, <1>5, <1>7, Joined
  <2>5. q \o (F \o c) \in Seq(Byte)
    BY <2>3, <2>4, Joined
  <2>6. Fields(L, 0) = q \o (F \o c) \o <<>> \o <<>>
    BY <1>4, <2>2, <2>4
  <2> HIDE DEF q
  <2>7. Fields(L, 0) = q \o (F \o c)
    BY <2>5, <2>6, JoinedEmpty
  <2>8. Fields(L, 0) = q \o F \o c
    BY <1>1, <2>3, <2>7, Reassociate
  <2>. QED  BY <2>3, <2>8 DEF L, c, F
<1>8. CASE f = "id"
  <2>1. Part(K, "id") = <<>>
    BY <1>8 DEF Part, FieldsBefore
  <2>2. Part(L, "ts") = Part(K, "ts") /\ Part(L, "crit") = Part(K, "crit")
    BY <1>8 DEF Part, FieldsBefore
  <2> DEFINE q == o \o Part(K, "ts") \o Part(K, "crit")
  <2>3. q \in Seq(Byte) /\ Fields(K, 0) = q
    BY <1>1, <1>2, <1>4, <2>1, Joined, JoinedEmpty
  <2> HIDE DEF L, c, o, F
  <2>4. F \o c \in Seq(Byte) /\ Part(L, "id") = F \o c
    BY <1>1, <1>5, <1>8, Joined
  <2>5. q \o (F \o c) \in Seq(Byte)
    BY <2>3, <2>4, Joined
  <2>6. Fields(L, 0) = q \o (F \o c) \o <<>>
    BY <1>4, <2>2, <2>4
  <2> HIDE DEF q
  <2>7. Fields(L, 0) = q \o (F \o c)
    BY <2>5, <2>6, JoinedEmpty
  <2>8. Fields(L, 0) = q \o F \o c
    BY <1>1, <2>3, <2>7, Reassociate
  <2>. QED  BY <2>3, <2>8 DEF L, c, F
<1>. QED  BY <1>6, <1>7, <1>8

\* One pair more.
LEMMA PairsAdd ==
    ASSUME input \in Inputs, NEW n \in 1..Len(input.pairs)
    PROVE  /\ Pairs(n) = Pairs(n - 1) \o Pair(n)
           /\ Pairs(n) = BarePairs(n) \o <<Comma>>
<1> DEFINE bare == Bytes("pair", input.pairs[n] - 1)
           front == [i \in 1..(n - 1) |-> Pair(i)]
<1>0. Len(input.pairs) \in Nat /\ n \in Nat /\ n - 1 \in 0..Len(input.pairs) /\ n \in 0..Len(input.pairs)
  BY FormatInput, LenProperties
<1>1. front \in Seq(Seq(Byte)) /\ Pairs(n - 1) \in Seq(Byte)
  BY <1>0, PairsType
<1>2. <<Comma>> \in Seq(Byte) /\ bare \in Seq(Byte)
  <2>1. "pair" \in Byte /\ Comma \in Byte
    BY ByteMembers
  <2>2. input.pairs[n] \in Nat \ {0}
    BY FormatInput, ElementOfSeq
  <2>3. input.pairs[n] - 1 \in Nat
    BY <2>2
  <2>4. bare \in Seq(Byte)
    BY <2>1, <2>3, BytesType
  <2> HIDE DEF bare
  <2>. QED  BY <2>1, <2>4
<1>3. Pair(n) = bare \o <<Comma>> /\ Pair(n) \in Seq(Byte)
  BY <1>2, Joined DEF Pair
<1>4. [i \in 1..n |-> Pair(i)] = Append(front, Pair(n))
  <2>1. Len(front) = n - 1
    BY <1>0
  <2>2. Append(front, Pair(n)) \in Seq(Seq(Byte)) /\ Len(Append(front, Pair(n))) = n
    BY <1>0, <1>1, <1>3, <2>1, AppendProperties
  <2>3. \A i \in 1..n : Append(front, Pair(n))[i] = Pair(i)
    <3>1. \A i \in 1..(n - 1) : front[i] = Pair(i)
      OBVIOUS
    <3> HIDE DEF front
    <3>2. \A i \in 1..(n - 1) : Append(front, Pair(n))[i] = front[i]
      BY <1>0, <1>1, <1>3, <2>1, AppendProperties
    <3>3. Append(front, Pair(n))[n] = Pair(n)
      BY <1>0, <1>1, <1>3, <2>1, AppendProperties
    <3>4. \A i \in 1..n : i \in 1..(n - 1) \/ i = n
      BY <1>0
    <3>. QED  BY <3>1, <3>2, <3>3, <3>4, Zenon
  <2>. QED  BY <1>0, <2>2, <2>3
<1>5. [i \in 1..n |-> BarePair(n, i)] = Append(front, bare)
  <2>1. \A i \in 1..(n - 1) : BarePair(n, i) = Pair(i)
    BY <1>0, SMTT(30) DEF BarePair, Pair
  <2>2. BarePair(n, n) = bare
    BY <1>0, <1>2, JoinedEmpty DEF BarePair
  <2>3. Len(front) = n - 1
    BY <1>0
  <2> HIDE DEF bare
  <2>4. Append(front, bare) \in Seq(Seq(Byte)) /\ Len(Append(front, bare)) = n
    BY <1>0, <1>1, <1>2, <2>3, AppendProperties
  <2>5. \A i \in 1..n : Append(front, bare)[i] = BarePair(n, i)
    BY <1>0, <1>1, <1>2, <2>1, <2>2, <2>3
  <2>. QED  BY <1>0, <2>4, <2>5
<1> HIDE DEF bare, front
<1>6. Pairs(n) = Pairs(n - 1) \o Pair(n)
  BY <1>1, <1>3, <1>4, FlattenAppend DEF Pairs, front
<1>7. BarePairs(n) = Pairs(n - 1) \o bare
  BY <1>1, <1>2, <1>5, FlattenAppend DEF Pairs, BarePairs, front
<1>8. Pairs(n) = BarePairs(n) \o <<Comma>>
  <2>1. (Pairs(n - 1) \o bare) \o <<Comma>> = Pairs(n - 1) \o (bare \o <<Comma>>)
    BY <1>1, <1>2, Reassociate
  <2>2. Pair(n) = bare \o <<Comma>>
    BY <1>3
  <2>. QED  BY <1>6, <1>7, <2>1, <2>2, Zenon
<1>. QED  BY <1>6, <1>8

LEMMA NoPairs == Pairs(0) = <<>> /\ BarePairs(0) = <<>>
<1>1. [i \in 1..0 |-> Pair(i)] = <<>> /\ [i \in 1..0 |-> BarePair(0, i)] = <<>>
  OBVIOUS
<1>. QED  BY <1>1, FlattenEmpty DEF Pairs, BarePairs

\* The context is closed behind the fields.
LEMMA FieldsClose ==
    ASSUME input \in Inputs, NEW K \in SUBSET FieldsBefore("mdc"), NEW n \in 0..Len(input.pairs)
    PROVE  Fields(K \cup {"mdc"}, n)
             = Fields(K, 0) \o Bytes("mdc", MdcOpen) \o BarePairs(n) \o <<RightBrace, Comma>>
<1> DEFINE L == K \cup {"mdc"}
           c == <<RightBrace, Comma>>
           b == Bytes("mdc", MdcOpen)
           F == <<LeftBrace>> \o Part(K, "ts") \o Part(K, "crit") \o Part(K, "id")
<1>1. "mdc" \notin K /\ "mdc" \in L
  BY DEF FieldsBefore
<1>2. Part(L, "ts") = Part(K, "ts") /\ Part(L, "crit") = Part(K, "crit") /\ Part(L, "id") = Part(K, "id")
  BY DEF Part
<1>3. Fields(K, 0) = F \o <<>> /\ Fields(L, n) = F \o MdcText(n)
  BY <1>1, <1>2, FieldsAre
<1>4. <<LeftBrace>> \in Seq(Byte) /\ c \in Seq(Byte) /\ b \in Seq(Byte) /\ BarePairs(n) \in Seq(Byte)
  <2>1. LeftBrace \in Byte /\ RightBrace \in Byte /\ Comma \in Byte /\ "mdc" \in Byte
    BY ByteMembers
  <2>2. b \in Seq(Byte)
    BY <2>1, BytesType, LengthAssumption
  <2>3. BarePairs(n) \in Seq(Byte)
    BY PairsType
  <2> HIDE DEF b
  <2>. QED  BY <2>1, <2>2, <2>3
<1>5. F \in Seq(Byte)
  BY <1>4, PartType, Joined
<1> HIDE DEF F
<1>6. MdcText(n) = b \o BarePairs(n) \o c
  BY DEF MdcText
<1> HIDE DEF b, c, L
<1>7. F \o (b \o BarePairs(n) \o c) = F \o b \o BarePairs(n) \o c
  <2>1. F \o ((b \o BarePairs(n)) \o c) = (F \o (b \o BarePairs(n))) \o c
    <3>1. b \o BarePairs(n) \in Seq(Byte)
      BY <1>4, Joined
    <3>. QED  BY <1>4, <1>5, <3>1, Reassociate, SMTT(30)
  <2>2. F \o (b \o BarePairs(n)) = (F \o b) \o BarePairs(n)
    BY <1>4, <1>5, Reassociate
  <2>. QED  BY <2>1, <2>2, Zenon
<1>. QED  BY <1>3, <1>5, <1>6, <1>7, JoinedEmpty DEF b, c, L
-----------------------------------------------------------------------------
LEMMA Lengths ==
    /\ Open \in Nat \ {0} /\ Marker \in Nat \ {0} /\ MdcOpen \in Nat \ {0}
    /\ MinBuffer \in Nat /\ MinBuffer >= MinMessage + 2
    /\ MinMessage = Open + Marker + 1 /\ MinMessage \in Nat
BY LengthAssumption DEF MinMessage

\* What the type invariant says of the parts of the state.
LEMMA Typed ==
    ASSUME TypeOK
    PROVE  /\ text \in Seq(Byte) /\ Len(text) \in Nat
           /\ top \in Nat /\ base \in Nat /\ limit \in Nat /\ k \in Nat
           /\ input.msg \in Seq(Chars) /\ printed \in Seq(Chars) /\ Len(printed) \in Nat
           /\ input.op = "format" => input \in Inputs /\ Size = input.len
           /\ input.op # "format" => input \in Copies /\ input.op = "copy" /\ Size = EscapedSize(input.msg)
<1>1. text \in Seq(Byte) /\ Len(text) \in Nat
  BY LenProperties DEF TypeOK, Byte
<1>2. top \in Nat /\ base \in Nat /\ limit \in Nat /\ k \in Nat
  BY DEF TypeOK
<1>3. input.msg \in Seq(Chars)
  BY TextAssumption DEF TypeOK, Inputs, Copies
<1>4. printed \in Seq(Chars)
  <2>1. PICK n \in 0..Len(input.msg) : printed = SubSeq(input.msg, 1, n)
    BY DEF TypeOK, Prefixes
  <2>2. 1 \in Int /\ n \in Int /\ \A i \in 1..n : input.msg[i] \in Chars
    BY <1>3, ElementOfSeq
  <2>. QED  BY <2>1, <2>2, SubSeqProperties
<1>5. Len(printed) \in Nat
  BY <1>4, LenProperties
<1>6. (input \in Inputs => input.op = "format") /\ (input \in Copies => input.op = "copy")
  BY DEF Inputs, Copies
<1>7. input \in Inputs \/ input \in Copies
  BY DEF TypeOK
<1>8. "format" # "copy"
  OBVIOUS
<1>. QED  BY <1>1, <1>2, <1>3, <1>4, <1>5, <1>6, <1>7, <1>8 DEF Size

\* The buffer and the fields depend on the arguments of the call only.
LEMMA SameCall ==
    ASSUME input' = input
    PROVE  /\ \A K, n : Fields(K, n)' = Fields(K, n)
           /\ \A f : FieldText(f)' = FieldText(f)
           /\ \A n : Pairs(n)' = Pairs(n)
           /\ \A P : MessageFront(P)' <=> MessageFront(P)
           /\ Size' = Size
<1>1. \A f : FieldText(f)' = FieldText(f)
  BY Zenon DEF FieldText
<1>2. \A K, f : Part(K, f)' = Part(K, f)
  BY <1>1, Zenon DEF Part
<1>3. \A n : Pairs(n)' = Pairs(n)
  BY Zenon DEF Pairs, Pair
<1>4. \A n : MdcText(n)' = MdcText(n)
  BY Zenon DEF MdcText, BarePairs, BarePair
<1>5. \A K, n : Fields(K, n)' = Fields(K, n)
  BY Zenon DEF Fields, FieldText
<1>6. \A P : MessageFront(P)' <=> MessageFront(P)
  BY <1>5, Zenon DEF MessageFront
<1>7. Size' = Size
  BY DEF Size
<1>. QED  BY <1>1, <1>3, <1>5, <1>6, <1>7

LEMMA WroteUpTo ==
    ASSUME TypeOK, NEW n \in Nat, NEW m \in Nat, Wrote(n), top <= m, n <= m
    PROVE  top' \in Nat /\ top' <= m
<1>1. top \in Int /\ n \in Int /\ top \in Nat
  BY DEF TypeOK
<1>2. top' = IF top >= n THEN top ELSE n
  BY <1>1, MaxOfTwo DEF Wrote
<1>. QED  BY <1>1, <1>2

LEMMA FieldsNone == Fields({}, 0) = <<LeftBrace>>
<1>1. Fields({}, 0) = <<LeftBrace>> \o <<>> \o <<>> \o <<>> \o <<>>
  BY FieldsAre DEF Part
<1>2. <<LeftBrace>> \in Seq(Byte)
  BY ByteMembers
<1>. QED  BY <1>1, <1>2, JoinedEmpty

-----------------------------------------------------------------------------
LEMMA InitInv == Init => Inv
<1> SUFFICES ASSUME Init PROVE Inv
  OBVIOUS
<1> USE DEF Init
<1>1. TypeOK
  <2>1. input.msg \in Seq(Chars)
    BY TextAssumption DEF Inputs, Copies
  <2>2. <<>> \in Prefixes(input.msg)
    <3>1. 0 \in 0..Len(input.msg) /\ 1 \in Int /\ 0 \in Int /\ 0 < 1
      BY <2>1, LenProperties
    <3>2. SubSeq(input.msg, 1, 0) = <<>>
      BY <3>1, SubSeqEmpty
    <3>. QED  BY <3>1, <3>2 DEF Prefixes
  <2>3. <<>> \in Seq(Printables \cup {Backslash, Quote})
    BY EmptySeq
  <2>4. printed \in Prefixes(input.msg) /\ text \in Seq(Printables \cup {Backslash, Quote})
    BY <2>2, <2>3, Zenon
  <2>5. {top, base, limit, k} \subseteq Nat
    OBVIOUS
  <2>6. pc \in Labels /\ truncated \in BOOLEAN
    BY Zenon DEF Labels
  <2>. QED  BY <2>4, <2>5, <2>6, Zenon DEF TypeOK
<1>2. Calling /\ Room /\ FieldsWhole /\ MessageWhole /\ EntryWhole /\ CopyWhole
  BY DEF Calling, Room, FieldsWhole, MessageWhole, EntryWhole, CopyWhole, Kinds
<1>. QED  BY <1>1, <1>2 DEF Inv

LEMMA BeginInv ==
    ASSUME Inv, Begin
    PROVE  Inv'
<1>1. /\ pc = "start" /\ pc' = "ts" /\ input.op = "format" /\ input.len >= MinBuffer
      /\ text' = <<LeftBrace>> /\ Wrote(1)
      /\ input' = input /\ base' = base /\ limit' = limit /\ k' = k /\ printed' = printed /\ truncated' = truncated
  BY DEF Begin, Goto, loop
<1>2. TypeOK /\ top = 0
  BY <1>1 DEF Inv, Calling
<1>3. input \in Inputs /\ input.len \in Nat /\ Size = input.len /\ Size' = Size
  BY <1>1, <1>2, Typed, FormatInput, SameCall
<1>4. input.len >= MinMessage + 2 /\ MinMessage \in Nat
  BY <1>1, <1>3, Lengths
<1>5. top' \in Nat /\ top' <= input.len
  <2>1. 1 \in Nat /\ 1 <= input.len /\ top <= input.len
    BY <1>2, <1>3, <1>4
  <2>. QED  BY <1>1, <1>2, <1>3, <2>1, WroteUpTo
<1>6. text' \in Seq(Byte) /\ Len(text') = 1
  BY <1>1, ByteMembers
<1>7. TypeOK'
  BY <1>1, <1>2, <1>5, <1>6 DEF TypeOK, Labels, Byte
<1>8. Calling'
  BY <1>1 DEF Calling
<1>9. Room'
  <2>1. Budget' = input.len - 1 - MinMessage - 1
    BY <1>1, <1>6 DEF Budget
  <2>. QED  BY <1>1, <1>3, <1>4, <1>5, <2>1 DEF Room
<1>10. FieldsWhole'
  <2>1. Fields({}, 0)' = <<LeftBrace>>
    BY <1>1, SameCall, FieldsNone
  <2>2. {} \in SUBSET FieldsBefore("ts")
    OBVIOUS
  <2>. QED  BY <1>1, <2>1, <2>2 DEF FieldsWhole, Kinds
<1>11. MessageWhole' /\ EntryWhole' /\ CopyWhole'
  BY <1>1 DEF MessageWhole, EntryWhole, CopyWhole
<1>. QED  BY <1>7, <1>8, <1>9, <1>10, <1>11 DEF Inv

LEMMA TooShortInv ==
    ASSUME Inv, TooShort
    PROVE  Inv'
<1>1. /\ pc = "start" /\ pc' = "failed" /\ input.op = "format" /\ text' = text /\ top' = top
      /\ input' = input /\ base' = base /\ limit' = limit /\ k' = k /\ printed' = printed /\ truncated' = truncated
  BY DEF TooShort, Goto, loop
<1>2. TypeOK /\ top = 0
  BY <1>1 DEF Inv, Calling
<1>3. input.len \in Nat /\ Size' = input.len
  BY <1>1, <1>2, Typed, FormatInput, SameCall
<1>4. TypeOK'
  BY <1>1, <1>2 DEF TypeOK, Labels
<1>5. Calling' /\ FieldsWhole' /\ MessageWhole' /\ EntryWhole' /\ CopyWhole'
  BY <1>1 DEF Calling, FieldsWhole, Kinds, MessageWhole, EntryWhole, CopyWhole
<1>6. Room'
  BY <1>1, <1>2, <1>3 DEF Room
<1>. QED  BY <1>4, <1>5, <1>6 DEF Inv
LEMMA AddFieldInv ==
    ASSUME Inv, NEW f \in {"ts", "crit", "id"}, AddField(f)
    PROVE  Inv'
<1> DEFINE n == Len(FieldText(f))
<1>1. /\ pc = f /\ pc' = After(f) /\ 0 < n /\ n < Budget
      /\ text' = text \o FieldText(f) \o <<Comma>> /\ Wrote(Len(text) + n + 1)
      /\ input' = input /\ base' = base /\ limit' = limit /\ k' = k /\ printed' = printed /\ truncated' = truncated
  BY DEF AddField, Goto, loop
<1>2. TypeOK /\ Budget >= 0 /\ input.op = "format" /\ top <= Size
  BY <1>1 DEF Inv, Calling, Room
<1>3. /\ input \in Inputs /\ input.len \in Nat /\ Size = input.len /\ Size' = Size
      /\ text \in Seq(Byte) /\ Len(text) \in Nat
  BY <1>1, <1>2, Typed, FormatInput, SameCall
<1>4. FieldText(f) \in Seq(Byte) /\ n \in Nat /\ <<Comma>> \in Seq(Byte) /\ Len(<<Comma>>) = 1
  BY <1>3, FieldTextType, LenProperties, ByteMembers
<1>5. text' \in Seq(Byte) /\ Len(text') = Len(text) + n + 1
  BY <1>1, <1>3, <1>4, Joined
<1>6. Budget = input.len - Len(text) - MinMessage - 1 /\ Budget' = input.len - Len(text') - MinMessage - 1
  BY <1>1 DEF Budget
<1> HIDE DEF n
<1>7. Budget' >= 0 /\ Len(text) + n + 1 <= input.len /\ Len(text) + n + 1 \in Nat
  <2> DEFINE t == Len(text)
             l == input.len
             b == Budget
  <2>1. t \in Nat /\ l \in Nat /\ n \in Nat /\ MinMessage \in Nat /\ b = l - t - MinMessage - 1 /\ n < b
    BY <1>1, <1>3, <1>4, <1>6, Lengths
  <2>2. Budget' = l - (t + n + 1) - MinMessage - 1
    BY <1>5, <1>6
  <2> HIDE DEF t, l, b
  <2>3. l - (t + n + 1) - MinMessage - 1 >= 0 /\ t + n + 1 <= l /\ t + n + 1 \in Nat
    BY <2>1
  <2>. QED  BY <2>2, <2>3 DEF t, l
<1>8. top' \in Nat /\ top' <= input.len
  BY <1>1, <1>2, <1>3, <1>7, WroteUpTo
<1>9. pc' \in {"crit", "id", "mdc"}
  BY <1>1 DEF After
<1>10. TypeOK'
  BY <1>1, <1>2, <1>5, <1>8, <1>9 DEF TypeOK, Labels, Byte
<1>11. Calling' /\ MessageWhole' /\ EntryWhole' /\ CopyWhole'
  BY <1>1, <1>2, <1>9 DEF Calling, MessageWhole, EntryWhole, CopyWhole
<1>12. Room'
  BY <1>3, <1>7, <1>8, <1>9 DEF Room
<1>13. FieldsWhole'
  <2>1. PICK K \in SUBSET FieldsBefore(f) : text = Fields(K, 0)
    BY <1>1 DEF Inv, FieldsWhole, Kinds
  <2>2. text' = Fields(K \cup {f}, 0)'
    <3>1. Fields(K \cup {f}, 0) = Fields(K, 0) \o FieldText(f) \o <<Comma>>
      BY <1>3, FieldsAdd
    <3>2. Fields(K \cup {f}, 0)' = Fields(K \cup {f}, 0)
      BY <1>1, SameCall
    <3>. QED  BY <1>1, <2>1, <3>1, <3>2
  <2>3. K \cup {f} \in SUBSET FieldsBefore(After(f))
    BY DEF FieldsBefore, After
  <2>. QED  BY <1>1, <1>9, <2>2, <2>3 DEF FieldsWhole
<1>. QED  BY <1>10, <1>11, <1>12, <1>13 DEF Inv

LEMMA SkipFieldInv ==
    ASSUME Inv, NEW f \in {"ts", "crit", "id"}, SkipField(f)
    PROVE  Inv'
<1> DEFINE n == IF Len(FieldText(f)) = 0 THEN 1 ELSE Max({1, Budget})
<1>1. /\ pc = f /\ pc' = After(f) /\ text' = text /\ Wrote(Len(text) + n)
      /\ input' = input /\ base' = base /\ limit' = limit /\ k' = k /\ printed' = printed /\ truncated' = truncated
  BY DEF SkipField, Goto, loop
<1>2. TypeOK /\ Budget >= 0 /\ input.op = "format" /\ top <= Size
  BY <1>1 DEF Inv, Calling, Room
<1>3. /\ input \in Inputs /\ input.len \in Nat /\ Size = input.len /\ Size' = Size
      /\ text \in Seq(Byte) /\ Len(text) \in Nat
  BY <1>1, <1>2, Typed, FormatInput, SameCall
<1>4. Budget = input.len - Len(text) - MinMessage - 1 /\ Budget' = Budget
  BY <1>1 DEF Budget
<1>5. n \in Nat /\ Len(text) + n <= input.len
  <2>1. Budget \in Int /\ 1 \in Int
    BY <1>3, <1>4, Lengths
  <2>2. Max({1, Budget}) = IF 1 >= Budget THEN 1 ELSE Budget
    BY <2>1, MaxOfTwo
  <2> DEFINE t == Len(text)
             l == input.len
             b == Budget
  <2>3. /\ t \in Nat /\ l \in Nat /\ MinMessage \in Nat /\ b = l - t - MinMessage - 1 /\ b >= 0
        /\ n = 1 \/ n = (IF 1 >= b THEN 1 ELSE b)
    BY <1>2, <1>3, <1>4, <2>2, Lengths
  <2> HIDE DEF t, l, b, n
  <2>4. n \in Nat /\ t + n <= l
    BY <2>3
  <2>. QED  BY <2>4 DEF t, l
<1> HIDE DEF n
<1>6. top' \in Nat /\ top' <= input.len
  <2>1. Len(text) + n \in Nat
    BY <1>3, <1>5
  <2>. QED  BY <1>1, <1>2, <1>3, <1>5, <2>1, WroteUpTo
<1>7. pc' \in {"crit", "id", "mdc"}
  BY <1>1 DEF After
<1>8. TypeOK'
  BY <1>1, <1>2, <1>6, <1>7 DEF TypeOK, Labels
<1>9. Calling' /\ MessageWhole' /\ EntryWhole' /\ CopyWhole'
  BY <1>1, <1>2, <1>7 DEF Calling, MessageWhole, EntryWhole, CopyWhole
<1>10. Room'
  BY <1>2, <1>3, <1>4, <1>6, <1>7 DEF Room
<1>11. FieldsWhole'
  <2>1. PICK K \in SUBSET FieldsBefore(f) : text = Fields(K, 0)
    BY <1>1 DEF Inv, FieldsWhole, Kinds
  <2>2. text' = Fields(K, 0)'
    BY <1>1, <2>1, SameCall
  <2>3. K \in SUBSET FieldsBefore(After(f))
    BY DEF FieldsBefore, After
  <2>. QED  BY <1>1, <1>7, <2>2, <2>3 DEF FieldsWhole
<1>. QED  BY <1>8, <1>9, <1>10, <1>11 DEF Inv

LEMMA OpenMdcInv ==
    ASSUME Inv, OpenMdc
    PROVE  Inv'
<1> DEFINE open == Bytes("mdc", MdcOpen)
<1>1. /\ pc = "mdc" /\ pc' = "pairs" /\ MdcOpen + 1 < Budget
      /\ text' = text \o open /\ Wrote(Len(text) + MdcOpen + 1)
      /\ base' = Len(text) /\ limit' = Budget /\ k' = 0
      /\ input' = input /\ printed' = printed /\ truncated' = truncated
  BY DEF OpenMdc
<1>2. TypeOK /\ input.op = "format" /\ top <= Size
  BY <1>1 DEF Inv, Calling, Room
<1>3. /\ input \in Inputs /\ input.len \in Nat /\ Size = input.len /\ Size' = Size
      /\ text \in Seq(Byte) /\ Len(text) \in Nat /\ Len(input.pairs) \in Nat
  BY <1>1, <1>2, Typed, FormatInput, SameCall, LenProperties
<1>4. open \in Seq(Byte) /\ Len(open) = MdcOpen /\ MdcOpen \in Nat
  BY Lengths, ByteMembers, BytesType
<1> HIDE DEF open
<1>5. text' \in Seq(Byte) /\ Len(text') = Len(text) + MdcOpen
  BY <1>1, <1>3, <1>4, Joined
<1>6. Budget = input.len - Len(text) - MinMessage - 1
  BY DEF Budget
<1>7. Len(text) + MdcOpen + 1 \in Nat /\ Len(text) + MdcOpen + 1 <= input.len /\ Budget \in Nat
  <2> DEFINE t == Len(text)
             l == input.len
             b == Budget
  <2>1. /\ t \in Nat /\ l \in Nat /\ MdcOpen \in Nat /\ MinMessage \in Nat
        /\ b = l - t - MinMessage - 1 /\ MdcOpen + 1 < b
    BY <1>1, <1>3, <1>4, <1>6, Lengths
  <2> HIDE DEF t, l, b
  <2>2. t + MdcOpen + 1 \in Nat /\ t + MdcOpen + 1 <= l /\ b \in Nat
    BY <2>1
  <2>. QED  BY <2>2 DEF t, l, b
<1>8. top' \in Nat /\ top' <= input.len
  BY <1>1, <1>2, <1>3, <1>7, WroteUpTo
<1>9. TypeOK'
  BY <1>1, <1>2, <1>3, <1>5, <1>7, <1>8 DEF TypeOK, Labels, Byte
<1>10. Calling' /\ MessageWhole' /\ EntryWhole' /\ CopyWhole'
  BY <1>1, <1>2 DEF Calling, MessageWhole, EntryWhole, CopyWhole
<1>11. Room'
  <2>1. Left' = limit' - (Len(text') - base')
    BY DEF Left
  <2> DEFINE t == Len(text)
             l == input.len
             b == Budget
             u == Len(text')
  <2>2. /\ t \in Nat /\ l \in Nat /\ MdcOpen \in Nat /\ MinMessage \in Nat
        /\ b = l - t - MinMessage - 1 /\ MdcOpen + 1 < b /\ u = t + MdcOpen
        /\ base' = t /\ limit' = b /\ k' = 0 /\ Left' = limit' - (u - base')
    BY <1>1, <1>3, <1>4, <1>5, <1>6, <2>1, Lengths
  <2> HIDE DEF t, l, b, u
  <2>3. Left' > 0 /\ base' + limit' = l - MinMessage - 1 /\ base' + MdcOpen <= u
    BY <2>2
  <2>4. k' <= Len(input.pairs)
    BY <1>3, <2>2
  <2> USE DEF l, u
  <2>5. Left' > 0 /\ base' + limit' = input'.len - MinMessage - 1 /\ base' + MdcOpen <= Len(text') /\ k' <= Len(input'.pairs)
    BY <1>1, <2>3, <2>4
  <2>. QED  BY <1>1, <1>3, <1>8, <2>5 DEF Room
<1>12. FieldsWhole'
  <2>1. PICK K \in SUBSET FieldsBefore("mdc") : text = Fields(K, 0)
    BY <1>1 DEF Inv, FieldsWhole, Kinds
  <2>2. text' = (Fields(K, 0) \o open) \o <<>>
    BY <1>1, <1>5, <2>1, JoinedEmpty
  <2>3. Pairs(k)' = <<>>
    BY <1>1, NoPairs, SameCall, Zenon DEF Pairs, Pair
  <2>4. Fields(K, 0)' = Fields(K, 0)
    BY <1>1, SameCall
  <2>5. text' = (Fields(K, 0) \o open \o Pairs(k))'
    BY <2>2, <2>3, <2>4, Zenon DEF open
  <2>. QED  BY <1>1, <2>5 DEF FieldsWhole, Kinds, open
<1>. QED  BY <1>9, <1>10, <1>11, <1>12 DEF Inv

LEMMA SkipMdcInv ==
    ASSUME Inv, SkipMdc
    PROVE  Inv'
<1> DEFINE n == Max({1, Min({MdcOpen + 1, Budget})})
<1>1. /\ pc = "mdc" /\ pc' = "message" /\ text' = text /\ Wrote(Len(text) + n)
      /\ input' = input /\ base' = base /\ limit' = limit /\ k' = k /\ printed' = printed /\ truncated' = truncated
  BY DEF SkipMdc, Goto, loop
<1>2. TypeOK /\ Budget >= 0 /\ input.op = "format" /\ top <= Size
  BY <1>1 DEF Inv, Calling, Room
<1>3. /\ input \in Inputs /\ input.len \in Nat /\ Size = input.len /\ Size' = Size
      /\ text \in Seq(Byte) /\ Len(text) \in Nat /\ Len(input.pairs) \in Nat
  BY <1>1, <1>2, Typed, FormatInput, SameCall, LenProperties
<1>4. Budget = input.len - Len(text) - MinMessage - 1 /\ MessageBudget' = input.len - Len(text) - 1
  BY <1>1 DEF Budget, MessageBudget
<1>5. n \in Nat /\ Len(text) + n <= input.len
  <2>1. Budget \in Int /\ 1 \in Int /\ MdcOpen + 1 \in Int
    BY <1>3, <1>4, Lengths
  <2> DEFINE m == Min({MdcOpen + 1, Budget})
  <2>2. m = IF MdcOpen + 1 <= Budget THEN MdcOpen + 1 ELSE Budget
    BY <2>1, MinOfTwo
  <2> HIDE DEF m
  <2>3. m \in Int
    BY <2>1, <2>2
  <2>4. Max({1, m}) = IF 1 >= m THEN 1 ELSE m
    BY <2>1, <2>3, MaxOfTwo
  <2>5. n = IF 1 >= m THEN 1 ELSE m
    BY <2>4 DEF m
  <2> HIDE DEF n
  <2> DEFINE t == Len(text)
             l == input.len
             b == Budget
  <2>6. /\ t \in Nat /\ l \in Nat /\ MinMessage \in Nat /\ MdcOpen \in Nat
        /\ b = l - t - MinMessage - 1 /\ b >= 0
        /\ m = (IF MdcOpen + 1 <= b THEN MdcOpen + 1 ELSE b)
    BY <1>2, <1>3, <1>4, <2>2, Lengths
  <2> HIDE DEF t, l, b
  <2>7. n \in Nat /\ t + n <= l
    BY <2>5, <2>6
  <2>. QED  BY <2>7 DEF t, l
<1> HIDE DEF n
<1>6. top' \in Nat /\ top' <= input.len
  <2>1. Len(text) + n \in Nat
    BY <1>3, <1>5
  <2>. QED  BY <1>1, <1>2, <1>3, <1>5, <2>1, WroteUpTo
<1>7. TypeOK'
  BY <1>1, <1>2, <1>6 DEF TypeOK, Labels
<1>8. Calling' /\ MessageWhole' /\ EntryWhole' /\ CopyWhole'
  BY <1>1, <1>2 DEF Calling, MessageWhole, EntryWhole, CopyWhole
<1>9. Room'
  <2>1. MessageBudget' >= 0
    BY <1>2, <1>3, <1>4, Lengths, SMTT(30)
  <2>. QED  BY <1>1, <1>3, <1>6, <2>1 DEF Room
<1>10. FieldsWhole'
  <2>1. PICK K \in SUBSET FieldsBefore("mdc") : text = Fields(K, 0)
    BY <1>1 DEF Inv, FieldsWhole, Kinds
  <2>2. text' = Fields(K, 0)'
    BY <1>1, <2>1, SameCall
  <2>3. K \in SUBSET Kinds /\ 0 \in 0..Len(input.pairs)'
    BY <1>1, <1>3 DEF FieldsBefore, Kinds
  <2>4. pc' \notin Kinds /\ pc' # "pairs"
    BY <1>1 DEF Kinds
  <2>. QED  BY <2>2, <2>3, <2>4 DEF FieldsWhole
<1>. QED  BY <1>7, <1>8, <1>9, <1>10 DEF Inv
LEMMA AddPairInv ==
    ASSUME Inv, AddPair
    PROVE  Inv'
<1> DEFINE p == input.pairs[k + 1]
           bare == Bytes("pair", p - 1)
<1>1. /\ pc = "pairs" /\ pc' = pc /\ k < Len(input.pairs) /\ p < Left
      /\ text' = text \o bare \o <<Comma>> /\ Wrote(Len(text') + 1) /\ k' = k + 1
      /\ input' = input /\ base' = base /\ limit' = limit /\ printed' = printed /\ truncated' = truncated
  BY DEF AddPair, PairFits
<1>2. /\ TypeOK /\ input.op = "format" /\ top <= Size
      /\ base + limit = input.len - MinMessage - 1 /\ base + MdcOpen <= Len(text)
  BY <1>1 DEF Inv, Calling, Room
<1>3. /\ input \in Inputs /\ input.len \in Nat /\ Size = input.len /\ Size' = Size
      /\ text \in Seq(Byte) /\ Len(text) \in Nat /\ Len(input.pairs) \in Nat
      /\ input.pairs \in Seq(Nat \ {0}) /\ k \in Nat /\ base \in Nat /\ limit \in Nat
  BY <1>1, <1>2, Typed, FormatInput, SameCall, LenProperties
<1>4. k + 1 \in 1..Len(input.pairs) /\ p \in Nat \ {0} /\ p - 1 \in Nat
  <2>1. k + 1 \in 1..Len(input.pairs)
    BY <1>1, <1>3
  <2>2. p \in Nat \ {0}
    BY <1>3, <2>1, ElementOfSeq
  <2>. QED  BY <2>1, <2>2
<1> HIDE DEF p
<1>5. bare \in Seq(Byte) /\ Len(bare) = p - 1 /\ <<Comma>> \in Seq(Byte) /\ Len(<<Comma>>) = 1
  <2>1. "pair" \in Byte /\ Comma \in Byte
    BY ByteMembers
  <2>2. bare \in Seq(Byte) /\ Len(bare) = p - 1
    BY <1>4, <2>1, BytesType
  <2> HIDE DEF bare
  <2>. QED  BY <2>1, <2>2
<1>6. Pair(k + 1) = bare \o <<Comma>>
  BY DEF Pair, p
<1> HIDE DEF bare
<1>7. text' \in Seq(Byte) /\ Len(text') = Len(text) + p
  <2>1. text \o bare \in Seq(Byte) /\ Len(text \o bare) = Len(text) + (p - 1)
    BY <1>3, <1>5, Joined
  <2>2. text' \in Seq(Byte) /\ Len(text') = Len(text) + (p - 1) + 1
    BY <1>1, <1>5, <2>1, Joined
  <2>. QED  BY <1>3, <1>4, <2>2
<1>8. Left = limit - (Len(text) - base) /\ Left' = limit - (Len(text') - base)
  BY <1>1 DEF Left
<1>9. /\ Left' > 0 /\ base + MdcOpen <= Len(text')
      /\ Len(text') + 1 \in Nat /\ Len(text') + 1 <= input.len
  <2> DEFINE t == Len(text)
             u == Len(text')
             l == input.len
             e == Left
  <2>1. /\ t \in Nat /\ l \in Nat /\ p \in Nat /\ MinMessage \in Nat /\ MdcOpen \in Nat /\ base \in Nat /\ limit \in Nat
        /\ e = limit - (t - base) /\ Left' = limit - (u - base) /\ u = t + p /\ p < e
        /\ base + MdcOpen <= t /\ base + limit = l - MinMessage - 1
    BY <1>1, <1>2, <1>3, <1>4, <1>7, <1>8, Lengths
  <2> HIDE DEF t, u, l, e
  <2>2. Left' > 0 /\ base + MdcOpen <= u /\ u + 1 \in Nat /\ u + 1 <= l
    BY <2>1
  <2>. QED  BY <2>2 DEF u, l
<1>10. top' \in Nat /\ top' <= input.len
  BY <1>1, <1>2, <1>3, <1>9, WroteUpTo
<1>11. TypeOK'
  <2>1. k' \in Nat
    BY <1>1, <1>3
  <2>. QED  BY <1>1, <1>2, <1>7, <1>10, <2>1 DEF TypeOK, Byte
<1>12. Calling' /\ MessageWhole' /\ EntryWhole' /\ CopyWhole'
  BY <1>1, <1>2 DEF Calling, MessageWhole, EntryWhole, CopyWhole
<1>13. Room'
  <2>1. k' <= Len(input.pairs)
    BY <1>1, <1>4
  <2>. QED  BY <1>1, <1>2, <1>3, <1>9, <1>10, <2>1 DEF Room
<1>14. FieldsWhole'
  <2> DEFINE open == Bytes("mdc", MdcOpen)
  <2>1. PICK K \in SUBSET FieldsBefore("mdc") : text = Fields(K, 0) \o open \o Pairs(k)
    BY <1>1 DEF Inv, FieldsWhole, Kinds
  <2> DEFINE front == Fields(K, 0) \o open
  <2>2. open \in Seq(Byte) /\ Fields(K, 0) \in Seq(Byte) /\ 0 \in 0..Len(input.pairs) /\ k \in 0..Len(input.pairs)
    <3>1. 0 \in 0..Len(input.pairs) /\ k \in 0..Len(input.pairs)
      BY <1>1, <1>3
    <3>2. open \in Seq(Byte)
      BY ByteMembers, Lengths, BytesType
    <3> HIDE DEF open
    <3>3. Fields(K, 0) \in Seq(Byte)
      BY <1>3, <3>1, FieldsType
    <3>. QED  BY <3>1, <3>2, <3>3
  <2>3. front \in Seq(Byte) /\ Pairs(k) \in Seq(Byte)
    BY <1>3, <2>2, Joined, PairsType
  <2> HIDE DEF front
  <2>4. Pairs(k + 1) = Pairs(k) \o Pair(k + 1)
    <3> DEFINE m == k + 1
    <3>1. m - 1 = k /\ m \in 1..Len(input.pairs)
      BY <1>3, <1>4
    <3> HIDE DEF m
    <3>2. Pairs(m) = Pairs(m - 1) \o Pair(m)
      BY <1>3, <3>1, PairsAdd
    <3>. QED  BY <3>1, <3>2 DEF m
  <2>5. text' = ((front \o Pairs(k)) \o bare) \o <<Comma>>
    BY <1>1, <2>1 DEF front
  <2>6. ((front \o Pairs(k)) \o bare) \o <<Comma>> = (front \o Pairs(k)) \o (bare \o <<Comma>>)
    BY <1>5, <2>3, Joined, Reassociate
  <2>7. (front \o Pairs(k)) \o (bare \o <<Comma>>) = front \o (Pairs(k) \o (bare \o <<Comma>>))
    <3>1. bare \o <<Comma>> \in Seq(Byte)
      BY <1>5, Joined
    <3>. QED  BY <2>3, <3>1, Reassociate
  <2>8. text' = front \o Pairs(k + 1)
    BY <1>6, <2>4, <2>5, <2>6, <2>7, Zenon
  <2>9. Pairs(k)' = Pairs(k + 1) /\ Fields(K, 0)' = Fields(K, 0)
    <3>1. Pairs(k)' = Pairs(k + 1)
      BY <1>1, Zenon DEF Pairs, Pair
    <3>. QED  BY <1>1, <3>1, SameCall
  <2>10. text' = (Fields(K, 0) \o open \o Pairs(k))'
    BY <2>8, <2>9, Zenon DEF front
  <2>. QED  BY <1>1, <2>10 DEF FieldsWhole, Kinds
<1>. QED  BY <1>11, <1>12, <1>13, <1>14 DEF Inv

LEMMA CloseMdcInv ==
    ASSUME Inv, CloseMdc
    PROVE  Inv'
<1> DEFINE front == IF k > 0 THEN Front(text) ELSE text
           close == <<RightBrace, Comma>>
           n == IF k = Len(input.pairs) THEN Len(text') ELSE Max({base + limit, Len(text')})
<1>1. /\ pc = "pairs" /\ pc' = "message" /\ text' = front \o close /\ Wrote(n)
      /\ input' = input /\ base' = base /\ limit' = limit /\ k' = k /\ printed' = printed /\ truncated' = truncated
  BY DEF CloseMdc, Goto, loop
<1>2. /\ TypeOK /\ input.op = "format" /\ top <= Size /\ Left > 0 /\ k <= Len(input.pairs)
      /\ base + limit = input.len - MinMessage - 1
  BY <1>1 DEF Inv, Calling, Room
<1>3. /\ input \in Inputs /\ input.len \in Nat /\ Size = input.len /\ Size' = Size
      /\ text \in Seq(Byte) /\ Len(text) \in Nat /\ Len(input.pairs) \in Nat
      /\ k \in Nat /\ base \in Nat /\ limit \in Nat
  BY <1>1, <1>2, Typed, FormatInput, SameCall, LenProperties
<1> DEFINE open == Bytes("mdc", MdcOpen)
<1>4. PICK K \in SUBSET FieldsBefore("mdc") : text = Fields(K, 0) \o open \o Pairs(k)
  BY <1>1 DEF Inv, FieldsWhole, Kinds
<1> DEFINE head == Fields(K, 0) \o open
<1>5. k \in 0..Len(input.pairs) /\ 0 \in 0..Len(input.pairs) /\ head \in Seq(Byte)
      /\ BarePairs(k) \in Seq(Byte) /\ Pairs(k) \in Seq(Byte)
  <2>1. k \in 0..Len(input.pairs) /\ 0 \in 0..Len(input.pairs)
    BY <1>2, <1>3
  <2>2. open \in Seq(Byte)
    BY ByteMembers, Lengths, BytesType
  <2>3. Fields(K, 0) \in Seq(Byte) /\ BarePairs(k) \in Seq(Byte) /\ Pairs(k) \in Seq(Byte)
    BY <1>3, <2>1, FieldsType, PairsType
  <2> HIDE DEF open
  <2>. QED  BY <2>1, <2>2, <2>3, Joined
<1> HIDE DEF head
<1>6. close \in Seq(Byte) /\ Len(close) = 2 /\ Comma \in Byte /\ <<Comma>> \in Seq(Byte) /\ Len(<<Comma>>) = 1
  BY ByteMembers
<1>7. text = head \o Pairs(k)
  BY <1>4 DEF head
<1> HIDE DEF close
<1>8. front = head \o BarePairs(k) /\ front \in Seq(Byte) /\ Len(front) = (IF k > 0 THEN Len(text) - 1 ELSE Len(text))
  <2>1. CASE k > 0
    <3>1. k \in 1..Len(input.pairs)
      BY <1>5, <2>1
    <3>2. Pairs(k) = BarePairs(k) \o <<Comma>>
      BY <1>3, <3>1, PairsAdd
    <3>3. text = (head \o BarePairs(k)) \o <<Comma>>
      BY <1>5, <1>6, <1>7, <3>2, Reassociate
    <3>4. head \o BarePairs(k) \in Seq(Byte)
      BY <1>5, Joined
    <3>5. Front(text) = head \o BarePairs(k)
      BY <1>6, <3>3, <3>4, FrontOfJoined
    <3>6. Len(text) = Len(head \o BarePairs(k)) + 1 /\ Len(head \o BarePairs(k)) \in Nat
      BY <1>6, <3>3, <3>4, Joined
    <3>. QED  BY <2>1, <3>4, <3>5, <3>6
  <2>2. CASE ~(k > 0)
    <3>1. k = 0
      BY <1>3, <2>2
    <3>2. Pairs(k) = BarePairs(k)
      BY <3>1, NoPairs
    <3>. QED  BY <1>3, <1>7, <2>2, <3>2
  <2>. QED  BY <2>1, <2>2
<1> HIDE DEF front
<1>9. text' \in Seq(Byte) /\ Len(text') = Len(front) + 2 /\ Len(front) \in Nat
  BY <1>1, <1>6, <1>8, Joined
<1>10. MessageBudget' = input.len - Len(text') - 1 /\ Left = limit - (Len(text) - base)
  BY <1>1 DEF MessageBudget, Left
<1>11. MessageBudget' >= 0 /\ n \in Nat /\ n <= input.len
  <2> DEFINE t == Len(text)
             u == Len(text')
             l == input.len
             e == Left
  <2>1. base + limit \in Int /\ u \in Int
    BY <1>3, <1>9
  <2>2. Max({base + limit, u}) = IF base + limit >= u THEN base + limit ELSE u
    BY <2>1, MaxOfTwo
  <2>3. /\ t \in Nat /\ l \in Nat /\ u \in Nat /\ MinMessage \in Nat /\ MinMessage >= 2 /\ base \in Nat /\ limit \in Nat
        /\ e = limit - (t - base) /\ e > 0 /\ base + limit = l - MinMessage - 1
        /\ MessageBudget' = l - u - 1
        /\ n = u \/ n = (IF base + limit >= u THEN base + limit ELSE u)
    BY <1>2, <1>3, <1>9, <1>10, <2>2, Lengths
  <2>4. u = t + 1 \/ u = t + 2
    BY <1>3, <1>8, <1>9
  <2> HIDE DEF t, u, l, e, n
  <2>5. MessageBudget' >= 0 /\ n \in Nat /\ n <= l
    BY <2>3, <2>4
  <2>. QED  BY <2>5 DEF l
<1>12. top' \in Nat /\ top' <= input.len
  <2> HIDE DEF n
  <2>. QED  BY <1>1, <1>2, <1>3, <1>11, WroteUpTo
<1>13. TypeOK'
  BY <1>1, <1>2, <1>9, <1>12 DEF TypeOK, Byte, Labels
<1>14. Calling' /\ MessageWhole' /\ EntryWhole' /\ CopyWhole'
  BY <1>1, <1>2 DEF Calling, MessageWhole, EntryWhole, CopyWhole
<1>15. Room'
  BY <1>1, <1>3, <1>11, <1>12 DEF Room
<1>16. FieldsWhole'
  <2>1. Fields(K \cup {"mdc"}, k) = Fields(K, 0) \o open \o BarePairs(k) \o close
    BY <1>3, <1>5, FieldsClose DEF close
  <2>2. text' = Fields(K \cup {"mdc"}, k)
    BY <1>1, <1>8, <2>1 DEF head
  <2>4. K \cup {"mdc"} \in SUBSET Kinds /\ k \in 0..Len(input'.pairs)
    BY <1>1, <1>5 DEF FieldsBefore, Kinds
  <2>5. pc' \notin Kinds /\ pc' # "pairs"
    BY <1>1 DEF Kinds
  <2>6. \E L \in SUBSET Kinds, i \in 0..Len(input'.pairs) : text' = Fields(L, i)'
    <3>1. text' = Fields(K \cup {"mdc"}, k)
      BY <2>2
    <3>2. \A i : Fields(K \cup {"mdc"}, i)' = Fields(K \cup {"mdc"}, i)
      BY <1>1, SameCall
    <3>. QED  BY <2>4, <3>1, <3>2, Zenon
  <2>. QED  BY <2>5, <2>6 DEF FieldsWhole
<1>. QED  BY <1>13, <1>14, <1>15, <1>16 DEF Inv
-----------------------------------------------------------------------------
LEMMA Comparison ==
    ASSUME NEW a \in Int, NEW b \in Int
    PROVE  \A x : x = (a >= b) => x \in BOOLEAN /\ (x <=> a >= b)
<1>1. (a >= b) \in BOOLEAN
  OBVIOUS
<1>. QED  BY <1>1, Zenon

\* The string that is escaped is the message up to the end of its buffer.
LEMMA HeadUpTo ==
    ASSUME NEW str \in Seq(Chars), NEW n \in Nat
    PROVE  \A s : s = SubSeq(str, 1, Min({Len(str), n})) =>
               /\ Len(s) = IF Len(str) <= n THEN Len(str) ELSE n
               /\ Len(s) \in Nat /\ Len(s) <= Len(str)
               /\ \A i \in 1..Len(s) : s[i] = str[i]
<1> DEFINE m == Min({Len(str), n})
           s == SubSeq(str, 1, m)
<1>1. Len(str) \in Nat /\ Len(str) \in Int /\ n \in Int
  BY LenProperties
<1>2. m = IF Len(str) <= n THEN Len(str) ELSE n
  BY <1>1, MinOfTwo
<1> HIDE DEF m
<1>3. m \in Nat /\ m <= Len(str) /\ m \in Int /\ 1 \in Int
  BY <1>1, <1>2
<1>4. \A i \in 1..m : str[i] \in Chars
  BY <1>1, <1>3, ElementOfSeq
<1>5. Len(SubSeq(str, 1, m)) = (IF 1 <= m THEN m - 1 + 1 ELSE 0) /\ \A i \in 1..(m - 1 + 1) : SubSeq(str, 1, m)[i] = str[1 + i - 1]
  BY <1>3, <1>4, SubSeqProperties
<1>6. s = SubSeq(str, 1, m)
  OBVIOUS
<1> HIDE DEF s
<1>7. Len(s) = m
  <2>1. CASE 1 <= m
    <3>1. Len(s) = m - 1 + 1
      BY <1>5, <1>6, <2>1
    <3>. QED  BY <1>3, <3>1
  <2>2. CASE ~(1 <= m)
    <3>1. Len(s) = 0
      BY <1>5, <1>6, <2>2
    <3>. QED  BY <1>3, <2>2, <3>1
  <2>. QED  BY <2>1, <2>2
<1>8. m - 1 + 1 = m /\ \A i \in 1..m : 1 + i - 1 = i
  BY <1>3
<1>9. \A i \in 1..m : s[i] = str[i]
  BY <1>5, <1>6, <1>8
<1>10. /\ Len(s) = IF Len(str) <= n THEN Len(str) ELSE n
       /\ Len(s) \in Nat /\ Len(s) <= Len(str) /\ \A i \in 1..Len(s) : s[i] = str[i]
  BY <1>2, <1>3, <1>7, <1>9
<1>. QED  BY <1>10, Zenon DEF s, m

\* Escaping makes no text shorter.
LEMMA EscapedLonger ==
    ASSUME NEW str \in Seq(Chars)
    PROVE  /\ Len(Escaped(str)) \in Nat /\ Len(str) \in Nat /\ Len(str) <= Len(Escaped(str))
           /\ \A j \in 0..Len(str) :
                  /\ Len(EscapedHead(str, j)) \in Nat
                  /\ Len(EscapedHead(str, j)) + (Len(str) - j) <= Len(Escaped(str))
<1>1. Len(str) \in Nat /\ 0 \in 0..Len(str) /\ Len(str) \in 0..Len(str)
  BY LenProperties
<1>2. Escaped(str) = EscapedHead(str, Len(str))
  BY EscapedHeadFull
<1>3. \A j \in 0..Len(str) : EscapedHead(str, j) \in Seq(Byte) /\ Len(EscapedHead(str, j)) \in Nat
  BY EscapedHeadType, LenProperties
<1>4. \A j \in 0..Len(str) : Len(EscapedHead(str, j)) + (Len(str) - j) <= Len(Escaped(str))
  <2> TAKE j \in 0..Len(str)
  <2>1. Len(str) \in j..Len(str)
    BY <1>1
  <2>. QED  BY <1>2, <2>1, EscapedHeadGrows
<1>5. Len(EscapedHead(str, 0)) = 0
  BY EscapedHeadEmpty, EmptySeq
<1>6. 0 + (Len(str) - 0) <= Len(Escaped(str))
  BY <1>1, <1>4, <1>5
<1>. QED  BY <1>1, <1>2, <1>3, <1>4, <1>6

LEMMA BeginCopyInv ==
    ASSUME Inv, BeginCopy
    PROVE  Inv'
<1>1. /\ pc = "start" /\ pc' = "escape" /\ input.op = "copy"
      /\ limit' = EscapedSize(input.msg) /\ printed' = input.msg
      /\ input' = input /\ text' = text /\ top' = top /\ base' = base /\ k' = k /\ truncated' = truncated
  BY DEF BeginCopy
<1>2. TypeOK /\ text = <<>> /\ top = 0 /\ base = 0 /\ k = 0 /\ truncated = FALSE
  BY <1>1 DEF Inv, Calling
<1>3. input.msg \in Seq(Chars) /\ Size' = EscapedSize(input.msg)
  BY <1>1, <1>2, Typed, SameCall
<1>4. /\ EscapedSize(input.msg) = Len(Escaped(input.msg)) + 1
      /\ Len(Escaped(input.msg)) \in Nat /\ Len(input.msg) \in Nat /\ Len(input.msg) <= Len(Escaped(input.msg))
  BY <1>3, EscapedSizeExact, EscapedLonger
<1>5. EscapedSize(input.msg) \in Nat /\ EscapedSize(input.msg) > 0 /\ Len(input.msg) <= EscapedSize(input.msg)
  BY <1>4
<1>6. TypeOK'
  <2>1. input.msg \in Prefixes(input.msg)
    <3>1. SubSeq(input.msg, 1, Len(input.msg)) = input.msg
      BY <1>3, SubSeqFull
    <3>2. Len(input.msg) \in 0..Len(input.msg)
      BY <1>4
    <3>. QED  BY <3>1, <3>2 DEF Prefixes
  <2>. QED  BY <1>1, <1>2, <1>5, <2>1 DEF TypeOK, Labels
<1>7. Calling' /\ FieldsWhole' /\ EntryWhole' /\ CopyWhole'
  BY <1>1 DEF Calling, FieldsWhole, Kinds, EntryWhole, CopyWhole
<1>8. Room'
  BY <1>1, <1>2, <1>3, <1>5 DEF Room
<1>9. MessageWhole'
  <2>1. k' \in 0..Len(Str)'
    <3>1. Str' = SubSeq(printed', 1, Min({Len(printed'), limit'}))
      BY DEF Str
    <3>2. printed' \in Seq(Chars) /\ limit' \in Nat
      BY <1>1, <1>3, <1>5
    <3>3. Len(Str') \in Nat
      <4>1. PICK str \in Seq(Chars), n \in Nat : str = printed' /\ n = limit'
        BY <3>2
      <4>2. PICK s : s = Str' /\ s = SubSeq(str, 1, Min({Len(str), n}))
        BY <3>1, <4>1
      <4>. QED  BY <4>2, HeadUpTo
    <3>. QED  BY <1>1, <1>2, <3>3
  <2>2. EscapedHead(printed', k') = <<>> /\ Len(<<>>) = 0 /\ <<>> \in Seq(Byte) /\ <<>> \o <<>> = <<>>
    BY <1>1, <1>2, EscapedHeadEmpty, EmptySeq, JoinedEmpty
  <2>3. Written(k)'
    <3>1. MessageFront(<<>>)'
      BY <1>1 DEF MessageFront
    <3>2. Len(<<>>) = base' /\ text' = <<>> \o EscapedHead(printed', k')
      BY <1>1, <1>2, <2>2
    <3>. QED  BY <2>2, <3>1, <3>2 DEF Written
  <2>4. Len(EscapedHead(printed', k')) <= limit' /\ ~PairAtEnd'
    <3>1. Len(text') - base' = 0
      BY <1>1, <1>2, <2>2
    <3>. QED  BY <1>1, <1>5, <2>2, <3>1 DEF PairAtEnd
  <2>5. ~truncated' /\ Len(printed') <= limit' /\ printed' = input'.msg
    BY <1>1, <1>2, <1>5
  <2>. QED  BY <1>1, <2>1, <2>3, <2>4, <2>5 DEF MessageWhole
<1>. QED  BY <1>6, <1>7, <1>8, <1>9 DEF Inv

LEMMA OpenMessageInv ==
    ASSUME Inv, OpenMessage
    PROVE  Inv'
<1> DEFINE open == Bytes("msg", Open - 1)
<1>1. /\ pc = "message" /\ pc' = "escape" /\ MessageBudget > MinMessage
      /\ text' = text \o open \o <<Quote>> /\ Wrote(Len(text) + Open + 1)
      /\ base' = Len(text) + Open /\ limit' = MessageBudget - Open - 1 /\ k' = 0 /\ input' = input
  BY DEF OpenMessage
<1>2. TypeOK /\ input.op = "format" /\ top <= Size
  BY <1>1 DEF Inv, Calling, Room
<1>3. /\ input \in Inputs /\ input.len \in Nat /\ Size = input.len /\ Size' = Size
      /\ text \in Seq(Byte) /\ Len(text) \in Nat /\ input.msg \in Seq(Chars) /\ Len(input.msg) \in Nat
  BY <1>1, <1>2, Typed, FormatInput, SameCall, LenProperties
<1>4. open \in Seq(Byte) /\ Len(open) = Open - 1 /\ <<Quote>> \in Seq(Byte) /\ Len(<<Quote>>) = 1
  <2>1. "msg" \in Byte /\ Quote \in Byte
    BY ByteMembers
  <2>2. Open - 1 \in Nat
    BY Lengths
  <2>3. open \in Seq(Byte) /\ Len(open) = Open - 1
    BY <2>1, <2>2, BytesType
  <2> HIDE DEF open
  <2>. QED  BY <2>1, <2>3
<1> HIDE DEF open
<1>5. text' \in Seq(Byte) /\ Len(text') = Len(text) + Open
  <2>1. text \o open \in Seq(Byte) /\ Len(text \o open) = Len(text) + (Open - 1)
    BY <1>3, <1>4, Joined
  <2>2. text' \in Seq(Byte) /\ Len(text') = Len(text) + (Open - 1) + 1
    BY <1>1, <1>4, <2>1, Joined
  <2>. QED  BY <1>3, <2>2, Lengths
<1>6. /\ base' \in Nat /\ limit' \in Nat /\ limit' > Marker /\ base' + limit' = input.len - 2
      /\ Len(text) + Open + 1 \in Nat /\ Len(text) + Open + 1 <= input.len
      /\ MessageBudget - Open = limit' + 1
  <2>1. MessageBudget = input.len - Len(text) - 1
    BY DEF MessageBudget
  <2> DEFINE t == Len(text)
             l == input.len
             b == MessageBudget
  <2>2. /\ t \in Nat /\ l \in Nat /\ Open \in Nat /\ Marker \in Nat /\ MinMessage = Open + Marker + 1
        /\ b = l - t - 1 /\ b > MinMessage /\ base' = t + Open /\ limit' = b - Open - 1
    BY <1>1, <1>3, <2>1, Lengths
  <2> HIDE DEF t, l, b
  <2>3. /\ base' \in Nat /\ limit' \in Nat /\ limit' > Marker /\ base' + limit' = l - 2
        /\ t + Open + 1 \in Nat /\ t + Open + 1 <= l /\ b - Open = limit' + 1
    BY <2>2
  <2>. QED  BY <2>3 DEF t, l, b
<1>7. top' \in Nat /\ top' <= input.len
  BY <1>1, <1>2, <1>3, <1>6, WroteUpTo
<1>8. /\ printed' \in Prefixes(input.msg) /\ truncated' \in BOOLEAN
      /\ IF truncated' THEN Len(printed') >= limit' ELSE Len(printed') <= limit'
  <2>1. CASE printed' = input.msg /\ truncated' = (Len(input.msg) + 1 >= MessageBudget - Open)
    <3>1. input.msg \in Prefixes(input.msg)
      <4>1. SubSeq(input.msg, 1, Len(input.msg)) = input.msg /\ Len(input.msg) \in 0..Len(input.msg)
        BY <1>3, SubSeqFull
      <4>. QED  BY <4>1 DEF Prefixes
    <3> DEFINE m == Len(input.msg)
               b == MessageBudget - Open
    <3>2. m \in Nat /\ limit' \in Nat /\ b = limit' + 1 /\ truncated' = (m + 1 >= b)
      BY <1>3, <1>6, <2>1
    <3> HIDE DEF m, b
    <3>3. truncated' \in BOOLEAN /\ (truncated' => m >= limit') /\ (~truncated' => m <= limit')
      <4> DEFINE d == m + 1
      <4>1. d \in Int /\ b \in Int /\ truncated' = (d >= b)
        BY <3>2
      <4> HIDE DEF d
      <4>2. truncated' \in BOOLEAN /\ (truncated' <=> d >= b)
        BY <4>1, Comparison
      <4>3. (d >= b => m >= limit') /\ (~(d >= b) => m <= limit')
        <5>1. m \in Nat /\ limit' \in Nat /\ b = limit' + 1 /\ d = m + 1
          BY <3>2 DEF d
        <5>2. \A i, j \in Nat : (i + 1 >= j + 1 => i >= j) /\ (~(i + 1 >= j + 1) => i <= j)
          OBVIOUS
        <5>. QED  BY <5>1, <5>2, Zenon
      <4>. QED  BY <4>2, <4>3, Zenon
    <3>4. IF truncated' THEN m >= limit' ELSE m <= limit'
      BY <3>3, Zenon
    <3>. QED  BY <2>1, <3>1, <3>3, <3>4, Zenon DEF m
  <2>2. CASE printed' \in {p \in Prefixes(input.msg) : Len(p) <= limit'} /\ truncated' = FALSE
    BY <2>2
  <2>. QED  BY <2>1, <2>2 DEF OpenMessage
<1>9. TypeOK'
  BY <1>1, <1>2, <1>5, <1>6, <1>7, <1>8 DEF TypeOK, Labels, Byte
<1>10. printed' \in Seq(Chars)
  <2>1. PICK n \in 0..Len(input.msg) : printed' = SubSeq(input.msg, 1, n)
    BY <1>8 DEF Prefixes
  <2>2. 1 \in Int /\ n \in Int /\ \A i \in 1..n : input.msg[i] \in Chars
    BY <1>3, ElementOfSeq
  <2>. QED  BY <2>1, <2>2, SubSeqProperties
<1>11. Calling' /\ FieldsWhole' /\ EntryWhole' /\ CopyWhole'
  BY <1>1, <1>2 DEF Calling, FieldsWhole, Kinds, EntryWhole, CopyWhole
<1>12. Room'
  BY <1>1, <1>2, <1>3, <1>6, <1>7 DEF Room
<1>13. MessageWhole'
  <2>1. k' \in 0..Len(Str)'
    <3>1. Str' = SubSeq(printed', 1, Min({Len(printed'), limit'}))
      BY DEF Str
    <3>2. printed' \in Seq(Chars) /\ limit' \in Nat
      BY <1>6, <1>10
    <3>3. Len(Str') \in Nat
      <4>1. PICK str \in Seq(Chars), n \in Nat : str = printed' /\ n = limit'
        BY <3>2
      <4>2. PICK s : s = Str' /\ s = SubSeq(str, 1, Min({Len(str), n}))
        BY <3>1, <4>1
      <4>. QED  BY <4>2, HeadUpTo
    <3>. QED  BY <1>1, <3>3
  <2>2. EscapedHead(printed', k') = <<>> /\ Len(<<>>) = 0
    BY <1>1, EscapedHeadEmpty, EmptySeq
  <2>3. text' = text' \o EscapedHead(printed', k')
    BY <1>5, <2>2, JoinedEmpty
  <2>4. Written(k)'
    <3>1. PICK K \in SUBSET Kinds, n \in 0..Len(input.pairs) : text = Fields(K, n)
      BY <1>1 DEF Inv, FieldsWhole
    <3>2. text' = Fields(K, n)' \o open \o <<Quote>>
      BY <1>1, <3>1, SameCall
    <3>3. PICK P \in Seq(Byte) : P = text'
      BY <1>5
    <3>4. input'.op # "copy" /\ K \in SUBSET Kinds /\ n \in 0..Len(input'.pairs)
      BY <1>1, <1>2
    <3>5. MessageFront(P)'
      BY <3>2, <3>3, <3>4, Zenon DEF MessageFront, open
    <3>6. Len(P) = base' /\ text' = P \o EscapedHead(printed', k')
      BY <1>1, <1>5, <2>3, <3>3
    <3>. QED  BY <3>5, <3>6 DEF Written
  <2>5. Len(EscapedHead(printed', k')) <= limit' /\ ~PairAtEnd'
    <3>1. Len(text') - base' = 0 /\ limit' > 0
      BY <1>1, <1>3, <1>5, <1>6, Lengths
    <3>. QED  BY <1>6, <2>2, <3>1 DEF PairAtEnd
  <2>. QED  BY <1>1, <1>2, <1>8, <2>1, <2>4, <2>5 DEF MessageWhole
<1>. QED  BY <1>9, <1>11, <1>12, <1>13 DEF Inv

LEMMA DropEntryInv ==
    ASSUME Inv, DropEntry
    PROVE  Inv'
<1>1. /\ pc = "message" /\ pc' = "failed" /\ text' = <<>>
      /\ \/ Wrote(Len(text) + 1)
         \/ MessageBudget > MinMessage /\ Wrote(Len(text) + Open + 1)
      /\ input' = input /\ base' = base /\ limit' = limit /\ k' = k /\ printed' = printed /\ truncated' = truncated
  BY DEF DropEntry, Goto, loop
<1>2. TypeOK /\ input.op = "format" /\ top <= Size /\ MessageBudget >= 0
  BY <1>1 DEF Inv, Calling, Room
<1>3. input.len \in Nat /\ Size = input.len /\ Size' = Size /\ Len(text) \in Nat
  BY <1>1, <1>2, Typed, FormatInput, SameCall
<1>4. /\ Len(text) + 1 \in Nat /\ Len(text) + 1 <= input.len
      /\ Len(text) + Open + 1 \in Nat
      /\ MessageBudget > MinMessage => Len(text) + Open + 1 <= input.len
  <2> DEFINE t == Len(text)
             l == input.len
             b == MessageBudget
  <2>1. /\ t \in Nat /\ l \in Nat /\ Open \in Nat /\ Marker \in Nat /\ MinMessage = Open + Marker + 1
        /\ b = l - t - 1 /\ b >= 0
    BY <1>2, <1>3, Lengths DEF MessageBudget
  <2> HIDE DEF t, l, b
  <2>2. /\ t + 1 \in Nat /\ t + 1 <= l /\ t + Open + 1 \in Nat
        /\ b > MinMessage => t + Open + 1 <= l
    BY <2>1
  <2>. QED  BY <2>2 DEF t, l, b
<1>5. top' \in Nat /\ top' <= input.len
  <2>1. CASE Wrote(Len(text) + 1)
    BY <1>2, <1>3, <1>4, <2>1, WroteUpTo
  <2>2. CASE MessageBudget > MinMessage /\ Wrote(Len(text) + Open + 1)
    BY <1>2, <1>3, <1>4, <2>2, WroteUpTo
  <2>. QED  BY <1>1, <2>1, <2>2
<1>6. TypeOK'
  BY <1>1, <1>2, <1>5 DEF TypeOK, Labels
<1>7. Calling' /\ FieldsWhole' /\ MessageWhole' /\ EntryWhole' /\ CopyWhole'
  BY <1>1, <1>2 DEF Calling, FieldsWhole, Kinds, MessageWhole, EntryWhole, CopyWhole
<1>8. Room'
  BY <1>1, <1>3, <1>5 DEF Room
<1>. QED  BY <1>6, <1>7, <1>8 DEF Inv
-----------------------------------------------------------------------------
\* What the loops over the message have in common.
LEMMA InMessage ==
    ASSUME Inv, pc \in {"escape", "cut", "quote", "close"}
    PROVE  /\ TypeOK /\ top <= Size /\ Size \in Nat /\ base + limit <= Size /\ base + limit \in Nat
           /\ input.op = "format" => base + limit + 2 = Size /\ limit > Marker /\ Size = input.len
           /\ input.op # "format" => base = 0 /\ limit = Len(Escaped(input.msg)) + 1
                                       /\ Size = limit /\ input.op = "copy"
           /\ text \in Seq(Byte) /\ Len(text) \in Nat /\ printed \in Seq(Chars) /\ Len(printed) \in Nat
           /\ base \in Nat /\ limit \in Nat /\ k \in Nat
<1>1. TypeOK /\ top <= Size
  BY DEF Inv, Room
<1>2. /\ text \in Seq(Byte) /\ Len(text) \in Nat /\ printed \in Seq(Chars) /\ Len(printed) \in Nat
      /\ base \in Nat /\ limit \in Nat /\ k \in Nat /\ input.msg \in Seq(Chars)
  BY <1>1, Typed
<1>3. CASE input.op = "format"
  <2>1. base + limit = input.len - 2 /\ limit > Marker
    BY <1>3 DEF Inv, Room
  <2>2. input.len \in Nat /\ Size = input.len
    BY <1>1, <1>3, Typed, FormatInput
  <2>3. base + limit + 2 = Size /\ base + limit <= Size /\ Size \in Nat /\ base + limit \in Nat
    <3> DEFINE l == input.len
    <3>1. l \in Nat /\ base \in Nat /\ limit \in Nat /\ base + limit = l - 2
      BY <1>2, <2>1, <2>2
    <3> HIDE DEF l
    <3>2. base + limit + 2 = l /\ base + limit <= l /\ base + limit \in Nat
      BY <3>1
    <3>3. Size = l /\ l \in Nat
      BY <2>2 DEF l
    <3>. QED  BY <3>2, <3>3
  <2>. QED  BY <1>1, <1>2, <1>3, <2>1, <2>2, <2>3
<1>4. CASE input.op # "format"
  <2>1. input.op = "copy" /\ Size = EscapedSize(input.msg)
    BY <1>1, <1>4, Typed
  <2>2. base = 0 /\ limit = Size
    BY <2>1 DEF Inv, Room
  <2>3. limit = Len(Escaped(input.msg)) + 1
    BY <1>2, <2>1, <2>2, EscapedSizeExact
  <2>4. base + limit <= Size /\ base + limit \in Nat /\ Size \in Nat
    BY <1>2, <2>2
  <2>. QED  BY <1>1, <1>2, <1>4, <2>1, <2>2, <2>3, <2>4
<1>. QED  BY <1>3, <1>4

LEMMA StrUpTo ==
    ASSUME Inv, pc = "escape"
    PROVE  /\ Len(Str) = IF Len(printed) <= limit THEN Len(printed) ELSE limit
           /\ Len(Str) \in Nat /\ Len(Str) <= Len(printed) /\ \A i \in 1..Len(Str) : Str[i] = printed[i]
<1>1. PICK str \in Seq(Chars), n \in Nat : str = printed /\ n = limit
  BY InMessage
<1>2. PICK s : s = Str /\ s = SubSeq(str, 1, Min({Len(str), n}))
  BY <1>1 DEF Str
<1>3. /\ Len(s) = IF Len(str) <= n THEN Len(str) ELSE n
      /\ Len(s) \in Nat /\ Len(s) <= Len(str) /\ \A i \in 1..Len(s) : s[i] = str[i]
  BY <1>2, HeadUpTo
<1>4. s = Str /\ str = printed /\ n = limit
  BY <1>1, <1>2
<1>. QED  BY <1>3, <1>4, Zenon

\* The message in the buffer, up to its j-th character.
LEMMA WrittenLength ==
    ASSUME Inv, pc \in {"escape", "cut", "quote", "close"}, NEW j \in 0..Len(printed), NEW P \in Seq(Byte),
           Len(P) = base, text = P \o EscapedHead(printed, j)
    PROVE  /\ EscapedHead(printed, j) \in Seq(Byte) /\ Len(EscapedHead(printed, j)) \in Nat
           /\ Len(text) = base + Len(EscapedHead(printed, j))
           /\ Len(text) - base = Len(EscapedHead(printed, j))
<1>1. EscapedHead(printed, j) \in Seq(Byte) /\ base \in Nat
  BY InMessage, EscapedHeadType
<1>2. Len(text) = base + Len(EscapedHead(printed, j)) /\ Len(EscapedHead(printed, j)) \in Nat
  BY <1>1, Joined
<1>. QED  BY <1>1, <1>2

LEMMA EscapeNextInv ==
    ASSUME Inv, EscapeNext
    PROVE  Inv'
<1> DEFINE c == Str[k + 1]
<1>1. /\ pc = "escape" /\ pc' = pc /\ Len(text) - base < limit - 1 /\ k < Len(Str)
      /\ text' = text \o Image(c) /\ Wrote(Len(text')) /\ k' = k + 1
      /\ input' = input /\ base' = base /\ limit' = limit /\ printed' = printed /\ truncated' = truncated
  BY DEF EscapeNext, Looping
<1>2. /\ TypeOK /\ top <= Size /\ Size \in Nat /\ base + limit <= Size
      /\ text \in Seq(Byte) /\ printed \in Seq(Chars) /\ Len(printed) \in Nat
      /\ base \in Nat /\ limit \in Nat /\ k \in Nat
  BY <1>1, InMessage
<1>3. Len(Str) \in Nat /\ Len(Str) <= Len(printed) /\ \A i \in 1..Len(Str) : Str[i] = printed[i]
  BY <1>1, StrUpTo
<1>4. k + 1 \in 1..Len(Str) /\ k + 1 \in 1..Len(printed) /\ k \in 0..Len(printed) /\ k + 1 \in 0..Len(printed)
  BY <1>1, <1>2, <1>3, SMTT(30)
<1>5. c = printed[k + 1] /\ c \in Chars
  <2>1. c = printed[k + 1]
    BY <1>3, <1>4
  <2> HIDE DEF c
  <2>. QED  BY <1>2, <1>4, <2>1, ElementOfSeq
<1> HIDE DEF c
<1> DEFINE e == EscapedHead(printed, k)
           f == EscapedHead(printed, k + 1)
<1>6. f = e \o Image(c) /\ Len(f) = Len(e) + Width(c)
  <2> DEFINE j == k + 1
  <2>1. j - 1 = k /\ j \in 1..Len(printed) /\ printed[j] = c
    BY <1>2, <1>4, <1>5
  <2> HIDE DEF j
  <2>2. /\ EscapedHead(printed, j) = EscapedHead(printed, j - 1) \o Image(printed[j])
        /\ Len(EscapedHead(printed, j)) = Len(EscapedHead(printed, j - 1)) + Width(printed[j])
    BY <1>2, <2>1, EscapedHeadStep
  <2>. QED  BY <2>1, <2>2 DEF j
<1>7. PICK P \in Seq(Byte) : MessageFront(P) /\ Len(P) = base /\ text = P \o e
  BY <1>1 DEF Inv, MessageWhole, Written
<1>8. e \in Seq(Byte) /\ Len(e) \in Nat /\ Len(text) - base = Len(e)
  BY <1>1, <1>4, <1>7, WrittenLength
<1>9. f \in Seq(Byte) /\ Image(c) \in Seq(Byte) /\ Width(c) \in {1, 2} /\ (Width(c) = 2 <=> NeedsEscape(c))
  BY <1>2, <1>4, <1>5, EscapedHeadType, ImageProperties
<1> HIDE DEF e, f
<1>10. text' = P \o f
  BY <1>1, <1>6, <1>7, <1>8, <1>9, Reassociate
<1>11. text' \in Seq(Byte) /\ Len(text') = base + Len(f) /\ Len(f) \in Nat
  BY <1>7, <1>9, <1>10, Joined
<1>12. Len(f) <= limit /\ (Len(f) = limit => Width(c) = 2)
  <2> DEFINE a == Len(e)
             b == Len(f)
             w == Width(c)
  <2>1. a \in Nat /\ limit \in Nat /\ w \in {1, 2} /\ b = a + w /\ a < limit - 1
    BY <1>1, <1>2, <1>6, <1>8, <1>9
  <2> HIDE DEF a, b, w
  <2>2. b <= limit /\ (b = limit => w = 2)
    BY <2>1
  <2>. QED  BY <2>2 DEF b, w
<1>13. Len(text') \in Nat /\ Len(text') <= Size /\ Len(text') - base = Len(f)
  BY <1>2, <1>11, <1>12
<1>14. top' \in Nat /\ top' <= Size
  BY <1>1, <1>2, <1>13, WroteUpTo
<1>15. TypeOK'
  <2>1. k' \in Nat
    BY <1>1, <1>2
  <2>. QED  BY <1>1, <1>2, <1>11, <1>14, <2>1 DEF TypeOK, Byte
<1>16. Size' = Size
  BY <1>1, SameCall
<1>17. Calling' /\ FieldsWhole' /\ EntryWhole' /\ CopyWhole'
  BY <1>1 DEF Calling, FieldsWhole, Kinds, EntryWhole, CopyWhole
<1>18. Room'
  BY <1>1, <1>14, <1>16 DEF Inv, Room
<1>19. MessageWhole'
  <2>1. k' \in 0..Len(Str)'
    <3>1. Str' = Str
      BY <1>1 DEF Str
    <3>. QED  BY <1>1, <1>2, <1>4, <3>1
  <2>2. EscapedHead(printed', k') = f
    BY <1>1 DEF f
  <2>3. Written(k)'
    <3>1. MessageFront(P)'
      BY <1>1, <1>7, SameCall
    <3>2. Len(P) = base' /\ text' = P \o EscapedHead(printed', k')
      BY <1>1, <1>7, <1>10, <2>2
    <3>. QED  BY <3>1, <3>2 DEF Written
  <2>4. Len(EscapedHead(printed', k')) <= limit'
    BY <1>1, <1>12, <2>2
  <2>5. PairAtEnd' => k' > 0 /\ NeedsEscape(printed'[k'])
    <3>1. PairAtEnd' => Len(f) = limit
      BY <1>1, <1>13 DEF PairAtEnd
    <3>2. k' > 0 /\ printed'[k'] = c
      BY <1>1, <1>2, <1>5
    <3>. QED  BY <1>9, <1>12, <3>1, <3>2
  <2>6. /\ IF truncated' THEN Len(printed') >= limit' ELSE Len(printed') <= limit'
        /\ input'.op = "copy" => printed' = input'.msg
    BY <1>1 DEF Inv, MessageWhole
  <2>. QED  BY <1>1, <2>1, <2>3, <2>4, <2>5, <2>6 DEF MessageWhole
<1>. QED  BY <1>15, <1>17, <1>18, <1>19 DEF Inv
\* The loop ends early exactly if the message does not fit.
LEMMA EscapeEnds ==
    ASSUME Inv, pc = "escape", ~Looping
    PROVE  /\ (truncated \/ PairAtEnd \/ k < Len(Str)) <=> Len(Escaped(printed)) >= limit
           /\ ~(truncated \/ PairAtEnd \/ k < Len(Str)) => k = Len(printed)
<1> DEFINE e == Len(EscapedHead(printed, k))
           m == Len(printed)
           x == Len(Escaped(printed))
           s == Len(Str)
<1>1. /\ printed \in Seq(Chars) /\ limit \in Nat /\ k \in Nat /\ m \in Nat /\ base \in Nat
  BY InMessage
<1>2. /\ s = (IF m <= limit THEN m ELSE limit) /\ s \in Nat /\ s <= m
  BY StrUpTo
<1>3. /\ k \in 0..s /\ Written(k) /\ e <= limit
      /\ IF truncated THEN m >= limit ELSE m <= limit
  BY DEF Inv, MessageWhole
<1>4. k \in 0..m
  BY <1>1, <1>2, <1>3
<1>5. x \in Nat /\ m <= x /\ e \in Nat /\ e + (m - k) <= x
  BY <1>1, <1>4, EscapedLonger
<1>6. k = m => e = x
  BY <1>1, EscapedHeadFull
<1>7. Len(text) - base = e
  <2>1. PICK P \in Seq(Byte) : Len(P) = base /\ text = P \o EscapedHead(printed, k)
    BY <1>3 DEF Written
  <2>. QED  BY <1>4, <2>1, WrittenLength
<1>8. PairAtEnd <=> e = limit
  BY <1>7 DEF PairAtEnd
<1>9. ~(e < limit - 1 /\ k < s)
  BY <1>7 DEF Looping
<1> HIDE DEF e, m, x, s
<1>10. truncated => x >= limit
  <2>1. truncated => m >= limit
    BY <1>3
  <2>. QED  BY <1>1, <1>5, <2>1
<1>11. PairAtEnd => x >= limit
  BY <1>1, <1>4, <1>5, <1>8
<1>12. k < s => x >= limit
  BY <1>1, <1>2, <1>4, <1>5, <1>9
<1>13. ~truncated /\ ~PairAtEnd /\ ~(k < s) => k = m /\ x < limit
  <2> SUFFICES ASSUME ~truncated, ~PairAtEnd, ~(k < s) PROVE k = m /\ x < limit
    OBVIOUS
  <2>1. m <= limit /\ e # limit
    BY <1>3, <1>8
  <2>2. k = m
    BY <1>1, <1>2, <1>3, <2>1
  <2>. QED  BY <1>1, <1>3, <1>5, <1>6, <2>1, <2>2
<1>14. x < limit => ~(x >= limit)
  BY <1>1, <1>5
<1>. QED  BY <1>10, <1>11, <1>12, <1>13, <1>14, Zenon DEF m, x, s

\* What stays in the buffer behind the loop ends between two characters.
LEMMA EscapeLeaves ==
    ASSUME Inv, EscapeDone
    PROVE  \E j \in 0..Len(printed), P \in Seq(Byte) :
               /\ MessageFront(P) /\ Len(P) = base /\ text' = P \o EscapedHead(printed, j)
               /\ Len(EscapedHead(printed, j)) < limit
               /\ ~PairAtEnd => j = k
<1>1. pc = "escape" /\ text' = IF PairAtEnd THEN SubSeq(text, 1, base + limit - 2) ELSE text
  BY DEF EscapeDone
<1>2. printed \in Seq(Chars) /\ limit \in Nat /\ k \in Nat /\ Len(printed) \in Nat /\ base \in Nat
  BY <1>1, InMessage
<1>3. /\ k \in 0..Len(Str) /\ Len(EscapedHead(printed, k)) <= limit
      /\ PairAtEnd => k > 0 /\ NeedsEscape(printed[k])
  BY <1>1 DEF Inv, MessageWhole
<1>4. k \in 0..Len(printed)
  <2>1. Len(Str) \in Nat /\ Len(Str) <= Len(printed)
    BY <1>1, StrUpTo
  <2>. QED  BY <1>2, <1>3, <2>1
<1>5. PICK P \in Seq(Byte) : MessageFront(P) /\ Len(P) = base /\ text = P \o EscapedHead(printed, k)
  BY <1>1 DEF Inv, MessageWhole, Written
<1> DEFINE e == EscapedHead(printed, k)
<1>6. e \in Seq(Byte) /\ Len(e) \in Nat /\ Len(text) - base = Len(e)
  BY <1>1, <1>4, <1>5, WrittenLength
<1>7. CASE PairAtEnd
  <2> DEFINE d == EscapedHead(printed, k - 1)
             c == printed[k]
  <2>1. k \in 1..Len(printed) /\ k - 1 \in 0..Len(printed)
    BY <1>2, <1>3, <1>4, <1>7
  <2>2. c \in Chars /\ d \in Seq(Byte)
    BY <1>2, <2>1, ElementOfSeq, EscapedHeadType
  <2>3. Image(c) \in Seq(Byte) /\ Width(c) = 2
    BY <1>3, <1>7, <2>2, ImageProperties
  <2>4. e = d \o Image(c) /\ Len(e) = Len(d) + 2
    BY <1>2, <2>1, <2>3, EscapedHeadStep
  <2>5. Len(e) = limit
    BY <1>6, <1>7 DEF PairAtEnd
  <2> HIDE DEF e, d, c
  <2>6. P \o d \in Seq(Byte) /\ Len(P \o d) = base + Len(d) /\ Len(d) \in Nat
    BY <1>5, <2>2, Joined
  <2>7. base + limit - 2 = Len(P \o d) /\ Len(d) < limit
    <3> DEFINE a == Len(d)
               u == Len(P \o d)
    <3>1. a \in Nat /\ base \in Nat /\ limit \in Nat /\ limit = a + 2 /\ u = base + a
      BY <1>2, <2>4, <2>5, <2>6
    <3> HIDE DEF a, u
    <3>2. base + limit - 2 = u /\ a < limit
      BY <3>1
    <3>. QED  BY <3>2 DEF a, u
  <2>8. text = (P \o d) \o Image(c)
    BY <1>5, <2>2, <2>3, <2>4, Reassociate DEF e
  <2>9. text' = P \o d
    BY <1>1, <1>7, <2>3, <2>6, <2>7, <2>8, HeadOfJoined
  <2>. QED  BY <1>5, <1>7, <2>1, <2>7, <2>9 DEF d
<1>8. CASE ~PairAtEnd
  <2>1. text' = text
    BY <1>1, <1>8
  <2>2. Len(e) < limit
    <3>1. Len(e) # limit
      BY <1>6, <1>8 DEF PairAtEnd
    <3>. QED  BY <1>2, <1>3, <1>6, <3>1
  <2>. QED  BY <1>4, <1>5, <2>1, <2>2
<1>. QED  BY <1>7, <1>8

LEMMA EscapeDoneInv ==
    ASSUME Inv, EscapeDone
    PROVE  Inv'
<1> DEFINE x == Len(Escaped(printed))
           early == truncated \/ PairAtEnd \/ k < Len(Str)
<1>1. /\ pc = "escape" /\ ~Looping /\ truncated' = early /\ Wrote(Len(text') + 1)
      /\ pc' = (IF input.op = "copy" THEN "done" ELSE IF truncated' THEN "cut" ELSE "quote")
      /\ input' = input /\ base' = base /\ limit' = limit /\ k' = k /\ printed' = printed
  BY DEF EscapeDone, loop
<1>2. /\ TypeOK /\ top <= Size /\ Size \in Nat /\ base + limit <= Size
      /\ printed \in Seq(Chars) /\ Len(printed) \in Nat /\ base \in Nat /\ limit \in Nat
  BY <1>1, InMessage
<1>3. (truncated' <=> x >= limit) /\ (~truncated' => k = Len(printed) /\ ~PairAtEnd) /\ truncated' \in BOOLEAN
  BY <1>1, EscapeEnds, Zenon
<1> HIDE DEF early
<1>4. PICK j \in 0..Len(printed), P \in Seq(Byte) :
          /\ MessageFront(P) /\ Len(P) = base /\ text' = P \o EscapedHead(printed, j)
          /\ Len(EscapedHead(printed, j)) < limit /\ (~PairAtEnd => j = k)
  BY EscapeLeaves
<1> DEFINE e == EscapedHead(printed, j)
<1>5. e \in Seq(Byte) /\ Len(e) \in Nat
  BY <1>2, EscapedHeadType, LenProperties
<1>6. text' \in Seq(Byte) /\ Len(text') = base + Len(e)
  BY <1>4, <1>5, Joined
<1>7. Len(text') + 1 \in Nat /\ Len(text') + 1 <= Size
  BY <1>2, <1>4, <1>5, <1>6
<1>8. top' \in Nat /\ top' <= Size
  BY <1>1, <1>2, <1>7, WroteUpTo
<1>9. Size' = Size
  BY <1>1, SameCall
<1>10. pc' \in {"done", "cut", "quote"} /\ (pc' = "done" <=> input.op = "copy")
  BY <1>1
<1>11. TypeOK'
  BY <1>1, <1>2, <1>3, <1>6, <1>8, <1>10 DEF TypeOK, Byte, Labels
<1>12. input.op # "copy" <=> input.op = "format"
  BY <1>2, Typed
<1>13. Calling' /\ FieldsWhole'
  BY <1>1, <1>10, <1>12 DEF Calling, FieldsWhole, Kinds
<1>14. Room'
  BY <1>1, <1>8, <1>9, <1>10 DEF Inv, Room
<1>15. MessageFront(P)'
  BY <1>1, <1>4, SameCall
<1>16. CASE input.op = "copy"
  <2>1. printed = input.msg /\ limit = Len(Escaped(input.msg)) + 1
    BY <1>1, <1>12, <1>16, InMessage DEF Inv, MessageWhole
  <2>2. ~(x >= limit)
    <3>1. x \in Nat /\ limit = x + 1
      BY <1>2, <2>1, EscapedLonger
    <3> HIDE DEF x
    <3>. QED  BY <3>1
  <2>3. ~truncated' /\ j = Len(printed)
    BY <1>3, <1>4, <2>2
  <2>4. P = <<>>
    BY <1>4, <1>16 DEF MessageFront
  <2>5. text' = Escaped(input.msg)
    BY <1>2, <1>4, <1>5, <2>1, <2>3, <2>4, JoinedEmpty, EscapedHeadFull
  <2>6. CopyWhole' /\ EntryWhole' /\ MessageWhole'
    BY <1>1, <1>10, <1>12, <1>16, <2>3, <2>5 DEF CopyWhole, EntryWhole, MessageWhole
  <2>. QED  BY <1>11, <1>13, <1>14, <2>6 DEF Inv
<1>17. CASE input.op = "format"
  <2>1. CopyWhole' /\ EntryWhole'
    BY <1>10, <1>12, <1>17 DEF CopyWhole, EntryWhole
  <2>2. MessageWhole'
    <3>1. truncated' <=> Len(Escaped(printed')) >= limit'
      BY <1>1, <1>3
    <3>2. pc' = "cut" => truncated'
      BY <1>1
    <3>3. pc' = "quote" => ~truncated'
      BY <1>1
    <3>4. Written(j)' /\ Len(EscapedHead(printed', j)) <= limit' /\ j \in 0..Len(printed')
      <4>1. text' = P \o EscapedHead(printed', j) /\ Len(P) = base'
        BY <1>1, <1>4
      <4>2. Written(j)'
        BY <1>15, <4>1 DEF Written
      <4>3. Len(e) <= limit
        BY <1>2, <1>4, <1>5
      <4>. QED  BY <1>1, <4>2, <4>3
    <3>5. pc' = "quote" => Written(Len(printed))'
      <4>1. pc' = "quote" => j = Len(printed')
        BY <1>1, <1>3, <1>4, <3>3
      <4>2. SUFFICES ASSUME pc' = "quote" PROVE Written(Len(printed))'
        OBVIOUS
      <4>3. text' = P \o EscapedHead(printed', Len(printed')) /\ Len(P) = base'
        BY <1>1, <1>4, <4>1, <4>2
      <4>. QED  BY <1>15, <4>3 DEF Written
    <3>. QED  BY <1>10, <1>12, <1>17, <3>1, <3>2, <3>3, <3>4, <3>5 DEF MessageWhole
  <2>. QED  BY <1>11, <1>13, <1>14, <2>1, <2>2 DEF Inv
<1>. QED  BY <1>12, <1>16, <1>17
-----------------------------------------------------------------------------
\* The last byte tells how many bytes the last character takes.
LEMMA LastOfJoined ==
    ASSUME NEW s \in Seq(Byte), NEW t \in Seq(Byte), Len(t) > 0
    PROVE  Last(s \o t) = Last(t)
<1>1. Len(s) \in Nat /\ Len(t) \in Nat /\ Len(s \o t) = Len(s) + Len(t)
  BY Joined
<1>2. \A i \in 1..(Len(s) + Len(t)) : (s \o t)[i] = IF i <= Len(s) THEN s[i] ELSE t[i - Len(s)]
  BY ConcatProperties
<1> DEFINE n == Len(s) + Len(t)
<1>3. n \in 1..n /\ ~(n <= Len(s)) /\ n - Len(s) = Len(t)
  BY <1>1
<1>4. (s \o t)[n] = t[n - Len(s)]
  BY <1>2, <1>3
<1> HIDE DEF n
<1>5. (s \o t)[n] = t[Len(t)]
  BY <1>3, <1>4
<1>. QED  BY <1>1, <1>5 DEF Last, n

LEMMA CutBackInv ==
    ASSUME Inv, CutBack
    PROVE  Inv'
<1>1. /\ pc = "cut" /\ pc' = pc /\ NoRoomForMarker
      /\ text' = SubSeq(text, 1, Len(text) - Width(Last(text))) /\ top' = top
      /\ input' = input /\ base' = base /\ limit' = limit /\ k' = k /\ printed' = printed /\ truncated' = truncated
  BY DEF CutBack, loop
<1>2. /\ TypeOK /\ input.op = "format" /\ limit > Marker
      /\ text \in Seq(Byte) /\ Len(text) \in Nat /\ printed \in Seq(Chars) /\ Len(printed) \in Nat
      /\ base \in Nat /\ limit \in Nat
  <2>1. input.op = "format"
    BY <1>1 DEF Inv, Calling
  <2>. QED  BY <1>1, <2>1, InMessage
<1>3. PICK j \in 0..Len(printed), P \in Seq(Byte) :
          /\ MessageFront(P) /\ Len(P) = base /\ text = P \o EscapedHead(printed, j)
          /\ Len(EscapedHead(printed, j)) <= limit
  BY <1>1 DEF Inv, MessageWhole, Written
<1> DEFINE e == EscapedHead(printed, j)
<1>4. e \in Seq(Byte) /\ Len(e) \in Nat /\ Len(text) - base = Len(e) /\ Len(text) = base + Len(e)
  BY <1>1, <1>3, WrittenLength
<1>5. Len(e) > 0
  <2>1. (Len(e) + Open) + Marker >= limit + Open
    BY <1>1, <1>4 DEF NoRoomForMarker
  <2> DEFINE a == Len(e)
  <2>2. a \in Nat /\ (a + Open) + Marker >= limit + Open /\ limit > Marker
        /\ limit \in Nat /\ Open \in Nat /\ Marker \in Nat
    BY <1>2, <1>4, <2>1, Lengths
  <2> HIDE DEF a
  <2>3. a > 0
    BY <2>2
  <2>. QED  BY <2>3 DEF a
<1>6. j \in 1..Len(printed) /\ j - 1 \in 0..Len(printed)
  <2>1. j # 0
    BY <1>5, EscapedHeadEmpty, EmptySeq
  <2>. QED  BY <1>2, <2>1
<1> DEFINE d == EscapedHead(printed, j - 1)
           c == printed[j]
<1>7. c \in Chars /\ d \in Seq(Byte)
  BY <1>2, <1>6, ElementOfSeq, EscapedHeadType
<1>8. /\ Image(c) \in Seq(Byte) /\ Len(Image(c)) = Width(c) /\ Width(Last(Image(c))) = Width(c)
      /\ Width(c) \in {1, 2}
  BY <1>7, ImageProperties
<1>9. e = d \o Image(c) /\ Len(e) = Len(d) + Width(c)
  BY <1>2, <1>6, EscapedHeadStep
<1> HIDE DEF e, d, c
<1>10. P \o d \in Seq(Byte) /\ Len(P \o d) = base + Len(d) /\ Len(d) \in Nat
  BY <1>3, <1>7, Joined
<1>11. text = (P \o d) \o Image(c)
  <2>1. (P \o d) \o Image(c) = P \o (d \o Image(c))
    BY <1>7, <1>8, Reassociate
  <2>. QED  BY <1>3, <1>9, <2>1, Zenon DEF e
<1>12. Width(Last(text)) = Width(c)
  <2>1. Len(Image(c)) > 0
    BY <1>8
  <2>2. Last(text) = Last(Image(c))
    BY <1>8, <1>10, <1>11, <2>1, LastOfJoined
  <2>. QED  BY <1>8, <2>2
<1>13. Len(text) - Width(Last(text)) = Len(P \o d) /\ Len(d) <= Len(e)
  <2> DEFINE a == Len(d)
             b == Len(e)
             t == Len(text)
             w == Width(c)
  <2>1. a \in Nat /\ base \in Nat /\ w \in {1, 2} /\ b = a + w /\ t = base + b
    BY <1>2, <1>4, <1>8, <1>9, <1>10
  <2> HIDE DEF a, b, t, w
  <2>2. t - w = base + a /\ a <= b
    BY <2>1
  <2>. QED  BY <1>10, <1>12, <2>2 DEF a, b, t, w
<1>14. text' = P \o d /\ text' \in Seq(Byte)
  BY <1>1, <1>8, <1>10, <1>11, <1>13, HeadOfJoined
<1>15. TypeOK'
  BY <1>1, <1>2, <1>14 DEF TypeOK, Byte
<1>16. Size' = Size
  BY <1>1, SameCall
<1>17. Calling' /\ FieldsWhole' /\ EntryWhole' /\ CopyWhole'
  BY <1>1, <1>2 DEF Calling, FieldsWhole, Kinds, EntryWhole, CopyWhole
<1>18. Room'
  BY <1>1, <1>16 DEF Inv, Room
<1>19. MessageWhole'
  <2>1. Written(j - 1)'
    <3>1. MessageFront(P)'
      BY <1>1, <1>3, SameCall
    <3>2. Len(P) = base' /\ text' = P \o EscapedHead(printed', j - 1)
      BY <1>1, <1>3, <1>14 DEF d
    <3>. QED  BY <3>1, <3>2 DEF Written
  <2>2. Len(EscapedHead(printed', j - 1)) <= limit' /\ j - 1 \in 0..Len(printed')
    <3>1. Len(d) <= limit
      BY <1>2, <1>3, <1>4, <1>10, <1>13 DEF e
    <3>. QED  BY <1>1, <1>6, <3>1 DEF d
  <2>3. truncated' /\ (truncated' <=> Len(Escaped(printed')) >= limit')
    BY <1>1, <1>2 DEF Inv, MessageWhole
  <2>. QED  BY <1>1, <2>1, <2>2, <2>3 DEF MessageWhole
<1>. QED  BY <1>15, <1>17, <1>18, <1>19 DEF Inv

\* The bytes of a message behind what stands before it.
LEMMA MessageIs ==
    ASSUME Inv, pc \in {"cut", "quote"}, NEW j \in 0..Len(printed), Written(j)
    PROVE  \E K \in SUBSET Kinds, n \in 0..Len(input.pairs) :
               text \o ((IF j < Len(printed) THEN Bytes("marker", Marker) ELSE <<>>) \o <<Quote>>)
                 = Fields(K, n) \o Message(j)
<1> DEFINE open == Bytes("msg", Open - 1)
           e == EscapedHead(printed, j)
           mark == IF j < Len(printed) THEN Bytes("marker", Marker) ELSE <<>>
           q == <<Quote>>
<1>1. input.op = "format" /\ input.op # "copy" /\ printed \in Seq(Chars)
  <2>1. input.op = "format"
    BY DEF Inv, Calling
  <2>. QED  BY <2>1, InMessage
<1>2. input \in Inputs
  BY <1>1, InMessage, Typed
<1>3. PICK P \in Seq(Byte), K \in SUBSET Kinds, n \in 0..Len(input.pairs) :
          P = Fields(K, n) \o open \o q /\ text = P \o e
  BY <1>1 DEF Written, MessageFront
<1> DEFINE F == Fields(K, n)
<1>4. open \in Seq(Byte) /\ q \in Seq(Byte) /\ mark \in Seq(Byte)
  <2>1. "msg" \in Byte /\ Quote \in Byte /\ "marker" \in Byte
    BY ByteMembers
  <2>2. Open - 1 \in Nat /\ Marker \in Nat
    BY Lengths
  <2>3. open \in Seq(Byte) /\ Bytes("marker", Marker) \in Seq(Byte)
    BY <2>1, <2>2, BytesType
  <2>4. mark \in Seq(Byte)
    BY <2>3, JoinedEmpty
  <2> HIDE DEF open, mark
  <2>. QED  BY <2>1, <2>3, <2>4
<1>5. F \in Seq(Byte) /\ e \in Seq(Byte)
  BY <1>1, <1>2, FieldsType, EscapedHeadType
<1>6. Message(j) = open \o q \o e \o mark \o q
  BY DEF Message, EscapedHead
<1> HIDE DEF open, e, mark, q, F
<1>8. text \o (mark \o q) = (((F \o open) \o q) \o e) \o (mark \o q)
  BY <1>3 DEF F
<1>9. (((F \o open) \o q) \o e) \o (mark \o q) = F \o (open \o q \o e \o mark \o q)
  <2> DEFINE oq == open \o q
             mq == mark \o q
             oqe == oq \o e
  <2>1. oq \in Seq(Byte) /\ mq \in Seq(Byte)
    BY <1>4, Joined
  <2>2. oqe \in Seq(Byte)
    BY <1>5, <2>1, Joined
  <2>3. (F \o open) \o q = F \o oq
    <3>1. F \in Seq(Byte) /\ open \in Seq(Byte) /\ q \in Seq(Byte)
      BY <1>4, <1>5
    <3>. QED  BY <3>1, Reassociate
  <2> HIDE DEF oq, mq
  <2>4. (F \o oq) \o e = F \o oqe
    <3>1. F \in Seq(Byte) /\ oq \in Seq(Byte) /\ e \in Seq(Byte)
      BY <1>5, <2>1
    <3>. QED  BY <3>1, Reassociate
  <2> HIDE DEF oqe
  <2>5. (F \o oqe) \o mq = F \o (oqe \o mq)
    <3>1. F \in Seq(Byte) /\ oqe \in Seq(Byte) /\ mq \in Seq(Byte)
      BY <1>5, <2>1, <2>2
    <3>. QED  BY <3>1, Reassociate
  <2>6. (oqe \o mark) \o q = oqe \o mq
    <3>1. oqe \in Seq(Byte) /\ mark \in Seq(Byte) /\ q \in Seq(Byte)
      BY <1>4, <2>2
    <3>. QED  BY <3>1, Reassociate DEF mq
  <2>. QED  BY <2>3, <2>4, <2>5, <2>6, Zenon DEF oq, mq, oqe
<1>10. text \o (mark \o q) = F \o Message(j)
  BY <1>6, <1>8, <1>9, Zenon
<1>. QED  BY <1>10 DEF F, mark, q

LEMMA AddMarkerInv ==
    ASSUME Inv, AddMarker
    PROVE  Inv'
<1> DEFINE mark == Bytes("marker", Marker)
           q == <<Quote>>
<1>1. /\ pc = "cut" /\ pc' = "close" /\ ~NoRoomForMarker
      /\ text' = text \o mark \o q /\ Wrote(Len(text') + 1)
      /\ input' = input /\ base' = base /\ limit' = limit /\ k' = k /\ printed' = printed /\ truncated' = truncated
  BY DEF AddMarker, Goto, loop
<1>2. input.op = "format"
  BY <1>1 DEF Inv, Calling
<1>3. /\ TypeOK /\ top <= Size /\ Size \in Nat /\ base + limit + 2 = Size /\ base + limit <= Size
      /\ text \in Seq(Byte) /\ Len(text) \in Nat /\ printed \in Seq(Chars) /\ Len(printed) \in Nat
      /\ base \in Nat /\ limit \in Nat
  BY <1>1, <1>2, InMessage
<1>4. PICK j \in 0..Len(printed) : Written(j)
  BY <1>1 DEF Inv, MessageWhole
<1> DEFINE e == Len(EscapedHead(printed, j))
           x == Len(Escaped(printed))
<1>5. e \in Nat /\ Len(text) - base = e /\ Len(text) = base + e
  <2>1. PICK P \in Seq(Byte) : Len(P) = base /\ text = P \o EscapedHead(printed, j)
    BY <1>4 DEF Written
  <2>. QED  BY <1>1, <2>1, WrittenLength
<1>6. x >= limit /\ truncated /\ (truncated <=> x >= limit)
  BY <1>1, <1>2 DEF Inv, MessageWhole
<1>7. x \in Nat /\ (j = Len(printed) => e = x)
  BY <1>3, EscapedLonger, EscapedHeadFull
<1>8. ~((e + Open) + Marker >= limit + Open)
  BY <1>1, <1>5 DEF NoRoomForMarker
<1> HIDE DEF e, x
<1>9. e + Marker < limit
  BY <1>3, <1>5, <1>8, Lengths
<1>10. j < Len(printed)
  <2>1. j # Len(printed)
    BY <1>3, <1>5, <1>6, <1>7, <1>9, Lengths
  <2>. QED  BY <1>3, <2>1
<1>11. mark \in Seq(Byte) /\ Len(mark) = Marker /\ q \in Seq(Byte) /\ Len(q) = 1
  <2>1. "marker" \in Byte /\ Quote \in Byte /\ Marker \in Nat
    BY ByteMembers, Lengths
  <2>2. mark \in Seq(Byte) /\ Len(mark) = Marker
    BY <2>1, BytesType
  <2> HIDE DEF mark
  <2>. QED  BY <2>1, <2>2
<1> HIDE DEF mark, q
<1>12. text' \in Seq(Byte) /\ Len(text') = Len(text) + Marker + 1
  <2>1. text \o mark \in Seq(Byte) /\ Len(text \o mark) = Len(text) + Marker
    BY <1>3, <1>11, Joined
  <2>. QED  BY <1>1, <1>11, <2>1, Joined
<1>13. Len(text') <= base + limit /\ Len(text') + 1 \in Nat /\ Len(text') + 1 <= Size
  <2> DEFINE t == Len(text)
             u == Len(text')
             z == Size
  <2>1. /\ t \in Nat /\ e \in Nat /\ base \in Nat /\ limit \in Nat /\ Marker \in Nat /\ z \in Nat
        /\ t = base + e /\ u = t + Marker + 1 /\ e + Marker < limit /\ base + limit + 2 = z
    BY <1>3, <1>5, <1>9, <1>12, Lengths
  <2> HIDE DEF t, u, z
  <2>2. u <= base + limit /\ u + 1 \in Nat /\ u + 1 <= z
    BY <2>1
  <2>. QED  BY <2>2 DEF u, z
<1>14. top' \in Nat /\ top' <= Size
  BY <1>1, <1>3, <1>13, WroteUpTo
<1>15. TypeOK'
  BY <1>1, <1>3, <1>12, <1>14 DEF TypeOK, Byte, Labels
<1>16. Size' = Size
  BY <1>1, SameCall
<1>17. Calling' /\ FieldsWhole' /\ EntryWhole' /\ CopyWhole'
  BY <1>1, <1>2 DEF Calling, FieldsWhole, Kinds, EntryWhole, CopyWhole
<1>18. Room'
  BY <1>1, <1>13, <1>14, <1>16 DEF Inv, Room
<1>19. MessageWhole'
  <2>1. PICK K \in SUBSET Kinds, n \in 0..Len(input.pairs) : text \o (mark \o q) = Fields(K, n) \o Message(j)
    BY <1>1, <1>4, <1>10, MessageIs DEF mark, q
  <2>2. text' = text \o (mark \o q)
    <3>1. text \in Seq(Byte) /\ mark \in Seq(Byte) /\ q \in Seq(Byte)
      BY <1>3, <1>11
    <3>2. (text \o mark) \o q = text \o (mark \o q)
      BY <3>1, Reassociate
    <3>. QED  BY <1>1, <3>2
  <2>3. Fields(K, n)' = Fields(K, n) /\ Message(j)' = Message(j)
    BY <1>1, SameCall, Zenon DEF Message
  <2>4. text' = Fields(K, n)' \o Message(j)'
    BY <2>1, <2>2, <2>3
  <2>5. K \in SUBSET Kinds /\ n \in 0..Len(input'.pairs) /\ j \in 0..Len(printed')
    BY <1>1
  <2>6. truncated' <=> Len(Escaped(printed')) >= limit'
    BY <1>1, <1>6 DEF x
  <2>. QED  BY <1>1, <2>4, <2>5, <2>6 DEF MessageWhole
<1>. QED  BY <1>15, <1>17, <1>18, <1>19 DEF Inv

LEMMA EndMessageInv ==
    ASSUME Inv, EndMessage
    PROVE  Inv'
<1> DEFINE q == <<Quote>>
           j == Len(printed)
           x == Len(Escaped(printed))
<1>1. /\ pc = "quote" /\ pc' = "close" /\ text' = text \o q /\ Wrote(Len(text') + 1)
      /\ input' = input /\ base' = base /\ limit' = limit /\ k' = k /\ printed' = printed /\ truncated' = truncated
  BY DEF EndMessage, Goto, loop
<1>2. input.op = "format"
  BY <1>1 DEF Inv, Calling
<1>3. /\ TypeOK /\ top <= Size /\ Size \in Nat /\ base + limit + 2 = Size
      /\ text \in Seq(Byte) /\ Len(text) \in Nat /\ printed \in Seq(Chars) /\ j \in Nat
      /\ base \in Nat /\ limit \in Nat
  BY <1>1, <1>2, InMessage
<1>4. Written(j) /\ j \in 0..Len(printed) /\ ~(j < Len(printed))
  BY <1>1, <1>3 DEF Inv, MessageWhole
<1>5. ~truncated /\ (truncated <=> x >= limit)
  BY <1>1, <1>2 DEF Inv, MessageWhole
<1>6. x \in Nat /\ Len(text) = base + x
  <2>1. PICK P \in Seq(Byte) : Len(P) = base /\ text = P \o EscapedHead(printed, j)
    BY <1>4 DEF Written
  <2>2. Len(text) = base + Len(EscapedHead(printed, j)) /\ Len(EscapedHead(printed, j)) \in Nat
    BY <1>1, <1>4, <2>1, WrittenLength
  <2>. QED  BY <1>3, <2>2, EscapedHeadFull
<1>7. q \in Seq(Byte) /\ Len(q) = 1
  BY ByteMembers
<1> HIDE DEF q, x
<1>8. text' \in Seq(Byte) /\ Len(text') = Len(text) + 1
  BY <1>1, <1>3, <1>7, Joined
<1>9. x < limit
  BY <1>3, <1>5, <1>6
<1>10. Len(text') <= base + limit /\ Len(text') + 1 \in Nat /\ Len(text') + 1 <= Size
  <2> DEFINE t == Len(text)
             u == Len(text')
             z == Size
  <2>1. /\ t \in Nat /\ x \in Nat /\ base \in Nat /\ limit \in Nat /\ z \in Nat
        /\ t = base + x /\ u = t + 1 /\ x < limit /\ base + limit + 2 = z
    BY <1>3, <1>6, <1>8, <1>9
  <2> HIDE DEF t, u, z
  <2>2. u <= base + limit /\ u + 1 \in Nat /\ u + 1 <= z
    BY <2>1
  <2>. QED  BY <2>2 DEF u, z
<1>11. top' \in Nat /\ top' <= Size
  BY <1>1, <1>3, <1>10, WroteUpTo
<1>12. TypeOK'
  BY <1>1, <1>3, <1>8, <1>11 DEF TypeOK, Byte, Labels
<1>13. Size' = Size
  BY <1>1, SameCall
<1>14. Calling' /\ FieldsWhole' /\ EntryWhole' /\ CopyWhole'
  BY <1>1, <1>2 DEF Calling, FieldsWhole, Kinds, EntryWhole, CopyWhole
<1>15. Room'
  BY <1>1, <1>10, <1>11, <1>13 DEF Inv, Room
<1>16. MessageWhole'
  <2> HIDE DEF j
  <2>1. PICK K \in SUBSET Kinds, n \in 0..Len(input.pairs) : text \o (<<>> \o q) = Fields(K, n) \o Message(j)
    BY <1>1, <1>4, MessageIs DEF q
  <2>2. text' = Fields(K, n) \o Message(j)
    BY <1>1, <1>7, <2>1, JoinedEmpty
  <2>3. PICK i : i = j
    OBVIOUS
  <2>4. Fields(K, n)' = Fields(K, n) /\ Message(i)' = Message(i)
    BY <1>1, SameCall, Zenon DEF Message
  <2>5. text' = Fields(K, n)' \o Message(i)'
    BY <2>2, <2>3, <2>4
  <2>6. K \in SUBSET Kinds /\ n \in 0..Len(input'.pairs) /\ i \in 0..Len(printed')
    BY <1>1, <1>4, <2>3
  <2>7. truncated' <=> Len(Escaped(printed')) >= limit'
    BY <1>1, <1>5 DEF x
  <2>. QED  BY <1>1, <2>5, <2>6, <2>7 DEF MessageWhole
<1>. QED  BY <1>12, <1>14, <1>15, <1>16 DEF Inv

LEMMA CloseInv ==
    ASSUME Inv, Close
    PROVE  Inv'
<1> DEFINE brace == <<RightBrace>>
<1>1. /\ pc = "close" /\ pc' = "done" /\ text' = text \o brace /\ Wrote(Len(text') + 1)
      /\ input' = input /\ base' = base /\ limit' = limit /\ k' = k /\ printed' = printed /\ truncated' = truncated
  BY DEF Close, Goto, loop
<1>2. input.op = "format" /\ Len(text) <= base + limit
  BY <1>1 DEF Inv, Calling, Room
<1>3. /\ TypeOK /\ top <= Size /\ Size \in Nat /\ base + limit + 2 = Size
      /\ text \in Seq(Byte) /\ Len(text) \in Nat /\ base \in Nat /\ limit \in Nat
  BY <1>1, <1>2, InMessage
<1>4. brace \in Seq(Byte) /\ Len(brace) = 1
  BY ByteMembers
<1> HIDE DEF brace
<1>5. text' \in Seq(Byte) /\ Len(text') = Len(text) + 1
  BY <1>1, <1>3, <1>4, Joined
<1>6. Len(text') + 1 \in Nat /\ Len(text') + 1 <= Size
  <2> DEFINE t == Len(text)
             u == Len(text')
             z == Size
  <2>1. /\ t \in Nat /\ base \in Nat /\ limit \in Nat /\ z \in Nat
        /\ t <= base + limit /\ u = t + 1 /\ base + limit + 2 = z
    BY <1>2, <1>3, <1>5
  <2> HIDE DEF t, u, z
  <2>2. u + 1 \in Nat /\ u + 1 <= z
    BY <2>1
  <2>. QED  BY <2>2 DEF u, z
<1>7. top' \in Nat /\ top' <= Size
  BY <1>1, <1>3, <1>6, WroteUpTo
<1>8. TypeOK'
  BY <1>1, <1>3, <1>5, <1>7 DEF TypeOK, Byte, Labels
<1>9. Size' = Size
  BY <1>1, SameCall
<1>10. Calling' /\ FieldsWhole' /\ CopyWhole'
  BY <1>1, <1>2 DEF Calling, FieldsWhole, Kinds, CopyWhole
<1>11. Room'
  BY <1>1, <1>7, <1>9 DEF Room
<1>12. MessageWhole'
  BY <1>1, <1>2 DEF Inv, MessageWhole
<1>13. EntryWhole'
  <2>1. PICK K \in SUBSET Kinds, n \in 0..Len(input.pairs), j \in 0..Len(printed) :
            text = Fields(K, n) \o Message(j)
    BY <1>1 DEF Inv, MessageWhole
  <2>2. Fields(K, n)' = Fields(K, n) /\ Message(j)' = Message(j)
    BY <1>1, SameCall, Zenon DEF Message
  <2>3. text' = (Fields(K, n)' \o Message(j)') \o <<RightBrace>>
    BY <1>1, <2>1, <2>2 DEF brace
  <2>4. K \in SUBSET Kinds /\ n \in 0..Len(input'.pairs) /\ j \in 0..Len(printed')
    BY <1>1
  <2>. QED  BY <2>3, <2>4 DEF EntryWhole, Kinds
<1>. QED  BY <1>8, <1>10, <1>11, <1>12, <1>13 DEF Inv

LEMMA StutterInv ==
    ASSUME Inv, UNCHANGED vars
    PROVE  Inv'
<1>1. /\ input' = input /\ pc' = pc /\ text' = text /\ top' = top /\ base' = base /\ limit' = limit /\ k' = k
      /\ printed' = printed /\ truncated' = truncated
  BY DEF vars, loop
<1>2. /\ \A K, n : Fields(K, n)' = Fields(K, n)
      /\ \A n : Pairs(n)' = Pairs(n)
      /\ \A P : MessageFront(P)' <=> MessageFront(P)
      /\ Size' = Size /\ \A j : Message(j)' = Message(j)
  BY <1>1, SameCall, Zenon DEF Message
<1>3. /\ Budget' = Budget /\ MessageBudget' = MessageBudget /\ Left' = Left /\ Str' = Str
      /\ (PairAtEnd' <=> PairAtEnd)
  BY <1>1 DEF Budget, MessageBudget, Left, Str, PairAtEnd
<1>4. TypeOK' /\ Calling' /\ CopyWhole'
  BY <1>1 DEF Inv, TypeOK, Calling, CopyWhole
<1>5. Room'
  BY <1>1, <1>2, <1>3 DEF Inv, Room
<1>6. FieldsWhole'
  <2>1. Pairs(k)' = Pairs(k)
    BY <1>1, Zenon DEF Pairs, Pair
  <2>. QED  BY <1>1, <1>2, <2>1, Zenon DEF Inv, FieldsWhole
<1>7. EntryWhole'
  BY <1>1, <1>2, Zenon DEF Inv, EntryWhole
<1>8. MessageWhole'
  <2>1. /\ \A j : Written(j)' <=> Written(j)
        /\ Written(k)' <=> Written(k)
        /\ Written(Len(printed))' <=> Written(Len(printed))
    BY <1>1, <1>2, Zenon DEF Written
  <2>. QED  BY <1>1, <1>2, <1>3, <2>1, Zenon DEF Inv, MessageWhole
<1>. QED  BY <1>4, <1>5, <1>6, <1>7, <1>8 DEF Inv

\* Every step keeps the invariant.
LEMMA NextInv == Inv /\ [Next]_vars => Inv'
<1> SUFFICES ASSUME Inv, [Next]_vars PROVE Inv'
  OBVIOUS
<1>1. CASE Begin \/ TooShort \/ BeginCopy
  BY <1>1, BeginInv, TooShortInv, BeginCopyInv
<1>2. CASE \E f \in {"ts", "crit", "id"} : AddField(f) \/ SkipField(f)
  BY <1>2, AddFieldInv, SkipFieldInv
<1>3. CASE OpenMdc \/ SkipMdc \/ AddPair \/ CloseMdc
  BY <1>3, OpenMdcInv, SkipMdcInv, AddPairInv, CloseMdcInv
<1>4. CASE OpenMessage \/ DropEntry \/ EscapeNext \/ EscapeDone
  BY <1>4, OpenMessageInv, DropEntryInv, EscapeNextInv, EscapeDoneInv
<1>5. CASE CutBack \/ AddMarker \/ EndMessage \/ Close
  BY <1>5, CutBackInv, AddMarkerInv, EndMessageInv, CloseInv
<1>6. CASE UNCHANGED vars
  BY <1>6, StutterInv
<1>. QED  BY <1>1, <1>2, <1>3, <1>4, <1>5, <1>6 DEF Next

\* The invariant holds in every call of the formatter and of escape_and_copy(),
\* for every buffer length, identity, context and message.
THEOREM Invariance == Spec => []Inv
BY InitInv, NextInv, PTL DEF Spec

\* The types of the variables: in particular no unprintable character gets into
\* the buffer.
THEOREM TypeCorrect == Spec => []TypeOK
<1>1. Inv => TypeOK
  BY DEF Inv
<1>. QED  BY <1>1, Invariance, PTL

\* mdclog_internal_format_to_json_str() and escape_and_copy() write to no byte
\* beyond their buffers, and none of the unsigned differences of lengths in
\* format_log_entry(), format_mdc() and format_message() is negative.
THEOREM NeverOutOfBounds == Spec => []InBounds
<1>1. Inv => InBounds
  <2> SUFFICES ASSUME Inv PROVE InBounds
    OBVIOUS
  <2>1. pc \in {"cut", "quote"} => Len(text) >= base
    <3> SUFFICES ASSUME pc \in {"cut", "quote"} PROVE Len(text) >= base
      OBVIOUS
    <3>1. PICK j \in 0..Len(printed) : Written(j)
      <4>1. Len(printed) \in 0..Len(printed)
        BY InMessage
      <4>. QED  BY <4>1 DEF Inv, MessageWhole
    <3>2. PICK P \in Seq(Byte) : Len(P) = base /\ text = P \o EscapedHead(printed, j)
      BY <3>1 DEF Written
    <3>3. Len(text) = base + Len(EscapedHead(printed, j)) /\ Len(EscapedHead(printed, j)) \in Nat /\ base \in Nat
      BY <3>2, WrittenLength, InMessage
    <3> DEFINE e == Len(EscapedHead(printed, j))
               t == Len(text)
    <3>4. t = base + e /\ e \in Nat /\ base \in Nat
      BY <3>3
    <3> HIDE DEF e, t
    <3>5. t >= base
      BY <3>4
    <3>. QED  BY <3>5 DEF t
  <2>. QED  BY <2>1 DEF Inv, Room, InBounds
<1>. QED  BY <1>1, Invariance, PTL

\* format_log_entry() writes whole fields, whole pairs of the context, and a
\* message that ends between two characters, whatever does not fit.
THEOREM EntriesWhole == Spec => []EntryWhole
<1>1. Inv => EntryWhole
  BY DEF Inv
<1>. QED  BY <1>1, Invariance, PTL

\* format_message() truncates a message exactly if its escaped form does not fit.
THEOREM TruncatedOnlyWhenNeeded == Spec => []TruncatedWhenNeeded
<1>1. Inv => TruncatedWhenNeeded
  BY DEF Inv, MessageWhole, TruncatedWhenNeeded
<1>. QED  BY <1>1, Invariance, PTL

\* escape_and_copy() allocates what the escape loop needs: no copy is cut.
THEOREM CopiesWhole == Spec => []CopyWhole
<1>1. Inv => CopyWhole
  BY DEF Inv
<1>. QED  BY <1>1, Invariance, PTL

\* mdclog_internal_deescape() undoes what escape_and_copy() did, as far as the
\* characters can be printed and the buffer has room for them.
THEOREM CopiesReversible == Spec => []CopyReversible
<1>1. Inv => CopyReversible
  <2> SUFFICES ASSUME Inv, pc = "done", input.op = "copy", NEW len \in 1..Size
               PROVE  LET shown == [i \in DOMAIN input.msg |-> Printed(input.msg[i])]
                      IN  Deescaped(text, len) = SubSeq(shown, 1, Min({Len(shown), len - 1}))
    BY DEF CopyReversible
  <2> DEFINE shown == [i \in DOMAIN input.msg |-> Printed(input.msg[i])]
  <2>1. input.msg \in Seq(Chars)
    <3>1. input \in Copies
      BY DEF Inv, TypeOK, Inputs
    <3>. QED  BY <3>1, TextAssumption DEF Copies
  <2>2. text = Escaped(input.msg) /\ len \in Nat \ {0}
    BY DEF Inv, CopyWhole
  <2>3. Len(shown) = Len(input.msg)
    BY <2>1
  <2>4. Deescaped(Escaped(input.msg), len) = SubSeq(shown, 1, Min({Len(input.msg), len - 1}))
    BY <2>1, <2>2, DeescapedEscaped
  <2>. QED  BY <2>2, <2>3, <2>4
<1>. QED  BY <1>1, Invariance, PTL
=============================================================================
