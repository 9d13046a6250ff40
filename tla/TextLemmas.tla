----------------------------- MODULE TextLemmas -----------------------------
(***************************************************************************)
(* What the loops of json_format.c over a text compute, for texts of any   *)
(* length: escaping, de-escaping, and the reader of a JSON string.         *)
(***************************************************************************)
EXTENDS JsonText, SequenceLemmas

\* The two loops that FoldLeft stands for: the reader of a JSON string (m = 0)
\* and mdclog_internal_deescape() into a buffer of m > 0 bytes.
Start(m) == IF m = 0 THEN "plain" ELSE [out |-> <<>>, escape |-> FALSE, bad |-> FALSE]
Turn(m, state, c) == IF m = 0 THEN Scan(state, c) ELSE DeescapeTurn(m, state, c)

\* f[s] is what the loop makes of the characters of str at the places in s.
IsFold(m, str, n, f) ==
    f = [s \in SUBSET (1..n) |->
           IF s = {} THEN Start(m)
           ELSE LET x == Max(s) IN Turn(m, f[s \ {x}], str[x])]

Folded(m, str) == (CHOOSE f : IsFold(m, str, Len(str), f))[1..Len(str)]

LEMMA MaxInside ==
    ASSUME NEW n \in Nat, NEW s \in SUBSET (1..n), s # {}
    PROVE  Max(s) \in s /\ (n \in s => Max(s) = n)
<1> DEFINE B == {n - x : x \in s}
<1>1. B \in SUBSET Nat /\ B # {}
  OBVIOUS
<1>2. PICK b \in B : \A c \in B : b <= c
  BY <1>1, LeastNatural
<1>3. PICK x \in s : b = n - x
  BY <1>2
<1>4. \A y \in s : x >= y
  <2> TAKE y \in s
  <2>1. n - y \in B
    OBVIOUS
  <2>. QED  BY <1>2, <1>3, <2>1
<1> HIDE DEF B
<1>5. Max(s) \in s /\ \A y \in s : Max(s) >= y
  BY <1>4 DEF Max
<1>6. n \in s => Max(s) >= n /\ Max(s) \in 1..n
  BY <1>5
<1> DEFINE max == Max(s)
<1> HIDE DEF max
<1>7. ASSUME max >= n, max \in 1..n PROVE max = n
  BY <1>7
<1>. QED  BY <1>5, <1>6, <1>7 DEF max

LEMMA FoldExists ==
    ASSUME NEW m, NEW str, NEW N \in Nat
    PROVE  \E f : IsFold(m, str, N, f)
<1> DEFINE Bad == {n \in Nat : ~\E f : IsFold(m, str, n, f)}
<1> SUFFICES ASSUME Bad # {} PROVE FALSE
  OBVIOUS
<1>1. PICK n \in Bad : \A i \in Bad : n <= i
  BY LeastNatural
<1>2. CASE n = 0
  <2> DEFINE f == [s \in SUBSET (1..0) |-> Start(m)]
  <2>1. \A s \in SUBSET (1..0) : s = {}
    OBVIOUS
  <2>2. f = [s \in SUBSET (1..0) |->
               IF s = {} THEN Start(m) ELSE LET x == Max(s) IN Turn(m, f[s \ {x}], str[x])]
    BY <2>1
  <2>3. IsFold(m, str, 0, f)
    BY <2>2, Zenon DEF IsFold
  <2>. QED  BY <1>1, <1>2, <2>3
<1>3. CASE n # 0
  <2>1. n \in Nat /\ n - 1 \in Nat /\ n - 1 \notin Bad
    BY <1>1, <1>3
  <2>2. PICK f : IsFold(m, str, n - 1, f)
    BY <2>1
  <2> DEFINE g == [s \in SUBSET (1..n) |-> IF n \in s THEN Turn(m, f[s \ {n}], str[n]) ELSE f[s]]
  <2>3. ASSUME NEW s \in SUBSET (1..n)
        PROVE  g[s] = IF s = {} THEN Start(m) ELSE LET x == Max(s) IN Turn(m, g[s \ {x}], str[x])
    <3>1. CASE n \in s
      <4>1. Max(s) = n /\ s # {}
        BY <2>1, <3>1, MaxInside
      <4>2. s \ {n} \in SUBSET (1..n) /\ n \notin s \ {n}
        OBVIOUS
      <4>3. g[s \ {n}] = f[s \ {n}]
        BY <4>2
      <4>. QED  BY <3>1, <4>1, <4>3
    <3>2. CASE n \notin s
      <4>1. s \in SUBSET (1..(n - 1))
        BY <2>1, <3>2
      <4>2. f[s] = IF s = {} THEN Start(m) ELSE LET x == Max(s) IN Turn(m, f[s \ {x}], str[x])
        BY <2>2, <4>1, Zenon DEF IsFold
      <4>3. g[s] = f[s] /\ g[s \ {Max(s)}] = f[s \ {Max(s)}]
        BY <3>2
      <4>. QED  BY <4>2, <4>3
    <3>. QED  BY <3>1, <3>2
  <2>4. g = [s \in SUBSET (1..n) |-> g[s]]
    OBVIOUS
  <2>5. IsFold(m, str, n, g)
    <3> HIDE DEF g
    <3>. QED  BY <2>3, <2>4 DEF IsFold
  <2>. QED  BY <1>1, <2>5
<1>. QED  BY <1>2, <1>3

\* The loop has seen the first i characters of a text before the next one.
LEMMA FoldStep ==
    ASSUME NEW m, NEW str, NEW n \in Nat, NEW f, IsFold(m, str, n, f)
    PROVE  /\ f[1..0] = Start(m)
           /\ \A i \in 1..n : f[1..i] = Turn(m, f[1..(i - 1)], str[i])
<1>1. \A s \in SUBSET (1..n) :
        f[s] = IF s = {} THEN Start(m) ELSE LET x == Max(s) IN Turn(m, f[s \ {x}], str[x])
  BY Zenon DEF IsFold
<1>2. 1..0 = {} /\ 1..0 \in SUBSET (1..n)
  OBVIOUS
<1>3. ASSUME NEW i \in 1..n PROVE f[1..i] = Turn(m, f[1..(i - 1)], str[i])
  <2>1. 1..i \in SUBSET (1..n) /\ 1..i # {} /\ i \in 1..i /\ i \in Nat /\ (1..i) \ {i} = 1..(i - 1)
    OBVIOUS
  <2>2. Max(1..i) = i
    BY <2>1, MaxInside
  <2>. QED  BY <1>1, <2>1, <2>2
<1>. QED  BY <1>1, <1>2, <1>3

LEMMA FoldedIs ==
    ASSUME NEW m, NEW str, Len(str) \in Nat
    PROVE  \E f : IsFold(m, str, Len(str), f) /\ Folded(m, str) = f[1..Len(str)]
<1>1. \E f : IsFold(m, str, Len(str), f)
  BY FoldExists
<1>. QED  BY <1>1, Zenon DEF Folded

LEMMA FoldedEmpty == ASSUME NEW m PROVE Folded(m, <<>>) = Start(m)
<1>1. Len(<<>>) = 0
  OBVIOUS
<1>2. PICK f : IsFold(m, <<>>, 0, f) /\ Folded(m, <<>>) = f[1..0]
  BY <1>1, FoldedIs
<1>3. 0 \in Nat
  OBVIOUS
<1>. QED  BY <1>2, <1>3, FoldStep

LEMMA FoldedAppend ==
    ASSUME NEW m, NEW S, NEW str \in Seq(S), NEW c \in S
    PROVE  Folded(m, Append(str, c)) = Turn(m, Folded(m, str), c)
<1> DEFINE n == Len(str)
           tt == Append(str, c)
<1>1. /\ n \in Nat /\ n + 1 \in Nat /\ Len(tt) = n + 1 /\ tt[n + 1] = c
      /\ \A i \in 1..n : tt[i] = str[i]
  BY AppendProperties
<1>2. PICK f : IsFold(m, str, n, f) /\ Folded(m, str) = f[1..n]
  BY <1>1, FoldedIs
<1> HIDE DEF tt
<1>3. PICK g : IsFold(m, tt, n + 1, g) /\ Folded(m, tt) = g[1..(n + 1)]
  BY <1>1, FoldedIs
<1> HIDE DEF n
<1>4. f[1..0] = Start(m) /\ \A i \in 1..n : f[1..i] = Turn(m, f[1..(i - 1)], str[i])
  BY <1>1, <1>2, FoldStep
<1>5. g[1..0] = Start(m) /\ \A i \in 1..(n + 1) : g[1..i] = Turn(m, g[1..(i - 1)], tt[i])
  BY <1>1, <1>3, FoldStep
<1>6. \A i \in 0..n : f[1..i] = g[1..i]
  <2> DEFINE Bad == {i \in 0..n : f[1..i] # g[1..i]}
  <2> SUFFICES ASSUME Bad # {} PROVE FALSE
    OBVIOUS
  <2>1. Bad \in SUBSET Nat
    OBVIOUS
  <2>2. PICK i \in Bad : \A j \in Bad : i <= j
    BY <2>1, LeastNatural
  <2>3. i # 0
    BY <1>4, <1>5, <2>2
  <2>4. i \in 1..n /\ i \in 1..(n + 1) /\ i - 1 \in 0..n /\ i - 1 \notin Bad
    BY <1>1, <2>2, <2>3
  <2>. QED  BY <1>1, <1>4, <1>5, <2>2, <2>4
<1>7. n + 1 \in 1..(n + 1) /\ n \in 0..n /\ n + 1 - 1 = n
  BY <1>1
<1>. QED  BY <1>1, <1>2, <1>3, <1>5, <1>6, <1>7 DEF tt

\* FoldLeft is this fold.
LEMMA ScanIsFold ==
    ASSUME NEW S, NEW str \in Seq(S)
    PROVE  FoldLeft(Scan, "plain", str) = Folded(0, str)
<1>1. DOMAIN str = 1..Len(str)
  OBVIOUS
<1>2. \A st, c : Turn(0, st, c) = Scan(st, c)
  BY DEF Turn
<1>3. Start(0) = "plain"
  BY DEF Start
<1>. QED  BY <1>1, Zenon DEF FoldLeft, MapThenFoldSet, Folded, IsFold, Turn, Start

LEMMA DeescapeIsFold ==
    ASSUME NEW S, NEW str \in Seq(S), NEW len \in Nat \ {0}
    PROVE  Deescaped(str, len) =
             IF Folded(len, str).bad \/ Folded(len, str).escape THEN <<>> ELSE Folded(len, str).out
<1>1. DOMAIN str = 1..Len(str) /\ len # 0
  OBVIOUS
<1>2. FoldLeft(LAMBDA done, c : DeescapeTurn(len, done, c),
               [out |-> <<>>, escape |-> FALSE, bad |-> FALSE], str) = Folded(len, str)
  BY <1>1, Zenon DEF FoldLeft, MapThenFoldSet, Folded, IsFold, Turn, Start
<1>. QED  BY <1>2, Zenon DEF Deescaped

-----------------------------------------------------------------------------
\* The escaped form of the first j characters of a text.
EscapedHead(str, j) == Escaped(SubSeq(str, 1, j))

LEMMA CharsDiffer ==
    /\ Backslash # Quote /\ Space \notin {Backslash, Quote}
    /\ Unprintable \notin {Backslash, Quote, Space}
BY DEF Backslash, Quote, Space, Unprintable

LEMMA EscapedEmpty == Escaped(<<>>) = <<>>
<1>1. [i \in DOMAIN <<>> |-> Image(<<>>[i])] = <<>>
  OBVIOUS
<1>. QED  BY <1>1, FlattenEmpty DEF Escaped

\* B is the set of bytes that the characters of S are written with.
LEMMA EscapedAppendIn ==
    ASSUME NEW S, NEW B, \A d \in S : Image(d) \in Seq(B), NEW str \in Seq(S), NEW c \in S
    PROVE  /\ Escaped(Append(str, c)) = Escaped(str) \o Image(c)
           /\ Escaped(str) \in Seq(B)
<1> DEFINE Images(s) == [i \in DOMAIN s |-> Image(s[i])]
<1>1. Images(str) \in Seq(Seq(B)) /\ Len(Images(str)) = Len(str)
  <2> DEFINE n == Len(str)
  <2>1. n \in Nat /\ DOMAIN str = 1..n /\ \A i \in 1..n : Image(str[i]) \in Seq(B)
    OBVIOUS
  <2>2. Images(str) = [i \in 1..n |-> Image(str[i])]
    BY <2>1
  <2> HIDE DEF n, Images
  <2>3. [i \in 1..n |-> Image(str[i])] \in [1..n -> Seq(B)]
    BY <2>1
  <2>4. Images(str) \in Seq(Seq(B)) /\ Len(Images(str)) = n
    BY <2>1, <2>2, <2>3
  <2>. QED  BY <2>4 DEF n
<1>2. Image(c) \in Seq(B)
  OBVIOUS
<1>3. Images(Append(str, c)) = Append(Images(str), Image(c))
  <2>1. Len(Append(str, c)) = Len(str) + 1 /\ DOMAIN Append(str, c) = 1..(Len(str) + 1)
    OBVIOUS
  <2>2. /\ Append(Images(str), Image(c)) \in Seq(Seq(B))
        /\ Len(Append(Images(str), Image(c))) = Len(str) + 1
    BY <1>1, <1>2, AppendProperties
  <2>3. \A i \in 1..(Len(str) + 1) : Append(Images(str), Image(c))[i] = Image(Append(str, c)[i])
    BY <1>1, <1>2, SMTT(30)
  <2>. QED  BY <2>1, <2>2, <2>3, SMTT(30)
<1> HIDE DEF Images
<1>4. FlattenSeq(Append(Images(str), Image(c))) = FlattenSeq(Images(str)) \o Image(c)
  BY <1>1, <1>2, FlattenAppend
<1>5. FlattenSeq(Images(str)) \in Seq(B)
  BY <1>1, FlattenType
<1>. QED  BY <1>3, <1>4, <1>5 DEF Escaped, Images

LEMMA EscapedHeadEmpty == ASSUME NEW str PROVE EscapedHead(str, 0) = <<>>
<1>1. SubSeq(str, 1, 0) = <<>>
  <2>1. 1 \in Int /\ 0 \in Int /\ 0 < 1
    OBVIOUS
  <2>. QED  BY <2>1, SubSeqEmpty, Zenon
<1>. QED  BY <1>1, EscapedEmpty DEF EscapedHead

LEMMA EscapedHeadTypeIn ==
    ASSUME NEW S, NEW B, \A d \in S : Image(d) \in Seq(B), NEW str \in Seq(S), NEW j \in 0..Len(str)
    PROVE  EscapedHead(str, j) \in Seq(B)
<1>1. CASE j = 0
  BY <1>1, EscapedHeadEmpty, EmptySeq
<1>2. CASE j # 0
  <2>1. SubSeq(str, 1, j) \in Seq(S) /\ str[1] \in S
    BY <1>2, SubSeqProperties
  <2>. QED  BY <2>1, EscapedAppendIn DEF EscapedHead
<1>. QED  BY <1>1, <1>2

\* One turn of the escape loop.
LEMMA EscapedHeadStepIn ==
    ASSUME NEW S, NEW B, \A d \in S : Image(d) \in Seq(B), NEW str \in Seq(S), NEW j \in 1..Len(str)
    PROVE  EscapedHead(str, j) = EscapedHead(str, j - 1) \o Image(str[j])
<1>1. SubSeq(str, 1, j - 1) \in Seq(S) /\ str[j] \in S
  BY SubSeqProperties, SMTT(30)
<1>2. SubSeq(str, 1, j) = SubSeq(str, 1, j - 1) \o <<str[j]>>
  <2>1. 1 \in 1..Len(str) /\ j \in 1..Len(str)
    OBVIOUS
  <2>. QED  BY <2>1, SubSeqRecursiveSecond
<1>3. SubSeq(str, 1, j) = Append(SubSeq(str, 1, j - 1), str[j])
  BY <1>1, <1>2, AppendIsConcat
<1>. QED  BY <1>1, <1>3, EscapedAppendIn DEF EscapedHead

LEMMA EscapedHeadFullIn ==
    ASSUME NEW S, NEW str \in Seq(S)
    PROVE  EscapedHead(str, Len(str)) = Escaped(str)
<1>1. SubSeq(str, 1, Len(str)) = str
  BY SubSeqFull
<1>. QED  BY <1>1 DEF EscapedHead

-----------------------------------------------------------------------------
\* What a loop over an escaped text does at one character of the text.
LEMMA FoldedImage ==
    ASSUME NEW m, NEW B, NEW str \in Seq(B), NEW c, Image(c) \in Seq(B)
    PROVE  Folded(m, str \o Image(c)) =
             IF NeedsEscape(c) THEN Turn(m, Turn(m, Folded(m, str), Backslash), c)
                               ELSE Turn(m, Folded(m, str), Printed(c))
<1>1. CASE NeedsEscape(c)
  <2>1. Image(c) = <<Backslash, c>>
    BY <1>1 DEF Image
  <2>2. Backslash \in B /\ c \in B
    <3>1. Image(c)[1] \in B /\ Image(c)[2] \in B
      <4>1. 1 \in 1..Len(Image(c)) /\ 2 \in 1..Len(Image(c))
        BY <2>1
      <4>. QED  BY <4>1, ElementOfSeq
    <3>. QED  BY <2>1, <3>1
  <2>3. str \o <<Backslash, c>> = Append(Append(str, Backslash), c)
    BY <2>2, SMTT(30)
  <2>4. Append(str, Backslash) \in Seq(B)
    BY <2>2, AppendProperties
  <2>5. Folded(m, Append(Append(str, Backslash), c)) = Turn(m, Folded(m, Append(str, Backslash)), c)
    BY <2>2, <2>4, FoldedAppend
  <2>6. Folded(m, Append(str, Backslash)) = Turn(m, Folded(m, str), Backslash)
    BY <2>2, FoldedAppend
  <2>. QED  BY <1>1, <2>1, <2>3, <2>5, <2>6
<1>2. CASE ~NeedsEscape(c)
  <2>1. Image(c) = <<Printed(c)>>
    BY <1>2 DEF Image
  <2>2. Printed(c) \in B
    <3>1. Image(c)[1] \in B
      <4>1. Len(Image(c)) = 1
        BY <2>1
      <4>. QED  BY <4>1, ElementOfSeq
    <3>. QED  BY <2>1, <3>1
  <2>3. str \o <<Printed(c)>> = Append(str, Printed(c))
    BY <2>2, AppendIsConcat
  <2>4. Folded(m, Append(str, Printed(c))) = Turn(m, Folded(m, str), Printed(c))
    BY <2>2, FoldedAppend
  <2>. QED  BY <1>2, <2>1, <2>3, <2>4
<1>. QED  BY <1>1, <1>2

LEMMA ImageIn == ASSUME NEW S, NEW c \in S PROVE Image(c) \in Seq(S \cup {Backslash, Space})
<1>1. CASE NeedsEscape(c)
  <2>1. <<Backslash, c>> \in Seq(S \cup {Backslash, Space})
    OBVIOUS
  <2>. QED  BY <1>1, <2>1 DEF Image
<1>2. CASE ~NeedsEscape(c)
  <2>1. Printed(c) \in S \cup {Backslash, Space}
    BY DEF Printed
  <2>2. <<Printed(c)>> \in Seq(S \cup {Backslash, Space})
    BY <2>1
  <2>. QED  BY <1>2, <2>2 DEF Image
<1>. QED  BY <1>1, <1>2

\* A reader of a JSON string gets over the image of a character.
LEMMA ScanImage ==
    ASSUME NEW c
    PROVE  IF NeedsEscape(c) THEN Turn(0, Turn(0, "plain", Backslash), c) = "plain"
                             ELSE Turn(0, "plain", Printed(c)) = "plain"
BY CharsDiffer DEF Turn, Scan, NeedsEscape, Printed

\* Whatever the text, its escaped form may stand between two quotes.
LEMMA EscapedSafe ==
    ASSUME NEW S, NEW str \in Seq(S)
    PROVE  JsonSafe(Escaped(str))
<1> DEFINE B == S \cup {Backslash, Space}
           Bad == {j \in 0..Len(str) : Folded(0, EscapedHead(str, j)) # "plain"}
<1>1. \A d \in S : Image(d) \in Seq(B)
  BY ImageIn
<1> HIDE DEF B
<1>2. Bad = {}
  <2> SUFFICES ASSUME Bad # {} PROVE FALSE
    OBVIOUS
  <2>1. Bad \in SUBSET Nat
    OBVIOUS
  <2>2. PICK j \in Bad : \A i \in Bad : j <= i
    BY <2>1, LeastNatural
  <2>3. j # 0
    <3>1. Folded(0, EscapedHead(str, 0)) = "plain"
      BY EscapedHeadEmpty, FoldedEmpty DEF Start
    <3>. QED  BY <2>2, <3>1
  <2>4. j \in 1..Len(str) /\ j - 1 \in 0..Len(str) /\ str[j] \in S
    BY <2>2, <2>3
  <2>5. Folded(0, EscapedHead(str, j - 1)) = "plain"
    BY <2>2, <2>4
  <2>6. EscapedHead(str, j) = EscapedHead(str, j - 1) \o Image(str[j])
    BY <1>1, <2>4, EscapedHeadStepIn
  <2>7. EscapedHead(str, j - 1) \in Seq(B) /\ Image(str[j]) \in Seq(B)
    BY <1>1, <2>4, EscapedHeadTypeIn
  <2>8. Folded(0, EscapedHead(str, j)) = "plain"
    <3>1. Folded(0, EscapedHead(str, j - 1) \o Image(str[j])) =
            IF NeedsEscape(str[j]) THEN Turn(0, Turn(0, "plain", Backslash), str[j])
                                   ELSE Turn(0, "plain", Printed(str[j]))
      BY <2>5, <2>7, FoldedImage
    <3>. QED  BY <2>6, <3>1, ScanImage
  <2>. QED  BY <2>2, <2>8
<1>3. Len(str) \in 0..Len(str)
  OBVIOUS
<1>4. Folded(0, Escaped(str)) = "plain"
  <2>1. Folded(0, EscapedHead(str, Len(str))) = "plain"
    BY <1>2, <1>3
  <2>. QED  BY <2>1, EscapedHeadFullIn
<1>5. Escaped(str) \in Seq(B)
  BY <1>1, <1>3, EscapedHeadTypeIn, EscapedHeadFullIn
<1>. QED  BY <1>4, <1>5, ScanIsFold DEF JsonSafe

\* A text without special characters may stand there as it is.
LEMMA LegalSafe ==
    ASSUME NEW S, NEW str \in Seq(S), ~ContainsSpecial(str)
    PROVE  JsonSafe(str)
<1> DEFINE Part(j) == SubSeq(str, 1, j)
           Bad == {j \in 0..Len(str) : Folded(0, Part(j)) # "plain"}
<1>1. Bad = {}
  <2> SUFFICES ASSUME Bad # {} PROVE FALSE
    OBVIOUS
  <2>1. Bad \in SUBSET Nat
    OBVIOUS
  <2>2. PICK j \in Bad : \A i \in Bad : j <= i
    BY <2>1, LeastNatural
  <2>3. j # 0
    <3>1. Part(0) = <<>>
      <4>1. 1 \in Int /\ 0 \in Int /\ 0 < 1
        OBVIOUS
      <4>. QED  BY <4>1, SubSeqEmpty, Zenon
    <3>2. Folded(0, Part(0)) = "plain"
      BY <3>1, FoldedEmpty DEF Start
    <3>. QED  BY <2>2, <3>2
  <2>4. j \in 1..Len(str) /\ j - 1 \in 0..Len(str) /\ str[j] \in S /\ 1 \in 1..Len(str)
    BY <2>2, <2>3
  <2>5. Folded(0, Part(j - 1)) = "plain"
    BY <2>2, <2>4
  <2>6. Part(j - 1) \in Seq(S) /\ Part(j) = Append(Part(j - 1), str[j])
    <3>1. Part(j - 1) \in Seq(S)
      BY <2>4, SubSeqProperties
    <3>2. Part(j) = Part(j - 1) \o <<str[j]>>
      BY <2>4, SubSeqRecursiveSecond
    <3>. QED  BY <2>4, <3>1, <3>2, AppendIsConcat
  <2>7. Folded(0, Part(j)) = Turn(0, "plain", str[j])
    <3> HIDE DEF Part
    <3>. QED  BY <2>4, <2>5, <2>6, FoldedAppend
  <2>8. str[j] # Unprintable /\ ~NeedsEscape(str[j])
    BY <2>4 DEF ContainsSpecial
  <2>9. Turn(0, "plain", str[j]) = "plain"
    BY <2>8 DEF Turn, Scan, NeedsEscape
  <2>. QED  BY <2>2, <2>7, <2>9
<1>2. Len(str) \in 0..Len(str) /\ Part(Len(str)) = str
  BY SubSeqFull
<1>3. Folded(0, str) = "plain"
  BY <1>1, <1>2
<1>. QED  BY <1>3, ScanIsFold DEF JsonSafe

\* What the loop of mdclog_internal_deescape() has after a whole character.
Clean(out) == [out |-> out, escape |-> FALSE, bad |-> FALSE]

LEMMA DeescapeImage ==
    ASSUME NEW len \in Nat \ {0}, NEW out, NEW c
    PROVE  (IF NeedsEscape(c) THEN Turn(len, Turn(len, Clean(out), Backslash), c)
                              ELSE Turn(len, Clean(out), Printed(c)))
             = IF Len(out) = len - 1 THEN Clean(out) ELSE Clean(Append(out, Printed(c)))
<1> DEFINE half == [out |-> out, escape |-> TRUE, bad |-> FALSE]
<1>1. \A st, d : Turn(len, st, d) = DeescapeTurn(len, st, d)
  BY DEF Turn
<1>2. CASE Len(out) = len - 1
  <2>1. \A d : DeescapeTurn(len, Clean(out), d) = Clean(out)
    BY <1>2 DEF DeescapeTurn, Clean
  <2>. QED  BY <1>1, <1>2, <2>1
<1>3. CASE Len(out) # len - 1 /\ NeedsEscape(c)
  <2>1. DeescapeTurn(len, Clean(out), Backslash) = half
    BY <1>3 DEF DeescapeTurn, Clean
  <2>2. DeescapeTurn(len, half, c) = Clean(Append(out, c))
    BY <1>3 DEF DeescapeTurn, Clean
  <2>3. Printed(c) = c
    BY <1>3, CharsDiffer DEF NeedsEscape, Printed
  <2> HIDE DEF half
  <2>. QED  BY <1>1, <1>3, <2>1, <2>2, <2>3
<1>4. CASE Len(out) # len - 1 /\ ~NeedsEscape(c)
  <2>1. Printed(c) # Backslash
    BY <1>4, CharsDiffer DEF NeedsEscape, Printed
  <2>2. DeescapeTurn(len, Clean(out), Printed(c)) = Clean(Append(out, Printed(c)))
    BY <1>4, <2>1 DEF DeescapeTurn, Clean
  <2>. QED  BY <1>1, <1>4, <2>2
<1>. QED  BY <1>2, <1>3, <1>4

\* De-escaping an escaped text gives what can be shown of it, as far as the
\* buffer takes it.
LEMMA DeescapedEscaped ==
    ASSUME NEW S, NEW str \in Seq(S), NEW len \in Nat \ {0}
    PROVE  Deescaped(Escaped(str), len) =
             SubSeq([i \in DOMAIN str |-> Printed(str[i])], 1, Min({Len(str), len - 1}))
<1> DEFINE B == S \cup {Backslash, Space}
           n == Len(str)
           shown == [i \in DOMAIN str |-> Printed(str[i])]
           upto(j) == IF j <= len - 1 THEN j ELSE len - 1
           Bad == {j \in 0..n : Folded(len, EscapedHead(str, j)) # Clean(SubSeq(shown, 1, upto(j)))}
<1>1. (\A d \in S : Image(d) \in Seq(B)) /\ n \in Nat
  BY ImageIn
<1>2. shown \in Seq(B) /\ Len(shown) = n /\ \A i \in 1..n : shown[i] = Printed(str[i])
  <2>1. \A i \in 1..n : Printed(str[i]) \in B
    BY DEF Printed
  <2>. QED  BY <2>1
<1>3. SubSeq(shown, 1, 0) = <<>>
  <2>1. 1 \in Int /\ 0 \in Int /\ 0 < 1
    OBVIOUS
  <2>. QED  BY <2>1, SubSeqEmpty, Zenon
<1> HIDE DEF B, n, shown
<1>4. Bad = {}
  <2> SUFFICES ASSUME Bad # {} PROVE FALSE
    OBVIOUS
  <2>1. Bad \in SUBSET Nat
    BY <1>1
  <2>2. PICK j \in Bad : \A i \in Bad : j <= i
    BY <2>1, LeastNatural
  <2>3. j # 0
    <3>1. upto(0) = 0
      OBVIOUS
    <3>2. Folded(len, EscapedHead(str, 0)) = Clean(SubSeq(shown, 1, upto(0)))
      BY <1>3, <3>1, EscapedHeadEmpty, FoldedEmpty DEF Start, Clean
    <3>. QED  BY <2>2, <3>2
  <2>4. j \in 1..n /\ j - 1 \in 0..n /\ upto(j - 1) \in 0..n /\ j \in 1..Len(str) /\ j - 1 \in 0..Len(str)
    BY <1>1, <2>2, <2>3 DEF n
  <2> DEFINE out == SubSeq(shown, 1, upto(j - 1))
  <2>5. Folded(len, EscapedHead(str, j - 1)) = Clean(out)
    BY <2>2, <2>4
  <2>6. Len(out) = upto(j - 1)
    BY <1>2, <2>4, SubSeqProperties, SMTT(30)
  <2>7. str[j] \in S /\ EscapedHead(str, j) = EscapedHead(str, j - 1) \o Image(str[j])
    <3>1. str[j] \in S
      BY <2>4
    <3>2. \A d \in S : Image(d) \in Seq(B)
      BY <1>1
    <3>3. j \in 1..Len(str)
      BY <2>4
    <3>. QED  BY <3>1, <3>2, <3>3, EscapedHeadStepIn
  <2>8. EscapedHead(str, j - 1) \in Seq(B) /\ Image(str[j]) \in Seq(B)
    BY <1>1, <2>4, <2>7, EscapedHeadTypeIn
  <2>9. Folded(len, EscapedHead(str, j)) =
          IF NeedsEscape(str[j]) THEN Turn(len, Turn(len, Clean(out), Backslash), str[j])
                                 ELSE Turn(len, Clean(out), Printed(str[j]))
    <3> HIDE DEF out
    <3>. QED  BY <2>5, <2>7, <2>8, FoldedImage
  <2>10. Folded(len, EscapedHead(str, j)) =
           IF Len(out) = len - 1 THEN Clean(out) ELSE Clean(Append(out, Printed(str[j])))
    <3> HIDE DEF out
    <3>. QED  BY <2>9, DeescapeImage
  <2>11. CASE j <= len - 1
    <3>1. upto(j - 1) = j - 1 /\ upto(j) = j /\ Len(out) # len - 1
      BY <2>4, <2>6, <2>11
    <3>2. SubSeq(shown, 1, j) = SubSeq(shown, 1, j - 1) \o <<shown[j]>>
      <4>1. 1 \in 1..Len(shown) /\ j \in 1..Len(shown)
        BY <1>1, <1>2, <2>4
      <4>. QED  BY <1>2, <4>1, SubSeqRecursiveSecond
    <3>3. SubSeq(shown, 1, j - 1) \in Seq(B) /\ shown[j] \in B /\ shown[j] = Printed(str[j])
      BY <1>2, <2>4, SubSeqProperties, SMTT(30)
    <3>4. SubSeq(shown, 1, j) = Append(SubSeq(shown, 1, j - 1), Printed(str[j]))
      BY <3>2, <3>3, AppendIsConcat
    <3>. QED  BY <2>2, <2>10, <3>1, <3>4
  <2>12. CASE ~(j <= len - 1)
    <3>1. upto(j - 1) = len - 1 /\ upto(j) = len - 1
      BY <2>4, <2>12
    <3>. QED  BY <2>2, <2>6, <2>10, <3>1
  <2>. QED  BY <2>11, <2>12
<1>5. n \in 0..n /\ n \in 0..Len(str) /\ EscapedHead(str, n) = Escaped(str)
  BY <1>1, EscapedHeadFullIn DEF n
<1>6. Folded(len, Escaped(str)) = Clean(SubSeq(shown, 1, upto(n)))
  BY <1>4, <1>5
<1>7. Escaped(str) \in Seq(B)
  BY <1>1, <1>5, EscapedHeadTypeIn
<1>8. Min({n, len - 1}) = upto(n)
  BY <1>1, MinOfTwo
<1> HIDE DEF upto
<1>9. Deescaped(Escaped(str), len) = SubSeq(shown, 1, upto(n))
  BY <1>6, <1>7, DeescapeIsFold DEF Clean
<1>. QED  BY <1>8, <1>9 DEF n, shown
=============================================================================
