--------------------------- MODULE SequenceLemmas ---------------------------
(***************************************************************************)
(* What the operators of SequencesExt and FiniteSetsExt that the models    *)
(* use return.  Facts about all the elements of a sequence are proved by   *)
(* looking at the least index for which they fail.                         *)
(***************************************************************************)
EXTENDS Integers, SequencesExt, SequenceTheorems, WellFoundedInduction, TLAPS

\* A set of natural numbers has a least element.
LEMMA LeastNatural ==
    ASSUME NEW S \in SUBSET Nat, S # {}
    PROVE  \E n \in S : \A m \in S : n <= m
<1> DEFINE R == {ss \in Nat \X Nat : ss[1] < ss[2]}
<1>1. IsWellFoundedOn(R, Nat)
  BY NatLessThanWellFounded, Zenon DEF OpToRel
<1>2. PICK x \in S : \A y \in S : <<y, x>> \notin R
  <2> HIDE DEF R
  <2>. QED  BY <1>1, WFMin
<1>3. ASSUME NEW y \in S PROVE x <= y
  <2>1. <<y, x>> \in Nat \X Nat /\ <<y, x>>[1] = y /\ <<y, x>>[2] = x
    OBVIOUS
  <2>2. ~(y < x)
    BY <1>2, <2>1
  <2>. QED  BY <2>2
<1>. QED  BY <1>3

LEMMA MinProperties ==
    ASSUME NEW S \in SUBSET Nat, S # {}
    PROVE  Min(S) \in S /\ \A n \in S : Min(S) <= n
BY LeastNatural DEF Min

LEMMA MinOfTwo ==
    ASSUME NEW a \in Int, NEW b \in Int
    PROVE  Min({a, b}) = IF a <= b THEN a ELSE b
<1> DEFINE m == IF a <= b THEN a ELSE b
<1>1. \A x \in {a, b} : (\A y \in {a, b} : x <= y) <=> x = m
  OBVIOUS
<1>2. m \in {a, b}
  OBVIOUS
<1> HIDE DEF m
<1>. QED  BY <1>1, <1>2 DEF Min, m

LEMMA MaxOfTwo ==
    ASSUME NEW a \in Int, NEW b \in Int
    PROVE  Max({a, b}) = IF a >= b THEN a ELSE b
<1> DEFINE m == IF a >= b THEN a ELSE b
<1>1. \A x \in {a, b} : (\A y \in {a, b} : x >= y) <=> x = m
  OBVIOUS
<1>2. m \in {a, b}
  OBVIOUS
<1> HIDE DEF m
<1>. QED  BY <1>1, <1>2 DEF Max, m

-----------------------------------------------------------------------------
\* Removing the i-th element of a sequence moves the later ones down by one.
LEMMA RemoveAtProperties ==
    ASSUME NEW S, NEW s \in Seq(S), NEW i \in 1..Len(s)
    PROVE  /\ RemoveAt(s, i) \in Seq(S)
           /\ Len(RemoveAt(s, i)) = Len(s) - 1
           /\ \A j \in 1..(Len(s) - 1) :
                  RemoveAt(s, i)[j] = IF j < i THEN s[j] ELSE s[j + 1]
<1> DEFINE a == SubSeq(s, 1, i - 1)
           b == SubSeq(s, i + 1, Len(s))
<1>1. a \in Seq(S) /\ Len(a) = i - 1 /\ \A j \in 1..(i - 1) : a[j] = s[j]
  BY SubSeqProperties
<1>2. /\ b \in Seq(S)
      /\ Len(b) = Len(s) - i
      /\ \A j \in 1..(Len(s) - i) : b[j] = s[i + j]
  BY SubSeqProperties
<1> HIDE DEF a, b
<1>3. /\ a \o b \in Seq(S)
      /\ Len(a \o b) = Len(a) + Len(b)
      /\ \A j \in 1..(Len(a) + Len(b)) :
             (a \o b)[j] = IF j <= Len(a) THEN a[j] ELSE b[j - Len(a)]
  BY <1>1, <1>2, ConcatProperties
<1>4. Len(a \o b) = Len(s) - 1
  BY <1>1, <1>2, <1>3
<1>5. ASSUME NEW j \in 1..(Len(s) - 1)
      PROVE  (a \o b)[j] = IF j < i THEN s[j] ELSE s[j + 1]
  <2>1. CASE j < i
    <3>1. j \in 1..(i - 1) /\ j <= Len(a) /\ j \in 1..(Len(a) + Len(b))
      BY <1>1, <1>2, <2>1
    <3>. QED  BY <1>1, <1>3, <2>1, <3>1
  <2>2. CASE ~(j < i)
    <3>1. ~(j <= Len(a)) /\ j \in 1..(Len(a) + Len(b)) /\ j - Len(a) = j - (i - 1)
      BY <1>1, <1>2, <2>2, SMTT(30)
    <3>2. j - (i - 1) \in 1..(Len(s) - i) /\ i + (j - (i - 1)) = j + 1
      BY <2>2
    <3>3. b[j - (i - 1)] = s[j + 1]
      BY <1>2, <3>2
    <3>. QED  BY <1>3, <2>2, <3>1, <3>3
  <2>. QED  BY <2>1, <2>2
<1>. QED  BY <1>3, <1>4, <1>5 DEF RemoveAt, a, b

\* An element that occurs once is removed from where it is.
LEMMA RemoveFirstAt ==
    ASSUME NEW S, NEW s \in Seq(S), NEW i \in 1..Len(s),
           \A j \in 1..Len(s) : s[j] = s[i] => j = i
    PROVE  RemoveFirst(s, s[i]) = RemoveAt(s, i)
<1> DEFINE I == {j \in 1..Len(s) : s[j] = s[i]}
<1>1. I = {i}
  OBVIOUS
<1>2. Min(I) = i
  BY <1>1 DEF Min
<1>3. SelectInSeq(s, LAMBDA v : v = s[i]) = i
  BY <1>1, <1>2 DEF SelectInSeq
<1>. QED  BY <1>3 DEF RemoveFirst

-----------------------------------------------------------------------------
\* f[i] is the concatenation of the first i sequences of ss, for i up to n.
Flattens(ss, n, f) == f = [i \in 1..n |-> IF i = 1 THEN ss[i] ELSE f[i - 1] \o ss[i]]

LEMMA FlattensExists ==
    ASSUME NEW ss, NEW N \in Nat
    PROVE  \E f : Flattens(ss, N, f)
<1> DEFINE Bad == {n \in Nat : ~\E f : Flattens(ss, n, f)}
<1> SUFFICES ASSUME Bad # {} PROVE FALSE
  OBVIOUS
<1>1. PICK m \in Bad : \A n \in Bad : m <= n
  BY LeastNatural
<1>2. CASE m = 0
  <2>1. Flattens(ss, 0, [i \in 1..0 |-> 0])
    BY DEF Flattens
  <2>. QED  BY <1>2, <2>1
<1>3. CASE m # 0
  <2>1. m - 1 \in Nat /\ m - 1 \notin Bad
    BY <1>1, <1>3
  <2>2. PICK f : Flattens(ss, m - 1, f)
    BY <2>1
  <2> DEFINE g == [i \in 1..m |-> IF i = m THEN (IF m = 1 THEN ss[m] ELSE f[m - 1] \o ss[m]) ELSE f[i]]
  <2>3. ASSUME NEW i \in 1..m PROVE g[i] = IF i = 1 THEN ss[i] ELSE g[i - 1] \o ss[i]
    <3>1. CASE i = m
      BY <1>1, <1>3, <3>1
    <3>2. CASE i # m
      <4>1. i \in 1..(m - 1) /\ (i # 1 => i - 1 \in 1..m /\ i - 1 # m)
        BY <1>1, <3>2
      <4>2. f[i] = IF i = 1 THEN ss[i] ELSE f[i - 1] \o ss[i]
        BY <2>2, <4>1, Zenon DEF Flattens
      <4>. QED  BY <3>2, <4>1, <4>2
    <3>. QED  BY <3>1, <3>2
  <2>4. g = [i \in 1..m |-> g[i]]
    OBVIOUS
  <2>5. Flattens(ss, m, g)
    <3> HIDE DEF g
    <3>. QED  BY <2>3, <2>4 DEF Flattens
  <2>. QED  BY <1>1, <2>5
<1>. QED  BY <1>2, <1>3

\* The functions for a sequence and for a longer one agree.
LEMMA FlattensUnique ==
    ASSUME NEW ss, NEW tt, NEW n, NEW m, NEW f, NEW g,
           Flattens(ss, n, f), Flattens(tt, m, g),
           n \in Nat, m \in Nat, n <= m, \A i \in 1..n : ss[i] = tt[i]
    PROVE  \A i \in 1..n : f[i] = g[i]
<1> DEFINE Bad == {i \in 1..n : f[i] # g[i]}
<1> SUFFICES ASSUME Bad # {} PROVE FALSE
  OBVIOUS
<1>0. Bad \in SUBSET Nat
  OBVIOUS
<1>1. PICK i \in Bad : \A j \in Bad : i <= j
  BY <1>0, LeastNatural
<1>2. f[i] = (IF i = 1 THEN ss[i] ELSE f[i - 1] \o ss[i]) /\ g[i] = IF i = 1 THEN tt[i] ELSE g[i - 1] \o tt[i]
  <2>1. i \in 1..n /\ i \in 1..m
    BY <1>1
  <2>. QED  BY <2>1, Zenon DEF Flattens
<1>3. i # 1 => f[i - 1] = g[i - 1]
  BY <1>1
<1>. QED  BY <1>1, <1>2, <1>3

LEMMA FlattenSeqIs ==
    ASSUME NEW S, NEW ss \in Seq(S), ss # <<>>
    PROVE  \E f : Flattens(ss, Len(ss), f) /\ FlattenSeq(ss) = f[Len(ss)]
<1> DEFINE h == CHOOSE f : Flattens(ss, Len(ss), f)
<1>1. Len(ss) \in Nat \ {0}
  BY EmptySeq
<1>2. Flattens(ss, Len(ss), h)
  <2>1. \E f : Flattens(ss, Len(ss), f)
    BY <1>1, FlattensExists
  <2>. QED  BY <2>1, Zenon
<1>3. FlattenSeq(ss) = h[Len(ss)]
  BY <1>1, Zenon DEF FlattenSeq, Flattens
<1>. QED  BY <1>2, <1>3

\* A sequence of sequences is flattened from left to right.
LEMMA FlattenAppend ==
    ASSUME NEW S, NEW ss \in Seq(Seq(S)), NEW e \in Seq(S)
    PROVE  FlattenSeq(Append(ss, e)) = FlattenSeq(ss) \o e
<1> DEFINE n == Len(ss)
           tt == Append(ss, e)
           m == Len(tt)
<1>1. /\ n \in Nat /\ m \in Nat /\ m = n + 1 /\ tt \in Seq(Seq(S)) /\ tt # <<>>
      /\ tt[m] = e /\ \A i \in 1..n : ss[i] = tt[i]
  BY AppendProperties
<1>2. PICK g : Flattens(tt, m, g) /\ FlattenSeq(tt) = g[m]
  BY <1>1, FlattenSeqIs
<1> HIDE DEF n, tt, m
<1>3. g[m] = IF m = 1 THEN tt[m] ELSE g[m - 1] \o tt[m]
  <2>1. m \in 1..m
    BY <1>1
  <2>. QED  BY <1>2, <2>1, Zenon DEF Flattens
<1>4. CASE ss = <<>>
  <2>1. n = 0 /\ FlattenSeq(ss) = <<>>
    BY <1>4 DEF FlattenSeq, n
  <2>2. <<>> \o e = e
    BY ConcatEmptySeq
  <2>. QED  BY <1>1, <1>2, <1>3, <2>1, <2>2 DEF tt
<1>5. CASE ss # <<>>
  <2>1. PICK f : Flattens(ss, n, f) /\ FlattenSeq(ss) = f[n]
    BY <1>5, FlattenSeqIs DEF n
  <2>2. n \in 1..n /\ n <= m /\ m # 1 /\ m - 1 = n
    BY <1>1, <1>5, EmptySeq, SMTT(30) DEF n
  <2>3. \A i \in 1..n : f[i] = g[i]
    <3>1. n \in Nat /\ m \in Nat /\ n <= m /\ \A i \in 1..n : ss[i] = tt[i]
      BY <1>1, <2>2
    <3>2. Flattens(ss, n, f) /\ Flattens(tt, m, g)
      BY <1>2, <2>1
    <3>. QED  BY <3>1, <3>2, FlattensUnique, SMTT(30)
  <2>. QED  BY <1>1, <1>2, <1>3, <2>1, <2>2, <2>3 DEF tt
<1>. QED  BY <1>4, <1>5

LEMMA FlattenEmpty == FlattenSeq(<<>>) = <<>>
BY DEF FlattenSeq

LEMMA FlattenType ==
    ASSUME NEW S, NEW ss \in Seq(Seq(S))
    PROVE  FlattenSeq(ss) \in Seq(S)
<1>1. CASE ss = <<>>
  BY <1>1, FlattenEmpty, EmptySeq
<1>2. CASE ss # <<>>
  <2>1. PICK f : Flattens(ss, Len(ss), f) /\ FlattenSeq(ss) = f[Len(ss)]
    BY <1>2, FlattenSeqIs
  <2> DEFINE Bad == {i \in 1..Len(ss) : f[i] \notin Seq(S)}
  <2>2. CASE Bad # {}
    <3>1. Bad \in SUBSET Nat
      OBVIOUS
    <3>2. PICK i \in Bad : \A j \in Bad : i <= j
      BY <2>2, <3>1, LeastNatural
    <3>3. f[i] = IF i = 1 THEN ss[i] ELSE f[i - 1] \o ss[i]
      BY <2>1, <3>2, Zenon DEF Flattens
    <3>4. ss[i] \in Seq(S) /\ (i # 1 => f[i - 1] \in Seq(S))
      BY <3>2
    <3>5. i # 1 => f[i - 1] \o ss[i] \in Seq(S)
      BY <3>4, ConcatProperties
    <3>. QED  BY <3>2, <3>3, <3>4, <3>5
  <2>3. CASE Bad = {}
    <3>1. Len(ss) \in 1..Len(ss)
      BY <1>2, EmptySeq
    <3>. QED  BY <2>1, <2>3, <3>1
  <2>. QED  BY <2>2, <2>3
<1>. QED  BY <1>1, <1>2

\* Taking out an empty sequence makes no difference.
LEMMA FlattenSkip ==
    ASSUME NEW S, NEW ss \in Seq(Seq(S)), NEW i \in 1..Len(ss), ss[i] = <<>>
    PROVE  FlattenSeq(RemoveAt(ss, i)) = FlattenSeq(ss)
<1> DEFINE n == Len(ss)
           tt == RemoveAt(ss, i)
           m == Len(tt)
<1>1. /\ n \in Nat \ {0} /\ m \in Nat /\ m = n - 1 /\ i \in 1..n
      /\ ss # <<>> /\ tt \in Seq(Seq(S))
      /\ \A j \in 1..m : tt[j] = IF j < i THEN ss[j] ELSE ss[j + 1]
      /\ \A j \in 1..n : ss[j] \in Seq(S)
  <2>1. /\ tt \in Seq(Seq(S)) /\ m = n - 1
        /\ \A j \in 1..(n - 1) : tt[j] = IF j < i THEN ss[j] ELSE ss[j + 1]
    BY RemoveAtProperties
  <2>2. n \in Nat \ {0} /\ ss # <<>> /\ m \in Nat /\ i \in 1..n
    <3>1. n \in Nat
      OBVIOUS
    <3>. QED  BY <2>1, <3>1, EmptySeq
  <2>. QED  BY <2>1, <2>2
<1>2. PICK f : Flattens(ss, n, f) /\ FlattenSeq(ss) = f[n]
  BY <1>1, FlattenSeqIs
<1> HIDE DEF n, tt, m
<1>3. \A j \in 1..n : f[j] = IF j = 1 THEN ss[j] ELSE f[j - 1] \o ss[j]
  BY <1>2, Zenon DEF Flattens
<1>4. \A j \in 1..n : f[j] \in Seq(S)
  <2> DEFINE Bad == {j \in 1..n : f[j] \notin Seq(S)}
  <2> SUFFICES ASSUME Bad # {} PROVE FALSE
    OBVIOUS
  <2>1. Bad \in SUBSET Nat
    BY <1>1
  <2>2. PICK j \in Bad : \A k \in Bad : j <= k
    BY <2>1, LeastNatural
  <2>3. j # 1 => f[j - 1] \in Seq(S)
    BY <1>1, <2>2
  <2>4. j # 1 => f[j - 1] \o ss[j] \in Seq(S)
    BY <1>1, <2>3, ConcatProperties
  <2>. QED  BY <1>1, <1>3, <2>2, <2>4
<1>5. f[i] = IF i = 1 THEN <<>> ELSE f[i - 1]
  <2>1. i # 1 => i - 1 \in 1..n
    BY <1>1
  <2>2. i # 1 => f[i - 1] \o <<>> = f[i - 1]
    BY <1>4, <2>1, ConcatEmptySeq
  <2>. QED  BY <1>1, <1>3, <2>2
<1>6. CASE tt = <<>>
  <2>1. n = 1 /\ i = 1
    BY <1>1, <1>6 DEF m
  <2>2. FlattenSeq(tt) = <<>>
    BY <1>6, FlattenEmpty
  <2>. QED  BY <1>2, <1>5, <2>1, <2>2 DEF tt
<1>7. CASE tt # <<>>
  <2>1. PICK g : Flattens(tt, m, g) /\ FlattenSeq(tt) = g[m]
    BY <1>1, <1>7, FlattenSeqIs DEF m
  <2>2. \A j \in 1..m : g[j] = IF j = 1 THEN tt[j] ELSE g[j - 1] \o tt[j]
    BY <2>1, Zenon DEF Flattens
  <2>3. m \in 1..m /\ m # 0
    BY <1>1, <1>7, EmptySeq DEF m
  <2> DEFINE Old(j) == IF j < i THEN f[j] ELSE f[j + 1]
             Bad == {j \in 1..m : g[j] # Old(j)}
  <2>4. CASE Bad # {}
    <3>1. Bad \in SUBSET Nat
      BY <1>1
    <3>2. PICK j \in Bad : \A k \in Bad : j <= k
      BY <2>4, <3>1, LeastNatural
    <3>3. /\ j \in 1..m /\ g[j] # Old(j)
          /\ j # 1 => j - 1 \in 1..m /\ g[j - 1] = Old(j - 1)
      BY <1>1, <3>2
    <3>4. CASE j < i
      <4>1. j \in 1..n /\ tt[j] = ss[j] /\ Old(j) = f[j]
        BY <1>1, <3>3, <3>4
      <4>2. j # 1 => Old(j - 1) = f[j - 1]
        BY <1>1, <3>3, <3>4
      <4>. QED  BY <1>3, <2>2, <3>3, <4>1, <4>2
    <3>5. CASE ~(j < i)
      <4>1. j + 1 \in 1..n /\ tt[j] = ss[j + 1] /\ Old(j) = f[j + 1] /\ j + 1 # 1 /\ (j + 1) - 1 = j
        BY <1>1, <3>3, <3>5
      <4>2. f[j + 1] = f[j] \o ss[j + 1]
        BY <1>3, <4>1
      <4>3. CASE j = 1
        <5>1. i = 1 /\ f[j] = <<>>
          BY <1>1, <1>5, <3>5, <4>3
        <5>2. <<>> \o ss[j + 1] = ss[j + 1]
          BY <1>1, <4>1, ConcatEmptySeq
        <5>. QED  BY <2>2, <3>3, <4>1, <4>2, <4>3, <5>1, <5>2
      <4>4. CASE j # 1
        <5>1. g[j - 1] = f[j]
          <6>1. CASE j = i
            BY <1>1, <1>5, <3>3, <4>4, <6>1
          <6>2. CASE j # i
            <7>1. ~(j - 1 < i) /\ (j - 1) + 1 = j
              BY <1>1, <3>3, <3>5, <6>2
            <7>. QED  BY <3>3, <4>4, <7>1
          <6>. QED  BY <6>1, <6>2
        <5>. QED  BY <2>2, <3>3, <4>1, <4>2, <4>4, <5>1
      <4>. QED  BY <4>3, <4>4
    <3>. QED  BY <3>4, <3>5
  <2>5. CASE Bad = {}
    <3>1. g[m] = Old(m)
      BY <2>3, <2>5
    <3>2. CASE m < i
      <4>1. i = n /\ i # 1 /\ i - 1 = m
        BY <1>1, <2>3, <3>2
      <4>. QED  BY <1>2, <1>5, <2>1, <3>1, <3>2, <4>1 DEF tt
    <3>3. CASE ~(m < i)
      <4>1. m + 1 = n
        BY <1>1
      <4>. QED  BY <1>2, <2>1, <3>1, <3>3, <4>1 DEF tt
    <3>. QED  BY <3>2, <3>3
  <2>. QED  BY <2>4, <2>5
<1>. QED  BY <1>6, <1>7
=============================================================================
