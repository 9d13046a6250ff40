------------------------------ MODULE MdcProofs ------------------------------
(***************************************************************************)
(* Theorems about Mdc for any sets of threads, keys, values and entries.   *)
(***************************************************************************)
EXTENDS Mdc, TextLemmas

-----------------------------------------------------------------------------
\* Linked says of a broken list what is left of its links.
AllLinked == \A t \in Threads : Linked(t)

\* A failed put frees one entry of the list, once.
OneFreed ==
    \A t \in Threads : Broken(t) =>
        \E i \in 1..Len(order[t]) : Intact(t) = (1..Len(order[t])) \ {i}

Inv == TypeOK /\ EntriesOwned /\ AllLinked /\ OneFreed /\ KeysUnique /\ WalksOwnList

LEMMA InitInv == Init => Inv
<1> SUFFICES ASSUME Init PROVE Inv
  OBVIOUS
<1>1. TypeOK
  BY DEF Init, TypeOK, Result, Results
<1>2. \A t \in Threads : order[t] = <<>> /\ Len(order[t]) = 0
  BY DEF Init
<1>3. \A t \in Threads : Intact(t) = {} /\ ~Broken(t)
  BY <1>2 DEF Init, Intact, Broken
<1>4. EntriesOwned /\ KeysUnique /\ OneFreed
  BY <1>3 DEF Init, EntriesOwned, KeysUnique, OneFreed
<1>5. AllLinked
  BY <1>2, <1>3 DEF Init, AllLinked, Linked
<1>6. WalksOwnList
  BY DEF Init, WalksOwnList, Walking
<1>. QED  BY <1>1, <1>4, <1>5, <1>6 DEF Inv

-----------------------------------------------------------------------------
\* Every entry of a list that is not broken is intact.
LEMMA IntactAll ==
    ASSUME NEW t \in Threads, ~Broken(t)
    PROVE  Intact(t) = 1..Len(order[t])
BY DEF Intact

LEMMA OwnEntries ==
    ASSUME Inv, NEW t \in Threads, ~Broken(t)
    PROVE  /\ order[t] \in Seq(Nodes) /\ Len(order[t]) \in Nat
           /\ \A i \in 1..Len(order[t]) : order[t][i] \in live /\ order[t][i] \in Nodes
           /\ \A i, j \in 1..Len(order[t]) : order[t][i] = order[t][j] => i = j
<1>1. order[t] \in Seq(Nodes) /\ Len(order[t]) \in Nat
  BY DEF Inv, TypeOK
<1>2. Intact(t) = 1..Len(order[t])
  BY IntactAll
<1>3. \A i \in 1..Len(order[t]) : order[t][i] \in Nodes
  BY <1>1
<1>. QED  BY <1>1, <1>2, <1>3 DEF Inv, EntriesOwned

\* What is intact of another list is allocated and not in this one.
LEMMA OtherEntries ==
    ASSUME Inv, NEW t \in Threads, ~Broken(t), NEW u \in Threads, u # t, NEW j \in Intact(u)
    PROVE  /\ j \in 1..Len(order[u])
           /\ order[u][j] \in live /\ order[u][j] \in Nodes
           /\ \A i \in 1..Len(order[t]) : order[u][j] # order[t][i]
<1>1. j \in 1..Len(order[u]) /\ order[u] \in Seq(Nodes)
  BY DEF Intact, Inv, TypeOK
<1>2. order[u][j] \in Nodes
  BY <1>1
<1>3. Intact(t) = 1..Len(order[t])
  BY IntactAll
<1>. QED  BY <1>1, <1>2, <1>3 DEF Inv, EntriesOwned

\* t is in a call, or at its end, that breaks no list.
Whole(t) ==
    /\ ~Broken(t) /\ ~Broken(t)'
    /\ \A u \in Threads \ {t} : pc'[u] = pc[u] /\ cur'[u] = cur[u]

LEMMA IntactFrame ==
    ASSUME NEW u \in Threads, pc'[u] = pc[u], cur'[u] = cur[u], order'[u] = order[u]
    PROVE  Intact(u)' = Intact(u) /\ (Broken(u)' <=> Broken(u))
BY DEF Intact, Broken

\* n is freed, and is no longer in t's list.
TakenOut(t, n) ==
    MdcDestroy(n) /\ order' = [order EXCEPT ![t] = RemoveFirst(order[t], n)]

\* What is left when the i-th entry of a list is taken out: the others, in their
\* order.
LEMMA UnlinkInv ==
    ASSUME Inv, NEW t \in Threads, NEW i \in 1..Len(order[t]), Whole(t),
           TakenOut(t, order[t][i])
    PROVE  /\ order' = [order EXCEPT ![t] = RemoveAt(order[t], i)]
           /\ order' \in [Threads -> Seq(Nodes)]
           /\ Len(order'[t]) = Len(order[t]) - 1
           /\ \A j \in 1..Len(order'[t]) :
                  order'[t][j] = IF j < i THEN order[t][j] ELSE order[t][j + 1]
           /\ \A u \in Threads \ {t} : order'[u] = order[u]
           /\ \A u \in Threads : \A j \in Intact(u)' : order'[u][j] # order[t][i]
           /\ live' \subseteq Nodes
           /\ key' \in [Nodes -> Keys \cup {NULL}]
           /\ value' \in [Nodes -> Stored \cup {NULL}]
           /\ \A m \in Nodes \ {order[t][i]} : key'[m] = key[m] /\ value'[m] = value[m]
           /\ EntriesOwned'
           /\ KeysUnique'
           /\ OneFreed'
<1> DEFINE n == order[t][i]
           o == order[t]
<1>1. /\ TypeOK
      /\ o \in Seq(Nodes) /\ Len(o) \in Nat
      /\ n \in Nodes /\ n \in live
      /\ \A j \in 1..Len(o) : o[j] = o[i] => j = i
      /\ Intact(t) = 1..Len(o)
  BY OwnEntries, IntactAll DEF Inv, Whole
<1>2. order' = [order EXCEPT ![t] = RemoveAt(o, i)]
  BY <1>1, RemoveFirstAt DEF TakenOut
<1>3. /\ order'[t] = RemoveAt(o, i)
      /\ order'[t] \in Seq(Nodes)
      /\ Len(order'[t]) = Len(o) - 1
      /\ \A j \in 1..Len(order'[t]) : order'[t][j] = IF j < i THEN o[j] ELSE o[j + 1]
      /\ \A u \in Threads \ {t} : order'[u] = order[u]
      /\ order' \in [Threads -> Seq(Nodes)]
  <2>1. /\ RemoveAt(o, i) \in Seq(Nodes)
        /\ Len(RemoveAt(o, i)) = Len(o) - 1
        /\ \A j \in 1..(Len(o) - 1) : RemoveAt(o, i)[j] = IF j < i THEN o[j] ELSE o[j + 1]
    BY <1>1, RemoveAtProperties
  <2>2. order'[t] = RemoveAt(o, i) /\ \A u \in Threads \ {t} : order'[u] = order[u]
    BY <1>1, <1>2 DEF TypeOK
  <2>3. order' \in [Threads -> Seq(Nodes)]
    BY <1>1, <1>2, <2>1 DEF TypeOK
  <2>. QED  BY <2>1, <2>2, <2>3
<1>4. /\ live' \subseteq Nodes
      /\ key' \in [Nodes -> Keys \cup {NULL}]
      /\ value' \in [Nodes -> Stored \cup {NULL}]
  BY <1>1 DEF TypeOK, TakenOut, MdcDestroy, Freed
<1>5. /\ Intact(t)' = 1..Len(order'[t])
      /\ \A u \in Threads \ {t} : Intact(u)' = Intact(u) /\ (Broken(u)' <=> Broken(u))
  <2>1. Intact(t)' = 1..Len(order'[t])
    BY DEF Whole, Intact
  <2>2. ASSUME NEW u \in Threads \ {t} PROVE Intact(u)' = Intact(u) /\ (Broken(u)' <=> Broken(u))
    BY <1>3, IntactFrame DEF Whole
  <2>. QED  BY <2>1, <2>2
<1> DEFINE Old(u, j) == IF u = t /\ j >= i THEN j + 1 ELSE j
<1>6. \A u \in Threads : \A j \in Intact(u)' :
          /\ Old(u, j) \in Intact(u)
          /\ order'[u][j] = order[u][Old(u, j)]
          /\ order'[u][j] # n
  <2> SUFFICES ASSUME NEW u \in Threads, NEW j \in Intact(u)'
               PROVE  /\ Old(u, j) \in Intact(u)
                      /\ order'[u][j] = order[u][Old(u, j)]
                      /\ order'[u][j] # n
    OBVIOUS
  <2>1. CASE u = t
    BY <1>1, <1>3, <1>5, <2>1
  <2>2. CASE u # t
    <3>1. j \in Intact(u) /\ order'[u] = order[u]
      BY <1>3, <1>5, <2>2
    <3>2. order[u][j] # n
      BY <2>2, <3>1, OtherEntries DEF Whole
    <3>. QED  BY <2>2, <3>1, <3>2
  <2>. QED  BY <2>1, <2>2
<1>7. \A m \in Nodes \ {n} : key'[m] = key[m] /\ value'[m] = value[m]
  BY <1>1 DEF TakenOut, MdcDestroy, Freed, TypeOK
<1>8. EntriesOwned'
  <2>1. ASSUME NEW u \in Threads, NEW v \in Threads,
               NEW j \in Intact(u)', NEW k \in Intact(v)', order'[u][j] = order'[v][k]
        PROVE  u = v /\ j = k
    <3>1. /\ Old(u, j) \in Intact(u)
          /\ Old(v, k) \in Intact(v)
          /\ order[u][Old(u, j)] = order[v][Old(v, k)]
      BY <1>6, <2>1
    <3>2. u = v /\ Old(u, j) = Old(v, k)
      <4> HIDE DEF Old
      <4>. QED  BY <3>1 DEF Inv, EntriesOwned
    <3>3. u = t => j \in Nat /\ k \in Nat
      BY <1>5, <3>2
    <3>. QED  BY <3>2, <3>3
  <2>2. ASSUME NEW m \in Nodes
        PROVE  m \in live' <=> \E u \in Threads : \E j \in Intact(u)' : order'[u][j] = m
    <3>1. m \in live' <=> m \in live /\ m # n
      BY DEF TakenOut, MdcDestroy
    <3>2. ASSUME NEW u \in Threads, NEW j \in Intact(u), order[u][j] = m, m # n
          PROVE  \E k \in Intact(u)' : order'[u][k] = m
      <4>1. CASE u = t /\ j > i
        <5>1. j - 1 \in 1..Len(order'[t]) /\ ~(j - 1 < i) /\ (j - 1) + 1 = j
          BY <1>1, <1>3, <3>2, <4>1
        <5>2. order'[t][j - 1] = o[j]
          BY <1>3, <5>1
        <5>. QED  BY <1>5, <3>2, <4>1, <5>1, <5>2
      <4>2. CASE u = t /\ j < i
        BY <1>1, <1>3, <1>5, <3>2, <4>2
      <4>3. CASE u # t
        BY <1>3, <1>5, <3>2, <4>3
      <4>4. u = t => j \in Nat /\ j # i
        BY <1>1, <3>2
      <4>. QED  BY <4>1, <4>2, <4>3, <4>4
    <3>3. m \in live <=> \E u \in Threads : \E j \in Intact(u) : order[u][j] = m
      BY DEF Inv, EntriesOwned
    <3>4. ASSUME NEW u \in Threads, NEW j \in Intact(u)', order'[u][j] = m
          PROVE  m # n /\ \E k \in Intact(u) : order[u][k] = m
      <4> HIDE DEF Old
      <4>. QED  BY <1>6, <3>4
    <3>. QED  BY <3>1, <3>2, <3>3, <3>4
  <2>3. ASSUME NEW m \in live' PROVE key'[m] # NULL /\ value'[m] # NULL
    BY <1>1, <1>7 DEF TakenOut, MdcDestroy, Inv, EntriesOwned, TypeOK
  <2>. QED  BY <2>1, <2>2, <2>3 DEF EntriesOwned
<1>9. KeysUnique'
  <2> SUFFICES ASSUME NEW u \in Threads, NEW j \in Intact(u)', NEW k \in Intact(u)',
                      key'[order'[u][j]] = key'[order'[u][k]]
               PROVE  j = k
    BY DEF KeysUnique
  <2>1. ASSUME NEW l \in Intact(u)'
        PROVE  Old(u, l) \in Intact(u) /\ key'[order'[u][l]] = key[order[u][Old(u, l)]]
    <3>1. order'[u][l] \in Nodes \ {n} /\ order'[u][l] = order[u][Old(u, l)] /\ Old(u, l) \in Intact(u)
      <4>1. l \in 1..Len(order'[u])
        BY DEF Intact
      <4>2. order'[u] \in Seq(Nodes)
        BY <1>3
      <4>. QED  BY <1>6, <4>1, <4>2
    <3> HIDE DEF Old
    <3>. QED  BY <1>7, <3>1
  <2>2. Old(u, j) = Old(u, k)
    <3> HIDE DEF Old
    <3>. QED  BY <2>1 DEF Inv, KeysUnique
  <2>3. u = t => j \in Nat /\ k \in Nat
    BY <1>5
  <2>. QED  BY <2>2, <2>3
<1>10. OneFreed'
  BY <1>3, <1>5 DEF Whole, Inv, OneFreed
<1>. QED  BY <1>2, <1>3, <1>4, <1>6, <1>7, <1>8, <1>9, <1>10

\* rm_from_list() given the i-th entry of a list links the others around the
\* gap, and leaves the lists of the other threads alone.
LEMMA RmFromListInv ==
    ASSUME Inv, NEW t \in Threads, NEW i \in 1..Len(order[t]), Whole(t),
           RmFromList(t, order[t][i])
    PROVE  /\ TakenOut(t, order[t][i])
           /\ head' \in [Threads -> Nodes \cup {NULL, NoList}]
           /\ prev' \in [Nodes -> Nodes \cup {NULL}]
           /\ next' \in [Nodes -> Nodes \cup {NULL}]
           /\ \A u \in Threads \ {t} : head'[u] = head[u]
           /\ AllLinked'
<1> DEFINE n == order[t][i]
           o == order[t]
<1>1. /\ TypeOK
      /\ o \in Seq(Nodes) /\ Len(o) \in Nat
      /\ n \in Nodes
      /\ \A j \in 1..Len(o) : o[j] = o[i] => j = i
      /\ Intact(t) = 1..Len(o)
  BY OwnEntries, IntactAll DEF Inv, Whole
<1>2. TakenOut(t, order[t][i])
  BY DEF RmFromList, TakenOut
<1>3. /\ order'[t] \in Seq(Nodes)
      /\ Len(order'[t]) = Len(o) - 1
      /\ \A j \in 1..Len(order'[t]) : order'[t][j] = IF j < i THEN o[j] ELSE o[j + 1]
      /\ \A u \in Threads \ {t} : order'[u] = order[u]
      /\ Intact(t)' = 1..Len(order'[t])
      /\ \A j \in 1..Len(order'[t]) : order'[t][j] # n
  <2>1. Intact(t)' = 1..Len(order'[t])
    BY DEF Whole, Intact
  <2>2. /\ order' \in [Threads -> Seq(Nodes)]
        /\ Len(order'[t]) = Len(order[t]) - 1
        /\ \A j \in 1..Len(order'[t]) :
               order'[t][j] = IF j < i THEN order[t][j] ELSE order[t][j + 1]
        /\ \A u \in Threads \ {t} : order'[u] = order[u]
        /\ \A u \in Threads : \A j \in Intact(u)' : order'[u][j] # order[t][i]
    BY <1>2, UnlinkInv
  <2>. QED  BY <2>1, <2>2
<1>4. /\ head' \in [Threads -> Nodes \cup {NULL, NoList}]
      /\ prev' \in [Nodes -> Nodes \cup {NULL}]
      /\ next' \in [Nodes -> Nodes \cup {NULL}]
      /\ \A u \in Threads \ {t} : head'[u] = head[u]
  BY <1>1 DEF TypeOK, RmFromList, Freed
<1>5. AllLinked'
  <2>1. /\ Linked(t)
        /\ next[n] = IF i = 1 THEN NULL ELSE o[i - 1]
        /\ prev[n] = IF i = Len(o) THEN NULL ELSE o[i + 1]
    BY <1>1 DEF Inv, AllLinked, Linked
  <2>2. \A m \in Nodes \ {n} :
            /\ next'[m] = IF m = prev[n] THEN next[n] ELSE next[m]
            /\ prev'[m] = IF m = next[n] THEN prev[n] ELSE prev[m]
    BY <1>1 DEF RmFromList, Freed, TypeOK
  <2>3. ASSUME NEW u \in Threads, u # t PROVE Linked(u)'
    <3>1. head'[u] = head[u]
      BY <1>1, <2>3 DEF RmFromList, TypeOK
    <3>2. ASSUME NEW j \in Intact(u)
          PROVE  order[u][j] \in Nodes \ {n} /\ order[u][j] # prev[n] /\ order[u][j] # next[n]
      <4>1. order[u][j] \in Nodes /\ \A k \in 1..Len(o) : order[u][j] # o[k]
        BY <2>3, OtherEntries DEF Whole
      <4>2. prev[n] = NULL \/ \E k \in 1..Len(o) : prev[n] = o[k]
        BY <1>1, <2>1
      <4>3. next[n] = NULL \/ \E k \in 1..Len(o) : next[n] = o[k]
        BY <1>1, <2>1
      <4>. QED  BY <4>1, <4>2, <4>3, PointerAssumption
    <3>3. order'[u] = order[u] /\ Intact(u)' = Intact(u)
      BY <1>3, <2>3, IntactFrame DEF Whole
    <3>4. \A j \in Intact(u) :
              /\ next'[order[u][j]] = next[order[u][j]]
              /\ prev'[order[u][j]] = prev[order[u][j]]
      BY <2>2, <3>2
    <3>5. Linked(u)
      BY DEF Inv, AllLinked
    <3>. QED  BY <3>1, <3>3, <3>4, <3>5 DEF Linked
  <2>4. Linked(t)'
    <3> DEFINE p == order'[t]
    <3>1. /\ p \in Seq(Nodes)
          /\ Len(p) = Len(o) - 1
          /\ \A j \in 1..Len(p) : p[j] = IF j < i THEN o[j] ELSE o[j + 1]
      BY <1>3
    <3>2. \A j, k \in 1..Len(o) : o[j] = o[k] => j = k
      BY OwnEntries DEF Whole
    <3>3. \A j \in 1..Len(o) :
              /\ o[j] \in Nodes
              /\ next[o[j]] = IF j = 1 THEN NULL ELSE o[j - 1]
              /\ prev[o[j]] = IF j = Len(o) THEN NULL ELSE o[j + 1]
      <4>1. \A j \in Intact(t) :
              /\ next[o[j]] = IF j = 1 THEN NULL ELSE o[j - 1]
              /\ prev[o[j]] = IF j = Len(o) THEN NULL ELSE o[j + 1]
        BY <2>1 DEF Linked
      <4>2. o \in Seq(Nodes) /\ Intact(t) = 1..Len(o)
        BY <1>1
      <4>3. \A j \in 1..Len(o) : o[j] \in Nodes
        BY <4>2
      <4>. QED  BY <4>1, <4>2, <4>3, ZenonT(30)
    <3>4. head[t] = o[Len(o)] /\ head'[t] = IF n = head[t] THEN next[n] ELSE head[t]
      BY <1>1, <2>1 DEF RmFromList, Linked, TypeOK
    <3>5. p # <<>> => head'[t] = p[Len(p)]
      <4> SUFFICES ASSUME p # <<>> PROVE head'[t] = p[Len(p)]
        OBVIOUS
      <4>1. Len(p) \in Nat /\ Len(p) # 0 /\ Len(p) \in 1..Len(p)
        BY <3>1, SMTT(30)
      <4>2. CASE i = Len(o)
        BY <2>1, <3>1, <3>4, <4>1, <4>2
      <4>3. CASE i # Len(o)
        <5>1. n # head[t]
          BY <1>1, <3>4, <4>3
        <5>2. p[Len(p)] = o[Len(o)]
          <6>1. ~(Len(p) < i) /\ Len(p) + 1 = Len(o)
            BY <1>1, <3>1, <4>1, <4>3
          <6>. QED  BY <3>1, <4>1, <6>1
        <5>. QED  BY <3>4, <5>1, <5>2
      <4>. QED  BY <4>2, <4>3
    <3>6. p = <<>> => head'[t] \in {NULL, NoList}
      <4> SUFFICES ASSUME p = <<>> PROVE head'[t] = NULL
        OBVIOUS
      <4>1. Len(o) = 1 /\ i = 1
        BY <1>1, <3>1
      <4>. QED  BY <2>1, <3>4, <4>1
    <3>7. ASSUME NEW j \in 1..Len(p)
          PROVE  /\ next'[p[j]] = IF j = 1 THEN NULL ELSE p[j - 1]
                 /\ prev'[p[j]] = IF j = Len(p) THEN NULL ELSE p[j + 1]
      <4>1. p[j] \in Nodes \ {n} /\ Len(o) \in Nat /\ Len(p) \in Nat /\ Len(p) = Len(o) - 1
        BY <1>1, <1>3, <3>1
      <4>2. /\ next'[p[j]] = IF p[j] = prev[n] THEN next[n] ELSE next[p[j]]
            /\ prev'[p[j]] = IF p[j] = next[n] THEN prev[n] ELSE prev[p[j]]
        BY <2>2, <4>1
      <4>3. p[j] = prev[n] <=> j = i
        <5>1. CASE i = Len(o)
          BY <2>1, <3>1, <4>1, <5>1, PointerAssumption
        <5>2. CASE i # Len(o)
          BY <2>1, <3>1, <3>2, <4>1, <5>2
        <5>. QED  BY <5>1, <5>2
      <4>4. p[j] = next[n] <=> j = i - 1
        <5>1. CASE i = 1
          BY <2>1, <3>1, <4>1, <5>1, PointerAssumption
        <5>2. CASE i # 1
          <6>1. next[n] = o[i - 1] /\ i - 1 \in 1..Len(o)
            BY <2>1, <4>1, <5>2
          <6>2. CASE j < i
            <7>1. p[j] = o[j] /\ j \in 1..Len(o)
              BY <3>1, <4>1, <6>2
            <7>. QED  BY <3>2, <6>1, <7>1
          <6>3. CASE ~(j < i)
            <7>1. j + 1 \in 1..Len(o) /\ j + 1 # i - 1 /\ j # i - 1
              BY <4>1, <6>3
            <7>2. p[j] = o[j + 1]
              BY <3>1, <6>3
            <7>. QED  BY <3>2, <6>1, <7>1, <7>2
          <6>. QED  BY <6>2, <6>3
        <5>. QED  BY <5>1, <5>2
      <4>5. CASE j < i
        <5>1. /\ j \in 1..Len(o)
              /\ p[j] = o[j]
              /\ j # 1 => j - 1 \in 1..Len(p) /\ j - 1 < i /\ p[j - 1] = o[j - 1]
          <6>1. j \in 1..Len(o) /\ (j # 1 => j - 1 \in 1..Len(p) /\ j - 1 < i)
            BY <4>1, <4>5
          <6>. QED  BY <3>1, <4>5, <6>1
        <5>2. next'[p[j]] = IF j = 1 THEN NULL ELSE p[j - 1]
          BY <3>3, <4>2, <4>3, <4>5, <5>1
        <5>3. CASE j = i - 1
          <6>1. prev'[p[j]] = IF i = Len(o) THEN NULL ELSE o[i + 1]
            BY <2>1, <4>2, <4>4, <5>3
          <6>2. /\ j = Len(p) <=> i = Len(o)
                /\ i # Len(o) => j + 1 \in 1..Len(p) /\ ~(j + 1 < i) /\ (j + 1) + 1 = i + 1
            BY <3>1, <4>1, <5>3, SMTT(30)
          <6>3. i # Len(o) => p[j + 1] = o[i + 1]
            BY <3>1, <6>2, SMTT(30)
          <6>. QED  BY <5>2, <6>1, <6>2, <6>3
        <5>4. CASE j # i - 1
          <6>1. prev'[p[j]] = o[j + 1]
            <7>1. j # Len(o) /\ prev'[p[j]] = prev[o[j]]
              BY <4>1, <4>2, <4>4, <4>5, <5>1, <5>4
            <7>. QED  BY <3>3, <5>1, <7>1
          <6>2. j + 1 \in 1..Len(p) /\ j + 1 < i /\ j # Len(p)
            BY <4>1, <4>5, <5>4, SMTT(30)
          <6>3. p[j + 1] = o[j + 1]
            BY <3>1, <6>2
          <6>. QED  BY <5>2, <6>1, <6>2, <6>3
        <5>. QED  BY <5>3, <5>4
      <4>6. CASE ~(j < i)
        <5>1. j + 1 \in 1..Len(o) /\ p[j] = o[j + 1]
          BY <3>1, <4>1, <4>6
        <5>2. prev'[p[j]] = IF j + 1 = Len(o) THEN NULL ELSE o[(j + 1) + 1]
          <6>1. prev'[p[j]] = prev[o[j + 1]]
            BY <4>2, <4>4, <4>6, <5>1
          <6>. QED  BY <3>3, <5>1, <6>1
        <5>3. j # Len(p) => p[j + 1] = o[(j + 1) + 1]
          <6>1. j # Len(p) => j + 1 \in 1..Len(p) /\ ~(j + 1 < i)
            BY <4>1, <4>6
          <6>. QED  BY <3>1, <6>1
        <5>4. CASE j = i
          <6>1. next'[p[j]] = IF i = 1 THEN NULL ELSE o[i - 1]
            BY <2>1, <4>2, <4>3, <5>4
          <6>2. i # 1 => p[j - 1] = o[i - 1]
            <7>1. i # 1 => j - 1 \in 1..Len(p) /\ j - 1 < i
              BY <4>1, <5>4
            <7>. QED  BY <3>1, <5>4, <7>1
          <6>. QED  BY <3>1, <5>2, <5>3, <5>4, <6>1, <6>2
        <5>5. CASE j # i
          <6>1. next'[p[j]] = o[j]
            BY <3>3, <4>2, <4>3, <4>6, <5>1, <5>5
          <6>2. j # 1 /\ j - 1 \in 1..Len(p) /\ ~(j - 1 < i) /\ (j - 1) + 1 = j
            BY <4>1, <4>6, <5>5, SMTT(30)
          <6>3. p[j - 1] = o[j]
            BY <3>1, <6>2
          <6>. QED  BY <3>1, <5>2, <5>3, <6>1, <6>2, <6>3
        <5>. QED  BY <5>4, <5>5
      <4>. QED  BY <4>5, <4>6
    <3> HIDE DEF o
    <3>. QED  BY <1>3, <3>5, <3>6, <3>7 DEF Linked
  <2>. QED  BY <2>3, <2>4 DEF AllLinked
<1>. QED  BY <1>2, <1>4, <1>5

\* A thread is not disturbed by a step that leaves alone its list, its loop
\* and the keys and values of its entries.
LEMMA WalkingFrame ==
    ASSUME TypeOK, NEW t \in Threads, Walking(t),
           pc'[t] = pc[t], call'[t] = call[t], cur'[t] = cur[t], seen'[t] = seen[t],
           head'[t] = head[t], order'[t] = order[t],
           \A i \in Intact(t) :
               /\ key'[order[t][i]] = key[order[t][i]]
               /\ value'[order[t][i]] = value[order[t][i]]
    PROVE  Walking(t)'
<1> DEFINE W(i) == /\ cur[t] = IF i = 0 THEN NULL ELSE order[t][i]
                   /\ call[t].op \in Searches =>
                        \A j \in (i + 1)..Len(order[t]) : key[order[t][j]] # call[t].key
                   /\ call[t].op = "write" =>
                        /\ Len(seen[t]) = Len(order[t]) - i
                        /\ \A k \in 1..Len(seen[t]) :
                               seen[t][k] = Pair(order[t][Len(order[t]) + 1 - k])
<1>1. ASSUME pc[t] = "walk", NEW i \in 0..Len(order[t]), W(i) PROVE W(i)'
  <2>1. Len(order[t]) \in Nat /\ Intact(t) = 1..Len(order[t])
    <3>1. ~Broken(t)
      BY <1>1 DEF Broken
    <3>. QED  BY <3>1, IntactAll DEF TypeOK
  <2>2. ASSUME call[t].op = "write", NEW k \in 1..Len(seen[t])
        PROVE  seen'[t][k] = Pair(order[t][Len(order[t]) + 1 - k])'
    <3>1. Len(order[t]) + 1 - k \in 1..Len(order[t])
      BY <1>1, <2>1, <2>2
    <3>2. /\ key'[order[t][Len(order[t]) + 1 - k]] = key[order[t][Len(order[t]) + 1 - k]]
          /\ value'[order[t][Len(order[t]) + 1 - k]] = value[order[t][Len(order[t]) + 1 - k]]
      BY <2>1, <3>1
    <3>. QED  BY <1>1, <2>2, <3>2, ZenonT(30) DEF Pair
  <2>3. call'[t].op \in Searches =>
          \A j \in (i + 1)..Len(order'[t]) : key'[order'[t][j]] # call'[t].key
    BY <1>1, <2>1
  <2>. QED  BY <1>1, <2>2, <2>3
<1>2. pc[t] = "walk" => \E i \in 0..Len(order[t]) : W(i)
  BY DEF Walking
<1>3. pc'[t] = "walk" => \E i \in 0..Len(order'[t]) : W(i)'
  BY <1>1, <1>2
<1>. QED  BY <1>3 DEF Walking, Requests, Searches, Empties

\* A call that ends leaves its thread outside the library, with a result of the
\* right type, and the other threads where they are.
Ended(t, label) ==
    /\ pc'[t] = label
    /\ pc' \in [Threads -> {"idle", "get_list", "walk", "empty", "broken", "undefined"}]
    /\ call' \in [Threads -> Requests \cup {NoCall}]
    /\ cur' \in [Threads -> Nodes \cup {NULL}]
    /\ seen' \in [Threads -> Seq(Pairs)]
    /\ ret' \in [Threads -> Results]
    /\ Walking(t)'
    /\ \A u \in Threads \ {t} :
         /\ pc'[u] = pc[u] /\ call'[u] = call[u]
         /\ cur'[u] = cur[u] /\ seen'[u] = seen[u]

LEMMA FinishInv ==
    ASSUME TypeOK, NEW t \in Threads, NEW r \in Results, NEW label \in {"idle", "broken"},
           NEW n \in Nodes \cup {NULL}, Finish(t, r, label, n)
    PROVE  Ended(t, label) /\ cur'[t] = n
<1>1. /\ pc' \in [Threads -> {"idle", "get_list", "walk", "empty", "broken", "undefined"}]
      /\ call' \in [Threads -> Requests \cup {NoCall}]
      /\ cur' \in [Threads -> Nodes \cup {NULL}]
      /\ seen' \in [Threads -> Seq(Pairs)]
      /\ ret' \in [Threads -> Results]
  BY DEF TypeOK, Finish
<1>2. pc'[t] = label /\ seen'[t] = <<>> /\ cur'[t] = n
  BY DEF TypeOK, Finish
<1>3. Walking(t)'
  BY <1>2 DEF Walking
<1>4. \A u \in Threads \ {t} :
        /\ pc'[u] = pc[u] /\ call'[u] = call[u]
        /\ cur'[u] = cur[u] /\ seen'[u] = seen[u]
  BY DEF TypeOK, Finish
<1>. QED  BY <1>1, <1>2, <1>3, <1>4 DEF Ended

LEMMA ReturnInv ==
    ASSUME TypeOK, NEW t \in Threads, ~Broken(t), NEW r \in Results, Return(t, r)
    PROVE  Ended(t, "idle") /\ Whole(t)
<1>1. Ended(t, "idle")
  BY FinishInv DEF Return
<1>. QED  BY <1>1 DEF Ended, Whole, Broken

LEMMA BreakInv ==
    ASSUME TypeOK, NEW t \in Threads, NEW n \in Nodes, Break(t, n)
    PROVE  Ended(t, "broken") /\ cur'[t] = n /\ Broken(t)'
<1>1. Result("ENOMEM", <<>>) \in Results
  BY DEF Result, Results
<1>. QED  BY <1>1, FinishInv DEF Break, Ended, Broken

\* A result without pairs is a result.
LEMMA EmptyResult ==
    \A code \in {"pending", "ok", "ENOMEM", "EINVAL"} : Result(code, <<>>) \in Results
  BY DEF Result, Results

\* The steps of t that leave every entry alone need a proof only for t's loop
\* and for the head of t's list.
LEMMA QuietInv ==
    ASSUME Inv, NEW t \in Threads, Whole(t), UNCHANGED <<heap, order>>,
           TypeOK', Walking(t)',
           head'[t] = head[t] \/ (order[t] = <<>> /\ head'[t] \in {NULL, NoList}),
           \A u \in Threads \ {t} :
                call'[u] = call[u] /\ seen'[u] = seen[u] /\ head'[u] = head[u]
    PROVE  Inv'
<1>1. \A u \in Threads : Intact(u)' = Intact(u) /\ (Broken(u)' <=> Broken(u))
  <2>1. Intact(t)' = Intact(t) /\ (Broken(t)' <=> Broken(t))
    BY DEF Whole, Intact
  <2>2. ASSUME NEW u \in Threads \ {t} PROVE Intact(u)' = Intact(u) /\ (Broken(u)' <=> Broken(u))
    BY IntactFrame DEF Whole
  <2>. QED  BY <2>1, <2>2
<1>2. EntriesOwned' /\ KeysUnique' /\ OneFreed'
  BY <1>1 DEF Inv, EntriesOwned, KeysUnique, OneFreed, heap
<1>3. AllLinked'
  <2> SUFFICES ASSUME NEW u \in Threads PROVE Linked(u)'
    BY DEF AllLinked
  <2>1. Linked(u) /\ Intact(u)' = Intact(u)
    BY <1>1 DEF Inv, AllLinked
  <2>2. CASE head'[u] = head[u]
    BY <2>1, <2>2 DEF Linked, heap
  <2>3. CASE head'[u] # head[u]
    <3>1. u = t /\ order'[u] = <<>> /\ head'[u] \in {NULL, NoList}
      BY <2>3
    <3>. QED  BY <2>1, <3>1 DEF Linked, heap
  <2>. QED  BY <2>2, <2>3
<1>4. WalksOwnList'
  <2> SUFFICES ASSUME NEW u \in Threads, u # t PROVE Walking(u)'
    BY DEF WalksOwnList
  <2>. QED  BY WalkingFrame DEF Inv, WalksOwnList, heap, Whole
<1>. QED  BY <1>2, <1>3, <1>4 DEF Inv

LEMMA CallInv ==
    ASSUME Inv, NEW t \in Threads, NEW r \in Requests, Call(t, r) \/ RejectAdd(t, r)
    PROVE  Inv'
<1>1. CASE Call(t, r)
  <2>1. TypeOK'
    BY <1>1, EmptyResult DEF Call, Inv, TypeOK, heap, Pending
  <2>2. pc'[t] = "get_list" /\ call'[t] = r /\ seen'[t] = <<>>
    BY <1>1 DEF Call, Inv, TypeOK, WalksOwnList, Walking
  <2>3. Walking(t)'
    BY <2>2 DEF Walking
  <2>4. Whole(t)
    BY <1>1, <2>2 DEF Call, Whole, Broken, Inv, TypeOK
  <2>. QED  BY <1>1, <2>1, <2>3, <2>4, QuietInv DEF Call, Inv, TypeOK
<1>2. CASE RejectAdd(t, r)
  <2>1. TypeOK'
    BY <1>2, EmptyResult DEF RejectAdd, Inv, TypeOK, heap
  <2>2. Walking(t)'
    BY <1>2, WalkingFrame DEF RejectAdd, Inv, WalksOwnList, heap
  <2>3. Whole(t)
    BY <1>2 DEF RejectAdd, Whole, Broken
  <2>. QED  BY <1>2, <2>1, <2>2, <2>3, QuietInv DEF RejectAdd
<1>. QED  BY <1>1, <1>2

\* A thread that uses its broken list ends what the model says of it.
LEMMA CallBrokenInv ==
    ASSUME Inv, NEW t \in Threads, CallBroken(t)
    PROVE  Inv'
<1>1. /\ UNCHANGED <<head, live, prev, next, key, value, call, cur, seen, ret, order>>
      /\ pc[t] = "broken" /\ pc' = [pc EXCEPT ![t] = "undefined"]
  BY DEF CallBroken, heap
<1>2. TypeOK'
  BY <1>1 DEF Inv, TypeOK
<1>3. \A u \in Threads : Intact(u)' = Intact(u) /\ (Broken(u)' <=> Broken(u))
  <2>1. \A u \in Threads : Broken(u)' <=> Broken(u)
    BY <1>1 DEF Inv, TypeOK, Broken
  <2>. QED  BY <1>1, <2>1 DEF Intact
<1>4. EntriesOwned' /\ KeysUnique' /\ OneFreed'
  BY <1>1, <1>3 DEF Inv, EntriesOwned, KeysUnique, OneFreed
<1>5. AllLinked'
  BY <1>1, <1>3 DEF Inv, AllLinked, Linked
<1>6. ASSUME NEW u \in Threads PROVE Walking(u)'
  <2>1. CASE u = t
    <3>1. pc'[u] = "undefined"
      BY <1>1, <2>1 DEF Inv, TypeOK
    <3>. QED  BY <3>1 DEF Walking
  <2>2. CASE u # t
    <3>1. pc'[u] = pc[u]
      BY <1>1, <2>2 DEF Inv, TypeOK
    <3>. QED  BY <1>1, <3>1, WalkingFrame DEF Inv, WalksOwnList
  <2>. QED  BY <2>1, <2>2
<1>. QED  BY <1>2, <1>4, <1>5, <1>6 DEF Inv, WalksOwnList

\* A call that returns without having touched an entry.
LEMMA ReturnQuietly ==
    ASSUME Inv, NEW t \in Threads, ~Broken(t), NEW r \in Results, Return(t, r),
           UNCHANGED <<head, heap, order>>
    PROVE  Inv'
<1>1. Ended(t, "idle") /\ Whole(t)
  BY ReturnInv DEF Inv
<1>2. TypeOK'
  BY <1>1 DEF Inv, TypeOK, heap, Ended
<1>. QED  BY <1>1, <1>2, QuietInv DEF Ended

LEMMA GetListInv ==
    ASSUME Inv, NEW t \in Threads, GetList(t) \/ GetListFails(t)
    PROVE  Inv'
<1>1. CASE GetList(t)
  <2>1. TypeOK /\ Linked(t) /\ Walking(t) /\ order[t] \in Seq(Nodes)
    BY <1>1 DEF GetList, Inv, AllLinked, WalksOwnList, TypeOK
  <2>2. /\ head'[t] = IF head[t] = NoList THEN NULL ELSE head[t]
        /\ head'[t] \in Nodes \cup {NULL}
        /\ cur'[t] = head'[t]
        /\ call'[t] = call[t] /\ call[t] \in Requests
        /\ seen'[t] = <<>>
        /\ order' = order
        /\ pc'[t] = IF call[t].op \in Empties THEN "empty" ELSE "walk"
    BY <1>1, <2>1 DEF GetList, TypeOK, Walking
  <2>3. TypeOK'
    BY <1>1, <2>1, <2>2 DEF GetList, TypeOK, heap
  <2>4. head[t] = NoList => order[t] = <<>>
    BY <2>1, PointerAssumption DEF Linked
  <2>5. cur'[t] = IF Len(order[t]) = 0 THEN NULL ELSE order[t][Len(order[t])]
    BY <2>1, <2>2, <2>4 DEF Linked
  <2>6. Walking(t)'
    <3>1. Len(order[t]) \in 0..Len(order[t]) /\ Len(order[t]) \in Nat
      BY <2>1
    <3>2. \E i \in 0..Len(order'[t]) :
             /\ cur'[t] = IF i = 0 THEN NULL ELSE order'[t][i]
             /\ \A j \in (i + 1)..Len(order'[t]) : FALSE
             /\ Len(seen'[t]) = Len(order'[t]) - i
             /\ \A k \in 1..Len(seen'[t]) : FALSE
      <4>1. /\ \A j \in (Len(order[t]) + 1)..Len(order[t]) : FALSE
            /\ Len(<<>>) = Len(order[t]) - Len(order[t])
            /\ \A k \in 1..Len(<<>>) : FALSE
        BY <3>1
      <4>. QED  BY <2>2, <2>5, <3>1, <4>1
    <3>3. \E i \in 0..Len(order'[t]) :
             /\ cur'[t] = IF i = 0 THEN NULL ELSE order'[t][i]
             /\ call'[t].op \in Searches =>
                  \A j \in (i + 1)..Len(order'[t]) : key'[order'[t][j]] # call'[t].key
             /\ call'[t].op = "write" =>
                  /\ Len(seen'[t]) = Len(order'[t]) - i
                  /\ \A k \in 1..Len(seen'[t]) :
                         seen'[t][k] = Pair(order[t][Len(order[t]) + 1 - k])'
      BY <3>2
    <3>4. head'[t] # NoList
      BY <2>2, PointerAssumption
    <3>. QED  BY <2>2, <3>3, <3>4 DEF Walking
  <2>7. \A u \in Threads \ {t} :
                /\ pc'[u] = pc[u] /\ call'[u] = call[u]
                /\ cur'[u] = cur[u] /\ seen'[u] = seen[u] /\ head'[u] = head[u]
    BY <1>1, <2>1 DEF GetList, TypeOK
  <2>8. head'[t] = head[t] \/ (order[t] = <<>> /\ head'[t] \in {NULL, NoList})
    BY <2>2, <2>4
  <2>9. UNCHANGED <<heap, order>>
    BY <1>1 DEF GetList
  <2>10. Whole(t)
    BY <1>1, <2>2, <2>7 DEF GetList, Whole, Broken
  <2>. QED  BY <2>3, <2>6, <2>7, <2>8, <2>9, <2>10, QuietInv
<1>2. CASE GetListFails(t)
  BY <1>2, EmptyResult, ReturnQuietly DEF GetListFails, Broken
<1>. QED  BY <1>1, <1>2

\* The place in the list of the entry a loop is at.
LEMMA AtEntry ==
    ASSUME Inv, NEW t \in Threads, pc[t] = "walk", cur[t] # NULL
    PROVE  \E i \in 1..Len(order[t]) :
             /\ cur[t] = order[t][i]
             /\ cur[t] \in live
             /\ key[cur[t]] \in Keys /\ value[cur[t]] \in Stored
             /\ next[cur[t]] = IF i - 1 = 0 THEN NULL ELSE order[t][i - 1]
             /\ call[t].op \in Searches =>
                  \A j \in (i + 1)..Len(order[t]) : key[order[t][j]] # call[t].key
             /\ call[t].op = "write" =>
                  /\ Len(seen[t]) = Len(order[t]) - i
                  /\ \A k \in 1..Len(seen[t]) :
                         seen[t][k] = Pair(order[t][Len(order[t]) + 1 - k])
<1>1. PICK i \in 0..Len(order[t]) :
             /\ cur[t] = IF i = 0 THEN NULL ELSE order[t][i]
             /\ call[t].op \in Searches =>
                  \A j \in (i + 1)..Len(order[t]) : key[order[t][j]] # call[t].key
             /\ call[t].op = "write" =>
                  /\ Len(seen[t]) = Len(order[t]) - i
                  /\ \A k \in 1..Len(seen[t]) :
                         seen[t][k] = Pair(order[t][Len(order[t]) + 1 - k])
  BY DEF Inv, WalksOwnList, Walking
<1>2. i \in 1..Len(order[t]) /\ cur[t] = order[t][i]
  BY <1>1 DEF Inv, TypeOK
<1>3. cur[t] \in live /\ cur[t] \in Nodes /\ Intact(t) = 1..Len(order[t])
  BY <1>2, OwnEntries, IntactAll DEF Broken
<1>4. key[cur[t]] \in Keys /\ value[cur[t]] \in Stored
  BY <1>3 DEF Inv, TypeOK, EntriesOwned
<1>5. next[cur[t]] = IF i - 1 = 0 THEN NULL ELSE order[t][i - 1]
  BY <1>2, <1>3 DEF Inv, AllLinked, Linked
<1>. QED  BY <1>1, <1>2, <1>3, <1>4, <1>5

LEMMA SearchNextInv ==
    ASSUME Inv, NEW t \in Threads, SearchNext(t)
    PROVE  Inv'
<1>1. PICK i \in 1..Len(order[t]) :
             /\ cur[t] = order[t][i]
             /\ next[cur[t]] = IF i - 1 = 0 THEN NULL ELSE order[t][i - 1]
             /\ \A j \in (i + 1)..Len(order[t]) : key[order[t][j]] # call[t].key
  BY AtEntry DEF SearchNext, Searching
<1>2. Len(order[t]) \in Nat
  BY DEF Inv, TypeOK
<1>3. TypeOK'
  BY DEF SearchNext, Inv, TypeOK, heap
<1>4. /\ cur'[t] = IF i - 1 = 0 THEN NULL ELSE order[t][i - 1]
      /\ i - 1 \in 0..Len(order[t])
      /\ \A j \in ((i - 1) + 1)..Len(order[t]) : key[order[t][j]] # call[t].key
      /\ call[t].op # "write"
  BY <1>1, <1>2 DEF SearchNext, Searching, Searches, Inv, TypeOK
<1>5. Walking(t)'
  BY <1>4 DEF SearchNext, Searching, Inv, WalksOwnList, Walking, heap, Requests, Searches, Empties
<1>6. Whole(t)
  BY DEF SearchNext, Searching, Whole, Broken, Inv, TypeOK
<1>. QED  BY <1>3, <1>5, <1>6, QuietInv DEF SearchNext, Searching, Inv, TypeOK

LEMMA WriteInv ==
    ASSUME Inv, NEW t \in Threads, WriteNext(t) \/ WriteDone(t)
    PROVE  Inv'
<1>1. CASE WriteNext(t)
  <2>1. PICK i \in 1..Len(order[t]) :
             /\ cur[t] = order[t][i]
             /\ key[cur[t]] \in Keys /\ value[cur[t]] \in Stored
             /\ next[cur[t]] = IF i - 1 = 0 THEN NULL ELSE order[t][i - 1]
             /\ Len(seen[t]) = Len(order[t]) - i
             /\ \A k \in 1..Len(seen[t]) :
                    seen[t][k] = Pair(order[t][Len(order[t]) + 1 - k])
    BY <1>1, AtEntry DEF WriteNext
  <2>2. Len(order[t]) \in Nat /\ seen[t] \in Seq(Pairs)
    BY DEF Inv, TypeOK
  <2>3. Pair(cur[t]) \in Pairs
    BY <2>1 DEF Pair, Pairs
  <2>4. /\ seen'[t] = Append(seen[t], Pair(cur[t]))
        /\ cur'[t] = IF i - 1 = 0 THEN NULL ELSE order[t][i - 1]
        /\ i - 1 \in 0..Len(order[t])
        /\ pc'[t] = "walk" /\ call'[t] = call[t] /\ call[t].op = "write"
        /\ head' = head /\ order' = order /\ key' = key /\ value' = value
    BY <1>1, <2>1, <2>2 DEF WriteNext, Inv, TypeOK, heap
  <2>5. TypeOK'
    BY <1>1, <2>2, <2>3, AppendProperties DEF WriteNext, Inv, TypeOK, heap
  <2>6. /\ Len(seen[t]) \in Nat
        /\ Len(Append(seen[t], Pair(cur[t]))) = Len(seen[t]) + 1
        /\ \A k \in 1..Len(seen[t]) : Append(seen[t], Pair(cur[t]))[k] = seen[t][k]
        /\ Append(seen[t], Pair(cur[t]))[Len(seen[t]) + 1] = Pair(cur[t])
    BY <2>2, <2>3, AppendProperties
  <2>7. /\ Len(seen[t]) \in Nat
        /\ Len(seen'[t]) = Len(seen[t]) + 1
        /\ \A k \in 1..Len(seen[t]) : seen'[t][k] = seen[t][k]
        /\ seen'[t][Len(seen[t]) + 1] = Pair(cur[t])
    BY <2>4, <2>6, Zenon
  <2>8. Len(seen'[t]) = Len(order[t]) - (i - 1)
    BY <2>1, <2>2, <2>7
  <2>9. ASSUME NEW k \in 1..Len(seen'[t])
        PROVE  seen'[t][k] = Pair(order[t][Len(order[t]) + 1 - k])
    <3>1. CASE k = Len(seen[t]) + 1
      <4>1. Len(order[t]) + 1 - k = i
        <5>1. i \in Nat /\ Len(order[t]) \in Nat /\ Len(seen[t]) = Len(order[t]) - i
          BY <2>1, <2>2
        <5>. QED  BY <3>1, <5>1
      <4>2. seen'[t][k] = Pair(cur[t])
        BY <2>7, <3>1
      <4>3. order[t][Len(order[t]) + 1 - k] = cur[t]
        BY <2>1, <4>1, Zenon
      <4>. QED  BY <4>2, <4>3, Zenon
    <3>2. CASE k # Len(seen[t]) + 1
      <4>1. k \in 1..Len(seen[t])
        BY <2>7, <3>2
      <4>2. seen'[t][k] = seen[t][k]
        BY <2>7, <4>1, Zenon
      <4>. QED  BY <2>1, <4>1, <4>2
    <3>. QED  BY <3>1, <3>2
  <2>10. Walking(t)'
    <3>1. \A k \in 1..Len(seen'[t]) :
             seen'[t][k] = Pair(order[t][Len(order[t]) + 1 - k])'
      BY <2>4, <2>9 DEF Pair
    <3>2. \E j \in 0..Len(order'[t]) :
             /\ cur'[t] = IF j = 0 THEN NULL ELSE order'[t][j]
             /\ Len(seen'[t]) = Len(order'[t]) - j
             /\ \A k \in 1..Len(seen'[t]) :
                    seen'[t][k] = Pair(order[t][Len(order[t]) + 1 - k])'
      BY <2>4, <2>8, <3>1
    <3>3. call'[t].op \notin Searches \cup Empties
      BY <2>4 DEF Searches, Empties
    <3>4. call'[t] \in Requests' /\ head'[t] # NoList
      BY <1>1, <2>4 DEF WriteNext, Inv, WalksOwnList, Walking, Requests
    <3>. QED  BY <2>4, <3>2, <3>3, <3>4 DEF Walking
  <2>11. Whole(t)
    BY <1>1 DEF WriteNext, Whole, Broken, Inv, TypeOK
  <2>. QED  BY <1>1, <2>5, <2>10, <2>11, QuietInv DEF WriteNext, Inv, TypeOK
<1>2. CASE WriteDone(t)
  <2>1. Result("ok", seen[t]) \in Results
    BY DEF Inv, TypeOK, Result, Results
  <2>. QED  BY <1>2, <2>1, ReturnQuietly DEF WriteDone, Broken
<1>. QED  BY <1>1, <1>2

\* The calls that return without changing the list after a search.
LEMMA LookupInv ==
    ASSUME Inv, NEW t \in Threads, GetMdc(t) \/ PutFails(t)
    PROVE  Inv'
<1>1. CASE PutFails(t)
  BY <1>1, EmptyResult, ReturnQuietly DEF PutFails, Searching, Broken
<1>2. CASE GetMdc(t)
  <2>1. CASE Return(t, Result("ok", <<>>))
    BY <1>2, <2>1, EmptyResult, ReturnQuietly DEF GetMdc, Searching, Broken
  <2>2. CASE Found(t) /\ Return(t, Result("ok", <<Pair(cur[t])>>))
    <3>1. key[cur[t]] \in Keys /\ value[cur[t]] \in Stored
      BY <1>2, <2>2, AtEntry DEF GetMdc, Searching, Found
    <3>2. <<Pair(cur[t])>> \in Seq(Pairs)
      BY <3>1 DEF Pair, Pairs
    <3>3. Result("ok", <<Pair(cur[t])>>) \in Results
      BY <3>2 DEF Result, Results
    <3>. QED  BY <1>2, <2>2, <3>3, ReturnQuietly DEF GetMdc, Searching, Broken
  <2>. QED  BY <1>2, <2>1, <2>2 DEF GetMdc
<1>. QED  BY <1>1, <1>2

\* The place of the entry that empty_list() is at: it is always the newest.
LEMMA EmptyAt ==
    ASSUME Inv, NEW t \in Threads, pc[t] = "empty"
    PROVE  /\ cur[t] = NULL <=> order[t] = <<>>
           /\ order[t] # <<>> => /\ Len(order[t]) \in 1..Len(order[t])
                                 /\ cur[t] = order[t][Len(order[t])]
<1>1. cur[t] = head[t] /\ head[t] # NoList /\ Linked(t) /\ order[t] \in Seq(Nodes)
  BY DEF Inv, TypeOK, WalksOwnList, Walking, AllLinked
<1>2. order[t] # <<>> => Len(order[t]) \in 1..Len(order[t])
  BY <1>1
<1>. QED  BY <1>1, <1>2, PointerAssumption DEF Linked

LEMMA RemoveInv ==
    ASSUME Inv, NEW t \in Threads, RmMdc(t) \/ EmptyNext(t) \/ EmptyDone(t)
    PROVE  Inv'
<1>1. ASSUME NEW i \in 1..Len(order[t]), Whole(t), RmFromList(t, order[t][i]),
             TypeOK', Walking(t)',
             \A u \in Threads \ {t} : call'[u] = call[u] /\ seen'[u] = seen[u]
      PROVE  Inv'
  <2>1. EntriesOwned' /\ KeysUnique' /\ OneFreed'
    BY <1>1, RmFromListInv, UnlinkInv
  <2>2. ASSUME NEW u \in Threads, u # t PROVE Walking(u)'
    <3>1. order'[u] = order[u] /\ head'[u] = head[u]
      BY <1>1, <2>2, RmFromListInv, UnlinkInv
    <3>2. \A j \in Intact(u) : order[u][j] # order[t][i] /\ order[u][j] \in Nodes
      BY <1>1, <2>2, OtherEntries DEF Whole
    <3>3. \A j \in Intact(u) :
               /\ key'[order[u][j]] = key[order[u][j]]
               /\ value'[order[u][j]] = value[order[u][j]]
      BY <1>1, <3>2, RmFromListInv, UnlinkInv
    <3>. QED  BY <1>1, <2>2, <3>1, <3>3, WalkingFrame DEF Inv, WalksOwnList, Whole
  <2>3. AllLinked'
    BY <1>1, RmFromListInv
  <2>. QED  BY <1>1, <2>1, <2>2, <2>3 DEF Inv, WalksOwnList
<1>2. CASE RmMdc(t)
  <2>1. CASE Found(t) /\ RmFromList(t, cur[t])
    <3>1. PICK i \in 1..Len(order[t]) : cur[t] = order[t][i]
      BY <1>2, <2>1, AtEntry DEF RmMdc, Searching, Found
    <3>2. Return(t, Result("ok", <<>>)) /\ Result("ok", <<>>) \in Results
      BY <1>2, EmptyResult DEF RmMdc
    <3>3. Ended(t, "idle") /\ Whole(t)
      BY <1>2, <3>2, ReturnInv DEF RmMdc, Searching, Broken, Inv
    <3>4. RmFromList(t, order[t][i])
      BY <2>1, <3>1
    <3>5. TypeOK'
      <4>1. TakenOut(t, order[t][i])
        BY <3>3, <3>4, RmFromListInv
      <4>. QED  BY <3>3, <3>4, <4>1, UnlinkInv, RmFromListInv DEF TypeOK, Ended
    <3>. QED  BY <1>1, <3>3, <3>4, <3>5 DEF Ended
  <2>2. CASE UNCHANGED <<head, heap, order>>
    BY <1>2, <2>2, EmptyResult, ReturnQuietly DEF RmMdc, Searching, Broken
  <2>. QED  BY <1>2, <2>1, <2>2 DEF RmMdc
<1>3. CASE EmptyNext(t)
  <2> DEFINE i == Len(order[t])
  <2>0. Whole(t)
    BY <1>3 DEF EmptyNext, Whole, Broken, Inv, TypeOK
  <2>1. /\ i \in 1..Len(order[t])
        /\ cur[t] = order[t][i]
        /\ RmFromList(t, order[t][i])
        /\ cur[t] = head[t]
        /\ head[t] # NoList
    BY <1>3, EmptyAt DEF EmptyNext, Inv, WalksOwnList, Walking
  <2>2. TypeOK'
    <3>1. TakenOut(t, order[t][i])
      BY <2>0, <2>1, RmFromListInv
    <3>2. /\ head' \in [Threads -> Nodes \cup {NULL, NoList}]
          /\ prev' \in [Nodes -> Nodes \cup {NULL}]
          /\ next' \in [Nodes -> Nodes \cup {NULL}]
      BY <2>0, <2>1, RmFromListInv
    <3>3. /\ order' \in [Threads -> Seq(Nodes)]
          /\ live' \subseteq Nodes
          /\ key' \in [Nodes -> Keys \cup {NULL}]
          /\ value' \in [Nodes -> Stored \cup {NULL}]
      BY <2>0, <2>1, <3>1, UnlinkInv
    <3>4. next[cur[t]] \in Nodes \cup {NULL}
      BY <1>3 DEF EmptyNext, Inv, TypeOK
    <3>. QED  BY <1>3, <3>2, <3>3, <3>4 DEF EmptyNext, Inv, TypeOK
  <2>3. cur'[t] = next[cur[t]] /\ head'[t] = next[cur[t]] /\ next[cur[t]] # NoList
    BY <1>3, <2>1, PointerAssumption DEF EmptyNext, RmFromList, Inv, TypeOK
  <2>4. Walking(t)'
    BY <1>3, <2>3 DEF EmptyNext, Inv, WalksOwnList, Walking, Requests, Searches, Empties
  <2>. QED  BY <1>1, <1>3, <2>0, <2>1, <2>2, <2>4 DEF EmptyNext, Inv, TypeOK
<1>4. CASE EmptyDone(t)
  <2>1. order[t] = <<>> /\ head[t] = NULL
    BY <1>4, EmptyAt DEF EmptyDone, Inv, WalksOwnList, Walking
  <2>2. Return(t, Result("ok", <<>>)) /\ Result("ok", <<>>) \in Results
    BY <1>4, EmptyResult DEF EmptyDone
  <2>3. /\ head'[t] \in {NULL, NoList}
        /\ \A u \in Threads \ {t} : head'[u] = head[u]
        /\ head' \in [Threads -> Nodes \cup {NULL, NoList}]
    BY <1>4, <2>1 DEF EmptyDone, Inv, TypeOK
  <2>4. UNCHANGED <<heap, order>>
    BY <1>4 DEF EmptyDone
  <2>5. Ended(t, "idle") /\ Whole(t)
    BY <1>4, <2>2, ReturnInv DEF EmptyDone, Broken, Inv
  <2>6. TypeOK'
    BY <2>3, <2>4, <2>5 DEF Inv, TypeOK, heap, Ended
  <2>. QED  BY <2>1, <2>3, <2>4, <2>5, <2>6, QuietInv DEF Ended
<1>. QED  BY <1>2, <1>3, <1>4

LEMMA PutReplaceInv ==
    ASSUME Inv, NEW t \in Threads, PutReplace(t)
    PROVE  Inv'
<1>1. /\ value' = [value EXCEPT ![cur[t]] = Escaped(call[t].value)]
      /\ Return(t, Result("ok", <<>>)) /\ Result("ok", <<>>) \in Results
      /\ UNCHANGED <<live, head, prev, next, key, order>>
  BY EmptyResult DEF PutReplace
<1>2. cur[t] \in Nodes /\ Escaped(call[t].value) \in Stored
  <2>1. call[t] \in Requests /\ call[t].op = "add" /\ cur[t] # NULL
    BY DEF PutReplace, Searching, Found, Inv, WalksOwnList, Walking
  <2>2. call[t].value \in Values
    BY <2>1 DEF Requests, Empties
  <2>. QED  BY <2>1, <2>2 DEF Stored, Inv, TypeOK
<1>3. value' \in [Nodes -> Stored \cup {NULL}] /\ \A n \in Nodes \ {cur[t]} : value'[n] = value[n]
  BY <1>1, <1>2 DEF Inv, TypeOK
<1>4. Ended(t, "idle") /\ Whole(t)
  BY <1>1, ReturnInv DEF PutReplace, Searching, Broken, Inv
<1>5. TypeOK'
  BY <1>1, <1>3, <1>4 DEF Inv, TypeOK, Ended
<1>6. \A u \in Threads : Intact(u)' = Intact(u) /\ (Broken(u)' <=> Broken(u))
  <2>1. Intact(t)' = Intact(t) /\ (Broken(t)' <=> Broken(t))
    BY <1>1, <1>4 DEF Whole, Intact
  <2>2. ASSUME NEW u \in Threads \ {t} PROVE Intact(u)' = Intact(u) /\ (Broken(u)' <=> Broken(u))
    BY <1>1, <1>4, IntactFrame DEF Whole
  <2>. QED  BY <2>1, <2>2
<1>7. EntriesOwned'
  <2>1. value'[cur[t]] # NULL
    BY <1>1, <1>2, StringAssumption DEF Inv, TypeOK
  <2>2. \A n \in live' : key'[n] # NULL /\ value'[n] # NULL
    BY <1>1, <1>3, <2>1 DEF Inv, EntriesOwned, TypeOK
  <2>. QED  BY <1>1, <1>6, <2>2 DEF Inv, EntriesOwned
<1>8. AllLinked' /\ KeysUnique' /\ OneFreed'
  BY <1>1, <1>6 DEF Inv, AllLinked, Linked, KeysUnique, OneFreed
<1>9. WalksOwnList'
  <2> SUFFICES ASSUME NEW u \in Threads, u # t PROVE Walking(u)'
    BY <1>4 DEF WalksOwnList, Ended
  <2>1. PICK i \in 1..Len(order[t]) : cur[t] = order[t][i]
    BY AtEntry DEF PutReplace, Searching, Found
  <2>2. \A j \in Intact(u) : order[u][j] # cur[t] /\ order[u][j] \in Nodes
    BY <1>4, <2>1, OtherEntries DEF Whole
  <2>3. \A j \in Intact(u) :
               /\ key'[order[u][j]] = key[order[u][j]]
               /\ value'[order[u][j]] = value[order[u][j]]
    BY <1>1, <1>3, <2>2
  <2>. QED  BY <1>1, <1>4, <2>3, WalkingFrame DEF Inv, WalksOwnList, Ended
<1>. QED  BY <1>5, <1>7, <1>8, <1>9 DEF Inv

\* The entries that are intact are allocated: a new one is none of them.
LEMMA IntactLive ==
    ASSUME Inv, NEW u \in Threads, NEW j \in Intact(u)
    PROVE  j \in 1..Len(order[u]) /\ order[u][j] \in live /\ order[u][j] \in Nodes
<1>1. j \in 1..Len(order[u]) /\ order[u] \in Seq(Nodes)
  BY DEF Intact, Inv, TypeOK
<1>2. order[u][j] \in Nodes
  BY <1>1
<1>. QED  BY <1>1, <1>2 DEF Inv, EntriesOwned

\* add_to_list() given a new entry links it in front of the others, and leaves the
\* lists of the other threads alone.
LEMMA AddToListInv ==
    ASSUME Inv, NEW t \in Threads, ~Broken(t), head[t] # NoList,
           NEW n \in Nodes, n \notin live, AddToList(t, n),
           \A u \in Threads \ {t} : pc'[u] = pc[u] /\ cur'[u] = cur[u]
    PROVE  /\ order'[t] \in Seq(Nodes)
           /\ Len(order'[t]) = Len(order[t]) + 1
           /\ order'[t][Len(order'[t])] = n
           /\ \A j \in 1..Len(order[t]) : order'[t][j] = order[t][j]
           /\ \A j \in 1..Len(order'[t]) : j = Len(order'[t]) \/ j \in 1..Len(order[t])
           /\ \A u \in Threads \ {t} :
                  /\ order'[u] = order[u] /\ head'[u] = head[u]
                  /\ Intact(u)' = Intact(u) /\ (Broken(u)' <=> Broken(u))
           /\ order' \in [Threads -> Seq(Nodes)]
           /\ head' \in [Threads -> Nodes \cup {NULL, NoList}]
           /\ prev' \in [Nodes -> Nodes \cup {NULL}]
           /\ next' \in [Nodes -> Nodes \cup {NULL}]
           /\ AllLinked'
<1> DEFINE o == order[t]
           p == order'[t]
<1>1. /\ TypeOK /\ Linked(t)
      /\ o \in Seq(Nodes) /\ Len(o) \in Nat
      /\ \A j \in 1..Len(o) : o[j] \in live /\ o[j] \in Nodes /\ o[j] # n
      /\ \A j, k \in 1..Len(o) : o[j] = o[k] => j = k
      /\ Intact(t) = 1..Len(o)
  BY OwnEntries, IntactAll DEF Inv, AllLinked
<1>2. /\ p \in Seq(Nodes)
      /\ Len(p) = Len(o) + 1
      /\ p[Len(p)] = n
      /\ \A j \in 1..Len(o) : p[j] = o[j]
      /\ \A u \in Threads \ {t} : order'[u] = order[u]
      /\ order' \in [Threads -> Seq(Nodes)]
  <2>1. p = Append(o, n) /\ order' = [order EXCEPT ![t] = Append(o, n)]
    BY <1>1 DEF AddToList, TypeOK
  <2>2. /\ p \in Seq(Nodes)
        /\ Len(p) = Len(o) + 1
        /\ p[Len(p)] = n
        /\ \A j \in 1..Len(o) : p[j] = o[j]
    BY <1>1, <2>1, AppendProperties
  <2>. QED  BY <1>1, <2>1, <2>2 DEF TypeOK
<1>3. \A j \in 1..Len(p) : j = Len(p) \/ j \in 1..Len(o)
  BY <1>1, <1>2
<1>4. /\ head[t] \in Nodes \cup {NULL} /\ head[t] # n
      /\ o # <<>> => Len(o) \in 1..Len(o) /\ head[t] = o[Len(o)]
      /\ o = <<>> => head[t] = NULL
  <2>1. o # <<>> => Len(o) \in 1..Len(o)
    BY <1>1
  <2>. QED  BY <1>1, <2>1, PointerAssumption DEF Linked, TypeOK
<1>5. /\ head' \in [Threads -> Nodes \cup {NULL, NoList}]
      /\ prev' \in [Nodes -> Nodes \cup {NULL}]
      /\ next' \in [Nodes -> Nodes \cup {NULL}]
  BY <1>1, <1>4 DEF AddToList, TypeOK
<1>6. /\ head'[t] = n /\ \A u \in Threads \ {t} : head'[u] = head[u]
      /\ next'[n] = head[t] /\ \A m \in Nodes \ {n} : next'[m] = next[m]
      /\ prev'[n] = NULL
      /\ \A m \in Nodes \ {n} : prev'[m] = IF m = head[t] THEN n ELSE prev[m]
  BY <1>1, <1>4 DEF AddToList, TypeOK
<1>7. \A u \in Threads \ {t} : Intact(u)' = Intact(u) /\ (Broken(u)' <=> Broken(u))
  BY <1>2, IntactFrame
<1>8. ASSUME NEW u \in Threads, u # t PROVE Linked(u)'
  <2>1. \A j \in Intact(u) : order[u][j] \in Nodes \ {n} /\ order[u][j] # head[t]
    <3> SUFFICES ASSUME NEW j \in Intact(u)
                 PROVE  order[u][j] \in Nodes \ {n} /\ order[u][j] # head[t]
      OBVIOUS
    <3>1. order[u][j] \in Nodes \ {n} /\ \A k \in 1..Len(o) : order[u][j] # o[k]
      BY <1>8, OtherEntries
    <3>. QED  BY <1>4, <3>1, PointerAssumption
  <2>2. \A j \in Intact(u) :
              /\ next'[order[u][j]] = next[order[u][j]]
              /\ prev'[order[u][j]] = prev[order[u][j]]
    BY <1>6, <2>1
  <2>3. Linked(u) /\ order'[u] = order[u] /\ head'[u] = head[u] /\ Intact(u)' = Intact(u)
    BY <1>2, <1>6, <1>7, <1>8 DEF Inv, AllLinked
  <2>. QED  BY <2>2, <2>3 DEF Linked
<1>9. Linked(t)'
  <2>1. p # <<>> /\ head'[t] = p[Len(p)]
    BY <1>1, <1>2, <1>6
  <2>2. ASSUME NEW j \in 1..Len(p)
        PROVE  /\ next'[p[j]] = IF j = 1 THEN NULL ELSE p[j - 1]
               /\ prev'[p[j]] = IF j = Len(p) THEN NULL ELSE p[j + 1]
    <3>1. CASE j = Len(p)
      <4>1. p[j] = n /\ next'[p[j]] = head[t] /\ prev'[p[j]] = NULL
        BY <1>2, <1>6, <3>1
      <4>2. CASE Len(o) = 0
        <5>1. o = <<>> /\ j = 1
          BY <1>1, <1>2, <3>1, <4>2
        <5>. QED  BY <1>4, <3>1, <4>1, <5>1
      <4>3. CASE Len(o) # 0
        <5>1. o # <<>> /\ j - 1 = Len(o) /\ j - 1 \in 1..Len(o) /\ j # 1
          BY <1>1, <1>2, <3>1, <4>3
        <5>. QED  BY <1>2, <1>4, <3>1, <4>1, <5>1
      <4>. QED  BY <4>2, <4>3
    <3>2. CASE j # Len(p)
      <4>1. /\ j \in 1..Len(o) /\ p[j] = o[j] /\ o[j] \in Nodes \ {n}
            /\ o # <<>> /\ Len(o) \in 1..Len(o)
        BY <1>1, <1>2, <1>3, <3>2
      <4>2. /\ next[o[j]] = IF j = 1 THEN NULL ELSE o[j - 1]
            /\ prev[o[j]] = IF j = Len(o) THEN NULL ELSE o[j + 1]
            /\ head[t] = o[Len(o)]
        BY <1>1, <4>1 DEF Linked
      <4>3. j # 1 => p[j - 1] = o[j - 1]
        BY <1>1, <1>2, <4>1
      <4>4. next'[p[j]] = IF j = 1 THEN NULL ELSE p[j - 1]
        BY <1>6, <4>1, <4>2, <4>3
      <4>5. o[j] = head[t] <=> j = Len(o)
        BY <1>1, <4>1, <4>2
      <4>6. CASE j = Len(o)
        BY <1>2, <1>6, <3>2, <4>1, <4>4, <4>5, <4>6
      <4>7. CASE j # Len(o)
        <5>1. j + 1 \in 1..Len(o) /\ p[j + 1] = o[j + 1]
          BY <1>1, <1>2, <4>1, <4>7
        <5>. QED  BY <1>6, <3>2, <4>1, <4>2, <4>4, <4>5, <4>7, <5>1
      <4>. QED  BY <4>6, <4>7
    <3>. QED  BY <3>1, <3>2
  <2>3. \A j \in Intact(t)' : j \in 1..Len(p)
    BY DEF Intact
  <2> HIDE DEF o
  <2>. QED  BY <2>1, <2>2, <2>3 DEF Linked
<1>10. AllLinked'
  BY <1>8, <1>9 DEF AllLinked
<1> HIDE DEF o
<1>. QED  BY <1>2, <1>3, <1>5, <1>6, <1>7, <1>10 DEF o

LEMMA PutNewInv ==
    ASSUME Inv, NEW t \in Threads, NEW n \in Nodes, PutNew(t, n)
    PROVE  Inv'
<1> DEFINE o == order[t]
           p == order'[t]
<1>1. /\ TypeOK /\ Len(o) \in Nat
      /\ head[t] # NoList /\ ~Broken(t)
      /\ n \notin live
      /\ \A u \in Threads : \A j \in Intact(u) : order[u][j] \in Nodes /\ order[u][j] # n
      /\ Intact(t) = 1..Len(o)
  <2>1. /\ TypeOK /\ Len(o) \in Nat
        /\ head[t] # NoList /\ ~Broken(t)
        /\ n \notin live
    BY DEF PutNew, Searching, Broken, Inv, TypeOK, WalksOwnList, Walking
  <2>. QED  BY <2>1, IntactLive, IntactAll
<1>2. /\ key' = [key EXCEPT ![n] = call[t].key]
      /\ value' = [value EXCEPT ![n] = Escaped(call[t].value)]
      /\ live' = live \cup {n}
      /\ Return(t, Result("ok", <<>>)) /\ Result("ok", <<>>) \in Results
      /\ AddToList(t, n)
  BY EmptyResult DEF PutNew
<1>3. call[t].key \in Keys /\ Escaped(call[t].value) \in Stored
  <2>1. call[t] \in Requests /\ call[t].op = "add"
    BY DEF PutNew, Searching, Inv, WalksOwnList, Walking
  <2>2. call[t].key \in Keys /\ call[t].value \in Values
    BY <2>1 DEF Requests, Empties
  <2>. QED  BY <2>2 DEF Stored
<1>4. Ended(t, "idle") /\ Whole(t)
  BY <1>1, <1>2, ReturnInv
<1>5. /\ Len(p) = Len(o) + 1
      /\ p[Len(p)] = n
      /\ \A j \in 1..Len(o) : p[j] = o[j]
      /\ \A j \in 1..Len(p) : j = Len(p) \/ j \in 1..Len(o)
      /\ \A u \in Threads \ {t} :
             /\ order'[u] = order[u] /\ head'[u] = head[u]
             /\ Intact(u)' = Intact(u) /\ (Broken(u)' <=> Broken(u))
      /\ order' \in [Threads -> Seq(Nodes)]
      /\ head' \in [Threads -> Nodes \cup {NULL, NoList}]
      /\ prev' \in [Nodes -> Nodes \cup {NULL}]
      /\ next' \in [Nodes -> Nodes \cup {NULL}]
      /\ AllLinked'
  BY <1>1, <1>2, <1>4, AddToListInv DEF Whole
<1>6. TypeOK'
  <2>1. /\ live' \subseteq Nodes
        /\ key' \in [Nodes -> Keys \cup {NULL}]
        /\ value' \in [Nodes -> Stored \cup {NULL}]
    BY <1>1, <1>2, <1>3 DEF TypeOK
  <2>. QED  BY <1>4, <1>5, <2>1 DEF TypeOK, Ended
<1>7. /\ key'[n] = call[t].key /\ value'[n] # NULL /\ key'[n] # NULL
      /\ \A m \in Nodes \ {n} : key'[m] = key[m] /\ value'[m] = value[m]
  BY <1>1, <1>2, <1>3, StringAssumption DEF TypeOK
<1>8. Intact(t)' = 1..Len(p)
  BY <1>4 DEF Whole, Intact
<1>9. \A w \in Threads : \A l \in Intact(w)' :
          \/ w = t /\ l = Len(p) /\ order'[w][l] = n
          \/ l \in Intact(w) /\ order'[w][l] = order[w][l] /\ order'[w][l] # n
  <2> SUFFICES ASSUME NEW w \in Threads, NEW l \in Intact(w)'
               PROVE  \/ w = t /\ l = Len(p) /\ order'[w][l] = n
                      \/ l \in Intact(w) /\ order'[w][l] = order[w][l] /\ order'[w][l] # n
    OBVIOUS
  <2>1. CASE w = t
    <3>1. l \in 1..Len(p)
      BY <1>8, <2>1
    <3>2. CASE l = Len(p)
      BY <1>5, <2>1, <3>2
    <3>3. CASE l \in 1..Len(o)
      <4>1. l \in Intact(t) /\ p[l] = o[l]
        BY <1>1, <1>5, <3>3
      <4>. QED  BY <1>1, <2>1, <4>1
    <3>. QED  BY <1>5, <3>1, <3>2, <3>3
  <2>2. CASE w # t
    BY <1>1, <1>5, <2>2
  <2>. QED  BY <2>1, <2>2
<1>10. EntriesOwned'
  <2>1. ASSUME NEW u \in Threads, NEW v \in Threads,
               NEW j \in Intact(u)', NEW k \in Intact(v)', order'[u][j] = order'[v][k]
        PROVE  u = v /\ j = k
    <3>1. CASE order'[u][j] = n
      <4>1. u = t /\ j = Len(p)
        BY <1>9, <3>1
      <4>2. v = t /\ k = Len(p)
        BY <1>9, <2>1, <3>1
      <4>. QED  BY <4>1, <4>2
    <3>2. CASE order'[u][j] # n
      <4>1. /\ j \in Intact(u) /\ order'[u][j] = order[u][j]
            /\ k \in Intact(v) /\ order'[v][k] = order[v][k]
        BY <1>9, <2>1, <3>2
      <4>2. order[u][j] = order[v][k]
        BY <2>1, <4>1
      <4>. QED  BY <4>1, <4>2 DEF Inv, EntriesOwned
    <3>. QED  BY <3>1, <3>2
  <2>2. ASSUME NEW m \in Nodes
        PROVE  m \in live' <=> \E u \in Threads : \E j \in Intact(u)' : order'[u][j] = m
    <3>1. m \in live <=> \E u \in Threads : \E j \in Intact(u) : order[u][j] = m
      BY DEF Inv, EntriesOwned
    <3>2. CASE m = n
      <4>1. Len(p) \in Intact(t)'
        BY <1>1, <1>5, <1>8
      <4>. QED  BY <1>2, <1>5, <3>2, <4>1
    <3>3. CASE m # n
      <4>1. \A u \in Threads : \A j \in Intact(u) : j \in Intact(u)' /\ order'[u][j] = order[u][j]
        <5>1. \A j \in 1..Len(o) : j \in 1..Len(p)
          BY <1>1, <1>5
        <5>. QED  BY <1>1, <1>5, <1>8, <5>1
      <4>. QED  BY <1>2, <1>9, <3>1, <3>3, <4>1
    <3>. QED  BY <3>2, <3>3
  <2>3. \A m \in live' : key'[m] # NULL /\ value'[m] # NULL
    BY <1>1, <1>2, <1>7 DEF Inv, EntriesOwned, TypeOK
  <2>. QED  BY <2>1, <2>2, <2>3 DEF EntriesOwned
<1>11. KeysUnique'
  <2>1. \A j \in 1..Len(o) : key[o[j]] # call[t].key
    <3>1. PICK i \in 0..Len(o) :
             /\ cur[t] = IF i = 0 THEN NULL ELSE o[i]
             /\ \A j \in (i + 1)..Len(o) : key[o[j]] # call[t].key
      BY DEF PutNew, Searching, Inv, WalksOwnList, Walking
    <3>2. i = 0
      <4>1. i # 0 => o[i] \in Nodes
        BY <1>1, <3>1
      <4>. QED  BY <3>1, <4>1, PointerAssumption DEF PutNew
    <3>. QED  BY <1>1, <3>1, <3>2
  <2>2. ASSUME NEW u \in Threads, NEW j \in Intact(u)', NEW k \in Intact(u)',
               key'[order'[u][j]] = key'[order'[u][k]]
        PROVE  j = k
    <3>1. \A l \in Intact(u) : order[u][l] \in Nodes \ {n} /\ key'[order[u][l]] = key[order[u][l]]
      BY <1>1, <1>7
    <3>2. \A l \in Intact(u)' :
              \/ u = t /\ l = Len(p) /\ key'[order'[u][l]] = call[t].key
              \/ /\ l \in Intact(u) /\ key'[order'[u][l]] = key[order[u][l]]
                 /\ u = t => key[order[u][l]] # call[t].key
      BY <1>1, <1>7, <1>9, <2>1, <3>1
    <3>. QED  BY <2>2, <3>2 DEF Inv, KeysUnique
  <2>. QED  BY <2>2 DEF KeysUnique
<1>12. OneFreed'
  BY <1>4, <1>5 DEF Whole, Inv, OneFreed
<1>13. WalksOwnList'
  <2> SUFFICES ASSUME NEW u \in Threads, u # t PROVE Walking(u)'
    BY <1>4 DEF WalksOwnList, Ended
  <2>1. \A j \in Intact(u) :
               /\ key'[order[u][j]] = key[order[u][j]]
               /\ value'[order[u][j]] = value[order[u][j]]
    BY <1>1, <1>7
  <2>. QED  BY <1>4, <1>5, <2>1, WalkingFrame DEF Inv, WalksOwnList, Ended
<1>. QED  BY <1>5, <1>6, <1>10, <1>11, <1>12, <1>13 DEF Inv

\* A put that fails breaks the list of its own thread, by one entry, and no other.
LEMMA PutReplaceFailsInv ==
    ASSUME Inv, NEW t \in Threads, PutReplaceFails(t)
    PROVE  Inv'
<1>1. PICK i \in 1..Len(order[t]) : cur[t] = order[t][i]
  BY AtEntry DEF PutReplaceFails, Searching, Found
<1> DEFINE n == order[t][i]
<1>2. MdcDestroy(n) /\ UNCHANGED <<head, prev, next, order>> /\ ~Broken(t)
  BY <1>1 DEF PutReplaceFails, Searching, Broken
<1>3. /\ TypeOK /\ Len(order[t]) \in Nat /\ n \in live /\ n \in Nodes
      /\ \A j \in 1..Len(order[t]) : order[t][j] = n => j = i
      /\ Intact(t) = 1..Len(order[t])
  BY <1>2, OwnEntries, IntactAll DEF Inv
<1>4. Ended(t, "broken") /\ cur'[t] = n /\ Broken(t)'
  BY <1>1, <1>3, BreakInv DEF PutReplaceFails
<1>5. /\ live' = live \ {n}
      /\ live' \subseteq Nodes
      /\ key' \in [Nodes -> Keys \cup {NULL}]
      /\ value' \in [Nodes -> Stored \cup {NULL}]
      /\ \A m \in Nodes \ {n} : key'[m] = key[m] /\ value'[m] = value[m]
  BY <1>2, <1>3 DEF MdcDestroy, Freed, TypeOK
<1>6. TypeOK'
  BY <1>2, <1>3, <1>4, <1>5 DEF TypeOK, Ended
<1>7. /\ Intact(t)' = (1..Len(order[t])) \ {i}
      /\ \A u \in Threads \ {t} : Intact(u)' = Intact(u) /\ (Broken(u)' <=> Broken(u))
  <2>1. Intact(t)' = (1..Len(order[t])) \ {i}
    BY <1>2, <1>3, <1>4 DEF Intact
  <2>2. ASSUME NEW u \in Threads \ {t} PROVE Intact(u)' = Intact(u) /\ (Broken(u)' <=> Broken(u))
    BY <1>2, <1>4, IntactFrame DEF Ended
  <2>. QED  BY <2>1, <2>2
<1>8. \A u \in Threads : \A j \in Intact(u) :
          /\ order[u][j] \in Nodes
          /\ j \in Intact(u)' <=> order[u][j] # n
  <2> SUFFICES ASSUME NEW u \in Threads, NEW j \in Intact(u)
               PROVE  order[u][j] \in Nodes /\ (j \in Intact(u)' <=> order[u][j] # n)
    OBVIOUS
  <2>1. CASE u = t
    BY <1>3, <1>7, <2>1, IntactLive
  <2>2. CASE u # t
    BY <1>2, <1>7, <2>2, OtherEntries
  <2>. QED  BY <2>1, <2>2
<1>9. \A u \in Threads : Intact(u)' \subseteq Intact(u)
  BY <1>3, <1>7
<1>10. EntriesOwned'
  <2>1. ASSUME NEW u \in Threads, NEW v \in Threads,
               NEW j \in Intact(u)', NEW k \in Intact(v)', order'[u][j] = order'[v][k]
        PROVE  u = v /\ j = k
    BY <1>2, <1>9, <2>1 DEF Inv, EntriesOwned
  <2>2. ASSUME NEW m \in Nodes
        PROVE  m \in live' <=> \E u \in Threads : \E j \in Intact(u)' : order'[u][j] = m
    <3>1. m \in live <=> \E u \in Threads : \E j \in Intact(u) : order[u][j] = m
      BY DEF Inv, EntriesOwned
    <3>. QED  BY <1>2, <1>5, <1>8, <1>9, <3>1
  <2>3. ASSUME NEW m \in live' PROVE key'[m] # NULL /\ value'[m] # NULL
    BY <1>3, <1>5 DEF Inv, EntriesOwned
  <2>. QED  BY <2>1, <2>2, <2>3 DEF EntriesOwned
<1>11. AllLinked'
  BY <1>2, <1>9 DEF Inv, AllLinked, Linked
<1>12. OneFreed'
  <2> SUFFICES ASSUME NEW u \in Threads, Broken(u)'
               PROVE  \E k \in 1..Len(order'[u]) : Intact(u)' = (1..Len(order'[u])) \ {k}
    BY DEF OneFreed
  <2>1. CASE u = t
    BY <1>2, <1>7, <2>1
  <2>2. CASE u # t
    BY <1>2, <1>7, <2>2 DEF Inv, OneFreed
  <2>. QED  BY <2>1, <2>2
<1>13. KeysUnique'
  <2>1. \A u \in Threads : \A j \in Intact(u)' :
            j \in Intact(u) /\ key'[order'[u][j]] = key[order[u][j]]
    BY <1>2, <1>5, <1>8, <1>9
  <2>. QED  BY <2>1 DEF Inv, KeysUnique
<1>14. ASSUME NEW u \in Threads, u # t PROVE Walking(u)'
  <2>1. \A j \in Intact(u) :
               /\ key'[order[u][j]] = key[order[u][j]]
               /\ value'[order[u][j]] = value[order[u][j]]
    BY <1>5, <1>7, <1>8, <1>14
  <2>. QED  BY <1>2, <1>4, <1>14, <2>1, WalkingFrame DEF Inv, WalksOwnList, Ended
<1>. QED  BY <1>4, <1>6, <1>10, <1>11, <1>12, <1>13, <1>14 DEF Inv, WalksOwnList, Ended

LEMMA PutNewFailsInv ==
    ASSUME Inv, NEW t \in Threads, NEW n \in Nodes, PutNewFails(t, n)
    PROVE  Inv'
<1> DEFINE o == order[t]
           p == order'[t]
<1>1. /\ TypeOK /\ Len(o) \in Nat
      /\ head[t] # NoList /\ ~Broken(t)
      /\ n \notin live /\ AddToList(t, n)
      /\ UNCHANGED <<live, key, value>>
      /\ \A u \in Threads : \A j \in Intact(u) : order[u][j] \in Nodes /\ order[u][j] # n
      /\ Intact(t) = 1..Len(o)
  <2>1. /\ TypeOK /\ Len(o) \in Nat
        /\ head[t] # NoList /\ ~Broken(t)
        /\ n \notin live /\ AddToList(t, n)
        /\ UNCHANGED <<live, key, value>>
    BY DEF PutNewFails, Searching, Broken, Inv, TypeOK, WalksOwnList, Walking
  <2>. QED  BY <2>1, IntactLive, IntactAll
<1>2. Ended(t, "broken") /\ cur'[t] = n /\ Broken(t)'
  BY <1>1, BreakInv DEF PutNewFails
<1>3. /\ Len(p) = Len(o) + 1
      /\ p[Len(p)] = n
      /\ \A j \in 1..Len(o) : p[j] = o[j]
      /\ \A j \in 1..Len(p) : j = Len(p) \/ j \in 1..Len(o)
      /\ \A u \in Threads \ {t} :
             /\ order'[u] = order[u] /\ head'[u] = head[u]
             /\ Intact(u)' = Intact(u) /\ (Broken(u)' <=> Broken(u))
      /\ order' \in [Threads -> Seq(Nodes)]
      /\ head' \in [Threads -> Nodes \cup {NULL, NoList}]
      /\ prev' \in [Nodes -> Nodes \cup {NULL}]
      /\ next' \in [Nodes -> Nodes \cup {NULL}]
      /\ AllLinked'
  BY <1>1, <1>2, AddToListInv DEF Ended
<1>4. TypeOK'
  BY <1>1, <1>2, <1>3 DEF TypeOK, Ended
<1>5. Intact(t)' = 1..Len(o) /\ Intact(t)' = (1..Len(p)) \ {Len(p)} /\ Len(p) \in 1..Len(p)
  <2>1. Intact(t)' = {j \in 1..Len(p) : p[j] # n}
    BY <1>2 DEF Intact
  <2>2. \A j \in 1..Len(p) : p[j] # n <=> j # Len(p)
    BY <1>1, <1>3
  <2>3. Intact(t)' = (1..Len(p)) \ {Len(p)}
    BY <2>1, <2>2
  <2>. QED  BY <1>1, <1>3, <2>3
<1>6. \A u \in Threads : Intact(u)' = Intact(u) /\ \A j \in Intact(u) : order'[u][j] = order[u][j]
  BY <1>1, <1>3, <1>5
<1>7. EntriesOwned' /\ KeysUnique'
  BY <1>1, <1>6 DEF Inv, EntriesOwned, KeysUnique
<1>8. OneFreed'
  <2> SUFFICES ASSUME NEW u \in Threads, Broken(u)'
               PROVE  \E k \in 1..Len(order'[u]) : Intact(u)' = (1..Len(order'[u])) \ {k}
    BY DEF OneFreed
  <2>1. CASE u = t
    BY <1>5, <2>1
  <2>2. CASE u # t
    BY <1>3, <2>2 DEF Inv, OneFreed
  <2>. QED  BY <2>1, <2>2
<1>9. ASSUME NEW u \in Threads, u # t PROVE Walking(u)'
  BY <1>1, <1>2, <1>3, <1>9, WalkingFrame DEF Inv, WalksOwnList, Ended
<1>. QED  BY <1>2, <1>3, <1>4, <1>7, <1>8, <1>9 DEF Inv, WalksOwnList, Ended

\* Every step preserves the invariant.
LEMMA NextInv == ASSUME Inv, [Next]_vars PROVE Inv'
<1>1. CASE UNCHANGED vars
  <2>1. UNCHANGED <<head, live, prev, next, key, value, pc, call, cur, seen, ret, order>>
    BY <1>1 DEF vars, heap
  <2>2. \A u \in Threads : Intact(u)' = Intact(u) /\ (Broken(u)' <=> Broken(u))
    BY <2>1 DEF Intact, Broken
  <2>3. TypeOK' /\ EntriesOwned' /\ KeysUnique' /\ OneFreed'
    <3>1. TypeOK'
      BY <2>1 DEF Inv, TypeOK
    <3>. QED  BY <2>1, <2>2, <3>1 DEF Inv, EntriesOwned, KeysUnique, OneFreed
  <2>4. AllLinked'
    BY <2>1, <2>2 DEF Inv, AllLinked, Linked
  <2>5. WalksOwnList'
    BY <2>1, WalkingFrame DEF Inv, WalksOwnList
  <2>. QED  BY <2>3, <2>4, <2>5 DEF Inv
<1>2. ASSUME NEW t \in Threads, Step(t) PROVE Inv'
  <2>1. CASE GetList(t) \/ GetListFails(t)
    BY <2>1, GetListInv
  <2>2. CASE SearchNext(t)
    BY <2>2, SearchNextInv
  <2>3. CASE GetMdc(t) \/ PutFails(t)
    BY <2>3, LookupInv
  <2>4. CASE PutReplace(t) \/ PutReplaceFails(t)
    BY <2>4, PutReplaceInv, PutReplaceFailsInv
  <2>5. CASE \E n \in Nodes : PutNew(t, n) \/ PutNewFails(t, n)
    BY <2>5, PutNewInv, PutNewFailsInv
  <2>6. CASE RmMdc(t) \/ EmptyNext(t) \/ EmptyDone(t)
    BY <2>6, RemoveInv
  <2>7. CASE WriteNext(t) \/ WriteDone(t)
    BY <2>7, WriteInv
  <2>. QED  BY <1>2, <2>1, <2>2, <2>3, <2>4, <2>5, <2>6, <2>7 DEF Step
<1>. QED  BY <1>1, <1>2, CallInv, CallBrokenInv DEF Next

\* The inductive invariant of the lists of mdc.c: it holds however the calls of
\* the threads interleave and whichever of their allocations fail, until a thread
\* uses a list that a failed put has broken.
THEOREM Invariance == Spec => []Inv
<1>1. Init => Inv
  BY InitInv
<1>2. Inv /\ [Next]_vars => Inv'
  BY NextInv
<1>. QED  BY <1>1, <1>2, PTL DEF Spec

\* Every variable keeps its type: in particular no NULL or freed string is ever
\* copied into a log entry or a result.
THEOREM TypeCorrect == Spec => []TypeOK
<1>1. Inv => TypeOK
  BY DEF Inv
<1>. QED  BY <1>1, Invariance, PTL

\* mdc.c leaks no entry, and the lists of the threads share none; the only freed
\* entry a list can hold is the one its last, failed put has left there.
THEOREM NoDanglingEntry == Spec => []EntriesOwned
<1>1. Inv => EntriesOwned
  BY DEF Inv
<1>. QED  BY <1>1, Invariance, PTL

\* The pointers of add_to_list() and rm_from_list() always form the lists that no
\* failed put has broken.
THEOREM ListsStayLinked == Spec => []ListLinked
<1>1. Inv => ListLinked
  BY DEF Inv, AllLinked, ListLinked
<1>. QED  BY <1>1, Invariance, PTL

\* put_mdc() that fails for want of memory leaves one freed entry in the list of
\* its thread: the others stay allocated, linked and in no other list while the
\* other threads go on, whoever is given the freed one.
THEOREM FailedPutConfined == Spec => []DamageConfined
<1>1. ASSUME Inv PROVE DamageConfined
  <2> SUFFICES ASSUME NEW t \in Threads, Broken(t)
               PROVE  /\ \E i \in 1..Len(order[t]) : Intact(t) = (1..Len(order[t])) \ {i}
                      /\ Linked(t)
                      /\ \A i \in Intact(t) :
                            /\ order[t][i] \in live
                            /\ key[order[t][i]] # NULL /\ value[order[t][i]] # NULL
                            /\ \A u \in Threads \ {t} : \A j \in Intact(u) :
                                  order[u][j] # order[t][i]
    BY DEF DamageConfined
  <2>1. (\E i \in 1..Len(order[t]) : Intact(t) = (1..Len(order[t])) \ {i}) /\ Linked(t)
    BY <1>1 DEF Inv, OneFreed, AllLinked
  <2>2. ASSUME NEW i \in Intact(t)
        PROVE  /\ order[t][i] \in live
               /\ key[order[t][i]] # NULL /\ value[order[t][i]] # NULL
               /\ \A u \in Threads \ {t} : \A j \in Intact(u) : order[u][j] # order[t][i]
    <3>1. order[t][i] \in live
      BY <1>1, IntactLive
    <3>. QED  BY <1>1, <3>1 DEF Inv, EntriesOwned
  <2>. QED  BY <2>1, <2>2
<1>. QED  BY <1>1, Invariance, PTL

\* put_mdc() never makes a second entry for a key.
THEOREM NoDuplicateKey == Spec => []KeysUnique
<1>1. Inv => KeysUnique
  BY DEF Inv
<1>. QED  BY <1>1, Invariance, PTL

\* No loop over a list leaves the list of its thread.
THEOREM LoopsStayInList == Spec => []WalksOwnList
<1>1. Inv => WalksOwnList
  BY DEF Inv
<1>. QED  BY <1>1, Invariance, PTL

\* What a step of t leaves as it is for another thread u.
Spared(u) ==
    /\ head'[u] = head[u] /\ order'[u] = order[u]
    /\ \A i \in Intact(u) :
           /\ key'[order[u][i]] = key[order[u][i]]
           /\ value'[order[u][i]] = value[order[u][i]]

LEMMA StepSpares ==
    ASSUME Inv, NEW t \in Threads, Step(t), NEW u \in Threads, u # t
    PROVE  Spared(u)
<1>1. TypeOK /\ ~Broken(t)
  BY DEF Inv, Step, GetList, GetListFails, SearchNext, PutReplace, PutReplaceFails,
         PutFails, GetMdc, RmMdc, PutNew, PutNewFails, EmptyNext, EmptyDone, WriteNext,
         WriteDone, Searching, Broken
<1>2. \A i \in Intact(u) : /\ order[u][i] \in live /\ order[u][i] \in Nodes
                           /\ \A j \in 1..Len(order[t]) : order[u][i] # order[t][j]
  BY <1>1, OtherEntries
<1>3. ASSUME UNCHANGED <<head, heap, order>> PROVE Spared(u)
  BY <1>3 DEF Spared, heap
<1>4. ASSUME NEW i \in 1..Len(order[t]), MdcDestroy(order[t][i]),
             head'[u] = head[u], order'[u] = order[u]
      PROVE  Spared(u)
  <2>1. \A m \in Nodes : m # order[t][i] => key'[m] = key[m] /\ value'[m] = value[m]
    BY <1>1, <1>4 DEF MdcDestroy, Freed, TypeOK
  <2>. QED  BY <1>2, <1>4, <2>1 DEF Spared
<1>5. CASE GetList(t) \/ EmptyDone(t)
  BY <1>1, <1>5 DEF GetList, EmptyDone, heap, Spared, TypeOK
<1>6. CASE GetListFails(t) \/ SearchNext(t) \/ PutFails(t) \/ GetMdc(t) \/ WriteNext(t) \/ WriteDone(t)
  BY <1>3, <1>6 DEF GetListFails, SearchNext, PutFails, GetMdc, WriteNext, WriteDone
<1>7. CASE PutReplace(t)
  <2>1. PICK i \in 1..Len(order[t]) : cur[t] = order[t][i]
    BY <1>7, AtEntry DEF PutReplace, Searching, Found
  <2>2. \A m \in Nodes : m # order[t][i] => value'[m] = value[m]
    BY <1>1, <1>7, <2>1 DEF PutReplace, TypeOK
  <2>. QED  BY <1>2, <1>7, <2>2 DEF PutReplace, Spared
<1>8. CASE PutReplaceFails(t)
  <2>1. PICK i \in 1..Len(order[t]) : cur[t] = order[t][i]
    BY <1>8, AtEntry DEF PutReplaceFails, Searching, Found
  <2>. QED  BY <1>4, <1>8, <2>1 DEF PutReplaceFails
<1>9. ASSUME NEW i \in 1..Len(order[t]), RmFromList(t, order[t][i]) PROVE Spared(u)
  BY <1>1, <1>4, <1>9 DEF RmFromList, TypeOK
<1>10. CASE RmMdc(t)
  <2>1. CASE Found(t) /\ RmFromList(t, cur[t])
    <3>1. PICK i \in 1..Len(order[t]) : cur[t] = order[t][i]
      BY <1>10, <2>1, AtEntry DEF RmMdc, Searching, Found
    <3>. QED  BY <1>9, <2>1, <3>1
  <2>. QED  BY <1>3, <1>10, <2>1 DEF RmMdc
<1>11. CASE EmptyNext(t)
  <2>1. PICK i \in 1..Len(order[t]) : cur[t] = order[t][i]
    BY <1>11, EmptyAt DEF EmptyNext
  <2>. QED  BY <1>9, <1>11, <2>1 DEF EmptyNext
<1>12. ASSUME NEW n \in Nodes, PutNew(t, n) \/ PutNewFails(t, n) PROVE Spared(u)
  <2>1. head'[u] = head[u] /\ order'[u] = order[u] /\ n \notin live
    BY <1>1, <1>12 DEF PutNew, PutNewFails, AddToList, TypeOK
  <2>2. \A m \in Nodes : m # n => key'[m] = key[m] /\ value'[m] = value[m]
    BY <1>1, <1>12 DEF PutNew, PutNewFails, TypeOK
  <2>. QED  BY <1>2, <2>1, <2>2 DEF Spared
<1>. QED  BY <1>5, <1>6, <1>7, <1>8, <1>10, <1>11, <1>12 DEF Step

\* The list of a thread that is outside the library is never changed by what
\* the other threads do in mdc.c, although entries one of them frees are
\* allocated again by another.
THEOREM ListsArePrivate == Spec => OthersUntouched
<1> DEFINE Untouched(t) ==
              /\ head'[t] = head[t]
              /\ \A i \in 1..Len(order[t]) : LET n == order[t][i] IN
                    /\ n \in live'
                    /\ next'[n] = next[n]
                    /\ key'[n] = key[n]
                    /\ value'[n] = value[n]
<1>1. ASSUME Inv, Inv', NEW t \in Threads, pc[t] = "idle", pc'[t] = "idle", Spared(t)
      PROVE  Untouched(t)
  <2>1. /\ Linked(t) /\ Linked(t)' /\ order'[t] = order[t]
        /\ Intact(t) = 1..Len(order[t]) /\ Intact(t)' = 1..Len(order[t])
    BY <1>1 DEF Inv, AllLinked, Spared, Intact, Broken
  <2>2. ASSUME NEW i \in 1..Len(order[t]) PROVE order[t][i] \in live' /\ next'[order[t][i]] = next[order[t][i]]
    <3>1. next'[order[t][i]] = next[order[t][i]]
      BY <2>1, SMTT(30) DEF Linked
    <3>2. order'[t][i] \in Nodes /\ i \in 1..Len(order'[t])
      BY <1>1, <2>1 DEF Inv, TypeOK
    <3>3. order'[t][i] \in live'
      BY <1>1, <2>1, <3>2 DEF Inv, EntriesOwned
    <3>. QED  BY <2>1, <3>1, <3>3
  <2>. QED  BY <1>1, <2>1, <2>2 DEF Spared
<1>2. ASSUME Inv, Inv', Next, NEW t \in Threads, pc[t] = "idle", pc'[t] = "idle"
      PROVE  Untouched(t)
  <2>1. PICK u \in Threads : \/ \E r \in Requests : Call(u, r) \/ RejectAdd(u, r)
                             \/ Step(u) \/ CallBroken(u)
    BY <1>2 DEF Next
  <2>2. CASE CallBroken(u) \/ \E r \in Requests : Call(u, r) \/ RejectAdd(u, r)
    <3>1. Spared(t)
      BY <2>2 DEF Call, RejectAdd, CallBroken, heap, Spared
    <3>. QED  BY <1>1, <1>2, <3>1
  <2>3. CASE Step(u)
    <3>1. u # t
      BY <1>2, <2>3 DEF Step, GetList, GetListFails, SearchNext, PutReplace, PutReplaceFails,
            PutFails, GetMdc, RmMdc, PutNew, PutNewFails, EmptyNext, EmptyDone, WriteNext,
            WriteDone, Searching
    <3>2. Spared(t)
      BY <1>2, <2>3, <3>1, StepSpares
    <3>. QED  BY <1>1, <1>2, <3>2
  <2>. QED  BY <2>1, <2>2, <2>3
<1>3. Inv /\ Inv' /\ [Next]_vars =>
        [\A t \in Threads : pc[t] = "idle" /\ pc'[t] = "idle" => Untouched(t)]_vars
  BY <1>2
<1>. QED  BY <1>3, Invariance, PTL DEF Spec, OthersUntouched

-----------------------------------------------------------------------------
\* mdclog_mdc_add() has tested the key it was given, and every key in a list has
\* passed that test.
KeysLegal ==
    /\ \A t \in Threads : call[t].op = "add" => ~ContainsSpecial(call[t].key)
    /\ \A n \in live : ~ContainsSpecial(key[n])

LEMMA NextLegal == Inv /\ KeysLegal /\ [Next]_vars => KeysLegal'
<1> SUFFICES ASSUME Inv, KeysLegal, [Next]_vars PROVE KeysLegal'
  OBVIOUS
<1> USE DEF KeysLegal
<1>1. call \in [Threads -> Requests \cup {NoCall}] /\ key \in [Nodes -> Keys \cup {NULL}] /\ live \subseteq Nodes
  BY DEF Inv, TypeOK
<1>2. NoCall.op # "add"
  BY DEF NoCall
\* A call ends, or goes on.
<1>3. ASSUME NEW t \in Threads, call' = call \/ call' = [call EXCEPT ![t] = NoCall]
      PROVE  \A u \in Threads : call'[u].op = "add" => ~ContainsSpecial(call'[u].key)
  BY <1>1, <1>2, <1>3
<1>4. ASSUME NEW t \in Threads, NEW n \in Nodes, live' = live \ {n}, key' = Freed(key, n)
      PROVE  \A i \in live' : ~ContainsSpecial(key'[i])
  BY <1>1, <1>4 DEF Freed
<1>5. CASE UNCHANGED vars
  BY <1>5 DEF vars, heap
<1>6. ASSUME NEW t \in Threads, NEW r \in Requests, Call(t, r) \/ RejectAdd(t, r)
      PROVE  KeysLegal'
  BY <1>1, <1>6 DEF Call, RejectAdd, heap
<1>7. ASSUME NEW t \in Threads, Step(t) PROVE KeysLegal'
  <2> USE DEF Return, Break, Finish, heap
  <2>1. CASE GetList(t) \/ GetListFails(t) \/ SearchNext(t) \/ PutReplace(t) \/ PutFails(t) \/ GetMdc(t)
             \/ WriteNext(t) \/ WriteDone(t)
    <3>1. live' = live /\ key' = key /\ (call' = call \/ call' = [call EXCEPT ![t] = NoCall])
      BY <2>1 DEF GetList, GetListFails, SearchNext, PutReplace, PutFails, GetMdc, WriteNext, WriteDone
    <3>. QED  BY <1>3, <3>1
  <2>2. CASE PutReplaceFails(t)
    <3>1. cur[t] \in Nodes
      BY <2>2 DEF Inv, TypeOK, PutReplaceFails, Found
    <3>. QED  BY <1>3, <1>4, <2>2, <3>1 DEF PutReplaceFails, MdcDestroy
  <2>3. CASE RmMdc(t)
    <3>1. call' = [call EXCEPT ![t] = NoCall]
      BY <2>3 DEF RmMdc
    <3>2. CASE Found(t)
      <4>1. cur[t] \in Nodes
        BY <3>2 DEF Inv, TypeOK, Found
      <4>2. live' = live \ {cur[t]} /\ key' = Freed(key, cur[t])
        BY <2>3, <3>2 DEF RmMdc, Found, RmFromList, MdcDestroy
      <4>. QED  BY <1>3, <1>4, <3>1, <4>1, <4>2
    <3>3. CASE ~Found(t)
      BY <1>3, <2>3, <3>1, <3>3 DEF RmMdc
    <3>. QED  BY <3>2, <3>3
  <2>4. ASSUME NEW n \in Nodes, PutNew(t, n) PROVE KeysLegal'
    <3>1. /\ live' = live \cup {n} /\ key' = [key EXCEPT ![n] = call[t].key] /\ call[t].op = "add"
          /\ call' = [call EXCEPT ![t] = NoCall]
      BY <2>4 DEF PutNew
    <3>2. \A i \in live' : ~ContainsSpecial(key'[i])
      BY <1>1, <3>1
    <3>. QED  BY <1>3, <3>1, <3>2
  <2>5. ASSUME NEW n \in Nodes, PutNewFails(t, n) PROVE KeysLegal'
    BY <1>3, <2>5 DEF PutNewFails
  <2>6. CASE EmptyNext(t) \/ EmptyDone(t)
    <3>1. CASE EmptyNext(t)
      <4>1. cur[t] \in Nodes
        BY <3>1 DEF Inv, TypeOK, EmptyNext
      <4>2. live' = live \ {cur[t]} /\ key' = Freed(key, cur[t]) /\ call' = call
        BY <3>1 DEF EmptyNext, RmFromList, MdcDestroy
      <4>. QED  BY <1>3, <1>4, <4>1, <4>2
    <3>2. CASE EmptyDone(t)
      BY <1>3, <3>2 DEF EmptyDone
    <3>. QED  BY <2>6, <3>1, <3>2
  <2>. QED  BY <1>7, <2>1, <2>2, <2>3, <2>4, <2>5, <2>6 DEF Step
<1>8. ASSUME NEW t \in Threads, CallBroken(t) PROVE KeysLegal'
  BY <1>8 DEF CallBroken, heap
<1>. QED  BY <1>5, <1>6, <1>7, <1>8 DEF Next

\* Whatever keys and values the callers give, format_mdc() may copy the ones in
\* the lists between quotes: mdclog_mdc_add() refuses such keys as would not do,
\* and escape_and_copy() escapes every value.
THEOREM EntriesArePrintable == Spec => []EntriesPrintable
<1>1. Init => KeysLegal
  BY DEF Init, KeysLegal, NoCall
<1>2. Inv /\ KeysLegal /\ [Next]_vars => KeysLegal'
  BY NextLegal
<1>3. Inv /\ KeysLegal => EntriesPrintable
  <2> SUFFICES ASSUME Inv, KeysLegal, NEW n \in live PROVE JsonSafe(key[n]) /\ JsonSafe(value[n])
    BY DEF EntriesPrintable
  <2>1. key[n] \in Keys /\ value[n] \in Stored
    BY DEF Inv, TypeOK, EntriesOwned
  <2>2. JsonSafe(key[n])
    <3>1. key[n] \in Seq(Range(key[n])) /\ ~ContainsSpecial(key[n])
      BY <2>1, TextAssumption DEF KeysLegal
    <3>. QED  BY <3>1, LegalSafe
  <2>3. PICK v \in Values : value[n] = Escaped(v)
    BY <2>1 DEF Stored
  <2>4. v \in Seq(Range(v))
    BY TextAssumption
  <2>. QED  BY <2>2, <2>3, <2>4, EscapedSafe
<1>. QED  BY <1>1, <1>2, <1>3, Invariance, PTL DEF Spec
=============================================================================
