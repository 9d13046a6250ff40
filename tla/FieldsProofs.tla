---------------------------- MODULE FieldsProofs ----------------------------
(***************************************************************************)
(* Theorems about Fields for any fields, values, threads and number of     *)
(* calls.                                                                  *)
(***************************************************************************)
EXTENDS Fields, SequenceLemmas, FiniteSetTheorems

-----------------------------------------------------------------------------
\* What one thread's part of the state says while it is inside
\* mdclog_format_initialize(): c is its context, b whether it is inside a call
\* on it, q and r that call and what it returned, p and s its pc and run.
N == Len(LogFields)
KeyAt(i) == IF i > N THEN PidKey ELSE LogFields[i]
ValueAt(i) == IF i > N THEN PidText ELSE env[LogFields[i]]

Lost(c, s) == KeysOf(s.before) \ KeysOf(c)

\* The fields before the i-th are set.
Done(c, s) ==
    \A j \in 1..(s.i - 1) :
        LogFields[j] \notin s.unread => Has(c, LogFields[j], Escaped(env[LogFields[j]]))

\* Outside, or before the first field: nothing has been touched.
Fresh(c, b, p, s) ==
    /\ p = "idle" => s = NoRun
    /\ p = "check" => ~b /\ s = [NoRun EXCEPT !.before = c]

\* At a field: those before are set, and at most this one is lost.
Working(c, b, p, s) ==
    p \in {"field", "get", "remove", "add"} =>
        /\ s.code = "ok"
        /\ Done(c, s)
        /\ AppPairs(c) = AppPairs(s.before)
        /\ Lost(c, s) \subseteq {KeyAt(s.i)}
        /\ p \in {"field", "get"} => Lost(c, s) = {}
        /\ p = "field" => ~b

\* What it has asked of the context, and what it got.
Asking(c, b, q, r, p, s) ==
    /\ p \in {"get", "remove"} => s.value # NULL
    /\ p \in {"get", "remove", "add"} /\ s.value # NULL => s.value = ValueAt(s.i)
    /\ p \in {"get", "remove"} /\ b => q = [op |-> p, key |-> KeyAt(s.i), value |-> NULL]
    /\ p = "add" /\ b =>
           q = [op |-> "add", key |-> KeyAt(s.i),
                value |-> IF s.value = NULL THEN <<>> ELSE s.value]
    /\ p = "add" /\ s.value = NULL => s.i <= N /\ KeyAt(s.i) \in s.unread /\ Lost(c, s) = {}
    /\ p = "add" /\ s.value # NULL /\ ~b /\ r.code = "ok" =>
           Has(c, KeyAt(s.i), Escaped(s.value))

\* About to return.
Returning(c, b, p, s) ==
    p = "return" =>
        /\ ~b
        /\ AppPairs(c) = AppPairs(s.before)
        /\ \E k \in FieldKeys : Lost(c, s) \subseteq {k}
        /\ s.code # "error" => Lost(c, s) = {}
        /\ s.code = "ok" => /\ s.i = N + 1 /\ Done(c, s)
                            /\ Has(c, PidKey, Escaped(PidText))

Phase(c, b, q, r, p, s) ==
    Fresh(c, b, p, s) /\ Working(c, b, p, s) /\ Asking(c, b, q, r, p, s) /\ Returning(c, b, p, s)

PhaseOK(t) == Phase(ctx[t], busy[t], call[t], ret[t], pc[t], run[t])

Pairs == [key : Keys, value : Stored]

Runs == [i : 1..(N + 1), value : Values \cup {NULL}, code : {"ok", "skipped", "error"},
         unread : SUBSET FieldKeys, before : Seq(Pairs)]

Results == [code : {"ok", "pending", "ENOMEM"}, out : Seq(Pairs)]

CallsTyped ==
    /\ ctx \in [Threads -> Seq(Pairs)]
    /\ busy \in [Threads -> BOOLEAN]
    /\ call \in [Threads -> Context!Requests \cup {Context!NoCall}]
    /\ ret \in [Threads -> Results]
    /\ \A t \in Threads : busy[t] => call[t] \in Context!Requests

Typed ==
    /\ CallsTyped
    /\ env \in [Range(LogFields) -> Given \cup {NULL}]
    /\ flag \in BOOLEAN /\ starting \in Nat /\ calls \in 0..MaxCalls
    /\ pc \in [Threads -> {"idle", "check", "field", "get", "remove", "add", "return"}]
    /\ run \in [Threads -> Runs]

\* Every monitor that has been created but does not watch yet, and every thread
\* inside mdclog_format_initialize(), stands for a call of its own.
Running == {t \in Threads : pc[t] # "idle"}
Counting == IsFiniteSet(Running) /\ starting + Cardinality(Running) <= calls

Inv == Typed /\ Counting /\ \A t \in Threads : PhaseOK(t)

-----------------------------------------------------------------------------
LEMMA SameOperators ==
    /\ \A s : Context!Escaped(s) = Escaped(s)
    /\ \A s, i : Context!RemoveAt(s, i) = RemoveAt(s, i)
<1>1. \A c : Context!Image(c) = Image(c)
  BY DEF Context!Image, Image, Context!NeedsEscape, NeedsEscape, Context!Backslash, Backslash,
         Context!Quote, Quote, Context!Printed, Printed, Context!Unprintable, Unprintable,
         Context!Space, Space
<1>2. \A ss : Context!FlattenSeq(ss) = FlattenSeq(ss)
  BY DEF Context!FlattenSeq, FlattenSeq
<1>3. \A s : Context!Escaped(s) = Escaped(s)
  <2> TAKE s
  <2>1. [i \in DOMAIN s |-> Context!Image(s[i])] = [i \in DOMAIN s |-> Image(s[i])]
    BY <1>1
  <2>. QED  BY <1>2, <2>1, Zenon DEF Context!Escaped, Escaped
<1>4. \A s, i : Context!RemoveAt(s, i) = RemoveAt(s, i)
  BY DEF Context!RemoveAt, RemoveAt
<1>. QED  BY <1>3, <1>4

\* LOGFIELDS names each field once.
LEMMA FieldsDiffer ==
    /\ N \in Nat
    /\ \A j \in 1..N : LogFields[j] \in FieldKeys /\ LogFields[j] \in Range(LogFields)
    /\ \A k \in Range(LogFields) : \E j \in 1..N : k = LogFields[j]
    /\ \A i \in 1..(N + 1) : KeyAt(i) \in FieldKeys /\ KeyAt(i) \in Keys
    /\ \A i \in 1..(N + 1) : \A j \in 1..(i - 1) : j \in 1..N /\ LogFields[j] # KeyAt(i)
<1>1. N \in Nat /\ DOMAIN LogFields = 1..N
  BY FieldAssumption DEF N
<1>2. Range(LogFields) = {LogFields[j] : j \in 1..N}
  BY <1>1 DEF Range
<1>3. \A i, j \in 1..N : LogFields[i] = LogFields[j] => i = j
  BY <1>1, FieldAssumption DEF IsInjective
<1>4. \A j \in 1..N : LogFields[j] # PidKey
  BY <1>2, FieldAssumption
<1>5. ASSUME NEW i \in 1..(N + 1) PROVE KeyAt(i) \in FieldKeys
  <2>1. i \in 1..N \/ i > N
    BY <1>1
  <2>. QED  BY <1>1, <1>2, <2>1 DEF KeyAt, FieldKeys
<1>6. ASSUME NEW i \in 1..(N + 1), NEW j \in 1..(i - 1) PROVE j \in 1..N /\ LogFields[j] # KeyAt(i)
  <2>1. j \in 1..N /\ (i \in 1..N \/ i > N) /\ i # j
    BY <1>1
  <2>. QED  BY <1>1, <1>3, <1>4, <2>1 DEF KeyAt
<1>. QED  BY <1>1, <1>2, <1>5, <1>6, KeyAssumption DEF FieldKeys

-----------------------------------------------------------------------------
\* d is c but for the pair of key k: no other is lost, and if k is a field those
\* of the application stay as they are.
Touches(c, d, k) ==
    /\ d \in Seq(Pairs)
    /\ KeysOf(c) \ {k} \subseteq KeysOf(d)
    /\ \A l, v : l # k /\ Has(c, l, v) => Has(d, l, v)
    /\ k \in FieldKeys => AppPairs(d) = AppPairs(c)

\* AppPairs() before it is flattened.
Kept(c) == [i \in DOMAIN c |-> IF c[i].key \in FieldKeys THEN <<>> ELSE <<c[i]>>]

LEMMA KeptTyped ==
    ASSUME NEW c \in Seq(Pairs)
    PROVE  /\ Kept(c) \in Seq(Seq(Pairs))
           /\ Len(Kept(c)) = Len(c)
           /\ \A i \in 1..Len(c) : Kept(c)[i] = IF c[i].key \in FieldKeys THEN <<>> ELSE <<c[i]>>
           /\ AppPairs(c) = FlattenSeq(Kept(c))
           /\ FlattenSeq(Kept(c)) \in Seq(Pairs)
<1>1. Len(c) \in Nat /\ DOMAIN c = 1..Len(c)
  OBVIOUS
<1>2. ASSUME NEW i \in 1..Len(c)
      PROVE  (IF c[i].key \in FieldKeys THEN <<>> ELSE <<c[i]>>) \in Seq(Pairs)
  <2>1. c[i] \in Pairs
    OBVIOUS
  <2>2. <<>> \in Seq(Pairs) /\ <<c[i]>> \in Seq(Pairs)
    BY <2>1
  <2>. QED  BY <2>2
<1>3. Kept(c) \in Seq(Seq(Pairs)) /\ Len(Kept(c)) = Len(c)
  BY <1>1, <1>2 DEF Kept
<1>4. FlattenSeq(Kept(c)) \in Seq(Pairs)
  BY <1>3, FlattenType
<1>. QED  BY <1>1, <1>3, <1>4, Zenon DEF Kept, AppPairs

LEMMA ReplaceTouches ==
    ASSUME NEW c \in Seq(Pairs), NEW i \in 1..Len(c), NEW p \in Pairs, c[i].key = p.key
    PROVE  /\ Touches(c, [c EXCEPT ![i] = p], p.key)
           /\ Has([c EXCEPT ![i] = p], p.key, p.value)
<1> DEFINE d == [c EXCEPT ![i] = p]
<1>1. /\ d \in Seq(Pairs) /\ Len(d) = Len(c) /\ DOMAIN d = 1..Len(c) /\ DOMAIN c = 1..Len(c)
      /\ d[i] = p /\ \A j \in 1..Len(c) : j # i => d[j] = c[j]
  OBVIOUS
<1> HIDE DEF d
<1>2. KeysOf(c) \ {p.key} \subseteq KeysOf(d)
  BY <1>1 DEF KeysOf
<1>3. \A l, v : l # p.key /\ Has(c, l, v) => Has(d, l, v)
  BY <1>1 DEF Has
<1>4. Has(d, p.key, p.value)
  BY <1>1 DEF Has
<1>5. ASSUME p.key \in FieldKeys PROVE AppPairs(d) = AppPairs(c)
  <2>1. \A j \in 1..Len(c) : d[j].key \in FieldKeys <=> c[j].key \in FieldKeys
    BY <1>1, <1>5
  <2>2. \A j \in 1..Len(c) : c[j].key \notin FieldKeys => d[j] = c[j]
    BY <1>1, <1>5
  <2>3. Kept(d) = Kept(c)
    BY <1>1, <2>1, <2>2 DEF Kept
  <2>. QED  BY <1>1, <2>3, KeptTyped
<1>. QED  BY <1>1, <1>2, <1>3, <1>4, <1>5 DEF Touches, d

LEMMA AppendTouches ==
    ASSUME NEW c \in Seq(Pairs), NEW p \in Pairs
    PROVE  Touches(c, Append(c, p), p.key) /\ Has(Append(c, p), p.key, p.value)
<1> DEFINE d == Append(c, p)
           n == Len(c)
<1>1. /\ n \in Nat /\ d \in Seq(Pairs) /\ Len(d) = n + 1
      /\ DOMAIN d = 1..(n + 1) /\ DOMAIN c = 1..n
      /\ d[n + 1] = p /\ \A j \in 1..n : d[j] = c[j] /\ j \in 1..(n + 1)
      /\ n + 1 \in 1..(n + 1)
  OBVIOUS
<1> HIDE DEF d, n
<1>2. KeysOf(c) \ {p.key} \subseteq KeysOf(d)
  BY <1>1 DEF KeysOf
<1>3. \A l, v : l # p.key /\ Has(c, l, v) => Has(d, l, v)
  BY <1>1 DEF Has
<1>4. Has(d, p.key, p.value)
  BY <1>1 DEF Has
<1>5. ASSUME p.key \in FieldKeys PROVE AppPairs(d) = AppPairs(c)
  <2>1. Kept(c) \in Seq(Seq(Pairs)) /\ Len(Kept(c)) = n /\ <<>> \in Seq(Pairs)
    BY KeptTyped DEF n
  <2>2. Kept(d) \in Seq(Seq(Pairs)) /\ Len(Kept(d)) = n + 1
    BY <1>1, KeptTyped
  <2>3. \A j \in 1..n : Kept(d)[j] = Kept(c)[j]
    BY <1>1, KeptTyped DEF n
  <2>4. Kept(d)[n + 1] = <<>>
    BY <1>1, <1>5, KeptTyped
  <2>5. Kept(d) = Append(Kept(c), <<>>)
    <3> DEFINE e == Append(Kept(c), <<>>)
    <3>1. /\ e \in Seq(Seq(Pairs)) /\ Len(e) = n + 1 /\ e[n + 1] = <<>>
          /\ \A j \in 1..n : e[j] = Kept(c)[j]
      BY <1>1, <2>1
    <3> HIDE DEF e
    <3>2. \A j \in 1..(n + 1) : j \in 1..n \/ j = n + 1
      BY <1>1
    <3>3. \A j \in 1..(n + 1) : Kept(d)[j] = e[j]
      BY <2>3, <2>4, <3>1, <3>2
    <3>4. Kept(d) = e
      BY <2>2, <3>1, <3>3, SeqEqual
    <3>. QED  BY <3>4 DEF e
  <2>6. FlattenSeq(Kept(d)) = FlattenSeq(Kept(c)) \o <<>>
    BY <2>1, <2>5, FlattenAppend
  <2>7. FlattenSeq(Kept(c)) \o <<>> = FlattenSeq(Kept(c))
    BY KeptTyped, ConcatEmptySeq
  <2>. QED  BY <1>1, <2>6, <2>7, KeptTyped
<1>. QED  BY <1>1, <1>2, <1>3, <1>4, <1>5 DEF Touches, d

LEMMA RemoveTouches ==
    ASSUME NEW c \in Seq(Pairs), NEW i \in 1..Len(c)
    PROVE  Touches(c, RemoveAt(c, i), c[i].key)
<1> DEFINE d == RemoveAt(c, i)
           n == Len(c)
           k == c[i].key
<1>1. /\ n \in Nat /\ d \in Seq(Pairs) /\ Len(d) = n - 1 /\ DOMAIN d = 1..(n - 1)
      /\ DOMAIN c = 1..n /\ i \in 1..n
      /\ \A j \in 1..(n - 1) : d[j] = IF j < i THEN c[j] ELSE c[j + 1]
  <2>1. d \in Seq(Pairs) /\ Len(d) = n - 1
        /\ \A j \in 1..(n - 1) : d[j] = IF j < i THEN c[j] ELSE c[j + 1]
    BY RemoveAtProperties
  <2> HIDE DEF d
  <2>. QED  BY <2>1
<1> HIDE DEF d, n
<1>2. \A j \in 1..n : j # i => \E l \in 1..(n - 1) : d[l] = c[j]
  <2> SUFFICES ASSUME NEW j \in 1..n, j # i PROVE \E l \in 1..(n - 1) : d[l] = c[j]
    OBVIOUS
  <2>1. CASE j < i
    BY <1>1, <2>1
  <2>2. CASE ~(j < i)
    <3>1. j - 1 \in 1..(n - 1) /\ ~(j - 1 < i) /\ (j - 1) + 1 = j
      BY <1>1, <2>2
    <3>2. d[j - 1] = c[j]
      BY <1>1, <3>1
    <3>. QED  BY <3>1, <3>2
  <2>. QED  BY <2>1, <2>2
<1>3. KeysOf(c) \ {k} \subseteq KeysOf(d)
  <2> SUFFICES ASSUME NEW l \in KeysOf(c), l # k PROVE l \in KeysOf(d)
    OBVIOUS
  <2>1. PICK j \in 1..n : l = c[j].key
    BY <1>1 DEF KeysOf
  <2>2. PICK m \in 1..(n - 1) : d[m] = c[j]
    BY <1>2, <2>1
  <2>. QED  BY <1>1, <2>1, <2>2 DEF KeysOf
<1>4. \A l, v : l # k /\ Has(c, l, v) => Has(d, l, v)
  BY <1>1, <1>2 DEF Has
<1>5. ASSUME k \in FieldKeys PROVE AppPairs(d) = AppPairs(c)
  <2> DEFINE e == RemoveAt(Kept(c), i)
  <2>1. /\ Kept(c) \in Seq(Seq(Pairs)) /\ Len(Kept(c)) = n
        /\ \A j \in 1..n : Kept(c)[j] = IF c[j].key \in FieldKeys THEN <<>> ELSE <<c[j]>>
    BY KeptTyped DEF n
  <2>2. /\ Kept(d) \in Seq(Seq(Pairs)) /\ Len(Kept(d)) = n - 1
        /\ \A j \in 1..(n - 1) : Kept(d)[j] = IF d[j].key \in FieldKeys THEN <<>> ELSE <<d[j]>>
    BY <1>1, KeptTyped
  <2>3. /\ e \in Seq(Seq(Pairs)) /\ Len(e) = n - 1
        /\ \A j \in 1..(n - 1) : e[j] = IF j < i THEN Kept(c)[j] ELSE Kept(c)[j + 1]
    BY <1>1, <2>1, RemoveAtProperties
  <2>4. FlattenSeq(e) = FlattenSeq(Kept(c))
    BY <1>1, <1>5, <2>1, FlattenSkip
  <2> HIDE DEF e
  <2>5. ASSUME NEW j \in 1..(n - 1) PROVE Kept(d)[j] = e[j]
    <3>1. j \in 1..n /\ j + 1 \in 1..n
      BY <1>1
    <3>2. CASE j < i
      <4>1. d[j] = c[j] /\ e[j] = Kept(c)[j]
        BY <1>1, <2>3, <3>2
      <4>. QED  BY <2>1, <2>2, <3>1, <4>1, Zenon
    <3>3. CASE ~(j < i)
      <4>1. d[j] = c[j + 1] /\ e[j] = Kept(c)[j + 1]
        BY <1>1, <2>3, <3>3
      <4>2. Kept(c)[j + 1] = IF c[j + 1].key \in FieldKeys THEN <<>> ELSE <<c[j + 1]>>
        BY <2>1, <3>1
      <4>. QED  BY <2>2, <4>1, <4>2, Zenon
    <3>. QED  BY <3>2, <3>3
  <2>6. Kept(d) = e
    BY <2>2, <2>3, <2>5, SeqEqual
  <2>. QED  BY <1>1, <2>4, <2>6, KeptTyped
<1>. QED  BY <1>1, <1>3, <1>4, <1>5 DEF Touches, d

-----------------------------------------------------------------------------
\* The state of the contexts of the threads other than t.
OthersKept(t) ==
    \A u \in Threads \ {t} :
        ctx'[u] = ctx[u] /\ busy'[u] = busy[u] /\ call'[u] = call[u] /\ ret'[u] = ret[u]

LEMMA ReturnTyped ==
    ASSUME CallsTyped, NEW t \in Threads, NEW r \in Results, Context!Return(t, r),
           NEW d \in Seq(Pairs), ctx' = [ctx EXCEPT ![t] = d]
    PROVE  /\ CallsTyped' /\ OthersKept(t)
           /\ ctx'[t] = d /\ ~busy'[t] /\ ret'[t] = r
<1>1. /\ ret' = [ret EXCEPT ![t] = r]
      /\ busy' = [busy EXCEPT ![t] = FALSE]
      /\ call' = [call EXCEPT ![t] = Context!NoCall]
  BY DEF Context!Return
<1>. QED  BY <1>1 DEF CallsTyped, OthersKept

\* What a call on the context does to it when it ends.
LEMMA AddEffect ==
    ASSUME CallsTyped, NEW t \in Threads, Context!Add(t)
    PROVE  /\ call[t].op = "add" /\ ~busy'[t] /\ ret'[t].code = "ok"
           /\ CallsTyped' /\ OthersKept(t)
           /\ Touches(ctx[t], ctx'[t], call[t].key)
           /\ Has(ctx'[t], call[t].key, Escaped(call[t].value))
<1> DEFINE k == call[t].key
           new == [key |-> k, value |-> Escaped(call[t].value)]
           c == ctx[t]
           r == [code |-> "ok", out |-> <<>>]
<1>1. busy[t] /\ call[t].op = "add" /\ call[t] \in Context!Requests /\ c \in Seq(Pairs)
  BY DEF Context!Add, Context!Doing, CallsTyped
<1>2. k \in Keys /\ call[t].value \in Values
  BY <1>1 DEF Context!Requests, Context!Empties
<1>3. new \in Pairs /\ Context!NewPair(t) = new
  BY <1>2, SameOperators DEF Pairs, Stored, Context!NewPair
<1>4. Context!Return(t, r) /\ r \in Results
  BY DEF Context!Add, Context!Result, Results
<1>5. \E d \in Seq(Pairs) : ctx' = [ctx EXCEPT ![t] = d] /\ Touches(c, d, k) /\ Has(d, k, new.value)
  <2>1. CASE \E i \in Context!At(t, k) : ctx' = [ctx EXCEPT ![t][i] = Context!NewPair(t)]
    <3>1. PICK i \in Context!At(t, k) : ctx' = [ctx EXCEPT ![t][i] = Context!NewPair(t)]
      BY <2>1
    <3>2. i \in 1..Len(c) /\ c[i].key = k
      BY <1>1 DEF Context!At
    <3> DEFINE d == [c EXCEPT ![i] = new]
    <3>3. Touches(c, d, k) /\ Has(d, k, new.value)
      BY <1>1, <1>3, <3>2, ReplaceTouches
    <3>4. ctx' = [ctx EXCEPT ![t] = d]
      BY <1>3, <3>1
    <3>. QED  BY <3>3, <3>4 DEF Touches
  <2>2. CASE ctx' = [ctx EXCEPT ![t] = Append(c, Context!NewPair(t))]
    <3> DEFINE d == Append(c, new)
    <3>1. Touches(c, d, k) /\ Has(d, k, new.value)
      BY <1>1, <1>3, AppendTouches
    <3>2. ctx' = [ctx EXCEPT ![t] = d]
      BY <1>3, <2>2
    <3>. QED  BY <3>1, <3>2 DEF Touches
  <2>. QED  BY <2>1, <2>2 DEF Context!Add
<1>6. PICK d \in Seq(Pairs) :
          ctx' = [ctx EXCEPT ![t] = d] /\ Touches(c, d, k) /\ Has(d, k, new.value)
  BY <1>5
<1>7. CallsTyped' /\ OthersKept(t) /\ ctx'[t] = d /\ ~busy'[t] /\ ret'[t] = r
  BY <1>4, <1>6, ReturnTyped
<1>8. new.value = Escaped(call[t].value) /\ r.code = "ok"
  OBVIOUS
<1>. QED  BY <1>1, <1>6, <1>7, <1>8

LEMMA QuietEffect ==
    ASSUME CallsTyped, NEW t \in Threads,
           Context!AddFails(t) \/ Context!GetMdc(t) \/ Context!Cleared(t)
    PROVE  /\ ctx' = ctx /\ ~busy'[t] /\ CallsTyped' /\ OthersKept(t)
           /\ call[t].op = "add" => ret'[t].code # "ok"
           /\ call[t].op # "remove"
<1>1. ctx' = ctx /\ ctx' = [ctx EXCEPT ![t] = ctx[t]] /\ ctx[t] \in Seq(Pairs)
  BY DEF Context!AddFails, Context!GetMdc, Context!Cleared, CallsTyped
<1>2. call[t].op # "remove"
  BY DEF Context!AddFails, Context!GetMdc, Context!Cleared, Context!Doing, Context!Empties
<1>3. \E r \in Results : Context!Return(t, r) /\ (call[t].op = "add" => r.code # "ok")
  <2>1. CASE Context!AddFails(t)
    <3>1. Context!Return(t, Context!Result("ENOMEM", <<>>))
      BY <2>1 DEF Context!AddFails
    <3>2. Context!Result("ENOMEM", <<>>) \in Results /\ Context!Result("ENOMEM", <<>>).code # "ok"
      BY DEF Context!Result, Results
    <3>. QED  BY <3>1, <3>2
  <2>2. CASE Context!GetMdc(t)
    <3>1. call[t].op = "get"
      BY <2>2 DEF Context!GetMdc, Context!Doing
    <3>2. \A i \in Context!At(t, call[t].key) : Context!Result("ok", <<ctx[t][i]>>) \in Results
      BY <1>1 DEF Context!At, Context!Result, Results
    <3>3. Context!Result("ok", <<>>) \in Results
      BY DEF Context!Result, Results
    <3>. QED  BY <2>2, <3>1, <3>2, <3>3 DEF Context!GetMdc
  <2>3. CASE Context!Cleared(t)
    <3>1. Context!Return(t, Context!Result("ok", <<>>)) /\ call[t].op # "add"
      BY <2>3 DEF Context!Cleared, Context!Doing, Context!Empties
    <3>2. Context!Result("ok", <<>>) \in Results
      BY DEF Context!Result, Results
    <3>. QED  BY <3>1, <3>2
  <2>. QED  BY <2>1, <2>2, <2>3
<1>. QED  BY <1>1, <1>2, <1>3, ReturnTyped

LEMMA RemoveEffect ==
    ASSUME CallsTyped, NEW t \in Threads, Context!RmMdc(t)
    PROVE  /\ call[t].op = "remove" /\ ~busy'[t] /\ CallsTyped' /\ OthersKept(t)
           /\ Touches(ctx[t], ctx'[t], call[t].key)
<1> DEFINE k == call[t].key
           c == ctx[t]
           r == [code |-> "ok", out |-> <<>>]
<1>1. call[t].op = "remove" /\ c \in Seq(Pairs)
  BY DEF Context!RmMdc, Context!Doing, CallsTyped
<1>2. Context!Return(t, r) /\ r \in Results
  BY DEF Context!RmMdc, Context!Result, Results
<1>3. \E d \in Seq(Pairs) : ctx' = [ctx EXCEPT ![t] = d] /\ Touches(c, d, k)
  <2>1. CASE \E i \in Context!At(t, k) : ctx' = [ctx EXCEPT ![t] = Context!RemoveAt(c, i)]
    <3>1. PICK i \in Context!At(t, k) : ctx' = [ctx EXCEPT ![t] = Context!RemoveAt(c, i)]
      BY <2>1
    <3>2. i \in 1..Len(c) /\ c[i].key = k
      BY <1>1 DEF Context!At
    <3>3. Touches(c, RemoveAt(c, i), k)
      BY <1>1, <3>2, RemoveTouches
    <3>4. ctx' = [ctx EXCEPT ![t] = RemoveAt(c, i)]
      BY <3>1, SameOperators
    <3>. QED  BY <3>3, <3>4 DEF Touches
  <2>2. CASE ctx' = ctx
    <3>1. ctx' = [ctx EXCEPT ![t] = c]
      BY <2>2 DEF CallsTyped
    <3>2. Touches(c, c, k)
      BY <1>1 DEF Touches
    <3>. QED  BY <1>1, <3>1, <3>2
  <2>. QED  BY <2>1, <2>2 DEF Context!RmMdc
<1>. QED  BY <1>1, <1>2, <1>3, ReturnTyped

LEMMA ClearEffect ==
    ASSUME CallsTyped, NEW t \in Threads, Context!Clear(t)
    PROVE  /\ call[t].op \in {"clean", "destroy"} /\ CallsTyped' /\ OthersKept(t)
           /\ UNCHANGED <<busy, call, ret>>
<1>1. <<>> \in Seq(Pairs)
  OBVIOUS
<1>. QED  BY <1>1 DEF Context!Clear, Context!Doing, Context!Empties, CallsTyped, OthersKept

-----------------------------------------------------------------------------
\* A thread that has no part in a step stays where it is.
LEMMA PhaseFrame ==
    ASSUME NEW u \in Threads, PhaseOK(u), env' = env,
           ctx'[u] = ctx[u], busy'[u] = busy[u], call'[u] = call[u], ret'[u] = ret[u],
           pc'[u] = pc[u], run'[u] = run[u]
    PROVE  PhaseOK(u)'
BY DEF PhaseOK, Phase, Fresh, Working, Asking, Returning, Done, ValueAt

LEMMA Combine ==
    ASSUME Inv, NEW t \in Threads, Typed', Counting', PhaseOK(t)', env' = env, OthersKept(t),
           \A u \in Threads \ {t} : pc'[u] = pc[u] /\ run'[u] = run[u]
    PROVE  Inv'
<1>1. ASSUME NEW u \in Threads, u # t PROVE PhaseOK(u)'
  BY <1>1, PhaseFrame DEF Inv, OthersKept
<1>. QED  BY <1>1 DEF Inv

LEMMA CountingKept ==
    ASSUME Inv, NEW t \in Threads, pc[t] # "idle", pc'[t] # "idle", starting' = starting,
           calls' = calls, \A u \in Threads \ {t} : pc'[u] = pc[u]
    PROVE  Counting'
<1>1. Running' = Running
  BY DEF Running
<1>. QED  BY <1>1 DEF Inv, Counting

LEMMA IdlePhase ==
    ASSUME NEW t \in Threads, pc'[t] = "idle", run'[t] = NoRun
    PROVE  PhaseOK(t)'
BY DEF PhaseOK, Phase, Fresh, Working, Asking, Returning

LEMMA CallTyped ==
    ASSUME CallsTyped, NEW t \in Threads, NEW r \in Context!Requests, Context!Call(t, r)
    PROVE  /\ CallsTyped' /\ OthersKept(t)
           /\ ctx' = ctx /\ busy'[t] /\ call'[t] = r
<1>1. Context!Pending \in Results
  BY DEF Context!Pending, Context!Result, Results
<1>2. /\ ret' = [ret EXCEPT ![t] = Context!Pending] /\ busy' = [busy EXCEPT ![t] = TRUE]
      /\ call' = [call EXCEPT ![t] = r] /\ ctx' = ctx
  BY DEF Context!Call
<1>. QED  BY <1>1, <1>2 DEF CallsTyped, OthersKept

LEMMA QuietTyped ==
    ASSUME CallsTyped, UNCHANGED context, NEW t \in Threads
    PROVE  CallsTyped' /\ OthersKept(t)
BY DEF context, CallsTyped, OthersKept

-----------------------------------------------------------------------------
LEMMA InitInv == Init => Inv
<1> SUFFICES ASSUME Init PROVE Inv
  OBVIOUS
<1>1. Typed
  <2>1. NoRun \in Runs
    BY FieldsDiffer DEF NoRun, Runs
  <2>2. CallsTyped
    BY DEF Init, Context!Init, CallsTyped, Context!Result, Results
  <2>3. starting \in Nat /\ calls \in 0..MaxCalls
    BY BoundAssumption DEF Init
  <2>4. flag \in BOOLEAN /\ env \in [Range(LogFields) -> Given \cup {NULL}]
    BY DEF Init
  <2>5. /\ pc \in [Threads -> {"idle", "check", "field", "get", "remove", "add", "return"}]
        /\ run \in [Threads -> Runs]
    BY <2>1 DEF Init
  <2>. QED  BY <2>2, <2>3, <2>4, <2>5 DEF Typed
<1>2. Counting
  <2>1. Running = {}
    BY DEF Init, Running
  <2>. QED  BY <2>1, FS_EmptySet DEF Init, Counting
<1>3. ASSUME NEW t \in Threads PROVE PhaseOK(t)
  BY DEF Init, PhaseOK, Phase, Fresh, Working, Asking, Returning
<1>. QED  BY <1>1, <1>2, <1>3 DEF Inv

\* The steps of the application, and of the monitors.
LEMMA OutsideInv ==
    ASSUME Inv, NEW t \in Threads, (\E r \in AppRequests : AppCall(t, r)) \/ MdclogInit(t)
    PROVE  Inv'
<1>1. /\ Typed /\ CallsTyped /\ Counting /\ PhaseOK(t)
      /\ pc[t] = "idle" /\ pc' = pc /\ run' = run /\ env' = env /\ starting' = starting
      /\ calls < MaxCalls /\ calls' = calls + 1 /\ flag' \in BOOLEAN
  BY DEF Inv, Typed, AppCall, MdclogInit, Counted
<1>2. CallsTyped' /\ OthersKept(t)
  <2>1. CASE \E r \in AppRequests : AppCall(t, r)
    BY <1>1, <2>1, CallTyped, KeyAssumption DEF AppCall
  <2>2. CASE MdclogInit(t)
    BY <1>1, <2>2, QuietTyped DEF MdclogInit
  <2>. QED  BY <2>1, <2>2
<1>3. Typed'
  BY <1>1, <1>2, BoundAssumption DEF Typed
<1>4. Counting'
  <2>1. Running' = Running /\ Cardinality(Running) \in Nat
    BY <1>1, FS_CardinalityType DEF Running, Counting
  <2>. QED  BY <1>1, <2>1 DEF Counting, Typed
<1>5. PhaseOK(t)'
  BY <1>1, IdlePhase DEF PhaseOK, Phase, Fresh
<1>. QED  BY <1>1, <1>2, <1>3, <1>4, <1>5, Combine

LEMMA ArmInv == ASSUME Inv, Arm PROVE Inv'
<1>1. /\ Typed /\ CallsTyped /\ Counting /\ UNCHANGED <<context, env, pc, run, calls>>
      /\ starting > 0 /\ starting' = starting - 1 /\ flag' \in BOOLEAN
  BY DEF Inv, Typed, Arm
<1>2. CallsTyped'
  BY <1>1 DEF context, CallsTyped
<1>3. Typed'
  BY <1>1, <1>2 DEF Typed
<1>4. Counting'
  <2>1. Running' = Running /\ Cardinality(Running) \in Nat
    BY <1>1, FS_CardinalityType DEF Running, Counting
  <2>. QED  BY <1>1, <2>1 DEF Counting, Typed
<1>5. ASSUME NEW u \in Threads PROVE PhaseOK(u)'
  <2>1. PhaseOK(u)
    BY DEF Inv
  <2>. QED  BY <1>1, <2>1, PhaseFrame DEF context
<1>. QED  BY <1>3, <1>4, <1>5 DEF Inv

\* Touching the field the thread is at keeps what it has done so far.
LEMMA TouchKeeps ==
    ASSUME NEW c \in Seq(Pairs), NEW d, NEW s \in Runs, Touches(c, d, KeyAt(s.i)),
           Done(c, s), AppPairs(c) = AppPairs(s.before), Lost(c, s) \subseteq {KeyAt(s.i)}
    PROVE  /\ Done(d, s) /\ AppPairs(d) = AppPairs(s.before)
           /\ Lost(d, s) \subseteq {KeyAt(s.i)}
           /\ \A v : Has(d, KeyAt(s.i), v) => Lost(d, s) = {}
<1> DEFINE k == KeyAt(s.i)
<1>1. s.i \in 1..(N + 1)
  BY DEF Runs
<1>2. k \in FieldKeys /\ \A j \in 1..(s.i - 1) : LogFields[j] # k
  BY <1>1, FieldsDiffer
<1>3. Done(d, s)
  BY <1>2 DEF Done, Touches
<1>4. Lost(d, s) \subseteq {k}
  BY DEF Lost, Touches
<1>5. ASSUME NEW v, Has(d, k, v) PROVE Lost(d, s) = {}
  <2>1. k \in KeysOf(d)
    BY <1>5 DEF Has, KeysOf
  <2>. QED  BY <1>4, <2>1 DEF Lost
<1>. QED  BY <1>2, <1>3, <1>4, <1>5 DEF Touches

\* The calls on the context that mdclog_format_initialize() waits for.
LEMMA ContextStepInv ==
    ASSUME Inv, NEW t \in Threads, ContextStep(t)
    PROVE  Inv'
<1> DEFINE c == ctx[t]
           s == run[t]
           k == KeyAt(s.i)
<1>1. /\ Typed /\ CallsTyped /\ Counting /\ PhaseOK(t) /\ UNCHANGED <<env, flag, starting, pc, run, calls>>
      /\ c \in Seq(Pairs) /\ s \in Runs
  BY DEF Inv, Typed, CallsTyped, ContextStep
<1>2. busy[t]
  BY DEF ContextStep, Context!Add, Context!AddFails, Context!GetMdc, Context!RmMdc,
         Context!Clear, Context!Cleared, Context!Doing
<1>3. \/ /\ call[t].op = "add" /\ ~busy'[t] /\ ret'[t].code = "ok"
         /\ Touches(c, ctx'[t], call[t].key)
         /\ Has(ctx'[t], call[t].key, Escaped(call[t].value))
      \/ /\ ctx' = ctx /\ ~busy'[t] /\ call[t].op # "remove"
         /\ call[t].op = "add" => ret'[t].code # "ok"
      \/ /\ call[t].op = "remove" /\ ~busy'[t]
         /\ Touches(c, ctx'[t], call[t].key)
      \/ call[t].op \in {"clean", "destroy"}
  BY <1>1, AddEffect, QuietEffect, RemoveEffect, ClearEffect DEF ContextStep
<1>4. CallsTyped' /\ OthersKept(t)
  BY <1>1, AddEffect, QuietEffect, RemoveEffect, ClearEffect DEF ContextStep
<1>5. Typed'
  BY <1>1, <1>4 DEF Typed
<1>6. Counting'
  BY <1>1 DEF Counting, Running
<1>7. PhaseOK(t)'
  <2>1. CASE pc[t] = "idle"
    BY <1>1, <2>1, IdlePhase DEF PhaseOK, Phase, Fresh
  <2>2. CASE pc[t] \in {"check", "field", "return"}
    BY <1>1, <1>2, <2>2 DEF PhaseOK, Phase, Fresh, Working, Returning
  <2>3. CASE pc[t] \in {"get", "remove", "add"}
    <3>1. /\ s.code = "ok" /\ Done(c, s) /\ AppPairs(c) = AppPairs(s.before)
          /\ Lost(c, s) \subseteq {k} /\ (pc[t] = "get" => Lost(c, s) = {})
      BY <1>1, <2>3 DEF PhaseOK, Phase, Working
    <3>2. /\ pc[t] \in {"get", "remove"} => s.value # NULL
          /\ s.value # NULL => s.value = ValueAt(s.i)
          /\ pc[t] = "add" /\ s.value = NULL => s.i <= N /\ k \in s.unread /\ Lost(c, s) = {}
      BY <1>1, <2>3 DEF PhaseOK, Phase, Asking
    <3>3. /\ call[t].op = pc[t] /\ call[t].key = k
          /\ pc[t] = "add" => call[t].value = IF s.value = NULL THEN <<>> ELSE s.value
      BY <1>1, <1>2, <2>3 DEF PhaseOK, Phase, Asking
    <3> DEFINE d == ctx'[t]
    <3>4. /\ ~busy'[t] /\ Done(d, s) /\ AppPairs(d) = AppPairs(s.before)
          /\ Lost(d, s) \subseteq {k}
          /\ pc[t] = "get" => Lost(d, s) = {}
          /\ pc[t] = "add" /\ s.value = NULL => Lost(d, s) = {}
          /\ pc[t] = "add" /\ s.value # NULL /\ ret'[t].code = "ok" => Has(d, k, Escaped(s.value))
      <4>1. CASE /\ call[t].op = "add" /\ ~busy'[t] /\ ret'[t].code = "ok"
                 /\ Touches(c, d, call[t].key)
                 /\ Has(d, call[t].key, Escaped(call[t].value))
        <5>1. pc[t] = "add" /\ pc[t] # "get" /\ Touches(c, d, k) /\ Has(d, k, Escaped(call[t].value))
          BY <3>3, <4>1
        <5>2. /\ Done(d, s) /\ AppPairs(d) = AppPairs(s.before)
              /\ Lost(d, s) = {} /\ Lost(d, s) \subseteq {k}
          BY <1>1, <3>1, <5>1, TouchKeeps
        <5>. QED  BY <3>3, <4>1, <5>1, <5>2
      <4>2. CASE /\ ctx' = ctx /\ ~busy'[t] /\ call[t].op # "remove"
                 /\ call[t].op = "add" => ret'[t].code # "ok"
        BY <3>1, <3>2, <3>3, <4>2
      <4>3. CASE /\ call[t].op = "remove" /\ ~busy'[t]
                 /\ Touches(c, d, call[t].key)
        <5>1. pc[t] = "remove" /\ Touches(c, d, k)
          BY <3>3, <4>3
        <5>2. Done(d, s) /\ AppPairs(d) = AppPairs(s.before) /\ Lost(d, s) \subseteq {k}
          BY <1>1, <3>1, <5>1, TouchKeeps
        <5>. QED  BY <4>3, <5>1, <5>2
      <4>4. CASE call[t].op \in {"clean", "destroy"}
        BY <2>3, <3>3, <4>4
      <4>. QED  BY <1>3, <4>1, <4>2, <4>3, <4>4
    <3>5. Done(ctx[t], run[t])' = Done(d, s) /\ ValueAt(run[t].i)' = ValueAt(s.i)
      BY <1>1 DEF Done, ValueAt
    <3>6. Working(ctx[t], busy[t], pc[t], run[t])'
      BY <1>1, <2>3, <3>1, <3>4, <3>5 DEF Working
    <3>7. Asking(ctx[t], busy[t], call[t], ret[t], pc[t], run[t])'
      BY <1>1, <2>3, <3>2, <3>4, <3>5 DEF Asking
    <3>8. Fresh(ctx[t], busy[t], pc[t], run[t])' /\ Returning(ctx[t], busy[t], pc[t], run[t])'
      BY <1>1, <2>3 DEF Fresh, Returning
    <3>. QED  BY <3>6, <3>7, <3>8 DEF PhaseOK, Phase
  <2>. QED  BY <1>1, <2>1, <2>2, <2>3 DEF Typed
<1>. QED  BY <1>1, <1>4, <1>5, <1>6, <1>7, Combine

\* What the steps inside mdclog_format_initialize() have in common.
LEMMA Stepping ==
    ASSUME Inv, NEW t \in Threads, NEW from, NEW to, Step(t, from, to), from # "idle",
           to \in {"check", "field", "get", "remove", "add", "return"}
    PROVE  /\ ~busy[t] /\ pc[t] = from /\ pc'[t] = to /\ Counting' /\ env' = env
           /\ \A u \in Threads \ {t} : pc'[u] = pc[u]
           /\ CallsTyped' /\ run' \in [Threads -> Runs] => Typed'
           /\ Typed /\ CallsTyped /\ PhaseOK(t) /\ ctx[t] \in Seq(Pairs) /\ run[t] \in Runs
           /\ run[t].i \in 1..(N + 1)
<1>1. /\ ~busy[t] /\ pc[t] = from /\ pc' = [pc EXCEPT ![t] = to]
      /\ UNCHANGED <<env, flag, starting, calls>>
      /\ Typed /\ CallsTyped /\ PhaseOK(t) /\ ctx[t] \in Seq(Pairs) /\ run[t] \in Runs
  BY DEF Step, Goto, Inv, Typed, CallsTyped
<1>2. pc'[t] = to /\ \A u \in Threads \ {t} : pc'[u] = pc[u]
  BY <1>1 DEF Typed
<1>3. Counting'
  BY <1>1, <1>2, CountingKept
<1>4. CallsTyped' /\ run' \in [Threads -> Runs] => Typed'
  BY <1>1 DEF Typed
<1>5. run[t].i \in 1..(N + 1)
  BY <1>1 DEF Runs
<1>. QED  BY <1>1, <1>2, <1>3, <1>4, <1>5

LEMMA BeginInv ==
    ASSUME Inv, NEW t \in Threads, FormatInitialize(t)
    PROVE  Inv'
<1> DEFINE s == [NoRun EXCEPT !.before = ctx[t]]
<1>1. /\ ~busy[t] /\ pc[t] = "idle" /\ pc' = [pc EXCEPT ![t] = "check"]
      /\ UNCHANGED <<context, env, flag, starting>> /\ calls < MaxCalls /\ calls' = calls + 1
      /\ run' = [run EXCEPT ![t].before = ctx[t]]
      /\ Typed /\ CallsTyped /\ Counting /\ PhaseOK(t) /\ ctx[t] \in Seq(Pairs)
  BY DEF FormatInitialize, Goto, Counted, Inv, Typed, CallsTyped
<1>2. run[t] = NoRun
  BY <1>1 DEF PhaseOK, Phase, Fresh
<1>3. run' = [run EXCEPT ![t] = s] /\ s \in Runs
  <2>1. run' = [run EXCEPT ![t] = s]
    BY <1>1, <1>2 DEF Typed
  <2>2. s \in Runs
    BY <1>1, FieldsDiffer DEF NoRun, Runs
  <2>. QED  BY <2>1, <2>2
<1>4. CallsTyped' /\ OthersKept(t)
  BY <1>1, QuietTyped
<1>5. Typed'
  <2>1. calls' \in 0..MaxCalls
    BY <1>1, BoundAssumption DEF Typed
  <2>2. /\ pc' \in [Threads -> {"idle", "check", "field", "get", "remove", "add", "return"}]
        /\ run' \in [Threads -> Runs]
    BY <1>1, <1>3 DEF Typed
  <2>. QED  BY <1>1, <1>4, <2>1, <2>2 DEF Typed
<1>6. pc'[t] = "check" /\ \A u \in Threads \ {t} : pc'[u] = pc[u] /\ run'[u] = run[u]
  BY <1>1, <1>3 DEF Typed
<1>7. Counting'
  <2>1. Running' = Running \cup {t} /\ t \notin Running
    BY <1>1, <1>6 DEF Running
  <2>2. /\ IsFiniteSet(Running') /\ Cardinality(Running') = Cardinality(Running) + 1
        /\ Cardinality(Running) \in Nat
    BY <1>1, <2>1, FS_AddElement, FS_CardinalityType DEF Counting
  <2>. QED  BY <1>1, <2>2 DEF Counting, Typed
<1>8. PhaseOK(t)'
  <2>1. run'[t] = s /\ ctx'[t] = ctx[t] /\ ~busy'[t]
    BY <1>1, <1>3 DEF context, Typed
  <2>. QED  BY <1>6, <2>1 DEF PhaseOK, Phase, Fresh, Working, Asking, Returning
<1>. QED  BY <1>1, <1>4, <1>5, <1>6, <1>7, <1>8, Combine

\* The next value of a thread's part of the state, judged in the state before
\* the step: what it says of the environment stays true.
LEMMA PhaseNext ==
    ASSUME NEW t \in Threads, env' = env,
           Phase(ctx'[t], busy'[t], call'[t], ret'[t], pc'[t], run'[t])
    PROVE  PhaseOK(t)'
BY DEF PhaseOK, Phase, Fresh, Working, Asking, Returning, Done, ValueAt

LEMMA RunStep ==
    ASSUME Typed, NEW t \in Threads, NEW s \in Runs, run' = [run EXCEPT ![t] = s]
    PROVE  /\ run' \in [Threads -> Runs] /\ run'[t] = s
           /\ \A u \in Threads \ {t} : run'[u] = run[u]
BY DEF Typed

LEMMA CheckFlagInv ==
    ASSUME Inv, NEW t \in Threads, CheckFlag(t)
    PROVE  Inv'
<1> DEFINE c == ctx[t]
           code == IF flag THEN "skipped" ELSE "ok"
           s == [run[t] EXCEPT !.code = code]
<1>1. /\ ~busy[t] /\ pc[t] = "check" /\ pc'[t] = (IF flag THEN "return" ELSE "field")
      /\ Counting' /\ env' = env /\ \A u \in Threads \ {t} : pc'[u] = pc[u]
      /\ CallsTyped' /\ run' \in [Threads -> Runs] => Typed'
      /\ Typed /\ CallsTyped /\ PhaseOK(t) /\ run[t] \in Runs
  BY Stepping DEF CheckFlag
<1>2. run[t].i = 1 /\ run[t].unread = {} /\ run[t].before = c
  BY <1>1 DEF PhaseOK, Phase, Fresh, NoRun
<1>3. /\ s \in Runs /\ s.i = 1 /\ s.unread = {} /\ s.before = c /\ s.code = code
      /\ run' = [run EXCEPT ![t] = s]
  BY <1>1, <1>2 DEF Runs, CheckFlag
<1> HIDE DEF s
<1>4. /\ run' \in [Threads -> Runs] /\ run'[t] = s
      /\ \A u \in Threads \ {t} : run'[u] = run[u]
  BY <1>1, <1>3, RunStep
<1>5. CallsTyped' /\ OthersKept(t) /\ ctx'[t] = c /\ busy'[t] = busy[t]
  BY <1>1, QuietTyped DEF CheckFlag, context
<1>6. Lost(c, s) = {} /\ Done(c, s)
  <2>1. 1..(1 - 1) = {}
    OBVIOUS
  <2>. QED  BY <1>3, <2>1 DEF Lost, Done
<1>7. Phase(ctx'[t], busy'[t], call'[t], ret'[t], pc'[t], run'[t])
  <2>1. pc'[t] \in {"field", "return"} /\ (pc'[t] = "field" => s.code = "ok")
        /\ (pc'[t] = "return" => s.code = "skipped")
    BY <1>1, <1>3
  <2>2. \E k \in FieldKeys : Lost(c, s) \subseteq {k}
    BY <1>6 DEF FieldKeys
  <2>. QED  BY <1>1, <1>3, <1>4, <1>5, <1>6, <2>1, <2>2
            DEF Phase, Fresh, Working, Asking, Returning
<1>8. PhaseOK(t)'
  BY <1>1, <1>7, PhaseNext
<1>. QED  BY <1>1, <1>4, <1>5, <1>8, Combine

\* What a thread that is at a field and not in a call knows.
LEMMA AtField ==
    ASSUME NEW t \in Threads, PhaseOK(t), pc[t] \in {"field", "get", "remove", "add"}
    PROVE  /\ run[t].code = "ok" /\ Done(ctx[t], run[t])
           /\ AppPairs(ctx[t]) = AppPairs(run[t].before)
           /\ Lost(ctx[t], run[t]) \subseteq {KeyAt(run[t].i)}
           /\ pc[t] \in {"field", "get"} => Lost(ctx[t], run[t]) = {}
           /\ pc[t] \in {"get", "remove"} => run[t].value # NULL
           /\ pc[t] # "field" /\ run[t].value # NULL => run[t].value = ValueAt(run[t].i)
           /\ Key(t) = KeyAt(run[t].i) /\ (AtPid(t) <=> run[t].i > N)
BY DEF PhaseOK, Phase, Working, Asking, Key, AtPid, KeyAt, N

\* The thread asks for a key of its own.
LEMMA AskTyped ==
    ASSUME CallsTyped, NEW t \in Threads, NEW i \in 1..(N + 1),
           NEW op \in {"get", "remove", "add"}, NEW v, Ask(t, op, KeyAt(i), v),
           IF op = "add" THEN v \in Values ELSE v = NULL
    PROVE  /\ CallsTyped' /\ OthersKept(t) /\ ctx' = ctx /\ busy'[t]
           /\ call'[t] = [op |-> op, key |-> KeyAt(i), value |-> v]
<1>1. KeyAt(i) \in Keys
  BY FieldsDiffer
<1>2. [op |-> op, key |-> KeyAt(i), value |-> v] \in Context!Requests
  BY <1>1 DEF Context!Requests
<1>. QED  BY <1>2, CallTyped DEF Ask

LEMMA ReadFieldInv ==
    ASSUME Inv, NEW t \in Threads, ReadField(t)
    PROVE  Inv'
<1> DEFINE c == ctx[t]
           v == ValueAt(run[t].i)
           s == [run[t] EXCEPT !.value = v]
<1>1. /\ ~busy[t] /\ pc[t] = "field" /\ pc'[t] = "get"
      /\ Counting' /\ env' = env /\ \A u \in Threads \ {t} : pc'[u] = pc[u]
      /\ CallsTyped' /\ run' \in [Threads -> Runs] => Typed'
      /\ Typed /\ CallsTyped /\ PhaseOK(t) /\ run[t] \in Runs /\ run[t].i \in 1..(N + 1)
  BY Stepping DEF ReadField
<1>2. /\ run[t].code = "ok" /\ Done(c, run[t]) /\ AppPairs(c) = AppPairs(run[t].before)
      /\ Lost(c, run[t]) = {} /\ Key(t) = KeyAt(run[t].i) /\ (AtPid(t) <=> run[t].i > N)
  BY <1>1, AtField
<1>3. v = IF AtPid(t) THEN PidText ELSE env[Key(t)]
  BY <1>1, <1>2 DEF ValueAt, KeyAt
<1>4. v # NULL /\ run' = [run EXCEPT ![t].value = v] /\ Ask(t, "get", KeyAt(run[t].i), NULL)
  BY <1>2, <1>3 DEF ReadField
<1>5. v \in Values
  <2>1. CASE run[t].i > N
    BY <2>1, KeyAssumption DEF ValueAt
  <2>2. CASE ~(run[t].i > N)
    <3>1. run[t].i \in 1..N
      BY <1>1, <2>2, FieldsDiffer
    <3>2. LogFields[run[t].i] \in Range(LogFields)
      BY <3>1, FieldsDiffer
    <3>3. v \in Given \cup {NULL}
      BY <1>1, <2>2, <3>2 DEF Typed, ValueAt
    <3>. QED  BY <1>4, <3>3, KeyAssumption
  <2>. QED  BY <2>1, <2>2
<1> HIDE DEF v
<1>6. /\ s \in Runs /\ s.i = run[t].i /\ s.unread = run[t].unread /\ s.before = run[t].before
      /\ s.code = run[t].code /\ s.value = v /\ run' = [run EXCEPT ![t] = s]
  BY <1>1, <1>4, <1>5 DEF Runs
<1> HIDE DEF s
<1>7. /\ run' \in [Threads -> Runs] /\ run'[t] = s
      /\ \A u \in Threads \ {t} : run'[u] = run[u]
  BY <1>1, <1>6, RunStep
<1>8. /\ CallsTyped' /\ OthersKept(t) /\ ctx' = ctx /\ busy'[t]
      /\ call'[t] = [op |-> "get", key |-> KeyAt(s.i), value |-> NULL]
  BY <1>1, <1>4, <1>6, AskTyped
<1>9. Lost(c, s) = {} /\ Done(c, s) /\ s.value = ValueAt(s.i)
  BY <1>2, <1>6 DEF Lost, Done, v
<1>10. Phase(ctx'[t], busy'[t], call'[t], ret'[t], pc'[t], run'[t])
  BY <1>1, <1>2, <1>4, <1>6, <1>7, <1>8, <1>9 DEF Phase, Fresh, Working, Asking, Returning
<1>11. PhaseOK(t)'
  BY <1>1, <1>10, PhaseNext
<1>. QED  BY <1>1, <1>7, <1>8, <1>11, Combine

LEMMA NoFieldInv ==
    ASSUME Inv, NEW t \in Threads, NoField(t)
    PROVE  Inv'
<1> DEFINE c == ctx[t]
           k == KeyAt(run[t].i)
           s == [run[t] EXCEPT !.value = NULL, !.unread = run[t].unread \cup {k}]
<1>1. /\ ~busy[t] /\ pc[t] = "field" /\ pc'[t] = "add"
      /\ Counting' /\ env' = env /\ \A u \in Threads \ {t} : pc'[u] = pc[u]
      /\ CallsTyped' /\ run' \in [Threads -> Runs] => Typed'
      /\ Typed /\ CallsTyped /\ PhaseOK(t) /\ run[t] \in Runs /\ run[t].i \in 1..(N + 1)
  BY Stepping DEF NoField
<1>2. /\ run[t].code = "ok" /\ Done(c, run[t]) /\ AppPairs(c) = AppPairs(run[t].before)
      /\ Lost(c, run[t]) = {} /\ Key(t) = k /\ (AtPid(t) <=> run[t].i > N)
  BY <1>1, AtField
<1>3. /\ run[t].i <= N /\ k \in FieldKeys /\ Ask(t, "add", k, <<>>) /\ <<>> \in Values
      /\ run' = [run EXCEPT ![t].value = NULL, ![t].unread = @ \cup {k}]
  <2>1. run[t].i <= N
    BY <1>1, <1>2, FieldsDiffer DEF NoField
  <2>. QED  BY <1>1, <1>2, <2>1, FieldsDiffer, KeyAssumption DEF NoField
<1>4. /\ s \in Runs /\ s.i = run[t].i /\ s.unread = run[t].unread \cup {k}
      /\ s.before = run[t].before /\ s.code = run[t].code /\ s.value = NULL
      /\ run' = [run EXCEPT ![t] = s]
  BY <1>1, <1>3 DEF Runs, Typed
<1> HIDE DEF s
<1>5. /\ run' \in [Threads -> Runs] /\ run'[t] = s
      /\ \A u \in Threads \ {t} : run'[u] = run[u]
  BY <1>1, <1>4, RunStep
<1>6. /\ CallsTyped' /\ OthersKept(t) /\ ctx' = ctx /\ busy'[t]
      /\ call'[t] = [op |-> "add", key |-> k, value |-> <<>>]
  BY <1>1, <1>3, AskTyped
<1>7. Lost(c, s) = {} /\ Done(c, s)
  BY <1>2, <1>4 DEF Lost, Done
<1>8. Phase(ctx'[t], busy'[t], call'[t], ret'[t], pc'[t], run'[t])
  BY <1>1, <1>2, <1>3, <1>4, <1>5, <1>6, <1>7 DEF Phase, Fresh, Working, Asking, Returning
<1>9. PhaseOK(t)'
  BY <1>1, <1>8, PhaseNext
<1>. QED  BY <1>1, <1>5, <1>6, <1>9, Combine

LEMMA RemoveOldInv ==
    ASSUME Inv, NEW t \in Threads, RemoveOld(t)
    PROVE  Inv'
<1> DEFINE c == ctx[t]
           s == run[t]
           k == KeyAt(s.i)
<1>1. /\ ~busy[t] /\ pc[t] = "get" /\ pc'[t] = "remove"
      /\ Counting' /\ env' = env /\ \A u \in Threads \ {t} : pc'[u] = pc[u]
      /\ CallsTyped' /\ run' \in [Threads -> Runs] => Typed'
      /\ Typed /\ CallsTyped /\ PhaseOK(t) /\ s.i \in 1..(N + 1)
  BY Stepping DEF RemoveOld
<1>2. /\ s.code = "ok" /\ Done(c, s) /\ AppPairs(c) = AppPairs(s.before)
      /\ Lost(c, s) \subseteq {k} /\ Key(t) = k /\ s.value # NULL /\ s.value = ValueAt(s.i)
  BY <1>1, AtField
<1>3. run' = run /\ run' \in [Threads -> Runs] /\ Ask(t, "remove", k, NULL)
  BY <1>1, <1>2 DEF RemoveOld, Typed
<1>4. /\ CallsTyped' /\ OthersKept(t) /\ ctx' = ctx /\ busy'[t]
      /\ call'[t] = [op |-> "remove", key |-> k, value |-> NULL]
  BY <1>1, <1>3, AskTyped
<1>5. Phase(ctx'[t], busy'[t], call'[t], ret'[t], pc'[t], run'[t])
  BY <1>1, <1>2, <1>3, <1>4 DEF Phase, Fresh, Working, Asking, Returning
<1>6. PhaseOK(t)'
  BY <1>1, <1>5, PhaseNext
<1>. QED  BY <1>1, <1>3, <1>4, <1>6, Combine

LEMMA AddFieldInv ==
    ASSUME Inv, NEW t \in Threads, AddField(t)
    PROVE  Inv'
<1> DEFINE c == ctx[t]
           s == run[t]
           k == KeyAt(s.i)
<1>1. /\ ~busy[t] /\ pc[t] \in {"get", "remove"} /\ pc'[t] = "add"
      /\ Counting' /\ env' = env /\ \A u \in Threads \ {t} : pc'[u] = pc[u]
      /\ CallsTyped' /\ run' \in [Threads -> Runs] => Typed'
      /\ Typed /\ CallsTyped /\ PhaseOK(t) /\ s.i \in 1..(N + 1) /\ s \in Runs
  <2>1. CASE Step(t, "remove", "add")
    BY <2>1, Stepping
  <2>2. CASE Step(t, "get", "add")
    BY <2>2, Stepping
  <2>. QED  BY <2>1, <2>2 DEF AddField
<1>2. /\ s.code = "ok" /\ Done(c, s) /\ AppPairs(c) = AppPairs(s.before)
      /\ Lost(c, s) \subseteq {k} /\ Key(t) = k /\ s.value # NULL /\ s.value = ValueAt(s.i)
  BY <1>1, AtField
<1>3. /\ run' = run /\ run' \in [Threads -> Runs] /\ Ask(t, "add", k, s.value)
      /\ s.value \in Values
  BY <1>1, <1>2 DEF AddField, Typed, Runs
<1>4. /\ CallsTyped' /\ OthersKept(t) /\ ctx' = ctx /\ busy'[t]
      /\ call'[t] = [op |-> "add", key |-> k, value |-> s.value]
  BY <1>1, <1>3, AskTyped
<1>5. Phase(ctx'[t], busy'[t], call'[t], ret'[t], pc'[t], run'[t])
  BY <1>1, <1>2, <1>3, <1>4 DEF Phase, Fresh, Working, Asking, Returning
<1>6. PhaseOK(t)'
  BY <1>1, <1>5, PhaseNext
<1>. QED  BY <1>1, <1>3, <1>4, <1>6, Combine

LEMMA NextFieldInv ==
    ASSUME Inv, NEW t \in Threads, NextField(t)
    PROVE  Inv'
<1> DEFINE c == ctx[t]
           r == run[t]
           k == KeyAt(r.i)
           s == [r EXCEPT !.i = IF AtPid(t) THEN r.i ELSE r.i + 1,
                          !.code = IF Failed(t) THEN "error" ELSE r.code]
<1>1. /\ ~busy[t] /\ pc[t] = "add"
      /\ pc'[t] = (IF Failed(t) \/ AtPid(t) THEN "return" ELSE "field")
      /\ Counting' /\ env' = env /\ \A u \in Threads \ {t} : pc'[u] = pc[u]
      /\ CallsTyped' /\ run' \in [Threads -> Runs] => Typed'
      /\ Typed /\ CallsTyped /\ PhaseOK(t) /\ r \in Runs /\ r.i \in 1..(N + 1)
  BY Stepping DEF NextField
<1>2. /\ r.code = "ok" /\ Done(c, r) /\ AppPairs(c) = AppPairs(r.before)
      /\ Lost(c, r) \subseteq {k} /\ (AtPid(t) <=> r.i > N)
      /\ r.value # NULL => r.value = ValueAt(r.i)
  BY <1>1, AtField
<1>3. /\ r.value = NULL => r.i <= N /\ k \in r.unread /\ Lost(c, r) = {}
      /\ r.value # NULL /\ ~Failed(t) => Has(c, k, Escaped(r.value))
  BY <1>1 DEF PhaseOK, Phase, Asking, Failed
<1>4. /\ s.i = (IF r.i > N THEN r.i ELSE r.i + 1) /\ s.i \in 1..(N + 1)
      /\ s.unread = r.unread /\ s.before = r.before
      /\ s.code = (IF Failed(t) THEN "error" ELSE "ok")
      /\ s \in Runs /\ run' = [run EXCEPT ![t] = s]
  <2>1. N \in Nat
    BY FieldsDiffer
  <2>2. (IF AtPid(t) THEN r.i ELSE r.i + 1) \in 1..(N + 1)
    BY <1>1, <1>2, <2>1
  <2>3. run' = [run EXCEPT ![t] = s]
    BY <1>1 DEF NextField, Typed
  <2>4. (IF Failed(t) THEN "error" ELSE r.code) \in {"ok", "error"}
    BY <1>2
  <2>5. /\ s \in Runs /\ s.i = (IF AtPid(t) THEN r.i ELSE r.i + 1)
        /\ s.unread = r.unread /\ s.before = r.before
        /\ s.code = (IF Failed(t) THEN "error" ELSE r.code)
    <3> DEFINE a == IF AtPid(t) THEN r.i ELSE r.i + 1
               b == IF Failed(t) THEN "error" ELSE r.code
    <3>1. a \in 1..(N + 1) /\ b \in {"ok", "error"}
      BY <2>2, <2>4
    <3> HIDE DEF a, b
    <3>2. [r EXCEPT !.i = a, !.code = b] \in Runs
      BY <1>1, <3>1 DEF Runs
    <3>. QED  BY <1>1, <3>2 DEF Runs, a, b
  <2>. QED  BY <1>2, <2>2, <2>3, <2>5
<1> HIDE DEF s
<1>5. /\ run' \in [Threads -> Runs] /\ run'[t] = s
      /\ \A u \in Threads \ {t} : run'[u] = run[u]
  BY <1>1, <1>4, RunStep
<1>6. CallsTyped' /\ OthersKept(t) /\ ctx'[t] = c /\ busy'[t] = busy[t]
  BY <1>1, QuietTyped DEF NextField, context
<1>7. Lost(c, s) = Lost(c, r)
  BY <1>4 DEF Lost
<1>8. ~Failed(t) => Lost(c, s) = {}
  <2>1. ASSUME Has(c, k, Escaped(r.value)) PROVE Lost(c, r) = {}
    <3>1. k \in KeysOf(c)
      BY <2>1 DEF Has, KeysOf
    <3>. QED  BY <1>2, <3>1 DEF Lost
  <2>. QED  BY <1>3, <1>7, <2>1
<1>9. ASSUME ~Failed(t) PROVE Done(c, s)
  <2> SUFFICES ASSUME NEW j \in 1..(s.i - 1), LogFields[j] \notin s.unread
               PROVE  Has(c, LogFields[j], Escaped(env[LogFields[j]]))
    BY DEF Done
  <2>1. CASE j \in 1..(r.i - 1)
    BY <1>2, <1>4, <2>1 DEF Done
  <2>2. CASE j \notin 1..(r.i - 1)
    <3>1. j = r.i /\ ~(r.i > N)
      BY <1>1, <1>4, <2>2, FieldsDiffer
    <3>2. k = LogFields[j] /\ ValueAt(r.i) = env[LogFields[j]]
      BY <3>1 DEF KeyAt, ValueAt
    <3>. QED  BY <1>2, <1>3, <1>4, <1>9, <3>2
  <2>. QED  BY <2>1, <2>2
<1>10. Phase(ctx'[t], busy'[t], call'[t], ret'[t], pc'[t], run'[t])
  <2>1. \E l \in FieldKeys : Lost(c, s) \subseteq {l}
    BY <1>1, <1>2, <1>7, FieldsDiffer
  <2>2. CASE Failed(t)
    <3>1. pc'[t] = "return" /\ s.code = "error"
      BY <1>1, <1>4, <2>2
    <3>. QED  BY <1>1, <1>2, <1>4, <1>5, <1>6, <2>1, <3>1
              DEF Phase, Fresh, Working, Asking, Returning
  <2>3. CASE ~Failed(t) /\ AtPid(t)
    <3>1. /\ pc'[t] = "return" /\ s.code = "ok" /\ Lost(c, s) = {} /\ Done(c, s)
          /\ s.i = N + 1
      BY <1>1, <1>2, <1>4, <1>8, <1>9, <2>3, FieldsDiffer
    <3>2. Has(c, PidKey, Escaped(PidText))
      <4>1. r.value # NULL /\ k = PidKey /\ r.value = PidText
        BY <1>1, <1>2, <1>3, <2>3, FieldsDiffer DEF KeyAt, ValueAt
      <4>. QED  BY <1>3, <2>3, <4>1
    <3>. QED  BY <1>1, <1>2, <1>4, <1>5, <1>6, <2>1, <3>1, <3>2
              DEF Phase, Fresh, Working, Asking, Returning
  <2>4. CASE ~Failed(t) /\ ~AtPid(t)
    <3>1. pc'[t] = "field" /\ s.code = "ok" /\ Lost(c, s) = {} /\ Done(c, s)
      BY <1>1, <1>4, <1>8, <1>9, <2>4
    <3>. QED  BY <1>1, <1>2, <1>4, <1>5, <1>6, <3>1
              DEF Phase, Fresh, Working, Asking, Returning
  <2>. QED  BY <2>2, <2>3, <2>4
<1>11. PhaseOK(t)'
  BY <1>1, <1>10, PhaseNext
<1>. QED  BY <1>1, <1>5, <1>6, <1>11, Combine

LEMMA ReturnInv ==
    ASSUME Inv, NEW t \in Threads, Return(t)
    PROVE  Inv'
<1>1. /\ ~busy[t] /\ pc[t] = "return" /\ pc' = [pc EXCEPT ![t] = "idle"]
      /\ UNCHANGED <<context, env, flag, calls>> /\ starting' \in {starting, starting + 1}
      /\ run' = [run EXCEPT ![t] = NoRun]
      /\ Typed /\ CallsTyped /\ Counting
  BY DEF Return, Goto, Inv, Typed
<1>2. NoRun \in Runs
  BY FieldsDiffer DEF NoRun, Runs
<1>3. /\ run' \in [Threads -> Runs] /\ run'[t] = NoRun
      /\ \A u \in Threads \ {t} : run'[u] = run[u]
  BY <1>1, <1>2, RunStep
<1>4. CallsTyped' /\ OthersKept(t)
  BY <1>1, QuietTyped
<1>5. pc'[t] = "idle" /\ \A u \in Threads \ {t} : pc'[u] = pc[u]
  BY <1>1 DEF Typed
<1>6. Typed'
  <2>1. pc' \in [Threads -> {"idle", "check", "field", "get", "remove", "add", "return"}]
    BY <1>1 DEF Typed
  <2>2. starting' \in Nat
    BY <1>1 DEF Typed
  <2>. QED  BY <1>1, <1>3, <1>4, <2>1, <2>2 DEF Typed
<1>7. Counting'
  <2>1. Running' = Running \ {t} /\ t \in Running
    BY <1>1, <1>5 DEF Running
  <2>2. /\ IsFiniteSet(Running') /\ Cardinality(Running') = Cardinality(Running) - 1
        /\ Cardinality(Running) \in Nat
    BY <1>1, <2>1, FS_RemoveElement, FS_CardinalityType DEF Counting
  <2>. QED  BY <1>1, <2>2 DEF Counting, Typed
<1>8. PhaseOK(t)'
  BY <1>3, <1>5, IdlePhase
<1>. QED  BY <1>1, <1>3, <1>4, <1>5, <1>6, <1>7, <1>8, Combine

LEMMA StutterInv == ASSUME Inv, UNCHANGED vars PROVE Inv'
<1>1. UNCHANGED <<ctx, busy, call, ret, env, flag, starting, pc, run, calls>>
  BY DEF vars, context
<1>2. Typed'
  BY <1>1 DEF Inv, Typed, CallsTyped
<1>3. Counting'
  BY <1>1 DEF Inv, Counting, Running
<1>4. ASSUME NEW u \in Threads PROVE PhaseOK(u)'
  BY <1>1, PhaseFrame DEF Inv
<1>. QED  BY <1>2, <1>3, <1>4 DEF Inv

LEMMA NextInv == ASSUME Inv, [Next]_vars PROVE Inv'
<1>1. CASE Arm
  BY <1>1, ArmInv
<1>2. ASSUME NEW t \in Threads,
             \/ \E r \in AppRequests : AppCall(t, r)
             \/ MdclogInit(t) \/ FormatInitialize(t) \/ ContextStep(t)
             \/ CheckFlag(t) \/ ReadField(t) \/ NoField(t) \/ RemoveOld(t) \/ AddField(t)
             \/ NextField(t) \/ Return(t)
      PROVE  Inv'
  BY <1>2, OutsideInv, BeginInv, ContextStepInv, CheckFlagInv, ReadFieldInv, NoFieldInv,
     RemoveOldInv, AddFieldInv, NextFieldInv, ReturnInv
<1>. QED  BY <1>1, <1>2, StutterInv DEF Next

-----------------------------------------------------------------------------
\* The inductive invariant of mdclog_format_initialize(): it holds whatever the
\* application has put into its context, however the threads interleave and
\* whichever allocations fail.
THEOREM Invariance == Spec => []Inv
<1>1. Init => Inv
  BY InitInv
<1>2. Inv /\ [Next]_vars => Inv'
  BY NextInv
<1>. QED  BY <1>1, <1>2, PTL DEF Spec

\* Every variable keeps its type: in particular the context of a thread holds
\* escaped values only, and no more monitors start than calls were made.
THEOREM TypeCorrect == Spec => []TypeOK
<1>1. Inv => TypeOK
  <2> SUFFICES ASSUME Inv PROVE TypeOK
    OBVIOUS
  <2>1. Typed /\ CallsTyped /\ Counting
    BY DEF Inv, Typed
  <2>2. ASSUME NEW t \in Threads, NEW i \in DOMAIN ctx[t]
        PROVE  ctx[t][i].key \in Keys /\ ctx[t][i].value \in Stored
    <3>1. ctx[t][i] \in Pairs
      BY <2>1 DEF CallsTyped
    <3>. QED  BY <3>1 DEF Pairs
  <2>3. starting \in 0..MaxCalls
    <3>1. Cardinality(Running) \in Nat
      BY <2>1, FS_CardinalityType DEF Counting
    <3>. QED  BY <2>1, <3>1, BoundAssumption DEF Counting, Typed
  <2>4. ASSUME NEW t \in Threads
        PROVE  /\ run[t].i \in 1..(Len(LogFields) + 1)
               /\ run[t].value \in Values \cup {NULL}
               /\ run[t].code \in {"ok", "skipped", "error"}
               /\ run[t].unread \subseteq FieldKeys
    BY <2>1 DEF Typed, Runs, N
  <2>. QED  BY <2>1, <2>2, <2>3, <2>4 DEF TypeOK, Typed
<1>. QED  BY <1>1, Invariance, PTL

\* A call of mdclog_format_initialize() that does its work and returns 0 has set
\* every field it could read and the process id.
THEOREM FieldsAreSet == Spec => []FieldsSet
<1>1. Inv => FieldsSet
  <2> SUFFICES ASSUME Inv, NEW t \in Threads, pc[t] = "return", run[t].code = "ok"
               PROVE  /\ Has(ctx[t], PidKey, Escaped(PidText))
                      /\ \A k \in Range(LogFields) \ run[t].unread :
                             Has(ctx[t], k, Escaped(env[k]))
    BY DEF FieldsSet
  <2>1. /\ run[t].i = N + 1 /\ Done(ctx[t], run[t]) /\ Has(ctx[t], PidKey, Escaped(PidText))
    BY DEF Inv, PhaseOK, Phase, Returning
  <2>2. ASSUME NEW k \in Range(LogFields) \ run[t].unread PROVE Has(ctx[t], k, Escaped(env[k]))
    <3>1. PICK j \in 1..N : k = LogFields[j]
      BY FieldsDiffer
    <3>2. j \in 1..(run[t].i - 1)
      BY <2>1, FieldsDiffer
    <3>. QED  BY <2>1, <2>2, <3>1, <3>2 DEF Done
  <2>. QED  BY <2>1, <2>2
<1>. QED  BY <1>1, Invariance, PTL

\* A call of mdclog_format_initialize() that fails half way has lost one field at
\* most, and one that returns 0 none; the application's own pairs are untouched.
THEOREM LittleIsLost == Spec => []LittleLost
<1>1. Inv => LittleLost
  <2> SUFFICES ASSUME Inv, NEW t \in Threads, pc[t] = "return"
               PROVE  /\ AppPairs(ctx[t]) = AppPairs(run[t].before)
                      /\ Cardinality(Lost(ctx[t], run[t]))
                           <= (IF run[t].code = "error" THEN 1 ELSE 0)
    BY DEF LittleLost, Lost
  <2> DEFINE L == Lost(ctx[t], run[t])
  <2>1. /\ AppPairs(ctx[t]) = AppPairs(run[t].before)
        /\ \E k \in FieldKeys : L \subseteq {k}
        /\ run[t].code # "error" => L = {}
    BY DEF Inv, PhaseOK, Phase, Returning
  <2> HIDE DEF L
  <2>2. PICK k \in FieldKeys : L = {} \/ L = {k}
    BY <2>1
  <2>3. Cardinality({}) = 0 /\ Cardinality({k}) = 1
    BY FS_EmptySet, FS_Singleton
  <2>4. Cardinality(L) <= (IF run[t].code = "error" THEN 1 ELSE 0)
    BY <2>1, <2>2, <2>3
  <2>. QED  BY <2>1, <2>4 DEF L
<1>. QED  BY <1>1, Invariance, PTL
=============================================================================
