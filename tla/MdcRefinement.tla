---------------------------- MODULE MdcRefinement ----------------------------
(***************************************************************************)
(* The linked lists of Mdc implement the contexts of MdcContext, for any   *)
(* sets of threads, keys, values and entries, as long as put_mdc() can     *)
(* allocate its copies of keys and values: when it cannot, the code frees  *)
(* an entry that is still linked, and nothing can be said of that list any *)
(* more (PutNewFails, PutReplaceFails).                                    *)
(***************************************************************************)
EXTENDS MdcProofs

-----------------------------------------------------------------------------
\* No put has failed for want of memory for a copy.
NoneBroken == \A t \in Threads : ~Broken(t)

LEMMA NoneBreaks ==
    ASSUME Inv, NoneBroken, [Next]_vars, {"key", "value"} \cap Fail = {}
    PROVE  NoneBroken'
<1>1. ASSUME NEW t \in Threads, NEW label \in {"idle", "get_list", "walk", "empty"},
             pc' = pc \/ pc' = [pc EXCEPT ![t] = label]
      PROVE  NoneBroken'
  BY <1>1 DEF NoneBroken, Broken, Inv, TypeOK
<1>2. CASE UNCHANGED vars
  BY <1>2 DEF vars, NoneBroken, Broken
<1>3. ASSUME NEW t \in Threads, Step(t) PROVE NoneBroken'
  <2>1. ~PutReplaceFails(t) /\ \A n \in Nodes : ~PutNewFails(t, n)
    BY DEF PutReplaceFails, PutNewFails
  <2>2. CASE SearchNext(t) \/ EmptyNext(t) \/ WriteNext(t)
    BY <1>1, <2>2 DEF SearchNext, EmptyNext, WriteNext
  <2>3. CASE GetList(t)
    BY <1>1, <2>3 DEF GetList
  <2>4. CASE \E r : Return(t, r)
    BY <1>1, <2>4 DEF Return, Finish
  <2>. QED  BY <1>3, <2>1, <2>2, <2>3, <2>4 DEF Step, GetListFails, PutReplace, PutFails, GetMdc,
               RmMdc, PutNew, EmptyDone, WriteDone
<1>4. ASSUME NEW t \in Threads, NEW r \in Requests, Call(t, r) \/ RejectAdd(t, r) PROVE NoneBroken'
  BY <1>1, <1>4 DEF Call, RejectAdd
<1>5. \A t \in Threads : ~CallBroken(t)
  BY DEF CallBroken, NoneBroken, Broken
<1>. QED  BY <1>2, <1>3, <1>4, <1>5 DEF Next

LEMMA AllDefined == NoneBroken => Defined
BY DEF NoneBroken, Broken, Defined

\* Both modules work on text and sequences with the same operators.
LEMMA SameOperators ==
    /\ \A s : Context!ContainsSpecial(s) = ContainsSpecial(s)
    /\ \A s : Context!Escaped(s) = Escaped(s)
    /\ \A s, i : Context!RemoveAt(s, i) = RemoveAt(s, i)
    /\ \A s : Context!Reverse(s) = Reverse(s)
    /\ \A s : Context!Prefixes(s) = Prefixes(s)
<1>1. \A s : Context!ContainsSpecial(s) = ContainsSpecial(s)
  BY DEF Context!ContainsSpecial, ContainsSpecial, Context!Unprintable, Unprintable,
         Context!NeedsEscape, NeedsEscape, Context!Backslash, Backslash, Context!Quote, Quote
<1>2. \A c : Context!Image(c) = Image(c)
  BY DEF Context!Image, Image, Context!NeedsEscape, NeedsEscape, Context!Backslash, Backslash,
         Context!Quote, Quote, Context!Printed, Printed, Context!Unprintable, Unprintable,
         Context!Space, Space
<1>3. \A ss : Context!FlattenSeq(ss) = FlattenSeq(ss)
  BY DEF Context!FlattenSeq, FlattenSeq
<1>4. \A s : Context!Escaped(s) = Escaped(s)
  <2> TAKE s
  <2>1. [i \in DOMAIN s |-> Context!Image(s[i])] = [i \in DOMAIN s |-> Image(s[i])]
    BY <1>2
  <2>. QED  BY <1>3, <2>1, Zenon DEF Context!Escaped, Escaped
<1>5. \A s, i : Context!RemoveAt(s, i) = RemoveAt(s, i)
  BY DEF Context!RemoveAt, RemoveAt
<1>6. \A s : Context!Reverse(s) = Reverse(s)
  BY DEF Context!Reverse, Reverse
<1>7. \A s : Context!Prefixes(s) = Prefixes(s)
  BY DEF Context!Prefixes, Prefixes
<1>. QED  BY <1>1, <1>4, <1>5, <1>6, <1>7

\* Reading the pairs off a list.
LEMMA PairsTyped ==
    ASSUME Inv, NoneBroken, NEW t \in Threads
    PROVE  /\ PairsOf(t) \in Seq(Pairs)
           /\ Len(PairsOf(t)) = Len(order[t])
           /\ DOMAIN PairsOf(t) = 1..Len(order[t])
           /\ \A i \in 1..Len(order[t]) :
                  PairsOf(t)[i] = [key |-> key[order[t][i]], value |-> value[order[t][i]]]
<1>1. Len(order[t]) \in Nat
  BY DEF Inv, TypeOK
<1>2. ASSUME NEW i \in 1..Len(order[t]) PROVE Pair(order[t][i]) \in Pairs
  <2>1. order[t][i] \in live /\ order[t][i] \in Nodes
    BY OwnEntries DEF NoneBroken
  <2>2. key[order[t][i]] \in Keys /\ value[order[t][i]] \in Stored
    BY <2>1 DEF Inv, TypeOK, EntriesOwned
  <2>. QED  BY <2>2 DEF Pair, Pairs
<1>. QED  BY <1>1, <1>2 DEF PairsOf, Pair

LEMMA NoPairs ==
    ASSUME Inv, NoneBroken, NEW t \in Threads, order[t] = <<>>
    PROVE  PairsOf(t) = <<>>
<1>1. PairsOf(t) \in Seq(Pairs) /\ Len(PairsOf(t)) = 0
  BY PairsTyped
<1>. QED  BY <1>1, EmptySeq

\* The positions of a key in the context are those of its entries in the list.
LEMMA AtIs ==
    ASSUME Inv, NoneBroken, NEW t \in Threads, pc[t] # "empty", NEW k
    PROVE  Context!At(t, k) = {i \in 1..Len(order[t]) : key[order[t][i]] = k}
<1>1. Contents[t] = PairsOf(t)
  BY DEF Contents
<1>2. DOMAIN Contents[t] = 1..Len(order[t])
  BY <1>1, PairsTyped
<1>3. \A i \in 1..Len(order[t]) : Contents[t][i].key = key[order[t][i]]
  BY <1>1 DEF PairsOf, Pair
<1>4. Context!At(t, k) = {i \in DOMAIN Contents[t] : Contents[t][i].key = k}
  BY DEF Context!At
<1>. QED  BY <1>2, <1>3, <1>4

\* What other threads see of a step of t.
Alone(t) ==
    /\ Contents' = [Contents EXCEPT ![t] = Contents'[t]]
    /\ \A label : pc' = [pc EXCEPT ![t] = label] =>
           Inside' = [Inside EXCEPT ![t] = label \in {"get_list", "walk", "empty"}]
    /\ pc' = pc => Inside' = Inside

LEMMA StepAlone ==
    ASSUME Inv, NoneBroken, NEW t \in Threads, Step(t)
    PROVE  Alone(t)
<1>1. ASSUME NEW u \in Threads, u # t PROVE Contents'[u] = Contents[u]
  <2>1. Spared(u)
    BY <1>1, StepSpares
  <2>2. pc'[u] = pc[u]
    BY <1>1 DEF Step, GetList, GetListFails, SearchNext, PutReplace, PutReplaceFails,
          PutFails, GetMdc, RmMdc, PutNew, PutNewFails, EmptyNext, EmptyDone, WriteNext,
          WriteDone, Return, Break, Finish, Inv, TypeOK
  <2>3. PairsOf(u)' = PairsOf(u)
    BY <2>1, IntactAll DEF PairsOf, Pair, Spared, NoneBroken
  <2>. QED  BY <2>2, <2>3 DEF Contents
<1>2. Contents' = [Contents EXCEPT ![t] = Contents'[t]]
  <2>1. Contents' = [u \in Threads |-> Contents'[u]] /\ Contents = [u \in Threads |-> Contents[u]]
    BY DEF Contents
  <2>. QED  BY <1>1, <2>1
<1>3. ASSUME NEW label, pc' = [pc EXCEPT ![t] = label]
      PROVE  Inside' = [Inside EXCEPT ![t] = label \in {"get_list", "walk", "empty"}]
  BY <1>3 DEF Inside, Inv, TypeOK
<1>4. pc' = pc => Inside' = Inside
  BY DEF Inside
<1>. QED  BY <1>2, <1>3, <1>4 DEF Alone

\* A call that ends: the caller gets the result in the same step in both.
LEMMA ReturnMaps ==
    ASSUME Inv, NoneBroken, NEW t \in Threads, Step(t), NEW r, Return(t, r)
    PROVE  /\ Context!Return(t, r)
           /\ Contents' = [Contents EXCEPT ![t] = PairsOf(t)']
<1>1. Alone(t)
  BY StepAlone
<1>2. pc' = [pc EXCEPT ![t] = "idle"] /\ pc'[t] = "idle"
  BY DEF Return, Finish, Inv, TypeOK
<1>3. Inside' = [Inside EXCEPT ![t] = FALSE]
  <2>1. ("idle" \in {"get_list", "walk", "empty"}) = FALSE
    OBVIOUS
  <2>2. Inside' = [Inside EXCEPT ![t] = "idle" \in {"get_list", "walk", "empty"}]
    BY <1>1, <1>2 DEF Alone
  <2>. QED  BY <2>1, <2>2, Zenon
<1>4. Contents'[t] = PairsOf(t)'
  BY <1>2 DEF Contents
<1>. QED  BY <1>1, <1>3, <1>4 DEF Alone, Return, Finish, Context!Return, Context!NoCall, NoCall

LEMMA CallMaps ==
    ASSUME Inv, NoneBroken, NEW t \in Threads, NEW r \in Requests, Call(t, r) \/ RejectAdd(t, r)
    PROVE  Context!Call(t, r) \/ Context!RejectAdd(t, r)
<1>1. ~Inside[t]
  BY DEF Call, RejectAdd, Inside
<1>2. CASE Call(t, r)
  <2>1. pc' = [pc EXCEPT ![t] = "get_list"] /\ pc[t] = "idle"
    BY <1>2 DEF Call
  <2>2. Inside' = [Inside EXCEPT ![t] = TRUE]
    BY <2>1 DEF Inside, Inv, TypeOK
  <2>3. Contents' = Contents
    <3>1. \A u \in Threads : PairsOf(u)' = PairsOf(u)
      BY <1>2 DEF Call, heap, PairsOf, Pair
    <3>2. \A u \in Threads : pc'[u] = "empty" <=> pc[u] = "empty"
      BY <2>1 DEF Inv, TypeOK
    <3>. QED  BY <3>1, <3>2 DEF Contents
  <2>. QED  BY <1>1, <1>2, <2>2, <2>3, SameOperators
            DEF Call, Context!Call, Context!Pending, Context!Result, Pending, Result
<1>3. CASE RejectAdd(t, r)
  <2>1. Contents' = Contents /\ Inside' = Inside
    BY <1>3 DEF RejectAdd, heap, Contents, PairsOf, Pair, Inside
  <2>. QED  BY <1>1, <1>3, <2>1, SameOperators
            DEF RejectAdd, Context!RejectAdd, Context!Result, Result
<1>. QED  BY <1>2, <1>3

\* A search that is at its end has not found the key; one that stops at an
\* entry has found the pair of that key.
LEMMA SearchMaps ==
    ASSUME Inv, NoneBroken, NEW t \in Threads, Searching(t)
    PROVE  /\ Inside[t]
           /\ Contents[t] = PairsOf(t)
           /\ cur[t] = NULL => Context!At(t, call[t].key) = {}
           /\ Found(t) => \E i \in Context!At(t, call[t].key) :
                  i \in 1..Len(order[t]) /\ cur[t] = order[t][i]
<1>1. /\ pc[t] = "walk" /\ call[t].op \in Searches
      /\ order[t] \in Seq(Nodes) /\ Len(order[t]) \in Nat
  BY DEF Searching, Inv, TypeOK
<1>2. Inside[t] /\ Contents[t] = PairsOf(t)
  BY <1>1 DEF Inside, Contents
<1>3. Context!At(t, call[t].key) = {i \in 1..Len(order[t]) : key[order[t][i]] = call[t].key}
  BY <1>1, AtIs
<1>4. ASSUME cur[t] = NULL PROVE Context!At(t, call[t].key) = {}
  <2>1. PICK i \in 0..Len(order[t]) :
            /\ cur[t] = IF i = 0 THEN NULL ELSE order[t][i]
            /\ \A j \in (i + 1)..Len(order[t]) : key[order[t][j]] # call[t].key
    BY <1>1 DEF Inv, WalksOwnList, Walking
  <2>2. i = 0
    BY <1>1, <1>4, <2>1, PointerAssumption
  <2>. QED  BY <1>3, <2>1, <2>2
<1>5. ASSUME Found(t)
      PROVE  \E i \in Context!At(t, call[t].key) :
                 i \in 1..Len(order[t]) /\ cur[t] = order[t][i]
  <2>1. PICK i \in 1..Len(order[t]) : cur[t] = order[t][i]
    BY <1>1, <1>5, AtEntry DEF Found
  <2>2. i \in Context!At(t, call[t].key)
    BY <1>3, <1>5, <2>1 DEF Found
  <2>. QED  BY <2>1, <2>2
<1>. QED  BY <1>2, <1>4, <1>5

LEMMA ReplaceMaps ==
    ASSUME Inv, NoneBroken, NEW t \in Threads, PutReplace(t)
    PROVE  Context!Add(t)
<1>1. Searching(t) /\ call[t].op = "add" /\ Found(t) /\ Step(t)
  BY AllDefined DEF PutReplace, Step
<1>2. PICK i \in Context!At(t, call[t].key) : i \in 1..Len(order[t]) /\ cur[t] = order[t][i]
  BY <1>1, SearchMaps
<1> DEFINE new == [key |-> call[t].key, value |-> Escaped(call[t].value)]
<1>3. Context!NewPair(t) = new
  BY SameOperators DEF Context!NewPair
<1>4. PairsOf(t)' = [PairsOf(t) EXCEPT ![i] = new]
  <2>1. order' = order /\ key' = key /\ value' = [value EXCEPT ![cur[t]] = Escaped(call[t].value)]
    BY DEF PutReplace
  <2>2. order[t][i] \in Nodes /\ key[order[t][i]] = call[t].key
    BY <1>1, <1>2 DEF Inv, TypeOK, Found
  <2>3. value'[order[t][i]] = Escaped(call[t].value)
    BY <1>2, <2>1, <2>2 DEF Inv, TypeOK
  <2>4. ASSUME NEW j \in 1..Len(order[t]), j # i PROVE value'[order[t][j]] = value[order[t][j]]
    <3>1. order[t][j] # order[t][i] /\ order[t][j] \in Nodes
      BY <1>2, <2>4, OwnEntries DEF NoneBroken
    <3>. QED  BY <1>2, <2>1, <3>1 DEF Inv, TypeOK
  <2>. QED  BY <1>2, <2>1, <2>2, <2>3, <2>4 DEF PairsOf, Pair
<1>5. Context!Return(t, Result("ok", <<>>)) /\ Contents' = [Contents EXCEPT ![t] = PairsOf(t)']
  BY <1>1, ReturnMaps DEF PutReplace
<1>6. Contents' = [Contents EXCEPT ![t][i] = new]
  BY <1>1, <1>4, <1>5, SearchMaps
<1>. QED  BY <1>1, <1>2, <1>3, <1>5, <1>6, SearchMaps
          DEF Context!Add, Context!Doing, Context!Result, Result

LEMMA NewMaps ==
    ASSUME Inv, NoneBroken, NEW t \in Threads, NEW n \in Nodes, PutNew(t, n)
    PROVE  Context!Add(t)
<1>1. Searching(t) /\ call[t].op = "add" /\ cur[t] = NULL /\ n \notin live /\ Step(t)
  BY AllDefined DEF PutNew, Step
<1> DEFINE new == [key |-> call[t].key, value |-> Escaped(call[t].value)]
           o == order[t]
<1>2. Context!NewPair(t) = new
  BY SameOperators DEF Context!NewPair
<1>3. PairsOf(t)' = Append(PairsOf(t), new)
  <2>1. /\ o \in Seq(Nodes) /\ Len(o) \in Nat /\ order'[t] = Append(o, n)
        /\ \A m \in Nodes \ {n} : key'[m] = key[m] /\ value'[m] = value[m]
        /\ key'[n] = call[t].key /\ value'[n] = Escaped(call[t].value)
    BY DEF Inv, TypeOK, PutNew, AddToList
  <2>2. \A i \in 1..Len(o) : o[i] \in Nodes \ {n}
    BY <1>1, OwnEntries DEF NoneBroken
  <2>3. /\ Len(order'[t]) = Len(o) + 1
        /\ order'[t][Len(o) + 1] = n
        /\ \A i \in 1..Len(o) : order'[t][i] = o[i]
    BY <2>1
  <2>4. /\ PairsOf(t) \in Seq(Pairs) /\ Len(PairsOf(t)) = Len(o)
        /\ \A i \in 1..Len(o) : PairsOf(t)[i] = [key |-> key[o[i]], value |-> value[o[i]]]
    BY PairsTyped
  <2>5. PairsOf(t)' = [i \in 1..(Len(o) + 1) |->
                          [key |-> key'[order'[t][i]], value |-> value'[order'[t][i]]]]
    BY <2>3 DEF PairsOf, Pair
  <2>6. Append(PairsOf(t), new) = [i \in 1..(Len(o) + 1) |->
                                      IF i = Len(o) + 1 THEN new ELSE PairsOf(t)[i]]
    BY <2>4
  <2>7. ASSUME NEW i \in 1..(Len(o) + 1)
        PROVE  [key |-> key'[order'[t][i]], value |-> value'[order'[t][i]]]
                 = IF i = Len(o) + 1 THEN new ELSE PairsOf(t)[i]
    <3>1. CASE i = Len(o) + 1
      BY <2>1, <2>3, <3>1
    <3>2. CASE i # Len(o) + 1
      <4>1. i \in 1..Len(o)
        BY <2>1, <3>2, SMTT(30)
      <4>. QED  BY <2>1, <2>2, <2>3, <2>4, <3>2, <4>1, SMTT(30)
    <3>. QED  BY <3>1, <3>2
  <2>. QED  BY <2>5, <2>6, <2>7
<1>4. Context!Return(t, Result("ok", <<>>)) /\ Contents' = [Contents EXCEPT ![t] = PairsOf(t)']
  BY <1>1, ReturnMaps DEF PutNew
<1>5. Contents' = [Contents EXCEPT ![t] = Append(Contents[t], new)]
  BY <1>1, <1>3, <1>4, SearchMaps
<1>. QED  BY <1>1, <1>2, <1>4, <1>5, SearchMaps
          DEF Context!Add, Context!Doing, Context!Result, Result

\* A call that ends and leaves the entries as they are.
LEMMA QuietMaps ==
    ASSUME Inv, NoneBroken, NEW t \in Threads, Step(t), NEW r, Return(t, r), order' = order, key' = key, value' = value,
           Contents[t] = PairsOf(t)
    PROVE  Context!Return(t, r) /\ Contents' = Contents
<1>1. Context!Return(t, r) /\ Contents' = [Contents EXCEPT ![t] = PairsOf(t)']
  BY ReturnMaps
<1>2. PairsOf(t)' = PairsOf(t)
  BY DEF PairsOf, Pair
<1>3. Contents = [u \in Threads |-> Contents[u]]
  BY DEF Contents
<1>. QED  BY <1>1, <1>2, <1>3

LEMMA FailsMaps ==
    ASSUME Inv, NoneBroken, NEW t \in Threads, PutFails(t)
    PROVE  Context!AddFails(t)
<1>1. /\ Searching(t) /\ call[t].op = "add" /\ cur[t] = NULL /\ Step(t)
      /\ order' = order /\ key' = key /\ value' = value
      /\ Return(t, Result("ENOMEM", <<>>))
  BY AllDefined DEF PutFails, Step, heap
<1>2. /\ Inside[t] /\ Contents[t] = PairsOf(t) /\ Context!At(t, call[t].key) = {}
  BY <1>1, SearchMaps
<1>3. Context!Return(t, Result("ENOMEM", <<>>)) /\ Contents' = Contents
  BY <1>1, <1>2, QuietMaps
<1>. QED  BY <1>1, <1>2, <1>3 DEF Context!AddFails, Context!Doing, Context!Result, Result

LEMMA GetMaps ==
    ASSUME Inv, NoneBroken, NEW t \in Threads, GetMdc(t)
    PROVE  Context!GetMdc(t)
<1>1. /\ Searching(t) /\ call[t].op = "get" /\ Step(t)
      /\ order' = order /\ key' = key /\ value' = value
  BY AllDefined DEF GetMdc, Step, heap
<1>2. Inside[t] /\ Contents[t] = PairsOf(t)
  BY <1>1, SearchMaps
<1>3. ASSUME NEW r, Return(t, r) PROVE Context!Return(t, r) /\ Contents' = Contents
  BY <1>1, <1>2, <1>3, QuietMaps
<1>4. CASE Found(t) /\ Return(t, Result("ok", <<Pair(cur[t])>>))
  <2>1. PICK i \in Context!At(t, call[t].key) : i \in 1..Len(order[t]) /\ cur[t] = order[t][i]
    BY <1>1, <1>4, SearchMaps
  <2>2. Contents[t][i] = Pair(cur[t])
    BY <1>2, <2>1 DEF PairsOf
  <2>3. Context!Return(t, Context!Result("ok", <<Contents[t][i]>>)) /\ Contents' = Contents
    BY <1>3, <1>4, <2>2 DEF Context!Result, Result
  <2>. QED  BY <1>1, <1>2, <2>1, <2>3 DEF Context!GetMdc, Context!Doing
<1>5. CASE /\ Found(t) => "copy" \in Fail
           /\ Found(t) \/ cur[t] = NULL
           /\ Return(t, Result("ok", <<>>))
  <2>1. Context!At(t, call[t].key) = {} \/ "copy" \in Fail
    BY <1>1, <1>5, SearchMaps
  <2>2. Context!Return(t, Context!Result("ok", <<>>)) /\ Contents' = Contents
    BY <1>3, <1>5 DEF Context!Result, Result
  <2>. QED  BY <1>1, <1>2, <2>1, <2>2 DEF Context!GetMdc, Context!Doing
<1>. QED  BY <1>4, <1>5 DEF GetMdc

\* Taking the i-th entry out of a list takes the i-th pair out of the context.
LEMMA TakenOutMaps ==
    ASSUME Inv, NoneBroken, NEW t \in Threads, NEW i \in 1..Len(order[t]),
           Whole(t), TakenOut(t, order[t][i])
    PROVE  PairsOf(t)' = RemoveAt(PairsOf(t), i)
<1> DEFINE o == order[t]
           p == order'[t]
<1>1. /\ p \in Seq(Nodes)
      /\ Len(p) = Len(o) - 1
      /\ \A j \in 1..Len(p) : p[j] = IF j < i THEN o[j] ELSE o[j + 1]
      /\ \A j \in 1..Len(p) : p[j] # o[i]
      /\ \A m \in Nodes \ {o[i]} : key'[m] = key[m] /\ value'[m] = value[m]
  <2>1. Intact(t)' = 1..Len(p)
    BY DEF Whole, Intact
  <2>2. \A j \in Intact(t)' : p[j] # o[i]
    BY UnlinkInv
  <2>. QED  BY <2>1, <2>2, UnlinkInv
<1>2. o \in Seq(Nodes) /\ Len(o) \in Nat
  BY DEF Inv, TypeOK
<1>3. /\ PairsOf(t) \in Seq(Pairs) /\ Len(PairsOf(t)) = Len(o)
      /\ \A j \in 1..Len(o) : PairsOf(t)[j] = [key |-> key[o[j]], value |-> value[o[j]]]
  BY PairsTyped
<1> DEFINE q == RemoveAt(PairsOf(t), i)
<1>4. /\ q \in Seq(Pairs)
      /\ Len(q) = Len(o) - 1
      /\ \A j \in 1..(Len(o) - 1) :
             q[j] = IF j < i THEN PairsOf(t)[j] ELSE PairsOf(t)[j + 1]
  BY <1>3, RemoveAtProperties, SMTT(30)
<1>5. PairsOf(t)' = [j \in 1..(Len(o) - 1) |-> [key |-> key'[p[j]], value |-> value'[p[j]]]]
  BY <1>1 DEF PairsOf, Pair
<1>6. ASSUME NEW j \in 1..(Len(o) - 1) PROVE q[j] = [key |-> key'[p[j]], value |-> value'[p[j]]]
  <2>1. p[j] \in Nodes \ {o[i]}
    BY <1>1
  <2>2. key'[p[j]] = key[p[j]] /\ value'[p[j]] = value[p[j]]
    BY <1>1, <2>1
  <2>3. CASE j < i
    <3>1. j \in 1..Len(o) /\ p[j] = o[j] /\ q[j] = PairsOf(t)[j]
      BY <1>1, <1>2, <1>4, <2>3
    <3>. QED  BY <1>3, <2>2, <3>1
  <2>4. CASE ~(j < i)
    <3>1. j + 1 \in 1..Len(o) /\ p[j] = o[j + 1] /\ q[j] = PairsOf(t)[j + 1]
      BY <1>1, <1>2, <1>4, <2>4
    <3>. QED  BY <1>3, <2>2, <3>1
  <2>. QED  BY <2>3, <2>4
<1>7. q = [j \in 1..(Len(o) - 1) |-> q[j]]
  <2> HIDE DEF q
  <2>. QED  BY <1>4
<1> HIDE DEF q, p, o
<1>8. PairsOf(t)' = q
  BY <1>5, <1>6, <1>7
<1>. QED  BY <1>8 DEF q

LEMMA RemoveMaps ==
    ASSUME Inv, NoneBroken, NEW t \in Threads, RmMdc(t)
    PROVE  Context!RmMdc(t)
<1>1. /\ Searching(t) /\ call[t].op = "remove" /\ Step(t) /\ Return(t, Result("ok", <<>>))
  BY AllDefined DEF RmMdc, Step
<1>2. Inside[t] /\ Contents[t] = PairsOf(t)
  BY <1>1, SearchMaps
<1>3. CASE Found(t) /\ RmFromList(t, cur[t])
  <2>1. PICK i \in Context!At(t, call[t].key) : i \in 1..Len(order[t]) /\ cur[t] = order[t][i]
    BY <1>1, <1>3, SearchMaps
  <2>2. PairsOf(t)' = RemoveAt(Contents[t], i)
    <3>1. TakenOut(t, order[t][i])
      BY <1>3, <2>1 DEF RmFromList, TakenOut
    <3>2. Whole(t)
      BY <1>1, EmptyResult, ReturnInv DEF Inv, NoneBroken
    <3>. QED  BY <1>2, <2>1, <3>1, <3>2, TakenOutMaps
  <2>3. /\ Context!Return(t, Result("ok", <<>>))
        /\ Contents' = [Contents EXCEPT ![t] = Context!RemoveAt(Contents[t], i)]
    BY <1>1, <2>2, ReturnMaps, SameOperators
  <2>. QED  BY <1>1, <1>2, <2>1, <2>3
            DEF Context!RmMdc, Context!Doing, Context!Result, Result
<1>4. CASE cur[t] = NULL /\ UNCHANGED <<head, heap, order>>
  <2>1. Context!Return(t, Result("ok", <<>>)) /\ Contents' = Contents
    BY <1>1, <1>2, <1>4, QuietMaps DEF heap
  <2>. QED  BY <1>1, <1>2, <1>4, <2>1, SearchMaps
            DEF Context!RmMdc, Context!Doing, Context!Result, Result
<1>. QED  BY <1>3, <1>4 DEF RmMdc

\* What format_mdc() has written is the newest pairs of the context.
LEMMA SeenIsPrefix ==
    ASSUME Inv, NoneBroken, NEW t \in Threads, pc[t] = "walk", call[t].op = "write"
    PROVE  seen[t] \in Prefixes(Reverse(PairsOf(t)))
<1> DEFINE o == order[t]
           c == PairsOf(t)
           q == Reverse(c)
           l == Len(seen[t])
<1>1. o \in Seq(Nodes) /\ Len(o) \in Nat /\ seen[t] \in Seq(Pairs) /\ l \in Nat
  BY DEF Inv, TypeOK
<1>2. c \in Seq(Pairs) /\ Len(c) = Len(o)
  BY PairsTyped
<1>3. PICK i \in 0..Len(o) : /\ l = Len(o) - i
                             /\ \A k \in 1..l : seen[t][k] = Pair(o[Len(o) + 1 - k])
  BY DEF Inv, WalksOwnList, Walking
<1>4. q \in Seq(Pairs) /\ Len(q) = Len(o) /\ \A k \in 1..Len(o) : q[k] = c[(Len(o) - k) + 1]
  <2> HIDE DEF c
  <2>. QED  BY <1>1, <1>2, SMTT(30) DEF Reverse
<1>5. l \in 0..Len(q)
  BY <1>1, <1>3, <1>4
<1>6. ASSUME NEW k \in 1..l PROVE q[k] = seen[t][k]
  <2>1. k \in 1..Len(o) /\ (Len(o) - k) + 1 \in 1..Len(o) /\ (Len(o) - k) + 1 = Len(o) + 1 - k
    BY <1>1, <1>3
  <2>2. c[(Len(o) - k) + 1] = Pair(o[(Len(o) - k) + 1])
    BY <2>1 DEF PairsOf
  <2>. QED  BY <1>3, <1>4, <2>1, <2>2
<1> HIDE DEF q
<1>7. SubSeq(q, 1, l) \in Seq(Pairs) /\ Len(SubSeq(q, 1, l)) = l
      /\ \A k \in 1..l : SubSeq(q, 1, l)[k] = q[k]
  BY <1>1, <1>4, <1>5
<1>8. seen[t] = SubSeq(q, 1, l)
  <2> DEFINE s == SubSeq(q, 1, l)
  <2>1. s \in Seq(Pairs) /\ Len(s) = Len(seen[t]) /\ \A k \in 1..Len(s) : s[k] = seen[t][k]
    BY <1>6, <1>7
  <2> HIDE DEF s
  <2>2. s = seen[t]
    BY <1>1, <2>1, SeqEqual
  <2>. QED  BY <2>2 DEF s
<1>9. seen[t] \in Prefixes(q)
  BY <1>5, <1>8 DEF Prefixes
<1>. QED  BY <1>9 DEF q

LEMMA WriteMaps ==
    ASSUME Inv, NoneBroken, NEW t \in Threads, WriteDone(t)
    PROVE  Context!Write(t)
<1>1. /\ pc[t] = "walk" /\ call[t].op = "write" /\ Step(t)
      /\ order' = order /\ key' = key /\ value' = value
      /\ Return(t, Result("ok", seen[t]))
  BY AllDefined DEF WriteDone, Step, heap
<1>2. Inside[t] /\ Contents[t] = PairsOf(t)
  BY <1>1 DEF Inside, Contents
<1>3. Context!Return(t, Context!Result("ok", seen[t])) /\ Contents' = Contents
  BY <1>1, <1>2, QuietMaps DEF Result, Context!Result
<1>4. seen[t] \in Context!Prefixes(Context!Reverse(Contents[t]))
  BY <1>1, <1>2, SeenIsPrefix, SameOperators
<1>. QED  BY <1>1, <1>2, <1>3, <1>4 DEF Context!Write, Context!Doing

\* Without a list the context is empty, and get_list() failing shows in the
\* result of an addition only.
LEMMA NoListMaps ==
    ASSUME Inv, NoneBroken, NEW t \in Threads, GetListFails(t)
    PROVE  \/ Context!AddFails(t) \/ Context!GetMdc(t) \/ Context!RmMdc(t)
           \/ Context!Cleared(t) \/ Context!Write(t)
<1>1. /\ pc[t] = "get_list" /\ head[t] = NoList /\ Step(t)
      /\ order' = order /\ key' = key /\ value' = value
      /\ Return(t, Result(IF call[t].op = "add" THEN "ENOMEM" ELSE "ok", <<>>))
  BY AllDefined DEF GetListFails, Step, heap
<1>2. order[t] = <<>>
  <2>1. Linked(t) /\ order[t] \in Seq(Nodes)
    BY DEF Inv, AllLinked, TypeOK
  <2>2. order[t] # <<>> => order[t][Len(order[t])] \in Nodes
    BY <2>1
  <2>. QED  BY <1>1, <2>1, <2>2, PointerAssumption DEF Linked
<1>3. Inside[t] /\ Contents[t] = PairsOf(t) /\ PairsOf(t) = <<>>
  BY <1>1, <1>2, NoPairs DEF Inside, Contents
<1>4. /\ Context!Return(t, Context!Result(IF call[t].op = "add" THEN "ENOMEM" ELSE "ok", <<>>))
      /\ Contents' = Contents
  BY <1>1, <1>3, QuietMaps DEF Result, Context!Result
<1>5. Context!At(t, call[t].key) = {}
  BY <1>1, <1>2, AtIs
<1>6. <<>> \in Context!Prefixes(Context!Reverse(Contents[t]))
  <2>1. Reverse(<<>>) = <<>>
    BY DEF Reverse
  <2>2. SubSeq(<<>>, 1, 0) = <<>> /\ 0 \in 0..Len(<<>>)
    OBVIOUS
  <2>3. <<>> \in Prefixes(<<>>)
    BY <2>2, Zenon DEF Prefixes
  <2>. QED  BY <1>3, <2>1, <2>3, SameOperators
<1>7. call[t] \in Requests
  BY <1>1 DEF Inv, WalksOwnList, Walking
<1>8. CASE call[t].op = "add"
  BY <1>3, <1>4, <1>5, <1>8 DEF Context!AddFails, Context!Doing
<1>9. CASE call[t].op = "get"
  BY <1>3, <1>4, <1>5, <1>9 DEF Context!GetMdc, Context!Doing
<1>10. CASE call[t].op = "remove"
  BY <1>3, <1>4, <1>5, <1>10 DEF Context!RmMdc, Context!Doing
<1>11. CASE call[t].op \in Empties
  BY <1>3, <1>4, <1>11 DEF Context!Cleared, Context!Doing, Context!Empties, Empties
<1>12. CASE call[t].op = "write"
  BY <1>3, <1>4, <1>6, <1>12 DEF Context!Write, Context!Doing
<1>. QED  BY <1>7, <1>8, <1>9, <1>10, <1>11, <1>12 DEF Requests

\* Emptying begins when the loop of empty_list() does: the turns of the loop
\* are not seen any more, and the call returns once the list is empty.
LEMMA EmptyMaps ==
    ASSUME Inv, NoneBroken, NEW t \in Threads
    PROVE  /\ GetList(t) /\ call[t].op \in Empties => Context!Clear(t)
           /\ EmptyNext(t) => UNCHANGED <<Contents, Inside, call, ret>>
           /\ EmptyDone(t) => Context!Cleared(t)
<1>0. Contents = [u \in Threads |-> Contents[u]]
  BY DEF Contents
<1>1. ASSUME GetList(t), call[t].op \in Empties PROVE Context!Clear(t)
  <2>1. Alone(t) /\ pc' = [pc EXCEPT ![t] = "empty"] /\ pc'[t] = "empty"
    BY <1>1, StepAlone, AllDefined DEF GetList, Step, Inv, TypeOK
  <2>2. Contents' = [Contents EXCEPT ![t] = <<>>]
    <3>1. Contents'[t] = <<>>
      BY <2>1 DEF Contents
    <3>. QED  BY <2>1, <3>1 DEF Alone
  <2>3. Inside' = Inside
    BY <1>1, <2>1 DEF Inside, GetList, Inv, TypeOK
  <2>4. Inside[t]
    BY <1>1 DEF GetList, Inside
  <2>. QED  BY <1>1, <2>2, <2>3, <2>4
            DEF GetList, Context!Clear, Context!Doing, Context!Empties, Empties
<1>2. ASSUME EmptyNext(t) PROVE UNCHANGED <<Contents, Inside, call, ret>>
  <2>1. Alone(t) /\ pc' = pc /\ pc[t] = "empty" /\ call' = call /\ ret' = ret
    BY <1>2, StepAlone, AllDefined DEF EmptyNext, Step
  <2>2. Contents'[t] = Contents[t]
    BY <2>1 DEF Contents
  <2>. QED  BY <1>0, <2>1, <2>2 DEF Alone
<1>3. ASSUME EmptyDone(t) PROVE Context!Cleared(t)
  <2>1. /\ pc[t] = "empty" /\ cur[t] = NULL /\ Step(t) /\ Return(t, Result("ok", <<>>))
        /\ order' = order /\ key' = key /\ value' = value
    BY <1>3, AllDefined DEF EmptyDone, Step, heap
  <2>2. order[t] = <<>>
    BY <2>1, EmptyAt
  <2>3. Contents[t] = <<>> /\ PairsOf(t) = <<>> /\ Inside[t]
    BY <2>1, <2>2, NoPairs DEF Contents, Inside
  <2>4. Context!Return(t, Context!Result("ok", <<>>)) /\ Contents' = Contents
    BY <2>1, <2>3, QuietMaps DEF Result, Context!Result
  <2>5. call[t].op \in Empties
    BY <2>1 DEF Inv, WalksOwnList, Walking
  <2>. QED  BY <2>3, <2>4, <2>5 DEF Context!Cleared, Context!Doing, Context!Empties, Empties
<1>. QED  BY <1>1, <1>2, <1>3

\* The turns of the other loops, and get_list(), change nothing a caller sees.
LEMMA LoopMaps ==
    ASSUME Inv, NoneBroken, NEW t \in Threads,
           \/ GetList(t) /\ call[t].op \notin Empties
           \/ SearchNext(t) \/ WriteNext(t)
    PROVE  UNCHANGED <<Contents, Inside, call, ret>>
<1>1. /\ order' = order /\ key' = key /\ value' = value /\ call' = call /\ ret' = ret
      /\ \A u \in Threads : pc'[u] = pc[u] \/ (pc[u] = "get_list" /\ pc'[u] = "walk")
  BY DEF GetList, SearchNext, WriteNext, heap, Inv, TypeOK
<1>2. Contents' = Contents
  BY <1>1 DEF Contents, PairsOf, Pair
<1>3. Inside' = Inside
  BY <1>1 DEF Inside
<1>. QED  BY <1>1, <1>2, <1>3

\* Every step of the linked lists is a step of the contexts, or changes nothing
\* a caller of mdc.c can see.
LEMMA NextMaps ==
    ASSUME Inv, NoneBroken, [Next]_vars, {"key", "value"} \cap Fail = {}
    PROVE  [Context!Next]_<<Contents, Inside, call, ret>>
<1>1. CASE UNCHANGED vars
  BY <1>1 DEF vars, heap, Contents, PairsOf, Pair, Inside
<1>2. CASE Next
  <2>1. PICK t \in Threads : (\E r \in Requests : Call(t, r) \/ RejectAdd(t, r)) \/ Step(t)
    BY <1>2 DEF Next, CallBroken, NoneBroken, Broken
  <2>2. ASSUME \/ Context!Add(t) \/ Context!AddFails(t) \/ Context!GetMdc(t)
               \/ Context!RmMdc(t) \/ Context!Clear(t) \/ Context!Cleared(t)
               \/ Context!Write(t)
        PROVE  Context!Next
    BY <2>2 DEF Context!Next
  <2>3. CASE \E r \in Requests : Call(t, r) \/ RejectAdd(t, r)
    <3>1. PICK r \in Requests : Context!Call(t, r) \/ Context!RejectAdd(t, r)
      BY <2>3, CallMaps
    <3>2. r \in Context!Requests
      BY DEF Requests, Context!Requests, Empties, Context!Empties
    <3>. QED  BY <3>1, <3>2 DEF Context!Next
  <2>4. CASE GetList(t)
    BY <2>2, <2>4, EmptyMaps, LoopMaps
  <2>5. CASE GetListFails(t)
    BY <2>2, <2>5, NoListMaps
  <2>6. CASE SearchNext(t) \/ WriteNext(t)
    BY <2>6, LoopMaps
  <2>7. CASE PutReplace(t)
    BY <2>2, <2>7, ReplaceMaps
  <2>8. ~PutReplaceFails(t) /\ \A n \in Nodes : ~PutNewFails(t, n)
    BY DEF PutReplaceFails, PutNewFails
  <2>9. CASE PutFails(t)
    BY <2>2, <2>9, FailsMaps
  <2>10. CASE GetMdc(t)
    BY <2>2, <2>10, GetMaps
  <2>11. CASE RmMdc(t)
    BY <2>2, <2>11, RemoveMaps
  <2>12. CASE \E n \in Nodes : PutNew(t, n)
    BY <2>2, <2>12, NewMaps
  <2>13. CASE EmptyNext(t) \/ EmptyDone(t)
    BY <2>2, <2>13, EmptyMaps
  <2>14. CASE WriteDone(t)
    BY <2>2, <2>14, WriteMaps
  <2>. QED  BY <2>1, <2>3, <2>4, <2>5, <2>6, <2>7, <2>8, <2>9, <2>10, <2>11, <2>12, <2>13,
               <2>14 DEF Step
<1>. QED  BY <1>1, <1>2

LEMMA InitMaps == Init => Context!Init
<1> SUFFICES ASSUME Init PROVE Context!Init
  OBVIOUS
<1>1. Contents = [t \in Threads |-> <<>>]
  BY DEF Init, Contents, PairsOf
<1>2. Inside = [t \in Threads |-> FALSE]
  <2>1. \A t \in Threads : (pc[t] \in {"get_list", "walk", "empty"}) = FALSE
    BY DEF Init
  <2>. QED  BY <2>1, Zenon DEF Inside
<1>. QED  BY <1>1, <1>2 DEF Init, Context!Init, Context!NoCall, NoCall, Context!Result, Result

\* The linked lists of mdc.c, with their pointers, loops and allocations and
\* however the calls of the threads interleave, do what the contexts of
\* MdcContext promise: each call takes effect at one step, on the context of its
\* own thread, and returns what that context says.  Not so if put_mdc() cannot
\* allocate the copy of a key or a value: it then frees an entry it has linked.
THEOREM ListsImplementContexts ==
    ASSUME {"key", "value"} \cap Fail = {}
    PROVE  Spec => ImplementsContext
<1>1. Init => Context!Init
  BY InitMaps
<1>2. Init => NoneBroken
  BY DEF Init, NoneBroken, Broken
<1>3. Inv /\ NoneBroken /\ [Next]_vars => NoneBroken'
  BY NoneBreaks
<1>4. Inv /\ NoneBroken /\ [Next]_vars => [Context!Next]_(Context!vars)
  BY NextMaps DEF Context!vars
<1>. QED  BY <1>1, <1>2, <1>3, <1>4, Invariance, PTL DEF Spec, ImplementsContext, Context!Spec
=============================================================================
