--------------------------------- MODULE Mdc ---------------------------------
(***************************************************************************)
(* The mapped diagnostic context of src/mdc.c and the public functions of  *)
(* src/mdclog.c that work on it.  Each thread owns a doubly linked list of *)
(* heap-allocated entries, reached through thread-specific data; all lists *)
(* take their entries from one heap, so that an entry one thread freed may *)
(* be the next one another thread allocates.                               *)
(*                                                                         *)
(* A call is split at every pointer it follows: get_list(), one turn of a  *)
(* loop over the list, and the last step that changes the list and         *)
(* returns.  Steps of different threads interleave.                        *)
(***************************************************************************)
EXTENDS Integers, SequencesExt, JsonText

CONSTANTS
    Threads,    \* threads that call the library
    Keys,       \* the keys they use, sequences of characters
    Values,     \* the values they use, sequences of characters
    Nodes,      \* the places on the heap an entry can be allocated at
    NULL,       \* the null pointer
    NoList,     \* the thread-specific data is still NULL: no list allocated
    Fail        \* the allocations that may fail at any time

Allocations == {"list", "entry", "key", "value", "copy"}

ASSUME PointerAssumption == /\ NULL \notin Nodes
                            /\ NoList \notin Nodes \cup {NULL}
ASSUME FailAssumption == Fail \subseteq Allocations

VARIABLES
    head,       \* head[t]: list->head of t's list, or NoList
    live,       \* the entries that are allocated
    prev, next, key, value,     \* the fields of the entries
    pc,         \* pc[t]: where t's call is: "idle", "get_list", "walk", "empty",
                \* "broken" once t's list has an entry that is freed, or
                \* "undefined" when t has gone on to use that list
    call,       \* call[t]: the operation and the arguments of the call t is in
    cur,        \* cur[t]: the local variable mdc of the call t is in, or of the
                \* one that has freed an entry that is still in t's list
    seen,       \* seen[t]: the pairs format_mdc() has written so far
    ret,        \* ret[t]: what t's last call returned, once it has
    order       \* order[t]: auxiliary, the entries linked into t's list, from
                \* oldest to newest

heap == <<live, prev, next, key, value>>
vars == <<head, heap, pc, call, cur, seen, ret, order>>

-----------------------------------------------------------------------------
Searches == {"add", "get", "remove"}
Empties == {"clean", "destroy"}

Requests ==
    [op : {"add"}, key : Keys, value : Values]
      \cup [op : {"get", "remove"}, key : Keys, value : {NULL}]
      \cup [op : {"write"} \cup Empties, key : {NULL}, value : {NULL}]

Stored == {Escaped(v) : v \in Values}
Pairs == [key : Keys, value : Stored]

ASSUME StringAssumption == NULL \notin Keys \cup Stored     \* no string is NULL
ASSUME TextAssumption == \A str \in Keys \cup Values : str \in Seq(Range(str))

NoCall == [op |-> "none", key |-> NULL, value |-> NULL]

Result(code, out) == [code |-> code, out |-> out]
Pending == Result("pending", <<>>)
Results == [code : {"pending", "ok", "ENOMEM", "EINVAL"}, out : Seq(Pairs)]

Pair(n) == [key |-> key[n], value |-> value[n]]

Init ==
    /\ head = [t \in Threads |-> NoList]
    /\ live = {}
    /\ prev = [n \in Nodes |-> NULL]
    /\ next = [n \in Nodes |-> NULL]
    /\ key = [n \in Nodes |-> NULL]
    /\ value = [n \in Nodes |-> NULL]
    /\ pc = [t \in Threads |-> "idle"]
    /\ call = [t \in Threads |-> NoCall]
    /\ cur = [t \in Threads |-> NULL]
    /\ seen = [t \in Threads |-> <<>>]
    /\ ret = [t \in Threads |-> Result("ok", <<>>)]
    /\ order = [t \in Threads |-> <<>>]

\* The contents of memory that has been freed mean nothing any more.
Freed(field, n) == [field EXCEPT ![n] = NULL]

\* Mutant: mdc_destroy() forgets to free the entry itself.
MdcDestroyLeaks(n) ==
    /\ key' = Freed(key, n)
    /\ value' = Freed(value, n)
    /\ UNCHANGED live

\* mdc_destroy() frees n and its strings, whether or not n is still linked.
MdcDestroy(n) ==
    /\ key' = Freed(key, n)
    /\ value' = Freed(value, n)
    /\ live' = live \ {n}

\* A call of t ends and gives the caller r.
Finish(t, r, label, n) ==
    /\ ret' = [ret EXCEPT ![t] = r]
    /\ pc' = [pc EXCEPT ![t] = label]
    /\ cur' = [cur EXCEPT ![t] = n]
    /\ seen' = [seen EXCEPT ![t] = <<>>]
    /\ call' = [call EXCEPT ![t] = NoCall]

Return(t, r) == Finish(t, r, "idle", NULL)

\* The call fails, but the entry n it has freed is still linked into t's list.
\* Until t uses that list again, the other threads go on, and may get n from the
\* heap.
Break(t, n) == Finish(t, Result("ENOMEM", <<>>), "broken", n)

\* t makes another call, or exits, which runs destroy_list(): it reads and writes
\* through the freed entry, or frees it again, and what it finds there may belong
\* to another thread.  Nothing is defined any more, for any thread.
CallBroken(t) ==
    /\ pc[t] = "broken"
    /\ pc' = [pc EXCEPT ![t] = "undefined"]
    /\ UNCHANGED <<head, heap, call, cur, seen, ret, order>>

Defined == \A t \in Threads : pc[t] # "undefined"

\* t calls mdclog_mdc_add(), mdclog_mdc_get(), mdclog_mdc_remove(),
\* mdclog_mdc_clean(), mdclog_write() or mdclog_internal_destroy_mdclist(), or
\* exits, which runs destroy_list() if t has a list; a thread that is started
\* later then takes t's place.
Call(t, r) ==
    /\ pc[t] = "idle"
    /\ r.op = "add" => ~ContainsSpecial(r.key)
    /\ call' = [call EXCEPT ![t] = r]
    /\ ret' = [ret EXCEPT ![t] = Pending]
    /\ pc' = [pc EXCEPT ![t] = "get_list"]
    /\ UNCHANGED <<head, heap, cur, seen, order>>

\* mdclog_mdc_add() refuses a key with special characters.
RejectAdd(t, r) ==
    /\ pc[t] = "idle"
    /\ r.op = "add" /\ ContainsSpecial(r.key)
    /\ ret' = [ret EXCEPT ![t] = Result("EINVAL", <<>>)]
    /\ UNCHANGED <<head, heap, pc, call, cur, seen, order>>

\* Mutant: get_list() does not allocate the list on first use.
GetListUnset(t) ==
    /\ pc[t] = "get_list"
    /\ cur' = [cur EXCEPT ![t] = head[t]]
    /\ pc' = [pc EXCEPT ![t] = IF call[t].op \in Empties THEN "empty" ELSE "walk"]
    /\ UNCHANGED <<head, heap, call, seen, ret, order>>

\* get_list(): the first use in a thread allocates the list and stores it in
\* the thread-specific data; the loop then starts at list->head.
GetList(t) ==
    /\ pc[t] = "get_list"
    /\ head' = [head EXCEPT ![t] = IF @ = NoList THEN NULL ELSE @]
    /\ cur' = [cur EXCEPT ![t] = head'[t]]
    /\ pc' = [pc EXCEPT ![t] = IF call[t].op \in Empties THEN "empty" ELSE "walk"]
    /\ UNCHANGED <<heap, call, seen, ret, order>>

\* get_list() returns NULL: adding fails, the others act on an empty list.
GetListFails(t) ==
    /\ pc[t] = "get_list"
    /\ head[t] = NoList
    /\ "list" \in Fail
    /\ Return(t, Result(IF call[t].op = "add" THEN "ENOMEM" ELSE "ok", <<>>))
    /\ UNCHANGED <<head, heap, order>>

-----------------------------------------------------------------------------
\* The loop of mdclog_internal_search_mdc().
Searching(t) == pc[t] = "walk" /\ call[t].op \in Searches
Found(t) == cur[t] # NULL /\ key[cur[t]] = call[t].key

\* Mutant: the loop ends one entry too early, the oldest is never compared.
SearchSkipsLast(t) ==
    /\ Searching(t)
    /\ cur[t] # NULL
    /\ key[cur[t]] # call[t].key
    /\ LET m == next[cur[t]] IN
         cur' = [cur EXCEPT ![t] = IF m # NULL /\ next[m] = NULL THEN NULL ELSE m]
    /\ UNCHANGED <<head, heap, pc, call, seen, ret, order>>

SearchNext(t) ==
    /\ Searching(t)
    /\ cur[t] # NULL
    /\ key[cur[t]] # call[t].key
    /\ cur' = [cur EXCEPT ![t] = next[cur[t]]]
    /\ UNCHANGED <<head, heap, pc, call, seen, ret, order>>

\* mdclog_internal_put_mdc() on a key that is set: the value is replaced.
PutReplace(t) ==
    /\ Searching(t)
    /\ call[t].op = "add"
    /\ Found(t)
    /\ value' = [value EXCEPT ![cur[t]] = Escaped(call[t].value)]
    /\ Return(t, Result("ok", <<>>))
    /\ UNCHANGED <<head, live, prev, next, key, order>>

\* The copy of the new value cannot be allocated: the entry is freed, and left
\* in the list.
PutReplaceFails(t) ==
    /\ Searching(t)
    /\ call[t].op = "add"
    /\ Found(t)
    /\ "value" \in Fail
    /\ MdcDestroy(cur[t])
    /\ Break(t, cur[t])
    /\ UNCHANGED <<head, prev, next, order>>

\* Mutant: there is one list head for all threads.
AddToSharedList(t, n) ==
    /\ prev' = [m \in Nodes |-> IF m = head[t] THEN n
                                ELSE IF m = n THEN NULL ELSE prev[m]]
    /\ next' = [next EXCEPT ![n] = head[t]]
    /\ head' = [u \in Threads |-> n]
    /\ order' = [order EXCEPT ![t] = Append(@, n)]

\* Mutant: list->head is set before it is copied to mdc->next.
AddToListSwapped(t, n) ==
    /\ head' = [head EXCEPT ![t] = n]
    /\ prev' = [prev EXCEPT ![n] = NULL]
    /\ next' = [next EXCEPT ![n] = n]
    /\ order' = [order EXCEPT ![t] = Append(@, n)]

\* add_to_list(): n becomes the head of t's list.
AddToList(t, n) ==
    /\ prev' = [m \in Nodes |-> IF m = head[t] THEN n
                                ELSE IF m = n THEN NULL ELSE prev[m]]
    /\ next' = [next EXCEPT ![n] = head[t]]
    /\ head' = [head EXCEPT ![t] = n]
    /\ order' = [order EXCEPT ![t] = Append(@, n)]

\* mdclog_internal_put_mdc() on a new key: an entry at any free place of the
\* heap gets copies of key and value and is linked in.
PutNew(t, n) ==
    /\ Searching(t)
    /\ call[t].op = "add"
    /\ cur[t] = NULL
    /\ n \notin live
    /\ AddToList(t, n)
    /\ key' = [key EXCEPT ![n] = call[t].key]
    /\ value' = [value EXCEPT ![n] = Escaped(call[t].value)]
    /\ live' = live \cup {n}
    /\ Return(t, Result("ok", <<>>))

\* One of the two copies cannot be allocated: the entry is freed after it has
\* been linked in.
PutNewFails(t, n) ==
    /\ Searching(t)
    /\ call[t].op = "add"
    /\ cur[t] = NULL
    /\ n \notin live
    /\ {"key", "value"} \cap Fail # {}
    /\ AddToList(t, n)
    /\ Break(t, n)
    /\ UNCHANGED <<live, key, value>>

\* alloc_entry() returns NULL, at the latest when the heap is exhausted.
PutFails(t) ==
    /\ Searching(t)
    /\ call[t].op = "add"
    /\ cur[t] = NULL
    /\ "entry" \in Fail \/ Nodes \subseteq live
    /\ Return(t, Result("ENOMEM", <<>>))
    /\ UNCHANGED <<head, heap, order>>

\* mdclog_mdc_get() returns a copy of the stored value, or NULL.
GetMdc(t) ==
    /\ Searching(t)
    /\ call[t].op = "get"
    /\ \/ /\ Found(t)
          /\ Return(t, Result("ok", <<Pair(cur[t])>>))
       \/ /\ Found(t) => "copy" \in Fail
          /\ Found(t) \/ cur[t] = NULL
          /\ Return(t, Result("ok", <<>>))
    /\ UNCHANGED <<head, heap, order>>

\* Mutant: the entry behind n keeps its pointer back to n.
RmFromListOneWay(t, n) ==
    /\ head' = [head EXCEPT ![t] = IF n = @ THEN next[n] ELSE @]
    /\ next' = Freed([m \in Nodes |-> IF m = prev[n] THEN next[n] ELSE next[m]], n)
    /\ prev' = Freed(prev, n)
    /\ order' = [order EXCEPT ![t] = RemoveFirst(@, n)]
    /\ MdcDestroy(n)

\* rm_from_list(): n is unlinked from t's list and freed.
RmFromList(t, n) ==
    /\ head' = [head EXCEPT ![t] = IF n = @ THEN next[n] ELSE @]
    /\ next' = Freed([m \in Nodes |-> IF m = prev[n] THEN next[n] ELSE next[m]], n)
    /\ prev' = Freed([m \in Nodes |-> IF m = next[n] THEN prev[n] ELSE prev[m]], n)
    /\ order' = [order EXCEPT ![t] = RemoveFirst(@, n)]
    /\ MdcDestroy(n)

\* mdclog_internal_rm_mdc().
RmMdc(t) ==
    /\ Searching(t)
    /\ call[t].op = "remove"
    /\ \/ Found(t) /\ RmFromList(t, cur[t])
       \/ cur[t] = NULL /\ UNCHANGED <<head, heap, order>>
    /\ Return(t, Result("ok", <<>>))

-----------------------------------------------------------------------------
\* Mutant: mdc->next is read after rm_from_list() has freed the entry.
EmptyUsesFreed(t) ==
    /\ pc[t] = "empty"
    /\ cur[t] # NULL
    /\ RmFromList(t, cur[t])
    /\ cur' = [cur EXCEPT ![t] = next'[cur[t]]]
    /\ UNCHANGED <<pc, call, seen, ret>>

\* One turn of the loop of empty_list().
EmptyNext(t) ==
    /\ pc[t] = "empty"
    /\ cur[t] # NULL
    /\ RmFromList(t, cur[t])
    /\ cur' = [cur EXCEPT ![t] = next[cur[t]]]
    /\ UNCHANGED <<pc, call, seen, ret>>

\* The loop is done; destroy_list() also frees the list itself.
EmptyDone(t) ==
    /\ pc[t] = "empty"
    /\ cur[t] = NULL
    /\ head' = [head EXCEPT ![t] = IF call[t].op = "destroy" THEN NoList ELSE @]
    /\ Return(t, Result("ok", <<>>))
    /\ UNCHANGED <<heap, order>>

\* format_mdc() writes one pair after the other, following next.
WriteNext(t) ==
    /\ pc[t] = "walk"
    /\ call[t].op = "write"
    /\ cur[t] # NULL
    /\ seen' = [seen EXCEPT ![t] = Append(@, Pair(cur[t]))]
    /\ cur' = [cur EXCEPT ![t] = next[cur[t]]]
    /\ UNCHANGED <<head, heap, pc, call, ret, order>>

\* The list is at its end, or the next pair does not fit into the buffer.
WriteDone(t) ==
    /\ pc[t] = "walk"
    /\ call[t].op = "write"
    /\ Return(t, Result("ok", seen[t]))
    /\ UNCHANGED <<head, heap, order>>

-----------------------------------------------------------------------------
\* The steps of a call that has begun.
Step(t) ==
    /\ Defined
    /\ \/ GetList(t) \/ GetListFails(t)
       \/ SearchNext(t) \/ PutReplace(t) \/ PutReplaceFails(t) \/ PutFails(t)
       \/ GetMdc(t) \/ RmMdc(t)
       \/ \E n \in Nodes : PutNew(t, n) \/ PutNewFails(t, n)
       \/ EmptyNext(t) \/ EmptyDone(t)
       \/ WriteNext(t) \/ WriteDone(t)

Next ==
    \E t \in Threads :
        \/ Defined /\ \E r \in Requests : Call(t, r) \/ RejectAdd(t, r)
        \/ Step(t)
        \/ Defined /\ CallBroken(t)

Spec == Init /\ [][Next]_vars

\* A thread inside the library keeps running: no call waits for anything.
FairSpec == Spec /\ \A t \in Threads : WF_vars(Step(t))

-----------------------------------------------------------------------------
TypeOK ==
    /\ head \in [Threads -> Nodes \cup {NULL, NoList}]
    /\ live \subseteq Nodes
    /\ prev \in [Nodes -> Nodes \cup {NULL}]
    /\ next \in [Nodes -> Nodes \cup {NULL}]
    /\ key \in [Nodes -> Keys \cup {NULL}]
    /\ value \in [Nodes -> Stored \cup {NULL}]
    /\ pc \in [Threads -> {"idle", "get_list", "walk", "empty", "broken", "undefined"}]
    /\ call \in [Threads -> Requests \cup {NoCall}]
    /\ cur \in [Threads -> Nodes \cup {NULL}]
    /\ seen \in [Threads -> Seq(Pairs)]
    /\ ret \in [Threads -> Results]
    /\ order \in [Threads -> Seq(Nodes)]

\* The positions in t's list of the entries that have not been freed: all of them,
\* unless a failed put has broken the list.
Broken(t) == pc[t] \in {"broken", "undefined"}
Intact(t) == {i \in 1..Len(order[t]) : Broken(t) => order[t][i] # cur[t]}

\* No entry is in two lists or twice in one, and the entries linked into the
\* lists are exactly the allocated ones, each with its key and its value: mdc.c
\* frees no entry that is still linked and loses none.  (The one exception is
\* the entry that a failed put has freed, see DamageConfined.)
EntriesOwned ==
    /\ \A t, u \in Threads : \A i \in Intact(t), j \in Intact(u) :
           order[t][i] = order[u][j] => t = u /\ i = j
    /\ \A n \in Nodes : n \in live <=> \E t \in Threads : \E i \in Intact(t) : order[t][i] = n
    /\ \A n \in live : key[n] # NULL /\ value[n] # NULL

\* The head, next and prev pointers of every list link its entries from the
\* newest to the oldest one after every step of add_to_list(), rm_from_list()
\* and empty_list(), however the steps of the threads interleave.
Linked(t) ==
    LET o == order[t] IN
        /\ o # <<>> => head[t] = o[Len(o)]
        /\ o = <<>> => head[t] \in {NULL, NoList}
        /\ \A i \in Intact(t) :
               /\ next[o[i]] = IF i = 1 THEN NULL ELSE o[i - 1]
               /\ prev[o[i]] = IF i = Len(o) THEN NULL ELSE o[i + 1]

ListLinked == \A t \in Threads : ~Broken(t) => Linked(t)

\* A put that fails leaves one entry of the list freed and no more: every other
\* one is allocated, in no other list, has a key and a value, and points to its
\* neighbours, even when the heap has given the freed entry to another thread,
\* which links it into its own list and frees it again.  This holds until the
\* thread uses its broken list.
DamageConfined ==
    \A t \in Threads : Broken(t) =>
        /\ \E i \in 1..Len(order[t]) : Intact(t) = (1..Len(order[t])) \ {i}
        /\ Linked(t)
        /\ \A i \in Intact(t) : LET n == order[t][i] IN
               /\ n \in live /\ key[n] # NULL /\ value[n] # NULL
               /\ \A u \in Threads \ {t} : \A j \in Intact(u) : order[u][j] # n

\* A list never holds a key twice: put_mdc() adds an entry only after it has
\* searched the whole list.
KeysUnique ==
    \A t \in Threads : \A i, j \in Intact(t) :
        key[order[t][i]] = key[order[t][j]] => i = j

\* A loop over a list never leaves it: the variable mdc is NULL or the i-th
\* entry of the thread's own list, no entry the search has passed has the key,
\* and format_mdc() has written exactly the pairs it has passed.
Walking(t) ==
    /\ pc[t] = "walk" => head[t] # NoList /\ call[t].op \notin Empties
    /\ pc[t] = "walk" => \E i \in 0..Len(order[t]) :
           /\ cur[t] = IF i = 0 THEN NULL ELSE order[t][i]
           /\ call[t].op \in Searches =>
                  \A j \in (i + 1)..Len(order[t]) : key[order[t][j]] # call[t].key
           /\ call[t].op = "write" =>
                  /\ Len(seen[t]) = Len(order[t]) - i
                  /\ \A k \in 1..Len(seen[t]) :
                         seen[t][k] = Pair(order[t][Len(order[t]) + 1 - k])
    /\ pc[t] = "empty" => head[t] # NoList /\ cur[t] = head[t] /\ call[t].op \in Empties
    /\ pc[t] \in {"idle", "get_list"} => seen[t] = <<>>
    /\ pc[t] \in {"get_list", "walk", "empty"} => call[t] \in Requests

WalksOwnList == \A t \in Threads : Walking(t)

\* format_mdc() copies keys and values between quotes as they are stored: each
\* of them, whatever the caller gave, must be legal there.
EntriesPrintable ==
    \A n \in live : JsonSafe(key[n]) /\ JsonSafe(value[n])

\* No step of another thread touches the entries of a thread that is outside
\* the library, although all lists share one heap.
OthersUntouched ==
    [][\A t \in Threads : pc[t] = "idle" /\ pc'[t] = "idle" =>
          /\ head'[t] = head[t]
          /\ \A i \in 1..Len(order[t]) : LET n == order[t][i] IN
                /\ n \in live'
                /\ next'[n] = next[n]
                /\ key'[n] = key[n]
                /\ value'[n] = value[n]]_vars

\* What the lists say: the pairs of each thread, none any more once emptying its
\* list has begun, and whether it is inside a call.
PairsOf(t) == [i \in 1..Len(order[t]) |-> Pair(order[t][i])]
Contents == [t \in Threads |-> IF pc[t] = "empty" THEN <<>> ELSE PairsOf(t)]
Inside == [t \in Threads |-> pc[t] \in {"get_list", "walk", "empty"}]

Context == INSTANCE MdcContext WITH ctx <- Contents, busy <- Inside

\* The lists implement the contexts of MdcContext: every call takes effect at
\* one step, a context being empty as soon as emptying its list has begun.
ImplementsContext == Context!Spec

\* Every call of a thread that keeps running returns, unless some thread has gone
\* on to use a broken list: the loops over the list end, although other threads
\* allocate and free entries meanwhile.
CallsReturn ==
    \A t \in Threads : (pc[t] # "idle") ~> (pc[t] \in {"idle", "broken"} \/ ~Defined)

\* "Get first MDC in the list for the thread or null if there are no MDC's
\* set": what get_first_mdc() returns to a thread is NULL or an entry that is
\* set and has not been freed.
FirstMdcIsSet ==
    \A t \in Threads : head[t] \in live \cup {NULL, NoList}
=============================================================================
