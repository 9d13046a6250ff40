----------------------------- MODULE MdcContext -----------------------------
(***************************************************************************)
(* What the mapped diagnostic context promises its callers: every thread   *)
(* has a context of its own, a list of key/value pairs in the order the    *)
(* keys were first set, and each call acts on it in one step, whatever the *)
(* other threads do.  Values are kept escaped.  Adding may fail for want   *)
(* of memory and then changes nothing.                                     *)
(***************************************************************************)
EXTENDS Integers, SequencesExt, JsonText

CONSTANTS Threads, Keys, Values, NULL, Fail

VARIABLES
    ctx,        \* ctx[t]: t's pairs, the one whose key was set first first
    busy,       \* busy[t]: t is inside a call
    call,       \* call[t]: the operation and the arguments of the call t is in
    ret         \* ret[t]: what t's last call returned, once it has

vars == <<ctx, busy, call, ret>>

Empties == {"clean", "destroy"}

Requests ==
    [op : {"add"}, key : Keys, value : Values]
      \cup [op : {"get", "remove"}, key : Keys, value : {NULL}]
      \cup [op : {"write"} \cup Empties, key : {NULL}, value : {NULL}]

NoCall == [op |-> "none", key |-> NULL, value |-> NULL]

Result(code, out) == [code |-> code, out |-> out]
Pending == Result("pending", <<>>)

Init ==
    /\ ctx = [t \in Threads |-> <<>>]
    /\ busy = [t \in Threads |-> FALSE]
    /\ call = [t \in Threads |-> NoCall]
    /\ ret = [t \in Threads |-> Result("ok", <<>>)]

Call(t, r) ==
    /\ ~busy[t]
    /\ r.op = "add" => ~ContainsSpecial(r.key)
    /\ call' = [call EXCEPT ![t] = r]
    /\ busy' = [busy EXCEPT ![t] = TRUE]
    /\ ret' = [ret EXCEPT ![t] = Pending]
    /\ UNCHANGED ctx

RejectAdd(t, r) ==
    /\ ~busy[t]
    /\ r.op = "add" /\ ContainsSpecial(r.key)
    /\ ret' = [ret EXCEPT ![t] = Result("EINVAL", <<>>)]
    /\ UNCHANGED <<ctx, busy, call>>

Doing(t, ops) == busy[t] /\ call[t].op \in ops

Return(t, r) ==
    /\ ret' = [ret EXCEPT ![t] = r]
    /\ busy' = [busy EXCEPT ![t] = FALSE]
    /\ call' = [call EXCEPT ![t] = NoCall]

\* The positions of the pairs of t that have key k.
At(t, k) == {i \in DOMAIN ctx[t] : ctx[t][i].key = k}

\* Mutant: the value is kept as it was given.
RawPair(t) == [key |-> call[t].key, value |-> call[t].value]

NewPair(t) == [key |-> call[t].key, value |-> Escaped(call[t].value)]

\* A key that is set keeps its place and gets the new value, a new one is last.
Add(t) ==
    /\ Doing(t, {"add"})
    /\ \/ \E i \in At(t, call[t].key) : ctx' = [ctx EXCEPT ![t][i] = NewPair(t)]
       \/ /\ At(t, call[t].key) = {}
          /\ ctx' = [ctx EXCEPT ![t] = Append(@, NewPair(t))]
    /\ Return(t, Result("ok", <<>>))

\* There may always be no memory for one more entry.
AddFails(t) ==
    /\ Doing(t, {"add"})
    /\ At(t, call[t].key) = {} \/ "value" \in Fail
    /\ Return(t, Result("ENOMEM", <<>>))
    /\ UNCHANGED ctx

\* Without memory for the caller's copy a key that is set looks like a missing one.
GetMdc(t) ==
    /\ Doing(t, {"get"})
    /\ \/ \E i \in At(t, call[t].key) : Return(t, Result("ok", <<ctx[t][i]>>))
       \/ /\ At(t, call[t].key) = {} \/ "copy" \in Fail
          /\ Return(t, Result("ok", <<>>))
    /\ UNCHANGED ctx

RmMdc(t) ==
    /\ Doing(t, {"remove"})
    /\ \/ \E i \in At(t, call[t].key) : ctx' = [ctx EXCEPT ![t] = RemoveAt(@, i)]
       \/ At(t, call[t].key) = {} /\ UNCHANGED ctx
    /\ Return(t, Result("ok", <<>>))

\* Cleaning, and the exit of the thread, remove every pair at once.
Clear(t) ==
    /\ Doing(t, Empties)
    /\ ctx' = [ctx EXCEPT ![t] = <<>>]
    /\ UNCHANGED <<busy, call, ret>>

Cleared(t) ==
    /\ Doing(t, Empties)
    /\ ctx[t] = <<>>
    /\ Return(t, Result("ok", <<>>))
    /\ UNCHANGED ctx

\* A log entry shows the newest pairs first, as many as fit into it.
Write(t) ==
    /\ Doing(t, {"write"})
    /\ \E out \in Prefixes(Reverse(ctx[t])) : Return(t, Result("ok", out))
    /\ UNCHANGED ctx

Next ==
    \E t \in Threads :
        \/ \E r \in Requests : Call(t, r) \/ RejectAdd(t, r)
        \/ Add(t) \/ AddFails(t) \/ GetMdc(t) \/ RmMdc(t)
        \/ Clear(t) \/ Cleared(t) \/ Write(t)

Spec == Init /\ [][Next]_vars
=============================================================================
