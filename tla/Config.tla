------------------------------- MODULE Config -------------------------------
(***************************************************************************)
(* The library-global configuration of src/mdclog.c: the process identity, *)
(* the flag init_done, the read/write lock config_mutex, and the functions *)
(* that use them.  mdclog_init() sets the identity; every other public     *)
(* function initialises the library on first use; mdclog_write() reads the *)
(* identity under the lock and writes the entry after it has released it.  *)
(* init_done is read and written without the lock.                         *)
(*                                                                         *)
(* A call is split wherever another thread can see or change what it uses: *)
(* at every access to init_done, at the lock, at the unlock and at the     *)
(* write.  The attributes object belongs to one thread.                    *)
(***************************************************************************)
EXTENDS Integers, SequencesExt, JsonText

CONSTANTS
    Threads,    \* threads that call the library
    Strings,    \* the places on the heap a string can be allocated at
    Alloc(_),   \* the places malloc() may choose, of a set of free ones
    Idents,     \* identities the program sets, sequences of characters
    MaxIdent,   \* IDENTITY_MAX_LENGTH
    ProgName,   \* __progname, a sequence of characters
    NULL,       \* the null pointer
    NoAttr,     \* a thread has no attributes object
    MaxCalls    \* the number of calls the threads make

ASSUME PointerAssumption == NULL \notin Strings /\ NoAttr \notin Strings \cup {NULL}
ASSUME ThreadAssumption == NULL \notin Threads
ASSUME AllocAssumption == \A free \in SUBSET Strings : Alloc(free) \subseteq free
ASSUME BoundAssumption == MaxCalls \in Nat

VARIABLES
    init_done,  \* mdclog_configuration.init_done
    key_made,   \* pthread_once() has run create_pthread_key()
    identity,   \* mdclog_configuration.identity
    attr,       \* attr[t]: NoAttr, or the identity of t's attributes object
    text,       \* text[s]: the characters of an allocated string, NULL if free
    writer,     \* the thread that holds config_mutex for writing, or NULL
    readers,    \* the threads that hold it for reading
    pc,         \* pc[t]: where t is
    call,       \* call[t]: the function t is in, and whether it was given attr
    entry,      \* entry[t]: the identity in the entry t is writing, Null before
    calls,      \* how many calls the threads have made
    latest,     \* history: the identity the last mdclog_init() asked for
    overlapped, \* history: what an mdclog_init() has run beside: "init" for another
                \* mdclog_init(), "lazy" for an initialisation on first use
    failed      \* history: an allocation has failed

flags == <<init_done, key_made>>
strings == <<identity, attr, text>>
lock == <<writer, readers>>
local == <<call, entry, calls>>
history == <<latest, overlapped>>
vars == <<flags, strings, lock, pc, local, history, failed>>

-----------------------------------------------------------------------------
Calls == [op : {"init", "write", "mdc"}, attr : BOOLEAN]
NoCall == [op |-> "none", attr |-> FALSE]

\* Mutant: special characters are accepted.
AcceptedAny(id) == TRUE

\* What mdclog_attr_set_ident() accepts.  (It refuses NULL, and changes nothing.)
Accepted(id) == ~ContainsSpecial(id) /\ Len(id) <= MaxIdent

Default == Escaped(ProgName)
Texts == {Default} \cup {id \in Idents : Accepted(id)}
Null == <<"(null)">>        \* what format_identity() writes for NULL

ASSUME TextAssumption == NULL \notin {Default} \cup Idents

Live == {s \in Strings : text[s] # NULL}

Init ==
    /\ init_done = FALSE /\ key_made = FALSE
    /\ identity = NULL
    /\ attr = [t \in Threads |-> NoAttr]
    /\ text = [s \in Strings |-> NULL]
    /\ writer = NULL /\ readers = {}
    /\ pc = [t \in Threads |-> "idle"]
    /\ call = [t \in Threads |-> NoCall]
    /\ entry = [t \in Threads |-> Null]
    /\ calls = 0
    /\ latest = Default /\ overlapped = {} /\ failed = FALSE

Goto(t, from, to) == pc[t] = from /\ pc' = [pc EXCEPT ![t] = to]

\* A step of t that changes the lock only.
Locks(t, from, to) ==
    Goto(t, from, to) /\ UNCHANGED <<flags, strings, local, history, failed>>

\* t is inside init_library().
InLibrary(t) == pc[t] \in {"check", "once", "wrlock", "replace", "done", "unlock"}

\* What t, entering init_library() for op, makes run beside an mdclog_init().
Overlaps(t, op) ==
    LET others == {call[u].op : u \in {v \in Threads \ {t} : InLibrary(v)}} IN
    {kind \in {"init", "lazy"} : \E o \in others :
        /\ "init" \in {op, o}
        /\ kind = "init" <=> op = o}

\* Mutant: nothing is freed.
NotFreed(p) == text

\* free() of a string.
Freed(p) == [s \in Strings |-> IF s = p THEN NULL ELSE text[s]]

-----------------------------------------------------------------------------
\* mdclog_attr_init() and mdclog_attr_destroy().
AttrInit(t) ==
    /\ pc[t] = "idle" /\ attr[t] = NoAttr
    /\ attr' = [attr EXCEPT ![t] = NULL]
    /\ UNCHANGED <<flags, identity, text, lock, pc, local, history, failed>>

AttrDestroy(t) ==
    /\ pc[t] = "idle" /\ attr[t] # NoAttr
    /\ text' = Freed(attr[t])
    /\ attr' = [attr EXCEPT ![t] = NoAttr]
    /\ UNCHANGED <<flags, identity, lock, pc, local, history, failed>>

\* mdclog_attr_set_ident(): the string set before, if any, is forgotten without
\* being freed.  (The bound leaves a call to use the identity.)
AttrSetIdent(t, id) ==
    /\ pc[t] = "idle" /\ attr[t] # NoAttr
    /\ Accepted(id)
    /\ calls + 1 < MaxCalls /\ calls' = calls + 1
    /\ \/ \E s \in Alloc(Strings \ Live) :
              /\ text' = [text EXCEPT ![s] = id]
              /\ attr' = [attr EXCEPT ![t] = s]
              /\ UNCHANGED failed
       \/ /\ attr' = [attr EXCEPT ![t] = NULL]
          /\ failed' = TRUE
          /\ UNCHANGED text
    /\ UNCHANGED <<flags, identity, lock, pc, call, entry, history>>

\* mdclog_lib_clean(), which the unit tests call between two tests: it takes no
\* lock, and no other thread is in the library.
LibClean ==
    /\ \A t \in Threads : pc[t] = "idle"
    /\ text' = Freed(identity)
    /\ identity' = NULL
    /\ init_done' = FALSE
    /\ latest' = Default
    /\ UNCHANGED <<key_made, attr, lock, pc, local, overlapped, failed>>

-----------------------------------------------------------------------------
\* t enters init_library() for a call of the function op.
Enter(t, op, a) ==
    /\ Goto(t, "idle", "check")
    /\ calls < MaxCalls /\ calls' = calls + 1
    /\ call' = [call EXCEPT ![t] = [op |-> op, attr |-> a]]
    /\ overlapped' = overlapped \cup Overlaps(t, op)
    /\ UNCHANGED <<key_made, strings, lock, entry, failed>>

\* mdclog_init() clears init_done, so that init_library() does its work again.
MdclogInit(t, a) ==
    /\ a => attr[t] # NoAttr
    /\ init_done' = FALSE
    /\ latest' = IF a /\ attr[t] # NULL THEN text[attr[t]] ELSE Default
    /\ Enter(t, "init", a)

\* mdclog_write(), unless the level filters the message out, and the functions
\* on the diagnostic context.
UseLibrary(t, op) ==
    /\ Enter(t, op, FALSE)
    /\ UNCHANGED <<init_done, latest>>

\* init_library() returns: mdclog_write() goes on, the others are done here.
Leave(t, from) ==
    IF call[t].op = "write"
    THEN Goto(t, from, "rdlock") /\ UNCHANGED call
    ELSE Goto(t, from, "idle") /\ call' = [call EXCEPT ![t] = NoCall]

\* Mutant: init_done is set by the test, before the work is done.
CheckAndSet(t) ==
    /\ init_done' = TRUE
    /\ IF init_done THEN Leave(t, "check") ELSE Goto(t, "check", "once") /\ UNCHANGED call
    /\ UNCHANGED <<key_made, strings, lock, entry, calls, history, failed>>

\* The unprotected test of init_done.
Check(t) ==
    /\ IF init_done THEN Leave(t, "check") ELSE Goto(t, "check", "once") /\ UNCHANGED call
    /\ UNCHANGED <<flags, strings, lock, entry, calls, history, failed>>

\* mdclog_internal_init_mdc().
InitMdc(t) ==
    /\ Goto(t, "once", "wrlock")
    /\ key_made' = TRUE
    /\ UNCHANGED <<init_done, strings, lock, local, history, failed>>

\* Mutant: readers are let through.
NoWriter == writer = NULL

\* What pthread_rwlock_wrlock() waits for.
Unlocked == writer = NULL /\ readers = {}

WrLock(t) ==
    /\ Locks(t, "wrlock", "replace")
    /\ Unlocked
    /\ writer' = t /\ UNCHANGED readers

\* Mutants: the attributes are ignored; they keep their pointer to the identity.
NeverGiven(t) == FALSE
SharedAttr(t) == attr

\* The caller has given an identity, which the attributes give up.
Given(t) == call[t].attr /\ attr[t] # NULL
EmptiedAttr(t) == [attr EXCEPT ![t] = NULL]

\* The identity of attr moves to the configuration.
TakeIdentity(t) ==
    /\ Given(t)
    /\ identity' = attr[t]
    /\ attr' = EmptiedAttr(t)
    /\ text' = Freed(identity)
    /\ UNCHANGED failed

\* A copy of the program name, escaped where needed, becomes the identity;
\* without memory for it there is none.
DefaultIdentity(t) ==
    LET freed == Freed(identity) IN
    /\ ~Given(t)
    /\ \/ \E s \in Alloc({p \in Strings : freed[p] = NULL}) :
              /\ identity' = s
              /\ text' = [freed EXCEPT ![s] = Default]
              /\ UNCHANGED failed
       \/ identity' = NULL /\ text' = freed /\ failed' = TRUE
    /\ UNCHANGED attr

\* The body of init_library() under the lock: the old identity is freed.
Replace(t) ==
    /\ Goto(t, "replace", "done")
    /\ TakeIdentity(t) \/ DefaultIdentity(t)
    /\ UNCHANGED <<flags, lock, local, history>>

SetDone(t) ==
    /\ Goto(t, "done", "unlock")
    /\ init_done' = TRUE
    /\ UNCHANGED <<key_made, strings, lock, local, history, failed>>

WrUnlock(t) ==
    /\ Leave(t, "unlock")
    /\ writer' = NULL
    /\ UNCHANGED <<flags, strings, readers, entry, calls, history, failed>>

-----------------------------------------------------------------------------
RdLock(t) ==
    /\ Locks(t, "rdlock", "format")
    /\ writer = NULL
    /\ readers' = readers \cup {t} /\ UNCHANGED writer

\* mdclog_internal_format_to_json_str() copies the identity into the entry.
Format(t) ==
    /\ Goto(t, "format", "rdunlock")
    /\ entry' = [entry EXCEPT ![t] = IF identity = NULL THEN Null ELSE text[identity]]
    /\ UNCHANGED <<flags, strings, lock, call, calls, history, failed>>

\* Mutant: the lock is still held while the entry is written.
StillReading(t) == readers

\* pthread_rwlock_unlock() before the entry is written.
DoneReading(t) == readers \ {t}

RdUnlock(t) ==
    /\ Locks(t, "rdunlock", "write")
    /\ readers' = DoneReading(t) /\ UNCHANGED writer

\* write(), which is retried after a signal: it may wait as long as nobody reads
\* standard output, and then takes the entry, of at most PIPE_BUF bytes, as a
\* whole.  If it fails the entry is lost, and nobody is told.
Write(t) ==
    /\ Goto(t, "write", "idle")
    /\ call' = [call EXCEPT ![t] = NoCall]
    /\ entry' = [entry EXCEPT ![t] = Null]
    /\ UNCHANGED <<flags, strings, lock, calls, history, failed>>

-----------------------------------------------------------------------------
Step(t) ==
    \/ Check(t) \/ InitMdc(t) \/ WrLock(t) \/ Replace(t) \/ SetDone(t) \/ WrUnlock(t)
    \/ RdLock(t) \/ Format(t) \/ RdUnlock(t)

Next ==
    \/ LibClean
    \/ \E t \in Threads :
        \/ AttrInit(t) \/ AttrDestroy(t)
        \/ \E id \in Idents : AttrSetIdent(t, id)
        \/ \E a \in BOOLEAN : MdclogInit(t, a)
        \/ \E op \in {"write", "mdc"} : UseLibrary(t, op)
        \/ Step(t) \/ Write(t)

Spec == Init /\ [][Next]_vars

\* A thread inside the library keeps running while the lock lets it; write() may
\* wait for ever.
FairSpec == Spec /\ \A t \in Threads : WF_vars(Step(t))

-----------------------------------------------------------------------------
Labels == {"idle", "check", "once", "wrlock", "replace", "done", "unlock",
           "rdlock", "format", "rdunlock", "write"}

TypeOK ==
    /\ {init_done, key_made, failed} \subseteq BOOLEAN
    /\ identity \in Strings \cup {NULL}
    /\ attr \in [Threads -> Strings \cup {NULL, NoAttr}]
    /\ text \in [Strings -> {Default, NULL} \cup {id \in Idents : ~ContainsSpecial(id) /\ Len(id) <= MaxIdent}]
    /\ writer \in Threads \cup {NULL} /\ readers \subseteq Threads
    /\ pc \in [Threads -> Labels]
    /\ call \in [Threads -> Calls \cup {NoCall}]
    /\ entry \in [Threads -> Texts \cup {Null}]
    /\ calls \in 0..MaxCalls
    /\ latest \in Texts /\ overlapped \subseteq {"init", "lazy"}

\* Every string that the configuration or an attributes object points to is
\* allocated, and no two of them point to the same one: whoever frees it first
\* leaves no one behind with a dangling pointer, and no one frees it twice.
SoleOwner ==
    /\ identity \in Live \cup {NULL}
    /\ \A t \in Threads :
           /\ attr[t] \in Live \cup {NULL, NoAttr}
           /\ attr[t] \in Strings => attr[t] # identity
           /\ \A u \in Threads : attr[t] \in Strings /\ attr[t] = attr[u] => t = u

\* The identity does not change under a thread that is formatting an entry:
\* init_library() waits for all readers.
IdentityStable ==
    [][readers \cap readers' # {} => /\ identity' = identity
                                     /\ identity # NULL => text'[identity] = text[identity]]_vars

\* A thread that finds init_done set finds the library ready: the key of the
\* thread-specific data exists, and so does an identity unless memory ran out.
ReadyWhenDone == init_done => key_made /\ (identity # NULL \/ failed)

\* Every entry carries the identity the program chose or its name, even the
\* very first one and those written while mdclog_init() replaces it: never a
\* freed string, and "(null)" only when memory ran out.
EntryNamed ==
    \A t \in Threads : pc[t] \in {"rdunlock", "write"} =>
        entry[t] \in Texts \cup (IF failed THEN {Null} ELSE {})

\* No string gets lost: one that is owned is freed or handed on.  Only setting
\* an identity twice on the same attributes forgets the first one.
Owned == {identity} \cup {attr[t] : t \in Threads}

InitLosesNoString ==
    [][calls' = calls \/ pc' # pc =>
          \A s \in Strings : s \in Owned /\ text'[s] # NULL => s \in Owned']_vars

\* The configuration has the identity that the last mdclog_init() asked for.
Effective ==
    init_done /\ ~failed /\ (\A t \in Threads : ~InLibrary(t)) => text[identity] = latest

\* mdclog_init() takes effect if nothing else initialises the library beside it.
InitAloneTakesEffect == overlapped = {} => Effective

\* "Set init_done to zero so that the init is done always when this function is
\* called": mdclog_init() takes effect even if other threads use the library for
\* the first time beside it.
InitTakesEffect == "init" \notin overlapped => Effective

\* Every call returns, or gets as far as writing its entry, even if nobody reads
\* standard output: a thread that is stuck in write() holds no lock.
CallsReturn == \A t \in Threads : (pc[t] # "idle") ~> (pc[t] \in {"idle", "write"})
=============================================================================
