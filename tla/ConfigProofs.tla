---------------------------- MODULE ConfigProofs ----------------------------
(***************************************************************************)
(* Theorems about Config for any sets of threads, strings and identities.  *)
(***************************************************************************)
EXTENDS Config, TLAPS

\* config_mutex is held by exactly the threads that are between the calls that
\* take and release it, by one writer or by readers.
LockHeld ==
    /\ \A t \in Threads : writer = t <=> pc[t] \in {"replace", "done", "unlock"}
    /\ \A t \in Threads : t \in readers <=> pc[t] \in {"format", "rdunlock"}
    /\ writer # NULL => readers = {}

\* A thread outside the library is in no call, and only mdclog_init() was given
\* an attributes object, which the thread still has.
CallKnown ==
    \A t \in Threads :
        /\ pc[t] = "idle" => call[t] = NoCall
        /\ call[t].attr => call[t].op = "init" /\ attr[t] # NoAttr

\* What init_library() has done for a thread that is this far.
Prepared ==
    \A t \in Threads :
        /\ pc[t] \in {"wrlock", "replace", "done"} => key_made
        /\ pc[t] \in {"done", "unlock", "rdlock", "format"} => identity # NULL \/ failed

Inv == TypeOK /\ SoleOwner /\ LockHeld /\ CallKnown /\ Prepared /\ ReadyWhenDone /\ EntryNamed

-----------------------------------------------------------------------------
LEMMA InitInv == Init => Inv
<1> SUFFICES ASSUME Init PROVE Inv
  OBVIOUS
<1>1. TypeOK
  <2>1. calls \in 0..MaxCalls /\ entry \in [Threads -> Texts \cup {Null}] /\ latest \in Texts
    BY BoundAssumption DEF Init, Texts
  <2>. QED  BY <2>1 DEF Init, TypeOK, NoCall, Labels
<1>2. SoleOwner
  BY PointerAssumption DEF Init, SoleOwner
<1>3. LockHeld
  BY ThreadAssumption DEF Init, LockHeld
<1>4. CallKnown /\ Prepared /\ ReadyWhenDone /\ EntryNamed
  BY DEF Init, CallKnown, Prepared, ReadyWhenDone, EntryNamed, NoCall
<1>. QED  BY <1>1, <1>2, <1>3, <1>4 DEF Inv

LEMMA NextInv == ASSUME Inv, [Next]_vars PROVE Inv'
<1> USE PointerAssumption DEF Inv, flags, strings, lock, local, history, Goto
<1>1. CASE LibClean
  <2>1. TypeOK'
    BY <1>1 DEF LibClean, Freed, TypeOK, Texts
  <2>2. SoleOwner'
    BY <1>1 DEF LibClean, Freed, TypeOK, SoleOwner, Live
  <2>3. LockHeld' /\ CallKnown' /\ Prepared' /\ ReadyWhenDone' /\ EntryNamed'
    BY <1>1 DEF LibClean, TypeOK, LockHeld, CallKnown, Prepared, ReadyWhenDone, EntryNamed
  <2>. QED  BY <2>1, <2>2, <2>3
<1>2. ASSUME NEW t \in Threads, AttrInit(t) PROVE Inv'
  BY <1>2 DEF AttrInit, TypeOK, SoleOwner, Live, LockHeld, CallKnown, Prepared, ReadyWhenDone, EntryNamed, NoCall
<1>3. ASSUME NEW t \in Threads, AttrDestroy(t) PROVE Inv'
  BY <1>3 DEF AttrDestroy, Freed, TypeOK, SoleOwner, Live, LockHeld, CallKnown, Prepared, ReadyWhenDone, EntryNamed, NoCall
<1>4. ASSUME NEW t \in Threads, NEW id \in Idents, AttrSetIdent(t, id) PROVE Inv'
  <2>1. LockHeld' /\ CallKnown' /\ Prepared' /\ ReadyWhenDone' /\ EntryNamed'
    BY <1>4 DEF AttrSetIdent, TypeOK, LockHeld, CallKnown, Prepared, ReadyWhenDone, EntryNamed, NoCall
  <2>2. ASSUME NEW s \in Alloc(Strings \ Live),
               text' = [text EXCEPT ![s] = id], attr' = [attr EXCEPT ![t] = s],
               UNCHANGED failed
        PROVE  TypeOK' /\ SoleOwner'
    <3>1. s \in Strings /\ text[s] = NULL
      BY <2>2, AllocAssumption DEF Live
    <3>2. TypeOK'
      BY <1>4, <2>2, <3>1, BoundAssumption DEF AttrSetIdent, Accepted, TypeOK
    <3>3. \A p \in Strings : text[p] # NULL => text'[p] # NULL
      BY <2>2, <3>1 DEF TypeOK
    <3>4. text'[s] # NULL
      BY <2>2, <3>1, TextAssumption DEF TypeOK
    <3>5. SoleOwner'
      BY <1>4, <2>2, <3>1, <3>3, <3>4 DEF AttrSetIdent, TypeOK, SoleOwner, Live
    <3>. QED  BY <3>2, <3>5
  <2>3. ASSUME attr' = [attr EXCEPT ![t] = NULL], failed' = TRUE, UNCHANGED text
        PROVE  TypeOK' /\ SoleOwner'
    BY <1>4, <2>3, BoundAssumption DEF AttrSetIdent, TypeOK, SoleOwner, Live
  <2>. QED  BY <1>4, <2>1, <2>2, <2>3 DEF AttrSetIdent
<1>5. ASSUME NEW t \in Threads, NEW a \in BOOLEAN, MdclogInit(t, a) PROVE Inv'
  <2>1. latest' \in Texts
    BY <1>5 DEF MdclogInit, TypeOK, SoleOwner, Live, Texts, Accepted
  <2>2. Overlaps(t, "init") \subseteq {"init", "lazy"}
    BY DEF Overlaps
  <2>3. TypeOK'
    <3>1. calls' \in 0..MaxCalls
      BY <1>5, BoundAssumption DEF MdclogInit, Enter, TypeOK
    <3>2. pc' \in [Threads -> Labels] /\ call' \in [Threads -> Calls \cup {NoCall}]
      BY <1>5 DEF MdclogInit, Enter, TypeOK, Labels, Calls
    <3>. QED  BY <1>5, <2>1, <2>2, <3>1, <3>2 DEF MdclogInit, Enter, TypeOK
  <2>4. SoleOwner'
    BY <1>5 DEF MdclogInit, Enter, SoleOwner, Live
  <2>5. LockHeld' /\ CallKnown' /\ Prepared' /\ ReadyWhenDone' /\ EntryNamed'
    BY <1>5 DEF MdclogInit, Enter, TypeOK, LockHeld, CallKnown, Prepared, ReadyWhenDone, EntryNamed, NoCall
  <2>. QED  BY <2>3, <2>4, <2>5
<1>6. ASSUME NEW t \in Threads, NEW op \in {"write", "mdc"}, UseLibrary(t, op) PROVE Inv'
  <2>1. Overlaps(t, op) \subseteq {"init", "lazy"}
    BY DEF Overlaps
  <2>2. TypeOK'
    <3>1. calls' \in 0..MaxCalls
      BY <1>6, BoundAssumption DEF UseLibrary, Enter, TypeOK
    <3>2. pc' \in [Threads -> Labels] /\ call' \in [Threads -> Calls \cup {NoCall}]
      BY <1>6 DEF UseLibrary, Enter, TypeOK, Labels, Calls
    <3>. QED  BY <1>6, <2>1, <3>1, <3>2 DEF UseLibrary, Enter, TypeOK
  <2>3. SoleOwner'
    BY <1>6 DEF UseLibrary, Enter, SoleOwner, Live
  <2>4. LockHeld' /\ CallKnown' /\ Prepared' /\ ReadyWhenDone' /\ EntryNamed'
    BY <1>6 DEF UseLibrary, Enter, TypeOK, LockHeld, CallKnown, Prepared, ReadyWhenDone, EntryNamed, NoCall
  <2>. QED  BY <2>2, <2>3, <2>4
<1>7. ASSUME NEW t \in Threads, Check(t) PROVE Inv'
  <2>1. TypeOK' /\ SoleOwner'
    BY <1>7 DEF Check, Leave, TypeOK, Labels, Calls, NoCall, SoleOwner, Live
  <2>2. CallKnown'
    <3>1. CASE ~init_done \/ call[t].op = "write"
      BY <1>7, <3>1 DEF Check, Leave, TypeOK, CallKnown
    <3>2. CASE init_done /\ call[t].op # "write"
      BY <1>7, <3>2 DEF Check, Leave, TypeOK, CallKnown, NoCall
    <3>. QED  BY <3>1, <3>2
  <2>3. LockHeld' /\ ReadyWhenDone' /\ EntryNamed'
    BY <1>7 DEF Check, Leave, TypeOK, LockHeld, ReadyWhenDone, EntryNamed
  <2>4. Prepared'
    BY <1>7 DEF Check, Leave, TypeOK, Prepared, ReadyWhenDone
  <2>. QED  BY <2>1, <2>2, <2>3, <2>4
<1>8. ASSUME NEW t \in Threads, InitMdc(t) PROVE Inv'
  BY <1>8 DEF InitMdc, TypeOK, Labels, SoleOwner, Live, LockHeld, CallKnown, Prepared, ReadyWhenDone, EntryNamed
<1>9. ASSUME NEW t \in Threads, WrLock(t) PROVE Inv'
  BY <1>9, ThreadAssumption DEF WrLock, Locks, Unlocked, TypeOK, Labels, SoleOwner, Live, LockHeld, CallKnown,
        Prepared, ReadyWhenDone, EntryNamed
<1>10. ASSUME NEW t \in Threads, Replace(t) PROVE Inv'
  <2>1. LockHeld' /\ EntryNamed'
    <3>1. failed => failed'
      BY <1>10 DEF Replace, TakeIdentity, DefaultIdentity
    <3>. QED  BY <1>10, <3>1 DEF Replace, TypeOK, LockHeld, EntryNamed
  <2>2. CASE TakeIdentity(t)
    <3>1. attr[t] \in Strings /\ text[attr[t]] # NULL /\ attr[t] # identity
      BY <2>2 DEF TakeIdentity, Given, TypeOK, CallKnown, SoleOwner, Live
    <3>2. TypeOK'
      BY <1>10, <2>2, <3>1 DEF Replace, TakeIdentity, EmptiedAttr, Freed, TypeOK, Labels
    <3>3. SoleOwner'
      BY <2>2, <3>1 DEF TakeIdentity, EmptiedAttr, Freed, TypeOK, SoleOwner, Live
    <3>4. CallKnown' /\ Prepared' /\ ReadyWhenDone'
      BY <1>10, <2>2, <3>1 DEF Replace, TakeIdentity, EmptiedAttr, TypeOK, CallKnown, Prepared, ReadyWhenDone
    <3>. QED  BY <2>1, <3>2, <3>3, <3>4
  <2>3. CASE DefaultIdentity(t)
    <3> DEFINE freed == Freed(identity)
    <3>1. /\ freed \in [Strings -> {Default, NULL} \cup {id \in Idents : ~ContainsSpecial(id)}]
          /\ \A p \in Strings : freed[p] = IF p = identity THEN NULL ELSE text[p]
      BY DEF Freed, TypeOK
    <3> HIDE DEF freed
    <3>2. ASSUME NEW s \in Alloc({p \in Strings : freed[p] = NULL}),
                 identity' = s, text' = [freed EXCEPT ![s] = Default], UNCHANGED failed, UNCHANGED attr
          PROVE  Inv'
      <4>1. s \in Strings /\ freed[s] = NULL /\ s # NULL
        BY <3>2, AllocAssumption
      <4>2. TypeOK'
        BY <1>10, <3>1, <3>2, <4>1 DEF Replace, TypeOK, Labels
      <4>3. ASSUME NEW u \in Threads, attr[u] \in Strings
            PROVE  attr[u] # s /\ text'[attr[u]] # NULL
        BY <3>1, <3>2, <4>1, <4>3 DEF SoleOwner, Live
      <4>4. text'[s] # NULL
        BY <3>1, <3>2, <4>1, TextAssumption
      <4>5. SoleOwner'
        BY <3>2, <4>1, <4>3, <4>4 DEF TypeOK, SoleOwner, Live
      <4>6. CallKnown' /\ Prepared' /\ ReadyWhenDone'
        BY <1>10, <3>2, <4>1 DEF Replace, TypeOK, CallKnown, Prepared, ReadyWhenDone
      <4>. QED  BY <2>1, <4>2, <4>5, <4>6
    <3>3. ASSUME identity' = NULL, text' = freed, failed' = TRUE, UNCHANGED attr
          PROVE  Inv'
      <4>1. TypeOK'
        BY <1>10, <3>1, <3>3 DEF Replace, TypeOK, Labels
      <4>2. SoleOwner'
        BY <3>1, <3>3 DEF TypeOK, SoleOwner, Live
      <4>3. CallKnown' /\ Prepared' /\ ReadyWhenDone'
        BY <1>10, <3>3 DEF Replace, TypeOK, CallKnown, Prepared, ReadyWhenDone
      <4>. QED  BY <2>1, <4>1, <4>2, <4>3
    <3>. QED  BY <2>3, <3>2, <3>3 DEF DefaultIdentity, freed
  <2>. QED  BY <1>10, <2>2, <2>3 DEF Replace
<1>11. ASSUME NEW t \in Threads, SetDone(t) PROVE Inv'
  BY <1>11 DEF SetDone, TypeOK, Labels, SoleOwner, Live, LockHeld, CallKnown, Prepared, ReadyWhenDone, EntryNamed
<1>12. ASSUME NEW t \in Threads, WrUnlock(t) PROVE Inv'
  <2>1. TypeOK' /\ SoleOwner'
    BY <1>12 DEF WrUnlock, Leave, TypeOK, Labels, Calls, NoCall, SoleOwner, Live
  <2>2. LockHeld'
    BY <1>12, ThreadAssumption DEF WrUnlock, Leave, TypeOK, LockHeld
  <2>3. CallKnown'
    <3>1. CASE call[t].op = "write"
      BY <1>12, <3>1 DEF WrUnlock, Leave, TypeOK, CallKnown
    <3>2. CASE call[t].op # "write"
      BY <1>12, <3>2 DEF WrUnlock, Leave, TypeOK, CallKnown, NoCall
    <3>. QED  BY <3>1, <3>2
  <2>4. Prepared' /\ ReadyWhenDone' /\ EntryNamed'
    BY <1>12 DEF WrUnlock, Leave, TypeOK, Prepared, ReadyWhenDone, EntryNamed
  <2>. QED  BY <2>1, <2>2, <2>3, <2>4
<1>13. ASSUME NEW t \in Threads, RdLock(t) PROVE Inv'
  BY <1>13 DEF RdLock, Locks, TypeOK, Labels, SoleOwner, Live, LockHeld, CallKnown, Prepared, ReadyWhenDone, EntryNamed
<1>14. ASSUME NEW t \in Threads, Format(t) PROVE Inv'
  BY <1>14 DEF Format, TypeOK, Texts, Accepted, Labels, SoleOwner, Live, LockHeld, CallKnown, Prepared, ReadyWhenDone, EntryNamed
<1>15. ASSUME NEW t \in Threads, RdUnlock(t) PROVE Inv'
  BY <1>15 DEF RdUnlock, Locks, DoneReading, TypeOK, Labels, SoleOwner, Live, LockHeld, CallKnown, Prepared, ReadyWhenDone, EntryNamed
<1>16. ASSUME NEW t \in Threads, Write(t) PROVE Inv'
  BY <1>16 DEF Write, TypeOK, Labels, NoCall, SoleOwner, Live, LockHeld, CallKnown, Prepared, ReadyWhenDone, EntryNamed
<1>17. CASE UNCHANGED vars
  BY <1>17 DEF vars, TypeOK, SoleOwner, Live, LockHeld, CallKnown, Prepared, ReadyWhenDone, EntryNamed
<1>18. CASE Next
  <2>1. CASE \E t \in Threads : Step(t)
    BY <2>1, <1>7, <1>8, <1>9, <1>10, <1>11, <1>12, <1>13, <1>14, <1>15 DEF Step
  <2>. QED  BY <1>18, <2>1, <1>1, <1>2, <1>3, <1>4, <1>5, <1>6, <1>16 DEF Next
<1>. QED  BY <1>17, <1>18

\* The library keeps LockHeld, CallKnown, Prepared and the invariants below.
THEOREM Invariance == Spec => []Inv
<1>1. Init => Inv
  BY InitInv
<1>2. Inv /\ [Next]_vars => Inv'
  BY NextInv
<1>. QED  BY <1>1, <1>2, PTL DEF Spec

\* Every variable keeps its type: in particular an entry never holds a freed string.
THEOREM TypeCorrect == Spec => []TypeOK
<1>1. Inv => TypeOK
  BY DEF Inv
<1>. QED  BY <1>1, Invariance, PTL

\* mdclog_attr_set_ident(), mdclog_attr_destroy() and init_library() never leave
\* two pointers to one identity string, nor a pointer to a freed one.
THEOREM IdentitySolelyOwned == Spec => []SoleOwner
<1>1. Inv => SoleOwner
  BY DEF Inv
<1>. QED  BY <1>1, Invariance, PTL

\* Although init_done is read without the lock, a thread that skips the rest of
\* init_library() finds the key and the identity made.
THEOREM FoundReady == Spec => []ReadyWhenDone
<1>1. Inv => ReadyWhenDone
  BY DEF Inv
<1>. QED  BY <1>1, Invariance, PTL

\* mdclog_write() never puts a freed identity into an entry, and "(null)" only
\* when memory ran out, however many threads call mdclog_init() beside it.
THEOREM EntriesNamed == Spec => []EntryNamed
<1>1. Inv => EntryNamed
  BY DEF Inv
<1>. QED  BY <1>1, Invariance, PTL

-----------------------------------------------------------------------------
\* mdclog_write() formats an entry from an identity that stays as it is while
\* the thread holds the read lock.
THEOREM IdentityKept == Spec => IdentityStable
<1> DEFINE Kept == readers \cap readers' # {} =>
              /\ identity' = identity
              /\ identity # NULL => text'[identity] = text[identity]
<1>1. ASSUME Inv, Next PROVE Kept
  <2> USE PointerAssumption DEF Inv, flags, strings, lock, local, history, Goto
  <2>1. CASE LibClean
    <3>1. readers = {}
      BY <1>1, <2>1 DEF LibClean, TypeOK, LockHeld
    <3>. QED  BY <3>1
  <2>2. ASSUME NEW t \in Threads, AttrDestroy(t) PROVE Kept
    BY <1>1, <2>2 DEF AttrDestroy, Freed, TypeOK, SoleOwner
  <2>3. ASSUME NEW t \in Threads, NEW id \in Idents, AttrSetIdent(t, id) PROVE Kept
    <3>1. \A s \in Alloc(Strings \ Live) : s \in Strings /\ text[s] = NULL
      BY AllocAssumption DEF Live
    <3>2. identity # NULL => identity \in Strings /\ text[identity] # NULL
      BY <1>1 DEF SoleOwner, Live
    <3>3. identity # NULL => text'[identity] = text[identity]
      BY <1>1, <2>3, <3>1, <3>2 DEF AttrSetIdent, TypeOK
    <3>. QED  BY <2>3, <3>3 DEF AttrSetIdent
  <2>4. ASSUME NEW t \in Threads, Replace(t) PROVE Kept
    <3>1. readers = {}
      BY <1>1, <2>4, ThreadAssumption DEF Replace, LockHeld
    <3>. QED  BY <3>1
  <2>5. ASSUME UNCHANGED strings PROVE Kept
    BY <2>5
  <2>6. CASE \E t \in Threads : Step(t)
    BY <2>4, <2>5, <2>6 DEF Step, Check, InitMdc, WrLock, SetDone, WrUnlock, RdLock, Format, RdUnlock, Locks
  <2>7. ASSUME NEW t \in Threads,
               AttrInit(t) \/ (\E a \in BOOLEAN : MdclogInit(t, a))
                 \/ (\E op \in {"write", "mdc"} : UseLibrary(t, op)) \/ Write(t)
        PROVE  Kept
    BY <2>7 DEF AttrInit, MdclogInit, UseLibrary, Enter, Write
  <2>. QED  BY <1>1, <2>1, <2>2, <2>3, <2>6, <2>7 DEF Next
<1>2. Inv /\ [Next]_vars => [Kept]_vars
  BY <1>1
<1>. QED  BY <1>2, Invariance, PTL DEF Spec, IdentityStable

\* No call of the library loses the last pointer to an identity string it has
\* not freed, but for an mdclog_attr_set_ident() that overwrites one.
THEOREM NoStringLost == Spec => InitLosesNoString
<1> DEFINE Kept == calls' = calls \/ pc' # pc =>
              \A s \in Strings : s \in Owned /\ text'[s] # NULL => s \in Owned'
<1>1. ASSUME Inv, Next PROVE Kept
  <2> USE PointerAssumption DEF Inv, flags, strings, lock, local, history, Goto
  <2>1. ASSUME NEW p, text' = Freed(p),
               \A s \in Strings : s \in Owned => s \in Owned' \/ s = p
        PROVE  Kept
    BY <2>1 DEF Freed
  <2>2. CASE LibClean
    BY <2>1, <2>2 DEF LibClean, Owned
  <2>3. ASSUME NEW t \in Threads, AttrDestroy(t) PROVE Kept
    <3>1. \A u \in Threads \ {t} : attr'[u] = attr[u]
      BY <1>1, <2>3 DEF AttrDestroy, TypeOK
    <3>. QED  BY <2>1, <2>3, <3>1 DEF AttrDestroy, Owned
  <2>4. ASSUME NEW t \in Threads, NEW id \in Idents, AttrSetIdent(t, id) PROVE Kept
    BY <1>1, <2>4 DEF AttrSetIdent, TypeOK
  <2>5. ASSUME NEW t \in Threads, TakeIdentity(t) PROVE Kept
    <3>1. \A u \in Threads \ {t} : attr'[u] = attr[u]
      BY <1>1, <2>5 DEF TakeIdentity, EmptiedAttr, TypeOK
    <3>. QED  BY <2>1, <2>5, <3>1 DEF TakeIdentity, Owned
  <2>6. ASSUME NEW t \in Threads, DefaultIdentity(t) PROVE Kept
    <3>1. ASSUME NEW s \in Alloc({p \in Strings : Freed(identity)[p] = NULL}),
                 text' = [Freed(identity) EXCEPT ![s] = Default], identity' = s, UNCHANGED attr
          PROVE  Kept
      <4>1. \A p \in Strings : p # s /\ text'[p] # NULL => p # identity
        BY <3>1 DEF Freed
      <4>. QED  BY <3>1, <4>1 DEF Owned
    <3>2. ASSUME text' = Freed(identity), UNCHANGED attr PROVE Kept
      BY <2>1, <3>2 DEF Owned
    <3>. QED  BY <2>6, <3>1, <3>2 DEF DefaultIdentity
  <2>7. ASSUME UNCHANGED strings PROVE Kept
    BY <2>7 DEF Owned
  <2>8. CASE \E t \in Threads : Step(t)
    BY <2>5, <2>6, <2>7, <2>8
    DEF Step, Check, InitMdc, WrLock, Replace, SetDone, WrUnlock, RdLock, Format, RdUnlock, Locks
  <2>9. ASSUME NEW t \in Threads, AttrInit(t) PROVE Kept
    <3>1. \A u \in Threads \ {t} : attr'[u] = attr[u]
      BY <1>1, <2>9 DEF AttrInit, TypeOK
    <3>. QED  BY <2>9, <3>1 DEF AttrInit, Owned
  <2>10. ASSUME NEW t \in Threads,
                (\E a \in BOOLEAN : MdclogInit(t, a))
                 \/ (\E op \in {"write", "mdc"} : UseLibrary(t, op)) \/ Write(t)
        PROVE  Kept
    BY <2>7, <2>10 DEF MdclogInit, UseLibrary, Enter, Write
  <2>. QED  BY <1>1, <2>2, <2>3, <2>4, <2>8, <2>9, <2>10 DEF Next
<1>2. Inv /\ [Next]_vars => [Kept]_vars
  BY <1>1
<1>. QED  BY <1>2, Invariance, PTL DEF Spec, InitLosesNoString

-----------------------------------------------------------------------------
\* The identity that init_library() is going to install for t.
AskedFor(t) == IF Given(t) THEN text[attr[t]] ELSE Default

\* An mdclog_init() that runs beside nothing else finds init_done clear until it
\* sets it itself, and installs what it was asked for.
InitAlone(t) ==
    /\ \A u \in Threads : InLibrary(u) => u = t
    /\ init_done <=> pc[t] = "unlock"
    /\ pc[t] \in {"check", "once", "wrlock", "replace"} => AskedFor(t) = latest

\* As long as no mdclog_init() has run beside another initialisation, threads
\* that initialise the library on first use do so only if no identity has been
\* asked for.
Sequential ==
    overlapped = {} =>
        /\ \A t \in Threads : InLibrary(t) /\ call[t].op = "init" => InitAlone(t)
        /\ ~init_done /\ (\A t \in Threads : InLibrary(t) => call[t].op # "init") => latest = Default
        /\ \A t \in Threads :
               pc[t] \in {"once", "wrlock", "replace"} /\ call[t].op # "init" => latest = Default
        /\ \A t \in Threads : pc[t] = "done" /\ ~failed => text[identity] = latest
        /\ init_done /\ ~failed => text[identity] = latest

\* What it means that a call enters init_library() without an overlap.
LEMMA NoOverlap ==
    ASSUME NEW t \in Threads, NEW op, Overlaps(t, op) = {}, NEW u \in Threads, u # t, InLibrary(u)
    PROVE  op # "init" /\ call[u].op # "init"
<1> SUFFICES ASSUME "init" \in {op, call[u].op} PROVE FALSE
  OBVIOUS
<1> DEFINE kind == IF op = call[u].op THEN "init" ELSE "lazy"
<1>1. call[u].op \in {call[v].op : v \in {w \in Threads \ {t} : InLibrary(w)}}
  OBVIOUS
<1>2. kind \in Overlaps(t, op)
  BY <1>1 DEF Overlaps
<1>. QED  BY <1>2

LEMMA NextSequential == ASSUME Inv, Sequential, [Next]_vars PROVE Sequential'
<1> USE PointerAssumption DEF Inv, flags, strings, lock, local, history, Goto
<1> SUFFICES ASSUME overlapped' = {} PROVE Sequential'
  BY DEF Sequential
<1>0. /\ \A t \in Threads : pc[t] = "idle" => call[t] = NoCall
      /\ identity # NULL => identity \in Strings /\ text[identity] # NULL
      /\ init_done /\ ~failed => identity # NULL
      /\ \A t \in Threads : pc[t] = "done" /\ ~failed => identity # NULL
  BY DEF CallKnown, SoleOwner, Live, ReadyWhenDone, Prepared
\* A step outside init_library() that keeps what the pointers in use point to.
<1>1. ASSUME overlapped = {}, UNCHANGED <<init_done, identity, latest>>, failed => failed',
             \A t \in Threads : /\ InLibrary(t)' <=> InLibrary(t)
                                /\ InLibrary(t) => pc'[t] = pc[t] /\ call'[t] = call[t] /\ attr'[t] = attr[t]
                                /\ InLibrary(t) /\ attr[t] \in Strings => text'[attr[t]] = text[attr[t]],
             identity \in Strings => text'[identity] = text[identity]
      PROVE  Sequential'
  <2>1. ASSUME NEW t \in Threads, InLibrary(t), InitAlone(t) PROVE InitAlone(t)'
    BY <1>1, <2>1 DEF InitAlone, AskedFor, Given, InLibrary, TypeOK, CallKnown
  <2>. QED  BY <1>0, <1>1, <2>1 DEF Sequential, InLibrary
<1>2. CASE LibClean
  BY <1>2 DEF LibClean, Sequential, InLibrary
<1>3. ASSUME NEW t \in Threads, AttrInit(t) \/ AttrDestroy(t) \/ \E id \in Idents : AttrSetIdent(t, id)
      PROVE  Sequential'
  <2>1. overlapped = {} /\ UNCHANGED <<init_done, identity, latest, pc, call>> /\ (failed => failed')
    BY <1>3 DEF AttrInit, AttrDestroy, AttrSetIdent
  <2>2. \A p \in Strings : p # attr[t] /\ text[p] # NULL => text'[p] = text[p]
    <3>1. CASE AttrInit(t) \/ AttrDestroy(t)
      BY <3>1 DEF AttrInit, AttrDestroy, Freed
    <3>2. ASSUME NEW id \in Idents, AttrSetIdent(t, id)
          PROVE  \A p \in Strings : text[p] # NULL => text'[p] = text[p]
      <4>1. \A s \in Alloc(Strings \ Live) : s \in Strings /\ text[s] = NULL
        BY AllocAssumption DEF Live
      <4>. QED  BY <3>2, <4>1 DEF AttrSetIdent, TypeOK
    <3>. QED  BY <1>3, <3>1, <3>2
  <2>3. \A u \in Threads \ {t} : attr'[u] = attr[u]
    BY <1>3 DEF AttrInit, AttrDestroy, AttrSetIdent, TypeOK
  <2>4. pc[t] = "idle" /\ ~InLibrary(t)
    BY <1>3 DEF AttrInit, AttrDestroy, AttrSetIdent, InLibrary
  <2>5. identity \in Strings => text'[identity] = text[identity]
    BY <1>0, <2>2 DEF SoleOwner
  <2>6. \A u \in Threads : /\ InLibrary(u)' <=> InLibrary(u)
                           /\ InLibrary(u) => pc'[u] = pc[u] /\ call'[u] = call[u] /\ attr'[u] = attr[u]
    BY <2>1, <2>3, <2>4 DEF InLibrary
  <2>7. ASSUME NEW u \in Threads, InLibrary(u), attr[u] \in Strings PROVE text'[attr[u]] = text[attr[u]]
    BY <2>2, <2>4, <2>7 DEF SoleOwner, Live
  <2>. QED  BY <1>1, <2>1, <2>5, <2>6, <2>7
<1>4. ASSUME NEW t \in Threads, NEW a \in BOOLEAN, MdclogInit(t, a) PROVE Sequential'
  <2>1. /\ overlapped = {} /\ Overlaps(t, "init") = {} /\ ~init_done' /\ UNCHANGED strings
        /\ pc' = [pc EXCEPT ![t] = "check"] /\ call'[t] = [op |-> "init", attr |-> a]
        /\ \A u \in Threads \ {t} : call'[u] = call[u]
    BY <1>4 DEF MdclogInit, Enter, TypeOK
  <2>2. \A u \in Threads : InLibrary(u)' => u = t
    BY <2>1, NoOverlap DEF InLibrary, TypeOK
  <2>3. InLibrary(t)' /\ call'[t].op = "init" /\ pc'[t] = "check"
    BY <2>1 DEF InLibrary, TypeOK
  <2>4. AskedFor(t)' = latest'
    BY <1>4, <2>1 DEF MdclogInit, AskedFor, Given
  <2>. QED  BY <2>1, <2>2, <2>3, <2>4 DEF Sequential, InitAlone, InLibrary
<1>5. ASSUME NEW t \in Threads, NEW op \in {"write", "mdc"}, UseLibrary(t, op) PROVE Sequential'
  <2>1. /\ overlapped = {} /\ Overlaps(t, op) = {} /\ UNCHANGED <<strings, init_done, latest, failed>>
        /\ pc' = [pc EXCEPT ![t] = "check"] /\ call'[t] = [op |-> op, attr |-> FALSE]
        /\ \A u \in Threads \ {t} : call'[u] = call[u]
    BY <1>5 DEF UseLibrary, Enter, TypeOK
  <2>2. \A u \in Threads : InLibrary(u)' => call'[u].op # "init"
    BY <2>1, NoOverlap DEF InLibrary, TypeOK
  <2>3. \A u \in Threads : InLibrary(u) => call[u].op # "init"
    BY <1>5, <2>1, NoOverlap DEF UseLibrary, Enter, InLibrary
  <2>4. \A u \in Threads : pc'[u] # "check" => pc'[u] = pc[u] /\ call'[u] = call[u]
    BY <2>1 DEF TypeOK
  <2>. QED  BY <2>1, <2>2, <2>3, <2>4 DEF Sequential
<1>6. ASSUME NEW t \in Threads, Check(t) PROVE Sequential'
  BY <1>0, <1>6 DEF Check, Leave, Sequential, InLibrary, InitAlone, AskedFor, Given, TypeOK, NoCall
<1>7. ASSUME NEW t \in Threads, InitMdc(t) PROVE Sequential'
  BY <1>0, <1>7 DEF InitMdc, Sequential, InLibrary, InitAlone, AskedFor, Given, TypeOK, NoCall
<1>8. ASSUME NEW t \in Threads, WrLock(t) PROVE Sequential'
  BY <1>0, <1>8 DEF WrLock, Locks, Sequential, InLibrary, InitAlone, AskedFor, Given, TypeOK, NoCall
<1>9. ASSUME NEW t \in Threads, Replace(t) PROVE Sequential'
  <2>1. /\ overlapped = {} /\ UNCHANGED <<init_done, latest, call>>
        /\ pc[t] = "replace" /\ pc' = [pc EXCEPT ![t] = "done"]
    BY <1>9 DEF Replace
  <2>2. AskedFor(t) = latest
    BY <2>1 DEF Sequential, InLibrary, InitAlone, AskedFor, Given, CallKnown
  <2>3. ~failed' => text'[identity'] = latest
    <3>1. CASE TakeIdentity(t)
      <4>1. attr[t] \in Strings /\ attr[t] # identity
        BY <3>1 DEF TakeIdentity, Given, TypeOK, CallKnown, SoleOwner
      <4>. QED  BY <2>2, <3>1, <4>1 DEF TakeIdentity, AskedFor, Freed
    <3>2. CASE DefaultIdentity(t)
      <4>1. \A s \in Alloc({p \in Strings : Freed(identity)[p] = NULL}) : s \in Strings
        BY AllocAssumption
      <4>. QED  BY <2>2, <3>2, <4>1 DEF DefaultIdentity, AskedFor, Freed
    <3>. QED  BY <1>9, <3>1, <3>2 DEF Replace
  <2>4. \A u \in Threads : InLibrary(u)' <=> InLibrary(u)
    BY <2>1 DEF InLibrary, TypeOK
  <2>5. ASSUME NEW u \in Threads, InLibrary(u), call[u].op = "init"
        PROVE  InitAlone(u)'
    <3>1. u = t /\ ~init_done
      BY <2>1, <2>5 DEF Sequential, InitAlone, InLibrary
    <3>. QED  BY <2>1, <2>4, <2>5, <3>1 DEF Sequential, InitAlone, TypeOK
  <2>6. \A u \in Threads : pc'[u] \in {"once", "wrlock", "replace"} => pc'[u] = pc[u]
    BY <2>1 DEF TypeOK
  <2>. QED  BY <2>1, <2>3, <2>4, <2>5, <2>6 DEF Sequential
<1>10. ASSUME NEW t \in Threads, SetDone(t) PROVE Sequential'
  BY <1>0, <1>10 DEF SetDone, Sequential, InLibrary, InitAlone, AskedFor, Given, TypeOK, NoCall
<1>11. ASSUME NEW t \in Threads, WrUnlock(t) PROVE Sequential'
  BY <1>0, <1>11 DEF WrUnlock, Leave, Sequential, InLibrary, InitAlone, AskedFor, Given, TypeOK, NoCall
<1>12. ASSUME NEW t \in Threads, RdLock(t) \/ Format(t) \/ RdUnlock(t) \/ Write(t) PROVE Sequential'
  BY <1>0, <1>1, <1>12 DEF RdLock, Format, RdUnlock, Write, Locks, InLibrary, TypeOK
<1>13. CASE UNCHANGED vars
  BY <1>1, <1>13 DEF vars, InLibrary
<1>14. CASE Next
  <2>1. CASE \E t \in Threads : Step(t)
    BY <2>1, <1>6, <1>7, <1>8, <1>9, <1>10, <1>11, <1>12 DEF Step
  <2>. QED  BY <1>14, <2>1, <1>2, <1>3, <1>4, <1>5, <1>12 DEF Next
<1>. QED  BY <1>13, <1>14

\* "Set init_done to zero so that the init is done always when this function is
\* called": if nothing else initialises the library beside it, mdclog_init()
\* leaves the identity it was asked for, for any number of calls and threads.
THEOREM InitAloneEffective == Spec => []InitAloneTakesEffect
<1>1. Init => Sequential
  BY DEF Init, Sequential, InLibrary
<1>2. Inv /\ Sequential /\ [Next]_vars => Sequential'
  BY NextSequential
<1>3. Sequential => InitAloneTakesEffect
  BY DEF Sequential, InitAloneTakesEffect, Effective
<1>. QED  BY <1>1, <1>2, <1>3, Invariance, PTL DEF Spec
=============================================================================
