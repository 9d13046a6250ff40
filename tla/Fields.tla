------------------------------- MODULE Fields -------------------------------
(***************************************************************************)
(* mdclog_format_initialize() of src/mdclog.c on the diagnostic context:   *)
(* the fields it takes from the environment and the process id are put     *)
(* into the context of the thread that calls it, one after the other, each *)
(* by getting, removing and adding it again.  The context is that of       *)
(* MdcContext, which the lists of Mdc implement; what the call does about  *)
(* the log level is the subject of Monitor.  Of the monitors it starts     *)
(* only the flag log_format_init_done is left, which the threads share.    *)
(***************************************************************************)
EXTENDS Integers, SequencesExt, JsonText

CONSTANTS
    Threads,    \* threads that call the library
    LogFields,  \* LOGFIELDS, a sequence of keys
    PidKey,     \* "PID"
    PidText,    \* what snprintf() makes of getpid()
    Given,      \* values the environment may have for a field, sequences of characters
    AppRequests,    \* what the application asks of its context itself
    Keys, Values,   \* the keys and values of all these requests
    NULL,       \* the null pointer
    Fail,       \* the allocations that may fail, as in MdcContext
    MaxCalls    \* the number of calls the threads make

VARIABLES
    ctx, busy, call, ret,   \* the context of every thread, and its call on it
    env,        \* env[f]: the environment's value for the field f, or NULL
    flag,       \* mdclog_configuration.log_format_init_done
    starting,   \* how many monitors have been created that do not watch yet
    pc,         \* pc[t]: where t is
    run,        \* run[t]: the local variables of t's call, and its history
    calls       \* how many calls the threads have made

Context == INSTANCE MdcContext

context == <<ctx, busy, call, ret>>
vars == <<context, env, flag, starting, pc, run, calls>>

FieldKeys == Range(LogFields) \cup {PidKey}

ASSUME KeyAssumption ==
    /\ FieldKeys \subseteq Keys /\ Given \cup {PidText, <<>>} \subseteq Values
    /\ \A k \in FieldKeys : ~ContainsSpecial(k)
    /\ AppRequests \subseteq Context!Requests
ASSUME FieldAssumption ==
    /\ LogFields \in Seq(Keys) /\ IsInjective(LogFields) /\ PidKey \notin Range(LogFields)
ASSUME BoundAssumption == MaxCalls \in Nat /\ NULL \notin Given

-----------------------------------------------------------------------------
\* i is the field the call is at, value what the environment gave for it (NULL
\* if nothing), code what it returns.  For the properties: the fields it had
\* no value or no memory for, and the context it found.
NoRun == [i |-> 1, value |-> NULL, code |-> "ok", unread |-> {}, before |-> <<>>]

Init ==
    /\ Context!Init
    /\ env \in [Range(LogFields) -> Given \cup {NULL}]
    /\ flag = FALSE /\ starting = 0
    /\ pc = [t \in Threads |-> "idle"]
    /\ run = [t \in Threads |-> NoRun]
    /\ calls = 0

Goto(t, from, to) == ~busy[t] /\ pc[t] = from /\ pc' = [pc EXCEPT ![t] = to]

\* A step inside mdclog_format_initialize().
Step(t, from, to) == Goto(t, from, to) /\ UNCHANGED <<env, flag, starting, calls>>

\* t calls a function of the context, with its argument value.
Ask(t, op, k, v) == Context!Call(t, [op |-> op, key |-> k, value |-> v])

Counted == calls < MaxCalls /\ calls' = calls + 1

\* The application uses its context; mdclog_init() clears the flag.
AppCall(t, r) ==
    /\ Counted /\ pc[t] = "idle" /\ Context!Call(t, r)
    /\ UNCHANGED <<env, flag, starting, pc, run>>

MdclogInit(t) ==
    /\ Counted /\ pc[t] = "idle" /\ ~busy[t]
    /\ flag' = FALSE
    /\ UNCHANGED <<context, env, starting, pc, run>>

\* The call on the context that t is in.
ContextStep(t) ==
    /\ \/ Context!Add(t) \/ Context!AddFails(t) \/ Context!GetMdc(t)
       \/ Context!RmMdc(t) \/ Context!Clear(t) \/ Context!Cleared(t)
    /\ UNCHANGED <<env, flag, starting, pc, run, calls>>

-----------------------------------------------------------------------------
FormatInitialize(t) ==
    /\ Counted /\ Goto(t, "idle", "check")
    /\ run' = [run EXCEPT ![t].before = ctx[t]]
    /\ UNCHANGED <<context, env, flag, starting>>

\* If a monitor is running the call does nothing, and returns 0 all the same.
CheckFlag(t) ==
    /\ Step(t, "check", IF flag THEN "return" ELSE "field")
    /\ run' = [run EXCEPT ![t].code = IF flag THEN "skipped" ELSE "ok"]
    /\ UNCHANGED context

\* Mutant: the loop stops before the last field.
AtPidEarly(t) == run[t].i >= Len(LogFields)

\* All fields are done, the process id is next.
AtPid(t) == run[t].i > Len(LogFields)

Key(t) == IF AtPid(t) THEN PidKey ELSE LogFields[run[t].i]

\* read_env_param(), and the first step of update_mdclog_array().
ReadField(t) ==
    /\ Step(t, "field", "get")
    /\ LET v == IF AtPid(t) THEN PidText ELSE env[Key(t)] IN
         v # NULL /\ run' = [run EXCEPT ![t].value = v]
    /\ Ask(t, "get", Key(t), NULL)

\* The environment has no such field, or there is no memory for its value: an
\* empty one is added.
NoField(t) ==
    /\ Step(t, "field", "add")
    /\ ~AtPid(t)
    /\ env[Key(t)] = NULL \/ "copy" \in Fail
    /\ run' = [run EXCEPT ![t].value = NULL, ![t].unread = @ \cup {Key(t)}]
    /\ Ask(t, "add", Key(t), <<>>)

\* A field that is set is removed before it is added.
RemoveOld(t) ==
    /\ Step(t, "get", "remove")
    /\ ret[t].out # <<>>
    /\ Ask(t, "remove", Key(t), NULL)
    /\ UNCHANGED run

AddField(t) ==
    /\ Step(t, "remove", "add") \/ (Step(t, "get", "add") /\ ret[t].out = <<>>)
    /\ Ask(t, "add", Key(t), run[t].value)
    /\ UNCHANGED run

\* Mutant: the result of update_mdclog_array() is not looked at.
Ignored(t) == FALSE

\* update_mdclog_array() has failed.  Whether an empty field could be added is
\* not looked at.
Failed(t) == run[t].value # NULL /\ ret[t].code # "ok"

NextField(t) ==
    /\ Step(t, "add", IF Failed(t) \/ AtPid(t) THEN "return" ELSE "field")
    /\ run' = [run EXCEPT ![t].i = IF AtPid(t) THEN @ ELSE @ + 1,
                          ![t].code = IF Failed(t) THEN "error" ELSE @]
    /\ UNCHANGED context

\* The call returns, having created a monitor if it was asked to and nothing
\* has failed.
Return(t) ==
    /\ Goto(t, "return", "idle")
    /\ starting' \in {starting} \cup (IF run[t].code = "ok" THEN {starting + 1} ELSE {})
    /\ run' = [run EXCEPT ![t] = NoRun]
    /\ UNCHANGED <<context, env, flag, calls>>

\* A monitor watches the file and sets the flag, or fails to.
Arm ==
    /\ starting > 0 /\ starting' = starting - 1
    /\ flag' \in {flag, TRUE}
    /\ UNCHANGED <<context, env, pc, run, calls>>

-----------------------------------------------------------------------------
Next ==
    \/ Arm
    \/ \E t \in Threads :
        \/ \E r \in AppRequests : AppCall(t, r)
        \/ MdclogInit(t) \/ FormatInitialize(t) \/ ContextStep(t)
        \/ CheckFlag(t) \/ ReadField(t) \/ NoField(t) \/ RemoveOld(t) \/ AddField(t)
        \/ NextField(t) \/ Return(t)

Spec == Init /\ [][Next]_vars

-----------------------------------------------------------------------------
Stored == {Escaped(v) : v \in Values}

TypeOK ==
    /\ \A t \in Threads : \A i \in DOMAIN ctx[t] :
           ctx[t][i].key \in Keys /\ ctx[t][i].value \in Stored
    /\ env \in [Range(LogFields) -> Given \cup {NULL}]
    /\ flag \in BOOLEAN /\ starting \in 0..MaxCalls /\ calls \in 0..MaxCalls
    /\ pc \in [Threads -> {"idle", "check", "field", "get", "remove", "add", "return"}]
    /\ \A t \in Threads :
           /\ run[t].i \in 1..(Len(LogFields) + 1)
           /\ run[t].value \in Values \cup {NULL}
           /\ run[t].code \in {"ok", "skipped", "error"}
           /\ run[t].unread \subseteq FieldKeys

Has(pairs, k, v) == \E i \in DOMAIN pairs : pairs[i].key = k /\ pairs[i].value = v
KeysOf(pairs) == {pairs[i].key : i \in DOMAIN pairs}
AppPairs(pairs) ==
    FlattenSeq([i \in DOMAIN pairs |->
                  IF pairs[i].key \in FieldKeys THEN <<>> ELSE <<pairs[i]>>])

\* A call of mdclog_format_initialize() that found no monitor running and
\* returns 0 has set the process id and every field that the environment has
\* and it had memory to read, escaped, whatever the context held before.
FieldsSet ==
    \A t \in Threads : pc[t] = "return" /\ run[t].code = "ok" =>
        /\ Has(ctx[t], PidKey, Escaped(PidText))
        /\ \A k \in Range(LogFields) \ run[t].unread : Has(ctx[t], k, Escaped(env[k]))

\* A failed call does little harm, although fields are removed before they are
\* added again: the pairs of the application keep their values and their order,
\* and at most one field is lost; none is if it returns 0.
LittleLost ==
    \A t \in Threads : pc[t] = "return" =>
        LET lost == KeysOf(run[t].before) \ KeysOf(ctx[t]) IN
        /\ AppPairs(ctx[t]) = AppPairs(run[t].before)
        /\ Cardinality(lost) <= (IF run[t].code = "error" THEN 1 ELSE 0)
=============================================================================
