------------------------------ MODULE Monitor -------------------------------
(***************************************************************************)
(* The log level of src/mdclog.c and the configuration file it is taken    *)
(* from: mdclog_format_initialize(), which reads the file once and starts  *)
(* a detached thread, and that thread, which asks inotify for the events   *)
(* IN_MOVED_TO and IN_CLOSE_WRITE and reads the file again after each.     *)
(* What it watches depends on the name of the file: with a '/' in it, the  *)
(* directory; without one, the file itself, which is no longer the file of *)
(* that name once it has been replaced.  The level and the flag            *)
(* log_format_init_done are plain variables without a lock; both threads   *)
(* parse the file with strtok(), which keeps its place in one variable for *)
(* the whole process.                                                      *)
(*                                                                         *)
(* A line of the file is "other" when its key is not log-level, "bare"     *)
(* when it has no token at all, "empty" when log-level has no value, and   *)
(* otherwise the value that it gives log-level.                            *)
(***************************************************************************)
EXTENDS Integers, SequencesExt

CONSTANTS
    Apps,       \* application threads
    Monitors,   \* the threads mdclog_format_initialize() can start
    Contents,   \* what the file can hold, sequences of lines
    Missing,    \* there is no such file
    None,       \* no level, no token
    Names,      \* the kinds of names that the file may have
    MaxCalls,   \* calls of the library an application thread makes
    MaxInits,   \* calls of mdclog_format_initialize() among them, of all threads
    MaxWrites,  \* changes in the directory of the file
    Sets,       \* the levels that applications set themselves
    CanFail,    \* TRUE if memory, threads, inotify and read() may fail
    Signals     \* TRUE if select() may be interrupted by a signal

Levels == 1..4      \* mdclog_severity_t
Words == {"ERR", "WARN", "INFO", "DEBUG", "odd"}
Lines == Words \cup {"other", "bare", "empty"}

\* A file in some directory ("dir/file"), in the root directory ("/file"), and
\* in the current directory, named without it ("file").
NameKinds == {"path", "root", "plain"}

ASSUME FileAssumption ==
    /\ Contents \subseteq Seq(Lines) /\ Missing \notin Contents /\ <<>> # Missing
    /\ None \notin Lines
ASSUME NameAssumption == Names \subseteq NameKinds
ASSUME ThreadAssumption == Apps \cap Monitors = {}
ASSUME BoundAssumption == {MaxCalls, MaxInits, MaxWrites} \subseteq Nat /\ Sets \subseteq Levels

VARIABLES
    flag,       \* mdclog_configuration.log_format_init_done
    level,      \* current_level
    config,     \* the name the environment gives the configuration file, or "none"
    file,       \* what it holds
    rewriting,  \* a process has truncated the file and will write and close it
    pc,         \* pc[t]: where t is
    want,       \* want[t]: t's call shall start a monitor
    token,      \* token[t]: what parse_file() has found
    saved,      \* the thread that has called strtok() last
    spoilt,     \* auxiliary: threads whose token is not what the file says
    last,       \* auxiliary: what the file last put under this name held
    watch,      \* watch[m]: what m watches: "none", the directory ("dir"), the
                \* file ("file"), a file that has lost its name ("old"), or
                \* nothing any more ("lost")
    pending,    \* pending[m]: inotify has an event for m
    applied,    \* applied[m]: auxiliary, the level m has set last, None if spoilt
    calls, inits, writes,   \* what the bounds count
    crashed     \* the process has read through a null pointer

shared == <<flag, level>>
disk == <<config, file, last, rewriting, writes>>
parsing == <<token, saved, spoilt>>
events == <<watch, pending, applied>>
bounds == <<calls, inits>>
vars == <<shared, disk, pc, want, parsing, events, bounds, crashed>>

Threads == Apps \cup Monitors

-----------------------------------------------------------------------------
\* Mutant: there is no level to begin with.
LevelOfKnown(word) ==
    CASE word = "ERR" -> 1 [] word = "WARN" -> 2 [] word = "INFO" -> 3 [] word = "DEBUG" -> 4
      [] OTHER -> 0

\* The level update_mdc_log_level_severity() derives from what it is given.
LevelOf(word) ==
    CASE word = "WARN" -> 2 [] word = "INFO" -> 3 [] word = "DEBUG" -> 4 [] OTHER -> 1

\* The first line parse_file() does not skip, None if there is none.
FirstLine(f) ==
    LET i == IF f = Missing THEN 0 ELSE SelectInSeq(f, LAMBDA line : line # "other") IN
    IF i = 0 THEN None ELSE f[i]

Init ==
    /\ flag = FALSE /\ level = 1
    /\ config \in Names \cup {"none"}
    /\ file \in Contents \cup {Missing} /\ last = file /\ rewriting = FALSE /\ writes = 0
    /\ pc = [t \in Threads |-> IF t \in Apps THEN "idle" ELSE "none"]
    /\ want = [t \in Threads |-> FALSE]
    /\ token = [t \in Threads |-> None] /\ saved = None /\ spoilt = {}
    /\ watch = [m \in Monitors |-> "none"]
    /\ pending = [m \in Monitors |-> FALSE]
    /\ applied = [m \in Monitors |-> None]
    /\ calls = [t \in Apps |-> 0] /\ inits = 0
    /\ crashed = FALSE

Goto(t, from, to) == pc[t] = from /\ pc' = [pc EXCEPT ![t] = to]

\* A step of t that changes nothing else.
Pass(t, from, to) ==
    Goto(t, from, to) /\ UNCHANGED <<shared, disk, want, parsing, events, bounds, crashed>>

\* Mutant: the watch only lasts while the monitor waits.
WatchersOnce(kinds) == {m \in Monitors : watch[m] \in kinds /\ pc[m] \in {"select", "read"}}

\* The monitors whose watch, from inotify_add_watch() to inotify_rm_watch(), is
\* of one of these kinds.
Watchers(kinds) == {m \in Monitors : watch[m] \in kinds}

-----------------------------------------------------------------------------
\* Another process changes something, and the monitors in told get an event.
Notify(told) ==
    /\ pending' = [m \in Monitors |-> pending[m] \/ m \in told]
    /\ UNCHANGED <<shared, config, pc, want, parsing, applied, bounds, crashed>>

Change == writes < MaxWrites /\ writes' = writes + 1

\* The name of the file now stands for another file, or for none: the watch on
\* the file itself stays with the old one.
Replaced == watch' = [m \in Monitors |-> IF watch[m] = "file" THEN "old" ELSE watch[m]]

\* A new file is moved to the name of the old one.
Rename ==
    /\ Change /\ ~rewriting
    /\ file' \in Contents /\ last' = file'
    /\ Notify(Watchers({"dir"}))
    /\ Replaced
    /\ UNCHANGED rewriting

\* The file is deleted or moved away, for which the mask of the watch has no
\* event.
Unlink ==
    /\ Change /\ ~rewriting
    /\ file # Missing
    /\ file' = Missing
    /\ Notify({})
    /\ Replaced
    /\ UNCHANGED <<last, rewriting>>

\* The file is truncated or created, which nobody is told, written, and closed.
Truncate ==
    /\ Change /\ ~rewriting
    /\ file' = <<>>
    /\ rewriting' = TRUE
    /\ Notify({})
    /\ UNCHANGED <<last, watch>>

CloseWrite ==
    /\ rewriting
    /\ file' \in Contents /\ last' = file'
    /\ rewriting' = FALSE
    /\ Notify(Watchers({"dir", "file"}))
    /\ UNCHANGED <<writes, watch>>

\* Another file of the directory changes.
OtherFile ==
    /\ Change
    /\ Notify(Watchers({"dir"}))
    /\ UNCHANGED <<file, last, rewriting, watch>>

\* A file that has lost its name while m watched it is written under another
\* one, or ceases to exist: the watch then ends, and the event IN_IGNORED, which
\* no mask can exclude, says so.
OldFile(m) ==
    /\ watch[m] = "old"
    /\ \/ Change /\ UNCHANGED watch
       \/ watch' = [watch EXCEPT ![m] = "lost"] /\ UNCHANGED writes
    /\ Notify({m})
    /\ UNCHANGED <<file, last, rewriting>>

-----------------------------------------------------------------------------
\* t calls mdclog_format_initialize(), mdclog_init() or mdclog_level_set().
Begin(t, to) ==
    /\ Goto(t, "idle", to)
    /\ calls[t] < MaxCalls /\ calls' = [calls EXCEPT ![t] = @ + 1]
    /\ UNCHANGED <<disk, parsing, events, crashed>>

FormatInitialize(t, monitor) ==
    /\ Begin(t, "check")
    /\ inits < MaxInits /\ inits' = inits + 1
    /\ want' = [want EXCEPT ![t] = monitor]
    /\ UNCHANGED shared

\* mdclog_init(), and mdclog_lib_clean(), make mdclog_format_initialize() work
\* again and the monitors stop; what else they do is the subject of Config.
MdclogInit(t) ==
    /\ Begin(t, "idle")
    /\ flag' = FALSE
    /\ UNCHANGED <<level, want, inits>>

LevelSet(t, l) ==
    /\ Begin(t, "idle")
    /\ level' = l
    /\ UNCHANGED <<flag, want, inits>>

CheckFlag(t) == Pass(t, "check", IF flag THEN "idle" ELSE "fields")

\* The fields from the environment and the process id are put into the context
\* of the thread, which is the subject of Fields.  A field that fails ends the
\* call; if the process id fails, the file is read but not watched; if there is
\* no memory for the name of the file, it is taken for not configured.
PutFields(t) ==
    /\ \/ /\ Goto(t, "fields", IF config # "none" THEN "parse" ELSE "idle")
          /\ want' = want \/ (CanFail /\ want' = [want EXCEPT ![t] = FALSE])
       \/ Goto(t, "fields", "idle") /\ CanFail /\ UNCHANGED want
    /\ UNCHANGED <<shared, disk, parsing, events, bounds, crashed>>

\* enable_log_change_notify(): the call returns after the thread was created.
StartMonitor(t) ==
    /\ \/ /\ pc[t] = "start"
          /\ want[t] /\ file # Missing
          /\ \E m \in Monitors :
                /\ pc[m] = "none"
                /\ pc' = [pc EXCEPT ![t] = "idle", ![m] = "new"]
       \/ /\ Goto(t, "start", "idle")
          /\ want[t] /\ file # Missing =>
                CanFail \/ \A m \in Monitors : pc[m] # "none"
    /\ UNCHANGED <<shared, disk, want, parsing, events, bounds, crashed>>

-----------------------------------------------------------------------------
\* parse_file() reads the file up to the line with the key log-level.  For a
\* line without a token, strcmp() is given a null pointer.
Parse(t) ==
    LET line == FirstLine(file) IN
    /\ Goto(t, "parse", IF line = None THEN "set" ELSE "value")
    /\ token' = [token EXCEPT ![t] = line]
    /\ saved' = t
    /\ crashed' = (line = "bare")
    /\ UNCHANGED <<shared, disk, want, spoilt, events, bounds>>

\* strtok(NULL, ...) gives the value, and strdup() is given a null pointer when
\* there is none.  If another thread has called strtok() meanwhile, anything
\* may come out; without memory for the copy there is no value.
Value(t) ==
    /\ Goto(t, "value", "set")
    /\ saved' = t
    /\ \/ /\ saved = t
          /\ crashed' = (token[t] = "empty")
          /\ UNCHANGED <<token, spoilt>>
       \/ /\ saved # t
          /\ \E w \in Words : token' = [token EXCEPT ![t] = w]
          /\ crashed' \in BOOLEAN
          /\ spoilt' = spoilt \cup {t}
       \/ /\ CanFail
          /\ token' = [token EXCEPT ![t] = None]
          /\ spoilt' = spoilt \cup {t}
          /\ crashed' = (token[t] = "empty")
    /\ UNCHANGED <<shared, disk, want, events, bounds>>

\* update_mdc_log_level_severity(), and the token is freed.
UpdateLevel(t) ==
    /\ Goto(t, "set", IF t \in Apps THEN "start" ELSE "loop")
    /\ level' = LevelOf(token[t])
    /\ token' = [token EXCEPT ![t] = None]
    /\ spoilt' = spoilt \ {t}
    /\ applied' = [m \in Monitors |-> IF m # t THEN applied[m]
                                      ELSE IF t \in spoilt THEN None ELSE LevelOf(token[t])]
    /\ UNCHANGED <<flag, disk, want, saved, watch, pending, bounds, crashed>>

-----------------------------------------------------------------------------
\* The monitor takes the name of the file apart at its last '/' and adds its
\* watch: to the directory, or, if there is no '/', to the file.  It ends when
\* there is no such file, or when what is left of the name is empty.  The name
\* it was given, or its copy of it, is a null pointer when memory has run out.
AddWatch(m) ==
    /\ \/ /\ Goto(m, "new", "arm")
          /\ config = "path" \/ (config = "plain" /\ file # Missing)
          /\ watch' = [watch EXCEPT ![m] = IF config = "path" THEN "dir" ELSE "file"]
          /\ UNCHANGED crashed
       \/ /\ Goto(m, "new", "gone")
          /\ config = "root" \/ (config = "plain" /\ file = Missing)
          /\ UNCHANGED <<watch, crashed>>
       \/ /\ Goto(m, "new", "gone")
          /\ CanFail /\ crashed' \in BOOLEAN
          /\ UNCHANGED watch
    /\ UNCHANGED <<shared, disk, want, parsing, pending, applied, bounds>>

Arm(m) ==
    /\ Goto(m, "arm", "loop")
    /\ flag' = TRUE
    /\ UNCHANGED <<level, disk, want, parsing, events, bounds, crashed>>

\* Mutant: the loop never ends.
LoopForever(m) == Pass(m, "loop", "select")

\* The loop ends, and with it the watch, when mdclog_init() has cleared the flag.
Loop(m) ==
    \/ Pass(m, "loop", "select") /\ flag
    \/ /\ Goto(m, "loop", "gone") /\ ~flag
       /\ watch' = [watch EXCEPT ![m] = "none"]
       /\ pending' = [pending EXCEPT ![m] = FALSE]
       /\ UNCHANGED <<shared, disk, want, parsing, applied, bounds, crashed>>

\* select() returns for an event, after a second without one, or with an error
\* when a signal comes, which the code takes for an event.
Select(m) ==
    \/ Pass(m, "select", "read") /\ (pending[m] \/ Signals)
    \/ Pass(m, "select", "loop") /\ ~pending[m]

\* read() waits for an event and takes all there are, unless a signal comes.
Read(m) ==
    /\ Goto(m, "read", "parse")
    /\ pending[m]
    /\ pending' = [pending EXCEPT ![m] = FALSE]
    /\ UNCHANGED <<shared, disk, want, parsing, watch, applied, bounds, crashed>>

ReadInterrupted(m) == Pass(m, "read", "loop") /\ Signals /\ ~pending[m]

-----------------------------------------------------------------------------
Call(t) ==
    \/ \E monitor \in BOOLEAN : FormatInitialize(t, monitor)
    \/ MdclogInit(t)
    \/ \E l \in Sets : LevelSet(t, l)

\* The steps of mdclog_format_initialize(), of a monitor, and of both.
Step(t) ==
    /\ ~crashed
    /\ \/ CheckFlag(t) \/ PutFields(t) \/ StartMonitor(t)
       \/ AddWatch(t) \/ Arm(t) \/ Loop(t) \/ Select(t) \/ Read(t)
       \/ Parse(t) \/ Value(t) \/ UpdateLevel(t)

\* Nothing is left to look at after a crash.
Next ==
    /\ ~crashed
    /\ \/ Rename \/ Unlink \/ Truncate \/ CloseWrite \/ OtherFile
       \/ \E m \in Monitors : OldFile(m)
       \/ \E t \in Apps : Call(t)
       \/ \E t \in Threads : Step(t) \/ ReadInterrupted(t)

Spec == Init /\ [][Next]_vars

\* Threads keep running; select() has a timeout, so a monitor that is in it
\* goes on even if nothing happens.  read() need not be interrupted.
FairSpec == Spec /\ \A t \in Threads : WF_vars(Step(t))

-----------------------------------------------------------------------------
AppLabels == {"idle", "check", "fields", "parse", "value", "set", "start"}
MonitorLabels == {"none", "new", "arm", "loop", "select", "read", "parse", "value", "set", "gone"}

TypeOK ==
    /\ {flag, rewriting, crashed} \subseteq BOOLEAN
    /\ config \in Names \cup {"none"}
    /\ level \in Levels
    /\ {file, last} \subseteq Contents \cup {<<>>, Missing}
    /\ \A t \in Apps : pc[t] \in AppLabels
    /\ \A m \in Monitors : pc[m] \in MonitorLabels
    /\ want \in [Threads -> BOOLEAN]
    /\ token \in [Threads -> Lines \cup {None}]
    /\ saved \in Threads \cup {None} /\ spoilt \subseteq Threads
    /\ watch \in [Monitors -> {"none", "dir", "file", "old", "lost"}]
    /\ pending \in [Monitors -> BOOLEAN]
    /\ applied \in [Monitors -> Levels \cup {None}]
    /\ calls \in [Apps -> 0..MaxCalls]
    /\ inits \in 0..MaxInits /\ writes \in 0..MaxWrites

\* The level that the file asks for.
FileLevel == LevelOf(FirstLine(file))

\* The levels a monitor may have taken from the file: that of the file that was
\* last put in place, and, when it has been deleted, the default as well, since
\* the monitor only notices if another event makes it look.
CurrentLevels ==
    {LevelOf(FirstLine(last))} \cup (IF file = Missing THEN {LevelOf(None)} ELSE {})

\* A monitor that waits for the next event has not lost one: the level it has
\* set last is that of the file last put in place, however the steps of whoever
\* changes the file fall between its reading of the event, of the file, and its
\* setting of the level.  This holds as long as the monitor watches the directory
\* or the file of this name: one whose file has no '/' in its name promises
\* nothing from the first replacement of the file on.  (A level that came out of
\* a raced strtok() or a failed strdup() is no level of the file: applied is None
\* then.)
NoLostChange ==
    \A m \in Monitors :
        /\ watch[m] \in {"dir", "file"} /\ ~rewriting
        /\ pc[m] \in {"loop", "select"} /\ ~pending[m] /\ applied[m] # None
        => applied[m] \in CurrentLevels

\* When the file no longer changes, every monitor that has ever set the level,
\* and that watches the directory or the file of this name, ends up with the
\* level of the file, or failed to read it.
CatchesUp ==
    <>[](crashed \/ rewriting \/
         \A m \in Monitors :
            watch[m] \in {"dir", "file"} => applied[m] \in CurrentLevels \cup {None})

\* Once mdclog_init() has cleared the flag for good, every monitor stops without
\* waiting for an event, except one that a signal has sent into read().
MonitorsStop ==
    <>[](~flag) => <>[](crashed \/ \A m \in Monitors :
                            pc[m] \in {"none", "gone"} \/ (pc[m] = "read" /\ ~pending[m]))

Quiet ==
    /\ \A t \in Apps : pc[t] = "idle"
    /\ \A m \in Monitors : pc[m] \in {"none", "loop", "select", "gone"} /\ ~pending[m]
    /\ ~rewriting

\* "Value: 1 signifies to monitor to dynamic change in log severity": while a
\* monitor is running and nothing is going on, the level is that of the file, if
\* there is one.
LevelMonitored ==
    Quiet /\ file # Missing /\ (\E m \in Monitors : pc[m] \in {"loop", "select"}) => level = FileLevel

\* "Invalid Log-Level Configuration in ConfigMap, Default Log-Level Applied": no
\* configuration file makes the process crash.
InvalidFileTolerated == ~crashed
=============================================================================
