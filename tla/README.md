# A TLA+ model of the com-log library

com-log (`mdclog`) is a C library that writes structured log entries. A process
calls it from any number of threads; each entry is one line of JSON on standard
output with a timestamp, a severity, the identity of the process, the *mapped
diagnostic context* (MDC) of the calling thread, and a message. This directory
models the library in TLA+, checks the models with TLC on small instances, and
proves their safety properties with TLAPS for instances of any size.

Line numbers below refer to the files under `src/` of the repository.

## 1. Inventory

| Component | Source | State | Operations |
|---|---|---|---|
| Mapped diagnostic context | `src/mdc.c`, public part in `src/mdclog.c:212-249` | per thread: a doubly linked list of heap entries, reached through thread-specific data | add, get, remove, clean, thread exit, walk for a log entry |
| Configuration and initialisation | `src/mdclog.c:59-140, 179-210` | `init_done`, `identity`, `config_mutex`; one attributes object per caller | `mdclog_init`, initialisation on first use, `mdclog_attr_*`, the lock around the formatting in `mdclog_write` |
| Log entry formatter | `src/json_format.c` | one buffer per call | timestamp, severity, identity, MDC, message; truncation |
| Escape helpers | `src/json_format.c:59-135` | none | escape, size of the escaped text, test for special characters, de-escape |
| Log level and file monitor | `src/mdclog.c:169-177, 260-428` | `current_level`, `log_format_init_done`, the state of `strtok`, detached threads with an inotify queue | set and get, `parse_file`, `update_mdc_log_level_severity`, the monitor loop |
| Format initialisation | `src/mdclog.c:430-483` | uses all of the above | `mdclog_format_initialize` |
| Output | `src/mdclog.c:162-166`, `include/private/system.h` | none | one `write(2)`, retried after a signal |
| Clean-up | `src/mdclog.c:251-258` | the configuration | `mdclog_lib_clean`, between unit tests |

How they interact. Every public function except the attribute and level
functions first calls `init_library(NULL)`, which initialises the library when
`init_done` is clear. `mdclog_write` takes the lock for reading and calls the
formatter with the shared identity and the head of its own MDC list.
`mdclog_init` takes the lock for writing and replaces the identity.
`mdclog_format_initialize` puts environment values into the MDC, reads the level
from a file, and may start a thread that reads it again whenever inotify reports a
change; `mdclog_init` clears the flag that keeps this thread alive.

What is hard here:

- `init_done`, `log_format_init_done` and `current_level` are plain variables that
  threads read and write without the lock;
- the identity moves by pointer from a caller's attributes to the configuration
  and is freed by whoever initialises next, while writers format with it;
- the lists of all threads take their entries from one heap, so that a stale
  pointer in one thread would reach into the list of another;
- an allocation can fail at five places of a put, some of them after the list has
  been changed;
- the formatter computes lengths as differences of unsigned numbers, leaves out
  what does not fit, and goes back over escaped text to make room for a marker;
- the file may change at any moment between the reading of an event, the reading
  of the file and the setting of the level; `strtok` is shared by all threads;
- whether the monitor watches a directory or a file depends on the name it was given,
  and some changes are reported to neither.

What makes each component correct: a thread's list is exactly the set of entries
it has allocated, properly linked, without duplicate keys, untouched by others;
it behaves as an atomic map (MDC). One owner per string, an identity that does
not change under a reader, an `mdclog_init` that takes effect, no call that waits
forever with the lock (configuration). No byte out of bounds, entries of legal shape only,
truncation exactly when needed, termination (formatter). No change of the file
that is never applied, monitors that stop when told (monitor). A successful format
initialisation that has set its fields, a failed one that does little harm (fields). `PROJECT.json`
lists each hazard with its line and the properties that guard it.

## 2. Modules

| Module | Models | Notes |
|---|---|---|
| `JsonText` | characters, escaping, special characters | operators only; shared by all |
| `Mdc` | `mdc.c` and the MDC functions of `mdclog.c` | any number of threads, one heap |
| `MdcContext` | what the MDC promises | abstract specification, implemented by `Mdc` |
| `SequenceLemmas` | `Min`, `Max`, `RemoveAt`, `RemoveFirst`, `FlattenSeq` of the libraries | lemmas that the proofs share |
| `TextLemmas` | what escaping, de-escaping and the reader of a JSON string compute | lemmas about the operators of `JsonText` |
| `MdcProofs`, `ConfigProofs`, `JsonFormatProofs`, `FieldsProofs`, `MonitorProofs` | theorems about the module of that name | TLAPS |
| `MdcRefinement` | `Mdc` implements `MdcContext` | TLAPS |
| `Config` | `init_library`, `mdclog_init`, `mdclog_lib_clean`, attributes, lock, `mdclog_write` | any number of threads |
| `JsonFormat` | one call of the formatter, or of `escape_and_copy` | sequential |
| `Fields` | what `mdclog_format_initialize` does to the context of its thread | composes the caller with `MdcContext` |
| `Monitor` | the level, the file, format initialisation, monitor threads | application threads, monitors, a process that edits the file |
| `MCMdc`, `MCConfig`, `MCJsonFormat`, `MCFields`, `MCMonitor` | values of the constants for TLC | |

**Characters.** A text is a sequence of characters, and a character is a model
of a class: `Backslash`, `Quote`, `Unprintable`, `Space`, or any other string
(`"a"`, `"x"`), which stands for a printable one that is copied as it is.
`Image` gives what the escape loop writes for one character.

**Mdc.** `head`, `prev`, `next`, `key`, `value` are the pointers and fields of the
code; `live` is the set of allocated entries; `pc`, `call`, `cur`, `seen`, `ret` are
the local state and the result of the call a thread is in. `order` is auxiliary:
the entries of a list from oldest to newest, against which the pointers are
compared. A call takes a step for `get_list()`, one for every turn of a loop, and
a last one that changes the list and returns (`PutNew`, `PutReplace`, `RmMdc`, …).
The last step is one action although the code changes several pointers in it: the
list is private to the thread, so no other thread can see it half done, and the
heap's `malloc` and `free` are atomic. `destroy` stands for
`mdclog_internal_destroy_mdclist()` and for the exit of the thread, whose
destructor empties and frees the list; a thread started later takes its place.
`Fail` names the allocations that may fail: that of the `list`, the `entry`, the
copy of the `key` or the `value`, and the `copy` `mdclog_mdc_get` returns. When a
copy of a key or value fails, the code frees an entry that stays linked
(`mdc.c:208-210`). The model keeps this and marks the thread `broken`; `cur` then is
the freed entry. The other threads go on and may be handed that entry by the heap. If the
broken thread makes another call or exits (`CallBroken`), the code reads and writes
through the freed entry (`list->head->prev` in `mdc.c:65`, `destroy_list` in
`mdc.c:111-118`), which may by then be an entry of another thread: behaviour is undefined
for the whole process, the model says so (`Defined`) and takes no further step. What the
properties say of any thread they say up to there. `Intact` are the entries of a list
that have not been freed: all of them, or all but that one.

**MdcContext.** Each thread has a sequence of pairs; a call acts on it in one step
between its beginning and its return. The mapping in `Mdc` (`Contents` and `Inside`)
reads the pairs off `order`, and takes a list as empty as soon as `empty_list` has begun.

**Config.** `init_done`, `identity` and `attr` are the fields of the code, `MaxIdent` is
`IDENTITY_MAX_LENGTH`, `text` the heap of strings, `writer` and `readers` the rwlock (external: any number of readers
or one writer, no order among those that wait). Calls are split at every access to
`init_done`, at the lock, at the unlock and at `write(2)`, which comes after the
unlock and may take for ever. `latest`, `overlapped` and `failed` are auxiliary:
what the last `mdclog_init` asked for, whether anything initialised the library
beside one, and whether an allocation has failed. A write that the level filters out
does nothing here. `LibClean` takes no lock; the unit tests call it when no thread is
in the library, and so does the model.

**JsonFormat.** `text` is the part of the buffer before the current offset, `top` how
far the buffer has been written, `base` and `limit` the buffer a loop was given. One
action per field and per outcome (`AddField`/`SkipField`, `OpenMdc`/`SkipMdc`, …), one
per turn of each loop. Keywords, digits and pairs of the context matter only by
their length; the identity and the message are kept as characters, because the
properties tell them apart. `printed` is how far `vsnprintf` came: all of the message,
or, when it fails, what it had printed before (as glibc leaves the buffer); its -1,
plus one as an unsigned number, is zero, so that the message counts as one that fits.
`Deescaped` is the inverse of the escape loop into a buffer of any length.

**Fields.** The variables of `MdcContext` are the contexts of all threads; a thread in
`mdclog_format_initialize` makes one call after the other on its own: get, remove and
add for a field that the environment has, add of an empty value for one that it has
not. `run` holds its local variables, and for the properties the context it found. The
threads share `flag` only. A monitor that a successful call has created sets it at any
later moment (`Arm`), `mdclog_init` clears it. As `Mdc` implements `MdcContext`, the
results hold for the lists too, except for a failed copy of a key or value, which
breaks the list (`mdc_failed_put`) and is left out of `Fail` here.

**Monitor.** `parse_file` is two steps (`Parse`, `Value`), since `strtok` keeps its
place in one variable of the process (`saved`) between them; when another thread
has used `strtok` in between, the value may be any word or a crash.

`config` is the kind of name that the environment gives the file, because
`mdclog.c:351-362` makes a difference. A `path` (`dir/file`) is cut at its last `/`, and
the directory is watched. A `plain` name has no `/`, and the watch is on the file itself
(the unit test of the handler uses such a name, `test_api.cpp:306-308`). Of `root`
(`/file`) the cut leaves an empty name, which `inotify_add_watch` refuses, so that the
monitor ends. `watch` says what a monitor watches. A file can be replaced by a rename,
deleted or moved away (`Unlink`), or truncated or created first and written and closed later. The mask
`IN_MOVED_TO | IN_CLOSE_WRITE` reports a rename to those who watch the directory, the end
of a rewriting to those who watch either, and a deletion to nobody. After a rename or a
deletion the watch on a file is on one that has lost its name (`old`); when that file
ceases to exist, `IN_IGNORED` wakes the monitor once and the watch is `lost`
(`OldFile`): no later change of the file of this name is reported. `last` is auxiliary,
the contents of the file last put in place.

`pending` is
a monitor's inotify queue, of which only "empty or not" matters, as one `read`
takes all events and any event makes the monitor read the file. `read` with an event
in the queue does not fail; without one it waits, or is interrupted. `applied` and
`spoilt` are auxiliary: the level a monitor has set last, unless it came out of a race
or a failed `strdup`. `want` is the argument of `mdclog_format_initialize`. After a
crash of the process the model stops.

## 3. What the runs check

| Run | Shows |
|---|---|
| `mdc_safe` | Two threads, three entries, three keys and one that is refused, two values; lists, entries and caller's copies may fail. `TypeOK`; every allocated entry is in exactly one list (`EntriesOwned`); pointers agree in both directions (`ListLinked`); no key twice (`KeysUnique`); loops stay in their own list (`WalksOwnList`); what is stored may stand in a JSON string (`EntriesPrintable`); no thread touches another's list (`OthersUntouched`); every call is atomic to its caller (`ImplementsContext`). |
| `mdc_low_memory` | Any allocation may fail. A put that fails leaves one freed entry in its list; the others are allocated, linked and in no other list, although other threads may be given the freed entry, link it into their lists and free it again (`DamageConfined`). Every call returns (`CallsReturn`). Both until a thread uses its broken list. |
| `config_safe` | Two threads, five calls, failing allocations: one owner for every string (`SoleOwner`), no change under a reader (`IdentityStable`), the library is ready when `init_done` is set (`ReadyWhenDone`), every entry is named (`EntryNamed`), nothing leaks in an initialisation (`InitLosesNoString`), an `mdclog_init` that nothing runs beside takes effect (`InitAloneTakesEffect`), and every call returns or gets to its `write`, even if that of another thread never returns (`CallsReturn`). |
| `json_safe` | 26 buffer lengths, messages of up to four characters of three classes: `InBounds`, `EntryWhole`, `TruncatedWhenNeeded`, `CopyWhole`, `CopyReversible` and `FormatEnds`, also when `malloc` or `vsnprintf` fails. |
| `monitor_safe` | Two monitors, signals, failures, the `strtok` race, all kinds of names, and replacement, rewriting and deletion of the file at any moment. A monitor that waits has applied the file last put in place (`NoLostChange`), and one that has not does so in the end (`CatchesUp`), as long as its watch is on the directory or on the file of this name; while the file is missing, the level may also be the default. Monitors stop when told (`MonitorsStop`). |
| `fields_safe` | Two threads that initialise the format, on contexts the application uses too, with failing allocations: a call that works and returns 0 has set its fields (`FieldsSet`), one that fails leaves the pairs of the application alone and loses at most one field (`LittleLost`). |

For every property of these runs `PROJECT.json` names a plausible
change of the modelled code, defined next to the original (`Mutant:` in the
comment), under which TLC finds the property violated.

### Where the code and its documentation disagree

Each of these runs is expected to end with a counterexample; the finding in
`PROJECT.json` quotes the line that is contradicted.

| Run | Counterexample |
|---|---|
| `mdc_failed_put` | A put whose copy of the key or value cannot be allocated frees the entry but leaves it in the list: `mdclog_internal_get_first_mdc()` then returns freed memory. |
| `config_raced` | TLC reports: thread B enters `mdclog_init` and clears `init_done`; A uses the library for the first time, initialises it and sets `init_done`; B finds it set and returns without having looked at its attributes. The other order violates the property too: A has found `init_done` clear, B completes `mdclog_init`, A takes the lock, frees B's identity and puts the program name in its place. |
| `json_dropped` | With the code's own sizes (buffer of 4095 bytes, one pair of 4024 bytes) the fields leave exactly `strlen(MINIMUM_MESSAGE)` bytes, one less than `format_message` asks for, and the whole entry is lost instead of truncated. One byte less in the pair keeps both, one byte more drops the pair and keeps the entry. |
| `json_identity` | The escaped program name has a quote as its 100th character: `format_identity` cuts it behind the backslash, which then escapes the closing quote of the field. |
| `monitor_window` | The file changes after it was read and before the monitor watches the directory: the level stays that of the file, or of its absence, as it was read. In TLC's trace the file does not exist when it is read, and does when the thread is started. |
| `monitor_invalid` | `log-level:` without a value, or a line of separators only, makes `parse_file` pass a null pointer to `strdup` or `strcmp`. |

Two more differences are visible in the models without a run of their own. The header
(`mdclog.h:179`) says that values with illegal characters are refused, but
`mdclog_mdc_add` tests the key only and escapes the value (`RejectAdd`, `Escaped`). And
`mdclog_format_initialize` "adds in MDC log format" the fields and returns 0 "in case of
success" (`mdclog.h:207-215`), but also returns 0 without adding anything when it finds a
monitor running, which may be that of another thread (`CheckFlag` in `Fields`), and when
an empty field could not be added (`Failed`).

Two limits of the monitor follow from `mdclog.c:351-362`, contradict no line of the
repository, and are built into its properties: with a name without `/` it notices no
change after the first replacement or deletion of the file, and with any name it does not
notice a deletion.

## 4. Bounds, and why they are enough

- *MDC.* Three entries let a list have a head, a middle and an end, the three cases
  `rm_from_list` distinguishes, and let two threads exhaust the heap and take over
  each other's freed entries. Entries and threads are interchangeable (symmetry); the
  liveness run `mdc_low_memory` has no symmetry, two keys and one value. Nothing else is bounded: threads make
  any number of calls. The theorems of section 6 need none of these bounds.
- *Configuration.* `MaxCalls` bounds the calls of both threads together, 5 in
  `config_safe`; `AttrSetIdent` leaves one of them for using the identity. They suffice
  to set an identity, initialise with it, initialise again and write, in either thread
  and in both at once. `mdclog_attr_init`, `mdclog_attr_destroy` and `mdclog_lib_clean`
  are not bounded. Allocations may fail at any time, so four strings are no restriction
  in kind. `Alloc` picks the first free string: which one `malloc` picks cannot be told
  as long as every string has one owner, and `SoleOwner` is checked in the same run.
- *Formatter.* The fixed texts have lengths that are constants of the module. `json_safe`
  scales them down (`Open` 2, `Marker` 2, `MinBuffer` 7) so that messages of four
  characters meet every boundary: with lengths 6 to 31 the buffer ends in each field,
  between the pairs, at each byte of the message and of the marker, and after them.
  `json_dropped` uses the real lengths.
- *Monitor.* One application thread and two initialisations (`MaxInits`), by which two
  monitors run at once; three calls in all, so that one is left to stop them or to
  set a level. `MaxWrites` is 2, with a truncation and a rewriting counted as one: a change
  that wakes the monitor, or takes the watched file away from it, and one between its reading of the event, of the file, and its
  setting of the level. Liveness is stated for files that no longer change, which the
  bound provides. `monitor_window` and `monitor_invalid` have no failures and no signals,
  so that their counterexamples blame nothing else.
- *Fields.* Two of the five fields, one value that has to be escaped; each field is in the
  environment or not. Three calls in all: a field or a pair of the application, one
  initialisation and another, in one thread or in two. Threads are interchangeable.

`CHECK_DEADLOCK FALSE` stands where the system may stop: a formatter call that has
returned, a finite number of calls and changes in `Monitor` and `Fields`, and the use of a broken list
in `mdc_low_memory`.

## 5. Fairness

Weak fairness for the steps of each thread inside the library, and none for its
calls: a thread that is running is scheduled, but nobody has to call the library. In
`Mdc` no step waits. In `Config` a step may wait for the lock; weak fairness is
enough because the calls are finitely many, so the lock is not taken over and over by
others. `write` is not fair: nobody has to read standard output, and `CallsReturn` says
that a thread that is stuck there stops no other. In `Monitor` `select` has a timeout of a second, which justifies that a
monitor leaves it even without an event. `read` after a `select` that a signal has
interrupted waits until the next event or signal, and neither has to come: this is the
one exception `MonitorsStop` makes.

## 6. What is proved

Every invariant and every action property of the passing runs is a theorem, and so is the
refinement; the runs show them on small instances, the theorems for any sets of
threads, entries, strings, keys, values and files, for texts and buffers of any length, and
whichever allocations fail. Each proof module states an inductive invariant `Inv`, proves
`Invariance` (`Spec => []Inv`) with one lemma per action, and draws the properties from it.

**Mdc** (`MdcProofs`). `Inv == TypeOK /\ EntriesOwned /\ AllLinked /\ OneFreed /\ KeysUnique /\
WalksOwnList`, where `AllLinked` says what `ListLinked` says of the intact entries of broken lists
as well, and `OneFreed` that a broken list has one freed entry. The consequences `TypeCorrect`, `NoDanglingEntry`, `ListsStayLinked`,
`NoDuplicateKey` and `LoopsStayInList` state the invariants of `mdc_safe`, `ListsArePrivate` its
action property `OthersUntouched`. `EntriesArePrintable` adds `KeysLegal` to `Inv`: a call that adds has
tested its key, so has every key in a list; the values are escaped texts by `TypeOK`, and that
those are legal in a JSON string is `EscapedSafe` of `TextLemmas`.

No conjunct but the first is inductive alone. A removal repairs the pointers of
the neighbours of the entry it unlinks, and that these are the neighbours in
`order` is `AllLinked`; that no other list has them is `EntriesOwned`, which in turn
needs that the entry a loop is at is one of the thread's own, `WalksOwnList`. A new
key is unique because the search that ended at NULL has passed every entry,
which only `WalksOwnList` remembers. `FailedPutConfined` is
the property of `mdc_low_memory`. Its argument: the freed entry is the one a broken list does
not own, so that `EntriesOwned`, stated for intact entries, still gives every other entry one
owner; whoever gets the freed entry from the heap changes only that entry and those of its
own list. All of this ends when a thread uses a broken list: `CallBroken` leaves the state as
it is and nothing follows it, so the theorems claim nothing about what the code does then.
`StepSpares` says what a step of one thread leaves alone in the list of another one;
privacy follows from it.

**Mdc implements MdcContext** (`MdcRefinement`). `ListsImplementContexts`: initial states map
to initial states, and every step of `Mdc` to a step of `MdcContext` or to none. One lemma
per action (`NewMaps`, `ReplaceMaps`, `RemoveMaps`, ...) says which. A search that has found
the key is at the entry whose pair the abstract call acts on; one that ended at NULL has
passed all of them, so that the context has no such pair: both come from `WalksOwnList`
and `KeysUnique`. The walk of a write collects the pairs it passes (`SeenIsPrefix`).
Emptying a list takes effect at its first step, the others at their last. The theorem supposes that
the copies of keys and values that a put makes do not fail (`{"key", "value"} \cap Fail = {}`): when
one does, the entry that is freed and stays in the list is a pair no context has.

**Config** (`ConfigProofs`). `Inv == TypeOK /\ SoleOwner /\ LockHeld /\ CallKnown /\ Prepared
/\ ReadyWhenDone /\ EntryNamed`. `LockHeld` ties the lock to the places in the code that hold it;
with `SoleOwner` it gives `IdentityKept` (no change under a reader) and `EntriesNamed`, since
whoever frees the identity is the writer and no reader is there. `Prepared` is what
`init_library()` has done for a thread that is this far. It is needed because `init_done` is
read without the lock: a thread that found it set goes on after another one has cleared it, and
what it relies on is no longer `ReadyWhenDone` but what it saw. `CallKnown` says that the
attributes an `mdclog_init` was given are still there when it moves the identity out of them;
without it `NoStringLost` fails. `InitAloneEffective` has an invariant of its own on top of
`Inv` (`Sequential`, `AskedFor`): as long as nothing initialised the library beside another
initialisation, at most one thread is inside one, and at each of its places it is known
which identity the configuration has or will get.

**JsonFormat** (`JsonFormatProofs`). `Inv == TypeOK /\ Calling /\ Room /\ FieldsWhole /\
MessageWhole /\ EntryWhole /\ CopyWhole`. `Room` is the arithmetic: what is left of the buffer at each
place, with the bytes that are kept back for the shortest message. `NeverOutOfBounds` is a
consequence, together with the fact that going back to make room for the marker does not pass the
start of the message; that needs `MessageWhole`. `FieldsWhole` says that the entry so far
consists of whole fields and pairs, `MessageWhole` that the message so far is the escaped form of
its first `k` characters; `EntriesWhole`, `TruncatedOnlyWhenNeeded` and `CopiesWhole` follow.
The lemmas under it are about the escape loop for texts of any length: the length of
an escaped text is that of the text plus the number of escaped characters
(`EscapedHeadLength`), which is what `mdclog_internal_escaped_size()` computes
(`EscapedSizeExact`), and it grows with every character (`EscapedHeadGrows`).
`CopiesReversible` follows from `CopyWhole` and from what the de-escaping loop makes of an escaped text
(`DeescapedEscaped`).

**Monitor** (`MonitorProofs`). `Inv == TypeOK /\ PcTyped /\ FreshUnapplied /\ LastInPlace /\ NothingLost`.
`NoLostChange` speaks of monitors that wait; to be inductive it has to say what a monitor has
in hand on the way there. `InHand`: while it watches the directory or the file of this name, no
event is pending and nobody is rewriting the file, the token it has read and the level it has
set are in `CurrentLevels`. Taking the event before reading the file makes `InHand` hold, and
the level goes from the token to `applied` without a look at the file. Changes keep it, each for
its own reason: a rename makes an event pending for those who watch the directory and ends
the watch on the file of this name for the others; a rewriting ends with an event for both;
a deletion is reported to nobody, and `CurrentLevels` is wider until a file takes
the place, which is reported. `LastInPlace` says that the file, when there is
one and nobody is rewriting it, is `last`. `FreshUnapplied` covers a monitor that watches and
has read nothing yet (what may be lost before that is the finding `monitor_window`).

**Fields** (`FieldsProofs`). `Inv == Typed /\ Counting /\ \A t : PhaseOK(t)`. `PhaseOK` says, for a thread at
each place of `mdclog_format_initialize()`, which fields are set (`Done`), that the pairs of the
application are as the call found them, that no field is lost but possibly the one it is
at, and only after its removal (`Working`), and what it has asked of the context
and got (`Asking`): the last is needed because the context acts between the call and
its return. `Counting` bounds the monitors that are starting. `FieldsAreSet` and
`LittleIsLost` follow at the return.

**Induction over data.** What a recursive definition computes for every input is proved by the
least counterexample: the set of lengths for which a claim fails is a set of
natural numbers, and if it is not empty it has a least element (`LeastNatural`), which the step
refutes. `SequenceLemmas` proves this way that the function inside the library's
`FlattenSeq` exists and is unique, and from that how `FlattenSeq` acts on an appended sequence;
`TextLemmas` does the same for `FoldLeft`, whose recursion is over sets of positions, with the
two loops the models fold (`Scan` and `DeescapeTurn`) in place of its operator parameter.

**Assumptions** on the constants, each evaluated by TLC in the runs. Values that stand for
"nothing" are none of the others: `PointerAssumption`, `StringAssumption`, `ThreadAssumption` and
`TextAssumption` of `Mdc` and `Config` (no entry, string or thread is NULL; keys and values are sequences), `FileAssumption` of
`Monitor` (a missing file has no contents); its `NameAssumption` lists the kinds of names. `Alloc` gives only free strings (`AllocAssumption`).
`LengthAssumption` of `JsonFormat`: the fixed texts are not empty and the smallest buffer
accepted has room for the shortest entry, as in `json_format.c:55-56` and `json_format.h:34`; its `TextAssumption`: an
identity has no unprintable character, since `mdclog_attr_set_ident` refuses one and
`init_library` escapes a program name that has one. `FieldAssumption` and `KeyAssumption` of `Fields`: the names of the fields
are different, and legal keys, as those in `mdclog.c` are. Bounds are natural numbers.

**Only model-checked.** Liveness (`CallsReturn`, `FormatEnds`, `CatchesUp`, `MonitorsStop`), which is
beyond this prover, and the six counterexamples of section 3.

## 7. What is not modelled

- Memory ordering: a plain variable that is accessed without the lock is taken to be
  sequentially consistent. The races on `init_done` that matter show up already then.
- `write(2)` in parts: an entry has at most `PIPE_BUF` bytes, and a pipe takes it as a
  whole; the code does not look at the result. With glibc's `TEMP_FAILURE_RETRY` it is
  retried after a signal, with that of `system.h` also when a non-blocking standard output
  is full: in the model both are a `write` that takes longer.
- The list that is lost when `pthread_setspecific` fails (`mdc.c:158`): the call ends as
  when the list cannot be allocated, which is modelled; the memory is not counted.
- Failing `pthread_once` and `pthread_key_create`: the latter aborts the process.
- What a process does that uses a list broken by a failed put: any behaviour is possible.
- NULL given to `mdclog_attr_set_ident` or `mdclog_mdc_add`, which is refused like an identity
  or a key that is not legal.
- Several changes of the file at once: a process that rewrites the file finishes before
  the next one renames, deletes or rewrites it. Removal of the directory that is watched.
- Lines of the configuration file longer than 127 bytes, which `fgets` splits.
- The copy of the file name that a monitor is given and nobody frees (`mdclog.c:412`).
- The walk over the list and the lock of `mdclog_write` in one module: the list is private
  to the thread and the lock does not guard it, so the two share no state.
- googletest, the unit tests, build files and packaging.

## 8. Plan

Done, in this order: the MDC and its abstract specification; configuration and
initialisation; the formatter; the level and its monitor; the inductive invariant of
the MDC and the privacy of the lists; output, clean-up, de-escaping, failing
`vsnprintf`; races, failures and signals together in `Monitor`; the composition of the
format initialisation with the contexts.

All operations of the library are modelled. Then the proofs: ownership, lock and
initialisation in `Config`; `NoLostChange` in `Monitor`; bounds, shape and truncation of an
entry in `JsonFormat`; the refinement of `MdcContext` by `Mdc`; the fields in `Fields`;
what the scanner and the de-escaping loop compute for an escaped text of any length:
`EntriesPrintable` and `CopyReversible`.

Next: theorems that need no run of their own but say more than the runs do, in this order.

1. How far an entry is from legal JSON: every part of it but a cut identity (the finding
   `json_identity`) is `JsonSafe`, so that an identity of at most `MaxIdent` bytes gives a legal entry.
2. What an `mdclog_init` beside others still guarantees, as `config_raced` shows that the identity it
   asked for may be lost: it never ends up with one that nobody asked for.
3. The refinement without its hypothesis, for the threads whose lists are not broken.
