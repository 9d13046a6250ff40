---------------------------- MODULE MonitorProofs ---------------------------
(***************************************************************************)
(* Theorems about Monitor for any application threads, monitors, contents  *)
(* of the file and number of changes.                                      *)
(***************************************************************************)
EXTENDS Monitor, SequenceLemmas

\* parse_file() finds a line of the file, or nothing.
LEMMA FirstLineType ==
    ASSUME NEW f \in Contents \cup {<<>>, Missing}
    PROVE  FirstLine(f) \in Lines \cup {None}
<1> DEFINE I == {i \in 1..Len(f) : f[i] # "other"}
<1>1. CASE f = Missing
  BY <1>1 DEF FirstLine
<1>2. CASE f # Missing
  <2>1. f \in Seq(Lines)
    <3>1. <<>> \in Seq(Lines)
      OBVIOUS
    <3>. QED  BY <1>2, <3>1, FileAssumption
  <2>2. SelectInSeq(f, LAMBDA line : line # "other") = IF I # {} THEN Min(I) ELSE 0
    BY DEF SelectInSeq
  <2>3. CASE I = {}
    BY <1>2, <2>2, <2>3 DEF FirstLine
  <2>4. CASE I # {}
    <3>1. I \in SUBSET Nat
      OBVIOUS
    <3>2. Min(I) \in 1..Len(f)
      BY <2>4, <3>1, MinProperties
    <3>3. FirstLine(f) = f[Min(I)]
      BY <1>2, <2>2, <2>4, <3>2 DEF FirstLine
    <3>. QED  BY <2>1, <3>2, <3>3
  <2>. QED  BY <2>3, <2>4
<1>. QED  BY <1>1, <1>2

LEMMA LevelOfType == ASSUME NEW word PROVE LevelOf(word) \in Levels
BY DEF LevelOf, Levels

-----------------------------------------------------------------------------
PcTyped == pc \in [Threads -> AppLabels \cup MonitorLabels]

\* A monitor that is about to enter its loop has set no level yet.
FreshUnapplied == \A m \in Monitors : pc[m] \in {"none", "new", "arm"} => applied[m] = None

\* Between the changes of a file that exists, it is the one last put in place.
LastInPlace == ~rewriting /\ file # Missing => last = file

\* What m has in hand: as long as it watches the directory or the file of this
\* name, no event is pending and nobody is rewriting the file, the token it has
\* read, or the level it has set, is current.
InHand(m) ==
    watch[m] \in {"dir", "file"} /\ ~pending[m] /\ ~rewriting =>
        /\ pc[m] = "value" \/ (pc[m] = "set" /\ m \notin spoilt) => LevelOf(token[m]) \in CurrentLevels
        /\ pc[m] \in {"loop", "select", "read"} /\ applied[m] # None => applied[m] \in CurrentLevels

NothingLost == \A m \in Monitors : InHand(m)

Inv == TypeOK /\ PcTyped /\ FreshUnapplied /\ LastInPlace /\ NothingLost

\* What a file that is read now says is current.
LEMMA ReadIsCurrent ==
    ASSUME LastInPlace, ~rewriting
    PROVE  LevelOf(FirstLine(file)) \in CurrentLevels
<1>1. CASE file = Missing
  <2>1. FirstLine(file) = None
    BY <1>1 DEF FirstLine
  <2>. QED  BY <1>1, <2>1, Zenon DEF CurrentLevels
<1>2. CASE file # Missing
  BY <1>2, Zenon DEF LastInPlace, CurrentLevels
<1>. QED  BY <1>1, <1>2

LEMMA InitInv == Init => Inv
<1> SUFFICES ASSUME Init PROVE Inv
  OBVIOUS
<1>1. TypeOK
  <2>1. /\ \A t \in Apps : pc[t] = "idle"
        /\ \A m \in Monitors : pc[m] = "none"
    BY ThreadAssumption DEF Init, Threads
  <2>2. calls \in [Apps -> 0..MaxCalls] /\ inits \in 0..MaxInits /\ writes \in 0..MaxWrites
    BY BoundAssumption DEF Init
  <2>3. flag \in BOOLEAN /\ config \in Names \cup {"none"} /\ rewriting \in BOOLEAN /\ crashed \in BOOLEAN
    BY DEF Init
  <2>4. level \in Levels
    BY DEF Init, Levels
  <2>5. want \in [Threads -> BOOLEAN] /\ token \in [Threads -> Lines \cup {None}]
    BY DEF Init
  <2>6. /\ watch \in [Monitors -> {"none", "dir", "file", "old", "lost"}]
        /\ pending \in [Monitors -> BOOLEAN] /\ applied \in [Monitors -> Levels \cup {None}]
    BY DEF Init
  <2>7. {file, last} \subseteq Contents \cup {<<>>, Missing} /\ saved \in Threads \cup {None} /\ spoilt \subseteq Threads
    BY DEF Init
  <2>. QED  BY <2>1, <2>2, <2>3, <2>4, <2>5, <2>6, <2>7 DEF TypeOK, AppLabels, MonitorLabels
<1>2. PcTyped
  BY DEF Init, PcTyped, AppLabels, MonitorLabels
<1>3. FreshUnapplied /\ LastInPlace /\ NothingLost
  BY ThreadAssumption DEF Init, FreshUnapplied, LastInPlace, NothingLost, InHand, Threads
<1>. QED  BY <1>1, <1>2, <1>3 DEF Inv

LEMMA NextInv == ASSUME Inv, [Next]_vars PROVE Inv'
<1> USE ThreadAssumption DEF Inv, shared, disk, parsing, events, bounds, Goto, Pass, PcTyped, Threads
<1>1. CASE Rename
  <2>1. TypeOK' /\ PcTyped'
    BY <1>1, BoundAssumption DEF Rename, Change, Notify, Replaced, TypeOK, AppLabels, MonitorLabels
  <2>2. FreshUnapplied' /\ LastInPlace'
    BY <1>1 DEF Rename, Change, Notify, TypeOK, MonitorLabels, FreshUnapplied, LastInPlace
  <2>3. \A m \in Monitors : watch'[m] \in {"dir", "file"} => pending'[m]
    BY <1>1 DEF Rename, Notify, Replaced, Watchers, TypeOK
  <2>4. NothingLost'
    BY <2>3 DEF NothingLost, InHand
  <2>. QED  BY <2>1, <2>2, <2>4
<1>2. CASE Unlink
  <2>1. TypeOK' /\ PcTyped'
    BY <1>2, BoundAssumption DEF Unlink, Change, Notify, Replaced, TypeOK, AppLabels, MonitorLabels
  <2>2. FreshUnapplied' /\ LastInPlace'
    BY <1>2 DEF Unlink, Change, Notify, TypeOK, MonitorLabels, FreshUnapplied, LastInPlace
  <2>3. CurrentLevels \subseteq CurrentLevels'
    BY <1>2 DEF Unlink, CurrentLevels
  <2>4. \A m \in Monitors : /\ watch'[m] \in {"dir", "file"} => watch[m] \in {"dir", "file"}
                             /\ pending'[m] = pending[m]
    BY <1>2 DEF Unlink, Notify, Replaced, TypeOK
  <2>5. NothingLost'
    BY <1>2, <2>3, <2>4 DEF Unlink, Notify, NothingLost, InHand
  <2>. QED  BY <2>1, <2>2, <2>5
<1>3. CASE Truncate
  <2>1. TypeOK' /\ PcTyped'
    BY <1>3, BoundAssumption DEF Truncate, Change, Notify, TypeOK
  <2>2. FreshUnapplied' /\ LastInPlace' /\ NothingLost'
    BY <1>3 DEF Truncate, Notify, FreshUnapplied, LastInPlace, NothingLost, InHand
  <2>. QED  BY <2>1, <2>2
<1>4. CASE CloseWrite
  <2>1. TypeOK' /\ PcTyped'
    BY <1>4 DEF CloseWrite, Notify, TypeOK
  <2>2. FreshUnapplied' /\ LastInPlace'
    BY <1>4 DEF CloseWrite, Notify, FreshUnapplied, LastInPlace
  <2>3. \A m \in Monitors : watch'[m] \in {"dir", "file"} => pending'[m]
    BY <1>4 DEF CloseWrite, Notify, Watchers, TypeOK
  <2>4. NothingLost'
    BY <2>3 DEF NothingLost, InHand
  <2>. QED  BY <2>1, <2>2, <2>4
<1>5. ASSUME NEW t \in Apps, Call(t) PROVE Inv'
  <2>1. TypeOK' /\ PcTyped'
    <3>1. ASSUME NEW to \in {"check", "idle"}, Begin(t, to)
          PROVE  /\ calls' \in [Apps -> 0..MaxCalls]
                 /\ PcTyped' /\ (\A u \in Apps : pc'[u] \in AppLabels)
                 /\ \A m \in Monitors : pc'[m] = pc[m]
      BY <3>1, BoundAssumption DEF Begin, TypeOK, AppLabels
    <3>2. ASSUME NEW monitor \in BOOLEAN, FormatInitialize(t, monitor) PROVE TypeOK' /\ PcTyped'
      <4>1. inits' \in 0..MaxInits /\ want' \in [Threads -> BOOLEAN]
        BY <3>2, BoundAssumption DEF FormatInitialize, TypeOK
      <4>. QED  BY <3>1, <3>2, <4>1 DEF FormatInitialize, Begin, TypeOK
    <3>3. CASE MdclogInit(t)
      BY <3>1, <3>3 DEF MdclogInit, Begin, TypeOK
    <3>4. ASSUME NEW l \in Sets, LevelSet(t, l) PROVE TypeOK' /\ PcTyped'
      BY <3>1, <3>4, BoundAssumption DEF LevelSet, Begin, TypeOK
    <3>. QED  BY <1>5, <3>2, <3>3, <3>4 DEF Call
  <2>2. FreshUnapplied' /\ LastInPlace' /\ NothingLost'
    BY <1>5 DEF Call, FormatInitialize, MdclogInit, LevelSet, Begin, TypeOK, MonitorLabels, FreshUnapplied, LastInPlace, NothingLost, InHand, CurrentLevels
  <2>. QED  BY <2>1, <2>2
<1>6. ASSUME NEW t \in Threads, CheckFlag(t) \/ PutFields(t) PROVE Inv'
  <2>1. TypeOK' /\ PcTyped'
    BY <1>6, ZenonT(30) DEF CheckFlag, PutFields, TypeOK, AppLabels, MonitorLabels
  <2>2. FreshUnapplied' /\ LastInPlace' /\ NothingLost'
    BY <1>6 DEF CheckFlag, PutFields, TypeOK, MonitorLabels, FreshUnapplied, LastInPlace, NothingLost, InHand, CurrentLevels
  <2>. QED  BY <2>1, <2>2
<1>7. ASSUME NEW t \in Threads, StartMonitor(t) PROVE Inv'
  <2>1. TypeOK' /\ PcTyped'
    BY <1>7 DEF StartMonitor, TypeOK, AppLabels, MonitorLabels
  <2>2. FreshUnapplied' /\ LastInPlace' /\ NothingLost'
    BY <1>7 DEF StartMonitor, TypeOK, MonitorLabels, FreshUnapplied, LastInPlace, NothingLost, InHand, CurrentLevels
  <2>. QED  BY <2>1, <2>2
<1>8. ASSUME NEW t \in Threads, AddWatch(t) \/ Arm(t) \/ Loop(t) PROVE Inv'
  <2>1. TypeOK' /\ PcTyped'
    <3>1. PcTyped' /\ (\A u \in Apps : pc'[u] \in AppLabels) /\ (\A m \in Monitors : pc'[m] \in MonitorLabels)
      BY <1>8 DEF AddWatch, Arm, Loop, TypeOK, AppLabels, MonitorLabels
    <3>2. crashed' \in BOOLEAN /\ flag' \in BOOLEAN
      BY <1>8 DEF AddWatch, Arm, Loop, TypeOK
    <3>3. pending' \in [Monitors -> BOOLEAN]
      BY <1>8 DEF AddWatch, Arm, Loop, TypeOK
    <3>4. watch' \in [Monitors -> {"none", "dir", "file", "old", "lost"}]
      BY <1>8 DEF AddWatch, Arm, Loop, TypeOK
    <3>. QED  BY <1>8, <3>1, <3>2, <3>3, <3>4 DEF AddWatch, Arm, Loop, TypeOK
  <2>2. FreshUnapplied' /\ LastInPlace' /\ NothingLost'
    BY <1>8 DEF AddWatch, Arm, Loop, TypeOK, MonitorLabels, FreshUnapplied, LastInPlace, NothingLost, InHand, CurrentLevels
  <2>. QED  BY <2>1, <2>2
<1>9. ASSUME NEW t \in Threads, Select(t) \/ ReadInterrupted(t) PROVE Inv'
  <2>1. TypeOK' /\ PcTyped'
    <3>1. PcTyped' /\ (\A u \in Apps : pc'[u] \in AppLabels) /\ (\A m \in Monitors : pc'[m] \in MonitorLabels)
      BY <1>9 DEF Select, ReadInterrupted, TypeOK, AppLabels, MonitorLabels
    <3>. QED  BY <1>9, <3>1 DEF Select, ReadInterrupted, TypeOK
  <2>2. FreshUnapplied' /\ LastInPlace' /\ NothingLost'
    BY <1>9 DEF Select, ReadInterrupted, TypeOK, MonitorLabels, FreshUnapplied, LastInPlace, NothingLost, InHand, CurrentLevels
  <2>. QED  BY <2>1, <2>2
<1>10. ASSUME NEW t \in Threads, Read(t) PROVE Inv'
  BY <1>10 DEF Read, TypeOK, AppLabels, MonitorLabels, FreshUnapplied, LastInPlace, NothingLost, InHand, CurrentLevels
<1>11. ASSUME NEW t \in Threads, Parse(t) PROVE Inv'
  BY <1>11, FirstLineType, ReadIsCurrent DEF Parse, TypeOK, AppLabels, MonitorLabels, FreshUnapplied, LastInPlace, NothingLost, InHand, CurrentLevels
<1>12. ASSUME NEW t \in Threads, Value(t) PROVE Inv'
  <2>1. TypeOK' /\ PcTyped'
    <3>1. token' \in [Threads -> Lines \cup {None}] /\ spoilt' \subseteq Threads
      <4>1. \A w \in Words \cup {None} : [token EXCEPT ![t] = w] \in [Threads -> Lines \cup {None}]
        BY DEF Lines, TypeOK
      <4>2. token' = token \/ \E w \in Words \cup {None} : token' = [token EXCEPT ![t] = w]
        BY <1>12, Zenon DEF Value
      <4>3. spoilt' \subseteq spoilt \cup {t}
        BY <1>12 DEF Value
      <4>4. token' \in [Threads -> Lines \cup {None}]
        BY <4>1, <4>2, ZenonT(30) DEF TypeOK
      <4>. QED  BY <4>3, <4>4 DEF TypeOK
    <3>2. crashed' \in BOOLEAN
      BY <1>12 DEF Value
    <3>3. PcTyped' /\ (\A u \in Apps : pc'[u] \in AppLabels) /\ (\A m \in Monitors : pc'[m] \in MonitorLabels)
      BY <1>12 DEF Value, TypeOK, AppLabels, MonitorLabels
    <3>. QED  BY <1>12, <3>1, <3>2, <3>3 DEF Value, TypeOK
  <2>2. FreshUnapplied' /\ LastInPlace' /\ NothingLost'
    BY <1>12 DEF Value, Lines, TypeOK, MonitorLabels, FreshUnapplied, LastInPlace, NothingLost, InHand, CurrentLevels
  <2>. QED  BY <2>1, <2>2
<1>13. ASSUME NEW t \in Threads, UpdateLevel(t) PROVE Inv'
  BY <1>13, LevelOfType DEF UpdateLevel, TypeOK, AppLabels, MonitorLabels, FreshUnapplied, LastInPlace, NothingLost, InHand, CurrentLevels
<1>14. CASE UNCHANGED vars
  BY <1>14 DEF vars, TypeOK, FreshUnapplied, LastInPlace, NothingLost, InHand, CurrentLevels
<1>15. ASSUME NEW t \in Threads, Step(t) PROVE Inv'
  BY <1>15, <1>6, <1>7, <1>8, <1>9, <1>10, <1>11, <1>12, <1>13 DEF Step
<1>16. CASE OtherFile \/ \E m \in Monitors : OldFile(m)
  <2>1. TypeOK' /\ PcTyped'
    <3>1. CASE OtherFile
      BY <3>1, BoundAssumption DEF OtherFile, Change, Notify, TypeOK
    <3>2. ASSUME NEW m \in Monitors, OldFile(m) PROVE TypeOK' /\ PcTyped'
      <4>1. /\ watch' \in [Monitors -> {"none", "dir", "file", "old", "lost"}]
            /\ pending' \in [Monitors -> BOOLEAN]
        BY <3>2 DEF OldFile, Notify, TypeOK
      <4>2. writes' \in 0..MaxWrites
        BY <3>2, BoundAssumption DEF OldFile, Change, TypeOK
      <4>. QED  BY <3>2, <4>1, <4>2 DEF OldFile, Notify, TypeOK
    <3>. QED  BY <1>16, <3>1, <3>2
  <2>2. /\ UNCHANGED <<file, last, rewriting, token, spoilt, applied, pc>>
        /\ \A m \in Monitors : /\ watch'[m] \in {"dir", "file"} => watch[m] \in {"dir", "file"}
                               /\ pending[m] => pending'[m]
    BY <1>16 DEF OtherFile, OldFile, Notify, TypeOK
  <2>3. CurrentLevels' = CurrentLevels
    BY <2>2 DEF CurrentLevels
  <2>4. FreshUnapplied' /\ LastInPlace' /\ NothingLost'
    BY <2>2, <2>3 DEF FreshUnapplied, LastInPlace, NothingLost, InHand
  <2>. QED  BY <2>1, <2>4
<1>. QED  BY <1>1, <1>2, <1>3, <1>4, <1>5, <1>9, <1>14, <1>15, <1>16 DEF Next

-----------------------------------------------------------------------------
\* The invariant holds for every interleaving of the processes that change the
\* file, the monitors, and the threads that initialise and stop them.
THEOREM Invariance == Spec => []Inv
<1>1. Init => Inv
  BY InitInv
<1>2. Inv /\ [Next]_vars => Inv'
  BY NextInv
<1>. QED  BY <1>1, <1>2, PTL DEF Spec

\* Every variable keeps its type: the level that update_mdc_log_level_severity()
\* derives from anything parse_file() returns is one of the four.
THEOREM TypeCorrect == Spec => []TypeOK
<1>1. Inv => TypeOK
  BY DEF Inv
<1>. QED  BY <1>1, Invariance, PTL

\* monitor_loglevel_change_handler() loses no change of the file that inotify
\* reports, for any number of monitors and however often the file changes: the
\* read() that takes all events comes before the file is read.  It says so of the
\* monitors that watch the directory, and of those that watch the file itself
\* until it is replaced.
THEOREM NoChangeLost == Spec => []NoLostChange
<1>1. Inv => NoLostChange
  BY DEF Inv, NothingLost, InHand, NoLostChange
<1>. QED  BY <1>1, Invariance, PTL
=============================================================================
