--------------------------- MODULE StateFile_proofs ---------------------------
(***************************************************************************)
(* Theorems about StateFile, for any number of kills and any interleaving  *)
(* of the three writers: the types; that half a text is found only after   *)
(* writers met; and that a write which meets no other implements the one   *)
(* step of AtomicFile.                                                     *)
(***************************************************************************)
EXTENDS StateFile, TLAPS

-----------------------------------------------------------------------------
(* Types.                                                                  *)

LEMMA TypeInit == Init => TypeOK
<1> SUFFICES ASSUME Init PROVE TypeOK
    OBVIOUS
<1>1. 0 \in 0..MaxCrash
    BY StateFileAssumption
<1>2. Blank \in States
    BY DEF Blank, States
<1> QED
    BY <1>1, <1>2 DEF Init, TypeOK, Steps

\* Publishing touches nothing but the writer's own step and value.
LEMMA PublishType ==
    ASSUME TypeOK, NEW w \in Writers, NEW b \in BOOLEAN, Publish(w, b)
    PROVE  /\ step' \in [Writers -> Steps]
           /\ val' \in [Writers -> States]
           /\ fd' = fd
  BY DEF TypeOK, Publish, States, Steps

LEMMA MeetType ==
    ASSUME TypeOK, NEW w \in Writers, Meet(w)
    PROVE  met' \in SUBSET Writers /\ spoiled' \in BOOLEAN
  BY DEF TypeOK, Meet, Others

LEMMA OverwrittenType ==
    ASSUME NEW old, NEW new \in States
    PROVE  /\ Overwritten(old, new) \in Contents
           /\ old = Empty => Overwritten(old, new) = new
  BY DEF Overwritten, Contents

LEMMA EndsType ==
    ASSUME TypeOK, NEW w \in Writers, Ends(w)
    PROVE  /\ step' \in [Writers -> Steps]
           /\ val' \in [Writers -> States]
           /\ met' \in SUBSET Writers
<1>1. Blank \in States
    BY DEF Blank, States
<1> QED
    BY <1>1 DEF TypeOK, Ends, Steps

LEMMA WriteStepType ==
    ASSUME TypeOK, NEW w \in Writers, WriteStep(w)
    PROVE  TypeOK'
<1>1. CASE ReadSet(w)
    BY <1>1 DEF ReadSet, TypeOK, States, Steps, files, history
<1>2. CASE Open(w)
    <2>1. met' \in SUBSET Writers /\ spoiled' \in BOOLEAN
        BY <1>2, MeetType DEF Open, Opened
    <2> QED
        BY <1>2, <2>1 DEF Open, Opened, TypeOK, Contents, Steps
<1>3. CASE Write(w)
    <2>1. /\ Overwritten(temp, val[w]) \in Contents
          /\ Overwritten(file, val[w]) \in Contents
        BY OverwrittenType DEF TypeOK
    <2> QED
        BY <1>3, <2>1 DEF Write, TypeOK, Steps, history
<1>4. CASE Rename(w)
    <2>1. CASE Renamed(w)
        BY <1>4, <2>1, EndsType DEF Rename, Renamed, Unnamed, TypeOK
    <2>2. CASE RenameFails(w)
        BY <1>4, <2>2 DEF Rename, RenameFails, TypeOK, Steps, files, history
    <2> QED
        BY <1>4, <2>1, <2>2 DEF Rename
<1>5. CASE Remove(w)
    BY <1>5, EndsType DEF Remove, TypeOK
<1> QED
    BY <1>1, <1>2, <1>3, <1>4, <1>5 DEF WriteStep

LEMMA CrashType ==
    ASSUME TypeOK, Crash
    PROVE  TypeOK'
<1>1. Blank \in States
    BY DEF Blank, States
<1>2. crashes' \in 0..MaxCrash
    BY StateFileAssumption DEF Crash, TypeOK
<1>3. /\ step' \in [Writers -> Steps] /\ val' \in [Writers -> States]
      /\ fd' \in [Writers -> {"tmp", "path", "gone", None}]
    BY <1>1 DEF Crash, Steps
<1>4. temp' \in Contents \cup {None} /\ file' \in Contents \cup {None}
    BY DEF Crash, TypeOK, files
<1> QED
    BY <1>2, <1>3, <1>4 DEF Crash, TypeOK

LEMMA TypeStep == TypeOK /\ [Next]_vars => TypeOK'
<1> SUFFICES ASSUME TypeOK, [Next]_vars PROVE TypeOK'
    OBVIOUS
<1>0. "runner" \in Writers /\ "watcher" \in Writers /\ "refresher" \in Writers
    BY DEF Writers
<1>a. IsAlive \in BOOLEAN
    BY DEF IsAlive
<1>1. CASE Start
    BY <1>1, <1>0, PublishType DEF Start, TypeOK, files, history
<1>2. CASE SpawnTasks
    BY <1>2 DEF SpawnTasks, TypeOK, files, writing, history
<1>3. CASE OnConnect
    BY <1>3, <1>0, PublishType DEF OnConnect, TypeOK, files, history
<1>4. CASE Drop
    BY <1>4 DEF Drop, TypeOK, files, writing, history
<1>5. CASE DesktopChanges
    BY <1>5 DEF DesktopChanges, TypeOK, files, writing, history
<1>6. CASE OnChange
    BY <1>6, <1>a, <1>0, PublishType DEF OnChange, TypeOK, files, history
<1>7. CASE RefresherTick
    BY <1>7, <1>a, <1>0, PublishType DEF RefresherTick, TypeOK, files, history
<1>8. CASE Crash
    BY <1>8, CrashType
<1>9. CASE \E w \in Writers : WriteStep(w)
    BY <1>9, WriteStepType
<1>10. CASE UNCHANGED vars
    BY <1>10 DEF vars, TypeOK, writing, files, history
<1> QED
    BY <1>1, <1>2, <1>3, <1>4, <1>5, <1>6, <1>7, <1>8, <1>9, <1>10 DEF Next

\* The state file's model keeps its types, however the writers interleave.
THEOREM TypeCorrect == Spec => []TypeOK
  BY TypeInit, TypeStep, PTL DEF Spec

-----------------------------------------------------------------------------
(* A writer that met no other is the only one between its open and its     *)
(* end; the temporary is its own, empty until it writes and its text       *)
(* after, and the file readers see has no open writer.                     *)

MetAreBusy == \A w \in met : Busy(w)

Alone ==
    \A v, w \in Writers : Busy(v) /\ Busy(w) /\ v \notin met => v = w

OwnTmp ==
    \A w \in Writers \ met :
        /\ step[w] = "write" => fd[w] = "tmp" /\ temp = Empty
        /\ step[w] = "rename" => temp = val[w]
        /\ step[w] # "remove"

FileInv == TypeOK /\ MetAreBusy /\ Alone /\ OwnTmp /\ (met # {} => spoiled) /\ WholeUnlessMet

LEMMA FileInit == Init => FileInv
<1> SUFFICES ASSUME Init PROVE FileInv
    OBVIOUS
<1>1. TypeOK
    BY TypeInit
<1> QED
    BY <1>1 DEF Init, FileInv, MetAreBusy, Alone, OwnTmp, Busy, WholeUnlessMet, NeverHalfWritten

\* Outside open..remove nothing the invariant speaks of changes.
LEMMA QuietStep ==
    ASSUME FileInv, TypeOK', UNCHANGED <<fd, files, history>>,
           \A w \in Writers : \/ step'[w] = step[w] /\ val'[w] = val[w]
                              \/ ~Busy(w) /\ ~Busy(w)'
    PROVE  FileInv'
<1>1. \A w \in Writers : Busy(w)' <=> Busy(w)
    BY DEF Busy
<1>2. MetAreBusy' /\ Alone'
    BY <1>1 DEF FileInv, MetAreBusy, Alone, TypeOK, history
<1>3. OwnTmp'
    BY DEF FileInv, OwnTmp, Busy, files, history
<1> QED
    BY <1>2, <1>3 DEF FileInv, WholeUnlessMet, NeverHalfWritten, Readable, files, history

LEMMA OpenStep ==
    ASSUME FileInv, TypeOK', NEW w \in Writers, Open(w)
    PROVE  FileInv'
<1> USE DEF FileInv
<1>1. /\ step[w] = "open" /\ step' = [step EXCEPT ![w] = "write"]
      /\ fd' = [fd EXCEPT ![w] = "tmp"] /\ temp' = Empty /\ UNCHANGED <<file, val>>
    BY DEF Open, Opened
<1>2. ~Busy(w) /\ Busy(w)' /\ w \notin met
    BY <1>1 DEF Busy, TypeOK, MetAreBusy
<1>3. \A v \in Writers \ {w} : Busy(v)' <=> Busy(v)
    BY <1>1 DEF Busy, TypeOK
<1>4. CASE Others(w) = {}
    <2>1. \A v \in Writers \ {w} : ~Busy(v) /\ ~Busy(v)'
        BY <1>3, <1>4 DEF Others
    <2>2. met' = {} /\ met = {} /\ UNCHANGED spoiled
        BY <1>2, <1>4, <2>1 DEF Open, Opened, Meet, MetAreBusy, TypeOK
    <2>3. MetAreBusy' /\ Alone'
        BY <2>1, <2>2 DEF MetAreBusy, Alone
    <2>4. OwnTmp'
        BY <1>1, <2>1 DEF OwnTmp, TypeOK, Busy
    <2> QED
        BY <1>1, <2>2, <2>3, <2>4 DEF WholeUnlessMet, NeverHalfWritten, Readable
<1>5. CASE Others(w) # {}
    <2>1. met' = met \cup {w} \cup Others(w) /\ spoiled'
        BY <1>5 DEF Open, Opened, Meet
    <2>2. \A v \in Writers : Busy(v)' <=> v \in met'
        BY <1>2, <1>3, <2>1 DEF Others, MetAreBusy, TypeOK
    <2>3. MetAreBusy' /\ Alone' /\ OwnTmp'
        BY <2>1, <2>2 DEF MetAreBusy, Alone, OwnTmp, Busy, TypeOK
    <2> QED
        BY <2>1, <2>3 DEF WholeUnlessMet
<1> QED
    BY <1>4, <1>5

\* The steps of a writer that met no other: it is the only one.
LEMMA AloneStep ==
    ASSUME FileInv, NEW w \in Writers, Busy(w), w \notin met
    PROVE  met = {} /\ \A v \in Writers \ {w} : ~Busy(v)
  BY DEF FileInv, Alone, MetAreBusy, TypeOK

LEMMA WriteOutStep ==
    ASSUME FileInv, TypeOK', NEW w \in Writers, Write(w)
    PROVE  FileInv'
<1> USE DEF FileInv
<1>1. /\ step[w] = "write" /\ step' = [step EXCEPT ![w] = "rename"]
      /\ UNCHANGED <<val, met, spoiled>>
    BY DEF Write, history
<1>2. \A v \in Writers : Busy(v)' <=> Busy(v)
    BY <1>1 DEF Busy, TypeOK
<1>3. MetAreBusy' /\ Alone'
    BY <1>1, <1>2 DEF MetAreBusy, Alone, TypeOK
<1>4. CASE w \in met
    <2>1. \A v \in Writers \ met : ~Busy(v)
        BY <1>4 DEF Alone, MetAreBusy
    <2>2. OwnTmp'
        BY <1>1, <1>2, <2>1 DEF OwnTmp, Busy
    <2> QED
        BY <1>1, <1>3, <1>4, <2>2 DEF WholeUnlessMet
<1>5. CASE w \notin met
    <2>1. met = {} /\ \A v \in Writers \ {w} : ~Busy(v)
        BY <1>1, <1>5, AloneStep DEF Busy
    <2>2. fd[w] = "tmp" /\ temp = Empty
        BY <1>1, <1>5 DEF OwnTmp
    <2>3. temp' = val[w] /\ file' = file
        BY <2>2, OverwrittenType DEF Write, TypeOK
    <2>4. OwnTmp'
        BY <1>1, <2>1, <2>3 DEF OwnTmp, Busy, TypeOK
    <2> QED
        BY <1>1, <1>3, <2>3, <2>4 DEF WholeUnlessMet, NeverHalfWritten, Readable
<1> QED
    BY <1>4, <1>5

\* What a writer that ends leaves to the others.
LEMMA EndStep ==
    ASSUME FileInv, NEW w \in Writers, Busy(w), Ends(w)
    PROVE  /\ \A v \in Writers \ {w} : step'[v] = step[v] /\ val'[v] = val[v]
           /\ ~Busy(w)' /\ MetAreBusy' /\ Alone'
           /\ \A v \in Writers \ met' : ~Busy(v)'
<1> USE DEF FileInv
<1>1. /\ step' = [step EXCEPT ![w] = "idle"] /\ met' = met \ {w}
      /\ \A v \in Writers \ {w} : step'[v] = step[v] /\ val'[v] = val[v]
    BY DEF Ends, TypeOK
<1>2. ~Busy(w)' /\ \A v \in Writers \ {w} : Busy(v)' <=> Busy(v)
    BY <1>1 DEF Busy, TypeOK
<1>3. MetAreBusy'
    BY <1>1, <1>2 DEF MetAreBusy, TypeOK
<1>4. \A v \in Writers \ met' : ~Busy(v)'
    BY <1>1, <1>2 DEF Alone, TypeOK
<1>5. Alone'
    BY <1>4 DEF Alone
<1> QED
    BY <1>1, <1>2, <1>3, <1>4, <1>5

LEMMA RenameStep ==
    ASSUME FileInv, TypeOK', NEW w \in Writers, Rename(w)
    PROVE  FileInv'
<1> USE DEF FileInv
<1>1. step[w] = "rename" /\ Busy(w)
    BY DEF Rename, Busy
<1>2. CASE Renamed(w)
    <2>1. MetAreBusy' /\ Alone' /\ \A v \in Writers \ met' : ~Busy(v)'
        BY <1>1, <1>2, EndStep DEF Renamed
    <2>2. OwnTmp'
        BY <2>1 DEF OwnTmp, Busy
    <2>3. CASE w \in met
        BY <1>2, <2>1, <2>2, <2>3 DEF Renamed, WholeUnlessMet
    <2>4. CASE w \notin met
        <3>1. temp = val[w] /\ file' = temp /\ met = {} /\ met' = {}
            BY <1>1, <1>2, <2>4, AloneStep DEF OwnTmp, Renamed, Ends
        <3> QED
            BY <2>1, <2>2, <3>1 DEF TypeOK, WholeUnlessMet, NeverHalfWritten, Readable
    <2> QED
        BY <2>3, <2>4
<1>3. CASE RenameFails(w)
    <2>1. /\ step' = [step EXCEPT ![w] = "remove"]
          /\ temp = None /\ UNCHANGED <<val, fd, temp, file, met, spoiled>>
        BY <1>3 DEF RenameFails, files, history
    <2>2. w \in met
        <3>1. SUFFICES ASSUME w \notin met PROVE FALSE
            OBVIOUS
        <3>2. temp = val[w] /\ val[w] \in States
            BY <1>1, <3>1 DEF OwnTmp, TypeOK
        <3> QED
            BY <2>1, <3>2, StateFileAssumption
    <2>3. \A v \in Writers : Busy(v)' <=> Busy(v)
        BY <1>1, <2>1 DEF Busy, TypeOK
    <2>4. MetAreBusy' /\ Alone' /\ OwnTmp'
        BY <2>1, <2>2, <2>3 DEF MetAreBusy, Alone, OwnTmp, TypeOK
    <2> QED
        BY <2>1, <2>4 DEF WholeUnlessMet, NeverHalfWritten, Readable
<1> QED
    BY <1>2, <1>3 DEF Rename

LEMMA RemoveStep ==
    ASSUME FileInv, TypeOK', NEW w \in Writers, Remove(w)
    PROVE  FileInv'
<1> USE DEF FileInv
<1>1. step[w] = "remove" /\ Busy(w) /\ w \in met
    BY DEF Remove, Busy, OwnTmp
<1>2. MetAreBusy' /\ Alone' /\ \A v \in Writers \ met' : ~Busy(v)'
    BY <1>1, EndStep DEF Remove
<1>3. OwnTmp'
    BY <1>2 DEF OwnTmp, Busy
<1> QED
    BY <1>1, <1>2, <1>3 DEF Remove, WholeUnlessMet

LEMMA CrashStep ==
    ASSUME FileInv, TypeOK', Crash
    PROVE  FileInv'
<1>1. (\A w \in Writers : step'[w] = "idle") /\ met' = {} /\ UNCHANGED spoiled
    BY DEF Crash
<1>2. MetAreBusy' /\ Alone' /\ OwnTmp'
    BY <1>1 DEF MetAreBusy, Alone, OwnTmp, Busy
<1> QED
    BY <1>1, <1>2 DEF FileInv, Crash, WholeUnlessMet, NeverHalfWritten, Readable, files

\* What a step of the daemon is to its files.
LEMMA DaemonStep ==
    ASSUME [Next]_vars, TypeOK
    PROVE  \/ /\ UNCHANGED <<fd, files, history>>
              /\ \A w \in Writers : \/ step'[w] = step[w] /\ val'[w] = val[w]
                                    \/ ~Busy(w) /\ ~Busy(w)'
           \/ \E w \in Writers : Open(w) \/ Write(w) \/ Rename(w) \/ Remove(w)
           \/ Crash
<1>0. "runner" \in Writers /\ "watcher" \in Writers /\ "refresher" \in Writers
    BY DEF Writers
<1>1. ASSUME NEW w \in Writers, NEW b, Publish(w, b)
      PROVE  /\ UNCHANGED fd
             /\ \A v \in Writers : \/ step'[v] = step[v] /\ val'[v] = val[v]
                                   \/ ~Busy(v) /\ ~Busy(v)'
    BY <1>1 DEF Publish, Busy, TypeOK
<1>2. CASE Start \/ OnConnect \/ OnChange \/ RefresherTick
    BY <1>0, <1>1, <1>2 DEF Start, OnConnect, OnChange, RefresherTick
<1>3. CASE SpawnTasks \/ Drop \/ DesktopChanges \/ UNCHANGED vars
    BY <1>3 DEF SpawnTasks, Drop, DesktopChanges, vars, writing
<1>4. CASE \E w \in Writers : ReadSet(w)
    BY <1>4 DEF ReadSet, Busy, TypeOK
<1> QED
    BY <1>2, <1>3, <1>4 DEF Next, WriteStep

LEMMA FileStep == FileInv /\ [Next]_vars => FileInv'
<1> SUFFICES ASSUME FileInv, [Next]_vars PROVE FileInv'
    OBVIOUS
<1>1. TypeOK /\ TypeOK'
    BY TypeStep DEF FileInv
<1> QED
    BY <1>1, DaemonStep, QuietStep, OpenStep, WriteOutStep, RenameStep, RemoveStep, CrashStep

LEMMA FileInvariant == Spec => []FileInv
  BY FileInit, FileStep, PTL DEF Spec

\* `zyrisd status` reads no file or a whole text unless writers met and none has since
\* written on its own: for any interleaving, number of kills and left-over temporaries.
THEOREM TornOnlyByMeeting == Spec => []WholeUnlessMet
<1>1. FileInv => WholeUnlessMet
    BY DEF FileInv
<1> QED
    BY <1>1, FileInvariant, PTL

-----------------------------------------------------------------------------
(* A write is one step of AtomicFile: its publication begins with the open *)
(* and, if it meets no other, the rename commits it.                       *)

DownIsIdle == phase = "down" => ~owed /\ \A w \in Writers : step[w] = "idle"

LEMMA DownStep == DownIsIdle /\ TypeOK /\ [Next]_vars => DownIsIdle'
<1> SUFFICES ASSUME DownIsIdle, TypeOK, [Next]_vars PROVE DownIsIdle'
    OBVIOUS
<1> USE DEF DownIsIdle
<1>1. CASE Start \/ SpawnTasks \/ OnConnect \/ DesktopChanges \/ RefresherTick
    BY <1>1 DEF Start, SpawnTasks, OnConnect, DesktopChanges, RefresherTick
<1>2. CASE Drop \/ UNCHANGED vars
    BY <1>2 DEF Drop, vars, writing
<1>3. CASE OnChange
    BY <1>3 DEF OnChange
<1>4. CASE Crash
    BY <1>4 DEF Crash
<1>5. CASE \E w \in Writers : WriteStep(w)
    BY <1>5 DEF WriteStep, ReadSet, Open, Opened, Write, Rename, Remove
<1> QED
    BY <1>1, <1>2, <1>3, <1>4, <1>5 DEF Next

Pending == Publishing(step, val)

LEMMA PendingOf ==
    ASSUME NEW w \in Writers
    PROVE  /\ Busy(w) => Pending[w] = val[w]
           /\ ~Busy(w) => Pending[w] = None
  BY DEF Pending, Publishing, Busy

LEMMA PendingUnderWay ==
    ASSUME TypeOK
    PROVE  \A w \in Writers : Pending[w] # None <=> Busy(w)
<1>1. \A w \in Writers : val[w] # None
    BY StateFileAssumption DEF TypeOK
<1> QED
    BY <1>1, PendingOf

LEMMA PendingSame ==
    ASSUME \A w \in Writers : \/ Busy(w)' /\ Busy(w) /\ val'[w] = val[w]
                              \/ ~Busy(w) /\ ~Busy(w)'
    PROVE  Pending' = Pending
  BY DEF Pending, Publishing, Busy

LEMMA PendingEnds ==
    ASSUME TypeOK, NEW w \in Writers, Ends(w)
    PROVE  Pending' = [Pending EXCEPT ![w] = None]
<1>1. /\ step'[w] = "idle"
      /\ \A v \in Writers \ {w} : step'[v] = step[v] /\ val'[v] = val[v]
    BY DEF Ends, TypeOK
<1> QED
    BY <1>1 DEF Pending, Publishing

LEMMA OpenBegins ==
    ASSUME FileInv, DownIsIdle, NEW w \in Writers, Open(w)
    PROVE  Written!Begin(w)
<1> USE DEF FileInv
<1>1. step[w] = "open" /\ step' = [step EXCEPT ![w] = "write"] /\ val' = val
    BY DEF Open, Opened
<1>2. phase # "down" /\ phase' # "down" /\ UNCHANGED file
    BY <1>1 DEF DownIsIdle, Open, Opened
<1>3. Pending[w] = None /\ ~Busy(w)
    BY <1>1, PendingOf DEF Busy
<1>4. Pending' = [Pending EXCEPT ![w] = val[w]]
    BY <1>1 DEF Pending, Publishing, TypeOK
<1>5. Written!UnderWay = Others(w)
    <2>1. Written!UnderWay = {v \in Writers : Pending[v] # None}
        BY DEF Written!UnderWay, Pending
    <2> QED
        BY <2>1, <1>3, PendingUnderWay DEF Others
<1>6. met' = IF Others(w) = {} THEN {} ELSE met \cup {w} \cup Others(w)
    <2>1. Others(w) = {} => met \ {w} = {}
        BY DEF Others, MetAreBusy, TypeOK
    <2> QED
        BY <2>1 DEF Open, Opened, Meet
<1>7. val[w] \in States
    BY DEF TypeOK
<1> QED
    BY <1>2, <1>3, <1>4, <1>5, <1>6, <1>7 DEF Written!Begin, Pending

LEMMA RenameCommits ==
    ASSUME FileInv, NEW w \in Writers, Rename(w)
    PROVE  \/ Written!Commit(w) \/ Written!Mix
           \/ UNCHANGED <<phase # "down", file, Pending, met>>
<1> USE DEF FileInv
<1>1. step[w] = "rename" /\ Busy(w) /\ UNCHANGED phase
    BY DEF Rename, Busy
<1>2. CASE Renamed(w) /\ w \in met
    <2>1. Pending' = [Pending EXCEPT ![w] = None] /\ met' = met \ {w}
        BY <1>2, PendingEnds DEF Renamed, Ends
    <2> QED
        BY <1>1, <1>2, <2>1 DEF Written!Mix, Pending
<1>3. CASE Renamed(w) /\ w \notin met
    <2>1. Pending' = [Pending EXCEPT ![w] = None] /\ met' = met \ {w}
        BY <1>3, PendingEnds DEF Renamed, Ends
    <2>2. met' = met
        BY <1>3, <2>1
    <2>3. Pending[w] = val[w] /\ val[w] # None
        BY <1>1, PendingOf, StateFileAssumption DEF TypeOK
    <2>4. file' = val[w]
        BY <1>1, <1>3 DEF OwnTmp, Renamed
    <2> QED
        BY <1>1, <1>3, <2>1, <2>2, <2>3, <2>4 DEF Written!Commit, Pending
<1>4. CASE RenameFails(w)
    <2>1. step' = [step EXCEPT ![w] = "remove"] /\ UNCHANGED <<val, file, met>>
        BY <1>4 DEF RenameFails, files, history
    <2>2. Pending' = Pending
        BY <1>1, <2>1, PendingSame DEF Busy, TypeOK
    <2> QED
        BY <1>1, <2>1, <2>2
<1> QED
    BY <1>2, <1>3, <1>4 DEF Rename

LEMMA WriteMixes ==
    ASSUME FileInv, NEW w \in Writers, Write(w)
    PROVE  Written!Mix \/ UNCHANGED <<phase # "down", file, Pending, met>>
<1> USE DEF FileInv
<1>1. /\ step[w] = "write" /\ step' = [step EXCEPT ![w] = "rename"]
      /\ UNCHANGED <<val, met, phase>>
    BY DEF Write, history
<1>2. Pending' = Pending
    BY <1>1, PendingSame DEF Busy, TypeOK
<1>3. CASE met = {}
    BY <1>1, <1>2, <1>3 DEF OwnTmp, Write
<1>4. CASE met # {}
    BY <1>1, <1>2, <1>4 DEF Written!Mix, Pending
<1> QED
    BY <1>3, <1>4

LEMMA RemoveMixes ==
    ASSUME FileInv, NEW w \in Writers, Remove(w)
    PROVE  Written!Mix
<1> USE DEF FileInv
<1>1. w \in met
    BY DEF Remove, OwnTmp
<1>2. Pending' = [Pending EXCEPT ![w] = None] /\ met' = met \ {w} /\ UNCHANGED phase
    BY PendingEnds DEF Remove, Ends
<1> QED
    BY <1>1, <1>2 DEF Written!Mix, Pending

LEMMA CrashKills ==
    ASSUME Crash
    PROVE  Written!Killed
<1>1. (\A w \in Writers : step'[w] = "idle") /\ met' = {} /\ phase # "down" /\ phase' = "down"
    BY DEF Crash
<1>2. Pending' = [w \in Writers |-> None]
    BY <1>1 DEF Pending, Publishing
<1>3. file' \in {file, None}
    BY DEF Crash, files
<1> QED
    BY <1>1, <1>2, <1>3 DEF Written!Killed, Pending

LEMMA QuietStutters ==
    ASSUME [Next]_vars, UNCHANGED <<fd, files, history>>,
           \A w \in Writers : \/ step'[w] = step[w] /\ val'[w] = val[w]
                              \/ ~Busy(w) /\ ~Busy(w)'
    PROVE  \/ Written!Starts \/ Written!Killed
           \/ \E w \in Writers : Write(w) \/ Rename(w) \/ Remove(w)
           \/ UNCHANGED <<phase # "down", file, Pending, met>>
<1>1. Pending' = Pending
    BY PendingSame DEF Busy
<1>2. UNCHANGED <<file, met>>
    BY DEF files, history
<1>3. CASE Start
    BY <1>1, <1>2, <1>3 DEF Start, Written!Starts, Pending
<1>4. CASE Crash
    BY <1>4, CrashKills
<1>5. CASE \/ SpawnTasks \/ OnConnect \/ Drop \/ DesktopChanges \/ OnChange \/ RefresherTick
           \/ UNCHANGED vars
    BY <1>1, <1>2, <1>5
       DEF SpawnTasks, OnConnect, Drop, DesktopChanges, OnChange, RefresherTick, vars
<1>6. CASE \E w \in Writers : ReadSet(w) \/ Open(w)
    BY <1>1, <1>2, <1>6 DEF ReadSet, Open, Opened
<1> QED
    BY <1>3, <1>4, <1>5, <1>6 DEF Next, WriteStep

\* open, write and rename of state::write implement the promise of AtomicFile: whatever
\* the tasks' interleaving, a publication that meets no other is one step of the file to
\* exactly its text, and only writers that met do anything else to it.
THEOREM WritesAreAtomic == Spec => AtomicWrites
<1> DEFINE Abs == <<phase # "down", file, Pending, met>>
<1>1. Init => Written!Init /\ DownIsIdle
    <2> SUFFICES ASSUME Init PROVE Written!Init /\ DownIsIdle
        OBVIOUS
    <2>1. Pending = [w \in Writers |-> None]
        BY DEF Init, Pending, Publishing
    <2> QED
        BY <2>1 DEF Init, Written!Init, DownIsIdle, Pending
<1>2. FileInv /\ DownIsIdle /\ [Next]_vars => [Written!Next]_Abs /\ DownIsIdle'
    <2> SUFFICES ASSUME FileInv, DownIsIdle, [Next]_vars
                 PROVE  [Written!Next]_Abs /\ DownIsIdle'
        OBVIOUS
    <2>0. TypeOK /\ DownIsIdle'
        BY DownStep DEF FileInv
    <2>1. ASSUME NEW w \in Writers, Open(w) PROVE Written!Next
        <3>1. Written!Begin(w)
            BY <2>1, OpenBegins
        <3> QED
            BY <3>1 DEF Written!Next
    <2>2. ASSUME NEW w \in Writers, Write(w) \/ Rename(w) \/ Remove(w)
          PROVE  [Written!Next]_Abs
        BY <2>2, WriteMixes, RenameCommits, RemoveMixes DEF Written!Next
    <2>3. CASE Crash
        BY <2>0, <2>3, CrashKills DEF Written!Next
    <2>4. CASE /\ UNCHANGED <<fd, files, history>>
               /\ \A w \in Writers : \/ step'[w] = step[w] /\ val'[w] = val[w]
                                     \/ ~Busy(w) /\ ~Busy(w)'
        BY <2>0, <2>2, <2>4, QuietStutters DEF Written!Next
    <2> QED
        BY <2>0, <2>1, <2>2, <2>3, <2>4, DaemonStep
<1>3. [Written!Next]_Abs => [Written!Next]_(Written!vars)
    BY DEF Written!vars, Pending
<1> HIDE DEF Abs
<1> QED
    BY <1>1, <1>2, <1>3, FileInvariant, PTL DEF Spec, AtomicWrites, Written!Spec
=============================================================================
