------------------------------ MODULE StateFile ------------------------------
(***************************************************************************)
(* state.json, which `zyrisd status` reads: the three tasks of the daemon  *)
(* that write it (the on_connect hook, the desktop watcher and the         *)
(* refresher), each through the same temporary file, and the connection    *)
(* and announced set it is to tell about.                                  *)
(***************************************************************************)
EXTENDS Naturals

CONSTANTS
    MaxCrash,       \* bound: times the daemon is killed
    None,
    Empty, Torn     \* contents that are no JSON: truncated, two texts mixed

Writers == {"runner", "watcher", "refresher"}
Steps == {"idle", "read", "open", "write", "rename", "remove"}
States == [connected : BOOLEAN, desktop : BOOLEAN]
Contents == States \cup {Empty, Torn}

ASSUME StateFileAssumption ==
    /\ MaxCrash \in Nat
    /\ {None, Empty, Torn} \cap (States \cup BOOLEAN) = {}
    /\ None \notin {Empty, Torn}

VARIABLES
    phase,      \* "down", "starting" (the first publish), "up" (the tasks run)
    slot,       \* ConnSlot: "empty", or its connection is "live" or "dead"
    desktop,    \* the desktop capabilities are announced
    owed,       \* the watcher changed them and has not called on_change yet
    last,       \* what the refresher wrote last, or None
    step,       \* per writer: where in publish_state and state::write it is
    val,        \* per writer: the State it has read so far
    fd,         \* per writer: the file it has open: the one now named "tmp" or
                \* "path", one without a name ("gone"), or None
    temp, file, \* the contents of state.json.tmp and state.json, or None
    met,        \* history: writers whose write and another's overlap
    spoiled,    \* history: the file was last changed by writers that met
    crashes

writing == <<step, val, fd>>
files == <<temp, file>>
history == <<met, spoiled>>
vars == <<phase, slot, desktop, owed, last, writing, files, history, crashes>>

TypeOK ==
    /\ phase \in {"down", "starting", "up"}
    /\ slot \in {"empty", "live", "dead"}
    /\ desktop \in BOOLEAN /\ owed \in BOOLEAN
    /\ last \in BOOLEAN \cup {None}
    /\ step \in [Writers -> Steps]
    /\ val \in [Writers -> States]
    /\ fd \in [Writers -> {"tmp", "path", "gone", None}]
    /\ temp \in Contents \cup {None} /\ file \in Contents \cup {None}
    /\ met \in SUBSET Writers /\ spoiled \in BOOLEAN
    /\ crashes \in 0..MaxCrash

Blank == [connected |-> FALSE, desktop |-> FALSE]

Init ==
    /\ phase = "down" /\ slot = "empty" /\ desktop = FALSE /\ owed = FALSE /\ last = None
    /\ step = [w \in Writers |-> "idle"] /\ val = [w \in Writers |-> Blank]
    /\ fd = [w \in Writers |-> None] /\ temp = None /\ file = None
    /\ met = {} /\ spoiled = FALSE
    /\ crashes = 0

\* variant: any connection in the slot counts, dead or not
IsFilled == slot # "empty"
\* ConnSlot::is_alive
IsAlive == slot = "live"

-----------------------------------------------------------------------------
(* publish_state and state::write, by writer w.  Nothing keeps the three   *)
(* tasks apart: each may stand between any two of these steps.             *)

\* The caller hands over what it takes the connection to be.
Publish(w, connected) ==
    /\ step[w] = "idle"
    /\ step' = [step EXCEPT ![w] = "read"]
    /\ val' = [val EXCEPT ![w].connected = connected]
    /\ UNCHANGED fd

\* caps.descriptors(), read on its own.
ReadSet(w) ==
    /\ step[w] = "read"
    /\ step' = [step EXCEPT ![w] = "open"]
    /\ val' = [val EXCEPT ![w].desktop = desktop]
    /\ UNCHANGED <<fd, files, history, phase, slot, desktop, owed, last, crashes>>

Busy(w) == step[w] \in {"write", "rename", "remove"}
Others(w) == {v \in Writers \ {w} : Busy(v)}

\* History only: w opens while Others(w) are between their open and their end.
Meet(w) ==
    \/ Others(w) = {} /\ met' = met \ {w} /\ UNCHANGED spoiled
    \/ Others(w) # {} /\ met' = met \cup {w} \cup Others(w) /\ spoiled' = TRUE

Opened(w, name) ==
    /\ step[w] = "open" /\ step' = [step EXCEPT ![w] = "write"]
    /\ fd' = [fd EXCEPT ![w] = name]
    /\ Meet(w)
    /\ UNCHANGED <<val, phase, slot, desktop, owed, last, crashes>>

\* variant: the file itself is opened, no temporary
OpenInPlace(w) == Opened(w, "path") /\ file' = Empty /\ UNCHANGED temp
\* fs::write: create or truncate state.json.tmp, whoever made it.
Open(w) == Opened(w, "tmp") /\ temp' = Empty /\ UNCHANGED file

\* "true" is shorter than "false", and the desktop capabilities add to the list.
Longer(s, t) ==
    \/ s.desktop /\ ~t.desktop
    \/ s.desktop = t.desktop /\ ~s.connected /\ t.connected

\* From offset 0: the end of a longer text already there stays.
Overwritten(old, new) ==
    IF old = Empty THEN new
    ELSE IF old = Torn \/ Longer(old, new) THEN Torn ELSE new

\* The bytes go to the file w opened, whatever its name is by now.
Write(w) ==
    /\ step[w] = "write" /\ step' = [step EXCEPT ![w] = "rename"]
    /\ temp' = IF fd[w] = "tmp" THEN Overwritten(temp, val[w]) ELSE temp
    /\ file' = IF fd[w] = "path" THEN Overwritten(file, val[w]) ELSE file
    /\ fd' = [fd EXCEPT ![w] = None]
    /\ UNCHANGED <<val, history, phase, slot, desktop, owed, last, crashes>>

\* state::write is done, and with it the history of w's publication.
Ends(w) ==
    /\ step' = [step EXCEPT ![w] = "idle"]
    /\ val' = [val EXCEPT ![w] = Blank]
    /\ met' = met \ {w}

Unnamed(name) == IF name = "tmp" THEN "path" ELSE IF name = "path" THEN "gone" ELSE name

Renamed(w) ==
    /\ temp # None /\ file' = temp /\ temp' = None
    /\ fd' = [v \in Writers |-> Unnamed(fd[v])]
    /\ spoiled' = (spoiled /\ w \in met)
    /\ Ends(w)

\* Another writer's rename has taken the temporary away.
RenameFails(w) ==
    /\ temp = None
    /\ step' = [step EXCEPT ![w] = "remove"]
    /\ UNCHANGED <<val, fd, files, history>>

\* variant: an existing state.json is in the way
RenameIfAbsent(w) ==
    /\ step[w] = "rename"
    /\ \/ file = None /\ Renamed(w)
       \/ file # None /\ temp' = None /\ Ends(w) /\ UNCHANGED <<file, fd, spoiled>>
    /\ UNCHANGED <<phase, slot, desktop, owed, last, crashes>>
Rename(w) ==
    /\ step[w] = "rename"
    /\ Renamed(w) \/ RenameFails(w)
    /\ UNCHANGED <<phase, slot, desktop, owed, last, crashes>>

\* fs::remove_file of the same name: by now perhaps another writer's temporary.
Remove(w) ==
    /\ step[w] = "remove"
    /\ temp' = None
    /\ fd' = [v \in Writers |-> IF fd[v] = "tmp" THEN "gone" ELSE fd[v]]
    /\ Ends(w)
    /\ UNCHANGED <<file, spoiled, phase, slot, desktop, owed, last, crashes>>

WriteStep(w) == ReadSet(w) \/ Open(w) \/ Write(w) \/ Rename(w) \/ Remove(w)

-----------------------------------------------------------------------------
(* run(): who publishes, and when.                                         *)

Start ==
    /\ phase = "down" /\ phase' = "starting"
    /\ Publish("runner", FALSE)
    /\ UNCHANGED <<slot, desktop, owed, last, files, history, crashes>>

SpawnTasks ==
    /\ phase = "starting" /\ step["runner"] = "idle" /\ phase' = "up"
    /\ UNCHANGED <<slot, desktop, owed, last, writing, files, history, crashes>>

\* on_connect: the slot is filled in the hook's body, then the state is written.
OnConnect ==
    /\ phase = "up" /\ slot # "live" /\ slot' = "live"
    /\ Publish("runner", TRUE)
    /\ UNCHANGED <<phase, desktop, owed, last, files, history, crashes>>

\* No hook sees it; the slot keeps the dead connection.
Drop ==
    /\ slot = "live" /\ slot' = "dead"
    /\ UNCHANGED <<phase, desktop, owed, last, writing, files, history, crashes>>

\* display::watch: caps.add and caps.remove, each followed by on_change.
DesktopChanges ==
    /\ phase = "up" /\ ~owed /\ step["watcher"] = "idle"
    /\ desktop' = ~desktop /\ owed' = TRUE
    /\ UNCHANGED <<phase, slot, last, writing, files, history, crashes>>

\* variant: only an attach is published
OnChangeAttached ==
    /\ owed /\ owed' = FALSE
    /\ IF desktop THEN Publish("watcher", IsAlive) ELSE UNCHANGED writing
    /\ UNCHANGED <<phase, slot, desktop, last, files, history, crashes>>
OnChange ==
    /\ owed /\ owed' = FALSE
    /\ Publish("watcher", IsAlive)
    /\ UNCHANGED <<phase, slot, desktop, last, files, history, crashes>>

\* variant: hands over what it wrote last, not what it found now
RefresherTickOld ==
    /\ phase = "up" /\ last # IsAlive /\ last' = IsAlive
    /\ Publish("refresher", last)
    /\ UNCHANGED <<phase, slot, desktop, owed, files, history, crashes>>
\* Every 30 s: written only when it differs from what the refresher wrote last.
RefresherTick ==
    /\ phase = "up" /\ last # IsAlive /\ last' = IsAlive
    /\ Publish("refresher", IsAlive)
    /\ UNCHANGED <<phase, slot, desktop, owed, files, history, crashes>>

\* Killed.  systemd removes RuntimeDirectory; a daemon run by hand leaves its files.
Crash ==
    /\ phase # "down" /\ phase' = "down"
    /\ crashes < MaxCrash /\ crashes' = crashes + 1
    /\ slot' = "empty" /\ desktop' = FALSE /\ owed' = FALSE /\ last' = None
    /\ step' = [w \in Writers |-> "idle"] /\ val' = [w \in Writers |-> Blank]
    /\ fd' = [w \in Writers |-> None] /\ met' = {}
    /\ \/ temp' = None /\ file' = None
       \/ UNCHANGED files
    /\ UNCHANGED spoiled

Next ==
    \/ Start \/ SpawnTasks \/ OnConnect \/ Drop \/ DesktopChanges \/ OnChange
    \/ RefresherTick \/ Crash
    \/ \E w \in Writers : WriteStep(w)

\* The tasks run; none waits for another.
Fairness ==
    /\ WF_vars(Start) /\ WF_vars(SpawnTasks)
    /\ WF_vars(OnChange) /\ WF_vars(RefresherTick)
    /\ \A w \in Writers : WF_vars(WriteStep(w))

Spec == Init /\ [][Next]_vars
FairSpec == Spec /\ Fairness

-----------------------------------------------------------------------------
(* What it promises.                                                       *)

Readable == file \in States
ShowsConnected == Readable /\ file.connected
Quiet == \A w \in Writers : step[w] = "idle"

\* state.rs:26: "Temp file + rename, so `status` never reads half-written JSON" --
\* whatever instant it reads, and wherever the daemon was killed.
NeverHalfWritten == file # None => Readable

\* How far that goes: half a text is found only after writers met, until a write that
\* meets none is renamed over it; a kill and its left-over never suffice (state.rs:26-41).
WholeUnlessMet == ~spoiled => NeverHalfWritten

Publishing(st, vl) == [w \in Writers |-> IF st[w] \in {"write", "rename", "remove"}
                                        THEN vl[w] ELSE None]

Written == INSTANCE AtomicFile WITH up <- phase # "down", pending <- Publishing(step, val)

\* A write that meets no other is one step of the file, from what was there to exactly
\* the text published; without writers that met nothing else changes the file
\* (state.rs:26-41).
AtomicWrites == Written!Spec

\* A drop of a connection that a tick of the refresher saw ends up in the file and stays,
\* however the later publications of the three tasks mix (run.rs:196-224).  Not so a drop
\* with a publication under way: that one may end last, and is never corrected.
DropStaysShown ==
    []( slot = "dead" /\ last = TRUE /\ Quiet
          => <>[]~ShowsConnected \/ <>(slot # "dead") )

\* run.rs:204-207: the refresher is there so that "after a silent drop, `zyrisd status`
\* shows "connection" as "connected" forever" does not happen: here for a connection that
\* comes with no publication under way and that no tick has seen yet.
UnseenDropShown ==
    []( slot = "live" /\ last = FALSE /\ Quiet
          => []<>(slot # "dead") \/ <>(last = TRUE) \/ <>~ShowsConnected )

ShowsSet(d) == Readable => file.desktop = d

\* A change of the announced set ends up in the file and stays, whichever task writes last
\* (run.rs:52-65, display.rs:247-255).  Again not one with a publication under way, which
\* may have read the set before it.
ChangeStaysShown ==
    \A d \in BOOLEAN :
        [](owed /\ desktop = d /\ Quiet
             => <>[]ShowsSet(d) \/ <>(desktop # d) \/ <>(phase = "down"))
=============================================================================
