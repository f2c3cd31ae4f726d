--------------------------------- MODULE Exec ---------------------------------
(***************************************************************************)
(* One `exec` call of the gated terminal: the child in a process group of  *)
(* its own, the pipes between it and the daemon, the output cap, and the   *)
(* timeout that has to reach the whole tree.  Data come in chunks.         *)
(***************************************************************************)
EXTENDS Naturals

CONSTANTS
    StdinSize,   \* chunks of `stdin` the caller sends
    PipeSize,    \* chunks the kernel buffers in a pipe
    OutputCap,   \* max_output_bytes, in chunks
    MaxOut       \* bound: chunks the tree writes to each stream

Streams == {"stdout", "stderr"}

ASSUME SizeAssumption ==
    StdinSize \in Nat /\ PipeSize \in Nat \ {0} /\ OutputCap \in Nat /\ MaxOut \in Nat

VARIABLES
    pc,         \* "stdin", "collect", "term" (KILL_GRACE), "done"
    timedOut,
    left,       \* chunks of stdin not yet written
    stdin,      \* chunks in the stdin pipe
    pipe,       \* per stream: chunks in the pipe
    wrote,      \* per stream: chunks the tree has written
    kept, capped, eof,   \* per stream: what read_capped has so far
    child,      \* "running" or "exited"
    other       \* a process the child started: "none", "running" (in the group),
                \* "escaped" (a session of its own), "exited"

reading == <<kept, capped, eof>>
call == <<pc, timedOut>>
tree == <<child, other>>
vars == <<call, left, stdin, pipe, wrote, reading, tree>>

TypeOK ==
    /\ pc \in {"stdin", "collect", "term", "done"} /\ timedOut \in BOOLEAN
    /\ left \in 0..StdinSize /\ stdin \in 0..PipeSize
    /\ pipe \in [Streams -> 0..PipeSize]
    /\ wrote \in [Streams -> 0..MaxOut]
    /\ kept \in [Streams -> 0..OutputCap]
    /\ capped \in [Streams -> BOOLEAN] /\ eof \in [Streams -> BOOLEAN]
    /\ child \in {"running", "exited"}
    /\ other \in {"none", "running", "escaped", "exited"}

Init ==
    /\ pc = "stdin" /\ timedOut = FALSE /\ left = StdinSize /\ stdin = 0
    /\ pipe = [s \in Streams |-> 0] /\ wrote = pipe /\ kept = pipe
    /\ capped = [s \in Streams |-> FALSE] /\ eof = capped
    /\ child = "running" /\ other = "none"

\* Some process holds the other end of the pipes.
Held == child = "running" \/ other \in {"running", "escaped"}

-----------------------------------------------------------------------------
(* The daemon.                                                             *)

\* write_all before anything is read, and before the timeout runs; EPIPE ends it.
WriteStdin ==
    /\ pc = "stdin" /\ left > 0
    /\ \/ Held /\ stdin < PipeSize /\ stdin' = stdin + 1 /\ left' = left - 1
       \/ ~Held /\ left' = 0 /\ UNCHANGED stdin
    /\ UNCHANGED <<call, pipe, wrote, reading, tree>>

CloseStdin ==
    /\ pc = "stdin" /\ left = 0 /\ pc' = "collect"
    /\ UNCHANGED <<timedOut, left, stdin, pipe, wrote, reading, tree>>

Least(a, b) == IF a <= b THEN a ELSE b
Room(s) == OutputCap - kept[s]

Took(s, n) ==
    /\ pipe' = [pipe EXCEPT ![s] = @ - n]
    /\ kept' = [kept EXCEPT ![s] = @ + Least(n, Room(s))]
    /\ capped' = [capped EXCEPT ![s] = @ \/ n > Room(s)]
    /\ UNCHANGED <<call, left, stdin, wrote, eof, tree>>

\* variant: reading stops at the cap
ReadUntilCap(s) == pc = "collect" /\ Room(s) > 0 /\ \E n \in 1..pipe[s] : Took(s, n)
\* variant: the output that does not fit is dropped as a whole
ReadDropsExcess(s) ==
    /\ pc = "collect"
    /\ \E n \in 1..pipe[s] :
          /\ pipe' = [pipe EXCEPT ![s] = @ - n]
          /\ kept' = [kept EXCEPT ![s] = IF n <= Room(s) THEN @ + n ELSE @]
          /\ capped' = [capped EXCEPT ![s] = @ \/ n > Room(s)]
    /\ UNCHANGED <<call, left, stdin, wrote, eof, tree>>
\* variant: whole chunks are kept as long as there is room for some of it
ReadWhole(s) ==
    /\ pc = "collect"
    /\ \E n \in 1..pipe[s] :
          /\ pipe' = [pipe EXCEPT ![s] = @ - n]
          /\ kept' = [kept EXCEPT ![s] = @ + n]
    /\ UNCHANGED <<call, left, stdin, wrote, capped, eof, tree>>
\* read_capped: keeps up to the cap, and keeps reading.
ReadCapped(s) == pc = "collect" /\ \E n \in 1..pipe[s] : Took(s, n)

ReadEOF(s) ==
    /\ pc = "collect" /\ pipe[s] = 0 /\ ~Held /\ ~eof[s]
    /\ eof' = [eof EXCEPT ![s] = TRUE]
    /\ UNCHANGED <<call, left, stdin, pipe, wrote, kept, capped, tree>>

Completes ==
    /\ pc = "collect" /\ (\A s \in Streams : eof[s]) /\ child = "exited"
    /\ pc' = "done"
    /\ UNCHANGED <<timedOut, left, stdin, pipe, wrote, reading, tree>>

\* variant: the timeout only covers the wait for the child
TimesOutWaiting ==
    /\ pc = "collect" /\ child = "running" /\ pc' = "term"
    /\ child' \in {child, "exited"}
    /\ UNCHANGED <<timedOut, left, stdin, pipe, wrote, reading, other>>
\* SIGTERM to the group: each member dies of it or does not.
TimesOut ==
    /\ pc = "collect" /\ pc' = "term"
    /\ child' \in {child, "exited"}
    /\ other' \in IF other = "running" THEN {"running", "exited"} ELSE {other}
    /\ UNCHANGED <<timedOut, left, stdin, pipe, wrote, reading>>

\* variant: only the shell that was spawned is killed
KillChild == child' = "exited" /\ UNCHANGED other
KillGroup ==
    /\ child' = "exited"
    /\ other' = IF other = "running" THEN "exited" ELSE other

GraceEnds ==
    /\ pc = "term" /\ pc' = "done" /\ timedOut' = TRUE
    /\ KillGroup
    /\ UNCHANGED <<left, stdin, pipe, wrote, reading>>

-----------------------------------------------------------------------------
(* The processes of the tree: any program.                                 *)

ReadsStdin ==
    /\ Held /\ stdin > 0 /\ stdin' = stdin - 1
    /\ UNCHANGED <<call, left, pipe, wrote, reading, tree>>

Writes(s) ==
    /\ Held /\ pipe[s] < PipeSize /\ wrote[s] < MaxOut
    /\ pipe' = [pipe EXCEPT ![s] = @ + 1] /\ wrote' = [wrote EXCEPT ![s] = @ + 1]
    /\ UNCHANGED <<call, left, stdin, reading, tree>>

Forks ==
    /\ child = "running" /\ other = "none" /\ other' \in {"running", "escaped"}
    /\ UNCHANGED <<call, left, stdin, pipe, wrote, reading, child>>

Exits ==
    /\ \/ child = "running" /\ child' = "exited" /\ UNCHANGED other
       \/ other \in {"running", "escaped"} /\ other' = "exited" /\ UNCHANGED child
    /\ UNCHANGED <<call, left, stdin, pipe, wrote, reading>>

Daemon ==
    \/ WriteStdin \/ CloseStdin \/ (\E s \in Streams : ReadCapped(s) \/ ReadEOF(s))
    \/ Completes \/ GraceEnds

Next == Daemon \/ TimesOut \/ ReadsStdin \/ (\E s \in Streams : Writes(s)) \/ Forks \/ Exits

Spec == Init /\ [][Next]_vars

\* The daemon and its clock run; nothing is asked of the program that was started.
FairSpec == Spec /\ WF_vars(Daemon) /\ WF_vars(TimesOut)

\* A program that writes all it has, as the pipes allow, and then ends (or sooner, if it
\* likes); a process blocked in a write need not end.
ExitsWritten == (\A s \in Streams : wrote[s] = MaxOut) /\ Exits
ProgramRuns == WF_vars(ExitsWritten) /\ \A s \in Streams : WF_vars(Writes(s))

-----------------------------------------------------------------------------
(* What it promises.                                                       *)

\* The call comes back, whatever the program does: config.rs:57 and README, "effective
\* timeout is min(what the agent asked for, this)".
CallReturns == <>(pc = "done")

\* After a timeout nothing of the process group is left, however the members treat
\* SIGTERM and whichever of them exited first (terminal.rs:70-77, 132-135).
TreeGoneAfterTimeout == timedOut => child = "exited" /\ other # "running"

\* A command that has more output than the cap and the pipes hold still ends on its own:
\* the call comes back though its timeout never fires.  "Only by draining and discarding
\* the excess does the command exit cleanly" (terminal.rs:45-49, 240-241).
EndsWithoutTimeout == <>(pc # "collect" /\ pc # "stdin")

\* A command that ended on its own is reported with the first OutputCap chunks of each
\* stream, and flagged as truncated exactly when there were more.
OutputExact ==
    pc = "done" /\ ~timedOut =>
        \A s \in Streams :
            kept[s] = Least(wrote[s], OutputCap) /\ (capped[s] <=> wrote[s] > OutputCap)
=============================================================================
