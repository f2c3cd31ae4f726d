---------------------------- MODULE DesktopHelper ----------------------------
(***************************************************************************)
(* The desktop helper: a child process that captures the screen and types, *)
(* the framing thread that talks to it one request at a time, the reaper   *)
(* thread, the callers behind a channel of capacity one, and the watcher   *)
(* that announces the capabilities while a helper lives and respawns it.   *)
(*                                                                         *)
(* A helper is an incarnation in Incs.  Several coexist: a dead one whose  *)
(* threads still wind down beside the one respawned.  An incarnation is    *)
(* used again once nothing of it is left.                                  *)
(***************************************************************************)
EXTENDS Naturals, Sequences

CONSTANTS
    Agents,     \* calls an agent may have under way at once
    Probe,      \* the call the watcher makes before it announces
    MaxInc,     \* bound: incarnations that coexist
    Timeout,    \* REQUEST_TIMEOUT, in ticks
    MaxBackoff, \* BACKOFF_MAX, in BACKOFF_MINs
    None, Garbage

Callers == Agents \cup {Probe}
Incs == 1..MaxInc
Caps == {"screen", "input"}

ASSUME BoundAssumption ==
    MaxInc \in Nat \ {0} /\ Timeout \in Nat \ {0} /\ MaxBackoff \in Nat \ {0}
ASSUME NameAssumption ==
    /\ Probe \notin Agents /\ None \notin Callers \cup Incs
    /\ Garbage \notin Callers /\ Garbage # None

VARIABLES
    proc,       \* per incarnation: "alive", "exited" (a zombie), "reaped" or never run
    stuck,      \* it stopped answering without exiting
    in, out,    \* the pipes: requests and answers, by caller
    framer,     \* the framing thread: "recv", "read", "close", "drain", "done"
    slot,       \* the job waiting in the channel, by caller
    serving,    \* the job the framing thread took
    served,     \* ticks since it took it
    st,         \* per caller: "idle", "send", "wait", "ok", "wrong", "err"
    to,         \* the incarnation it calls
    age,        \* ticks its timeout has been running
    wpc,        \* where the watcher is
    cur,        \* the incarnation it spawned last
    offer,      \* what the probe said works
    announced,  \* per capability: the incarnation that serves it, or None
    backoff

helper == <<proc, stuck, in, out>>
thread == <<framer, slot, serving, served>>
calls == <<st, to, age>>
watcher == <<wpc, cur, offer, announced, backoff>>
vars == <<helper, thread, calls, watcher>>

TypeOK ==
    /\ proc \in [Incs -> {"alive", "exited", "reaped"}]
    /\ stuck \in [Incs -> BOOLEAN]
    /\ in \in [Incs -> Seq(Callers)]
    /\ out \in [Incs -> Seq(Callers \cup {Garbage})]
    /\ framer \in [Incs -> {"recv", "read", "close", "drain", "done"}]
    /\ slot \in [Incs -> Callers \cup {None}]
    /\ serving \in [Incs -> Callers \cup {None}]
    /\ served \in [Incs -> 0..Timeout]
    /\ st \in [Callers -> {"idle", "send", "wait", "ok", "wrong", "err"}]
    /\ to \in [Callers -> Incs]
    /\ age \in [Callers -> 0..Timeout]
    /\ wpc \in {"sleep", "spawn", "probe", "probing", "add_screen", "add_input",
                "attached", "drop_screen", "drop_input"}
    /\ cur \in Incs
    /\ offer \subseteq Caps
    /\ announced \in [Caps -> Incs \cup {None}]
    /\ backoff \in 1..MaxBackoff

Init ==
    /\ proc = [i \in Incs |-> "reaped"] /\ stuck = [i \in Incs |-> FALSE]
    /\ in = [i \in Incs |-> << >>] /\ out = in
    /\ framer = [i \in Incs |-> "done"]
    /\ slot = [i \in Incs |-> None] /\ serving = slot /\ served = [i \in Incs |-> 0]
    /\ st = [c \in Callers |-> "idle"] /\ to = [c \in Callers |-> 1]
    /\ age = [c \in Callers |-> 0]
    /\ wpc = "spawn" /\ cur = 1 /\ offer = {} /\ backoff = 1
    /\ announced = [k \in Caps |-> None]

Calling(c) == st[c] \in {"send", "wait"}

\* c's call ends with r, unless it gave up before.
Concluded(c, r) ==
    IF Calling(c)
    THEN st' = [st EXCEPT ![c] = r] /\ age' = [age EXCEPT ![c] = 0]
    ELSE UNCHANGED <<st, age>>

\* A clone of Arc<Child> is left: the channel still has a sender.
Handle(i) ==
    \/ cur = i /\ wpc \in {"probe", "probing", "add_screen", "add_input"}
    \/ \E k \in Caps : announced[k] = i
    \/ \E c \in Callers : Calling(c) /\ to[c] = i

-----------------------------------------------------------------------------
(* call(): hand the job to the thread, wait for its answer at most Timeout. *)

\* The name c is used again once its old job, given up, has left the channel.
Begin(c, i) ==
    /\ st[c] = "idle" /\ \A j \in Incs : slot[j] # c /\ serving[j] # c
    /\ st' = [st EXCEPT ![c] = "send"] /\ to' = [to EXCEPT ![c] = i]
    /\ UNCHANGED age

Issue(c) ==
    /\ c \in Agents
    /\ \E k \in Caps : announced[k] # None /\ Begin(c, announced[k])
    /\ UNCHANGED <<helper, thread, watcher>>

Closed(i) == framer[i] \in {"drain", "done"}

Enqueue(c) ==
    /\ st[c] = "send" /\ ~Closed(to[c]) /\ slot[to[c]] = None
    /\ slot' = [slot EXCEPT ![to[c]] = c]
    /\ st' = [st EXCEPT ![c] = "wait"] /\ age' = [age EXCEPT ![c] = 0]
    /\ UNCHANGED <<helper, framer, serving, served, to, watcher>>

SendFails(c) ==
    /\ st[c] = "send" /\ Closed(to[c])
    /\ Concluded(c, "err")
    /\ UNCHANGED <<helper, thread, to, watcher>>

\* The process of i ends; a zombie, or no process, is left as it is.
Ends(i) ==
    /\ proc' = [proc EXCEPT ![i] = IF @ = "alive" THEN "exited" ELSE @]
    /\ stuck' = [stuck EXCEPT ![i] = FALSE]
    /\ in' = [in EXCEPT ![i] = << >>]

\* variant: the caller is told, the helper is left alone
TimesOutQuietly(c) ==
    /\ st[c] = "wait" /\ age[c] = Timeout
    /\ Concluded(c, "err")
    /\ UNCHANGED <<helper, thread, to, watcher>>
\* Killing the helper is what frees the thread from its blocking read.
TimesOut(c) ==
    /\ st[c] = "wait" /\ age[c] = Timeout
    /\ Ends(to[c])
    /\ Concluded(c, "err")
    /\ UNCHANGED <<out, thread, to, watcher>>

\* The capability returned to the agent.
Return(c) ==
    /\ c \in Agents /\ st[c] \in {"ok", "wrong", "err"}
    /\ st' = [st EXCEPT ![c] = "idle"] /\ to' = [to EXCEPT ![c] = 1]
    /\ UNCHANGED <<helper, thread, age, watcher>>

-----------------------------------------------------------------------------
(* The framing thread and the reaper thread of incarnation i.              *)

FramerTakes(i) ==
    /\ framer[i] = "recv" /\ slot[i] # None
    /\ slot' = [slot EXCEPT ![i] = None]
    /\ \/ /\ proc[i] = "alive"
          /\ in' = [in EXCEPT ![i] = Append(@, slot[i])]
          /\ framer' = [framer EXCEPT ![i] = "read"]
          /\ serving' = [serving EXCEPT ![i] = slot[i]]
          /\ UNCHANGED <<st, age>>
       \/ /\ Concluded(slot[i], "err")   \* EPIPE, or a request over JSON_MAX
          /\ framer' = [framer EXCEPT ![i] = "close"]
          /\ UNCHANGED <<in, serving>>
    /\ UNCHANGED <<proc, stuck, out, served, to, watcher>>

FramerReads(i) ==
    /\ framer[i] = "read"
    /\ serving' = [serving EXCEPT ![i] = None] /\ served' = [served EXCEPT ![i] = 0]
    /\ \/ /\ out[i] # << >> /\ Head(out[i]) # Garbage
          /\ Concluded(serving[i], IF Head(out[i]) = serving[i] THEN "ok" ELSE "wrong")
          /\ framer' = [framer EXCEPT ![i] = "recv"]
          /\ out' = [out EXCEPT ![i] = Tail(@)]
       \/ /\ \/ out[i] # << >> /\ Head(out[i]) = Garbage
             \/ out[i] = << >> /\ proc[i] # "alive"
          /\ Concluded(serving[i], "err")
          /\ framer' = [framer EXCEPT ![i] = "close"]
          /\ UNCHANGED out
    /\ UNCHANGED <<proc, stuck, in, slot, to, watcher>>

\* Framing broke, or every sender is gone.
FramerCloses(i) ==
    /\ framer[i] = "close" \/ (framer[i] = "recv" /\ slot[i] = None /\ ~Handle(i))
    /\ framer' = [framer EXCEPT ![i] = "drain"]
    /\ UNCHANGED <<helper, slot, serving, served, calls, watcher>>

FramerDrains(i) ==
    /\ framer[i] = "drain" /\ slot[i] # None
    /\ Concluded(slot[i], "err")
    /\ slot' = [slot EXCEPT ![i] = None]
    /\ UNCHANGED <<helper, framer, serving, served, to, watcher>>

FramerEnds(i) ==
    /\ framer[i] = "drain" /\ slot[i] = None
    /\ Ends(i) /\ out' = [out EXCEPT ![i] = << >>]
    /\ framer' = [framer EXCEPT ![i] = "done"]
    /\ UNCHANGED <<slot, serving, served, calls, watcher>>

\* child.wait() returns; dead_tx tells the watcher.
Reap(i) ==
    /\ proc[i] = "exited"
    /\ proc' = [proc EXCEPT ![i] = "reaped"]
    /\ UNCHANGED <<stuck, in, out, thread, calls, watcher>>

-----------------------------------------------------------------------------
(* The helper process of incarnation i.                                    *)

Works(i) == proc[i] = "alive" /\ ~stuck[i] /\ in[i] # << >>

HelperAnswers(i) ==
    /\ Works(i) /\ framer[i] # "done"
    /\ in' = [in EXCEPT ![i] = Tail(@)]
    /\ \E r \in {Head(in[i]), Garbage} : out' = [out EXCEPT ![i] = Append(@, r)]
    /\ UNCHANGED <<proc, stuck, thread, calls, watcher>>

\* A portal dialog nobody answers, a display server that hangs.
HelperSticks(i) ==
    /\ Works(i)
    /\ stuck' = [stuck EXCEPT ![i] = TRUE]
    /\ UNCHANGED <<proc, in, out, thread, calls, watcher>>

\* Crashed, killed, or an answer over BLOB_MAX.
HelperDies(i) ==
    /\ proc[i] = "alive" /\ Ends(i)
    /\ UNCHANGED <<out, thread, calls, watcher>>

-----------------------------------------------------------------------------
(* watch() and attach().                                                   *)

Watch(a, b) == wpc = a /\ wpc' = b

Unused(i) == proc[i] = "reaped" /\ framer[i] = "done" /\ ~Handle(i)

Spawn ==
    /\ \/ /\ Watch("spawn", "probe")
          /\ \E i \in Incs :
                /\ Unused(i)
                /\ cur' = i
                /\ proc' = [proc EXCEPT ![i] = "alive"]
                /\ framer' = [framer EXCEPT ![i] = "recv"]
       \/ Watch("spawn", "sleep") /\ UNCHANGED <<cur, proc, framer>>
    /\ UNCHANGED <<stuck, in, out, slot, serving, served, calls, offer, announced, backoff>>

ProbeCall ==
    /\ Watch("probe", "probing") /\ Begin(Probe, cur)
    /\ UNCHANGED <<helper, thread, cur, offer, announced, backoff>>

\* The probe's answer: nothing works (or no displays), or some of it does.
ProbeReturns ==
    /\ st[Probe] \in {"ok", "wrong", "err"}
    /\ \/ /\ st[Probe] = "ok" /\ Watch("probing", "add_screen")
          /\ \E o \in SUBSET Caps \ {{}} : offer' = o
       \/ Watch("probing", "sleep") /\ offer' = {}
    /\ st' = [st EXCEPT ![Probe] = "idle"] /\ to' = [to EXCEPT ![Probe] = 1]
    /\ UNCHANGED <<helper, thread, age, cur, announced, backoff>>

\* caps.add may fail: that is logged and the rest goes on.
Add(k) ==
    /\ \/ k \in offer /\ announced' = [announced EXCEPT ![k] = cur]
       \/ UNCHANGED announced
    /\ offer' = offer \ {k}
    /\ UNCHANGED <<helper, thread, calls, cur>>

AddScreen == Watch("add_screen", "add_input") /\ Add("screen") /\ UNCHANGED backoff
AddInput == Watch("add_input", "attached") /\ Add("input") /\ backoff' = 1

\* variant: the death shows only when the framing thread has stopped
SeesFramerDone ==
    /\ Watch("attached", "drop_screen") /\ framer[cur] = "done"
    /\ UNCHANGED <<helper, thread, calls, cur, offer, announced, backoff>>
SeesDeath ==
    /\ Watch("attached", "drop_screen") /\ proc[cur] = "reaped"
    /\ UNCHANGED <<helper, thread, calls, cur, offer, announced, backoff>>

\* variant: the call does nothing
RemoveNothing(k) == UNCHANGED announced
Remove(k) == announced' = [announced EXCEPT ![k] = None]

DropScreen ==
    /\ Watch("drop_screen", "drop_input") /\ Remove("screen")
    /\ UNCHANGED <<helper, thread, calls, cur, offer, backoff>>
DropInput ==
    /\ Watch("drop_input", "sleep") /\ Remove("input")
    /\ UNCHANGED <<helper, thread, calls, cur, offer, backoff>>

\* variant: no BACKOFF_MAX
DoubledUncapped == 2 * backoff
Doubled == IF 2 * backoff <= MaxBackoff THEN 2 * backoff ELSE MaxBackoff

Wakes ==
    /\ Watch("sleep", "spawn")
    /\ backoff' = Doubled
    /\ UNCHANGED <<helper, thread, calls, cur, offer, announced>>

-----------------------------------------------------------------------------
(* Time passes while a helper works: the threads' own steps take none.     *)

ThreadsWait ==
    \A i \in Incs :
        \/ framer[i] = "recv" /\ slot[i] = None /\ Handle(i)
        \/ framer[i] = "read" /\ out[i] = << >> /\ proc[i] = "alive"
        \/ framer[i] = "done"

Tick ==
    /\ ThreadsWait
    /\ \E c \in Callers : st[c] = "wait"
    /\ \A c \in Callers : st[c] = "wait" => age[c] < Timeout
    /\ age' = [c \in Callers |-> IF st[c] = "wait" THEN age[c] + 1 ELSE age[c]]
    /\ served' = [i \in Incs |->
                    IF framer[i] = "read" /\ served[i] < Timeout THEN served[i] + 1
                    ELSE served[i]]
    /\ UNCHANGED <<helper, framer, slot, serving, st, to, watcher>>

CallStep(c) == Enqueue(c) \/ SendFails(c) \/ TimesOut(c)
ThreadStep(i) ==
    FramerTakes(i) \/ FramerReads(i) \/ FramerCloses(i) \/ FramerDrains(i) \/ FramerEnds(i)
WatchStep ==
    \/ Spawn \/ ProbeCall \/ ProbeReturns \/ AddScreen \/ AddInput
    \/ SeesDeath \/ DropScreen \/ DropInput \/ Wakes

Next ==
    \/ \E c \in Callers : Issue(c) \/ CallStep(c) \/ Return(c)
    \/ \E i \in Incs : ThreadStep(i) \/ Reap(i)
    \/ \E i \in Incs : HelperAnswers(i) \/ HelperSticks(i) \/ HelperDies(i)
    \/ WatchStep \/ Tick

\* Threads and tasks are scheduled, a full channel admits its senders in turn (hence
\* strong fairness), the kernel ends a killed process, the clock runs.
\* Nothing is asked of agents, nor of the time a helper takes.
Fairness ==
    /\ \A c \in Callers : SF_vars(CallStep(c))
    /\ \A i \in Incs : WF_vars(ThreadStep(i)) /\ WF_vars(Reap(i))
    /\ WF_vars(WatchStep) /\ WF_vars(Tick)

Spec == Init /\ [][Next]_vars
FairSpec == Spec /\ Fairness

-----------------------------------------------------------------------------
(* What it promises.                                                       *)

\* Every capability announced is served by the helper the watcher spawned last, and
\* none is announced while it has none: watch() never leaves the capabilities of an
\* old helper behind when it attaches the next (display.rs:247-253).
AnnouncedIsCurrent ==
    \A k \in Caps : announced[k] # None =>
        /\ announced[k] = cur
        /\ wpc \in {"add_input", "attached", "drop_screen", "drop_input"}

\* The capabilities of a dead helper do not stay announced: display.rs:124-129, "exactly
\* the state this design exists to avoid".
DeadHelperWithdrawn ==
    \A i \in Incs, k \in Caps :
        (announced[k] = i /\ proc[i] # "alive") ~> (announced[k] # i)

\* A helper nobody holds any more goes away, a stuck one too (display.rs:158).
NoOrphanHelper ==
    \A i \in Incs : (proc[i] = "alive" /\ ~Handle(i)) ~> (proc[i] # "alive")

\* REQUEST_TIMEOUT is "Longest a single request may take" (display.rs:23): a helper at
\* work on a request is given up only when it has had it for that long.
KilledOnlyWhenUnresponsive ==
    [][ \A c \in Agents :
          TimesOut(c) /\ serving[to[c]] = c => served[to[c]] = Timeout ]_vars

\* Agents see CallService: each call is concluded once, by its own answer or an error,
\* and never left hanging (display.rs:65-85 and 153-157).
callStatus ==
    [c \in Agents |-> IF Calling(c) THEN "pending" ELSE st[c]]
Calls == INSTANCE CallService WITH Callers <- Agents, call <- callStatus
CallsConcluded == Calls!Spec
=============================================================================
