----------------------------- MODULE Node_proofs -----------------------------
(***************************************************************************)
(* The safety properties of the Runner's connections and of the transfer,  *)
(* for any number of connections and processes.                            *)
(***************************************************************************)
EXTENDS Node, TLAPS

\* A connection has run no hook before it is made.
FreshConns == \A c \in Conns : conn[c] = "unused" => hook[c] = "none" /\ c \notin loops

\* Whose turn it is to hold the flag: the hook that waits for the directory, then its loop.
Holds(c) == hook[c] = "directory" \/ c \in loops
LoopsAreDone == \A c \in loops : hook[c] = "done"
OneHolder == \A c, d \in Conns : Holds(c) /\ Holds(d) => c = d
FlagInv == listening <=> \E c \in Conns : Holds(c)

\* A process that does not run, or only starts, has nothing under way.
Quiet ==
    phase \in {"down", "start"} =>
        NoHooks /\ TransferInit /\ \A c \in Conns : conn[c] # "up"

\* The connection that is up is the one in the slot, or the Runner has yet to call its hook.
SlotInv == \A c \in Conns : conn[c] = "up" => slot = c \/ hook[c] = "body"
OneUp ==
    \A c \in Conns : hook[c] = "body" => \A d \in Conns : conn[d] = "up" => d = c
HandledInv ==
    \A c \in handled : conn[c] # "unused" /\ hook[c] # "body" /\ (phase = "grace" => conn[c] # "up")

IInv ==
    /\ NodeTypeOK /\ FreshConns /\ LoopsAreDone /\ OneHolder /\ FlagInv
    /\ Quiet /\ SlotInv /\ OneUp /\ HandledInv

-----------------------------------------------------------------------------
(* It holds at the start, and after every step.                            *)

LEMMA InitInv == NodeInit => IInv
<1> SUFFICES ASSUME NodeInit PROVE IInv
    OBVIOUS
<1> USE DEF NodeInit, TransferInit, NoHooks
<1>1. NodeTypeOK
    BY ConnsAssumption DEF NodeTypeOK, HookSteps, Conns, NoConn
<1>2. FreshConns /\ LoopsAreDone /\ OneHolder /\ FlagInv
    BY DEF FreshConns, LoopsAreDone, OneHolder, FlagInv, Holds
<1>3. Quiet /\ SlotInv /\ OneUp /\ HandledInv
    BY DEF Quiet, SlotInv, OneUp, HandledInv
<1> QED
    BY <1>1, <1>2, <1>3 DEF IInv

LEMMA StartInv == ASSUME IInv, StartProcess \/ BindTransfer PROVE IInv'
<1> USE DEF IInv, StartProcess, BindTransfer, connVars, transferVars
<1>1. NodeTypeOK'
    BY DEF NodeTypeOK, Quiet, NoHooks, TransferInit, HookSteps
<1>2. (FreshConns /\ LoopsAreDone)'
    BY DEF FreshConns, LoopsAreDone
<1>3. (OneHolder /\ FlagInv)'
    BY DEF OneHolder, FlagInv, Holds
<1>4. (Quiet /\ SlotInv /\ OneUp /\ HandledInv)'
    BY DEF Quiet, SlotInv, OneUp, HandledInv, NoHooks, TransferInit
<1> QED
    BY <1>1, <1>2, <1>3, <1>4

LEMMA EndsInv == ASSUME IInv, ProcessEnds PROVE IInv'
<1> USE DEF IInv, ProcessEnds
<1>1. NodeTypeOK'
    BY ConnsAssumption DEF NodeTypeOK, HookSteps, Conns, NoConn
<1>2. (FreshConns /\ LoopsAreDone /\ OneHolder /\ FlagInv)'
    BY DEF FreshConns, LoopsAreDone, OneHolder, FlagInv, Holds
<1>3. (\A c \in Conns : conn[c] # "up")'
    BY DEF NodeTypeOK
<1>4. (Quiet /\ SlotInv /\ OneUp /\ HandledInv)'
    BY <1>3 DEF Quiet, SlotInv, OneUp, HandledInv, NoHooks, TransferInit
<1> QED
    BY <1>1, <1>2, <1>4

LEMMA ConnectInv == ASSUME IInv, NEW c \in Conns, Connect(c) PROVE IInv'
<1> USE DEF IInv, Connect, transferVars, processVars, Used
<1>1. conn' = [conn EXCEPT ![c] = "up"] /\ hook' = [hook EXCEPT ![c] = "body"]
    OBVIOUS
<1>2. hook[c] = "none" /\ c \notin loops /\ c \notin handled
    BY DEF FreshConns, HandledInv
<1>3. NodeTypeOK'
    BY <1>1 DEF NodeTypeOK, HookSteps
<1>4. (FreshConns /\ LoopsAreDone)'
    BY <1>1, <1>2 DEF FreshConns, LoopsAreDone, NodeTypeOK
<1>5. \A d \in Conns : Holds(d)' <=> Holds(d)
    BY <1>1, <1>2 DEF Holds, NodeTypeOK
<1>6. (OneHolder /\ FlagInv)'
    BY <1>5 DEF OneHolder, FlagInv
<1>7. (Quiet /\ SlotInv /\ OneUp /\ HandledInv)'
    BY <1>1, <1>2 DEF Quiet, SlotInv, OneUp, HandledInv, NodeTypeOK
<1> QED
    BY <1>3, <1>4, <1>6, <1>7

LEMMA BodyInv == ASSUME IInv, NEW c \in Conns, HookBody(c) PROVE IInv'
<1> USE DEF IInv, HookBody, SlotFilled, transferVars
<1>1. /\ hook[c] = "body" /\ conn[c] # "unused" /\ c \notin loops
      /\ \A d \in Conns : hook'[d] = IF d = c THEN (IF transfer THEN "client" ELSE "done") ELSE hook[d]
    BY DEF HookReturned, NodeTypeOK, FreshConns, LoopsAreDone
<1>2. phase \notin {"down", "start"}
    BY <1>1 DEF Quiet, NoHooks
<1>3. NodeTypeOK'
    <2>1. hook' \in [Conns -> HookSteps \cup {"none", "body", "done"}]
        BY DEF HookReturned, HookSteps, NodeTypeOK
    <2> QED
        BY <1>1, <2>1 DEF NodeTypeOK, HookSteps
<1>4. (FreshConns /\ LoopsAreDone)'
    BY <1>1 DEF FreshConns, LoopsAreDone, NodeTypeOK
<1>5. \A d \in Conns : Holds(d)' <=> Holds(d)
    BY <1>1 DEF Holds
<1>6. (OneHolder /\ FlagInv)'
    BY <1>5 DEF OneHolder, FlagInv
<1>7. (Quiet /\ SlotInv /\ OneUp /\ HandledInv)'
    <2>1. \A d \in Conns : conn[d] = "up" => d = c
        BY DEF OneUp, NodeTypeOK
    <2>2. Quiet' /\ SlotInv' /\ OneUp'
        BY <1>1, <1>2, <2>1 DEF Quiet, SlotInv, OneUp
    <2>3. HandledInv'
        BY <1>1 DEF HandledInv, NodeTypeOK
    <2> QED
        BY <2>2, <2>3
<1> QED
    BY <1>3, <1>4, <1>6, <1>7

LEMMA LoopInv == ASSUME IInv, NEW c \in Conns, AcceptLoopEnds(c) PROVE IInv'
<1> USE DEF IInv, AcceptLoopEnds, LoopEnds, connVars, processVars
<1>1. NodeTypeOK'
    BY DEF NodeTypeOK
<1>2. (FreshConns /\ LoopsAreDone /\ OneHolder /\ FlagInv)'
    BY DEF FreshConns, LoopsAreDone, OneHolder, FlagInv, Holds
<1>3. phase \notin {"down", "start"}
    BY DEF Quiet, TransferInit
<1>4. (Quiet /\ SlotInv /\ OneUp /\ HandledInv)'
    BY <1>3 DEF Quiet, SlotInv, OneUp, HandledInv
<1> QED
    BY <1>1, <1>2, <1>4

LEMMA ServerInv == ASSUME IInv, NEW c \in Conns, ServerAnnounces(c) \/ Drops(c) PROVE IInv'
<1> USE DEF IInv, ServerAnnounces, Drops, transferVars, processVars
<1>1. conn' = conn \/ (conn[c] = "up" /\ conn' = [conn EXCEPT ![c] = "dead"])
    OBVIOUS
<1>2. \A d \in Conns : /\ conn'[d] = "up" => conn[d] = "up"
                       /\ conn'[d] = "unused" <=> conn[d] = "unused"
    BY <1>1 DEF NodeTypeOK
<1>3. NodeTypeOK'
    BY <1>1 DEF NodeTypeOK
<1>4. (FreshConns /\ LoopsAreDone /\ OneHolder /\ FlagInv)'
    BY <1>2 DEF FreshConns, LoopsAreDone, OneHolder, FlagInv, Holds
<1>5. (Quiet /\ SlotInv /\ OneUp /\ HandledInv)'
    BY <1>2 DEF Quiet, SlotInv, OneUp, HandledInv, NoHooks, TransferInit, NodeTypeOK
<1> QED
    BY <1>3, <1>4, <1>5

\* A step of a hook, by what it does to the flag and the loop.
LEMMA HookInv == ASSUME IInv, NEW c \in Conns, OnConnect(c) PROVE IInv'
<1> USE DEF IInv, OnConnect, HookRuns, processVars, Goto, HookIs
<1>1. /\ hook[c] \in HookSteps /\ conn[c] # "unused" /\ c \notin loops /\ transfer
      /\ UNCHANGED <<conn, announced, phase, transfer, slot, signalled, handled, overlap>>
    BY DEF HookSteps, NoApi, SetApi, Publish, SwapFlag, GiveBack, SpawnLoop,
           FreshConns, LoopsAreDone, NodeTypeOK
<1>2. phase \notin {"down", "start"}
    BY <1>1 DEF Quiet, NoHooks, HookSteps
<1>3. (Quiet /\ SlotInv /\ OneUp /\ HandledInv)'
    <2>1. \E s \in HookSteps \cup {"done"} : hook' = [hook EXCEPT ![c] = s]
        BY DEF HookSteps, NoApi, SetApi, Publish, SwapFlag, GiveBack, SpawnLoop
    <2>2. \A d \in Conns : hook'[d] = "body" <=> hook[d] = "body"
        BY <1>1, <2>1 DEF HookSteps, NodeTypeOK
    <2> QED
        BY <1>1, <1>2, <2>2 DEF Quiet, SlotInv, OneUp, HandledInv, NodeTypeOK
<1>4. CASE NoApi(c) \/ SetApi(c) \/ Publish(c)
    <2>1. PICK step \in {"publish", "flag", "done"} : hook' = [hook EXCEPT ![c] = step]
        BY <1>4 DEF NoApi, SetApi, Publish
    <2>2. UNCHANGED <<listening, loops, ended>> /\ hook[c] # "directory"
        BY <1>4 DEF NoApi, SetApi, Publish, transferVars
    <2>3. (publish \in [Conns -> {"none", "ok", "failed"}] /\ client \in Conns \cup {NoConn})'
        <3>1. CASE NoApi(c) \/ SetApi(c)
            BY <3>1 DEF NoApi, SetApi, transferVars, NodeTypeOK
        <3>2. CASE Publish(c)
            BY <3>2 DEF Publish, PublishOutcomes, NodeTypeOK
        <3> QED
            BY <1>4, <3>1, <3>2
    <2>4. NodeTypeOK'
        <3>1. hook' \in [Conns -> HookSteps \cup {"none", "body", "done"}]
            BY <2>1 DEF NodeTypeOK, HookSteps
        <3> QED
            BY <1>1, <2>2, <2>3, <3>1 DEF NodeTypeOK
    <2>5. (FreshConns /\ LoopsAreDone)'
        BY <1>1, <2>1, <2>2 DEF FreshConns, LoopsAreDone, NodeTypeOK
    <2>6. \A d \in Conns : Holds(d)' <=> Holds(d)
        BY <2>1, <2>2 DEF Holds, NodeTypeOK
    <2> QED
        BY <1>3, <2>2, <2>4, <2>5, <2>6 DEF OneHolder, FlagInv
<1>5. CASE SwapFlag(c)
    <2>1. /\ hook' = [hook EXCEPT ![c] = IF listening THEN "done" ELSE "directory"]
          /\ hook[c] = "flag" /\ listening' = TRUE /\ UNCHANGED <<client, publish, loops, ended>>
        BY <1>5 DEF SwapFlag
    <2>2. NodeTypeOK'
        BY <1>1, <1>5, <2>1 DEF NodeTypeOK, HookSteps
    <2>3. (FreshConns /\ LoopsAreDone)'
        BY <1>1, <2>1 DEF FreshConns, LoopsAreDone, NodeTypeOK
    <2>4. \A d \in Conns : Holds(d)' <=> Holds(d) \/ (d = c /\ ~listening)
        BY <2>1 DEF Holds, NodeTypeOK
    <2>5. (OneHolder /\ FlagInv)'
        BY <2>1, <2>4 DEF OneHolder, FlagInv
    <2> QED
        BY <1>3, <2>2, <2>3, <2>5
<1>6. CASE GiveBack(c)
    <2>1. /\ hook' = [hook EXCEPT ![c] = "done"] /\ hook[c] = "directory"
          /\ listening' = FALSE /\ UNCHANGED <<client, publish, loops, ended>>
        BY <1>6 DEF GiveBack
    <2>2. NodeTypeOK'
        <3>1. hook' \in [Conns -> HookSteps \cup {"none", "body", "done"}]
            BY <2>1 DEF NodeTypeOK
        <3>2. listening' \in BOOLEAN
            BY <2>1
        <3>3. UNCHANGED <<client, publish, loops, ended>>
            BY <2>1
        <3> QED
            BY <1>1, <3>1, <3>2, <3>3 DEF NodeTypeOK
    <2>3. (FreshConns /\ LoopsAreDone)'
        BY <1>1, <2>1 DEF FreshConns, LoopsAreDone, NodeTypeOK
    <2>4. \A d \in Conns : ~Holds(d)'
        BY <1>1, <2>1 DEF Holds, OneHolder, NodeTypeOK
    <2>5. (OneHolder /\ FlagInv)'
        BY <2>1, <2>4 DEF OneHolder, FlagInv
    <2> QED
        BY <1>3, <2>2, <2>3, <2>5
<1>7. CASE SpawnLoop(c)
    <2>1. /\ hook' = [hook EXCEPT ![c] = "done"] /\ hook[c] = "directory"
          /\ loops' = loops \cup {c} /\ UNCHANGED <<client, publish, listening, ended>>
        BY <1>7 DEF SpawnLoop
    <2>2. NodeTypeOK'
        BY <1>1, <1>7, <2>1 DEF NodeTypeOK, HookSteps
    <2>3. (FreshConns /\ LoopsAreDone)'
        BY <1>1, <2>1 DEF FreshConns, LoopsAreDone, NodeTypeOK
    <2>4. \A d \in Conns : Holds(d)' <=> Holds(d)
        BY <2>1 DEF Holds, NodeTypeOK
    <2>5. (OneHolder /\ FlagInv)'
        BY <2>1, <2>4 DEF OneHolder, FlagInv
    <2> QED
        BY <1>3, <2>2, <2>3, <2>5
<1> QED
    BY <1>4, <1>5, <1>6, <1>7

LEMMA SignalInv ==
    ASSUME IInv, phase = "up", signalled' = TRUE, UNCHANGED connVars, UNCHANGED transferVars,
           UNCHANGED <<phase, transfer, overlap, slot, handled>>
    PROVE  IInv'
<1> USE DEF IInv, connVars, transferVars
<1>1. NodeTypeOK'
    BY DEF NodeTypeOK
<1>2. (FreshConns /\ LoopsAreDone /\ OneHolder /\ FlagInv)'
    BY DEF FreshConns, LoopsAreDone, OneHolder, FlagInv, Holds
<1>3. (Quiet /\ SlotInv /\ OneUp /\ HandledInv)'
    BY DEF Quiet, SlotInv, OneUp, HandledInv
<1> QED
    BY <1>1, <1>2, <1>3

\* The slot has the only connection that can be up, unless its hook is still to be called.
LEMMA TerminateInv == ASSUME IInv, Terminate PROVE IInv'
<1> USE DEF IInv, Terminate, transferVars
<1>1. conn' \in [Conns -> {"unused", "up", "closed", "dead"}]
    BY DEF SlotClosed, NodeTypeOK
<1>2. \A d \in Conns : /\ conn'[d] = "up" => conn[d] = "up" /\ hook[d] = "body"
                       /\ conn'[d] = "unused" <=> conn[d] = "unused"
    BY DEF SlotClosed, SlotInv, NodeTypeOK
<1>3. NodeTypeOK'
    BY <1>1 DEF NodeTypeOK, Called, Used
<1>4. (FreshConns /\ LoopsAreDone /\ OneHolder /\ FlagInv)'
    BY <1>2 DEF FreshConns, LoopsAreDone, OneHolder, FlagInv, Holds
<1>5. (Quiet /\ SlotInv /\ OneUp)'
    BY <1>2 DEF Quiet, SlotInv, OneUp
<1>6. HandledInv'
    BY <1>2 DEF HandledInv, Called, Used
<1> QED
    BY <1>3, <1>4, <1>5, <1>6

LEMMA StepInv == IInv /\ [NodeNext]_nodeVars => IInv'
<1> SUFFICES ASSUME IInv, [NodeNext]_nodeVars PROVE IInv'
    OBVIOUS
<1>1. CASE StartProcess \/ BindTransfer
    BY <1>1, StartInv
<1>2. CASE Terminate
    BY <1>2, TerminateInv
<1>3. CASE GraceOver \/ RunnerEnds
    BY <1>3, EndsInv DEF GraceOver, RunnerEnds
<1>4. CASE Signal
    BY <1>4, EndsInv, SignalInv DEF Signal
<1>5. ASSUME NEW c \in Conns, Connect(c) PROVE IInv'
    BY <1>5, ConnectInv
<1>6. ASSUME NEW c \in Conns, ServerAnnounces(c) \/ Drops(c) PROVE IInv'
    BY <1>6, ServerInv
<1>7. ASSUME NEW c \in Conns, OnConnect(c) PROVE IInv'
    BY <1>7, HookInv
<1>9. ASSUME NEW c \in Conns, HookBody(c) PROVE IInv'
    BY <1>9, BodyInv
<1>10. ASSUME NEW c \in Conns, AcceptLoopEnds(c) PROVE IInv'
    BY <1>10, LoopInv
<1>8. CASE UNCHANGED nodeVars
    <2> USE <1>8 DEF IInv, nodeVars, connVars, transferVars, processVars
    <2>1. NodeTypeOK'
        BY DEF NodeTypeOK
    <2>2. (FreshConns /\ LoopsAreDone /\ OneHolder /\ FlagInv)'
        BY DEF FreshConns, LoopsAreDone, OneHolder, FlagInv, Holds
    <2>3. (Quiet /\ SlotInv /\ OneUp /\ HandledInv)'
        BY DEF Quiet, SlotInv, OneUp, HandledInv, NoHooks, TransferInit
    <2> QED
        BY <2>1, <2>2, <2>3
<1> QED
    BY <1>1, <1>2, <1>3, <1>4, <1>5, <1>6, <1>7, <1>8, <1>9, <1>10 DEF NodeNext, NodeRuns

LEMMA Invariance == NodeSpec => []IInv
    BY InitInv, StepInv, PTL DEF NodeSpec

-----------------------------------------------------------------------------
(* What follows from it.                                                   *)

\* The state keeps its type, and a process without a transfer never runs a hook of one.
THEOREM TypeCorrect == NodeSpec => []NodeTypeOK
<1>1. IInv => NodeTypeOK
    BY DEF IInv
<1> QED
    BY <1>1, Invariance, PTL

\* One endpoint has at most one accept loop, whatever the hooks' interleaving (run.rs, transfer.rs).
THEOREM AcceptLoopUnique == NodeSpec => []OneAcceptLoop
<1>1. IInv => OneAcceptLoop
    BY DEF IInv, OneHolder, Holds, OneAcceptLoop, NodeTypeOK
<1> QED
    BY <1>1, Invariance, PTL

\* The listening flag is set exactly while a hook is on its way to start the accept loop, and
\* for good once one was started, ended or not (transfer.rs).
THEOREM FlagHeld == NodeSpec => []FlagIsHeld
<1>1. IInv => FlagIsHeld
    <2>1. IInv => ( (\E c \in Conns : Holds(c))
                     <=> loops # {} \/ \E c \in Conns : hook[c] = "directory" )
        <3>1. ASSUME IInv PROVE \A c \in loops : c \in Conns
            BY <3>1 DEF IInv, NodeTypeOK
        <3> QED
            BY <3>1 DEF Holds
    <2> QED
        BY <2>1 DEF IInv, FlagInv, FlagIsHeld, HookIs
<1> QED
    BY <1>1, Invariance, PTL

\* No connection whose hook was called before the signal was handled is left without a close
\* frame (run.rs).
THEOREM CloseReachesAll == NodeSpec => []NoneLeftUnclosed
<1>1. IInv => NoneLeftUnclosed
    BY DEF IInv, HandledInv, NoneLeftUnclosed
<1> QED
    BY <1>1, Invariance, PTL
=============================================================================
