--------------------------------- MODULE Node ---------------------------------
(***************************************************************************)
(* `run()` from start to exit: the transfer it may or may not come up      *)
(* with, the connections of the Runner with their on_connect hook, the     *)
(* slot that hands the live connection to the signal handler, shutdown.    *)
(***************************************************************************)
EXTENDS Transfer

VARIABLES
    phase,      \* "down", "start" (building), "up" (the select!), "grace" (CLOSE_GRACE)
    transfer,   \* Transfer::bind succeeded and it is enabled
    overlap,    \* may the Runner have the hooks of two connections under way?
    slot,       \* ConnSlot: the connection put there last, or NoConn
    signalled,  \* SIGTERM or SIGINT was sent to this process
    handled     \* the connections whose hook had been called when the signal was handled

connVars == <<conn, announced, hook>>
processVars == <<phase, transfer, slot, signalled, handled>>
nodeVars == <<connVars, transferVars, processVars, overlap>>

Used == {c \in Conns : conn[c] # "unused"}

Called == {c \in Used : hook[c] # "body"}

NodeTypeOK ==
    /\ conn \in [Conns -> {"unused", "up", "closed", "dead"}]
    /\ announced \in SUBSET Conns
    /\ hook \in [Conns -> HookSteps \cup {"none", "body", "done"}]
    /\ client \in Conns \cup {NoConn} /\ publish \in [Conns -> {"none", "ok", "failed"}]
    /\ listening \in BOOLEAN /\ loops \in SUBSET Conns /\ ended \in SUBSET loops
    /\ phase \in {"down", "start", "up", "grace"}
    /\ transfer \in BOOLEAN /\ overlap \in BOOLEAN /\ signalled \in BOOLEAN
    /\ slot \in Conns \cup {NoConn} /\ handled \in SUBSET Conns
    /\ ~transfer => client = NoConn /\ loops = {} /\ \A c \in Conns : hook[c] \notin HookSteps

NoHooks == hook = [c \in Conns |-> "none"]

NodeInit ==
    /\ conn = [c \in Conns |-> "unused"] /\ announced = {}
    /\ NoHooks /\ TransferInit
    /\ phase = "down" /\ transfer = FALSE /\ overlap \in BOOLEAN
    /\ slot = NoConn /\ signalled = FALSE /\ handled = {}

-----------------------------------------------------------------------------
(* The process.                                                            *)

StartProcess ==
    /\ phase = "down" /\ Used # Conns /\ phase' = "start"
    /\ UNCHANGED <<connVars, transferVars, transfer, overlap, slot, signalled, handled>>

\* A failure to bind is not a reason to stop being a node.
BindTransfer ==
    /\ phase = "start" /\ phase' = "up" /\ transfer' \in BOOLEAN
    /\ UNCHANGED <<connVars, transferVars, overlap, slot, signalled, handled>>

\* The process is gone: no close frame, its futures and tasks with it.
ProcessEnds ==
    /\ phase' = "down" /\ transfer' = FALSE /\ slot' = NoConn
    /\ signalled' = FALSE /\ handled' = {}
    /\ conn' = [c \in Conns |-> IF conn[c] = "up" THEN "dead" ELSE conn[c]]
    /\ hook' = [c \in Conns |-> "none"]
    /\ client' = NoConn /\ publish' = [c \in Conns |-> "none"]
    /\ listening' = FALSE /\ loops' = {} /\ ended' = {}
    /\ UNCHANGED <<announced, overlap>>

\* try_run returned, or its task panicked; or the process was killed.
RunnerEnds == phase = "up" /\ ProcessEnds

-----------------------------------------------------------------------------
(* The connections.                                                        *)

\* The Runner has a connection; that it was made, nobody else knows yet.  It goes on
\* through CLOSE_GRACE: nothing aborts its task.
Connect(c) ==
    /\ phase \in {"up", "grace"}
    /\ c \in Conns \ Used /\ Used = 1..(c - 1)
    /\ \A d \in Conns :
          conn[d] # "up" /\ hook[d] # "body" /\ (~overlap => hook[d] \in {"none", "done"})
    /\ conn' = [conn EXCEPT ![c] = "up"] /\ hook' = [hook EXCEPT ![c] = "body"]
    /\ UNCHANGED <<announced, transferVars, processVars, overlap>>

\* variant: the slot is filled by the future the hook returns
SlotFilledLater(c) == slot
\* ConnSlot::put, in the body of the hook.
SlotFilled(c) == c

\* variant: the hook does not look whether there is a transfer
HookAlways(c) == [hook EXCEPT ![c] = "client"]
\* The future the hook returns: on_connect if there is a transfer.
HookReturned(c) == [hook EXCEPT ![c] = IF transfer THEN "client" ELSE "done"]

\* The Runner calls the hook: its body, on whatever thread the Runner is.
HookBody(c) ==
    /\ hook[c] = "body"
    /\ slot' = SlotFilled(c) /\ hook' = HookReturned(c)
    /\ UNCHANGED <<conn, announced, transferVars, phase, transfer, overlap, signalled, handled>>

ServerAnnounces(c) ==
    /\ conn[c] = "up" /\ announced' \in {announced \cup {c}, announced \ {c}}
    /\ UNCHANGED <<conn, hook, transferVars, processVars, overlap>>

Drops(c) ==
    /\ conn[c] = "up" /\ conn' = [conn EXCEPT ![c] = "dead"]
    /\ UNCHANGED <<announced, hook, transferVars, processVars, overlap>>

AcceptLoopEnds(c) == LoopEnds(c) /\ UNCHANGED <<connVars, processVars, overlap>>

OnConnect(c) == HookRuns(c) /\ UNCHANGED <<processVars, overlap>>

-----------------------------------------------------------------------------
(* Shutdown.                                                               *)

\* Before the handlers are installed a signal ends the process.
Signal ==
    \/ phase = "start" /\ ProcessEnds
    \/ /\ phase = "up" /\ ~signalled /\ signalled' = TRUE
       /\ UNCHANGED <<connVars, transferVars, phase, transfer, overlap, slot, handled>>

\* ConnSlot::close.
SlotClosed ==
    IF slot \in Conns /\ conn[slot] = "up" THEN [conn EXCEPT ![slot] = "closed"] ELSE conn

\* variant: the signal is waited for only while a connection is up
TerminateConnected ==
    /\ phase = "up" /\ signalled /\ (\E c \in Conns : conn[c] = "up")
    /\ phase' = "grace" /\ conn' = SlotClosed /\ handled' = Called
    /\ UNCHANGED <<announced, hook, transferVars, transfer, overlap, slot, signalled>>
\* The second branch of the select!, dialing, connected or backing off.
Terminate ==
    /\ phase = "up" /\ signalled
    /\ phase' = "grace" /\ conn' = SlotClosed /\ handled' = Called
    /\ UNCHANGED <<announced, hook, transferVars, transfer, overlap, slot, signalled>>

GraceOver == phase = "grace" /\ ProcessEnds

-----------------------------------------------------------------------------

NodeRuns == BindTransfer \/ Terminate \/ GraceOver

NodeNext ==
    \/ StartProcess \/ NodeRuns \/ RunnerEnds \/ Signal
    \/ \E c \in Conns :
          \/ Connect(c) \/ HookBody(c) \/ ServerAnnounces(c) \/ Drops(c)
          \/ OnConnect(c) \/ AcceptLoopEnds(c)

NodeSpec == NodeInit /\ [][NodeNext]_nodeVars

\* Tasks that can run do, and timers expire. Nothing is asked of servers and connections.
NodeFairness ==
    /\ WF_nodeVars(NodeRuns)
    /\ \A c \in Conns : WF_nodeVars(HookBody(c)) /\ WF_nodeVars(OnConnect(c))

\* When the signal has been handled, no connection the hook had been called for is left
\* without a close frame: its body fills the slot, "in the returned future, a signal can
\* land before it is scheduled" (run.rs:159-173).
NoneLeftUnclosed == phase = "grace" => \A c \in handled : conn[c] # "up"

\* A signal ends the process wherever the Runner is: dialing, connected, with a hook under
\* way or backing off (run.rs:271-273, "a signal that arrives while dialing or backing off
\* goes unheard" without the handler).
StopsWhenTold == signalled ~> phase = "down"

\* On a connection that stays and goes on offering the api, after any number of reconnects:
\* the transfer uses this connection's client, tried to publish itself on it, and an accept
\* loop was started.  Hooks of two connections do not overlap here (transfer.rs:143-192).
TransferComesUp ==
    \A c \in Conns :
        HookIs(c, "client") /\ ~overlap
            ~> \/ conn[c] # "up" \/ c \notin announced
               \/ client = c /\ publish[c] # "none" /\ loops # {}
=============================================================================
