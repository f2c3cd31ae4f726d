------------------------------- MODULE Transfer -------------------------------
(***************************************************************************)
(* The transfer half of the node, held across reconnects: each connection  *)
(* runs on_connect, which hands over the rendezvous client, publishes      *)
(* where this node is and starts the one accept loop of its endpoint.      *)
(***************************************************************************)
EXTENDS Naturals

CONSTANT MaxConns   \* bound: connections of a run, over all processes

ASSUME ConnsAssumption == MaxConns \in Nat

Conns == 1..MaxConns
NoConn == 0

VARIABLES
    conn,       \* per connection: "unused", "up", "closed" (by a close frame), "dead"
    announced,  \* the connections on which the server offers attacca_api
    hook,       \* per connection: where its on_connect future stands
    client,     \* transfer.set_api: the connection of the client, or NoConn
    publish,    \* per connection, what came of publishing: "none", "ok", "failed"
    listening,
    loops,      \* the connections whose hook spawned an accept loop
    ended       \* those of them whose serve_peers has returned

transferVars == <<client, publish, listening, loops, ended>>

\* The await points of the future: the first wait_capability, peer_publish, the
\* swap of the flag, the wait for the directory.
HookSteps == {"client", "publish", "flag", "directory"}

TransferInit ==
    /\ client = NoConn /\ publish = [c \in Conns |-> "none"]
    /\ listening = FALSE /\ loops = {} /\ ended = {}

HookIs(c, step) == hook[c] = step
Goto(c, step) == hook' = [hook EXCEPT ![c] = step]

-----------------------------------------------------------------------------
(* wait_capability, and a call over the connection.                        *)

WaitOk(c) == c \in announced
WaitErr(c) == c \notin announced \/ conn[c] # "up"
\* peer_publish fails at any time: the scope, the server, a timeout, the connection.
PublishOutcomes(c) == IF WaitOk(c) /\ conn[c] = "up" THEN {"ok", "failed"} ELSE {"failed"}

-----------------------------------------------------------------------------
(* on_connect.                                                             *)

NoApi(c) ==
    /\ HookIs(c, "client") /\ WaitErr(c) /\ Goto(c, "done")
    /\ UNCHANGED transferVars

\* variant: what is there already is not published again
SetApiOnce(c) ==
    /\ HookIs(c, "client") /\ WaitOk(c) /\ client' = c
    /\ Goto(c, IF listening THEN "flag" ELSE "publish")
    /\ UNCHANGED <<publish, listening, loops, ended>>
SetApi(c) ==
    /\ HookIs(c, "client") /\ WaitOk(c) /\ client' = c /\ Goto(c, "publish")
    /\ UNCHANGED <<publish, listening, loops, ended>>

\* A publish that fails is logged, and the loop is started all the same.
Publish(c) ==
    /\ HookIs(c, "publish")
    /\ \E outcome \in PublishOutcomes(c) : publish' = [publish EXCEPT ![c] = outcome]
    /\ Goto(c, "flag")
    /\ UNCHANGED <<client, listening, loops, ended>>

\* variant: the flag is looked at here and set when the loop starts
LookAtFlag(c) ==
    /\ HookIs(c, "flag") /\ Goto(c, IF listening THEN "done" ELSE "directory")
    /\ UNCHANGED transferVars
SwapFlag(c) ==
    /\ HookIs(c, "flag") /\ Goto(c, IF listening THEN "done" ELSE "directory")
    /\ listening' = TRUE
    /\ UNCHANGED <<client, publish, loops, ended>>

\* variant: the flag is kept
KeepFlag(c) ==
    /\ HookIs(c, "directory") /\ WaitErr(c) /\ Goto(c, "done")
    /\ UNCHANGED transferVars
GiveBack(c) ==
    /\ HookIs(c, "directory") /\ WaitErr(c) /\ Goto(c, "done") /\ listening' = FALSE
    /\ UNCHANGED <<client, publish, loops, ended>>

SpawnLoop(c) ==
    /\ HookIs(c, "directory") /\ WaitOk(c) /\ Goto(c, "done")
    /\ loops' = loops \cup {c}
    /\ UNCHANGED <<client, publish, listening, ended>>

HookRuns(c) ==
    /\ \/ NoApi(c) \/ SetApi(c) \/ Publish(c) \/ SwapFlag(c) \/ GiveBack(c) \/ SpawnLoop(c)
    /\ UNCHANGED <<conn, announced>>

\* serve_peers returns.  It is logged; the flag stays.
LoopEnds(c) ==
    /\ c \in loops \ ended /\ ended' = ended \cup {c}
    /\ UNCHANGED <<client, publish, listening, loops>>

-----------------------------------------------------------------------------
(* What it promises.                                                       *)

\* However the hooks of several connections interleave, one endpoint is given at most one
\* accept loop (transfer.rs:55-57, "Starting a second accept loop on one endpoint is not" right).
OneAcceptLoop == \A c, d \in loops : c = d

\* The flag is set exactly while a hook is on its way to start the loop, and from the moment
\* a loop was started: a hook that gave up never leaves it set, and a loop that has ended is
\* never started again (transfer.rs:176-191).
FlagIsHeld == listening <=> loops # {} \/ \E c \in Conns : HookIs(c, "directory")
=============================================================================
