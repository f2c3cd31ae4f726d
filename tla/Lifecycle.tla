------------------------------ MODULE Lifecycle ------------------------------
(***************************************************************************)
(* One enrolled machine over its life: the credential store, the daemon    *)
(* process (StoredOnly inside the upstream Runner, and run()'s exit code), *)
(* the systemd user unit that restarts or parks it, the foreground         *)
(* `zyrisd enroll`, and the enrollment server they talk to.                *)
(*                                                                         *)
(* A credential is [gen, rot]: the gen-th enrollment of this machine,      *)
(* rotated rot times.  It stands for an access token and a refresh token.  *)
(***************************************************************************)
EXTENDS Naturals

CONSTANTS
    MaxGen,            \* bound: enrollments
    MaxRot,            \* bound: rotations of one enrollment
    MaxCrash,          \* bound: times the process is killed
    Faults,            \* what may go wrong with the files, see FaultKinds
    Installs,          \* is the unit installed? the initial choices
    SystemctlMayFail,  \* does `systemctl --user` sometimes fail?
    ReuseTolerated,    \* may a refresh token be presented again while its
                       \* successor was never seen?
    None, Refused      \* no token; the server's answer to a dead one

FaultKinds == {"transient", "corrupt", "permissive", "unwritable", "config"}
HumanFaults == FaultKinds \ {"transient"}
Tokens == [gen : 1..MaxGen, rot : 0..MaxRot]

ASSUME BoundsAssumption == MaxGen \in Nat \ {0} /\ MaxRot \in Nat \ {0} /\ MaxCrash \in Nat
ASSUME EnvAssumption ==
    /\ Faults \subseteq FaultKinds
    /\ Installs \subseteq BOOLEAN
    /\ SystemctlMayFail \in BOOLEAN
    /\ ReuseTolerated \in BOOLEAN
ASSUME NoneAssumption == None \notin Tokens /\ Refused \notin Tokens /\ None # Refused

VARIABLES
    store,      \* the credential file: a token, or None
    fault,      \* what is wrong with the files right now
    held,       \* StoredOnly.held
    gaveUp,     \* StoredOnly.gave_up
    refreshed,  \* the Runner already refreshed once since it last connected
    mode,       \* where the daemon process is
    unit,       \* the unit, or the terminal it was started from
    installed,
    req,        \* the credential a refresh request in flight presents
    reply,      \* the server's answer to it: a token, Refused, or None
    gens,       \* server: enrollments granted so far
    granted,    \* server: those not revoked
    cur,        \* server: the last rotation of each enrollment
    rejected,   \* server: access tokens of g below rejected[g] get a 401
    expired,    \* access tokens of g below expired[g] are past their lifetime
    clock,      \* "ok", "ahead" (nothing looks unexpired), or "healed"
    server,     \* "ok", "down" (unreachable), "erring" (non-retriable 500s)
    mounted,    \* at least one of the configured roots exists
    cli,        \* where `zyrisd enroll` is
    crashes

process == <<held, gaveUp, refreshed, mode, req, reply>>
remote == <<gens, granted, cur, rejected, expired>>
world == <<clock, server, mounted, crashes, installed>>
vars == <<store, fault, process, unit, remote, world, cli>>

TypeOK ==
    /\ store \in Tokens \cup {None}
    /\ fault \in FaultKinds \cup {"none"}
    /\ held \in Tokens \cup {None}
    /\ gaveUp \in BOOLEAN
    /\ refreshed \in BOOLEAN
    /\ mode \in {"down", "boot", "bearer", "bearer_rotate", "dial", "refresh_rotate",
                 "up", "backoff", "refused", "needs_operator"}
    /\ unit \in {"active", "restarting", "failed", "inactive"}
    /\ installed \in BOOLEAN
    /\ req \in Tokens \cup {None}
    /\ reply \in Tokens \cup {None, Refused}
    /\ gens \in 0..MaxGen
    /\ granted \subseteq 1..gens
    /\ cur \in [1..MaxGen -> 0..MaxRot]
    /\ rejected \in [1..MaxGen -> 0..MaxRot]
    /\ expired \in [1..MaxGen -> 0..MaxRot]
    /\ clock \in {"ok", "ahead", "healed"}
    /\ server \in {"ok", "down", "erring"}
    /\ mounted \in BOOLEAN
    /\ cli \in {"idle", "stop", "clear", "obtain", "grant", "restart"}
    /\ crashes \in 0..MaxCrash

\* StoredCredential::bearer(now, skew) has a token to give.
Unexpired(t) == clock # "ahead" /\ t.rot >= expired[t.gen]

\* The server would rotate this credential.
Rotatable(t) ==
    /\ t.gen \in granted
    /\ t.rot = cur[t.gen] \/ (ReuseTolerated /\ t.rot + 1 = cur[t.gen])

\* The server takes this access token.
Accepts(t) == t.gen \in granted /\ t.rot >= rejected[t.gen]

Init ==
    /\ store = None /\ fault = "none"
    /\ held = None /\ gaveUp = FALSE /\ refreshed = FALSE /\ mode = "down"
    /\ req = None /\ reply = None
    /\ installed \in Installs
    /\ unit \in IF installed THEN {"inactive", "failed"} ELSE {"inactive"}
    /\ gens = 0 /\ granted = {}
    /\ cur = [g \in 1..MaxGen |-> 0] /\ rejected = cur /\ expired = cur
    /\ clock = "ok" /\ server = "ok" /\ mounted \in BOOLEAN
    /\ cli = "idle" /\ crashes = 0

-----------------------------------------------------------------------------
(* The process: started by systemd or by hand, ended by an exit code.      *)

Fresh(m) ==
    /\ mode' = m
    /\ held' = None /\ gaveUp' = FALSE /\ refreshed' = FALSE
    /\ req' = None /\ reply' = None

\* Restart=on-failure, RestartPreventExitStatus=2: 1 is restarted, 2 is parked.
AfterExit(code) ==
    IF ~installed \/ code = 0 THEN "inactive"
    ELSE IF code = 2 THEN "failed" ELSE "restarting"

Exit(code) == Fresh("down") /\ unit' = AfterExit(code)

UnitRestarts ==
    /\ unit = "restarting"
    /\ unit' = "active" /\ Fresh("boot")
    /\ UNCHANGED <<store, fault, remote, world, cli>>

HumanRuns ==
    /\ ~installed /\ unit = "inactive" /\ cli = "idle"
    /\ unit' = "active" /\ Fresh("boot")
    /\ UNCHANGED <<store, fault, remote, world, cli>>

\* No root mounted yet: 1.  A config that cannot be read, before that, or of which no
\* StoredOnly or no node can be made, after it: 2.  Otherwise the Runner starts.
Boot ==
    /\ mode = "boot"
    /\ \/ fault = "config" /\ Exit(2)
       \/ ~mounted /\ Exit(1)
       \/ /\ fault # "config" /\ mounted
          /\ mode' = "bearer"
          /\ UNCHANGED <<held, gaveUp, refreshed, req, reply, unit>>
    /\ UNCHANGED <<store, fault, remote, world, cli>>

\* variant: a refusal is always fatal
ClassifyRefusedAlways2(credentialGaveUp) == 2
ClassifyRefused(credentialGaveUp) == IF credentialGaveUp THEN 2 ELSE 1

\* try_run returned an error: the exit code of the process.
RunEnds ==
    /\ \/ mode = "needs_operator" /\ Exit(2)
       \/ mode = "refused" /\ Exit(ClassifyRefused(gaveUp))
    /\ UNCHANGED <<store, fault, remote, world, cli>>

-----------------------------------------------------------------------------
(* StoredOnly::bearer and StoredOnly::refresh.                             *)

Goto(m) == mode' = m /\ UNCHANGED <<gaveUp, refreshed, req, reply, unit>>

HeldLooksValid == held # None /\ Unexpired(held)

BearerHeld ==
    /\ mode = "bearer"
    /\ HeldLooksValid
    /\ Goto("dial")
    /\ UNCHANGED <<store, fault, held, remote, world, cli>>

\* variant: every store error asks for a human
StoreErrorAll(f) == "needs_operator"
StoreError(f) == IF f = "transient" THEN "backoff" ELSE "needs_operator"

LoadFails == fault \in {"transient", "corrupt", "permissive"}

Present(t, m) ==
    /\ mode' = m /\ req' = t /\ reply' = None

\* Nothing held that looks valid: the credential file decides.
BearerLoad ==
    /\ mode = "bearer"
    /\ ~HeldLooksValid
    /\ \/ LoadFails /\ Goto(StoreError(fault)) /\ UNCHANGED held
       \/ ~LoadFails /\ store = None /\ Goto("needs_operator") /\ UNCHANGED held
       \/ /\ ~LoadFails /\ store # None /\ Unexpired(store)
          /\ held' = store /\ Goto("dial")
       \/ /\ ~LoadFails /\ store # None /\ ~Unexpired(store)
          /\ Present(store, "bearer_rotate")
          /\ UNCHANGED <<held, gaveUp, refreshed, unit>>
    /\ UNCHANGED <<store, fault, remote, world, cli>>

\* variant: refresh() only drops the in-memory copy
DropHeldOnly ==
    /\ held' = None /\ mode' = "bearer" /\ refreshed' = TRUE
    /\ UNCHANGED <<gaveUp, req, reply, unit>>
\* refresh(): takes what is held and presents it.
Refresh ==
    /\ held' = None
    /\ Present(held, "refresh_rotate")
    /\ UNCHANGED <<gaveUp, refreshed, unit>>

\* The Runner dials with the token bearer() gave it; a 401 gets one refresh().
Dial ==
    /\ mode = "dial"
    /\ \/ server = "down" /\ Goto("backoff") /\ UNCHANGED held
       \/ server = "erring" /\ Goto("refused") /\ UNCHANGED held
       \/ /\ server = "ok" /\ Accepts(held)
          /\ mode' = "up" /\ refreshed' = FALSE
          /\ UNCHANGED <<held, gaveUp, req, reply, unit>>
       \/ server = "ok" /\ ~Accepts(held) /\ refreshed /\ Goto("refused") /\ UNCHANGED held
       \/ server = "ok" /\ ~Accepts(held) /\ ~refreshed /\ Refresh
    /\ UNCHANGED <<store, fault, remote, world, cli>>

Rotating == mode \in {"bearer_rotate", "refresh_rotate"}

\* Writing the file replaces a corrupt or too permissive one; without a file
\* there is nothing unreadable.
Saved(t) ==
    /\ store' = t
    /\ fault' = IF fault \in {"corrupt", "permissive"} THEN "none" ELSE fault
\* variant: what the server answered is written where the credential was
ClearedToAnswer == store' = reply /\ UNCHANGED fault
Cleared ==
    /\ store' = None
    /\ fault' = IF LoadFails THEN "none" ELSE fault

\* rotate() returned Ok(t), to bearer() or to refresh().
RotateOk(t) ==
    /\ req' = None /\ reply' = None
    /\ \/ /\ mode = "bearer_rotate" /\ Unexpired(t)
          /\ held' = t /\ mode' = "dial" /\ UNCHANGED <<gaveUp, refreshed>>
       \/ /\ mode = "bearer_rotate" /\ ~Unexpired(t)
          /\ mode' = "needs_operator" /\ UNCHANGED <<held, gaveUp, refreshed>>
       \/ /\ mode = "refresh_rotate"
          /\ held' = t /\ mode' = "bearer" /\ refreshed' = TRUE /\ UNCHANGED gaveUp

\* force_refresh saved the successor before it returned; it returns an error that
\* is not Transport when it could not.
RotateAnswered ==
    /\ Rotating /\ reply \notin {None, Refused}
    /\ \/ fault # "unwritable" /\ Saved(reply) /\ RotateOk(reply)
       \/ /\ fault = "unwritable"
          /\ req' = None /\ reply' = None /\ mode' = "needs_operator"
          /\ UNCHANGED <<store, fault, held, gaveUp, refreshed>>
    /\ UNCHANGED <<unit, remote, world, cli>>

\* force_refresh cleared the store; the flag tells a revocation from the rest.
RotateRefused ==
    /\ Rotating /\ reply = Refused
    /\ Cleared
    /\ gaveUp' = TRUE
    /\ mode' = IF mode = "bearer_rotate" THEN "needs_operator" ELSE "refused"
    /\ req' = None /\ reply' = None
    /\ UNCHANGED <<held, refreshed, unit, remote, world, cli>>

\* variant: an unreachable server reads as a dead credential and is deleted
UnreachableDeletes == store' = None /\ mode' = "needs_operator"
\* variant: an unreachable server asks for a human
UnreachableParks == UNCHANGED store /\ mode' = "needs_operator"
Unreachable == UNCHANGED store /\ mode' = "backoff"

\* No answer, or a 5xx: Transport.  The server may have rotated all the same.
RotateUnreachable ==
    /\ Rotating /\ server # "ok"
    /\ Unreachable
    /\ req' = None /\ reply' = None
    /\ UNCHANGED <<fault, held, gaveUp, refreshed, unit, remote, world, cli>>

Redial ==
    /\ mode = "backoff" /\ Goto("bearer")
    /\ UNCHANGED <<store, fault, held, remote, world, cli>>

-----------------------------------------------------------------------------
(* The server.                                                             *)

\* The rotation after t, or again the one its presenter never saw.
\* At the bound MaxRot the same token is handed out again.
Successor(t) ==
    IF t.rot = cur[t.gen] /\ t.rot < MaxRot
    THEN [t EXCEPT !.rot = @ + 1]
    ELSE [t EXCEPT !.rot = cur[t.gen]]

ServerRefresh ==
    /\ req # None /\ reply = None /\ server = "ok"
    /\ \/ /\ Rotatable(req)
          /\ reply' = Successor(req)
          /\ cur' = [cur EXCEPT ![req.gen] = Successor(req).rot]
       \/ ~Rotatable(req) /\ reply' = Refused /\ UNCHANGED cur
    /\ UNCHANGED <<store, fault, held, gaveUp, refreshed, mode, unit, req,
                   gens, granted, rejected, expired, world, cli>>

\* The connection of a revoked node is closed.
ServerDropsRevoked ==
    /\ mode = "up" /\ held.gen \notin granted
    /\ Goto("backoff")
    /\ UNCHANGED <<store, fault, held, remote, world, cli>>

-----------------------------------------------------------------------------
(* `zyrisd enroll`.                                                        *)

SystemctlResults == IF SystemctlMayFail THEN BOOLEAN ELSE {TRUE}

\* Ok(Some): the human confirms.  Ok(None): straight to obtain().
CliLoad ==
    /\ cli = "idle" /\ fault # "config" /\ ~LoadFails
    /\ cli' = IF store # None THEN "stop" ELSE "obtain"
    /\ UNCHANGED <<store, fault, process, unit, remote, world>>

\* Err: "Delete {} and try again" -- the human does.
CliToldToDelete ==
    /\ cli = "idle" /\ LoadFails
    /\ Cleared /\ cli' = "obtain"
    /\ UNCHANGED <<process, unit, remote, world>>

\* variant: the daemon is not stopped
StopNothing == UNCHANGED <<process, unit>>
\* stop_if_active(): `systemctl stop` waits for the process; the result is ignored.
StopIfActive ==
    \E ok \in SystemctlResults :
        IF installed /\ ok
        THEN Fresh("down") /\ unit' = IF unit = "failed" THEN "failed" ELSE "inactive"
        ELSE UNCHANGED <<process, unit>>

CliStop ==
    /\ cli = "stop" /\ cli' = "clear"
    /\ StopIfActive
    /\ UNCHANGED <<store, fault, remote, world>>

\* What cannot be written may not be erasable either: exit 2, the daemon already stopped.
CliClear ==
    /\ cli = "clear"
    /\ \/ Cleared /\ cli' = "obtain"
       \/ fault = "unwritable" /\ UNCHANGED <<store, fault>> /\ cli' = "idle"
    /\ UNCHANGED <<process, unit, remote, world>>

\* Enroller::obtain returns what the store holds, rotates it, or starts an enrollment.
CliObtain ==
    /\ cli = "obtain" /\ ~LoadFails
    /\ \/ store # None /\ Unexpired(store) /\ cli' = "restart" /\ UNCHANGED <<store, fault, cur>>
       \/ /\ store # None /\ ~Unexpired(store) /\ server = "ok" /\ Rotatable(store)
          /\ cur' = [cur EXCEPT ![store.gen] = Successor(store).rot]
          /\ \/ fault # "unwritable" /\ Saved(Successor(store)) /\ cli' = "restart"
             \/ fault = "unwritable" /\ UNCHANGED <<store, fault>> /\ cli' = "idle"
       \/ /\ store # None /\ ~Unexpired(store) /\ server = "ok" /\ ~Rotatable(store)
          /\ cli' = "grant" /\ Cleared /\ UNCHANGED cur
       \/ store = None /\ cli' = "grant" /\ UNCHANGED <<store, fault, cur>>
    /\ UNCHANGED <<process, unit, gens, granted, rejected, expired, world>>

\* The human approved the device code: a new enrollment is granted and saved.
CliGrant ==
    /\ cli = "grant" /\ server = "ok" /\ fault # "unwritable" /\ gens < MaxGen
    /\ gens' = gens + 1 /\ granted' = granted \cup {gens + 1}
    /\ Saved([gen |-> gens + 1, rot |-> 0])
    /\ cli' = "restart"
    /\ UNCHANGED <<process, unit, cur, rejected, expired, world>>

\* Declined, timed out, unreachable, not savable, or interrupted.
CliFails ==
    /\ cli \in {"obtain", "grant"} /\ cli' = "idle"
    /\ UNCHANGED <<store, fault, process, unit, remote, world>>

\* variant: without reset-failed a parked unit does not take the restart
RestartUnlessFailed ==
    IF installed /\ unit # "failed" THEN Fresh("boot") /\ unit' = "active" ELSE UNCHANGED <<process, unit>>
\* restart_if_installed(): reset-failed, then restart; either may fail, and is ignored.
RestartIfInstalled ==
    \E reset, restart \in SystemctlResults :
        IF installed /\ restart /\ (reset \/ unit # "failed")
        THEN Fresh("boot") /\ unit' = "active"
        ELSE /\ unit' = IF installed /\ reset /\ unit = "failed" THEN "inactive" ELSE unit
             /\ UNCHANGED process

CliRestart ==
    /\ cli = "restart" /\ cli' = "idle"
    /\ RestartIfInstalled
    /\ UNCHANGED <<store, fault, remote, world>>

-----------------------------------------------------------------------------
(* The environment.                                                        *)

Known(g) == [gen |-> g, rot |-> cur[g]] \in {store, held}

Revoke ==
    /\ \E g \in granted : granted' = granted \ {g}
    /\ UNCHANGED <<store, fault, process, unit, gens, cur, rejected, expired, world, cli>>

\* Time: an access token reaches its lifetime (only if someone holds it).
Expire ==
    /\ \E g \in granted :
          /\ Known(g) /\ cur[g] < MaxRot /\ expired[g] <= cur[g]
          /\ expired' = [expired EXCEPT ![g] = cur[g] + 1]
    /\ UNCHANGED <<store, fault, process, unit, gens, granted, cur, rejected, world, cli>>

\* A redeploy, or drift: the server stops taking the access tokens it gave out.
Reject ==
    /\ \E g \in granted :
          /\ Known(g) /\ cur[g] < MaxRot /\ rejected[g] <= cur[g]
          /\ rejected' = [rejected EXCEPT ![g] = cur[g] + 1]
    /\ UNCHANGED <<store, fault, process, unit, gens, granted, cur, expired, world, cli>>

ConnLost ==
    /\ mode = "up" /\ Goto("backoff")
    /\ UNCHANGED <<store, fault, held, remote, world, cli>>

\* SIGKILL, a panic, a power cut: the process is gone and systemd starts another.
Crash ==
    /\ mode # "down" /\ crashes < MaxCrash
    /\ Exit(1) /\ crashes' = crashes + 1
    /\ UNCHANGED <<store, fault, remote, clock, server, mounted, installed, cli>>

ServerChanges ==
    /\ \E s \in {"ok", "down", "erring"} \ {server} : server' = s
    /\ UNCHANGED <<store, fault, process, unit, remote, clock, mounted, crashes, installed, cli>>

\* The clock jumps once, and is put right once.
ClockChanges ==
    /\ \/ clock = "ok" /\ clock' = "ahead"
       \/ clock = "ahead" /\ clock' = "healed"
    /\ UNCHANGED <<store, fault, process, unit, remote, server, mounted, crashes, installed, cli>>

Mount ==
    /\ ~mounted /\ mounted' = TRUE
    /\ UNCHANGED <<store, fault, process, unit, remote, clock, server, crashes, installed, cli>>

FaultAppears ==
    /\ fault = "none"
    /\ \E f \in Faults : fault' = f /\ (store = None => f \in {"unwritable", "config"})
    /\ UNCHANGED <<store, process, unit, remote, world, cli>>

TransientClears ==
    /\ fault = "transient" /\ fault' = "none"
    /\ UNCHANGED <<store, process, unit, remote, world, cli>>

\* chmod, disk space, config.toml: put right, and the service started again.
HumanRepairs ==
    /\ fault \in {"permissive", "unwritable", "config"} /\ fault' = "none"
    /\ IF installed THEN Fresh("boot") /\ unit' = "active" ELSE UNCHANGED <<process, unit>>
    /\ UNCHANGED <<store, remote, world, cli>>

Daemon ==
    \/ Boot \/ RunEnds \/ BearerHeld \/ BearerLoad \/ Dial
    \/ RotateAnswered \/ RotateRefused \/ RotateUnreachable \/ Redial
Cli == CliStop \/ CliClear \/ CliObtain \/ CliGrant \/ CliRestart
Human == HumanRuns \/ HumanRepairs \/ CliLoad \/ CliToldToDelete \/ CliFails
Environment ==
    \/ Revoke \/ Expire \/ Reject \/ ConnLost \/ Crash \/ ServerChanges
    \/ ClockChanges \/ Mount \/ FaultAppears \/ TransientClears

Next ==
    \/ Daemon \/ UnitRestarts
    \/ ServerRefresh \/ ServerDropsRevoked
    \/ Cli \/ Human \/ Environment

\* The process, systemd and a reachable server keep going; a human who started
\* `enroll` and was granted sees it through.  Nothing else is promised.
Fairness ==
    /\ WF_vars(Daemon)
    /\ WF_vars(UnitRestarts)
    /\ WF_vars(ServerRefresh)
    /\ WF_vars(ServerDropsRevoked)
    /\ WF_vars(CliRestart)

Spec == Init /\ [][Next]_vars
FairSpec == Spec /\ Fairness

-----------------------------------------------------------------------------
(* What it promises.                                                       *)

\* A parked unit (RestartPreventExitStatus=2 leaves it failed, nobody restarts it)
\* always has something only a human can clear: no credential, one the server no
\* longer rotates, a broken file or config, or a clock that went wrong -- unless
\* `enroll` is just about to restart it.  run.rs:44, credentials.rs:74 and 94: one
\* 503, one EIO or one 500 must not park a daemon for good.
ParkedNeedsAHuman ==
    unit = "failed" =>
        \/ ~(store # None /\ Rotatable(store))
        \/ fault \in HumanFaults
        \/ clock # "ok"
        \/ cli = "restart"

\* Nothing but `zyrisd enroll` makes the machine lose a credential the server would
\* still rotate: the daemon only ever replaces it by its own successor, whatever it
\* still holds in memory or has in flight (credentials.rs:73, enroll.rs:55).
CredentialNotLost ==
    [][ cli' = cli /\ store # None /\ Rotatable(store) /\ store' # store
          => store' # None /\ store'.gen = store.gen ]_vars

\* While `enroll` works past its stop, no daemon presents the refresh token of an
\* older enrollment (enroll.rs:55: "Stop it first so a running daemon does not try
\* to rotate with the old token").
OldTokenNotPresented ==
    cli \in {"obtain", "grant", "restart"} /\ req # None /\ store # None => req.gen = store.gen

Calm == installed /\ server = "ok" /\ fault = "none" /\ mounted /\ clock # "ahead"
Running == unit \in {"active", "restarting"}

\* With the server reachable and the refresh token good, the daemon always gets back
\* up by itself: expired, rejected and half-rotated access tokens heal
\* (credentials.rs:149-155).
HealsByItself ==
    <>[](Calm /\ cli = "idle" /\ Running /\ store # None /\ Rotatable(store))
        => []<>(mode = "up")

\* A revocation ends with the credential gone and the unit parked, not in a restart
\* loop, as long as the server can be reached, nobody starts `enroll`, and the process
\* is not parking for another reason already.
RevocationParks ==
    (Calm /\ Running /\ mode # "needs_operator" /\ store # None /\ store.gen \notin granted)
        ~> (unit = "failed" /\ store = None) \/ ~Calm \/ cli # "idle" \/ unit = "inactive"

\* The way back: after `enroll` saved a credential the node connects, from a parked
\* unit too (service.rs:70-74).
EnrollRevives ==
    (Calm /\ cli = "restart")
        ~> mode = "up" \/ ~Calm \/ cli = "stop" \/ ~(store # None /\ Rotatable(store))
=============================================================================
