--------------------------- MODULE Lifecycle_proofs ---------------------------
(***************************************************************************)
(* Theorems about Lifecycle, for every value of its constants.             *)
(***************************************************************************)
EXTENDS Lifecycle, TLAPS

\* What the server hands out for a credential is a credential.
LEMMA SuccessorType ==
    ASSUME TypeOK, NEW t \in Tokens
    PROVE  Successor(t) \in Tokens
<1>1. t.gen \in 1..MaxGen /\ t.rot \in 0..MaxRot
    BY DEF Tokens
<1>2. cur[t.gen] \in 0..MaxRot
    BY <1>1 DEF TypeOK
<1>3. \A r \in 0..MaxRot : [t EXCEPT !.rot = r] \in Tokens
    BY DEF Tokens
<1>4. t.rot < MaxRot => t.rot + 1 \in 0..MaxRot
    BY <1>1, BoundsAssumption
<1> QED
    BY <1>1, <1>2, <1>3, <1>4 DEF Successor

\* What an exit code makes of the unit.
LEMMA AfterExitType ==
    ASSUME NEW code
    PROVE  AfterExit(code) \in {"restarting", "failed", "inactive"}
  BY DEF AfterExit

\* A new process, in whatever place it starts, has nothing of the old one.
LEMMA FreshType ==
    ASSUME NEW m, Fresh(m)
    PROVE  /\ mode' = m /\ held' = None /\ gaveUp' = FALSE /\ refreshed' = FALSE
           /\ req' = None /\ reply' = None
  BY DEF Fresh

LEMMA TypeInit == Init => TypeOK
<1> SUFFICES ASSUME Init PROVE TypeOK
    OBVIOUS
<1>1. 0 \in 0..MaxRot /\ 0 \in 0..MaxGen /\ 0 \in 0..MaxCrash
    BY BoundsAssumption
<1>2. [g \in 1..MaxGen |-> 0] \in [1..MaxGen -> 0..MaxRot]
    BY <1>1
<1>3. cur \in [1..MaxGen -> 0..MaxRot] /\ rejected = cur /\ expired = cur
    BY <1>2 DEF Init
<1>4. installed \in BOOLEAN /\ unit \in {"inactive", "failed"}
    BY EnvAssumption DEF Init
<1> QED
    BY <1>1, <1>3, <1>4 DEF Init, TypeOK

ProcessTyped ==
    /\ held \in Tokens \cup {None}
    /\ gaveUp \in BOOLEAN
    /\ refreshed \in BOOLEAN
    /\ mode \in {"down", "boot", "bearer", "bearer_rotate", "dial", "refresh_rotate",
                 "up", "backoff", "refused", "needs_operator"}
    /\ unit \in {"active", "restarting", "failed", "inactive"}
    /\ req \in Tokens \cup {None}
    /\ reply \in Tokens \cup {None, Refused}

\* Most steps leave the server and the world alone.
LEMMA ProcessOnly ==
    ASSUME TypeOK, ProcessTyped',
           UNCHANGED <<remote, installed, clock, server, mounted>>,
           store' \in Tokens \cup {None}, fault' \in FaultKinds \cup {"none"},
           crashes' \in 0..MaxCrash,
           cli' \in {"idle", "stop", "clear", "obtain", "grant", "restart"}
    PROVE  TypeOK'
  BY DEF TypeOK, ProcessTyped, remote

LEMMA TypeStep == TypeOK /\ [Next]_vars => TypeOK'
<1> SUFFICES ASSUME TypeOK, [Next]_vars PROVE TypeOK'
    OBVIOUS
<1> USE DEF TypeOK, process, remote, world
<1>1. CASE Boot
    <2>1. ProcessTyped'
        BY <1>1, AfterExitType, FreshType DEF Boot, Exit, ProcessTyped
    <2> QED
        BY <1>1, <2>1, ProcessOnly DEF Boot
<1>2. CASE RunEnds
    <2>1. ProcessTyped'
        BY <1>2, AfterExitType, FreshType DEF RunEnds, Exit, ProcessTyped
    <2> QED
        BY <1>2, <2>1, ProcessOnly DEF RunEnds
<1>3. CASE BearerHeld
    BY <1>3 DEF BearerHeld, Goto
<1>4. CASE BearerLoad
    BY <1>4 DEF BearerLoad, Goto, Present, StoreError
<1>5. CASE Dial
    <2>1. ProcessTyped'
        BY <1>5 DEF Dial, Goto, Refresh, Present, ProcessTyped
    <2> QED
        BY <1>5, <2>1, ProcessOnly DEF Dial
<1>6. CASE RotateAnswered
    <2>1. ProcessTyped'
        BY <1>6 DEF RotateAnswered, RotateOk, ProcessTyped
    <2>2. store' \in Tokens \cup {None} /\ fault' \in FaultKinds \cup {"none"}
        BY <1>6 DEF RotateAnswered, Saved
    <2> QED
        BY <1>6, <2>1, <2>2, ProcessOnly DEF RotateAnswered
<1>7. CASE RotateRefused
    BY <1>7 DEF RotateRefused, Cleared
<1>8. CASE RotateUnreachable
    BY <1>8 DEF RotateUnreachable, Unreachable
<1>9. CASE Redial
    BY <1>9 DEF Redial, Goto
<1>10. CASE UnitRestarts
    BY <1>10 DEF UnitRestarts, Fresh
<1>11. CASE ServerRefresh
    <2>1. req \in Tokens
        BY <1>11 DEF ServerRefresh
    <2>2. Successor(req) \in Tokens
        BY <2>1, SuccessorType
    <2>3. Successor(req).rot \in 0..MaxRot
        BY <2>2 DEF Tokens
    <2> QED BY <1>11, <2>1, <2>2, <2>3 DEF ServerRefresh
<1>12. CASE ServerDropsRevoked
    BY <1>12 DEF ServerDropsRevoked, Goto
<1>13. CASE CliStop
    <2>1. ProcessTyped'
        BY <1>13, FreshType DEF CliStop, StopIfActive, ProcessTyped
    <2> QED
        BY <1>13, <2>1, ProcessOnly DEF CliStop
<1>14. CASE CliClear
    BY <1>14 DEF CliClear, Cleared
<1>15. CASE CliObtain
    <2>1. ASSUME store # None
          PROVE  Successor(store) \in Tokens /\ Successor(store).rot \in 0..MaxRot
        <3>1. store \in Tokens
            BY <2>1
        <3>2. Successor(store) \in Tokens
            BY <3>1, SuccessorType
        <3> QED BY <3>2 DEF Tokens
    <2> QED BY <1>15, <2>1 DEF CliObtain, Saved, Cleared
<1>16. CASE CliGrant
    <2>1. gens + 1 \in 1..MaxGen
        BY <1>16, BoundsAssumption DEF CliGrant
    <2>2. [gen |-> gens + 1, rot |-> 0] \in Tokens
        BY <2>1, BoundsAssumption DEF Tokens
    <2> QED BY <1>16, <2>1, <2>2 DEF CliGrant, Saved
<1>17. CASE CliRestart
    <2>1. ProcessTyped'
        BY <1>17, FreshType DEF CliRestart, RestartIfInstalled, ProcessTyped
    <2> QED
        BY <1>17, <2>1, ProcessOnly DEF CliRestart
<1>18. CASE HumanRuns
    BY <1>18 DEF HumanRuns, Fresh
<1>19. CASE HumanRepairs
    <2>1. ProcessTyped'
        BY <1>19, FreshType DEF HumanRepairs, ProcessTyped
    <2> QED
        BY <1>19, <2>1, ProcessOnly DEF HumanRepairs
<1>20. CASE CliLoad
    BY <1>20 DEF CliLoad
<1>21. CASE CliToldToDelete
    BY <1>21 DEF CliToldToDelete, Cleared
<1>22. CASE CliFails
    BY <1>22 DEF CliFails
<1>23. CASE Revoke
    BY <1>23 DEF Revoke
<1>24. CASE Expire
    BY <1>24, BoundsAssumption DEF Expire
<1>25. CASE Reject
    BY <1>25, BoundsAssumption DEF Reject
<1>26. CASE ConnLost
    BY <1>26 DEF ConnLost, Goto
<1>27. CASE Crash
    <2>1. ProcessTyped'
        BY <1>27, AfterExitType, FreshType DEF Crash, Exit, ProcessTyped
    <2>2. crashes' \in 0..MaxCrash
        BY <1>27, BoundsAssumption DEF Crash
    <2> QED
        BY <1>27, <2>1, <2>2, ProcessOnly DEF Crash
<1>28. CASE ServerChanges
    BY <1>28 DEF ServerChanges
<1>29. CASE ClockChanges
    BY <1>29 DEF ClockChanges
<1>30. CASE Mount
    BY <1>30 DEF Mount
<1>31. CASE FaultAppears
    BY <1>31, EnvAssumption DEF FaultAppears
<1>32. CASE TransientClears
    BY <1>32 DEF TransientClears
<1>33. CASE UNCHANGED vars
    BY <1>33 DEF vars
<1> QED
    BY <1>1, <1>2, <1>3, <1>4, <1>5, <1>6, <1>7, <1>8, <1>9, <1>10, <1>11, <1>12, <1>13,
       <1>14, <1>15, <1>16, <1>17, <1>18, <1>19, <1>20, <1>21, <1>22, <1>23, <1>24, <1>25,
       <1>26, <1>27, <1>28, <1>29, <1>30, <1>31, <1>32, <1>33
    DEF Next, Daemon, Cli, Human, Environment

\* The state keeps its type.
THEOREM TypeCorrect == Spec => []TypeOK
  BY TypeInit, TypeStep, PTL DEF Spec

-----------------------------------------------------------------------------
(* Under the unit, with healthy files, `enroll` and the daemon never hold  *)
(* two enrollments at once.                                                *)

\* The daemon was installed as a unit, systemctl works, and the files stay good.
Managed == Installs = {TRUE} /\ SystemctlMayFail = FALSE /\ Faults = {}

Ending == mode \in {"refused", "needs_operator"}

\* The file, the memory and the request in flight name the same credential.
InSync ==
    /\ req # None => req = store /\ Rotating
    /\ held # None => held = store \/ Ending

\* An answer is about the credential that was presented, and a refusal stays true.
AnswerFits ==
    /\ reply # None => req # None
    /\ reply \in Tokens => reply.gen = req.gen
    /\ reply = Refused => ~Rotatable(req)

\* From its stop to the new grant, `enroll` is alone: no file, and no process that
\* could write one.
EnrollAlone ==
    /\ cli \in {"obtain", "grant"} => store = None
    /\ cli = "clear" => mode = "down" /\ held = None /\ req = None /\ unit # "restarting"

ManagedInv ==
    /\ TypeOK
    /\ fault = "none" /\ installed
    /\ InSync /\ AnswerFits /\ EnrollAlone

LEMMA ManagedInit == ASSUME Managed PROVE Init => ManagedInv
<1> SUFFICES ASSUME Init PROVE ManagedInv
    OBVIOUS
<1>1. TypeOK
    BY TypeInit
<1>2. fault = "none" /\ installed
    BY DEF Init, Managed
<1>3. InSync /\ AnswerFits /\ EnrollAlone
    BY NoneAssumption DEF Init, InSync, AnswerFits, EnrollAlone
<1> QED
    BY <1>1, <1>2, <1>3 DEF ManagedInv

\* A process that starts afresh, or is gone, has nothing to be out of step with.
LEMMA FreshManaged ==
    ASSUME ManagedInv, NEW m, Fresh(m), UNCHANGED <<store, remote>>,
           EnrollAlone'
    PROVE  InSync' /\ AnswerFits' /\ EnrollAlone'
  BY NoneAssumption DEF ManagedInv, TypeOK, Fresh, InSync, AnswerFits, Ending, Rotating

\* A step of the daemon that only moves on.
LEMMA GotoManaged ==
    ASSUME ManagedInv, NEW m, Goto(m), UNCHANGED <<store, held, remote, cli>>,
           ~Rotating, mode # "down", ~Ending
    PROVE  InSync' /\ AnswerFits' /\ EnrollAlone'
  BY NoneAssumption DEF ManagedInv, Goto, InSync, AnswerFits, EnrollAlone, Ending, Rotating,
     Rotatable, remote

LEMMA HealthStep ==
    ASSUME Managed, ManagedInv, [Next]_vars
    PROVE  fault' = "none" /\ installed'
<1> USE DEF world
<1>a. fault = "none" /\ installed
    BY DEF ManagedInv
<1>1. CASE Daemon
    BY <1>1, <1>a
    DEF Daemon, Boot, RunEnds, BearerHeld, BearerLoad, Dial, RotateAnswered, Saved,
        RotateRefused, Cleared, RotateUnreachable, Redial
<1>2. CASE Cli
    BY <1>2, <1>a DEF Cli, CliStop, CliClear, Cleared, CliObtain, Saved, CliGrant, CliRestart
<1>3. CASE Human
    BY <1>3, <1>a
    DEF Human, HumanRuns, HumanRepairs, CliLoad, CliToldToDelete, Cleared, CliFails
<1>4. CASE Environment
    BY <1>4, <1>a
    DEF Environment, Managed, Revoke, Expire, Reject, ConnLost, Crash, ServerChanges,
        ClockChanges, Mount, FaultAppears, TransientClears
<1>5. CASE UnitRestarts \/ ServerRefresh \/ ServerDropsRevoked \/ UNCHANGED vars
    BY <1>5, <1>a DEF UnitRestarts, ServerRefresh, ServerDropsRevoked, vars
<1> QED
    BY <1>1, <1>2, <1>3, <1>4, <1>5 DEF Next

LEMMA SyncStep ==
    ASSUME Managed, ManagedInv, [Next]_vars
    PROVE  InSync' /\ AnswerFits' /\ EnrollAlone'
<1> USE NoneAssumption
<1> USE DEF process, remote, world
<1>a. TypeOK /\ TypeOK'
    BY TypeStep DEF ManagedInv
<1>b. fault = "none" /\ installed /\ InSync /\ AnswerFits /\ EnrollAlone
    BY DEF ManagedInv
<1>1. CASE Boot
    <2>1. CASE mode' = "bearer"
        BY <1>1, <2>1, GotoManaged DEF Boot, Exit, Fresh, Goto, Rotating, Ending
    <2>2. CASE mode' = "down"
        BY <1>1, <2>2, <1>b, FreshManaged DEF Boot, Exit, Fresh, EnrollAlone
    <2> QED
        BY <1>1, <2>1, <2>2 DEF Boot, Exit, Fresh
<1>2. CASE RunEnds
    BY <1>2, <1>b, FreshManaged DEF RunEnds, Exit, Fresh, EnrollAlone
<1>3. CASE BearerHeld
    BY <1>3, GotoManaged DEF BearerHeld, Rotating, Ending
<1>4. CASE BearerLoad
    BY <1>4, <1>a, <1>b
    DEF BearerLoad, Goto, Present, LoadFails, InSync, AnswerFits, EnrollAlone, Rotating, Ending
<1>5. CASE Dial
    BY <1>5, <1>a, <1>b
    DEF Dial, Goto, Present, Refresh, InSync, AnswerFits, EnrollAlone, Rotating, Ending
<1>6. CASE RotateAnswered
    BY <1>6, <1>a, <1>b
    DEF RotateAnswered, Saved, RotateOk, InSync, AnswerFits, EnrollAlone, Rotating, Ending
<1>7. CASE RotateRefused
    BY <1>7, <1>a, <1>b
    DEF RotateRefused, Cleared, InSync, AnswerFits, EnrollAlone, Rotating, Ending
<1>8. CASE RotateUnreachable
    BY <1>8, <1>a, <1>b
    DEF RotateUnreachable, Unreachable, InSync, AnswerFits, EnrollAlone, Rotating, Ending
<1>9. CASE Redial
    BY <1>9, GotoManaged DEF Redial, Rotating, Ending
<1>10. CASE UnitRestarts
    BY <1>10, <1>b, FreshManaged DEF UnitRestarts, Fresh, EnrollAlone
<1>11. CASE ServerRefresh
    <2>1. Successor(req).gen = req.gen
        BY <1>11, <1>a DEF ServerRefresh, Successor, TypeOK, Tokens
    <2>2. Successor(req) \in Tokens
        BY <1>11, <1>a, SuccessorType DEF ServerRefresh, TypeOK
    <2> QED
        BY <1>11, <1>a, <1>b, <2>1, <2>2
        DEF ServerRefresh, Rotatable, InSync, AnswerFits, EnrollAlone, Rotating, Ending
<1>12. CASE ServerDropsRevoked
    BY <1>12, GotoManaged DEF ServerDropsRevoked, Rotating, Ending
<1>13. CASE CliStop
    <2>1. Fresh("down") /\ unit' # "restarting"
        BY <1>13, <1>b DEF CliStop, StopIfActive, SystemctlResults, Managed
    <2> QED
        BY <1>13, <1>b, <2>1, FreshManaged DEF CliStop, Fresh, EnrollAlone
<1>14. CASE CliClear
    BY <1>14, <1>a, <1>b
    DEF CliClear, Cleared, InSync, AnswerFits, EnrollAlone, Rotating, Ending
<1>15. CASE CliObtain
    BY <1>15, <1>a, <1>b
    DEF CliObtain, InSync, AnswerFits, EnrollAlone, Rotating, Ending, Rotatable
<1>16. CASE CliGrant
    BY <1>16, <1>a, <1>b
    DEF CliGrant, Saved, InSync, AnswerFits, EnrollAlone, Rotating, Ending
<1>17. CASE CliRestart
    <2>1. Fresh("boot")
        BY <1>17, <1>b DEF CliRestart, RestartIfInstalled, SystemctlResults, Managed
    <2> QED
        BY <1>17, <1>b, <2>1, FreshManaged DEF CliRestart, EnrollAlone
<1>18. CASE HumanRuns \/ HumanRepairs \/ CliToldToDelete \/ FaultAppears \/ TransientClears
    BY <1>18, <1>b
    DEF HumanRuns, HumanRepairs, CliToldToDelete, LoadFails, FaultAppears, TransientClears, Managed
<1>19. CASE CliLoad \/ CliFails \/ Expire \/ Reject \/ ServerChanges \/ ClockChanges \/ Mount
    BY <1>19, <1>a, <1>b
    DEF CliLoad, CliFails, Expire, Reject, ServerChanges, ClockChanges, Mount,
        InSync, AnswerFits, EnrollAlone, Rotating, Ending, Rotatable
<1>20. CASE Revoke
    BY <1>20, <1>a, <1>b DEF Revoke, InSync, AnswerFits, EnrollAlone, Rotating, Ending, Rotatable
<1>21. CASE ConnLost
    BY <1>21, GotoManaged DEF ConnLost, Rotating, Ending
<1>22. CASE Crash
    BY <1>22, <1>b, FreshManaged DEF Crash, Exit, Fresh, EnrollAlone
<1>23. CASE UNCHANGED vars
    BY <1>23, <1>b DEF vars, InSync, AnswerFits, EnrollAlone, Rotating, Ending, Rotatable
<1> QED
    BY <1>1, <1>2, <1>3, <1>4, <1>5, <1>6, <1>7, <1>8, <1>9, <1>10, <1>11, <1>12, <1>13,
       <1>14, <1>15, <1>16, <1>17, <1>18, <1>19, <1>20, <1>21, <1>22, <1>23
    DEF Next, Daemon, Cli, Human, Environment

LEMMA ManagedStep == ASSUME Managed, ManagedInv, [Next]_vars PROVE ManagedInv'
  BY TypeStep, HealthStep, SyncStep DEF ManagedInv

LEMMA ManagedAlways == ASSUME Managed PROVE Spec => []ManagedInv
<1>1. Init => ManagedInv
    BY ManagedInit
<1>2. ManagedInv /\ [Next]_vars => ManagedInv'
    BY ManagedStep
<1> QED
    BY <1>1, <1>2, PTL DEF Spec

\* While `enroll` works past its stop, no daemon presents the refresh token of an older
\* enrollment: enroll.rs:55, for a daemon that runs as the unit.
THEOREM OldTokenStaysHome == ASSUME Managed PROVE Spec => []OldTokenNotPresented
<1>1. ManagedInv => OldTokenNotPresented
    BY DEF ManagedInv, InSync, OldTokenNotPresented
<1> QED
    BY <1>1, ManagedAlways, PTL

\* Only `enroll` takes away a credential the server would still rotate (credentials.rs:73).
THEOREM CredentialKept == ASSUME Managed PROVE Spec => CredentialNotLost
<1> DEFINE Kept ==
        cli' = cli /\ store # None /\ Rotatable(store) /\ store' # store
            => store' # None /\ store'.gen = store.gen
<1>1. ASSUME ManagedInv, [Next]_vars PROVE Kept
    <2> SUFFICES ASSUME cli' = cli, store # None, Rotatable(store), store' # store
                 PROVE  store' # None /\ store'.gen = store.gen
        OBVIOUS
    <2>1. CASE RotateAnswered
        BY <1>1, <2>1, NoneAssumption
        DEF ManagedInv, TypeOK, InSync, AnswerFits, RotateAnswered, Saved
    <2>2. CASE RotateRefused
        BY <1>1, <2>2, NoneAssumption DEF ManagedInv, InSync, AnswerFits, RotateRefused
    <2>3. store' = store \/ RotateAnswered \/ RotateRefused \/ Cli \/ Human
        BY <1>1
        DEF Next, Daemon, Environment, vars, Boot, RunEnds, BearerHeld, BearerLoad, Dial,
            RotateUnreachable, Unreachable, Redial, UnitRestarts, ServerRefresh,
            ServerDropsRevoked, Revoke, Expire, Reject, ConnLost, Crash, ServerChanges,
            ClockChanges, Mount, FaultAppears, TransientClears
    <2>4. CASE Cli
        BY <2>4 DEF Cli, CliStop, CliClear, CliObtain, CliGrant, CliRestart
    <2>5. CASE Human
        BY <2>5 DEF Human, HumanRuns, HumanRepairs, CliLoad, CliToldToDelete, CliFails
    <2> QED
        BY <2>1, <2>2, <2>3, <2>4, <2>5
<1>2. ManagedInv /\ [Next]_vars => [Kept]_vars
    BY <1>1
<1> QED
    BY <1>2, ManagedAlways, PTL DEF Spec, CredentialNotLost

-----------------------------------------------------------------------------
(* A parked unit has something only a human can clear, whatever goes wrong *)
(* with the files, the server, the clock and the process.                  *)

\* No token is ahead of the server, and once the server's last token of an enrollment
\* reached its lifetime nobody is left with an older one.
NotAhead(t) == t # None => t.rot <= cur[t.gen]
LastIfExpired(t) == t # None /\ expired[t.gen] = cur[t.gen] + 1 => t.rot = cur[t.gen]

ProcessFits ==
    /\ mode \in {"down", "boot"} => held = None
    /\ gaveUp => Ending
    /\ req # None => Rotating
    /\ reply # None => req # None
    /\ unit = "failed" => mode = "down"

ServerFits ==
    \A g \in 1..MaxGen :
        /\ expired[g] <= cur[g] + 1
        /\ g > gens => cur[g] = 0 /\ expired[g] = 0

FileFits ==
    /\ NotAhead(store) /\ NotAhead(held)
    /\ LastIfExpired(store)
    /\ store # None /\ held # None /\ held.gen = store.gen => held.rot <= store.rot

\* An answer is the server's last token, and still good, unless `enroll` got another since.
ReplyFits ==
    reply \in Tokens =>
        /\ reply.gen = req.gen
        /\ reply.rot = cur[reply.gen]
        /\ req.rot = cur[req.gen] => req.rot = MaxRot
        /\ cli # "restart" => expired[reply.gen] <= reply.rot

\* The file may be gone, or `enroll` have a newer one and be about to restart the unit;
\* apart from that file, memory and request name one credential.
OneCredential ==
    cli # "restart" =>
        /\ held # None /\ store # None => held = store \/ Ending
        /\ held # None /\ req # None => held = req
        /\ req # None /\ store # None => req = store
        /\ LastIfExpired(req)
        /\ LastIfExpired(held) \/ Ending

\* What only a human clears, once the unit is parked or on its way there.
NeedsAHuman ==
    \/ ~(store # None /\ Rotatable(store))
    \/ fault \in HumanFaults
    \/ clock # "ok"
    \/ cli = "restart"
WillPark == mode = "needs_operator" \/ (mode = "refused" /\ gaveUp)
Excused == unit = "failed" \/ WillPark => NeedsAHuman

Fits == ProcessFits /\ ServerFits /\ FileFits /\ ReplyFits /\ OneCredential /\ Excused

ParkInv == TypeOK /\ IF installed THEN Fits ELSE unit # "failed"

LEMMA ParkInit == Init => ParkInv
<1> SUFFICES ASSUME Init PROVE ParkInv
    OBVIOUS
<1>1. TypeOK
    BY TypeInit
<1>2. \A g \in 1..MaxGen : cur[g] = 0 /\ expired[g] = 0
    BY DEF Init
<1>3. ProcessFits /\ ServerFits
    BY <1>2, NoneAssumption DEF Init, ProcessFits, ServerFits
<1>4. FileFits /\ ReplyFits /\ OneCredential /\ Excused
    BY NoneAssumption
    DEF Init, FileFits, NotAhead, LastIfExpired, ReplyFits, OneCredential, Excused, NeedsAHuman
<1>5. ~installed => unit # "failed"
    BY DEF Init
<1> QED
    BY <1>1, <1>3, <1>4, <1>5 DEF ParkInv, Fits

\* A process that starts afresh, or is gone: only the file is left to fit.
LEMMA FreshFits ==
    ASSUME TypeOK, Fits, NEW m \in {"down", "boot"}, Fresh(m), UNCHANGED <<store, remote>>,
           unit' = "failed" => m = "down" /\ NeedsAHuman'
    PROVE  Fits'
<1> USE NoneAssumption DEF Fits, Fresh, remote
<1>1. ProcessFits' /\ Excused'
    BY DEF ProcessFits, Excused, WillPark
<1>2. ServerFits' /\ FileFits'
    BY DEF ServerFits, FileFits, NotAhead, LastIfExpired
<1>3. ReplyFits' /\ OneCredential'
    BY DEF ReplyFits, OneCredential, LastIfExpired
<1> QED
    BY <1>1, <1>2, <1>3

\* Steps in which the process moves on with the credential it has, or drops its request.
LEMMA MoveFits ==
    ASSUME TypeOK, Fits, UNCHANGED <<store, fault, held, gaveUp, unit, clock, cli, remote>>,
           ~Ending, mode # "down", mode' \notin {"down", "boot"},
           req' = None, reply' = None,
           mode' = "needs_operator" => NeedsAHuman
    PROVE  Fits'
<1> USE NoneAssumption DEF Fits, remote
<1>1. ProcessFits' /\ Excused'
    BY DEF ProcessFits, Excused, WillPark, NeedsAHuman, Rotatable
<1>2. ServerFits' /\ FileFits'
    BY DEF ServerFits, FileFits, NotAhead, LastIfExpired
<1>3. ReplyFits' /\ OneCredential'
    BY DEF ReplyFits, OneCredential, LastIfExpired
<1> QED
    BY <1>1, <1>2, <1>3

LEMMA BootFits == ASSUME TypeOK, Fits, Boot PROVE Fits'
<1> USE DEF Boot
<1>1. CASE Exit(2) \/ Exit(1)
    <2>1. Fresh("down") /\ (unit' = "failed" => fault \in HumanFaults)
        BY <1>1 DEF Exit, Fresh, AfterExit, HumanFaults, FaultKinds
    <2> QED
        BY <2>1, FreshFits DEF NeedsAHuman
<1>2. CASE mode' = "bearer" /\ UNCHANGED <<held, gaveUp, refreshed, req, reply, unit>>
    <2>1. req = None /\ reply = None /\ ~Ending
        BY NoneAssumption DEF Fits, ProcessFits, Rotating, Ending
    <2> QED
        BY <1>2, <2>1, MoveFits DEF world
<1> QED
    BY <1>1, <1>2

LEMMA RunEndsFits == ASSUME TypeOK, Fits, RunEnds PROVE Fits'
<1>1. Fresh("down")
    BY DEF RunEnds, Exit
<1>2. unit' = "failed" => WillPark
    BY DEF RunEnds, Exit, AfterExit, ClassifyRefused, WillPark
<1>3. NeedsAHuman => NeedsAHuman'
    BY DEF RunEnds, NeedsAHuman, Rotatable, remote, world
<1> QED
    BY <1>1, <1>2, <1>3, FreshFits DEF RunEnds, Fits, Excused

LEMMA BearerFits == ASSUME TypeOK, Fits, BearerHeld \/ BearerLoad PROVE Fits'
<1> USE NoneAssumption
<1>1. /\ mode = "bearer" /\ req = None /\ reply = None
      /\ UNCHANGED <<store, fault, clock, cli, remote>>
    BY DEF Fits, ProcessFits, Rotating, BearerHeld, BearerLoad, world
<1>2. CASE Goto("dial") /\ UNCHANGED held
    BY <1>1, <1>2, MoveFits DEF Goto, Ending
<1>3. CASE LoadFails /\ Goto(StoreError(fault)) /\ UNCHANGED held
    <2>1. mode' = "needs_operator" => NeedsAHuman
        BY <1>3 DEF Goto, StoreError, LoadFails, NeedsAHuman, HumanFaults, FaultKinds
    <2> QED
        BY <1>1, <1>3, <2>1, MoveFits DEF Goto, StoreError, Ending
<1>4. CASE store = None /\ Goto("needs_operator") /\ UNCHANGED held
    BY <1>1, <1>4, MoveFits DEF Goto, NeedsAHuman, Ending
<1>5. CASE store # None /\ held' = store /\ Goto("dial")
    <2> USE <1>1, <1>5 DEF Fits, Goto
    <2>1. ProcessFits' /\ Excused'
        BY DEF ProcessFits, Excused, Ending, WillPark
    <2>2. ServerFits' /\ FileFits'
        <3>1. store.rot <= store.rot
            BY DEF TypeOK, Tokens
        <3> QED
            BY <3>1 DEF ServerFits, FileFits, NotAhead, LastIfExpired, remote
    <2>3. ReplyFits' /\ OneCredential'
        BY DEF ReplyFits, OneCredential, FileFits, LastIfExpired, remote
    <2> QED
        BY <2>1, <2>2, <2>3
<1>6. CASE /\ store # None /\ Present(store, "bearer_rotate")
           /\ UNCHANGED <<held, gaveUp, refreshed, unit>>
    <2> USE <1>1, <1>6 DEF Fits, Present
    <2>1. ProcessFits' /\ Excused'
        BY DEF ProcessFits, Excused, Rotating, Ending, WillPark
    <2>2. ServerFits' /\ FileFits'
        BY DEF ServerFits, FileFits, NotAhead, LastIfExpired, remote
    <2>3. ReplyFits' /\ OneCredential'
        BY DEF ReplyFits, OneCredential, FileFits, LastIfExpired, remote, Ending
    <2> QED
        BY <2>1, <2>2, <2>3
<1> QED
    BY <1>2, <1>3, <1>4, <1>5, <1>6 DEF BearerHeld, BearerLoad

LEMMA DialFits == ASSUME TypeOK, Fits, Dial PROVE Fits'
<1> USE NoneAssumption
<1>1. /\ mode = "dial" /\ req = None /\ reply = None /\ ~gaveUp
      /\ UNCHANGED <<store, fault, clock, cli, remote>>
    BY DEF Fits, ProcessFits, Rotating, Ending, Dial, world
<1>2. CASE /\ mode' \in {"backoff", "refused", "up"}
           /\ UNCHANGED <<held, gaveUp, req, reply, unit>>
    BY <1>1, <1>2, MoveFits DEF Ending
<1>3. CASE Refresh
    <2> USE <1>1, <1>3 DEF Fits, Refresh, Present
    <2>1. ProcessFits' /\ Excused'
        BY DEF ProcessFits, Excused, Rotating, Ending, WillPark
    <2>2. ServerFits' /\ FileFits'
        BY DEF ServerFits, FileFits, NotAhead, LastIfExpired, remote
    <2>3. ReplyFits' /\ OneCredential'
        BY DEF ReplyFits, OneCredential, LastIfExpired, remote, Ending
    <2> QED
        BY <2>1, <2>2, <2>3
<1> QED
    BY <1>2, <1>3 DEF Dial, Goto

LEMMA OnlyMovesFits ==
    ASSUME TypeOK, Fits, RotateUnreachable \/ Redial \/ ServerDropsRevoked \/ ConnLost
    PROVE  Fits'
<1>1. /\ mode \notin {"down", "boot"} /\ mode' \in {"backoff", "bearer"} /\ ~Ending
      /\ UNCHANGED <<store, fault, held, gaveUp, unit, clock, cli, remote>>
    BY DEF RotateUnreachable, Unreachable, Rotating, Redial, ServerDropsRevoked, ConnLost, Goto,
           Ending, world
<1>2. req' = None /\ reply' = None
    BY NoneAssumption
    DEF Fits, ProcessFits, RotateUnreachable, Rotating, Redial, ServerDropsRevoked, ConnLost, Goto
<1> QED
    BY <1>1, <1>2, MoveFits

\* An answer that is presented as soon as it is there is good, or the clock is wrong.
LEMMA AnsweredFits == ASSUME TypeOK, TypeOK', Fits, RotateAnswered PROVE Fits'
<1> USE NoneAssumption
<1>1. /\ reply \in Tokens /\ req \in Tokens /\ Rotating /\ ~Ending /\ ~gaveUp
      /\ UNCHANGED <<unit, clock, cli, remote>> /\ req' = None /\ reply' = None
    BY DEF RotateAnswered, RotateOk, Fits, ProcessFits, TypeOK, Rotating, Ending, world
<1>2. ReplyFits
    BY DEF Fits
<1>3. CASE /\ fault = "unwritable" /\ mode' = "needs_operator"
           /\ UNCHANGED <<store, fault, held, gaveUp, refreshed>>
    <2>1. NeedsAHuman
        BY <1>3 DEF NeedsAHuman, HumanFaults, FaultKinds
    <2> QED
        BY <1>1, <1>3, <2>1, MoveFits DEF Rotating
<1>4. CASE Saved(reply) /\ RotateOk(reply)
    <2> USE <1>1, <1>4 DEF Fits, Saved, RotateOk
    <2>1. mode' = "needs_operator" => NeedsAHuman'
        BY <1>2 DEF Unexpired, NeedsAHuman, ReplyFits, Rotating, TypeOK, Tokens, remote
    <2>2. ProcessFits' /\ Excused'
        BY <2>1 DEF ProcessFits, Excused, Rotating, Ending, WillPark
    <2>3. store' = reply /\ held' \in {held, reply} /\ (held' = reply \/ mode' = "needs_operator")
        OBVIOUS
    <2>4. reply.rot = cur[reply.gen] /\ reply.rot \in Nat
        BY <1>2 DEF ReplyFits, Tokens
    <2>5. NotAhead(store)' /\ NotAhead(held)' /\ LastIfExpired(store)'
        BY <2>3, <2>4 DEF FileFits, NotAhead, LastIfExpired, remote
    <2>6. ServerFits' /\ FileFits'
        BY <2>3, <2>4, <2>5 DEF ServerFits, FileFits, NotAhead, remote
    <2>7. ReplyFits' /\ OneCredential'
        BY <2>3, <2>4 DEF ReplyFits, OneCredential, LastIfExpired, Ending, remote
    <2> QED
        BY <2>2, <2>6, <2>7
<1> QED
    BY <1>3, <1>4 DEF RotateAnswered

\* Without a file there is nothing to fit, and nothing to park for but a human.
LEMMA ClearedFits ==
    ASSUME TypeOK, Fits, store' = None, UNCHANGED <<unit, clock, remote>>,
           \/ UNCHANGED process
           \/ Ending' /\ UNCHANGED held /\ req' = None /\ reply' = None /\ mode # "down",
           cli # "restart" \/ cli' = cli
    PROVE  Fits'
<1> USE NoneAssumption DEF Fits, remote, process
<1>1. ProcessFits' /\ Excused'
    BY DEF ProcessFits, Excused, NeedsAHuman, Ending, Rotating
<1>2. ServerFits' /\ FileFits'
    BY DEF ServerFits, FileFits, NotAhead, LastIfExpired
<1>3. ReplyFits' /\ OneCredential'
    BY DEF ReplyFits, OneCredential, LastIfExpired, Ending
<1> QED
    BY <1>1, <1>2, <1>3

LEMMA RefusedFits == ASSUME TypeOK, Fits, RotateRefused PROVE Fits'
<1>1. Ending' /\ mode # "down"
    BY DEF RotateRefused, Rotating, Ending
<1> QED
    BY <1>1, ClearedFits DEF RotateRefused, Cleared, world

\* The server moves on from a credential it rotates: the old token is not the last one any more.
LEMMA SuccessorAdvances ==
    ASSUME TypeOK, Fits, NEW t \in Tokens, Rotatable(t)
    PROVE  LET next == Successor(t)
           IN /\ next \in Tokens /\ next.gen = t.gen /\ next.rot \in Nat
              /\ t.rot <= next.rot /\ cur[t.gen] <= next.rot
              /\ next.rot # cur[t.gen] => expired[t.gen] <= next.rot
              /\ t.rot = next.rot => t.rot = MaxRot
              /\ t.rot = cur[t.gen] /\ next.rot = cur[t.gen] => t.rot = MaxRot
              /\ LastIfExpired(t) => expired[t.gen] <= next.rot
<1> DEFINE next == Successor(t)
<1>1. /\ t.gen \in 1..MaxGen /\ t.rot \in 0..MaxRot /\ cur[t.gen] \in 0..MaxRot
      /\ expired[t.gen] \in 0..MaxRot /\ expired[t.gen] <= cur[t.gen] + 1
    BY DEF TypeOK, Tokens, Fits, ServerFits
<1>2. next \in Tokens
    BY SuccessorType
<1>3. /\ next.gen = t.gen
      /\ next.rot = IF t.rot = cur[t.gen] /\ t.rot < MaxRot THEN t.rot + 1 ELSE cur[t.gen]
    BY DEF Successor, Tokens
<1>4. t.rot = cur[t.gen] \/ t.rot + 1 = cur[t.gen]
    BY DEF Rotatable
<1>5. t # None
    BY NoneAssumption
<1> QED
    BY <1>1, <1>2, <1>3, <1>4, <1>5, BoundsAssumption DEF LastIfExpired

\* What fits still does after the server moved on to t's successor.
LEMMA AdvanceKeeps ==
    ASSUME TypeOK, Fits, NEW t \in Tokens, Rotatable(t),
           cur' = [cur EXCEPT ![t.gen] = Successor(t).rot], UNCHANGED <<gens, expired>>,
           NEW u \in Tokens \cup {None}
    PROVE  /\ ServerFits'
           /\ u # None => cur'[u.gen] \in Nat /\ cur[u.gen] <= cur'[u.gen]
           /\ u # None /\ u.rot <= cur[u.gen] => u.rot <= cur'[u.gen]
           /\ LastIfExpired(u) =>
                (u # None /\ expired[u.gen] = cur'[u.gen] + 1 => u.rot = cur'[u.gen])
<1>1. t.gen \in 1..MaxGen /\ t.gen \in granted /\ t.gen <= gens
    BY DEF TypeOK, Tokens, Rotatable
<1>2. \A g \in 1..MaxGen : /\ cur'[g] = IF g = t.gen THEN Successor(t).rot ELSE cur[g]
                           /\ cur[g] \in Nat /\ expired[g] \in Nat
    BY DEF TypeOK
<1>3. /\ Successor(t).rot \in Nat /\ cur[t.gen] <= Successor(t).rot
      /\ Successor(t).rot # cur[t.gen] => expired[t.gen] <= Successor(t).rot
    BY SuccessorAdvances
<1>4. \A g \in 1..MaxGen : expired[g] <= cur[g] + 1 /\ (g > gens => cur[g] = 0 /\ expired[g] = 0)
    BY DEF Fits, ServerFits
<1>5. \A g \in 1..MaxGen : expired[g] <= cur'[g] + 1 /\ (g > gens => cur'[g] = 0 /\ expired[g] = 0)
    <2> TAKE g \in 1..MaxGen
    <2>1. CASE g = t.gen
        BY <2>1, <1>1, <1>2, <1>3, <1>4 DEF TypeOK
    <2>2. CASE g # t.gen
        BY <2>2, <1>2, <1>4
    <2> QED
        BY <2>1, <2>2
<1>6. ServerFits'
    BY <1>5 DEF ServerFits
<1>7. u # None => u.gen \in 1..MaxGen /\ u.rot \in Nat
    BY DEF Tokens
<1> QED
    BY <1>2, <1>3, <1>4, <1>6, <1>7 DEF LastIfExpired

LEMMA RefreshFits == ASSUME TypeOK, Fits, ServerRefresh PROVE Fits'
<1> USE NoneAssumption
<1>1. /\ req \in Tokens /\ reply = None /\ Rotating /\ ~Ending /\ ~gaveUp /\ unit # "failed"
      /\ UNCHANGED <<store, fault, held, gaveUp, mode, unit, req, clock, cli>>
      /\ UNCHANGED <<gens, granted, expired>>
    BY DEF ServerRefresh, Fits, ProcessFits, TypeOK, Rotating, Ending, world
<1>2. ProcessFits' /\ Excused'
    BY <1>1, NoneAssumption DEF Fits, ProcessFits, Excused, WillPark, Rotating, Ending
<1>3. CASE reply' = Refused /\ UNCHANGED cur
    <2>1. ServerFits' /\ FileFits' /\ OneCredential'
        BY <1>1, <1>3 DEF Fits, ServerFits, FileFits, NotAhead, OneCredential, LastIfExpired, Ending
    <2>2. ReplyFits'
        BY <1>3 DEF ReplyFits
    <2> QED
        BY <1>2, <2>1, <2>2 DEF Fits
<1>4. CASE /\ Rotatable(req) /\ reply' = Successor(req)
           /\ cur' = [cur EXCEPT ![req.gen] = Successor(req).rot]
    <2>1. \A u \in Tokens \cup {None} :
             /\ ServerFits'
             /\ u # None => cur'[u.gen] \in Nat /\ cur[u.gen] <= cur'[u.gen]
             /\ u # None /\ u.rot <= cur[u.gen] => u.rot <= cur'[u.gen]
             /\ LastIfExpired(u) =>
                  (u # None /\ expired[u.gen] = cur'[u.gen] + 1 => u.rot = cur'[u.gen])
        BY <1>1, <1>4, AdvanceKeeps
    <2>2. store \in Tokens \cup {None} /\ held \in Tokens \cup {None}
        BY DEF TypeOK
    <2>3. ServerFits'
        BY <2>1
    <2>4. FileFits'
        BY <1>1, <2>1, <2>2 DEF Fits, FileFits, NotAhead, LastIfExpired
    <2>5. OneCredential'
        BY <1>1, <2>1, <2>2 DEF Fits, OneCredential, LastIfExpired, Ending
    <2>6. cur'[req.gen] = Successor(req).rot
        BY <1>1, <1>4 DEF TypeOK, Tokens
    <2>7. ReplyFits'
        BY <1>1, <1>4, <2>6, SuccessorAdvances DEF Fits, ReplyFits, OneCredential
    <2> QED
        BY <1>2, <2>3, <2>4, <2>5, <2>7 DEF Fits
<1> QED
    BY <1>3, <1>4 DEF ServerRefresh

\* `enroll` alone, up to the file it saves.
LEMMA EnrollFits ==
    ASSUME TypeOK, Fits, CliLoad \/ CliToldToDelete \/ CliClear \/ CliFails PROVE Fits'
<1>1. CASE CliToldToDelete \/ (CliClear /\ Cleared)
    BY <1>1, ClearedFits DEF CliToldToDelete, CliClear, Cleared, world
<1>2. CASE CliLoad \/ CliFails \/ (CliClear /\ ~Cleared)
    <2>1. /\ cli # "restart" /\ cli' # "restart"
          /\ UNCHANGED <<store, fault, process, unit, remote, clock>>
        BY <1>2 DEF CliLoad, CliFails, CliClear, world
    <2> USE DEF process, remote
    <2>2. ProcessFits' /\ Excused'
        BY <2>1 DEF Fits, ProcessFits, Excused, WillPark, NeedsAHuman, Rotatable, Rotating, Ending
    <2>3. ServerFits' /\ FileFits'
        BY <2>1 DEF Fits, ServerFits, FileFits, NotAhead, LastIfExpired
    <2>4. ReplyFits' /\ OneCredential'
        BY <2>1 DEF Fits, ReplyFits, OneCredential, LastIfExpired, Ending
    <2> QED
        BY <2>2, <2>3, <2>4 DEF Fits
<1> QED
    BY <1>1, <1>2

\* What enroll saves, or finds good, is restarted into: only the file and the server count.
LEMMA RestartingFits ==
    ASSUME TypeOK, Fits, cli' = "restart", UNCHANGED <<process, unit, expired>>,
           ServerFits', FileFits', ReplyFits'
    PROVE  Fits'
  BY DEF Fits, ProcessFits, OneCredential, Excused, NeedsAHuman, WillPark, Rotating, Ending, process

LEMMA GrantFits == ASSUME TypeOK, TypeOK', Fits, CliGrant PROVE Fits'
<1> USE NoneAssumption
<1>1. /\ cli' = "restart" /\ UNCHANGED <<process, unit, cur, expired>>
      /\ store' = [gen |-> gens + 1, rot |-> 0] /\ gens' = gens + 1 /\ gens + 1 \in 1..MaxGen
    BY DEF CliGrant, Saved, TypeOK, Tokens
<1>2. cur[gens + 1] = 0 /\ expired[gens + 1] = 0
    BY <1>1 DEF Fits, ServerFits, TypeOK
<1>3. ServerFits'
    BY <1>1 DEF Fits, ServerFits, TypeOK
<1>4. FileFits'
    BY <1>1, <1>2 DEF Fits, FileFits, NotAhead, LastIfExpired, process
<1>5. ReplyFits'
    BY <1>1 DEF Fits, ReplyFits, process
<1> QED
    BY <1>1, <1>3, <1>4, <1>5, RestartingFits

LEMMA ObtainFits == ASSUME TypeOK, TypeOK', Fits, CliObtain PROVE Fits'
<1> USE NoneAssumption
<1>1. cli = "obtain" /\ UNCHANGED <<process, unit, gens, granted, expired, clock>>
    BY DEF CliObtain, world
<1>2. CASE Unexpired(store) /\ cli' = "restart" /\ UNCHANGED <<store, cur>>
    <2>1. ServerFits' /\ FileFits' /\ ReplyFits'
        BY <1>1, <1>2 DEF Fits, ServerFits, FileFits, NotAhead, LastIfExpired, ReplyFits, process
    <2> QED
        BY <1>1, <1>2, <2>1, RestartingFits
<1>3. ASSUME store # None, Rotatable(store), cur' = [cur EXCEPT ![store.gen] = Successor(store).rot]
      PROVE  ServerFits' /\ ReplyFits'
    <2>1. store \in Tokens /\ held \in Tokens \cup {None} /\ req \in Tokens \cup {None}
        BY <1>3 DEF TypeOK
    <2>2. ServerFits'
        BY <1>1, <1>3, <2>1, AdvanceKeeps
    <2>3. cur' = [cur EXCEPT ![store.gen] = Successor(store).rot] /\ store.gen \in 1..MaxGen
        BY <1>3, <2>1 DEF Tokens
    <2>4. ASSUME reply \in Tokens
          PROVE  cur'[reply.gen] = cur[reply.gen] /\ cur'[req.gen] = cur[req.gen]
        <3>1. req # None /\ req = store /\ reply.gen = req.gen
              /\ (req.rot = cur[req.gen] => req.rot = MaxRot)
            BY <1>1, <1>3, <2>4 DEF Fits, ProcessFits, OneCredential, ReplyFits
        <3>2. Successor(store).rot = cur[store.gen]
            BY <3>1, <2>1 DEF Successor, Tokens, TypeOK
        <3> QED
            BY <2>3, <3>1, <3>2 DEF TypeOK
    <2>5. ReplyFits'
        BY <1>1, <2>4 DEF Fits, ReplyFits, process
    <2> QED
        BY <2>2, <2>5
<1>4. CASE /\ store # None /\ Rotatable(store) /\ cli' = "restart"
           /\ cur' = [cur EXCEPT ![store.gen] = Successor(store).rot]
           /\ store' = Successor(store)
    <2>1. store \in Tokens /\ held \in Tokens \cup {None}
        BY <1>4 DEF TypeOK
    <2>2. /\ store' \in Tokens /\ store'.gen = store.gen /\ store'.rot \in Nat
          /\ store.rot <= store'.rot
        BY <1>4, <2>1, SuccessorAdvances
    <2>3. cur'[store'.gen] = store'.rot
        BY <1>4, <2>1, <2>2 DEF TypeOK, Tokens
    <2>4. held # None /\ held.rot <= cur[held.gen] => held.rot <= cur'[held.gen]
        BY <1>1, <1>4, <2>1, AdvanceKeeps
    <2>5. NotAhead(store)' /\ NotAhead(held)' /\ LastIfExpired(store)'
        BY <1>1, <2>2, <2>3, <2>4 DEF Fits, FileFits, NotAhead, LastIfExpired, process
    <2>6. store' # None /\ held' # None /\ held'.gen = store'.gen => held'.rot <= store'.rot
        BY <1>1, <1>4, <2>1, <2>2, <2>3, <2>5 DEF NotAhead
    <2>7. FileFits'
        BY <2>5, <2>6 DEF FileFits
    <2> QED
        BY <1>1, <1>3, <1>4, <2>7, RestartingFits
<1>5. CASE /\ store # None /\ Rotatable(store) /\ cli' = "idle"
           /\ cur' = [cur EXCEPT ![store.gen] = Successor(store).rot]
           /\ fault = "unwritable" /\ UNCHANGED <<store, fault>>
    <2>1. store \in Tokens /\ held \in Tokens \cup {None} /\ req \in Tokens \cup {None}
        BY <1>5 DEF TypeOK
    <2>2. \A u \in Tokens \cup {None} :
             /\ u # None => cur'[u.gen] \in Nat /\ cur[u.gen] <= cur'[u.gen]
             /\ u # None /\ u.rot <= cur[u.gen] => u.rot <= cur'[u.gen]
             /\ LastIfExpired(u) =>
                  (u # None /\ expired[u.gen] = cur'[u.gen] + 1 => u.rot = cur'[u.gen])
        BY <1>1, <1>5, <2>1, AdvanceKeeps
    <2>3. ProcessFits' /\ Excused'
        BY <1>1, <1>5
        DEF Fits, ProcessFits, Excused, NeedsAHuman, HumanFaults, FaultKinds, Rotating, Ending, process
    <2>4. FileFits'
        BY <1>1, <1>5, <2>1, <2>2 DEF Fits, FileFits, NotAhead, LastIfExpired, process
    <2>5. OneCredential'
        BY <1>1, <1>5, <2>1, <2>2 DEF Fits, OneCredential, LastIfExpired, Ending, process
    <2> QED
        BY <1>3, <1>5, <2>3, <2>4, <2>5 DEF Fits
<1>6. CASE cli' = "grant" /\ store' = None /\ UNCHANGED cur
    BY <1>1, <1>6, ClearedFits DEF CliObtain, remote
<1> QED
    BY <1>2, <1>3, <1>4, <1>5, <1>6 DEF CliObtain, Saved, Cleared

\* Time and the server: what one of them does not take any more.
LEMMA ExpireFits == ASSUME TypeOK, TypeOK', Fits, Expire PROVE Fits'
<1> USE NoneAssumption
<1>1. PICK g \in granted : /\ Known(g) /\ cur[g] < MaxRot /\ expired[g] <= cur[g]
                           /\ expired' = [expired EXCEPT ![g] = cur[g] + 1]
    BY DEF Expire
<1>2. UNCHANGED <<store, fault, process, unit, gens, granted, cur, clock, cli>>
    BY DEF Expire, world
<1>3. /\ g \in 1..MaxGen /\ g <= gens /\ gens \in Nat
      /\ \A h \in 1..MaxGen : /\ expired'[h] = IF h = g THEN cur[g] + 1 ELSE expired[h]
                              /\ cur[h] \in 0..MaxRot /\ cur[h] \in Nat /\ expired[h] \in Nat
    <2>1. gens \in Nat /\ g \in 1..gens /\ gens <= MaxGen
        BY BoundsAssumption DEF TypeOK
    <2>2. g \in 1..MaxGen /\ g <= gens
        BY <2>1, BoundsAssumption
    <2>3. \A h \in 1..MaxGen : cur[h] \in 0..MaxRot /\ expired[h] \in 0..MaxRot
        BY DEF TypeOK
    <2>4. \A h \in 1..MaxGen : expired'[h] = IF h = g THEN cur[g] + 1 ELSE expired[h]
        BY <1>1 DEF TypeOK
    <2> QED
        BY <2>1, <2>2, <2>3, <2>4, BoundsAssumption
<1>4. /\ store \in Tokens \cup {None} /\ held \in Tokens \cup {None}
      /\ req \in Tokens \cup {None} /\ reply \in Tokens \cup {None, Refused}
      /\ \A t \in Tokens : t.gen \in 1..MaxGen /\ t.rot \in Nat
    <2>1. \A t \in Tokens : t.gen \in 1..MaxGen /\ t.rot \in 0..MaxRot
        BY DEF Tokens
    <2> QED
        BY <2>1, BoundsAssumption DEF TypeOK
<1> USE DEF process
<1>5. \/ store # None /\ store.gen = g /\ store.rot = cur[g]
      \/ held # None /\ held.gen = g /\ held.rot = cur[g]
    <2> DEFINE last == [gen |-> g, rot |-> cur[g]]
    <2>1. last \in Tokens /\ last.gen = g /\ last.rot = cur[g]
        BY <1>3 DEF Tokens
    <2>2. store = last \/ held = last
        BY <1>1 DEF Known
    <2> HIDE DEF last
    <2> QED
        BY <2>1, <2>2
<1>6. ProcessFits' /\ Excused'
    BY <1>2 DEF Fits, ProcessFits, Excused, WillPark, NeedsAHuman, Rotatable, Rotating, Ending
<1>7. ServerFits'
    <2>1. \A h \in 1..MaxGen : expired'[h] <= cur[h] + 1
        BY <1>3 DEF Fits, ServerFits
    <2>2. \A h \in 1..MaxGen : h > gens => cur[h] = 0 /\ expired'[h] = 0
        BY <1>3 DEF Fits, ServerFits
    <2> QED
        BY <1>2, <2>1, <2>2 DEF ServerFits
<1>8. FileFits'
    <2>1. store # None /\ store.gen = g => store.rot = cur[g]
        BY <1>3, <1>4, <1>5 DEF Fits, FileFits, NotAhead
    <2>2. LastIfExpired(store)'
        BY <1>2, <1>3, <1>4, <2>1 DEF Fits, FileFits, LastIfExpired
    <2> QED
        BY <1>2, <2>2 DEF Fits, FileFits, NotAhead
<1>9. ReplyFits'
    <2>1. ASSUME reply \in Tokens, cli # "restart" PROVE reply.gen # g
        <3>1. req # None /\ reply.gen = req.gen /\ reply.rot = cur[reply.gen]
              /\ (req.rot = cur[req.gen] => req.rot = MaxRot)
            BY <2>1 DEF Fits, ProcessFits, ReplyFits
        <3>2. (store # None => store = req) /\ (held # None => held = req)
            BY <2>1, <3>1 DEF Fits, OneCredential
        <3> QED
            BY <1>1, <1>3, <1>5, <3>1, <3>2, BoundsAssumption
    <2> QED
        BY <1>2, <1>3, <1>4, <2>1 DEF Fits, ReplyFits
<1>10. OneCredential'
    <2> SUFFICES ASSUME cli # "restart" PROVE OneCredential'
        BY <1>2 DEF OneCredential
    <2>1. req # None /\ req.gen = g => req.rot = cur[g]
        BY <1>5 DEF Fits, OneCredential
    <2>2. held # None /\ held.gen = g => held.rot = cur[g] \/ Ending
        BY <1>5 DEF Fits, OneCredential
    <2>3. LastIfExpired(req)'
        BY <1>2, <1>3, <1>4, <2>1 DEF Fits, OneCredential, LastIfExpired
    <2>4. LastIfExpired(held)' \/ Ending
        BY <1>2, <1>3, <1>4, <2>2 DEF Fits, OneCredential, LastIfExpired
    <2> QED
        BY <1>2, <2>3, <2>4 DEF Fits, OneCredential, Ending
<1> QED
    BY <1>6, <1>7, <1>8, <1>9, <1>10 DEF Fits

\* The rest of the world: nothing of it makes a human superfluous.
LEMMA WorldFits ==
    ASSUME TypeOK, TypeOK', Fits,
           \/ Revoke \/ Reject \/ ServerChanges \/ ClockChanges \/ Mount
           \/ FaultAppears \/ TransientClears \/ UNCHANGED vars
    PROVE  Fits'
<1>1. /\ UNCHANGED <<store, process, unit, cli, gens, cur, expired>>
      /\ granted' \subseteq granted
      /\ clock # "ok" => clock' # "ok"
      /\ fault \in HumanFaults => fault' = fault
    BY DEF Revoke, Reject, ServerChanges, ClockChanges, Mount, FaultAppears, TransientClears,
           vars, remote, world, HumanFaults, FaultKinds
<1> USE DEF process
<1>2. ProcessFits' /\ Excused'
    BY <1>1 DEF Fits, ProcessFits, Excused, WillPark, NeedsAHuman, Rotatable, Rotating, Ending
<1>3. ServerFits' /\ FileFits'
    BY <1>1 DEF Fits, ServerFits, FileFits, NotAhead, LastIfExpired
<1>4. ReplyFits' /\ OneCredential'
    BY <1>1 DEF Fits, ReplyFits, OneCredential, LastIfExpired, Ending
<1> QED
    BY <1>2, <1>3, <1>4 DEF Fits

\* Steps after which a new process, or none, is there.
LEMMA StartedFits ==
    ASSUME SystemctlMayFail = FALSE, TypeOK, Fits, installed,
           UnitRestarts \/ HumanRuns \/ HumanRepairs \/ CliStop \/ CliRestart \/ Crash
    PROVE  Fits'
<1>1. CASE UnitRestarts \/ HumanRuns \/ HumanRepairs
    BY <1>1, FreshFits DEF UnitRestarts, HumanRuns, HumanRepairs
<1>2. CASE CliStop
    <2>1. Fresh("down") /\ (unit' = "failed" => unit = "failed")
        BY <1>2 DEF CliStop, StopIfActive, SystemctlResults
    <2>2. cli = "stop" /\ UNCHANGED <<store, fault, remote, clock>>
        BY <1>2 DEF CliStop, world
    <2>3. unit = "failed" => NeedsAHuman'
        BY <2>2 DEF Fits, Excused, NeedsAHuman, Rotatable, remote
    <2> QED
        BY <2>1, <2>2, <2>3, FreshFits
<1>3. CASE CliRestart
    BY <1>3, FreshFits DEF CliRestart, RestartIfInstalled, SystemctlResults
<1>4. CASE Crash
    BY <1>4, FreshFits DEF Crash, Exit, AfterExit
<1> QED
    BY <1>1, <1>2, <1>3, <1>4

LEMMA ParkStep ==
    ASSUME SystemctlMayFail = FALSE PROVE ParkInv /\ [Next]_vars => ParkInv'
<1> SUFFICES ASSUME ParkInv, [Next]_vars PROVE ParkInv'
    OBVIOUS
<1>1. TypeOK /\ TypeOK'
    BY TypeStep DEF ParkInv
<1>2. installed' = installed
    BY DEF Next, Daemon, Boot, RunEnds, BearerHeld, BearerLoad, Dial, RotateAnswered, RotateRefused,
       RotateUnreachable, Redial, UnitRestarts, ServerRefresh, ServerDropsRevoked, Cli, CliStop,
       CliClear, CliObtain, CliGrant, CliRestart, Human, HumanRuns, HumanRepairs, CliLoad,
       CliToldToDelete, CliFails, Environment, Revoke, Expire, Reject, ConnLost, Crash,
       ServerChanges, ClockChanges, Mount, FaultAppears, TransientClears, vars, world
<1>3. ASSUME installed PROVE Fits'
    <2>1. Fits
        BY <1>3 DEF ParkInv
    <2>2. CASE Daemon
        BY <1>1, <2>1, <2>2, BootFits, RunEndsFits, BearerFits, DialFits, AnsweredFits,
           RefusedFits, OnlyMovesFits DEF Daemon
    <2>3. CASE Cli \/ Human \/ UnitRestarts
        BY <1>1, <1>3, <2>1, <2>3, StartedFits, EnrollFits, ObtainFits, GrantFits DEF Cli, Human
    <2>4. CASE ServerRefresh \/ ServerDropsRevoked
        BY <1>1, <2>1, <2>4, RefreshFits, OnlyMovesFits
    <2>5. CASE Environment \/ UNCHANGED vars
        BY <1>1, <1>3, <2>1, <2>5, ExpireFits, OnlyMovesFits, StartedFits, WorldFits DEF Environment
    <2> QED
        BY <2>2, <2>3, <2>4, <2>5 DEF Next
<1>4. ASSUME ~installed PROVE unit' # "failed"
    <2>1. unit # "failed"
        BY <1>4 DEF ParkInv
    <2>2. unit' = unit \/ unit' = "active" \/ \E code \in {1, 2} : unit' = AfterExit(code)
        BY <1>4
        DEF Next, Daemon, Boot, RunEnds, ClassifyRefused, Exit, BearerHeld, BearerLoad, Goto, Dial,
            Refresh, RotateAnswered, RotateRefused, RotateUnreachable, Redial, UnitRestarts,
            ServerRefresh, ServerDropsRevoked, Cli, CliStop, StopIfActive, CliClear, CliObtain,
            CliGrant, CliRestart, RestartIfInstalled, Human, HumanRuns, HumanRepairs, CliLoad,
            CliToldToDelete, CliFails, Environment, Revoke, Expire, Reject, ConnLost, Crash,
            ServerChanges, ClockChanges, Mount, FaultAppears, TransientClears, vars
    <2> QED
        BY <1>4, <2>1, <2>2 DEF AfterExit
<1> QED
    BY <1>1, <1>2, <1>3, <1>4 DEF ParkInv

\* Exit code 2 only when waiting cannot help (run.rs, credentials.rs): with any faults of the files,
\* any behaviour of the server and the clock, kills, and `enroll` at any time, as long as
\* systemctl does what enroll asks of it.
THEOREM ParkedForAReason == ASSUME SystemctlMayFail = FALSE PROVE Spec => []ParkedNeedsAHuman
<1>1. ASSUME ParkInv PROVE ParkedNeedsAHuman
    <2>1. CASE installed
        BY <1>1, <2>1 DEF ParkInv, Fits, Excused, NeedsAHuman, ParkedNeedsAHuman
    <2>2. CASE ~installed
        BY <1>1, <2>2 DEF ParkInv, ParkedNeedsAHuman
    <2> QED
        BY <2>1, <2>2
<1>2. Init => ParkInv
    BY ParkInit
<1>3. ParkInv /\ [Next]_vars => ParkInv'
    BY ParkStep
<1> QED
    BY <1>1, <1>2, <1>3, PTL DEF Spec
=============================================================================
