----------------------------- MODULE DesktopChild -----------------------------
(***************************************************************************)
(* The desktop helper from the inside: what its probe says of the display  *)
(* server, the backend and the input session it keeps for its life, the    *)
(* token it leaves for the next one.  Helpers are spawned one after the    *)
(* other; the display server changes under them.                           *)
(***************************************************************************)
VARIABLES
    server,     \* the display server, see Servers
    child,      \* "none", "alive", or "panicked" once a panic ended it
    backend,    \* BACKEND
    cache,      \* INPUT_CACHE: "none", "live", "dead" (it outlived its server), "poisoned"
    task,       \* the request it handles: "none", "probe", "input"
    at,         \* where it is in it: "none", "screen", "open", "save"
    told,       \* what its probe said works, once it has answered
    changed,    \* the server is not the one it was spawned on
    token,      \* the restore token on disk is good
    asked,      \* the user is looking at the portal's dialog
    approved    \* history: the user approved, and nobody got in between that and the save

childVars == <<server, child, backend, cache, task, at, told, changed, token, asked, approved>>

NoBackend == "none"
Backends == {"Wayland", "Xcap"}

\* `detect` is ScreenBackend::detect(), `captures` the backends that really capture;
\* enumerating displays may panic, and whatever enumerates them with it. Opening input may
\* have the portal ask the user first.
Servers ==
    [detect : Backends, captures : SUBSET Backends, displays : {"some", "none", "panic"},
     input : {"opens", "asks", "fails", "panics"}]

\* A helper ends as `how`; a token it is about to write is not kept, or torn.
Ends(how) ==
    /\ child' = how /\ backend' = NoBackend /\ cache' = "none"
    /\ task' = "none" /\ at' = "none" /\ told' = {} /\ asked' = FALSE
    /\ approved' = (approved /\ at # "save")
    /\ token' \in {token, token /\ at # "save"}
    /\ UNCHANGED <<server, changed>>

ChildTypeOK ==
    /\ server \in Servers /\ child \in {"none", "alive", "panicked"}
    /\ backend \in Backends \cup {NoBackend} /\ cache \in {"none", "live", "dead", "poisoned"}
    /\ task \in {"none", "probe", "input"} /\ at \in {"none", "screen", "open", "save"}
    /\ told \subseteq {"screen", "input"} /\ changed \in BOOLEAN
    /\ token \in BOOLEAN /\ asked \in BOOLEAN /\ approved \in BOOLEAN

ChildInit ==
    /\ server \in Servers /\ child = "none"
    /\ backend = NoBackend /\ cache = "none" /\ task = "none" /\ at = "none"
    /\ told = {} /\ changed = FALSE /\ token = FALSE /\ asked = FALSE /\ approved = FALSE

-----------------------------------------------------------------------------

\* The parent spawns a helper and probes it, and talks to it only if something works.
SpawnChild ==
    /\ child # "alive"
    /\ child' = "alive" /\ task' = "probe" /\ at' = "screen"
    /\ backend' = NoBackend /\ cache' = "none" /\ told' = {} /\ changed' = FALSE
    /\ UNCHANGED <<server, token, asked, approved>>

\* Killed by the parent, or its stdin closed.
ChildGone ==
    child = "alive" /\ Ends("none")

\* In one respect; other changes are several.
ServerChanges ==
    /\ \E field \in DOMAIN server :
          \E value \in {s[field] : s \in Servers} \ {server[field]} :
             server' = [server EXCEPT ![field] = value]
    /\ changed' = TRUE
    /\ cache' = IF cache = "live" THEN "dead" ELSE cache
    /\ UNCHANGED <<child, backend, task, at, told, token, asked, approved>>

-----------------------------------------------------------------------------
(* Screen capture.                                                         *)

\* detect()'s pick first.
BackendCandidates(s) == <<s.detect, CHOOSE b \in Backends : b # s.detect>>

\* variant: detect() is trusted
DetectIsEnough(s) == s.detect
\* The first backend whose capture succeeds, or NoBackend.
CaptureWorks(s) ==
    LET first == BackendCandidates(s)[1]
        second == BackendCandidates(s)[2]
    IN IF first \in s.captures THEN first
       ELSE IF second \in s.captures THEN second ELSE NoBackend

\* The answer to the probe, `ok` whether input works; or to a call.
Answered(ok) ==
    /\ told' = IF task = "input" THEN told
               ELSE {k \in {"screen", "input"} :
                        (k = "screen" /\ backend # NoBackend) \/ (k = "input" /\ ok)}
    /\ task' = "none" /\ at' = "none"

\* A panic in probe_displays is no screens, and without screens nothing else is tried.
ProbeScreen ==
    /\ task = "probe" /\ at = "screen"
    /\ IF server.displays = "some"
       THEN backend' = CaptureWorks(server) /\ at' = "open" /\ UNCHANGED <<task, told>>
       ELSE Answered(FALSE) /\ UNCHANGED backend
    /\ UNCHANGED <<server, child, cache, changed, token, asked, approved>>

\* screen(): the proven backend, or detect()'s.
Screen == IF backend = NoBackend THEN server.detect ELSE backend
CaptureSucceeds == server.displays = "some" /\ Screen \in server.captures

\* A capture changes nothing here, whether it succeeds or not; a panic in it ends the helper.
Screenshot ==
    task = "none" /\ "screen" \in told /\ server.displays = "panic" /\ Ends("panicked")

-----------------------------------------------------------------------------
(* Input.  The lock is held from `open` to `save`.                         *)

InputCall ==
    /\ task = "none" /\ "input" \in told /\ task' = "input" /\ at' = "open"
    /\ UNCHANGED <<server, child, backend, cache, told, changed, token, asked, approved>>

CachedInput ==
    /\ at = "open" /\ ~asked /\ cache \in {"live", "dead"} /\ Answered(TRUE)
    /\ UNCHANGED <<server, child, backend, cache, changed, token, asked, approved>>

\* A panic under the lock poisons it: the probe catches it, a call of the agent does not.
InputPanics ==
    /\ at = "open" /\ ~asked
    /\ cache = "poisoned" \/ (cache = "none" /\ server.input = "panics")
    /\ IF task = "probe"
       THEN /\ cache' = "poisoned" /\ Answered(FALSE)
            /\ UNCHANGED <<server, child, backend, changed, token, asked, approved>>
       ELSE Ends("panicked")

InputFails ==
    /\ at = "open" /\ cache = "none"
    /\ server.input = "fails" \/ asked
    /\ Answered(FALSE) /\ asked' = FALSE
    /\ UNCHANGED <<server, child, backend, cache, changed, token, approved>>

\* enigo opens a session; from the portal, where a good token spares the dialog, it comes
\* with a token.
InputOpens ==
    /\ at = "open" /\ ~asked /\ cache = "none" /\ cache' = "live"
    /\ \/ server.input = "opens" /\ Answered(TRUE)
       \/ server.input = "asks" /\ token /\ at' = "save" /\ UNCHANGED <<task, told>>
    /\ UNCHANGED <<server, child, backend, changed, token, asked, approved>>

AskUser ==
    /\ at = "open" /\ ~asked /\ cache = "none" /\ server.input = "asks" /\ ~token
    /\ asked' = TRUE
    /\ UNCHANGED <<server, child, backend, cache, task, at, told, changed, token, approved>>

UserApproves ==
    /\ asked /\ server.input = "asks"
    /\ asked' = FALSE /\ approved' = TRUE /\ cache' = "live" /\ at' = "save"
    /\ UNCHANGED <<server, child, backend, task, told, changed, token>>

\* variant: the token is left in memory
KeepsNoToken ==
    /\ at = "save" /\ Answered(TRUE)
    /\ UNCHANGED <<server, child, backend, cache, changed, token, asked, approved>>
\* save_portal_token, which may fail.
SaveToken ==
    /\ at = "save" /\ Answered(TRUE)
    /\ \/ token' = TRUE /\ UNCHANGED approved
       \/ token' \in {token, FALSE} /\ approved' = FALSE
    /\ UNCHANGED <<server, child, backend, cache, changed, asked>>

ChildNext ==
    \/ SpawnChild \/ ChildGone \/ ServerChanges \/ ProbeScreen \/ Screenshot
    \/ InputCall \/ CachedInput \/ InputPanics \/ InputFails \/ InputOpens
    \/ AskUser \/ UserApproves \/ SaveToken

ChildSpec == ChildInit /\ [][ChildNext]_childVars

-----------------------------------------------------------------------------
(* What it promises.                                                       *)

\* As long as the display server stays what it was: nothing panics out of the helper, what its
\* probe announced of the screen is captured by the backend the calls use, and of the input
\* is served by the session it kept (main.rs:60-66, "announce only what actually works").
AnnouncedWorks ==
    ~changed =>
        /\ child # "panicked"
        /\ "screen" \in told => CaptureSucceeds
        /\ "input" \in told => cache = "live"

\* Once the user has approved the dialog and the token could be saved, no helper after any
\* number of deaths and changes of the server asks again (main.rs:176-181).
AskedOnce == asked => ~approved
=============================================================================
