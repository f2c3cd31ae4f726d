------------------------------- MODULE Service -------------------------------
(***************************************************************************)
(* `zyrisd install` and `zyrisd uninstall` step by step, from any of the   *)
(* places a binary may live, against the systemd user manager: the unit    *)
(* file, what the manager loaded of it and what runs.                      *)
(***************************************************************************)
CONSTANTS
    Origins,    \* where a binary may live (the .deb's place, install.sh's): the unit's text
    NoText      \* no unit file, nothing loaded, nothing running

ASSUME ServiceAssumption == NoText \notin Origins

VARIABLES
    sys,        \* the unit and the user's files, as in ServiceInit
    present,    \* the places that have a binary
    cmd,        \* the command under way
    faulty      \* may systemctl fail, and commands be interrupted?

serviceVars == <<sys, present, cmd, faulty>>

InstallPcs == {"write", "reload", "linger", "enable", "reset", "go", "live"}
UninstallPcs ==
    {"stop", "disable", "remove", "unload", "forget", "unlinger", "runtime", "purge", "done"}
Variables == {"USER", "XDG_RUNTIME_DIR"}

\* `changed` is the local variable of install, `env`: the variables its environment has,
\* `clean`: no step has failed so far.
NoCommand == [pc |-> "idle", text |-> NoText, changed |-> FALSE, purge |-> FALSE,
              env |-> {}, clean |-> TRUE]

\* `stale`: the binary at the place of the running daemon was replaced since it started.
\* `dirs`: which of the configuration and the runtime directory exist.
ServiceInit ==
    /\ sys = [file |-> NoText, loaded |-> NoText, active |-> "inactive", runs |-> NoText,
              stale |-> FALSE, enabled |-> FALSE, linger |-> FALSE, dirs |-> {}]
    /\ present = Origins /\ cmd = NoCommand /\ faulty \in BOOLEAN

-----------------------------------------------------------------------------
(* systemctl and loginctl, as functions on the system.                     *)

\* RuntimeDirectory=: systemd makes the directory for the unit and takes it away after it.
Ended(s, a) ==
    [s EXCEPT !.active = a, !.runs = NoText, !.stale = FALSE, !.dirs = @ \ {"runtime"}]
\* unit_text: a missing binary skips the start (ConditionPathExists), it is no failure.
Started(s) ==
    IF s.loaded \in present
    THEN [s EXCEPT !.active = "active", !.runs = s.loaded, !.stale = FALSE,
                   !.dirs = @ \cup {"runtime"}]
    ELSE Ended(s, "inactive")

StartUnit(s) == IF s.active = "active" THEN s ELSE Started(s)
RestartUnit(s) == Started(s)
StopUnit(s) == IF s.active \in {"active", "waiting"} THEN Ended(s, "inactive") ELSE s
ResetFailed(s) == IF s.active = "failed" THEN [s EXCEPT !.active = "inactive"] ELSE s
Reload(s) == [s EXCEPT !.loaded = s.file]
EnableUnit(s) == [Reload(s) EXCEPT !.enabled = s.file # NoText]
DisableUnit(s) == [s EXCEPT !.enabled = FALSE]

-----------------------------------------------------------------------------
(* Steps of a command.                                                     *)

Doing(pc) == cmd.pc = pc
GoOn(pc, s) == sys' = s /\ cmd' = [cmd EXCEPT !.pc = pc]
Return(s) == sys' = s /\ cmd' = NoCommand

\* A non-zero status of systemctl or loginctl is ignored everywhere.
Ignored(pc) == faulty /\ UNCHANGED sys /\ cmd' = [cmd EXCEPT !.pc = pc, !.clean = FALSE]
\* `?`: systemctl could not be started at all.
Bail == faulty /\ Return(sys)

\* A user whose name the environment does not tell is passed over: no step fails.
SwitchLinger(pc, on) ==
    \/ "USER" \in cmd.env /\ (GoOn(pc, [sys EXCEPT !.linger = on]) \/ Ignored(pc))
    \/ "USER" \notin cmd.env /\ GoOn(pc, sys)

\* remove_dir_all, whose failure is ignored.
RemoveDir(pc, dir) == GoOn(pc, [sys EXCEPT !.dirs = @ \ {dir}]) \/ Ignored(pc)

Install(p) ==
    /\ Doing("idle") /\ p \in present
    /\ \E env \in SUBSET Variables :
          /\ "XDG_RUNTIME_DIR" \in env
          /\ cmd' = [NoCommand EXCEPT !.pc = "write", !.text = p, !.env = env]
    /\ UNCHANGED sys

WriteUnit ==
    /\ Doing("write")
    /\ LET changed == sys.file # cmd.text IN
          \/ /\ sys' = [sys EXCEPT !.file = cmd.text]
             /\ cmd' = [cmd EXCEPT !.pc = IF changed THEN "reload" ELSE "linger",
                                   !.changed = changed]
          \/ Bail
DaemonReload == Doing("reload") /\ (GoOn("linger", Reload(sys)) \/ Ignored("linger") \/ Bail)
EnableLinger == Doing("linger") /\ SwitchLinger("enable", TRUE)
Enable == Doing("enable") /\ (GoOn("reset", EnableUnit(sys)) \/ Ignored("reset") \/ Bail)
ResetBeforeStart == Doing("reset") /\ (GoOn("go", ResetFailed(sys)) \/ Ignored("go"))

\* variant: the service is started, whatever ran before
StartsAlways(s) == StartUnit(s)
\* `start` is a no-op on an active unit.
StartOrRestart(s) == IF cmd.changed THEN RestartUnit(s) ELSE StartUnit(s)
StartService == Doing("go") /\ (GoOn("live", StartOrRestart(sys)) \/ Ignored("live") \/ Bail)

\* report_liveness: "active" in one of its looks is a success.
InstallOk == Doing("live") /\ sys.active = "active" /\ Return(sys)
InstallFailed == Doing("live") /\ sys.active # "active" /\ Return(sys)

Uninstall ==
    /\ Doing("idle")
    /\ \E purge \in BOOLEAN, env \in SUBSET Variables :
          cmd' = [NoCommand EXCEPT !.pc = "stop", !.purge = purge, !.env = env]
    /\ UNCHANGED sys

StopService == Doing("stop") /\ (GoOn("disable", StopUnit(sys)) \/ Ignored("disable"))
\* systemd need not disable by the name of a unit file that is not there.
Disable ==
    /\ Doing("disable")
    /\ \/ GoOn("remove", DisableUnit(sys))
       \/ Ignored("remove")
       \/ /\ sys.file = NoText /\ UNCHANGED sys
          /\ cmd' = [cmd EXCEPT !.pc = "remove", !.clean = @ /\ ~sys.enabled]
RemoveUnit ==
    /\ Doing("remove")
    /\ GoOn("unload", [sys EXCEPT !.file = NoText]) \/ (sys.file # NoText /\ Bail)
ReloadRemoved == Doing("unload") /\ (GoOn("forget", Reload(sys)) \/ Ignored("forget"))

\* variant: the failed state is left in the memory of systemd
ForgetNothing == Doing("forget") /\ GoOn("unlinger", sys)
ForgetFailed == Doing("forget") /\ (GoOn("unlinger", ResetFailed(sys)) \/ Ignored("unlinger"))
DisableLinger == Doing("unlinger") /\ SwitchLinger("runtime", FALSE)
RemoveRuntime ==
    /\ Doing("runtime")
    /\ IF "XDG_RUNTIME_DIR" \in cmd.env THEN RemoveDir("purge", "runtime") ELSE GoOn("purge", sys)
Purge == Doing("purge") /\ IF cmd.purge THEN RemoveDir("done", "config") ELSE GoOn("done", sys)
Uninstalled == Doing("done") /\ Return(sys)

Commands ==
    /\ \/ (\E p \in Origins : Install(p)) \/ WriteUnit \/ DaemonReload \/ EnableLinger \/ Enable
       \/ ResetBeforeStart \/ StartService \/ InstallOk \/ InstallFailed
       \/ Uninstall \/ StopService \/ Disable \/ RemoveUnit \/ ReloadRemoved \/ ForgetFailed
       \/ DisableLinger \/ RemoveRuntime \/ Purge \/ Uninstalled
    /\ UNCHANGED <<present, faulty>>

-----------------------------------------------------------------------------
(* What goes on meanwhile.                                                 *)

Interrupt == faulty /\ ~Doing("idle") /\ Return(sys) /\ UNCHANGED <<present, faulty>>

\* Exit code 2 parks the unit, another one has it wait for RestartSec.
DaemonEnds ==
    /\ sys.active = "active"
    /\ \E a \in {"failed", "waiting", "inactive"} : sys' = Ended(sys, a)
    /\ UNCHANGED <<present, cmd, faulty>>
AutoRestart ==
    /\ sys.active = "waiting" /\ sys' = Started(sys)
    /\ UNCHANGED <<present, cmd, faulty>>
\* The daemon writes its credential and its state, also one run from a terminal; that one
\* does not meet a command.
DaemonSaves ==
    /\ sys.active = "active" \/ Doing("idle")
    /\ sys' = [sys EXCEPT !.dirs = {"config", "runtime"}]
    /\ UNCHANGED <<present, cmd, faulty>>

\* enroll, which does not meet another command: stop_if_active, with a credential in the end
\* or none, and restart_if_installed, of which either half may fail.
Enroll ==
    /\ Doing("idle")
    /\ \E stopped \in {StopUnit(sys)} \cup (IF faulty THEN {sys} ELSE {}) :
          LET saved == [stopped EXCEPT !.dirs = @ \cup {"config"}] IN
          sys' \in IF sys.file = NoText THEN {saved}
                  ELSE {stopped, RestartUnit(ResetFailed(saved))}
                       \cup (IF faulty THEN {saved, ResetFailed(saved), RestartUnit(saved)} ELSE {})
    /\ UNCHANGED <<present, cmd, faulty>>

\* A package goes, or comes, also in place of one that is there.
PackageChanges ==
    /\ Doing("idle")
    /\ \E p \in Origins :
          \/ present' = present \ {p} /\ UNCHANGED sys
          \/ present' = present \cup {p} /\ sys' = [sys EXCEPT !.stale = @ \/ sys.runs = p]
    /\ UNCHANGED <<cmd, faulty>>

\* Linger is what starts an enabled unit before anybody logs in.
Reboot ==
    /\ LET off == Ended(Reload(sys), "inactive")
       IN sys' = IF off.enabled /\ off.linger THEN Started(off) ELSE off
    /\ cmd' = NoCommand /\ UNCHANGED <<present, faulty>>

ServiceNext ==
    \/ Commands \/ Interrupt \/ DaemonEnds \/ AutoRestart \/ DaemonSaves
    \/ Enroll \/ PackageChanges \/ Reboot

ServiceSpec == ServiceInit /\ [][ServiceNext]_serviceVars

-----------------------------------------------------------------------------
(* What it promises.                                                       *)

\* An install that reports success, and in which no step failed, has the unit of this binary
\* running and enabled, whatever was installed and running before, and lingering if the
\* environment names the user: without $USER "It will connect automatically on every boot"
\* (service.rs:172) is said of a unit that does not.  Where an earlier command was cut short
\* it runs this text only if the unit file had to be written; and only then is what runs
\* sure to be the binary that is there now, as an upgrade in place leaves the text
\* unchanged (service.rs:149-150).
InstalledRuns ==
    [][ InstallOk /\ cmd.clean =>
            /\ sys.file = cmd.text /\ sys.enabled
            /\ "USER" \in cmd.env => sys.linger
            /\ cmd.changed \/ ~faulty => sys.runs = cmd.text
            /\ cmd.changed => ~sys.stale ]_serviceVars

\* An uninstall in which no step failed leaves no unit file, no unit that starts or runs or
\* that systemd remembers as failed, no linger and no runtime directory as far as the
\* environment tells them, and with --purge no credentials; whatever earlier commands,
\* interrupted or not, have left behind (service.rs:186-214).
UninstallLeavesNothing ==
    [][ Uninstalled /\ cmd.clean =>
            /\ sys.file = NoText /\ sys.loaded = NoText /\ sys.active = "inactive"
            /\ ~sys.enabled
            /\ "USER" \in cmd.env => ~sys.linger
            /\ "XDG_RUNTIME_DIR" \in cmd.env => "runtime" \notin sys.dirs
            /\ cmd.purge => "config" \notin sys.dirs ]_serviceVars
=============================================================================
