---------------------------- MODULE Service_proofs ----------------------------
(***************************************************************************)
(* Theorems about Service: what an install and an uninstall achieve in     *)
(* which no step failed, from whatever earlier commands, cut short or not, *)
(* and reboots have left behind.                                           *)
(***************************************************************************)
EXTENDS Service, TLAPS

Texts == Origins \cup {NoText}

Systems == [file : Texts, loaded : Texts, active : {"inactive", "active", "failed", "waiting"},
            runs : Texts, stale : BOOLEAN, enabled : BOOLEAN, linger : BOOLEAN,
            dirs : SUBSET {"config", "runtime"}]
Cmds == [pc : {"idle"} \cup InstallPcs \cup UninstallPcs, text : Texts,
         changed : BOOLEAN, purge : BOOLEAN, env : SUBSET Variables, clean : BOOLEAN]

ServiceTypeOK ==
    sys \in Systems /\ present \in SUBSET Origins /\ cmd \in Cmds /\ faulty \in BOOLEAN

-----------------------------------------------------------------------------
(* What the steps so far have made true.                                   *)

At(pcs) == cmd.pc \in pcs

\* The manager has loaded the unit file that is there, and runs no other text.
Settled == sys.loaded = sys.file /\ (sys.active = "active" => sys.runs = sys.loaded)

\* Nothing is half done, in a system whose commands never are.
RestsSettled ==
    /\ ~faulty
    /\ \/ At({"idle", "write", "stop", "disable", "remove"})
       \/ At({"linger", "enable", "reset", "go"}) /\ ~cmd.changed
    => Settled

InstallSoFar ==
    At(InstallPcs) =>
        /\ cmd.text \in present
        /\ ~faulty => cmd.clean
        /\ ~At({"write"}) => sys.file = cmd.text
        /\ At({"reload"}) => cmd.changed
        /\ cmd.clean /\ At({"enable", "reset", "go", "live"}) /\ "USER" \in cmd.env => sys.linger
        /\ cmd.clean /\ At({"reset", "go", "live"}) => sys.enabled /\ sys.loaded = cmd.text
        /\ cmd.clean /\ At({"live"}) /\ (cmd.changed \/ ~faulty) =>
               (sys.active = "active" => sys.runs = cmd.text)
        /\ cmd.clean /\ At({"live"}) /\ cmd.changed => ~sys.stale

\* A unit that was stopped does not come back: systemd is not waiting to restart it, and
\* enroll is not under way.
UninstallSoFar ==
    At(UninstallPcs) =>
        /\ At({"unload", "forget", "unlinger", "runtime", "purge", "done"}) => sys.file = NoText
        /\ cmd.clean /\ ~At({"stop", "disable"}) => ~sys.enabled
        /\ cmd.clean \/ ~faulty =>
               /\ ~At({"stop"}) => sys.active \in {"inactive", "failed"}
               /\ At({"forget", "unlinger", "runtime", "purge", "done"}) => sys.loaded = NoText
               /\ At({"unlinger", "runtime", "purge", "done"}) => sys.active = "inactive"
               /\ At({"runtime", "purge", "done"}) /\ "USER" \in cmd.env => ~sys.linger
               /\ At({"purge", "done"}) /\ "XDG_RUNTIME_DIR" \in cmd.env =>
                      "runtime" \notin sys.dirs
               /\ At({"done"}) /\ cmd.purge => "config" \notin sys.dirs

ServiceInv == ServiceTypeOK /\ RestsSettled /\ InstallSoFar /\ UninstallSoFar

LEMMA InvInit == ServiceInit => ServiceInv
<1> SUFFICES ASSUME ServiceInit PROVE ServiceInv
    OBVIOUS
<1>1. ServiceTypeOK
    BY DEF ServiceInit, NoCommand, ServiceTypeOK, Systems, Cmds, Texts, Variables
<1>2. RestsSettled /\ InstallSoFar /\ UninstallSoFar
    BY DEF ServiceInit, NoCommand, RestsSettled, Settled, InstallSoFar, UninstallSoFar, At,
           InstallPcs, UninstallPcs
<1> QED
    BY <1>1, <1>2 DEF ServiceInv

-----------------------------------------------------------------------------
(* systemctl and loginctl: what each makes of a typed system.              *)

\* The end of what ran leaves the unit file, what is loaded and its switches alone.
LEMMA EndedIs ==
    ASSUME NEW s \in Systems, NEW a \in {"inactive", "failed", "waiting"}
    PROVE  /\ Ended(s, a) \in Systems
           /\ Ended(s, a).file = s.file /\ Ended(s, a).loaded = s.loaded
           /\ Ended(s, a).enabled = s.enabled /\ Ended(s, a).linger = s.linger
           /\ Ended(s, a).active = a /\ ~Ended(s, a).stale
  BY DEF Ended, Systems, Texts

\* A start leaves the unit file and what is loaded alone, and runs what is loaded or nothing.
LEMMA StartedIs ==
    ASSUME NEW s \in Systems
    PROVE  /\ Started(s) \in Systems
           /\ Started(s).file = s.file /\ Started(s).loaded = s.loaded
           /\ Started(s).enabled = s.enabled /\ Started(s).linger = s.linger
           /\ Started(s).active \in {"active", "inactive"}
           /\ Started(s).active = "active" => Started(s).runs = s.loaded
           /\ ~Started(s).stale
<1>1. CASE s.loaded \in present
    BY <1>1 DEF Started, Systems, Texts
<1>2. CASE s.loaded \notin present
    BY <1>2, EndedIs DEF Started
<1> QED
    BY <1>1, <1>2

LEMMA StartUnitIs ==
    ASSUME NEW s \in Systems
    PROVE  /\ StartUnit(s) \in Systems
           /\ StartUnit(s).file = s.file /\ StartUnit(s).loaded = s.loaded
           /\ StartUnit(s).enabled = s.enabled /\ StartUnit(s).linger = s.linger
           /\ StartUnit(s).active = "active" /\ (s.active = "active" => s.runs = s.loaded)
                => StartUnit(s).runs = s.loaded
  BY StartedIs DEF StartUnit

LEMMA StopUnitIs ==
    ASSUME NEW s \in Systems
    PROVE  /\ StopUnit(s) \in Systems
           /\ StopUnit(s).file = s.file /\ StopUnit(s).loaded = s.loaded
           /\ StopUnit(s).active \in {"inactive", "failed"}
  BY EndedIs DEF StopUnit, Systems

LEMMA ResetFailedIs ==
    ASSUME NEW s \in Systems
    PROVE  /\ ResetFailed(s) \in Systems
           /\ ResetFailed(s).file = s.file /\ ResetFailed(s).loaded = s.loaded
           /\ ResetFailed(s).enabled = s.enabled /\ ResetFailed(s).linger = s.linger
           /\ ResetFailed(s).runs = s.runs /\ ResetFailed(s).dirs = s.dirs
           /\ ResetFailed(s).active # "failed"
           /\ s.active # "failed" => ResetFailed(s).active = s.active
           /\ s.active = "failed" => ResetFailed(s).active = "inactive"
  BY DEF ResetFailed, Systems

LEMMA ReloadIs ==
    ASSUME NEW s \in Systems
    PROVE  /\ Reload(s) \in Systems
           /\ Reload(s).file = s.file /\ Reload(s).loaded = s.file
           /\ Reload(s).enabled = s.enabled /\ Reload(s).linger = s.linger
           /\ Reload(s).active = s.active /\ Reload(s).runs = s.runs /\ Reload(s).dirs = s.dirs
  BY DEF Reload, Systems

LEMMA EnableUnitIs ==
    ASSUME NEW s \in Systems
    PROVE  /\ EnableUnit(s) \in Systems
           /\ EnableUnit(s).file = s.file /\ EnableUnit(s).loaded = s.file
           /\ EnableUnit(s).enabled = (s.file # NoText) /\ EnableUnit(s).linger = s.linger
           /\ EnableUnit(s).active = s.active /\ EnableUnit(s).runs = s.runs
  BY DEF EnableUnit, Reload, Systems

\* Linger is switched with loginctl, of which systemctl's side of the unit knows nothing.
LEMMA LingerIs ==
    ASSUME NEW s \in Systems, NEW on \in BOOLEAN
    PROVE  /\ [s EXCEPT !.linger = on] \in Systems
           /\ [s EXCEPT !.linger = on].linger = on
           /\ [s EXCEPT !.linger = on].file = s.file /\ [s EXCEPT !.linger = on].loaded = s.loaded
           /\ [s EXCEPT !.linger = on].enabled = s.enabled
           /\ [s EXCEPT !.linger = on].active = s.active /\ [s EXCEPT !.linger = on].runs = s.runs
  BY DEF Systems

\* The files are no part of the unit either.
LEMMA DirsAre ==
    ASSUME NEW s \in Systems, NEW d \in SUBSET {"config", "runtime"}
    PROVE  /\ [s EXCEPT !.dirs = d] \in Systems
           /\ [s EXCEPT !.dirs = d].dirs = d
           /\ [s EXCEPT !.dirs = d].file = s.file /\ [s EXCEPT !.dirs = d].loaded = s.loaded
           /\ [s EXCEPT !.dirs = d].enabled = s.enabled /\ [s EXCEPT !.dirs = d].linger = s.linger
           /\ [s EXCEPT !.dirs = d].active = s.active /\ [s EXCEPT !.dirs = d].runs = s.runs
           /\ [s EXCEPT !.dirs = d].stale = s.stale
  BY DEF Systems

-----------------------------------------------------------------------------
(* The ways a step of a command ends.                                      *)

Pcs == {"idle"} \cup InstallPcs \cup UninstallPcs

Same == present' = present /\ faulty' = faulty

LEMMA GoOnIs ==
    ASSUME ServiceTypeOK, NEW pc \in Pcs, NEW s \in Systems, GoOn(pc, s), Same
    PROVE  /\ ServiceTypeOK' /\ sys' = s
           /\ cmd'.pc = pc /\ cmd'.text = cmd.text /\ cmd'.changed = cmd.changed
           /\ cmd'.purge = cmd.purge /\ cmd'.env = cmd.env /\ cmd'.clean = cmd.clean
  BY DEF GoOn, ServiceTypeOK, Cmds, Pcs, Same

LEMMA IgnoredIs ==
    ASSUME ServiceTypeOK, NEW pc \in Pcs, Ignored(pc), Same
    PROVE  /\ ServiceTypeOK' /\ sys' = sys /\ faulty
           /\ cmd'.pc = pc /\ cmd'.text = cmd.text /\ cmd'.changed = cmd.changed
           /\ cmd'.purge = cmd.purge /\ cmd'.env = cmd.env /\ ~cmd'.clean
  BY DEF Ignored, ServiceTypeOK, Cmds, Pcs, Same

\* A command that is over, or cut short where that may happen, leaves no obligation but
\* that of a system without faults to be settled.
LEMMA AtRest ==
    ASSUME ServiceTypeOK, sys' \in Systems, present' \in SUBSET Origins, faulty' = faulty,
           cmd' = NoCommand, ~faulty => Settled'
    PROVE  ServiceInv'
<1>1. ServiceTypeOK'
    BY DEF ServiceTypeOK, Cmds, NoCommand, Texts, Variables
<1>2. cmd'.pc = "idle"
    BY DEF NoCommand
<1>3. RestsSettled' /\ InstallSoFar' /\ UninstallSoFar'
    BY <1>2 DEF RestsSettled, InstallSoFar, UninstallSoFar, At, InstallPcs, UninstallPcs
<1> QED
    BY <1>1, <1>3 DEF ServiceInv

LEMMA BailStep ==
    ASSUME ServiceTypeOK, Bail, Same
    PROVE  ServiceInv'
  BY AtRest DEF Bail, Return, Same, ServiceTypeOK

-----------------------------------------------------------------------------
(* install.                                                                *)

SoFar == RestsSettled /\ InstallSoFar /\ UninstallSoFar

LEMMA InstallStep ==
    ASSUME ServiceInv, NEW p \in Origins, Install(p), Same
    PROVE  ServiceInv'
<1>0. PICK env \in SUBSET Variables :
          cmd' = [NoCommand EXCEPT !.pc = "write", !.text = p, !.env = env]
    BY DEF Install
<1>1. /\ cmd'.pc = "write" /\ cmd'.text = p /\ cmd'.clean /\ ~cmd'.changed
      /\ cmd' \in Cmds /\ sys' = sys /\ p \in present /\ cmd.pc = "idle"
    BY <1>0 DEF Install, NoCommand, Cmds, Texts, InstallPcs, Doing
<1>2. ServiceTypeOK'
    BY <1>1 DEF ServiceInv, ServiceTypeOK, Same
<1>3. SoFar'
    BY <1>1 DEF ServiceInv, SoFar, Same, RestsSettled, Settled, InstallSoFar, UninstallSoFar,
                At, InstallPcs, UninstallPcs
<1> QED
    BY <1>2, <1>3 DEF ServiceInv, SoFar

LEMMA WriteUnitStep ==
    ASSUME ServiceInv, WriteUnit, Same
    PROVE  ServiceInv'
<1> DEFINE changed == sys.file # cmd.text
<1>0. cmd.pc = "write" /\ ServiceTypeOK
    BY DEF WriteUnit, Doing, ServiceInv
<1>1. CASE /\ sys' = [sys EXCEPT !.file = cmd.text]
           /\ cmd' = [cmd EXCEPT !.pc = IF changed THEN "reload" ELSE "linger",
                                 !.changed = changed]
    <2>1. /\ sys' \in Systems /\ sys'.file = cmd.text /\ sys'.loaded = sys.loaded
          /\ sys'.active = sys.active /\ sys'.runs = sys.runs
        BY <1>0, <1>1 DEF ServiceTypeOK, Systems, Cmds
    <2>2. /\ cmd' \in Cmds /\ cmd'.text = cmd.text /\ cmd'.clean = cmd.clean /\ cmd'.env = cmd.env
          /\ cmd'.changed = changed /\ cmd'.pc = IF changed THEN "reload" ELSE "linger"
        BY <1>0, <1>1 DEF ServiceTypeOK, Cmds, InstallPcs
    <2>3. ServiceTypeOK'
        BY <2>1, <2>2, <1>0 DEF ServiceTypeOK, Same
    <2>4. SoFar'
        BY <2>1, <2>2, <1>0 DEF ServiceInv, SoFar, Same, RestsSettled, Settled, InstallSoFar,
            UninstallSoFar, At, InstallPcs, UninstallPcs
    <2> QED
        BY <2>3, <2>4 DEF ServiceInv, SoFar
<1>2. CASE Bail
    BY <1>0, <1>2, BailStep
<1> QED
    BY <1>1, <1>2 DEF WriteUnit

LEMMA DaemonReloadStep ==
    ASSUME ServiceInv, DaemonReload, Same
    PROVE  ServiceInv'
<1> USE DEF SoFar, Same, RestsSettled, Settled, InstallSoFar, UninstallSoFar, At, InstallPcs,
            UninstallPcs
<1>0. cmd.pc = "reload" /\ ServiceTypeOK /\ sys \in Systems /\ "linger" \in Pcs
    BY DEF DaemonReload, Doing, ServiceInv, ServiceTypeOK, Pcs
<1>1. CASE GoOn("linger", Reload(sys))
    <2>1. ServiceTypeOK'
        BY <1>0, <1>1, GoOnIs, ReloadIs
    <2>2. SoFar'
        BY <1>0, <1>1, GoOnIs, ReloadIs DEF ServiceInv
    <2> QED
        BY <2>1, <2>2 DEF ServiceInv
<1>2. CASE Ignored("linger")
    <2>1. ServiceTypeOK' /\ SoFar'
        BY <1>0, <1>2, IgnoredIs DEF ServiceInv
    <2> QED
        BY <2>1 DEF ServiceInv
<1>3. CASE Bail
    BY <1>0, <1>3, BailStep
<1> QED
    BY <1>1, <1>2, <1>3 DEF DaemonReload
\* A restart runs what is loaded; a start does, unless something runs already.
LEMMA StartOrRestartIs ==
    ASSUME NEW s \in Systems
    PROVE  /\ StartOrRestart(s) \in Systems
           /\ StartOrRestart(s).file = s.file /\ StartOrRestart(s).loaded = s.loaded
           /\ StartOrRestart(s).enabled = s.enabled /\ StartOrRestart(s).linger = s.linger
           /\ /\ StartOrRestart(s).active = "active"
              /\ cmd.changed \/ (s.active = "active" => s.runs = s.loaded)
              => StartOrRestart(s).runs = s.loaded
           /\ cmd.changed => ~StartOrRestart(s).stale
  BY StartedIs, StartUnitIs DEF StartOrRestart, RestartUnit

LEMMA EnableLingerStep ==
    ASSUME ServiceInv, EnableLinger, Same
    PROVE  ServiceInv'
<1>0. cmd.pc = "linger" /\ ServiceTypeOK /\ sys \in Systems /\ "enable" \in Pcs
    BY DEF EnableLinger, Doing, ServiceInv, ServiceTypeOK, Pcs, InstallPcs, UninstallPcs
<1>1. CASE GoOn("enable", [sys EXCEPT !.linger = TRUE])
    <2>1. [sys EXCEPT !.linger = TRUE] \in Systems
        BY <1>0, LingerIs
    <2>2. /\ ServiceTypeOK' /\ sys' = [sys EXCEPT !.linger = TRUE]
          /\ cmd'.pc = "enable" /\ cmd'.text = cmd.text /\ cmd'.changed = cmd.changed
          /\ cmd'.clean = cmd.clean
        BY <1>0, <1>1, <2>1, GoOnIs
    <2>3. /\ sys'.linger /\ sys'.file = sys.file /\ sys'.loaded = sys.loaded
          /\ sys'.active = sys.active /\ sys'.runs = sys.runs
        BY <1>0, <2>2, LingerIs DEF Systems
    <2>4. SoFar'
        BY <1>0, <2>2, <2>3 DEF ServiceInv, SoFar, Same, RestsSettled, Settled, InstallSoFar,
               UninstallSoFar, At, InstallPcs, UninstallPcs
    <2> QED
        BY <2>2, <2>4 DEF ServiceInv, SoFar
<1>2. CASE Ignored("enable")
    <2>1. ServiceTypeOK' /\ SoFar'
        BY <1>0, <1>2, IgnoredIs DEF ServiceInv, SoFar, Same, RestsSettled, Settled, InstallSoFar,
            UninstallSoFar, At, InstallPcs, UninstallPcs
    <2> QED
        BY <2>1 DEF ServiceInv, SoFar
<1>3. CASE "USER" \notin cmd.env /\ GoOn("enable", sys)
    <2>1. ServiceTypeOK' /\ SoFar'
        BY <1>0, <1>3, GoOnIs DEF ServiceInv, SoFar, Same, RestsSettled, Settled, InstallSoFar,
            UninstallSoFar, At, InstallPcs, UninstallPcs
    <2> QED
        BY <2>1 DEF ServiceInv, SoFar
<1> QED
    BY <1>1, <1>2, <1>3 DEF EnableLinger, SwitchLinger

LEMMA EnableStep ==
    ASSUME ServiceInv, Enable, Same
    PROVE  ServiceInv'
<1>0. cmd.pc = "enable" /\ ServiceTypeOK /\ sys \in Systems /\ "reset" \in Pcs
    BY DEF Enable, Doing, ServiceInv, ServiceTypeOK, Pcs, InstallPcs, UninstallPcs
<1>1. CASE GoOn("reset", EnableUnit(sys))
    <2>1. EnableUnit(sys) \in Systems
        BY <1>0, EnableUnitIs
    <2>2. /\ ServiceTypeOK' /\ sys' = EnableUnit(sys)
          /\ cmd'.pc = "reset" /\ cmd'.text = cmd.text /\ cmd'.changed = cmd.changed
          /\ cmd'.clean = cmd.clean /\ cmd'.env = cmd.env /\ cmd'.purge = cmd.purge
        BY <1>0, <1>1, <2>1, GoOnIs
    <2>3. /\ sys'.file = sys.file /\ sys'.loaded = sys.file /\ sys'.enabled
          /\ sys'.linger = sys.linger /\ sys'.active = sys.active /\ sys'.runs = sys.runs
        BY <1>0, <2>2, EnableUnitIs, ServiceAssumption
        DEF ServiceInv, ServiceTypeOK, InstallSoFar, At, InstallPcs
    <2>4. SoFar'
        BY <1>0, <2>2, <2>3 DEF ServiceInv, SoFar, Same, RestsSettled, Settled, InstallSoFar,
               UninstallSoFar, At, InstallPcs, UninstallPcs
    <2> QED
        BY <2>2, <2>4 DEF ServiceInv, SoFar
<1>2. CASE Ignored("reset")
    <2>1. ServiceTypeOK' /\ SoFar'
        BY <1>0, <1>2, IgnoredIs DEF ServiceInv, SoFar, Same, RestsSettled, Settled, InstallSoFar,
            UninstallSoFar, At, InstallPcs, UninstallPcs
    <2> QED
        BY <2>1 DEF ServiceInv, SoFar
<1>3. CASE Bail
    BY <1>0, <1>3, BailStep
<1> QED
    BY <1>1, <1>2, <1>3 DEF Enable

LEMMA ResetBeforeStartStep ==
    ASSUME ServiceInv, ResetBeforeStart, Same
    PROVE  ServiceInv'
<1> USE DEF SoFar, Same, RestsSettled, Settled, InstallSoFar, UninstallSoFar, At, InstallPcs,
            UninstallPcs
<1>0. cmd.pc = "reset" /\ ServiceTypeOK /\ sys \in Systems /\ "go" \in Pcs
    BY DEF ResetBeforeStart, Doing, ServiceInv, ServiceTypeOK, Pcs
<1>1. CASE GoOn("go", ResetFailed(sys))
    <2>1. ServiceTypeOK'
        BY <1>0, <1>1, GoOnIs, ResetFailedIs
    <2>2. SoFar'
        BY <1>0, <1>1, GoOnIs, ResetFailedIs DEF ServiceInv
    <2> QED
        BY <2>1, <2>2 DEF ServiceInv
<1>2. CASE Ignored("go")
    <2>1. ServiceTypeOK' /\ SoFar'
        BY <1>0, <1>2, IgnoredIs DEF ServiceInv
    <2> QED
        BY <2>1 DEF ServiceInv
<1> QED
    BY <1>1, <1>2 DEF ResetBeforeStart

LEMMA StartServiceStep ==
    ASSUME ServiceInv, StartService, Same
    PROVE  ServiceInv'
<1> USE DEF SoFar, Same, RestsSettled, Settled, InstallSoFar, UninstallSoFar, At, InstallPcs,
            UninstallPcs
<1>0. cmd.pc = "go" /\ ServiceTypeOK /\ sys \in Systems /\ "live" \in Pcs
    BY DEF StartService, Doing, ServiceInv, ServiceTypeOK, Pcs
<1>1. CASE GoOn("live", StartOrRestart(sys))
    <2>1. ServiceTypeOK'
        BY <1>0, <1>1, GoOnIs, StartOrRestartIs
    <2>2. SoFar'
        BY <1>0, <1>1, GoOnIs, StartOrRestartIs DEF ServiceInv
    <2> QED
        BY <2>1, <2>2 DEF ServiceInv
<1>2. CASE Ignored("live")
    <2>1. ServiceTypeOK' /\ SoFar'
        BY <1>0, <1>2, IgnoredIs DEF ServiceInv
    <2> QED
        BY <2>1 DEF ServiceInv
<1>3. CASE Bail
    BY <1>0, <1>3, BailStep
<1> QED
    BY <1>1, <1>2, <1>3 DEF StartService

LEMMA InstallEnds ==
    ASSUME ServiceInv, InstallOk \/ InstallFailed, Same
    PROVE  ServiceInv'
<1>1. sys' = sys /\ cmd' = NoCommand /\ cmd.pc = "live" /\ ServiceTypeOK
    BY DEF InstallOk, InstallFailed, Return, Doing, ServiceInv
<1>2. ~faulty => Settled
    BY <1>1 DEF ServiceInv, InstallSoFar, Settled, At, InstallPcs
<1> QED
    BY <1>1, <1>2, AtRest DEF Same, Settled, ServiceTypeOK

-----------------------------------------------------------------------------
(* uninstall.                                                              *)

LEMMA UninstallStep ==
    ASSUME ServiceInv, Uninstall, Same
    PROVE  ServiceInv'
<1>0. PICK purge \in BOOLEAN, env \in SUBSET Variables :
          cmd' = [NoCommand EXCEPT !.pc = "stop", !.purge = purge, !.env = env]
    BY DEF Uninstall
<1>1. /\ cmd'.pc = "stop" /\ cmd' \in Cmds /\ sys' = sys /\ cmd.pc = "idle"
    BY <1>0 DEF Uninstall, NoCommand, Cmds, Texts, UninstallPcs, Doing
<1>2. ServiceTypeOK'
    BY <1>1 DEF ServiceInv, ServiceTypeOK, Same
<1>3. SoFar'
    BY <1>1 DEF ServiceInv, SoFar, Same, RestsSettled, Settled, InstallSoFar, UninstallSoFar,
                At, InstallPcs, UninstallPcs
<1> QED
    BY <1>2, <1>3 DEF ServiceInv, SoFar

LEMMA StopServiceStep ==
    ASSUME ServiceInv, StopService, Same
    PROVE  ServiceInv'
<1> USE DEF SoFar, Same, RestsSettled, Settled, InstallSoFar, UninstallSoFar, At, InstallPcs,
            UninstallPcs
<1>0. cmd.pc = "stop" /\ ServiceTypeOK /\ sys \in Systems /\ "disable" \in Pcs
    BY DEF StopService, Doing, ServiceInv, ServiceTypeOK, Pcs
<1>1. CASE GoOn("disable", StopUnit(sys))
    <2>1. ServiceTypeOK'
        BY <1>0, <1>1, GoOnIs, StopUnitIs
    <2>2. SoFar'
        BY <1>0, <1>1, GoOnIs, StopUnitIs DEF ServiceInv
    <2> QED
        BY <2>1, <2>2 DEF ServiceInv
<1>2. CASE Ignored("disable")
    <2>1. ServiceTypeOK' /\ SoFar'
        BY <1>0, <1>2, IgnoredIs DEF ServiceInv
    <2> QED
        BY <2>1 DEF ServiceInv
<1> QED
    BY <1>1, <1>2 DEF StopService

\* The four steps that are not a systemctl on a typed system.
LEMMA UnitEdits ==
    ASSUME NEW s \in Systems
    PROVE  /\ DisableUnit(s) \in Systems /\ ~DisableUnit(s).enabled
           /\ DisableUnit(s).file = s.file /\ DisableUnit(s).loaded = s.loaded
           /\ DisableUnit(s).active = s.active /\ DisableUnit(s).runs = s.runs
           /\ [s EXCEPT !.file = NoText] \in Systems /\ [s EXCEPT !.file = NoText].file = NoText
           /\ [s EXCEPT !.file = NoText].enabled = s.enabled
           /\ [s EXCEPT !.file = NoText].active = s.active
  BY DEF DisableUnit, Systems, Texts

LEMMA DisableStep ==
    ASSUME ServiceInv, Disable, Same
    PROVE  ServiceInv'
<1>0. cmd.pc = "disable" /\ ServiceTypeOK /\ sys \in Systems /\ "remove" \in Pcs
    BY DEF Disable, Doing, ServiceInv, ServiceTypeOK, Pcs, InstallPcs, UninstallPcs
<1>1. CASE GoOn("remove", DisableUnit(sys))
    <2>1. DisableUnit(sys) \in Systems
        BY <1>0, UnitEdits
    <2>2. /\ ServiceTypeOK' /\ sys' = DisableUnit(sys)
          /\ cmd'.pc = "remove" /\ cmd'.text = cmd.text /\ cmd'.changed = cmd.changed
          /\ cmd'.clean = cmd.clean /\ cmd'.env = cmd.env /\ cmd'.purge = cmd.purge
        BY <1>0, <1>1, <2>1, GoOnIs
    <2>3. /\ ~sys'.enabled /\ sys'.file = sys.file /\ sys'.loaded = sys.loaded
          /\ sys'.active = sys.active /\ sys'.runs = sys.runs
        BY <1>0, <2>2, UnitEdits
    <2>4. SoFar'
        BY <1>0, <2>2, <2>3 DEF ServiceInv, SoFar, Same, RestsSettled, Settled, InstallSoFar,
               UninstallSoFar, At, InstallPcs, UninstallPcs
    <2> QED
        BY <2>2, <2>4 DEF ServiceInv, SoFar
<1>2. CASE Ignored("remove")
    <2>1. ServiceTypeOK' /\ SoFar'
        BY <1>0, <1>2, IgnoredIs DEF ServiceInv, SoFar, Same, RestsSettled, Settled, InstallSoFar,
            UninstallSoFar, At, InstallPcs, UninstallPcs
    <2> QED
        BY <2>1 DEF ServiceInv, SoFar
<1>3. CASE /\ sys.file = NoText /\ UNCHANGED sys
           /\ cmd' = [cmd EXCEPT !.pc = "remove", !.clean = @ /\ ~sys.enabled]
    <2>1. cmd'.pc = "remove" /\ (cmd'.clean <=> cmd.clean /\ ~sys.enabled)
        BY <1>0, <1>3 DEF ServiceTypeOK, Cmds
    <2>2. cmd' \in Cmds
        <3>1. (cmd.clean /\ ~sys.enabled) \in BOOLEAN
            OBVIOUS
        <3> QED
            BY <1>0, <1>3, <3>1 DEF ServiceTypeOK, Cmds, Pcs
    <2>3. ServiceTypeOK'
        BY <1>0, <1>3, <2>2 DEF ServiceTypeOK, Same
    <2>4. SoFar'
        BY <1>0, <1>3, <2>1 DEF ServiceInv, SoFar, Same, RestsSettled, Settled, InstallSoFar,
               UninstallSoFar, At, InstallPcs, UninstallPcs
    <2> QED
        BY <2>3, <2>4 DEF ServiceInv, SoFar
<1> QED
    BY <1>1, <1>2, <1>3 DEF Disable

LEMMA RemoveUnitStep ==
    ASSUME ServiceInv, RemoveUnit, Same
    PROVE  ServiceInv'
<1>0. cmd.pc = "remove" /\ ServiceTypeOK /\ sys \in Systems /\ "unload" \in Pcs
    BY DEF RemoveUnit, Doing, ServiceInv, ServiceTypeOK, Pcs, InstallPcs, UninstallPcs
<1>1. CASE GoOn("unload", [sys EXCEPT !.file = NoText])
    <2>1. [sys EXCEPT !.file = NoText] \in Systems
        BY <1>0, UnitEdits
    <2>2. /\ ServiceTypeOK' /\ sys' = [sys EXCEPT !.file = NoText]
          /\ cmd'.pc = "unload" /\ cmd'.text = cmd.text /\ cmd'.changed = cmd.changed
          /\ cmd'.clean = cmd.clean /\ cmd'.env = cmd.env /\ cmd'.purge = cmd.purge
        BY <1>0, <1>1, <2>1, GoOnIs
    <2>3. sys'.file = NoText /\ sys'.enabled = sys.enabled /\ sys'.active = sys.active
        BY <1>0, <2>2, UnitEdits DEF Systems
    <2>4. SoFar'
        BY <1>0, <2>2, <2>3 DEF ServiceInv, SoFar, Same, RestsSettled, Settled, InstallSoFar,
               UninstallSoFar, At, InstallPcs, UninstallPcs
    <2> QED
        BY <2>2, <2>4 DEF ServiceInv, SoFar
<1>2. CASE Bail
    BY <1>0, <1>2, BailStep
<1> QED
    BY <1>1, <1>2 DEF RemoveUnit

LEMMA ReloadRemovedStep ==
    ASSUME ServiceInv, ReloadRemoved, Same
    PROVE  ServiceInv'
<1> USE DEF SoFar, Same, RestsSettled, Settled, InstallSoFar, UninstallSoFar, At, InstallPcs,
            UninstallPcs
<1>0. cmd.pc = "unload" /\ ServiceTypeOK /\ sys \in Systems /\ "forget" \in Pcs
    BY DEF ReloadRemoved, Doing, ServiceInv, ServiceTypeOK, Pcs
<1>1. CASE GoOn("forget", Reload(sys))
    <2>1. ServiceTypeOK'
        BY <1>0, <1>1, GoOnIs, ReloadIs
    <2>2. SoFar'
        BY <1>0, <1>1, GoOnIs, ReloadIs DEF ServiceInv
    <2> QED
        BY <2>1, <2>2 DEF ServiceInv
<1>2. CASE Ignored("forget")
    <2>1. ServiceTypeOK' /\ SoFar'
        BY <1>0, <1>2, IgnoredIs DEF ServiceInv
    <2> QED
        BY <2>1 DEF ServiceInv
<1> QED
    BY <1>1, <1>2 DEF ReloadRemoved

LEMMA ForgetFailedStep ==
    ASSUME ServiceInv, ForgetFailed, Same
    PROVE  ServiceInv'
<1> USE DEF SoFar, Same, RestsSettled, Settled, InstallSoFar, UninstallSoFar, At, InstallPcs,
            UninstallPcs
<1>0. cmd.pc = "forget" /\ ServiceTypeOK /\ sys \in Systems /\ "unlinger" \in Pcs
    BY DEF ForgetFailed, Doing, ServiceInv, ServiceTypeOK, Pcs
<1>1. CASE GoOn("unlinger", ResetFailed(sys))
    <2>1. ServiceTypeOK'
        BY <1>0, <1>1, GoOnIs, ResetFailedIs
    <2>2. SoFar'
        BY <1>0, <1>1, GoOnIs, ResetFailedIs DEF ServiceInv
    <2> QED
        BY <2>1, <2>2 DEF ServiceInv
<1>2. CASE Ignored("unlinger")
    <2>1. ServiceTypeOK' /\ SoFar'
        BY <1>0, <1>2, IgnoredIs DEF ServiceInv
    <2> QED
        BY <2>1 DEF ServiceInv
<1> QED
    BY <1>1, <1>2 DEF ForgetFailed

LEMMA DisableLingerStep ==
    ASSUME ServiceInv, DisableLinger, Same
    PROVE  ServiceInv'
<1> USE DEF SoFar, Same, RestsSettled, Settled, InstallSoFar, UninstallSoFar, At, InstallPcs,
            UninstallPcs
<1>0. cmd.pc = "unlinger" /\ ServiceTypeOK /\ sys \in Systems /\ "runtime" \in Pcs
    BY DEF DisableLinger, Doing, ServiceInv, ServiceTypeOK, Pcs
<1>1. CASE GoOn("runtime", [sys EXCEPT !.linger = FALSE])
    <2>1. ServiceTypeOK'
        BY <1>0, <1>1, GoOnIs, LingerIs
    <2>2. SoFar'
        BY <1>0, <1>1, GoOnIs, LingerIs DEF ServiceInv
    <2> QED
        BY <2>1, <2>2 DEF ServiceInv
<1>2. CASE Ignored("runtime")
    <2>1. ServiceTypeOK' /\ SoFar'
        BY <1>0, <1>2, IgnoredIs DEF ServiceInv
    <2> QED
        BY <2>1 DEF ServiceInv
<1>3. CASE "USER" \notin cmd.env /\ GoOn("runtime", sys)
    <2>1. ServiceTypeOK' /\ SoFar'
        BY <1>0, <1>3, GoOnIs DEF ServiceInv
    <2> QED
        BY <2>1 DEF ServiceInv
<1> QED
    BY <1>1, <1>2, <1>3 DEF DisableLinger, SwitchLinger

\* What removing one of the two directories does to a typed system.
LEMMA RemoveDirIs ==
    ASSUME ServiceTypeOK, NEW pc \in Pcs, NEW dir \in {"config", "runtime"},
           GoOn(pc, [sys EXCEPT !.dirs = @ \ {dir}]), Same
    PROVE  /\ ServiceTypeOK' /\ dir \notin sys'.dirs /\ sys'.dirs \subseteq sys.dirs
           /\ sys'.file = sys.file /\ sys'.loaded = sys.loaded /\ sys'.active = sys.active
           /\ sys'.runs = sys.runs /\ sys'.enabled = sys.enabled /\ sys'.linger = sys.linger
           /\ cmd'.pc = pc /\ cmd'.purge = cmd.purge /\ cmd'.env = cmd.env
           /\ cmd'.clean = cmd.clean /\ cmd'.changed = cmd.changed
<1> DEFINE d == sys.dirs \ {dir}
<1>1. sys \in Systems /\ d \in SUBSET {"config", "runtime"}
    BY DEF ServiceTypeOK, Systems
<1>2. [sys EXCEPT !.dirs = @ \ {dir}] = [sys EXCEPT !.dirs = d]
    OBVIOUS
<1>3. [sys EXCEPT !.dirs = d] \in Systems
    BY <1>1, DirsAre
<1>4. ServiceTypeOK' /\ sys' = [sys EXCEPT !.dirs = d]
      /\ cmd'.pc = pc /\ cmd'.purge = cmd.purge /\ cmd'.env = cmd.env
      /\ cmd'.clean = cmd.clean /\ cmd'.changed = cmd.changed
    BY <1>2, <1>3, GoOnIs
<1>5. dir \notin d /\ d \subseteq sys.dirs
    OBVIOUS
<1> HIDE DEF d
<1> QED
    BY <1>1, <1>4, <1>5, DirsAre

LEMMA RemoveRuntimeStep ==
    ASSUME ServiceInv, RemoveRuntime, Same
    PROVE  ServiceInv'
<1> USE DEF SoFar, Same, RestsSettled, Settled, InstallSoFar, UninstallSoFar, At, InstallPcs,
            UninstallPcs
<1>0. cmd.pc = "runtime" /\ ServiceTypeOK /\ sys \in Systems /\ "purge" \in Pcs
    BY DEF RemoveRuntime, Doing, ServiceInv, ServiceTypeOK, Pcs
<1>1. CASE GoOn("purge", [sys EXCEPT !.dirs = @ \ {"runtime"}])
    <2>1. ServiceTypeOK' /\ SoFar'
        BY <1>0, <1>1, RemoveDirIs DEF ServiceInv
    <2> QED
        BY <2>1 DEF ServiceInv
<1>2. CASE Ignored("purge")
    <2>1. ServiceTypeOK' /\ SoFar'
        BY <1>0, <1>2, IgnoredIs DEF ServiceInv
    <2> QED
        BY <2>1 DEF ServiceInv
<1>3. CASE "XDG_RUNTIME_DIR" \notin cmd.env /\ GoOn("purge", sys)
    <2>1. ServiceTypeOK' /\ SoFar'
        BY <1>0, <1>3, GoOnIs DEF ServiceInv
    <2> QED
        BY <2>1 DEF ServiceInv
<1> QED
    BY <1>1, <1>2, <1>3 DEF RemoveRuntime, RemoveDir

LEMMA PurgeStep ==
    ASSUME ServiceInv, Purge, Same
    PROVE  ServiceInv'
<1> USE DEF SoFar, Same, RestsSettled, Settled, InstallSoFar, UninstallSoFar, At, InstallPcs,
            UninstallPcs
<1>0. cmd.pc = "purge" /\ ServiceTypeOK /\ sys \in Systems /\ "done" \in Pcs
    BY DEF Purge, Doing, ServiceInv, ServiceTypeOK, Pcs
<1>1. CASE GoOn("done", [sys EXCEPT !.dirs = @ \ {"config"}])
    <2>1. ServiceTypeOK' /\ SoFar'
        BY <1>0, <1>1, RemoveDirIs DEF ServiceInv
    <2> QED
        BY <2>1 DEF ServiceInv
<1>2. CASE Ignored("done")
    <2>1. ServiceTypeOK' /\ SoFar'
        BY <1>0, <1>2, IgnoredIs DEF ServiceInv
    <2> QED
        BY <2>1 DEF ServiceInv
<1>3. CASE ~cmd.purge /\ GoOn("done", sys)
    <2>1. ServiceTypeOK' /\ SoFar'
        BY <1>0, <1>3, GoOnIs DEF ServiceInv
    <2> QED
        BY <2>1 DEF ServiceInv
<1> QED
    BY <1>1, <1>2, <1>3 DEF Purge, RemoveDir

LEMMA UninstalledStep ==
    ASSUME ServiceInv, Uninstalled, Same
    PROVE  ServiceInv'
<1>1. sys' = sys /\ cmd' = NoCommand /\ cmd.pc = "done" /\ ServiceTypeOK
    BY DEF Uninstalled, Return, Doing, ServiceInv
<1>2. ~faulty => Settled
    BY <1>1 DEF ServiceInv, UninstallSoFar, Settled, At, UninstallPcs
<1> QED
    BY <1>1, <1>2, AtRest DEF Same, Settled, ServiceTypeOK

-----------------------------------------------------------------------------
(* What goes on meanwhile.                                                 *)

LEMMA DaemonEndsStep ==
    ASSUME ServiceInv, DaemonEnds
    PROVE  ServiceInv'
<1>1. PICK a \in {"failed", "waiting", "inactive"} : sys' = Ended(sys, a)
    BY DEF DaemonEnds
<1>2. /\ sys' \in Systems /\ sys'.file = sys.file /\ sys'.loaded = sys.loaded
      /\ sys'.active = a /\ sys'.enabled = sys.enabled /\ sys'.linger = sys.linger
      /\ ~sys'.stale
    BY <1>1, EndedIs DEF ServiceInv, ServiceTypeOK
<1>3. cmd' = cmd /\ present' = present /\ faulty' = faulty /\ sys.active = "active"
    BY DEF DaemonEnds
<1>4. ServiceTypeOK'
    BY <1>2, <1>3 DEF ServiceInv, ServiceTypeOK
<1>5. RestsSettled' /\ InstallSoFar'
    BY <1>2, <1>3 DEF ServiceInv, RestsSettled, Settled, InstallSoFar, At
<1>6. UninstallSoFar'
    BY <1>2, <1>3 DEF ServiceInv, UninstallSoFar, At, UninstallPcs
<1> QED
    BY <1>4, <1>5, <1>6 DEF ServiceInv

\* It runs what is loaded; a command that stopped the unit is not met by it.
LEMMA AutoRestartStep ==
    ASSUME ServiceInv, AutoRestart
    PROVE  ServiceInv'
<1>1. /\ sys' \in Systems /\ sys'.file = sys.file /\ sys'.loaded = sys.loaded
      /\ sys'.enabled = sys.enabled /\ sys'.linger = sys.linger
      /\ sys'.active = "active" => sys'.runs = sys.loaded
      /\ ~sys'.stale
    BY StartedIs DEF AutoRestart, ServiceInv, ServiceTypeOK
<1>2. cmd' = cmd /\ present' = present /\ faulty' = faulty /\ sys.active = "waiting"
    BY DEF AutoRestart
<1>3. ServiceTypeOK'
    BY <1>1, <1>2 DEF ServiceInv, ServiceTypeOK
<1>4. RestsSettled' /\ InstallSoFar'
    BY <1>1, <1>2 DEF ServiceInv, RestsSettled, Settled, InstallSoFar, At
<1>5. UninstallSoFar'
    BY <1>1, <1>2 DEF ServiceInv, UninstallSoFar, At, UninstallPcs
<1> QED
    BY <1>3, <1>4, <1>5 DEF ServiceInv

LEMMA DaemonSavesStep ==
    ASSUME ServiceInv, DaemonSaves
    PROVE  ServiceInv'
<1>1. /\ sys' \in Systems /\ sys'.file = sys.file /\ sys'.loaded = sys.loaded
      /\ sys'.active = sys.active /\ sys'.runs = sys.runs /\ sys'.stale = sys.stale
      /\ sys'.enabled = sys.enabled /\ sys'.linger = sys.linger
    BY DirsAre DEF DaemonSaves, ServiceInv, ServiceTypeOK
<1>2. cmd' = cmd /\ present' = present /\ faulty' = faulty
    BY DEF DaemonSaves
<1>3. sys.active = "active" \/ cmd.pc = "idle"
    BY DEF DaemonSaves, Doing
<1>4. ServiceTypeOK' /\ RestsSettled' /\ InstallSoFar'
    BY <1>1, <1>2 DEF ServiceInv, ServiceTypeOK, RestsSettled, Settled, InstallSoFar, At
<1>5. UninstallSoFar'
    BY <1>1, <1>2, <1>3 DEF ServiceInv, UninstallSoFar, At, UninstallPcs
<1> QED
    BY <1>4, <1>5 DEF ServiceInv

\* enroll leaves the unit file alone, and what runs after it is what is loaded, or what ran.
LEMMA EnrollIs ==
    ASSUME ServiceInv, Enroll
    PROVE  /\ sys' \in Systems /\ sys'.file = sys.file /\ sys'.loaded = sys.loaded
           /\ sys'.active = "active" =>
                  sys'.runs = sys.loaded \/ (sys.active = "active" /\ sys'.runs = sys.runs)
<1>0. sys \in Systems
    BY DEF ServiceInv, ServiceTypeOK
<1>1. PICK stopped \in {StopUnit(sys), sys} :
          LET saved == [stopped EXCEPT !.dirs = @ \cup {"config"}] IN
          sys' \in {stopped, saved, ResetFailed(saved), RestartUnit(saved),
                    RestartUnit(ResetFailed(saved))}
    BY DEF Enroll
<1>2. /\ stopped \in Systems /\ stopped.file = sys.file /\ stopped.loaded = sys.loaded
      /\ stopped.active = "active" => sys.active = "active" /\ stopped.runs = sys.runs
    BY <1>0, StopUnitIs
<1> DEFINE saved == [stopped EXCEPT !.dirs = @ \cup {"config"}]
<1>3. /\ saved \in Systems /\ saved.file = sys.file /\ saved.loaded = sys.loaded
      /\ saved.active = stopped.active /\ saved.runs = stopped.runs
    <2> DEFINE d == stopped.dirs \cup {"config"}
    <2>1. d \in SUBSET {"config", "runtime"} /\ saved = [stopped EXCEPT !.dirs = d]
        BY <1>2 DEF Systems
    <2> HIDE DEF d, saved
    <2> QED
        BY <1>2, <2>1, DirsAre
<1>4. sys' \in {stopped, saved, ResetFailed(saved), RestartUnit(saved),
                RestartUnit(ResetFailed(saved))}
    BY <1>1
<1> HIDE DEF saved
<1>5. /\ ResetFailed(saved) \in Systems /\ ResetFailed(saved).file = sys.file
      /\ ResetFailed(saved).loaded = sys.loaded
      /\ ResetFailed(saved).active = "active" =>
             sys.active = "active" /\ ResetFailed(saved).runs = sys.runs
    BY <1>2, <1>3, ResetFailedIs
<1>6. /\ RestartUnit(saved) \in Systems /\ RestartUnit(saved).file = sys.file
      /\ RestartUnit(saved).loaded = sys.loaded
      /\ RestartUnit(saved).active = "active" => RestartUnit(saved).runs = sys.loaded
    BY <1>3, StartedIs DEF RestartUnit
<1>7. /\ RestartUnit(ResetFailed(saved)) \in Systems
      /\ RestartUnit(ResetFailed(saved)).file = sys.file
      /\ RestartUnit(ResetFailed(saved)).loaded = sys.loaded
      /\ RestartUnit(ResetFailed(saved)).active = "active" =>
             RestartUnit(ResetFailed(saved)).runs = sys.loaded
    BY <1>5, StartedIs DEF RestartUnit
<1> QED
    BY <1>2, <1>3, <1>4, <1>5, <1>6, <1>7

\* The steps that leave no command under way.
LEMMA RestStep ==
    ASSUME ServiceInv, Interrupt \/ Enroll \/ PackageChanges \/ Reboot
    PROVE  ServiceInv'
<1> USE DEF ServiceInv, ServiceTypeOK
<1>1. CASE Interrupt
    BY <1>1, AtRest DEF Interrupt, Return
<1>2. CASE Enroll
    <2>1. /\ sys' \in Systems /\ sys'.file = sys.file /\ sys'.loaded = sys.loaded
          /\ sys'.active = "active" =>
                 sys'.runs = sys.loaded \/ (sys.active = "active" /\ sys'.runs = sys.runs)
        BY <1>2, EnrollIs
    <2>2. cmd' = cmd /\ present' = present /\ faulty' = faulty /\ cmd.pc = "idle"
        BY <1>2 DEF Enroll, Doing
    <2> QED
        BY <2>1, <2>2 DEF RestsSettled, Settled, InstallSoFar, UninstallSoFar, At, InstallPcs,
                          UninstallPcs
<1>3. CASE PackageChanges
    <2>1. cmd' = cmd /\ faulty' = faulty /\ cmd.pc = "idle" /\ present' \in SUBSET Origins
        BY <1>3 DEF PackageChanges, Doing
    <2>2. /\ sys' \in Systems /\ sys'.file = sys.file /\ sys'.loaded = sys.loaded
          /\ sys'.active = sys.active /\ sys'.runs = sys.runs
        <3>1. PICK p \in Origins : sys' = sys \/ sys' = [sys EXCEPT !.stale = @ \/ sys.runs = p]
            BY <1>3 DEF PackageChanges
        <3>2. (sys.stale \/ sys.runs = p) \in BOOLEAN
            OBVIOUS
        <3> QED
            BY <3>1, <3>2 DEF Systems
    <2> QED
        BY <2>1, <2>2 DEF RestsSettled, Settled, InstallSoFar, UninstallSoFar, At, InstallPcs,
                          UninstallPcs
<1>4. CASE Reboot
    <2> DEFINE off == Ended(Reload(sys), "inactive")
    <2>1. off \in Systems /\ off.file = sys.file /\ off.loaded = sys.file /\ off.active = "inactive"
        BY ReloadIs, EndedIs
    <2>2. sys' = (IF off.enabled /\ off.linger THEN Started(off) ELSE off)
        BY <1>4 DEF Reboot
    <2> HIDE DEF off
    <2>3. /\ sys' \in Systems /\ sys'.file = sys.file /\ sys'.loaded = sys.file
          /\ sys'.active = "active" => sys'.runs = sys.file
        BY <2>1, <2>2, StartedIs
    <2>4. cmd' = NoCommand /\ present' = present /\ faulty' = faulty
        BY <1>4 DEF Reboot
    <2> QED
        BY <2>3, <2>4, AtRest DEF Settled
<1> QED
    BY <1>1, <1>2, <1>3, <1>4

-----------------------------------------------------------------------------
(* The theorems.                                                           *)

LEMMA CommandStep ==
    ASSUME ServiceInv, Commands
    PROVE  ServiceInv'
<1>1. Same
    BY DEF Commands, Same
<1> QED
    BY <1>1, InstallStep, WriteUnitStep, DaemonReloadStep, EnableLingerStep, EnableStep,
       ResetBeforeStartStep, StartServiceStep, InstallEnds, UninstallStep, StopServiceStep,
       DisableStep, RemoveUnitStep, ReloadRemovedStep, ForgetFailedStep, DisableLingerStep,
       RemoveRuntimeStep, PurgeStep, UninstalledStep
    DEF Commands

LEMMA ServiceInvariant == ServiceSpec => []ServiceInv
<1>1. ServiceInv /\ [ServiceNext]_serviceVars => ServiceInv'
    <2> SUFFICES ASSUME ServiceInv, [ServiceNext]_serviceVars PROVE ServiceInv'
        OBVIOUS
    <2>1. CASE UNCHANGED serviceVars
        BY <2>1 DEF serviceVars, ServiceInv, ServiceTypeOK, RestsSettled, Settled, InstallSoFar,
                    UninstallSoFar, At
    <2>2. CASE ServiceNext
        BY <2>2, CommandStep, DaemonEndsStep, AutoRestartStep, DaemonSavesStep, RestStep
        DEF ServiceNext
    <2> QED
        BY <2>1, <2>2
<1> QED
    BY <1>1, InvInit, PTL DEF ServiceSpec

\* An install that says so, with no failed step, leaves its unit file enabled, and lingering
\* where $USER is set; if the file had to be written, the binary that is there now runs:
\* whichever binaries there are, and whatever commands, cut short or not, upgrades, ends of
\* the daemon and reboots came before.
THEOREM InstallRunsIt == ServiceSpec => InstalledRuns
<1>1. ServiceInv =>
        [ InstallOk /\ cmd.clean =>
            /\ sys.file = cmd.text /\ sys.enabled
            /\ "USER" \in cmd.env => sys.linger
            /\ cmd.changed \/ ~faulty => sys.runs = cmd.text
            /\ cmd.changed => ~sys.stale ]_serviceVars
    BY DEF ServiceInv, InstallSoFar, InstallOk, Doing, At, InstallPcs
<1> QED
    BY <1>1, ServiceInvariant, PTL DEF InstalledRuns

\* An uninstall in which no step failed leaves nothing of the unit behind, no linger and no
\* runtime directory that the environment tells of, and no configuration after --purge, from
\* whatever state it starts.
THEOREM UninstallIsClean == ServiceSpec => UninstallLeavesNothing
<1>1. ServiceInv =>
        [ Uninstalled /\ cmd.clean =>
            /\ sys.file = NoText /\ sys.loaded = NoText /\ sys.active = "inactive"
            /\ ~sys.enabled
            /\ "USER" \in cmd.env => ~sys.linger
            /\ "XDG_RUNTIME_DIR" \in cmd.env => "runtime" \notin sys.dirs
            /\ cmd.purge => "config" \notin sys.dirs ]_serviceVars
    BY DEF ServiceInv, UninstallSoFar, Uninstalled, Doing, At, UninstallPcs
<1> QED
    BY <1>1, ServiceInvariant, PTL DEF UninstallLeavesNothing
=============================================================================
