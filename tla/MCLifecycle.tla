---------------------------- MODULE MCLifecycle ----------------------------
(* Lifecycle on small instances: see the .cfg files. *)
EXTENDS Lifecycle

NoFault == {}
AllFaults == FaultKinds
UnitOnly == {TRUE}
TerminalOnly == {FALSE}
UnitOrTerminal == {TRUE, FALSE}
=============================================================================
