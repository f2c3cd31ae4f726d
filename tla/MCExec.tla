-------------------------------- MODULE MCExec --------------------------------
(***************************************************************************)
(* Exec on small instances, with either of two environments: any program   *)
(* and a timeout that fires, as in FairSpec; or a program that writes all  *)
(* it has and then ends, and a timeout that need not.                      *)
(***************************************************************************)
EXTENDS Exec

VARIABLE patient

MCInit == Init /\ patient \in BOOLEAN
MCNext == Next /\ UNCHANGED patient

MCSpec ==
    /\ MCInit /\ [][MCNext]_<<vars, patient>> /\ WF_vars(Daemon)
    /\ IF patient THEN ProgramRuns ELSE WF_vars(TimesOut)
=============================================================================
