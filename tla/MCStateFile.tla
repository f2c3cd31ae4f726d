----------------------------- MODULE MCStateFile -----------------------------
(* StateFile on small instances: see the .cfg files. *)
EXTENDS StateFile
=============================================================================
