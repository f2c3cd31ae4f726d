--------------------------- MODULE MCDesktopHelper ---------------------------
(* DesktopHelper on small instances: see the .cfg files. *)
EXTENDS DesktopHelper
=============================================================================
