---------------------------- MODULE MCAlertEngine ---------------------------
(***************************************************************************)
(* AlertEngine on small instances: see the cfg files for the bounds.       *)
(***************************************************************************)
EXTENDS AlertEngine
=============================================================================
