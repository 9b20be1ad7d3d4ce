---------------------------- MODULE MCSshConsole ----------------------------
(***************************************************************************)
(* SshConsole on small instances: see the cfg files for the bounds.        *)
(***************************************************************************)
EXTENDS SshConsole
=============================================================================
