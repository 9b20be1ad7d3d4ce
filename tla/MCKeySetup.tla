----------------------------- MODULE MCKeySetup -----------------------------
(***************************************************************************)
(* KeySetup next to an operator who edits the file.                        *)
(***************************************************************************)
EXTENDS KeySetup
=============================================================================
