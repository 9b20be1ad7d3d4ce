------------------------- MODULE MCAgentCredential --------------------------
(***************************************************************************)
(* AgentCredential on small instances: the token each host starts with.    *)
(***************************************************************************)
EXTENDS AgentCredential, TLC

CONSTANTS t1, t2

\* Every host was installed with the first token.
MCInstallToken == [h \in Hosts |-> t1]
=============================================================================
