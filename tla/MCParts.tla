------------------------------ MODULE MCParts -------------------------------
(***************************************************************************)
(* Six small parts on small instances: the offline buffer of the agent,    *)
(* the rate limiter, the single-use check on signed requests, the scan     *)
(* manager, the history of a metric and the setup of an SSH key.  They     *)
(* share nothing, so a behaviour is a behaviour of one part, chosen at the *)
(* start; the others stay as they begin.                                   *)
(***************************************************************************)
EXTENDS RingBuffer, Limiter, SignedRequest, ScanManager, MetricHistory, KeySetup, TLC

VARIABLE part   \* the part that the behaviour is about

\* The parts that begin in several ways begin in one where they are not the
\* subject.
PartsInit ==
    /\ part \in {"ring", "limiter", "signed", "scans", "history", "setup"}
    /\ RingInit /\ LimiterInit /\ Init /\ ScanInit
    /\ HistoryInit /\ (part # "history" => backend = "memory")
    /\ SetupInit /\ (part # "setup" => want = {} /\ ~present /\ ~offers)

Is(p) == part = p /\ UNCHANGED part

PartsNext ==
    \/ /\ Is("ring") /\ RingNext
       /\ UNCHANGED <<limiterVars, vars, scanVars, historyVars, setupVars>>
    \/ /\ Is("limiter") /\ LimiterNext
       /\ UNCHANGED <<ringVars, vars, scanVars, historyVars, setupVars>>
    \/ /\ Is("signed") /\ Next
       /\ UNCHANGED <<ringVars, limiterVars, scanVars, historyVars, setupVars>>
    \/ /\ Is("scans") /\ ScanNext
       /\ UNCHANGED <<ringVars, limiterVars, vars, historyVars, setupVars>>
    \/ /\ Is("history") /\ HistoryNext
       /\ UNCHANGED <<ringVars, limiterVars, vars, scanVars, setupVars>>
    \/ /\ Is("setup") /\ SetupNext
       /\ UNCHANGED <<ringVars, limiterVars, vars, scanVars, historyVars>>

PartsSpec ==
    PartsInit /\ [][PartsNext]_<<part, ringVars, limiterVars, vars, scanVars, historyVars, setupVars>>

-----------------------------------------------------------------------------
\* PriorityHistorical, PriorityHealth, PriorityCritical (the iota in cache.go).
MCPriorities == {0, 1, 2}

\* Far enough in the past that no clock of the instance is.
MCMinDuration == -9

\* One passive and one active check, a category each; no filter, and one for the
\* active check.
MCPassive == {1}
MCCategory == <<"host", "web">>
MCFilters == {{}, {"web"}}

\* A counter that rises, is reset and rises again.
MCCounter == <<3, 5, 1, 4>>

\* Clients, requests, verifiers and setups are interchangeable.
Symmetric == Permutations(Keys) \cup Permutations(Requests) \cup Permutations(Verifiers)
             \cup Permutations(Setups)
=============================================================================
