---------------------------- MODULE ScanManager -----------------------------
(***************************************************************************)
(* Security scans: type Manager of apps/api/internal/scanner/engine.go and *)
(* the handlers of httpx/handlers_security.go that start and read scans.   *)
(*                                                                         *)
(* A scan that is started runs in a goroutine of its own, one check after  *)
(* the other; the first visit of a server's security page runs the passive *)
(* checks inside the request and stores the result when it is done.  Scans *)
(* of the same server may overlap.  Manager.mu guards the maps and job.mu  *)
(* the state of a scan; a dropped scan goes on running.                    *)
(*                                                                         *)
(* What a check finds is not modelled, only how it ends.                   *)
(***************************************************************************)
EXTENDS Naturals, Sequences, FiniteSets

CONSTANTS Servers,
          NumChecks,   \* how many checks the registry has, in the order they run
          Passive,     \* the checks that need no network
          Category,    \* the category of each check
          Modes,       \* of {"passive", "active", "full"}: what scans ask for
          Filters,     \* the category filters scans ask for
          MaxJobs,     \* maxJobs (40)
          MaxScans     \* bound: how many scans there are

Checks == 1..NumChecks
ScanId == 1..MaxScans
NoScan == 0
NoCheck == 0

ASSUME ScanAssumption ==
    /\ NumChecks \in Nat /\ MaxScans \in Nat
    /\ MaxJobs \in Nat \ {0}
    /\ Passive \subseteq Checks
    /\ Modes \subseteq {"passive", "active", "full"}
    /\ \A f \in Filters : f \subseteq {Category[c] : c \in Checks}

VARIABLES
    job,       \* every scan ever started: its state
    started,   \* how many there are; ids follow the order of StartedAt
    jobs,      \* m.jobs: the scans that can be found
    latest,    \* m.latest
    order      \* m.order

managerVars == <<jobs, latest, order>>
scanVars == <<job, started, managerVars>>

CheckStatus == {"not_run", "pass", "issues", "error", "skipped"}

\* by: the goroutine of StartScan, or a request inside RunPassiveSync, before and
\* after it has stored its result.  current: the check in hand; finished: its
\* outcome is written, by finishCheck, and advance has not counted it yet.
Job == [server : Servers, by : {"goroutine", "request", "stored"}, selected : SUBSET Checks,
        targets : BOOLEAN, status : {"queued", "running", "done"},
        current : Checks \cup {NoCheck}, panicked : BOOLEAN, finished : BOOLEAN, count : 0..1,
        completed : 0..NumChecks, checks : [Checks -> CheckStatus]]

ScanTypeOK ==
    /\ started \in 0..MaxScans
    /\ job \in [1..started -> Job]
    /\ jobs \subseteq 1..started
    /\ latest \in [Servers -> 0..started]
    /\ order \in Seq(1..started) /\ Len(order) <= MaxJobs

-----------------------------------------------------------------------------
\* selectChecks.
SelectChecks(mode, cats) ==
    {c \in Checks : /\ mode = "passive" => c \in Passive
                    /\ mode = "active" => c \notin Passive
                    /\ cats # {} => Category[c] \in cats}

NewJob(v, by, selected, targets, status) ==
    [server |-> v, by |-> by, selected |-> selected, targets |-> targets, status |-> status,
     current |-> NoCheck, panicked |-> FALSE, finished |-> FALSE, count |-> 0,
     completed |-> 0, checks |-> [c \in Checks |-> "not_run"]]

\* Mutant of Pruned: a server's latest scan is dropped like any other.
PrunedBlindly(known, last, id) == known \ {id}

\* prune: the oldest scan is dropped, unless it is some server's latest.
Pruned(known, last, id) == IF \E v \in Servers : last[v] = id THEN known ELSE known \ {id}

\* Both ways to store a scan end like this, under m.mu.
Store(id, v) ==
    LET longer == Append(order, id)
        last == [latest EXCEPT ![v] = id]
    IN  /\ latest' = last
        /\ order' = IF Len(longer) > MaxJobs THEN Tail(longer) ELSE longer
        /\ jobs' = IF Len(longer) > MaxJobs THEN Pruned(jobs \cup {id}, last, Head(longer))
                                            ELSE jobs \cup {id}

\* handleSecurityScanStart and StartScan.
StartScan(v, mode, cats, targets) ==
    /\ started < MaxScans
    /\ started' = started + 1
    /\ job' = [i \in 1..(started + 1) |->
                  IF i <= started THEN job[i]
                  ELSE NewJob(v, "goroutine", SelectChecks(mode, cats), targets, "queued")]
    /\ Store(started + 1, v)

\* handleSecurity: Latest finds nothing, so RunPassiveSync starts.
PassiveBegin(v) ==
    /\ started < MaxScans
    /\ latest[v] = NoScan
    /\ started' = started + 1
    /\ job' = [i \in 1..(started + 1) |->
                  IF i <= started THEN job[i]
                  ELSE NewJob(v, "request", SelectChecks("passive", {}), FALSE, "running")]
    /\ UNCHANGED managerVars

\* RunPassiveSync stores its result, whatever was started meanwhile.
PassiveStore(i) ==
    /\ job[i].by = "request" /\ job[i].status = "done"
    /\ job' = [job EXCEPT ![i].by = "stored"]
    /\ Store(i, job[i].server)
    /\ UNCHANGED started

-----------------------------------------------------------------------------
(* run, one check after the other. *)

RunBegins(i) ==
    /\ job[i].status = "queued"
    /\ job' = [job EXCEPT ![i].status = "running"]
    /\ UNCHANGED <<started, managerVars>>

\* The position of check c among the selected ones, from 1.
Position(i, c) == Cardinality({d \in job[i].selected : d <= c})

\* The selected check whose turn it is.
IsNext(i, c) ==
    /\ job[i].status = "running" /\ job[i].current = NoCheck
    /\ c \in job[i].selected
    /\ Position(i, c) = job[i].completed + 1

\* Mutant of CheckSkipped: the check is passed over without finishCheck.
CheckSkippedUnmarked(i, c) ==
    /\ IsNext(i, c) /\ c \notin Passive /\ ~job[i].targets
    /\ job' = [job EXCEPT ![i].current = c, ![i].finished = TRUE]
    /\ UNCHANGED <<started, managerVars>>

\* An active check without a target is skipped: finishCheck, and advance to come.
CheckSkipped(i, c) ==
    /\ IsNext(i, c) /\ c \notin Passive /\ ~job[i].targets
    /\ job' = [job EXCEPT ![i].current = c, ![i].checks[c] = "skipped", ![i].finished = TRUE]
    /\ UNCHANGED <<started, managerVars>>

CheckBegins(i, c) ==
    /\ IsNext(i, c) /\ (c \in Passive \/ job[i].targets)
    /\ job' = [job EXCEPT ![i].current = c, ![i].count = 0]
    /\ UNCHANGED <<started, managerVars>>

\* The check in hand is inside runOne.
InRunOne(i) == job[i].current # NoCheck /\ ~job[i].finished

\* emit.
CheckEmits(i) ==
    /\ InRunOne(i) /\ ~job[i].panicked
    /\ job[i].count = 0
    /\ job' = [job EXCEPT ![i].count = 1]
    /\ UNCHANGED <<started, managerVars>>

\* runOne recovers a panic: the check is marked as failed.
CheckPanics(i) ==
    /\ InRunOne(i) /\ ~job[i].panicked
    /\ job' = [job EXCEPT ![i].panicked = TRUE, ![i].checks[job[i].current] = "error"]
    /\ UNCHANGED <<started, managerVars>>

\* The status run gives a check that has returned, by its findings alone.
FinalStatus(count) == IF count > 0 THEN "issues" ELSE "pass"

\* runOne has returned, after a panic or not: finishCheck.  A check whose requests
\* all failed, because its target is unreachable or its 30 s or the scan's three
\* minutes are over, returns like one that found nothing.
CheckReturns(i) ==
    /\ InRunOne(i)
    /\ job' = [job EXCEPT ![i].checks[job[i].current] = FinalStatus(job[i].count),
                          ![i].finished = TRUE, ![i].panicked = FALSE]
    /\ UNCHANGED <<started, managerVars>>

\* advance, in a lock section of its own.
Advance(i) ==
    /\ job[i].finished
    /\ job' = [job EXCEPT ![i].completed = Position(i, job[i].current),
                          ![i].current = NoCheck, ![i].finished = FALSE]
    /\ UNCHANGED <<started, managerVars>>

\* Every check is through: findings are sorted and the scan is done.
ScanFinishes(i) ==
    /\ job[i].status = "running" /\ job[i].current = NoCheck
    /\ job[i].completed = Cardinality(job[i].selected)
    /\ job' = [job EXCEPT ![i].status = "done"]
    /\ UNCHANGED <<started, managerVars>>

-----------------------------------------------------------------------------
ScanInit ==
    /\ job = << >>
    /\ started = 0
    /\ jobs = {}
    /\ latest = [v \in Servers |-> NoScan]
    /\ order = << >>

RunStep(i) ==
    \/ RunBegins(i)
    \/ \E c \in Checks : CheckSkipped(i, c) \/ CheckBegins(i, c)
    \/ CheckEmits(i) \/ CheckPanics(i) \/ CheckReturns(i) \/ Advance(i)
    \/ ScanFinishes(i) \/ PassiveStore(i)

ScanNext ==
    \/ \E v \in Servers : \/ PassiveBegin(v)
                          \/ \E mode \in Modes, cats \in Filters, targets \in BOOLEAN :
                                StartScan(v, mode, cats, targets)
    \/ \E i \in 1..started : RunStep(i)

ScanSpec == ScanInit /\ [][ScanNext]_scanVars

-----------------------------------------------------------------------------
(* Properties. *)

\* The page never loses its scan: a server's latest scan can be found and is one
\* of that server, however many scans of other servers came after it ("Keep it
\* if it's still some server's latest").
LatestRetained ==
    \A v \in Servers : latest[v] # NoScan =>
        latest[v] \in jobs /\ job[latest[v]].server = v

\* The checks of scan i that a reader sees an outcome of.
Shown(i) == {c \in Checks : job[i].checks[c] # "not_run"}

\* What a reader may rely on while it polls, whatever panics: outcomes appear in
\* the order of the registry and for selected checks only; the progress counts
\* them, or is one behind, between finishCheck and advance; and a scan that says
\* done has counted and dealt with every check it selected.
ProgressIsTrue ==
    \A i \in 1..started :
        /\ Shown(i) \subseteq job[i].selected
        /\ \A c \in Shown(i), d \in job[i].selected : d < c => d \in Shown(i)
        /\ Cardinality(Shown(i)) - job[i].completed \in {0, 1}
        /\ job[i].status = "done" => /\ Shown(i) = job[i].selected
                                     /\ job[i].completed = Cardinality(Shown(i))
=============================================================================
