-------------------------- MODULE ScanManagerProofs -------------------------
(***************************************************************************)
(* For any number of servers, checks and overlapping scans, and every size *)
(* of the history: a server's latest scan is never pruned, and what a scan *)
(* reports of its progress is true.                                        *)
(***************************************************************************)
EXTENDS ScanManager, TLAPS, FiniteSetTheorems, SequenceTheorems

\* The checks of a scan that have an outcome and are not in hand.
Through(j) == {c \in Checks : j.checks[c] # "not_run" /\ c # j.current}

\* The selected checks up to c, and before it.
UpTo(j, c) == {d \in j.selected : d <= c}
Before(j, c) == {d \in j.selected : d < c}

\* What holds of one scan at any time.  The checks that are through are counted
\* and come first; the one in hand is the next of the selection, and it has an
\* outcome from a panic, or from finishCheck, on.
JobInv(j) ==
    /\ j.completed = Cardinality(Through(j))
    /\ Through(j) \subseteq j.selected
    /\ \A c \in Through(j), d \in j.selected : d < c => d \in Through(j)
    /\ j.status # "running" => j.current = NoCheck
    /\ j.status = "done" => Through(j) = j.selected
    /\ j.current # NoCheck => j.current \in j.selected /\ Through(j) = Before(j, j.current)
    /\ j.panicked \/ j.finished => j.current # NoCheck
    /\ ~(j.panicked /\ j.finished)
    /\ j.current # NoCheck =>
          (j.checks[j.current] # "not_run" <=> j.panicked \/ j.finished)

ScansAreRight == \A i \in 1..started : JobInv(job[i])

\* The inductive invariant.
IInv == ScanTypeOK /\ LatestRetained /\ ScansAreRight

-----------------------------------------------------------------------------
(* One scan. *)

LEMMA ConstantsAreNat ==
    /\ NumChecks \in Nat /\ MaxScans \in Nat /\ MaxJobs \in Nat /\ MaxJobs >= 1
    /\ Checks \subseteq Nat /\ NoCheck \notin Checks
  BY ScanAssumption DEF Checks, NoCheck

\* Sets of checks are finite and within the registry.
LEMMA ChecksAreFinite ==
    ASSUME NEW S \in SUBSET Checks
    PROVE  /\ IsFiniteSet(S)
           /\ Cardinality(S) \in 0..NumChecks
<1>1. IsFiniteSet(Checks) /\ Cardinality(Checks) = NumChecks
  BY ConstantsAreNat, FS_Interval DEF Checks
<1>2. IsFiniteSet(S) /\ Cardinality(S) <= NumChecks
  BY <1>1, FS_Subset
<1> QED
  BY <1>2, ConstantsAreNat, FS_CardinalityType

\* A selected check is one more than the ones before it.
LEMMA OneMore ==
    ASSUME NEW j \in Job, NEW c \in j.selected
    PROVE  /\ UpTo(j, c) = Before(j, c) \cup {c}
           /\ Cardinality(UpTo(j, c)) = Cardinality(Before(j, c)) + 1
           /\ Cardinality(UpTo(j, c)) \in 0..NumChecks
           /\ Cardinality(Before(j, c)) \in 0..NumChecks
<1>1. j.selected \in SUBSET Checks /\ \A d \in j.selected : d \in Nat
  BY ConstantsAreNat DEF Job
<1>2. /\ UpTo(j, c) = Before(j, c) \cup {c} /\ c \notin Before(j, c)
      /\ UpTo(j, c) \in SUBSET Checks /\ Before(j, c) \in SUBSET Checks
  BY <1>1 DEF UpTo, Before
<1>3. IsFiniteSet(Before(j, c)) /\ Cardinality(UpTo(j, c)) \in 0..NumChecks
      /\ Cardinality(Before(j, c)) \in 0..NumChecks
  BY <1>2, ChecksAreFinite
<1> QED
  BY <1>2, <1>3, FS_AddElement

\* The check that is next by its position is the one right after those that are
\* through: both come first in the selection, and there are as many of them.
LEMMA NextComesAfterThrough ==
    ASSUME NEW j \in Job, JobInv(j), NEW c \in j.selected,
           Cardinality(UpTo(j, c)) = j.completed + 1
    PROVE  Through(j) = Before(j, c)
<1>1. /\ j.selected \in SUBSET Checks /\ \A d \in j.selected : d \in Nat
      /\ Through(j) \in SUBSET Checks /\ Before(j, c) \in SUBSET Checks
  BY ConstantsAreNat DEF Job, Through, Before
<1>2. /\ IsFiniteSet(Through(j)) /\ Cardinality(Through(j)) \in Nat
      /\ IsFiniteSet(Before(j, c)) /\ Cardinality(Before(j, c)) \in Nat
  BY <1>1, ChecksAreFinite
<1>3. Cardinality(Through(j)) = Cardinality(Before(j, c))
  BY <1>2, OneMore DEF JobInv
<1>4. CASE Through(j) \subseteq Before(j, c)
  BY <1>2, <1>3, <1>4, FS_Subset
<1>5. CASE ~(Through(j) \subseteq Before(j, c))
  <2>1. PICK e \in Through(j) : e \notin Before(j, c)
    BY <1>5
  <2>2. e \in j.selected /\ ~(e < c) /\ e \in Nat /\ c \in Nat
    BY <1>1, <2>1 DEF JobInv, Before
  <2>3. Before(j, c) \subseteq Through(j)
    BY <1>1, <2>1, <2>2 DEF JobInv, Before
  <2> QED
    BY <1>2, <1>3, <2>3, FS_Subset
<1> QED
  BY <1>4, <1>5

\* A scan that has just been made.
LEMMA NewJobHolds ==
    ASSUME NEW v \in Servers, NEW by \in {"goroutine", "request"},
           NEW selected \in SUBSET Checks, NEW targets \in BOOLEAN,
           NEW status \in {"queued", "running"}
    PROVE  LET j == NewJob(v, by, selected, targets, status)
           IN  j \in Job /\ JobInv(j) /\ j.server = v
<1> DEFINE j == NewJob(v, by, selected, targets, status)
<1>1. j \in Job
  BY ConstantsAreNat DEF NewJob, Job, CheckStatus
<1>2. Through(j) = {}
  BY DEF Through, NewJob
<1>3. JobInv(j)
  BY <1>2, FS_EmptySet, ConstantsAreNat DEF JobInv, NewJob
<1> QED
  BY <1>1, <1>3 DEF NewJob

LEMMA SelectionIsOfChecks ==
    \A mode, cats : SelectChecks(mode, cats) \in SUBSET Checks
  BY DEF SelectChecks

-----------------------------------------------------------------------------
(* The manager. *)

LEMMA InitHolds == ScanInit => IInv
<1> SUFFICES ASSUME ScanInit PROVE IInv
  OBVIOUS
<1>1. 1..0 = {} /\ started = 0
  BY DEF ScanInit
<1>2. job \in [1..started -> Job]
  BY <1>1 DEF ScanInit
<1>3. order \in Seq(1..started) /\ Len(order) <= MaxJobs
  BY <1>1, ConstantsAreNat DEF ScanInit
<1>4. ScanTypeOK
  BY <1>1, <1>2, <1>3, ConstantsAreNat DEF ScanInit, ScanTypeOK, NoScan
<1>5. LatestRetained /\ ScansAreRight
  BY <1>1 DEF ScanInit, LatestRetained, ScansAreRight
<1> QED
  BY <1>4, <1>5 DEF IInv

\* Storing a scan drops none that is the latest of its server, whatever the
\* order in which overlapping scans are stored.
LEMMA StoreKeepsLatest ==
    ASSUME IInv, NEW n \in Nat, n >= started, NEW id \in 1..n, NEW v \in Servers, Store(id, v)
    PROVE  /\ jobs' \subseteq 1..n
           /\ latest' \in [Servers -> 0..n]
           /\ order' \in Seq(1..n) /\ Len(order') <= MaxJobs
           /\ latest'[v] = id /\ id \in jobs'
           /\ \A w \in Servers : w # v => latest'[w] = latest[w]
           /\ \A w \in Servers : latest'[w] # NoScan => latest'[w] \in jobs'
<1> DEFINE longer == Append(order, id)
           last == [latest EXCEPT ![v] = id]
<1>1. /\ jobs \subseteq 1..started /\ latest \in [Servers -> 0..started]
      /\ order \in Seq(1..started) /\ Len(order) <= MaxJobs /\ started \in Nat
      /\ \A w \in Servers : latest[w] # NoScan => latest[w] \in jobs
  BY DEF IInv, ScanTypeOK, LatestRetained
<1>2. 1..started \subseteq 1..n /\ 0..started \subseteq 0..n
  BY <1>1
<1>3. order \in Seq(1..n)
  BY <1>1, <1>2
<1>4. /\ longer \in Seq(1..n) /\ Len(longer) = Len(order) + 1 /\ longer # << >>
      /\ Len(order) \in Nat
  BY <1>3
<1>0. order' = IF Len(longer) > MaxJobs THEN Tail(longer) ELSE longer
  BY DEF Store
<1> HIDE DEF longer
<1>5. Tail(longer) \in Seq(1..n) /\ Len(Tail(longer)) = Len(order)
  BY <1>4, HeadTailProperties
<1>6. order' \in Seq(1..n) /\ Len(order') <= MaxJobs
  <2>1. MaxJobs \in Nat /\ Len(order) \in Nat /\ Len(order) <= MaxJobs
    BY <1>1, <1>4, ConstantsAreNat
  <2>2. CASE Len(longer) > MaxJobs
    BY <1>0, <1>5, <2>1, <2>2
  <2>3. CASE ~(Len(longer) > MaxJobs)
    BY <1>0, <1>4, <2>1, <2>3
  <2> QED
    BY <2>2, <2>3
<1>7. /\ last \in [Servers -> 0..n] /\ last[v] = id
      /\ \A w \in Servers : w # v => last[w] = latest[w]
      /\ latest' = last
  BY <1>1, <1>2 DEF Store
<1>8. \A w \in Servers : last[w] # NoScan => last[w] \in jobs \cup {id}
  BY <1>1, <1>7
<1>9. jobs' \in {jobs \cup {id}, Pruned(jobs \cup {id}, last, Head(longer))}
  BY DEF Store, longer
<1>10. /\ jobs' \subseteq 1..n
       /\ \A w \in Servers : last[w] # NoScan => last[w] \in jobs'
  BY <1>1, <1>2, <1>8, <1>9 DEF Pruned
<1>11. id # NoScan
  BY DEF NoScan
<1> QED
  BY <1>6, <1>7, <1>10, <1>11

\* A scan is added to those there are.
LEMMA StartKeepsInv ==
    ASSUME IInv, NEW j \in Job, JobInv(j), started < MaxScans, started' = started + 1,
           job' = [i \in 1..(started + 1) |-> IF i <= started THEN job[i] ELSE j],
           Store(started + 1, j.server) \/ UNCHANGED managerVars
    PROVE  IInv'
<1>1. /\ started \in 0..MaxScans /\ started' \in 0..MaxScans /\ started \in Nat
      /\ job \in [1..started -> Job] /\ j.server \in Servers
  BY ConstantsAreNat DEF IInv, ScanTypeOK, Job
<1>2. /\ job' \in [1..started' -> Job]
      /\ \A i \in 1..started : job'[i] = job[i]
      /\ job'[started + 1] = j
  BY <1>1
<1>3. ScansAreRight'
  BY <1>1, <1>2 DEF IInv, ScansAreRight
<1>4. CASE Store(started + 1, j.server)
  <2>1. /\ jobs' \subseteq 1..started'
        /\ latest' \in [Servers -> 0..started']
        /\ order' \in Seq(1..started') /\ Len(order') <= MaxJobs
        /\ latest'[j.server] = started + 1 /\ started + 1 \in jobs'
        /\ \A w \in Servers : w # j.server => latest'[w] = latest[w]
        /\ \A w \in Servers : latest'[w] # NoScan => latest'[w] \in jobs'
    BY <1>1, <1>4, StoreKeepsLatest
  <2>2. ScanTypeOK'
    BY <1>1, <1>2, <2>1 DEF ScanTypeOK
  <2>3. LatestRetained'
    <3> SUFFICES ASSUME NEW w \in Servers, latest'[w] # NoScan
                 PROVE  latest'[w] \in jobs' /\ job'[latest'[w]].server = w
      BY DEF LatestRetained
    <3>1. CASE w = j.server
      BY <1>2, <2>1, <3>1
    <3>2. CASE w # j.server
      BY <1>1, <1>2, <2>1, <3>2 DEF IInv, ScanTypeOK, LatestRetained
    <3> QED
      BY <3>1, <3>2
  <2> QED
    BY <1>3, <2>2, <2>3 DEF IInv
<1>5. CASE UNCHANGED managerVars
  <2>1. order \in Seq(1..started')
    BY <1>1 DEF IInv, ScanTypeOK
  <2>2. ScanTypeOK'
    BY <1>1, <1>2, <1>5, <2>1 DEF IInv, ScanTypeOK, managerVars
  <2>3. LatestRetained'
    BY <1>1, <1>2, <1>5 DEF IInv, ScanTypeOK, managerVars, LatestRetained
  <2> QED
    BY <1>3, <2>2, <2>3 DEF IInv
<1> QED
  BY <1>4, <1>5

\* A scan of those there are changes.
LEMMA JobStepKeepsInv ==
    ASSUME IInv, NEW i \in 1..started, NEW j \in Job, JobInv(j), j.server = job[i].server,
           job' = [job EXCEPT ![i] = j], started' = started,
           Store(i, j.server) \/ UNCHANGED managerVars
    PROVE  IInv'
<1>1. /\ started \in Nat /\ job \in [1..started -> Job] /\ j.server \in Servers
  BY ConstantsAreNat DEF IInv, ScanTypeOK, Job
<1>2. /\ job' \in [1..started -> Job]
      /\ \A k \in 1..started : k # i => job'[k] = job[k]
      /\ job'[i] = j
      /\ \A k \in 1..started : job'[k].server = job[k].server
  BY <1>1
<1>3. ScansAreRight'
  BY <1>2 DEF IInv, ScansAreRight
<1>4. CASE Store(i, j.server)
  <2>0. started >= started
    BY <1>1
  <2>1. /\ jobs' \subseteq 1..started
        /\ latest' \in [Servers -> 0..started]
        /\ order' \in Seq(1..started) /\ Len(order') <= MaxJobs
        /\ latest'[j.server] = i /\ i \in jobs'
        /\ \A w \in Servers : w # j.server => latest'[w] = latest[w]
        /\ \A w \in Servers : latest'[w] # NoScan => latest'[w] \in jobs'
    BY <1>1, <1>4, <2>0, StoreKeepsLatest
  <2>2. ScanTypeOK'
    BY <1>2, <2>1 DEF IInv, ScanTypeOK
  <2>3. LatestRetained'
    <3> SUFFICES ASSUME NEW w \in Servers, latest'[w] # NoScan
                 PROVE  latest'[w] \in jobs' /\ job'[latest'[w]].server = w
      BY DEF LatestRetained
    <3>1. CASE w = j.server
      BY <1>2, <2>1, <3>1
    <3>2. CASE w # j.server
      BY <1>1, <1>2, <2>1, <3>2 DEF IInv, ScanTypeOK, LatestRetained
    <3> QED
      BY <3>1, <3>2
  <2> QED
    BY <1>3, <2>2, <2>3 DEF IInv
<1>5. CASE UNCHANGED managerVars
  <2>1. ScanTypeOK'
    BY <1>1, <1>2, <1>5 DEF IInv, ScanTypeOK, managerVars
  <2>2. LatestRetained'
    BY <1>1, <1>2, <1>5 DEF IInv, ScanTypeOK, managerVars, LatestRetained
  <2> QED
    BY <1>3, <2>1, <2>2 DEF IInv
<1> QED
  BY <1>4, <1>5

-----------------------------------------------------------------------------
(* The steps of a scan. *)

\* What the invariant says of scan i.
LEMMA JobHolds ==
    ASSUME IInv, NEW i \in 1..started
    PROVE  job[i] \in Job /\ JobInv(job[i])
  BY DEF IInv, ScanTypeOK, ScansAreRight

\* A scan that is stored, or begins to run.
LEMMA StatusSteps ==
    ASSUME IInv, NEW i \in 1..started, PassiveStore(i) \/ RunBegins(i)
    PROVE  IInv'
<1>0. job[i] \in Job /\ JobInv(job[i])
  BY JobHolds
<1>1. CASE PassiveStore(i)
  <2> DEFINE j == [job[i] EXCEPT !.by = "stored"]
  <2>1. j \in Job /\ j.server = job[i].server
    BY <1>0 DEF Job
  <2>2. JobInv(j)
    BY <1>0 DEF Job, JobInv, Through, Before
  <2>3. job' = [job EXCEPT ![i] = j] /\ started' = started /\ Store(i, job[i].server)
    BY <1>1 DEF PassiveStore
  <2> HIDE DEF j
  <2> QED
    BY <2>1, <2>2, <2>3, JobStepKeepsInv
<1>2. CASE RunBegins(i)
  <2> DEFINE j == [job[i] EXCEPT !.status = "running"]
  <2>1. j \in Job /\ j.server = job[i].server
    BY <1>0 DEF Job
  <2>2. JobInv(j)
    BY <1>0, <1>2 DEF Job, JobInv, Through, Before, RunBegins
  <2>3. job' = [job EXCEPT ![i] = j] /\ started' = started /\ UNCHANGED managerVars
    BY <1>2 DEF RunBegins
  <2> HIDE DEF j
  <2> QED
    BY <2>1, <2>2, <2>3, JobStepKeepsInv
<1> QED
  BY <1>1, <1>2

LEMMA ScanFinishesKeepsInv ==
    ASSUME IInv, NEW i \in 1..started, ScanFinishes(i)
    PROVE  IInv'
<1>0. job[i] \in Job /\ JobInv(job[i])
  BY JobHolds
<1> DEFINE j == [job[i] EXCEPT !.status = "done"]
<1>1. j \in Job /\ j.server = job[i].server
  BY <1>0 DEF Job
<1>2. Through(job[i]) = job[i].selected
  <2>1. job[i].selected \in SUBSET Checks /\ Through(job[i]) \subseteq job[i].selected
    BY <1>0 DEF Job, JobInv
  <2>2. IsFiniteSet(job[i].selected)
    BY <2>1, ChecksAreFinite
  <2>3. Cardinality(Through(job[i])) = Cardinality(job[i].selected)
    BY <1>0 DEF ScanFinishes, JobInv
  <2> QED
    BY <2>1, <2>2, <2>3, FS_Subset
<1>3. JobInv(j)
  BY <1>0, <1>2 DEF Job, JobInv, Through, Before, ScanFinishes
<1>4. job' = [job EXCEPT ![i] = j] /\ started' = started /\ UNCHANGED managerVars
  BY DEF ScanFinishes
<1> HIDE DEF j
<1> QED
  BY <1>1, <1>3, <1>4, JobStepKeepsInv

\* What IsNext says of the check it names.
LEMMA NextCheck ==
    ASSUME IInv, NEW i \in 1..started, NEW c \in Checks, IsNext(i, c)
    PROVE  /\ c \in job[i].selected /\ c # NoCheck
           /\ job[i].status = "running" /\ job[i].current = NoCheck
           /\ ~job[i].panicked /\ ~job[i].finished
           /\ Through(job[i]) = Before(job[i], c)
           /\ job[i].checks[c] = "not_run"
<1>0. job[i] \in Job /\ JobInv(job[i])
  BY JobHolds
<1>1. /\ c \in job[i].selected /\ c # NoCheck /\ job[i].status = "running"
      /\ job[i].current = NoCheck /\ ~job[i].panicked /\ ~job[i].finished
      /\ Cardinality(UpTo(job[i], c)) = job[i].completed + 1
  BY <1>0, ConstantsAreNat DEF IsNext, Position, UpTo, JobInv
<1>2. Through(job[i]) = Before(job[i], c)
  BY <1>0, <1>1, NextComesAfterThrough
<1>3. c \notin Before(job[i], c)
  BY <1>1, ConstantsAreNat DEF Before
<1> QED
  BY <1>1, <1>2, <1>3 DEF Through

LEMMA CheckBeginsKeepsInv ==
    ASSUME IInv, NEW i \in 1..started, NEW c \in Checks, CheckBegins(i, c)
    PROVE  IInv'
<1>0. job[i] \in Job /\ JobInv(job[i])
  BY JobHolds
<1> DEFINE j == [job[i] EXCEPT !.current = c, !.count = 0]
<1>1. j \in Job /\ j.server = job[i].server
  <2>1. c \in Checks \cup {NoCheck} /\ 0 \in 0..1
    OBVIOUS
  <2> QED
    BY <1>0, <2>1 DEF Job
<1>2. IsNext(i, c)
  BY DEF CheckBegins
<1>3. /\ j.current = c /\ j.checks = job[i].checks /\ j.selected = job[i].selected
      /\ j.completed = job[i].completed /\ j.status = job[i].status
      /\ j.panicked = job[i].panicked /\ j.finished = job[i].finished
  BY <1>0 DEF Job
<1> HIDE DEF j
<1>4. Through(j) = Through(job[i]) /\ Before(j, c) = Before(job[i], c)
  BY <1>0, <1>2, <1>3, NextCheck, ConstantsAreNat DEF Through, Before
<1>5. JobInv(j)
  BY <1>0, <1>2, <1>3, <1>4, NextCheck DEF JobInv
<1>6. job' = [job EXCEPT ![i] = j] /\ started' = started /\ UNCHANGED managerVars
  BY DEF CheckBegins, j
<1> QED
  BY <1>1, <1>5, <1>6, JobStepKeepsInv

LEMMA CheckEmitsKeepsInv ==
    ASSUME IInv, NEW i \in 1..started, CheckEmits(i)
    PROVE  IInv'
<1>0. job[i] \in Job /\ JobInv(job[i])
  BY JobHolds
<1> DEFINE j == [job[i] EXCEPT !.count = 1]
<1>1. j \in Job /\ j.server = job[i].server
  BY <1>0 DEF Job
<1>2. JobInv(j)
  BY <1>0 DEF Job, JobInv, Through, Before
<1>3. job' = [job EXCEPT ![i] = j] /\ started' = started /\ UNCHANGED managerVars
  BY DEF CheckEmits
<1> HIDE DEF j
<1> QED
  BY <1>1, <1>2, <1>3, JobStepKeepsInv

\* The check in hand gets an outcome: a panic, a skip or its return.
LEMMA OutcomeKeepsInv ==
    ASSUME IInv, NEW i \in 1..started, NEW c \in Checks,
           job[i].status = "running", c \in job[i].selected,
           Through(job[i]) = Before(job[i], c), job[i].current \in {NoCheck, c},
           NEW status \in CheckStatus \ {"not_run"},
           NEW panicked \in BOOLEAN, NEW finished \in BOOLEAN, panicked # finished,
           NEW j,
           j = [job[i] EXCEPT !.checks = [job[i].checks EXCEPT ![c] = status],
                              !.current = c, !.panicked = panicked, !.finished = finished],
           job' = [job EXCEPT ![i] = j], UNCHANGED <<started, managerVars>>
    PROVE  IInv'
<1>0. job[i] \in Job /\ JobInv(job[i])
  BY JobHolds
<1> DEFINE marked == [job[i].checks EXCEPT ![c] = status]
<1>1. /\ job[i].checks \in [Checks -> CheckStatus] /\ status \in CheckStatus
      /\ status # "not_run" /\ c # NoCheck
  BY <1>0, ConstantsAreNat DEF Job
<1>2. /\ marked \in [Checks -> CheckStatus] /\ marked[c] # "not_run"
      /\ \A d \in Checks : d # c => marked[d] = job[i].checks[d]
  BY <1>1
<1> HIDE DEF marked
<1>3. /\ j.checks = marked /\ j.completed = job[i].completed
      /\ j.current = c /\ j.panicked = panicked /\ j.finished = finished
      /\ j.selected = job[i].selected /\ j.status = "running" /\ j.server = job[i].server
  BY <1>0 DEF Job, marked
<1>4. c \notin Before(job[i], c) /\ Before(j, c) = Before(job[i], c)
  BY <1>3, ConstantsAreNat DEF Before
<1>5. Through(j) = Through(job[i])
  <2>1. c \notin Through(job[i]) /\ c \notin Through(j)
    BY <1>3, <1>4 DEF Through
  <2>2. ASSUME NEW d \in Checks, d # c PROVE d \in Through(j) <=> d \in Through(job[i])
    BY <1>1, <1>2, <1>3, <2>2, ConstantsAreNat DEF Through
  <2> QED
    BY <2>1, <2>2 DEF Through
<1>6. c \in Checks \cup {NoCheck}
  OBVIOUS
<1>7. j \in Job
  BY <1>0, <1>2, <1>3, <1>6 DEF Job, marked
<1>8. JobInv(j)
  BY <1>0, <1>1, <1>2, <1>3, <1>4, <1>5 DEF JobInv
<1> QED
  BY <1>3, <1>7, <1>8, JobStepKeepsInv

\* A panic gives the check in hand an outcome before runOne returns.
LEMMA CheckPanicsKeepsInv ==
    ASSUME IInv, NEW i \in 1..started, CheckPanics(i)
    PROVE  IInv'
<1>0. job[i] \in Job /\ JobInv(job[i])
  BY JobHolds
<1> DEFINE c == job[i].current
           j == [job[i] EXCEPT !.checks = [job[i].checks EXCEPT ![c] = "error"],
                               !.current = c, !.panicked = TRUE, !.finished = FALSE]
<1>1. /\ c \in Checks /\ c # NoCheck /\ c \in job[i].selected /\ job[i].status = "running"
      /\ Through(job[i]) = Before(job[i], c) /\ job[i].finished = FALSE
  BY <1>0 DEF CheckPanics, InRunOne, Job, JobInv
<1>2. "error" \in CheckStatus \ {"not_run"}
  BY DEF CheckStatus
<1>3. j = [job[i] EXCEPT !.panicked = TRUE, !.checks = [job[i].checks EXCEPT ![c] = "error"]]
  BY <1>0, <1>1 DEF Job
<1>4. job' = [job EXCEPT ![i] = j] /\ UNCHANGED <<started, managerVars>>
  BY <1>3 DEF CheckPanics
<1> HIDE DEF c
<1>5. job[i].current \in {NoCheck, c}
  BY DEF c
<1> QED
  BY <1>1, <1>2, <1>4, <1>5, OutcomeKeepsInv

LEMMA CheckSkippedKeepsInv ==
    ASSUME IInv, NEW i \in 1..started, NEW c \in Checks, CheckSkipped(i, c)
    PROVE  IInv'
<1>0. job[i] \in Job /\ JobInv(job[i])
  BY JobHolds
<1> DEFINE j == [job[i] EXCEPT !.checks = [job[i].checks EXCEPT ![c] = "skipped"],
                               !.current = c, !.panicked = FALSE, !.finished = TRUE]
<1>1. IsNext(i, c)
  BY DEF CheckSkipped
<1>2. /\ job[i].current = NoCheck /\ job[i].panicked = FALSE /\ job[i].status = "running"
      /\ c \in job[i].selected /\ Through(job[i]) = Before(job[i], c)
  BY <1>0, <1>1, NextCheck DEF Job
<1>3. "skipped" \in CheckStatus \ {"not_run"}
  BY DEF CheckStatus
<1>4. j = [job[i] EXCEPT !.current = c, !.checks = [job[i].checks EXCEPT ![c] = "skipped"],
                         !.finished = TRUE]
  BY <1>0, <1>2 DEF Job
<1>5. job' = [job EXCEPT ![i] = j] /\ UNCHANGED <<started, managerVars>>
  BY <1>4 DEF CheckSkipped
<1> QED
  BY <1>2, <1>3, <1>5, OutcomeKeepsInv

LEMMA CheckReturnsKeepsInv ==
    ASSUME IInv, NEW i \in 1..started, CheckReturns(i)
    PROVE  IInv'
<1>0. job[i] \in Job /\ JobInv(job[i])
  BY JobHolds
<1> DEFINE c == job[i].current
           status == FinalStatus(job[i].count)
           j == [job[i] EXCEPT !.checks = [job[i].checks EXCEPT ![c] = status],
                               !.current = c, !.panicked = FALSE, !.finished = TRUE]
<1>1. /\ c \in Checks /\ c # NoCheck /\ c \in job[i].selected /\ job[i].status = "running"
      /\ Through(job[i]) = Before(job[i], c)
  BY <1>0 DEF CheckReturns, InRunOne, Job, JobInv
<1>2. status \in CheckStatus \ {"not_run"}
  BY DEF CheckStatus, FinalStatus
<1> HIDE DEF status
<1>3. j = [job[i] EXCEPT !.checks = [job[i].checks EXCEPT ![c] = status],
                         !.finished = TRUE, !.panicked = FALSE]
  BY <1>0, <1>1 DEF Job
<1>4. job' = [job EXCEPT ![i] = j] /\ UNCHANGED <<started, managerVars>>
  BY <1>3 DEF CheckReturns, status
<1> HIDE DEF c
<1>5. job[i].current \in {NoCheck, c}
  BY DEF c
<1> QED
  BY <1>1, <1>2, <1>4, <1>5, OutcomeKeepsInv

\* The check in hand is counted: it joins those that are through.
LEMMA AdvanceKeepsInv ==
    ASSUME IInv, NEW i \in 1..started, Advance(i)
    PROVE  IInv'
<1>0. job[i] \in Job /\ JobInv(job[i])
  BY JobHolds
<1> DEFINE c == job[i].current
           n == Cardinality(UpTo(job[i], c))
           j == [job[i] EXCEPT !.completed = n, !.current = NoCheck, !.finished = FALSE]
<1>1. /\ c \in Checks /\ c # NoCheck /\ c \in job[i].selected /\ job[i].status = "running"
      /\ Through(job[i]) = Before(job[i], c) /\ job[i].panicked = FALSE
      /\ job[i].checks[c] # "not_run"
  BY <1>0 DEF Advance, Job, JobInv
<1>2. n \in 0..NumChecks /\ UpTo(job[i], c) = Before(job[i], c) \cup {c}
  BY <1>0, <1>1, OneMore
<1> HIDE DEF n
<1>3. job' = [job EXCEPT ![i] = j] /\ UNCHANGED <<started, managerVars>>
  BY DEF Advance, Position, UpTo, n
<1>4. /\ j \in Job /\ j.server = job[i].server
      /\ j.checks = job[i].checks /\ j.completed = n
      /\ j.current = NoCheck /\ j.panicked = FALSE /\ j.finished = FALSE
      /\ j.selected = job[i].selected /\ j.status = "running"
  BY <1>0, <1>1, <1>2 DEF Job
<1> HIDE DEF c, j
<1>5. Through(j) = Through(job[i]) \cup {c}
  BY <1>1, <1>4, ConstantsAreNat DEF Through, c
<1>6. Through(j) = UpTo(job[i], c)
  BY <1>1, <1>2, <1>5
<1>7. \A d \in Through(j), e \in j.selected : e < d => e \in Through(j)
  <2>1. \A e \in job[i].selected : e \in Nat
    BY <1>0, ConstantsAreNat DEF Job
  <2> QED
    BY <1>1, <1>4, <1>6, <2>1 DEF UpTo
<1>8. JobInv(j)
  <2>1. j.completed = Cardinality(Through(j)) /\ Through(j) \subseteq j.selected
    BY <1>4, <1>6 DEF n, UpTo
  <2> QED
    BY <1>4, <1>7, <2>1 DEF JobInv
<1> QED
  BY <1>3, <1>4, <1>8, JobStepKeepsInv

-----------------------------------------------------------------------------
(* The theorems. *)

LEMMA StartsKeepInv ==
    ASSUME IInv, NEW v \in Servers,
           \/ PassiveBegin(v)
           \/ \E mode \in Modes, cats \in Filters, targets \in BOOLEAN :
                 StartScan(v, mode, cats, targets)
    PROVE  IInv'
<1>1. CASE PassiveBegin(v)
  <2> DEFINE j == NewJob(v, "request", SelectChecks("passive", {}), FALSE, "running")
  <2>1. j \in Job /\ JobInv(j) /\ j.server = v
    BY NewJobHolds, SelectionIsOfChecks
  <2> QED
    BY <1>1, <2>1, StartKeepsInv DEF PassiveBegin
<1>2. ASSUME NEW mode \in Modes, NEW cats \in Filters, NEW targets \in BOOLEAN,
             StartScan(v, mode, cats, targets)
      PROVE  IInv'
  <2> DEFINE j == NewJob(v, "goroutine", SelectChecks(mode, cats), targets, "queued")
  <2>1. j \in Job /\ JobInv(j) /\ j.server = v
    BY NewJobHolds, SelectionIsOfChecks
  <2> QED
    BY <1>2, <2>1, StartKeepsInv DEF StartScan
<1> QED
  BY <1>1, <1>2

LEMMA NextKeepsInv == IInv /\ [ScanNext]_scanVars => IInv'
<1> SUFFICES ASSUME IInv, [ScanNext]_scanVars PROVE IInv'
  OBVIOUS
<1>1. CASE UNCHANGED scanVars
  BY <1>1 DEF scanVars, managerVars, IInv, ScanTypeOK, LatestRetained, ScansAreRight
<1>2. ASSUME NEW v \in Servers,
             \/ PassiveBegin(v)
             \/ \E mode \in Modes, cats \in Filters, targets \in BOOLEAN :
                   StartScan(v, mode, cats, targets)
      PROVE  IInv'
  BY <1>2, StartsKeepInv
<1>3. ASSUME NEW i \in 1..started, RunStep(i)
      PROVE  IInv'
  BY <1>3, StatusSteps, ScanFinishesKeepsInv, CheckBeginsKeepsInv, CheckSkippedKeepsInv,
     CheckReturnsKeepsInv, CheckEmitsKeepsInv, CheckPanicsKeepsInv, AdvanceKeepsInv DEF RunStep
<1> QED
  BY <1>1, <1>2, <1>3 DEF ScanNext

\* Type correctness, the bound of the history included, with what holds of every
\* scan between any two of its lock sections.
THEOREM ScanInvariant == ScanSpec => []IInv
<1> QED
  BY InitHolds, NextKeepsInv, PTL DEF ScanSpec

\* However many scans run and however small the history is, the page of a server
\* finds that server's latest scan.
THEOREM ScanLatestRetained == ScanSpec => []LatestRetained
<1>1. IInv => LatestRetained
  BY DEF IInv
<1> QED
  BY <1>1, ScanInvariant, PTL

\* For any number of checks and whatever panics: outcomes appear in the order of
\* the registry, the progress is at most one behind them, and a scan that is done
\* has dealt with the checks it selected and with no other.
THEOREM ScanProgressIsTrue == ScanSpec => []ProgressIsTrue
<1>1. IInv => ProgressIsTrue
  <2> SUFFICES ASSUME IInv, NEW i \in 1..started
               PROVE  /\ Shown(i) \subseteq job[i].selected
                      /\ \A c \in Shown(i), d \in job[i].selected : d < c => d \in Shown(i)
                      /\ Cardinality(Shown(i)) - job[i].completed \in {0, 1}
                      /\ job[i].status = "done" =>
                            /\ Shown(i) = job[i].selected
                            /\ job[i].completed = Cardinality(Shown(i))
    BY DEF ProgressIsTrue
  <2>1. /\ job[i] \in Job /\ JobInv(job[i])
        /\ \A c \in Checks : c \in Nat /\ c # NoCheck
    BY JobHolds, ConstantsAreNat
  <2> DEFINE j == job[i]
  <2>2. CASE Shown(i) = Through(j)
    <3>1. Cardinality(Shown(i)) = j.completed /\ j.completed \in Nat
      BY <2>1, <2>2 DEF JobInv, Job
    <3> QED
      BY <2>1, <2>2, <3>1 DEF JobInv
  <2>3. CASE Shown(i) # Through(j)
    <3>1. j.current # NoCheck /\ j.current \in Shown(i)
      BY <2>1, <2>3 DEF Shown, Through
    <3>2. /\ j.current \in j.selected /\ Through(j) = Before(j, j.current)
          /\ j.status = "running"
      BY <2>1, <3>1 DEF JobInv, Job
    <3>3. Shown(i) = Through(j) \cup {j.current}
      BY <2>1, <3>1 DEF Shown, Through
    <3>4. /\ UpTo(j, j.current) = Shown(i)
          /\ Cardinality(Shown(i)) = j.completed + 1 /\ j.completed \in Nat
      <4>1. /\ UpTo(j, j.current) = Before(j, j.current) \cup {j.current}
            /\ Cardinality(UpTo(j, j.current)) = Cardinality(Before(j, j.current)) + 1
        BY <2>1, <3>2, OneMore
      <4>2. j.completed = Cardinality(Through(j)) /\ j.completed \in Nat
        BY <2>1 DEF JobInv, Job
      <4> QED
        BY <3>2, <3>3, <4>1, <4>2
    <3>5. j.selected \subseteq Nat
      BY <2>1 DEF Job
    <3>6. /\ Shown(i) \subseteq j.selected
          /\ \A c \in Shown(i), d \in j.selected : d < c => d \in Shown(i)
      <4> HIDE DEF j
      <4> QED
        BY <3>2, <3>4, <3>5 DEF UpTo
    <3>7. Cardinality(Shown(i)) - j.completed \in {0, 1}
      BY <3>4
    <3> QED
      BY <3>2, <3>6, <3>7
  <2> QED
    BY <2>2, <2>3
<1> QED
  BY <1>1, ScanInvariant, PTL
=============================================================================
