---------------------------- MODULE AlertEngine -----------------------------
(***************************************************************************)
(* The alert engine: evaluateAlerts of apps/api/internal/httpx/            *)
(* alerts_eval.go, the rule handlers of handlers_alerts.go and the store   *)
(* calls they make.                                                        *)
(*                                                                         *)
(* Nothing evaluates rules in the background.  A request for the firing    *)
(* instances or for a server's summary lists the rules, lists the servers  *)
(* and reads the clock, takes alerts.mu, and only then looks at the data:  *)
(* what it listed may be old by the time it holds the lock.                *)
(*                                                                         *)
(* Time is kept as ages.  An age stops growing once no comparison of the   *)
(* code can tell it from a greater one.                                    *)
(***************************************************************************)
EXTENDS Integers

CONSTANTS Rules,      \* alert rules, by id
          Servers,    \* monitored servers, by server id
          Pollers,    \* requests that evaluate
          Durations,  \* the values of for_seconds, in ticks
          MaxLag,     \* bound: how long a request waits for the lock
          MaxFaults   \* bound: restarts of the API and failures of the store

ASSUME AlertAssumption ==
    /\ Durations \subseteq Nat /\ Durations # {}
    /\ MaxLag \in Nat
    /\ MaxFaults \in Nat

None == -1

\* A rule and a server: the key of breach and of firing.
Key == Rules \X Servers

\* Every duration the code compares with is at most this.
MaxFor == CHOOSE d \in Durations : \A e \in Durations : e <= d
MaxAge == MaxFor + MaxLag

\* What the store knows of a rule.  A rule counts as enabled when its expression
\* parses and its flag is set; parseRule skips the others.
Rule == [state : {"absent", "disabled", "enabled"}, for : Durations]

VARIABLES
    rules,     \* store: alerts
    servers,   \* store: servers
    since,     \* how long the latest data of a key has been over its threshold, or None
    breach,    \* alerts.breach: the age of each breach timer, or None
    firing,    \* alerts.firing
    polls,     \* each request: where it is and what it has read
    faults     \* bound bookkeeping: restarts and failures so far

vars == <<rules, servers, since, breach, firing, polls, faults>>

Idle == [stage |-> "idle"]
Listed == [stage : {"listed"}, rules : [Rules -> Rule]]
Ready == [stage : {"ready"}, rules : [Rules -> Rule], servers : SUBSET Servers,
          lag : 0..MaxLag]

TypeOK ==
    /\ rules \in [Rules -> Rule]
    /\ servers \subseteq Servers
    /\ since \in [Key -> {None} \cup 0..MaxFor]
    /\ breach \in [Key -> {None} \cup 0..MaxAge]
    /\ firing \subseteq {k \in Key : breach[k] # None}
    /\ \A p \in Pollers : polls[p] \in {Idle} \cup Listed \cup Ready
    /\ faults \in 0..MaxFaults

-----------------------------------------------------------------------------
(* evaluateAlerts. *)

Fault == faults < MaxFaults /\ faults' = faults + 1

\* The latest data of the key is over its threshold.
Over(k) == since[k] # None

\* checkRule.  A server without data is not breached, and neither is one whose
\* data the store fails to return (unread).
Breached(k, unread) == Over(k) /\ k \notin unread

\* The keys an evaluation looks at: the enabled rules it listed, on every
\* server it listed.
Looked(poll) ==
    {k \in Key : poll.rules[k[1]].state = "enabled" /\ k[2] \in poll.servers}

\* Mutant of Timer: every evaluation restarts it.
TimerRestarted(poll, k, unread) ==
    IF k \notin Looked(poll) THEN breach[k]
    ELSE IF ~Breached(k, unread) THEN None
    ELSE poll.lag

\* The breach timer of a key after an evaluation: it is dropped when the data
\* is fine, started by the request's own clock when there is none, and left
\* alone when the key is not looked at.
Timer(poll, k, unread) ==
    IF k \notin Looked(poll) THEN breach[k]
    ELSE IF ~Breached(k, unread) THEN None
    ELSE IF breach[k] = None THEN poll.lag
    ELSE breach[k]

\* now.Sub(start) >= for, by the request's clock.
Due(poll, k, unread) == Timer(poll, k, unread) - poll.lag >= poll.rules[k[1]].for

\* Mutant of Active: an instance is only dropped by an evaluation of its rule.
ActiveOrUnseen(poll, unread) ==
    {k \in Looked(poll) : Breached(k, unread) /\ Due(poll, k, unread)} \cup (firing \ Looked(poll))

\* What the evaluation found active.
Active(poll, unread) == {k \in Looked(poll) : Breached(k, unread) /\ Due(poll, k, unread)}

ListAlerts(p) ==
    /\ polls[p] = Idle
    /\ polls' = [polls EXCEPT ![p] = [stage |-> "listed", rules |-> rules]]
    /\ UNCHANGED <<rules, servers, since, breach, firing, faults>>

\* ListServers, and the clock.
ListServers(p) ==
    /\ polls[p].stage = "listed"
    /\ polls' = [polls EXCEPT ![p] =
           [stage |-> "ready", rules |-> polls[p].rules, servers |-> servers, lag |-> 0]]
    /\ UNCHANGED <<rules, servers, since, breach, firing, faults>>

\* ListAlerts or ListServers returns an error: nothing is evaluated, and the
\* request answers with what was firing.
ListFails(p) ==
    /\ polls[p].stage \in {"idle", "listed"}
    /\ Fault
    /\ polls' = [polls EXCEPT ![p] = Idle]
    /\ UNCHANGED <<rules, servers, since, breach, firing>>

\* The evaluation proper, under the lock.  Instances that are not active are
\* dropped, whatever the reason.
Evaluate(p) ==
    /\ polls[p].stage = "ready"
    /\ \E unread \in SUBSET Looked(polls[p]) :
          /\ IF unread = {} THEN UNCHANGED faults ELSE Fault
          /\ breach' = [k \in Key |-> Timer(polls[p], k, unread)]
          /\ firing' = Active(polls[p], unread)
    /\ polls' = [polls EXCEPT ![p] = Idle]
    /\ UNCHANGED <<rules, servers, since>>

-----------------------------------------------------------------------------
(* The rules, the servers and their data. *)

\* handleCreateAlert and handleUpdateAlert: the rule is replaced as a whole, and
\* a new threshold may change what is breached.  Timers are not touched.
SaveRule(r) ==
    /\ \E s \in {"disabled", "enabled"}, d \in Durations :
          rules' = [rules EXCEPT ![r] = [state |-> s, for |-> d]]
    /\ \E over \in SUBSET servers :
          since' = [k \in Key |-> IF k[1] # r THEN since[k]
                                  ELSE IF k[2] \notin over THEN None
                                  ELSE IF since[k] = None THEN 0 ELSE since[k]]
    /\ UNCHANGED <<servers, breach, firing, polls, faults>>

\* handleDeleteAlert: timers and instances stay until an evaluation drops them.
DeleteRule(r) ==
    /\ rules[r].state # "absent"
    /\ rules' = [rules EXCEPT ![r].state = "absent"]
    /\ since' = [k \in Key |-> IF k[1] = r THEN None ELSE since[k]]
    /\ UNCHANGED <<servers, breach, firing, polls, faults>>

\* A report of the agent: EnsureServer, and data that is over some thresholds.
Report(v) ==
    /\ servers' = servers \cup {v}
    /\ \E over \in SUBSET {r \in Rules : rules[r].state # "absent"} :
          since' = [k \in Key |-> IF k[2] # v THEN since[k]
                                  ELSE IF k[1] \notin over THEN None
                                  ELSE IF since[k] = None THEN 0 ELSE since[k]]
    /\ UNCHANGED <<rules, breach, firing, polls, faults>>

\* DeleteServer takes the server's data with it.
DeleteServer(v) ==
    /\ v \in servers
    /\ servers' = servers \ {v}
    /\ since' = [k \in Key |-> IF k[2] = v THEN None ELSE since[k]]
    /\ UNCHANGED <<rules, breach, firing, polls, faults>>

\* The API restarts: timers, instances and requests are memory only.
ApiRestart ==
    /\ Fault
    /\ breach' = [k \in Key |-> None]
    /\ firing' = {}
    /\ polls' = [p \in Pollers |-> Idle]
    /\ UNCHANGED <<rules, servers, since>>

Older(age, most) == IF age = None \/ age = most THEN age ELSE age + 1

Tick ==
    /\ \A p \in Pollers : polls[p].stage = "ready" => polls[p].lag < MaxLag
    /\ since' = [k \in Key |-> Older(since[k], MaxFor)]
    /\ breach' = [k \in Key |-> Older(breach[k], MaxAge)]
    /\ polls' = [p \in Pollers |-> IF polls[p].stage = "ready"
                                   THEN [polls[p] EXCEPT !.lag = @ + 1] ELSE polls[p]]
    /\ UNCHANGED <<rules, servers, firing, faults>>

-----------------------------------------------------------------------------
Init ==
    /\ \E d \in Durations : rules = [r \in Rules |-> [state |-> "absent", for |-> d]]
    /\ servers = {}
    /\ since = [k \in Key |-> None]
    /\ breach = [k \in Key |-> None]
    /\ firing = {}
    /\ polls = [p \in Pollers |-> Idle]
    /\ faults = 0

Poll(p) == ListAlerts(p) \/ ListServers(p) \/ Evaluate(p)

Next ==
    \/ \E p \in Pollers : Poll(p) \/ ListFails(p)
    \/ \E r \in Rules : SaveRule(r) \/ DeleteRule(r)
    \/ \E v \in Servers : Report(v) \/ DeleteServer(v)
    \/ ApiRestart
    \/ Tick

Spec == Init /\ [][Next]_vars

\* The dashboard keeps polling and its requests are served, some with a failure.  Time passes: it
\* waits in the model while a request holds it back, and then goes on.
Fairness ==
    /\ \A p \in Pollers : WF_vars(Poll(p))
    /\ SF_vars(Tick)

FairSpec == Spec /\ Fairness

-----------------------------------------------------------------------------
(* Properties. *)

\* The rule applies to the server, and its data is over the threshold.
Breaching(k) == rules[k[1]].state = "enabled" /\ k[2] \in servers /\ Over(k)

\* A condition that stays breached is reported in the end and stays reported,
\* however requests that read the rules, the servers and the clock at different
\* times follow each other.
PersistentBreachFires ==
    \A k \in Key : <>[]Breaching(k) => <>[](k \in firing)

\* An alert goes away once its data is fine for good, or its rule is disabled or
\* deleted for good, or its server is gone for good ("Anything not active any
\* more has recovered — drop it", evaluateAlerts).
RecoveredAlertsEnd ==
    \A k \in Key :
        (\/ <>[]~Over(k)
         \/ <>[](rules[k[1]].state # "enabled")
         \/ <>[](k[2] \notin servers))
        => <>[](k \notin firing)
=============================================================================
