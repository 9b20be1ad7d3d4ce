----------------------------- MODULE Inventory ------------------------------
(***************************************************************************)
(* From a host to the dashboard: the agent's discovery run (engine.go, with *)
(* the detectors of module Detectors), the report it sends, handleIngest    *)
(* with the calls of the store it makes one by one, the server's row and    *)
(* data in either store, their deletion, and what the control plane shows   *)
(* of them (modules ServiceAudit and Workloads).                            *)
(*                                                                          *)
(* One agent and its server.  Detectors run at the same time and read a     *)
(* host that goes on changing, and some run commands that may never return; *)
(* the agent waits for its report to be handled or stops waiting and goes   *)
(* on, and then the handler is still at work.                               *)
(***************************************************************************)
EXTENDS Detectors, Workloads

CONSTANTS Content,      \* the hosts there are: a sequence of host contents
          Others,       \* the reports the agent sends besides its discoveries
          Later,        \* what a host may turn into
          Plans         \* bounds: a host, a store, and how often the host may change, something may fail
                        \* (a detector, a report, a call of the store), and the server may be deleted

ASSUME InventoryAssumption ==
    /\ Others \subseteq {"metrics", "logs", "heartbeat"}
    /\ Later \subseteq DOMAIN Content
    /\ Plans \subseteq [host : DOMAIN Content, store : {"memory", "postgres"},
                        changes : Nat, faults : Nat, deletes : Nat]

VARIABLES
    store,      \* which store the API runs on: "memory" or "postgres"
    host,       \* the content of the host, an index of Content
    loop,       \* where the agent's main loop is: "idle", "detecting", "hung", "sending"
    during,     \* what the host has been since Engine.Run began
    results,    \* results of Engine.Run: per detector what it observed
    cache,      \* DockerStorageDetector.cached: what its last scan observed
    handlers,   \* the ingest requests at work: the one the agent waits for and one it gave up on
    row,        \* servers: no row, a row with a null, an empty or a proper host name
    discovery,  \* discovery_snapshots: the snapshot stored last
    tables,     \* which of the other tables hold data of the server
    changes, faults, deletes    \* what is left of the plan

inventoryVars == <<store, host, loop, during, results, cache, handlers, row, discovery, tables, changes, faults, deletes>>
agent == <<loop, during, results, cache>>
data == <<row, discovery, tables>>
bounds == <<changes, faults, deletes>>

(***************************************************************************)
(* What a detector observed is the host it looked at, with or without the   *)
(* containers' statistics; a snapshot is what each of them observed.        *)
(***************************************************************************)
\* The detectors whose resources the control plane joins.
DetectorList == <<"docker", "storage", "initd", "systemd", "ports", "databases", "nginx", "proxies">>
DetectorNames == ToSet(DetectorList)

Seen(h, stats) == [of |-> h, stats |-> stats]
Failed == Seen(0, FALSE)     \* an error or a panic: no resources
Pending == Seen(0, TRUE)
Observed == {Seen(h, s) : h \in DOMAIN Content, s \in BOOLEAN}

NoSnapshot == [d \in DetectorNames |-> Pending]
Snapshots == [DetectorNames -> Observed \cup {Failed}]

Detected(d, o) ==
    LET h == Content[o.of]
    IN  IF o.of = 0 THEN <<>>
        ELSE CASE d = "docker" -> DetectDocker(h, o.stats)
               [] d = "storage" -> ScanStorage(h)
               [] d = "initd" -> DetectInitd(h)
               [] d = "systemd" -> DetectSystemd(h)
               [] d = "ports" -> DetectPorts(h)
               [] d = "databases" -> DetectDatabases(h)
               [] d = "nginx" -> DetectNginx(h)
               [] d = "proxies" -> DetectProxies(h)

\* The resources of all detectors.  Engine.Run sorts them by type; types that are read together are
\* in that order here.
Resources(s) == FlattenSeq(Map(DetectorList, LAMBDA d : Detected(d, s[d])))

(***************************************************************************)
(* The host, and the agent's run                                            *)
(***************************************************************************)
Fault == faults > 0 /\ faults' = faults - 1

HostChanges ==
    /\ changes > 0 /\ changes' = changes - 1
    /\ host' \in Later \ {host}
    /\ during' = IF during = {} THEN {} ELSE during \cup {host'}
    /\ UNCHANGED <<store, loop, results, cache, handlers, data, faults, deletes>>

\* runDiscovery: every detector starts at once.
StartRun ==
    /\ loop = "idle"
    /\ loop' = "detecting"
    /\ during' = {host}
    /\ results' = NoSnapshot
    /\ UNCHANGED <<store, host, cache, handlers, data, bounds>>

\* A detector may have looked at the host at any moment of the run, whatever the others did: their
\* results are noted in the order of the list, and each is of some moment since the run began.
Returning(d) ==
    /\ loop = "detecting" /\ results[d] = Pending
    /\ \A i, j \in DOMAIN DetectorList : i < j /\ DetectorList[j] = d => results[DetectorList[i]] # Pending

Returns(d, o) == results' = [results EXCEPT ![d] = o]

\* runDetector: a detector returns, or fails, and the others do not notice.
RunDetector(d) ==
    /\ Returning(d) /\ d # "storage"
    /\ \/ (\E h \in during : Returns(d, Seen(h, TRUE))) /\ UNCHANGED faults
       \/ Fault /\ Returns(d, Failed)
       \/ d = "docker" /\ Fault /\ \E h \in during : Returns(d, Seen(h, FALSE))
    /\ UNCHANGED <<store, host, loop, during, cache, handlers, data, changes, deletes>>

\* These run systemctl and ss, which their deadline does not stop: the run, and with it the agent,
\* waits for as long as the command takes.
RunCommands == {"systemd", "ports", "databases"}

CommandHangs ==
    /\ \E d \in RunCommands : Returning(d)
    /\ Fault
    /\ loop' = "hung"
    /\ UNCHANGED <<store, host, during, results, cache, handlers, data, changes, deletes>>

CommandReturns ==
    /\ loop = "hung"
    /\ loop' = "detecting"
    /\ UNCHANGED <<store, host, during, results, cache, handlers, data, bounds>>

\* DockerStorageDetector.Detect: for four minutes the last scan is used again.
UseCachedScan ==
    /\ Returning("storage")
    /\ cache # Pending
    /\ Returns("storage", cache)
    /\ UNCHANGED <<store, host, loop, during, cache, handlers, data, bounds>>

\* Mutant: a scan is kept for as long as the agent runs.
MutCachedForGood ==
    /\ Returning("storage")
    /\ cache' = IF cache = Pending THEN Seen(host, TRUE) ELSE cache
    /\ Returns("storage", cache')
    /\ UNCHANGED <<store, host, loop, during, handlers, data, bounds>>

\* There is none yet, or it is older; one that fails leaves the last as it is.
ScanAgain ==
    /\ Returning("storage")
    /\ \/ (\E h \in during : cache' = Seen(h, TRUE)) /\ Returns("storage", cache') /\ UNCHANGED faults
       \/ Fault /\ Returns("storage", Failed) /\ UNCHANGED cache
    /\ UNCHANGED <<store, host, loop, during, handlers, data, changes, deletes>>

(***************************************************************************)
(* Reports.  A handler is the rest of its calls of the store, one by one,   *)
(* each under the store's lock; their errors are ignored.                   *)
(***************************************************************************)
\* The cases of handleIngest.
Calls(type) == CASE type = "discovery" -> <<"SaveDiscovery", "EnsureServer">>
                 [] type = "metrics" -> <<"SaveMetrics", "AppendMetricSample", "EnsureServer">>
                 [] type = "logs" -> <<"SaveLogs", "EnsureServer">>
                 [] type = "heartbeat" -> <<"EnsureServer">>

NoHandler == [type |-> "none", calls |-> <<>>, body |-> NoSnapshot]
Handler(type, body) == [type |-> type, calls |-> Calls(type), body |-> body]
AtWork(w) == handlers[w].calls # <<>>

\* Engine.Run is over: the snapshot is sent, and dropped if that fails.
SendDiscovery ==
    /\ loop = "detecting"
    /\ \A d \in DetectorNames : results[d] # Pending
    /\ results' = NoSnapshot /\ during' = {}
    /\ \/ /\ handlers' = [handlers EXCEPT !["awaited"] = Handler("discovery", results)]
          /\ loop' = "sending"
          /\ UNCHANGED faults
       \/ /\ Fault /\ loop' = "idle"
          /\ UNCHANGED handlers
    /\ UNCHANGED <<store, host, cache, data, changes, deletes>>

SendOther(type) ==
    /\ loop = "idle"
    /\ loop' = "sending"
    /\ handlers' = [handlers EXCEPT !["awaited"] = Handler(type, NoSnapshot)]
    /\ UNCHANGED <<store, host, during, results, cache, data, bounds>>

\* An empty name changes none, and makes a null one in Postgres.
EnsureInMemory(name) == IF row = "absent" \/ name # "empty" THEN name ELSE row
EnsureInPostgres(name) == IF name # "empty" THEN name ELSE IF row = "absent" THEN "null" ELSE row

EnsureServer(name) == IF store = "memory" THEN EnsureInMemory(name) ELSE EnsureInPostgres(name)

\* The table that a call writes, besides the server's row and the snapshot.
TableOf(call) == CASE call = "SaveMetrics" -> {"metrics"}
                   [] call = "AppendMetricSample" -> {"history"}
                   [] call = "SaveLogs" -> {"logs"}
                   [] OTHER -> {}

\* What a call of the store makes of the tables.
Written(call, body) ==
    /\ row' = IF call = "EnsureServer" THEN EnsureServer(IF body = NoSnapshot THEN "empty" ELSE "proper") ELSE row
    /\ discovery' = IF call = "SaveDiscovery" THEN body ELSE discovery
    /\ tables' = tables \cup TableOf(call)

\* A handler makes its next call; after the last one the agent has its answer.
HandlerStep(w) ==
    /\ AtWork(w)
    /\ LET rest == Tail(handlers[w].calls)
       IN  /\ handlers' = [handlers EXCEPT ![w] = IF rest = <<>> THEN NoHandler ELSE [@ EXCEPT !.calls = rest]]
           /\ loop' = IF w = "awaited" /\ rest = <<>> THEN "idle" ELSE loop
    /\ \/ Written(Head(handlers[w].calls), handlers[w].body) /\ UNCHANGED faults
       \/ store = "postgres" /\ Fault /\ UNCHANGED data
    /\ UNCHANGED <<store, host, during, results, cache, changes, deletes>>

\* The agent stops waiting, and sends the message again or gives it up; the handler does not know.
AgentStopsWaiting ==
    /\ AtWork("awaited") /\ ~AtWork("late")
    /\ Fault
    /\ \E again \in {NoHandler, Handler(handlers["awaited"].type, handlers["awaited"].body)} :
          /\ handlers' = [handlers EXCEPT !["late"] = handlers["awaited"], !["awaited"] = again]
          /\ loop' = IF again = NoHandler THEN "idle" ELSE loop
    /\ UNCHANGED <<store, host, during, results, cache, data, changes, deletes>>

\* Mutant: the history outlives its server.
MutLeavesHistory == {"history"} \cap tables

\* The data of a deleted server that the store keeps.
KeptByDelete == IF store = "memory" THEN {} ELSE tables

\* DeleteServer: the memory store deletes the data with the row, Postgres the row only.
DeleteServer ==
    /\ row # "absent"
    /\ deletes > 0 /\ deletes' = deletes - 1
    /\ row' = "absent"
    /\ tables' = KeptByDelete
    /\ discovery' = IF store = "memory" THEN NoSnapshot ELSE discovery
    /\ UNCHANGED <<store, host, agent, handlers, changes, faults>>

(***************************************************************************)
(* What the API shows                                                       *)
(***************************************************************************)
\* Rows whose host name is null cannot be read: ListServers fails for all of the organisation.
ListServersFails == row = "null"

\* loadSnapshot
Shown == row \notin {"absent", "null"} /\ discovery # NoSnapshot

(***************************************************************************)
(* The agent has just been enrolled.                                        *)
(***************************************************************************)
InventoryInit ==
    /\ \E plan \in Plans : /\ host = plan.host /\ store = plan.store
                           /\ changes = plan.changes /\ faults = plan.faults /\ deletes = plan.deletes
    /\ loop = "idle"
    /\ during = {}
    /\ results = NoSnapshot
    /\ cache = Pending
    /\ handlers = [w \in {"awaited", "late"} |-> NoHandler]
    /\ row = "proper"
    /\ discovery = NoSnapshot /\ tables = {}

InventoryNext ==
    \/ HostChanges
    \/ StartRun \/ (\E d \in DetectorNames : RunDetector(d)) \/ UseCachedScan \/ ScanAgain
    \/ CommandHangs \/ CommandReturns
    \/ SendDiscovery \/ (\E type \in Others : SendOther(type)) \/ AgentStopsWaiting
    \/ \E w \in {"awaited", "late"} : HandlerStep(w)
    \/ DeleteServer

InventorySpec == InventoryInit /\ [][InventoryNext]_inventoryVars

\* The discovery ticker is served (the select of the main loop is fair between tickers), a detector
\* returns unless its command hangs (nothing says that the command ever returns), a scan gets older
\* than four minutes, and a handler makes its calls.
Fairness ==
    /\ SF_inventoryVars(StartRun)
    /\ \A d \in DetectorNames : WF_inventoryVars(RunDetector(d))
    /\ SF_inventoryVars(ScanAgain) /\ WF_inventoryVars(SendDiscovery)
    /\ \A w \in {"awaited", "late"} : WF_inventoryVars(HandlerStep(w))

FairSpec == InventorySpec /\ Fairness

(***************************************************************************)
(* Properties                                                               *)
(***************************************************************************)
\* Types.
InventoryTypeOK ==
    /\ store \in {"memory", "postgres"} /\ host \in DOMAIN Content
    /\ loop \in {"idle", "detecting", "hung", "sending"}
    /\ during \subseteq DOMAIN Content
    /\ results \in [DetectorNames -> Observed \cup {Failed, Pending}]
    /\ cache \in Observed \cup {Pending}
    /\ \A w \in DOMAIN handlers : handlers[w].body \in Snapshots \cup {NoSnapshot}
    /\ row \in {"absent", "null", "empty", "proper"}
    /\ discovery \in Snapshots \cup {NoSnapshot}
    /\ tables \subseteq {"metrics", "history", "logs"}
    /\ changes \in Nat /\ faults \in Nat /\ deletes \in Nat

\* What the pages say of a snapshot depends on nothing else: it is checked when one is stored.
StoresAnother == discovery' \notin {discovery, NoSnapshot}

\* An upstream means the service it names, or what listens on its port of this machine.
Means(up, n) == up.host = n.name \/ (up.host \in {"", "localhost"} /\ up.port \in n.ports)

GroundedRelations(s) ==
    LET snap == Resources(s)
        g == ServiceGraph(snap)
        containers == ToSet(ResourcesOf(snap, {"docker_container"}))
        vhosts == ToSet(ResourcesOf(snap, VhostTypes))
    IN  \A r \in g.relations :
            /\ r.from \in DOMAIN g.nodes /\ r.to \in DOMAIN g.nodes /\ r.from # r.to
            /\ CASE r.kind = "proxy_route" ->
                        \E v \in vhosts : \E up \in ToSet(v.upstreams) : Means(up, g.nodes[r.to])
                 [] r.kind = "docker_network" ->
                        \E c, e \in containers : /\ c.id = r.from /\ e.id = r.to
                                                 /\ (c.nets \cap e.nets) \ {"bridge", "host", "none"} # {}
                 [] OTHER -> \E c, e \in containers :
                                c.id = r.from /\ e.id = r.to /\ c.project = e.project /\ c.project # ""

\* "It never invents a relationship": between whatever the detectors saw, at whatever moments and
\* with whatever failures, a relation of the audit's graph joins two different services of the
\* snapshot, and the snapshot holds what it was concluded from.
NothingInvented == [][StoresAnother => GroundedRelations(discovery')]_inventoryVars

\* The services of a host that nothing routes to and nothing is connected to: what "unrouted" claims,
\* said of the host and not of the graph.
Routed(h, name, ports) ==
    \E v \in ToSet(h.vhosts) : \E up \in ToSet(v.upstreams) :
        up.host = name \/ (up.host \in {"", "localhost"} /\ up.port \in ports)
Connected(h, c) ==
    \E e \in ToSet(h.containers) \ {c} :
        (c.nets \cap e.nets) \ {"bridge", "host", "none"} # {} \/ (c.project = e.project /\ c.project # "")
Candidate(h, x, ports) == x.name \notin Essential /\ x.status = "running" /\ ~Routed(h, x.name, ports)

Unneeded(h) ==
    LET own(c) == c.hports \cup IF h.owners THEN c.lports ELSE {}
    IN  {<<"container", c.cid>> : c \in {x \in ToSet(h.containers) :
            Candidate(h, x, own(x)) /\ own(x) \cup x.cports # {} /\ ~Connected(h, x)}}
        \cup {<<"systemd", u.name>> : u \in {x \in ToSet(h.units) :
            Candidate(h, x, x.ports) /\ h.owners /\ x.ports # {}}}
        \cup {<<"initd", i.name>> : i \in {x \in ToSet(h.scripts) :
            Candidate(h, x, x.ports) /\ h.owners /\ x.ports # {}}}

\* The services whose name is theirs alone, except a unit or script behind a database's port, which
\* the audit takes for the database.
Distinct(h) ==
    LET names == Map(h.containers, LAMBDA c : c.name) \o Map(h.scripts, LAMBDA i : i.name)
                 \o Map(h.units, LAMBDA u : u.name) \o SetToSeq(h.proxies)
                 \o SetToSeq({KnownDatabases[p] : p \in DOMAIN KnownDatabases})
        alone(x) == Len(SelectSeq(names, LAMBDA n : n = x.name)) = 1
        served(x) == alone(x) /\ x.ports \cap DOMAIN KnownDatabases = {}
    IN  {<<"container", c.cid>> : c \in {x \in ToSet(h.containers) : alone(x)}}
        \cup {<<"systemd", u.name>> : u \in {x \in ToSet(h.units) : served(x)}}
        \cup {<<"initd", i.name>> : i \in {x \in ToSet(h.scripts) : served(x)}}

\* Every virtual host routes to this machine.
RoutesStayHere(h) ==
    \A v \in ToSet(h.vhosts) : \A up \in ToSet(v.upstreams) :
        up.host \in {"", "localhost"} \cup {c.name : c \in ToSet(h.containers)}

FlagsWhatItShould(s) ==
    LET h == Content[s["docker"].of]
        snap == Resources(s)
        unrouted == Flagged(snap, "unrouted")
        gone == {v.project : v \in ToSet(h.volumes)} \ ({c.project : c \in ToSet(h.containers)} \cup {""})
    IN  (\E i \in DOMAIN Content : s = [d \in DetectorNames |-> Seen(i, TRUE)]) =>
            /\ unrouted \cap Distinct(h) \subseteq Unneeded(h)
            /\ h.proxies # {} /\ RoutesStayHere(h) => Unneeded(h) \cap Distinct(h) \subseteq unrouted
            /\ h.proxies = {} => unrouted = {}
            /\ Flagged(snap, "stopped") = {<<"container", c.cid>> :
                    c \in {x \in ToSet(h.containers) : x.status \in {"exited", "created", "paused", "dead"}
                                                       /\ x.name \notin Essential}}
            /\ Flagged(snap, "orphaned") \ {<<"storage_group", "unlabeled volumes">>}
                    = {<<"storage_group", p>> : p \in gone}

\* "A wrongly-flagged service that someone deletes is a far worse outcome": where every detector saw the
\* same host, a service that has its name to itself is flagged as unrouted only if no virtual host
\* leads to it and no container shares a network or project with it, and always if all routes stay
\* on the machine; and the audit flags exactly the stopped containers and the volumes of the projects
\* that have no container left.
AuditIsRight == [][StoresAnother => FlagsWhatItShould(discovery')]_inventoryVars

PortsAccountedFor(s) ==
    LET snap == Resources(s)
        inv == WorkloadsOf(snap)
        g == ServiceGraph(snap)
        items == {inv.items[id] : id \in DOMAIN inv.items}
        units == ToSet(SelectSeq(ResourcesOf(snap, {"systemd_unit"}), LAMBDA u : u.status = "running"))
    IN  \A lp \in ToSet(ResourcesOf(snap, {"listening_port"})) :
            /\ lp.port \in ToSet(inv.unattributed) \cup UNION {item.ports : item \in items}
            /\ \A id \in {<<"container", lp.cid>>, <<"systemd", lp.unit>>} \cap {r.id : r \in ToSet(snap)} :
                    (id[1] = "container" \/ id \in {u.id : u \in units}) =>
                        lp.port \in inv.items[id].ports /\ lp.port \in g.nodes[id].ports

\* "an unexplained open port is never silently lost": whatever detectors failed and whatever changed
\* between two of them, a socket is with a workload or listed as unattributed; and where its container
\* or its unit is known, the inventory and the audit give it to the same one.
NoPortLost == [][StoresAnother => PortsAccountedFor(discovery')]_inventoryVars

\* With the memory store a server is deleted with its data: what is left without a row was written by
\* a report that the deletion overtook, and the same report brings the row back.
NoOrphanData ==
    (store = "memory" /\ row = "absent") =>
        (tables = {} /\ discovery = NoSnapshot) \/ \E w \in DOMAIN handlers : AtWork(w)

\* Once nothing goes wrong any more, unless a detector's command hangs for good, the dashboard shows the host as it is: the list of servers works
\* again, the row has its name, and no stale scan or late report stays behind.
Settles ==
    <>[](loop # "hung") =>
    <>[](/\ Shown /\ ~ListServersFails /\ row = "proper"
         /\ discovery = [d \in DetectorNames |-> Seen(host, TRUE)])
=============================================================================
