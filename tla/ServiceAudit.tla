---------------------------- MODULE ServiceAudit ----------------------------
(***************************************************************************)
(* What the control plane makes of a discovery snapshot: the service audit  *)
(* (handlers_service_audit.go, service_audit_rules.go), as operators on a   *)
(* sequence of resources.                                                   *)
(*                                                                          *)
(* Names are in lower case already and ids are tuples.  Byte counts are in  *)
(* units of the threshold they are compared with, "quiet" stands for        *)
(* processor and traffic below their thresholds; texts, and the order in    *)
(* which findings are listed, are left out.                                 *)
(***************************************************************************)
EXTENDS Naturals, Sequences, FiniteSets, SequencesExt, FiniteSetsExt

CONSTANTS Essential,    \* names that essentialNames and essentialPrefixes match
          MaxGroup      \* maxGroup of linkAll

NoId == <<>>
Lookup(f, k) == IF k \in DOMAIN f THEN f[k] ELSE NoId

VhostTypes == {"nginx_vhost", "apache_vhost", "caddy_site", "traefik_router", "haproxy_frontend"}

ResourcesOf(snap, types) == SelectSeq(snap, LAMBDA r : r.type \in types)

(***************************************************************************)
(* The graph                                                                *)
(***************************************************************************)
IsEssential(name) == name \in Essential

Node(id, name, kind, status) ==
    [id |-> id, name |-> name, kind |-> kind, status |-> status, engine |-> "", ports |-> {}, public |-> {},
     quiet |-> TRUE, mem |-> 0, disk |-> 0, routes |-> {}, essential |-> IsEssential(name)]

EmptyGraph ==
    [nodes |-> <<>>, order |-> <<>>, relations |-> {}, byName |-> <<>>, byPort |-> <<>>, byContainer |-> <<>>,
     sawProxy |-> FALSE, sawStorage |-> FALSE, unattributed |-> 0]

\* A node that is there already stays as it is; a name belongs to the last that took it.
Put(g, n) ==
    IF n.id \in DOMAIN g.nodes THEN g
    ELSE [g EXCEPT !.nodes = (n.id :> n) @@ @, !.order = Append(@, n.id), !.byName = (n.name :> n.id) @@ @]

\* dedupeRelations keeps one of each: a set.
Relate(g, from, to, kind) ==
    IF NoId \in {from, to} \/ from = to THEN g
    ELSE [g EXCEPT !.relations = @ \cup {[from |-> from, to |-> to, kind |-> kind]}]

Peers(g, id) == {r.to : r \in {x \in g.relations : x.from = id}}
                \cup {r.from : r \in {x \in g.relations : x.to = id}}

\* Published ports go to the container, whoever had them.
AddContainer(g, c) ==
    LET h == Put(g, [Node(c.id, c.name, "container", c.status) EXCEPT !.quiet = c.quiet, !.mem = c.mem])
    IN  [h EXCEPT !.nodes[c.id].ports = @ \cup c.hports \cup c.cports,
                  !.byPort = [p \in c.hports |-> c.id] @@ @,
                  !.byContainer = (c.cid :> c.id) @@ @]

\* A systemd unit or an init script.
AddHostService(g, u) == IF u.status = "running" THEN Put(g, Node(u.id, u.name, "service", u.status)) ELSE g

\* A containerised engine is its container; any other is a node, with the ports nobody has.
AddDatabase(g, db) ==
    IF db.cid \in DOMAIN g.byContainer
    THEN [g EXCEPT !.nodes[g.byContainer[db.cid]].engine = IF @ = "" THEN db.engine ELSE @]
    ELSE LET h == Put(g, [Node(db.id, db.name, "database", db.status) EXCEPT !.engine = db.engine])
         IN  [h EXCEPT !.nodes[db.id].ports = @ \cup db.hports,
                       !.byPort = @ @@ [p \in db.hports |-> db.id]]

AddProxy(g, rp) ==
    LET h == Put(g, [Node(rp.id, rp.name, "proxy", "") EXCEPT !.engine = rp.engine])
    IN  [h EXCEPT !.sawProxy = TRUE, !.nodes[rp.id].essential = TRUE]

AttachStorage(g, cs) ==
    LET id == Lookup(g.byName, cs.name)
        h == [g EXCEPT !.sawStorage = TRUE]
    IN  IF cs.type = "container_storage" /\ id # NoId THEN [h EXCEPT !.nodes[id].disk = cs.disk] ELSE h

\* Whose socket it is: the container's, the unit's or the process's, in that order.
Owner(g, lp) ==
    LET ids == <<Lookup(g.byContainer, lp.cid), Lookup(g.byName, lp.unit), Lookup(g.byName, lp.process)>>
        known == {i \in 1..3 : ids[i] # NoId}
    IN  IF known = {} THEN NoId ELSE ids[Min(known)]

AttachPort(g, lp) ==
    LET id == Owner(g, lp)
    IN  IF id = NoId THEN [g EXCEPT !.unattributed = IF lp.process = "" THEN @ + 1 ELSE @]
        ELSE [g EXCEPT !.nodes[id].ports = @ \cup {lp.port},
                       !.nodes[id].public = @ \cup IF lp.exposure = "public" THEN {lp.port} ELSE {},
                       !.byPort = @ @@ (lp.port :> id)]

\* Mutant: an upstream is only looked up by its port.
MutResolveByPort(g, up) == Lookup(g.byPort, up.port)

\* A named upstream is a service; anything else, and a name that is none, is a port.
ResolveUpstream(g, up) ==
    IF up.host \notin {"", "localhost"} /\ up.host \in DOMAIN g.byName
    THEN g.byName[up.host]
    ELSE Lookup(g.byPort, up.port)

LinkProxyRoute(g, vh) ==
    LET link(h, up) ==
            LET target == ResolveUpstream(h, up)
                proxy == <<"reverse_proxy", vh.engine>>
                routed == [h EXCEPT !.nodes[target].routes = @ \cup {vh.name}]
            IN  IF target = NoId THEN h
                ELSE IF proxy \in DOMAIN h.nodes THEN Relate(routed, proxy, target, "proxy_route") ELSE routed
    IN  FoldLeft(link, [g EXCEPT !.sawProxy = TRUE], vh.upstreams)

\* Groups that are too wide are skipped.
LinkAll(g, ids, kind) ==
    IF Len(ids) \notin 2..MaxGroup THEN g
    ELSE FoldSet(LAMBDA pair, h : Relate(h, ids[pair[1]], ids[pair[2]], kind), g,
                 {pair \in (1..Len(ids)) \X (1..Len(ids)) : pair[1] < pair[2]})

UserNetworks(c) == c.nets \ {"bridge", "host", "none"}

\* No detector sets DependsOn, so that no relation of the kind depends_on arises.
LinkContainers(g, cs) ==
    LET group(in(_)) == LET members == SelectSeq(cs, in) IN [i \in DOMAIN members |-> members[i].id]
        nets == UNION {UserNetworks(cs[i]) : i \in DOMAIN cs}
        projects == {cs[i].project : i \in DOMAIN cs} \ {""}
        byNet == FoldSet(LAMBDA n, h : LinkAll(h, group(LAMBDA c : n \in UserNetworks(c)), "docker_network"), g, nets)
    IN  FoldSet(LAMBDA p, h : LinkAll(h, group(LAMBDA c : c.project = p), "compose"), byNet, projects)

\* newServiceGraph
ServiceGraph(snap) ==
    LET containers == FoldLeft(AddContainer, EmptyGraph, ResourcesOf(snap, {"docker_container"}))
        services == FoldLeft(AddHostService, containers, ResourcesOf(snap, {"initd_service", "systemd_unit"}))
        databases == FoldLeft(AddDatabase, services, ResourcesOf(snap, {"database"}))
        proxies == FoldLeft(AddProxy, databases, ResourcesOf(snap, {"reverse_proxy"}))
        storage == FoldLeft(AttachStorage, proxies, ResourcesOf(snap, {"container_storage", "docker_storage"}))
        ports == FoldLeft(AttachPort, storage, ResourcesOf(snap, {"listening_port"}))
        routes == FoldLeft(LinkProxyRoute, ports, ResourcesOf(snap, VhostTypes))
    IN  LinkContainers(routes, ResourcesOf(snap, {"docker_container"}))

(***************************************************************************)
(* The rules                                                                *)
(***************************************************************************)
Finding(category, n, severity, confidence, mem, disk) ==
    [category |-> category, subject |-> n.id, severity |-> severity, confidence |-> confidence,
     mem |-> mem, disk |-> disk]

NodesOf(g) == {g.nodes[id] : id \in DOMAIN g.nodes}
Unconnected(g, n) == n.routes = {} /\ Peers(g, n.id) = {}

RuleStoppedContainers(g) ==
    {Finding("stopped", n, "low", "high", 0, n.disk) :
        n \in {x \in NodesOf(g) : /\ x.kind = "container" /\ ~x.essential
                                  /\ x.status \notin {"running", "restarting", ""}}}

RuleUnrouted(g) ==
    {Finding("unrouted", n, "medium", "medium", n.mem, n.disk) :
        n \in {x \in NodesOf(g) : /\ g.sawProxy
                                  /\ ~x.essential /\ x.kind # "proxy" /\ x.status = "running"
                                  /\ x.ports # {} /\ Unconnected(g, x)}}

RuleIdle(g) ==
    {Finding("idle", n, "medium", IF Unconnected(g, n) THEN "medium" ELSE "low", n.mem, n.disk) :
        n \in {x \in NodesOf(g) : /\ ~x.essential /\ x.kind # "proxy" /\ x.status = "running"
                                  /\ x.mem >= 1 /\ x.quiet}}

RuleUnreferencedDatabases(g) ==
    {Finding("unreferenced", n, "info", "low", n.mem, n.disk) :
        n \in {x \in NodesOf(g) : /\ ~x.essential /\ x.engine # "" /\ x.kind \in {"database", "container"}
                                  /\ Unconnected(g, x)}}

\* Infrastructure is not exempt from this one.
RuleDuplicateEngines(g) ==
    LET counted == SelectSeq(g.order, LAMBDA id : g.nodes[id].engine # "" /\ g.nodes[id].status # "exited")
        group(e) == SelectSeq(counted, LAMBDA id : g.nodes[id].engine = e)
        several == {e \in {g.nodes[counted[i]].engine : i \in DOMAIN counted} : Len(group(e)) >= 2}
        sum(e, f(_)) == FoldLeft(LAMBDA acc, id : acc + f(g.nodes[id]), 0, group(e))
    IN  {LET first == g.nodes[group(e)[1]]
         IN  Finding("duplicate", first, IF first.kind = "proxy" THEN "low" ELSE "info", "medium",
                     sum(e, LAMBDA n : n.mem), sum(e, LAMBDA n : n.disk)) : e \in several}

RuleOrphanedStorage(snap) ==
    {Finding("orphaned", sg, "low", "medium", 0, sg.disk) :
        sg \in {x \in ToSet(ResourcesOf(snap, {"storage_group"})) :
                    x.volumes > 0 /\ x.containers = 0 /\ x.disk >= 1}}

Findings(snap) ==
    LET g == ServiceGraph(snap)
    IN  UNION {RuleStoppedContainers(g), RuleUnrouted(g), RuleIdle(g), RuleUnreferencedDatabases(g),
               RuleDuplicateEngines(g), RuleOrphanedStorage(snap)}

\* The blind spots the answer admits, beyond the ones it always names.
Limitations(g) == {l \in {"no proxy", "unattributed", "no storage"} :
                     \/ l = "no proxy" /\ ~g.sawProxy
                     \/ l = "unattributed" /\ g.unattributed > 0
                     \/ l = "no storage" /\ ~g.sawStorage}

\* buildServiceAudit: every finding adds what it would free, also when two are about one service.
Audit(snap) ==
    LET g == ServiceGraph(snap)
        found == Findings(snap)
        count(c) == Cardinality({f \in found : f.category = c})
    IN  [nodes |-> NodesOf(g), relations |-> g.relations, findings |-> found, limitations |-> Limitations(g),
         totals |-> [services |-> Len(g.order), relations |-> Cardinality(g.relations), flagged |-> Cardinality(found),
                     mem |-> MapThenSumSet(LAMBDA f : f.mem, found), disk |-> MapThenSumSet(LAMBDA f : f.disk, found),
                     unrouted |-> count("unrouted"), stopped |-> count("stopped")]]

Flagged(snap, category) == {f.subject : f \in {x \in Findings(snap) : x.category = category}}
=============================================================================
