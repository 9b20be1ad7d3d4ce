----------------------------- MODULE Detectors ------------------------------
(***************************************************************************)
(* What the agent's detectors report of a host: docker.go, dockerstorage.go, *)
(* initd.go, systemd.go, ports.go, databases.go, nginx.go and proxies.go, as *)
(* operators from the content of a host to resources.  A host is             *)
(*   containers  its containers                                              *)
(*   scripts     its init scripts and the ports their processes listen on    *)
(*   units       its systemd units and the ports they listen on              *)
(*   volumes     its Docker volumes                                          *)
(*   proxies     the reverse proxies installed                               *)
(*   vhosts      their virtual hosts                                         *)
(*   owners      whether the agent may see which process owns a socket       *)
(* Engine.Run sorts the resources of a type by their names at the end, and   *)
(* a host lists what it has in that order.                                   *)
(***************************************************************************)
EXTENDS ServiceAudit

CONSTANTS KnownDatabases,   \* the engine behind each default port
          MaxStorageRows    \* maxContainerStorageRows

Map(s, f(_)) == [i \in DOMAIN s |-> f(s[i])]

\* Statistics are read for running containers, best effort: without them a container has none.
DetectDocker(h, stats) ==
    Map(h.containers, LAMBDA c :
        LET live == stats /\ c.status = "running"
        IN  [type |-> "docker_container", id |-> <<"container", c.cid>>, cid |-> c.cid, name |-> c.name,
             status |-> c.status, project |-> c.project, nets |-> c.nets, hports |-> c.hports,
             cports |-> c.cports,
             quiet |-> IF live THEN c.quiet ELSE TRUE, mem |-> IF live THEN c.mem ELSE 0])

\* The storage group of a container, and of a volume.
GroupOfContainer(c) == IF c.project = "" THEN "standalone" ELSE c.project
GroupOfVolume(v) == IF v.project = "" THEN "unlabeled volumes" ELSE v.project

\* Containers that wrote nothing are skipped, the largest come first.
ContainerStorage(h) ==
    LET rows == SortSeq(SelectSeq(h.containers, LAMBDA c : c.disk > 0), LAMBDA a, b : a.disk > b.disk)
    IN  Map(SubSeq(rows, 1, Min({Len(rows), MaxStorageRows})), LAMBDA c :
            [type |-> "container_storage", id |-> <<"container_storage", c.name>>, name |-> c.name, disk |-> c.disk])

ScanStorage(h) ==
    LET groups == {GroupOfContainer(c) : c \in ToSet(h.containers)} \cup {GroupOfVolume(v) : v \in ToSet(h.volumes)}
        held(p) == SelectSeq(h.containers, LAMBDA c : GroupOfContainer(c) = p)
        kept(p) == SelectSeq(h.volumes, LAMBDA v : GroupOfVolume(v) = p)
        total(s) == FoldLeft(LAMBDA acc, x : acc + x.disk, 0, s)
        group(p) == [type |-> "storage_group", id |-> <<"storage_group", p>>, name |-> p,
                     containers |-> Len(held(p)), volumes |-> Len(kept(p)), disk |-> total(held(p)) + total(kept(p))]
    IN  <<[type |-> "docker_storage", id |-> <<"docker_storage">>, name |-> "docker"]>>
        \o ContainerStorage(h) \o Map(SetToSeq(groups), group)

\* Every script is reported, as running where a process of its name is alive.
DetectInitd(h) ==
    Map(h.scripts, LAMBDA i : [type |-> "initd_service", id |-> <<"initd", i.name>>, name |-> i.name, status |-> i.status])

\* A unit that failed is reported as such, and not as running.
DetectSystemd(h) ==
    Map(SelectSeq(h.units, LAMBDA u : u.status \in {"running", "failed"}), LAMBDA u :
        [type |-> "systemd_unit", id |-> <<"systemd", u.name>>, name |-> u.name, status |-> u.status])

\* ListeningPortsWithOwners: a unit's sockets, those of a process no unit is known of, a container's own
\* (it shares the host's network), and the ones docker-proxy opens for published ports.
Listeners(h) ==
    LET socket(p, public, cid, unit, process) ==
            [port |-> p, exposure |-> IF public THEN "public" ELSE "loopback", cid |-> IF h.owners THEN cid ELSE "",
             unit |-> IF h.owners THEN unit ELSE "", process |-> IF h.owners THEN process ELSE ""]
        running == SelectSeq(h.containers, LAMBDA c : c.status = "running")
        ofScript(i) == Map(SetToSeq(i.ports), LAMBDA p : socket(p, FALSE, "", "", i.process))
        ofUnit(u) == Map(SetToSeq(u.ports), LAMBDA p : socket(p, FALSE, "", u.name, u.process))
        ofContainer(c) == Map(SetToSeq(c.lports), LAMBDA p : socket(p, TRUE, c.cid, "", c.name))
                          \o Map(SetToSeq(c.hports), LAMBDA p : socket(p, TRUE, "", "docker.service", "docker-proxy"))
    IN  FlattenSeq(Map(SelectSeq(h.scripts, LAMBDA i : i.status = "running"), ofScript))
        \o FlattenSeq(Map(SelectSeq(h.units, LAMBDA u : u.status = "running"), ofUnit))
        \o FlattenSeq(Map(running, ofContainer))

DetectPorts(h) ==
    Map(Listeners(h), LAMBDA l : [type |-> "listening_port", id |-> <<"port", l.port>>, port |-> l.port,
                                  exposure |-> l.exposure, cid |-> l.cid, unit |-> l.unit, process |-> l.process])

\* A database is what listens on the default port of its engine.
DetectDatabases(h) ==
    LET found == SelectSeq(Listeners(h), LAMBDA l : l.port \in DOMAIN KnownDatabases)
    IN  Map(found, LAMBDA l : LET e == KnownDatabases[l.port] IN
            [type |-> "database", id |-> <<"db", e, l.port>>, name |-> e, status |-> "reachable", engine |-> e,
             hports |-> {l.port}, cid |-> l.cid])

ProxyRoot(e) == [type |-> "reverse_proxy", id |-> <<"reverse_proxy", e>>, name |-> e, engine |-> e]

VhostsOf(h, e) ==
    Map(SelectSeq(h.vhosts, LAMBDA v : v.engine = e), LAMBDA v :
        [type |-> v.type, id |-> <<"vhost", v.name>>, name |-> v.name, engine |-> e, upstreams |-> v.upstreams])

\* nginx is a proxy as soon as it is installed.
DetectNginx(h) == IF "nginx" \in h.proxies THEN Append(VhostsOf(h, "nginx"), ProxyRoot("nginx")) ELSE <<>>

\* The others are when they route something; Traefik may take its routes from the containers' labels.
DetectProxies(h) ==
    LET engine(e) == IF VhostsOf(h, e) # <<>> \/ (e = "traefik" /\ e \in h.proxies)
                     THEN Append(VhostsOf(h, e), ProxyRoot(e)) ELSE <<>>
    IN  FlattenSeq(Map(<<"apache", "caddy", "traefik", "haproxy">>, engine))
=============================================================================
