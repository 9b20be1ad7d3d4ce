---------------------------- MODULE MCInventory -----------------------------
(***************************************************************************)
(* Inventory on small hosts.  The regular ones are all combinations of two  *)
(* containers, a unit and a virtual host; the special ones have what the    *)
(* detectors and the rules treat differently, and things happen to them.    *)
(***************************************************************************)
EXTENDS Inventory

Container(cid, name) ==
    [cid |-> cid, name |-> name, status |-> "running", project |-> "", nets |-> {"bridge"}, hports |-> {},
     cports |-> {80}, lports |-> {}, quiet |-> FALSE, mem |-> 1, disk |-> 0]
Unit(name, process, ports) == [name |-> name, status |-> "running", process |-> process, ports |-> ports]
Script(name, process, status, ports) == [name |-> name, process |-> process, status |-> status, ports |-> ports]
Vhost(name, up) == [type |-> "nginx_vhost", name |-> name, engine |-> "nginx", upstreams |-> up]
Up(h, p) == [host |-> h, port |-> p]

Host(cs, us, vols, proxies, vhosts, owners) ==
    [containers |-> cs, scripts |-> <<>>, units |-> us, volumes |-> vols, proxies |-> proxies, vhosts |-> vhosts, owners |-> owners]

AppUnit == Unit("app.service", "app", {3000})

\* A host for each choice of the containers' networks, a shared project, a stopped container and a
\* proxy; whether owners are known and which of two virtual hosts there is vary with them.
Regular ==
    [i \in 1..32 |->
        LET choice(k) == (i \div 2^k) % 2 = 1
            owners == choice(0) # choice(3)
            nets(k) == IF choice(k) THEN {"app", "bridge"} ELSE {"bridge"}
            up == IF choice(1) # choice(2) THEN <<Up("localhost", 8080)>> ELSE <<Up("web", 80), Up("localhost", 3000)>>
        IN  Host(<<[Container("c1", "api") EXCEPT !.hports = {8080}, !.nets = nets(0),
                                                  !.project = IF choice(2) THEN "shop" ELSE ""],
                   [Container("c2", "web") EXCEPT !.nets = nets(1), !.project = "shop",
                                                  !.status = IF choice(3) THEN "exited" ELSE "running"]>>,
                 <<AppUnit>>, <<>>, IF choice(4) THEN {"nginx"} ELSE {},
                 IF choice(4) THEN <<Vhost("example", up)>> ELSE <<>>, owners)]

\* A shop with its database and its volumes.
Shop == Host(<<[Container("c1", "db") EXCEPT !.hports = {5432}, !.project = "shop", !.nets = {"shop"},
                                             !.disk = 1, !.quiet = TRUE],
               [Container("c2", "front") EXCEPT !.project = "shop", !.nets = {"shop"}, !.disk = 2]>>,
             <<Unit("docker.service", "dockerd", {})>>, <<[project |-> "shop", disk |-> 1]>>,
             {"nginx"}, <<Vhost("shop", <<Up("front", 80)>>)>>, TRUE)

\* The shop is down, its volumes are left; another proxy, a database with a socket of its own.
ShopDown == [Host(<<[Container("c3", "cache") EXCEPT !.lports = {6379, 9000}, !.cports = {}, !.status = "running"]>>,
                 <<[AppUnit EXCEPT !.status = "failed"]>>,
                 <<[project |-> "shop", disk |-> 1], [project |-> "", disk |-> 1]>>, {"nginx", "caddy"},
                 <<Vhost("old", <<Up("front", 80)>>),
                   [type |-> "caddy_site", name |-> "new", engine |-> "caddy", upstreams |-> <<Up("localhost", 6379)>>]>>,
                 TRUE) EXCEPT !.scripts = <<Script("cron", "cron", "stopped", {}), Script("mail", "mail", "running", {25})>>]

\* A container with the proxy's name, Pulse itself, and a database that a unit runs.
Namesakes == Host(<<[Container("c4", "nginx") EXCEPT !.hports = {443}],
                    [Container("c5", "pulse-api") EXCEPT !.hports = {8000}, !.quiet = TRUE]>>,
                  <<Unit("postgresql.service", "postgres", {5432})>>, <<>>, {"nginx"},
                  <<Vhost("self", <<Up("nginx", 80)>>), Vhost("pg", <<Up("localhost", 5432)>>)>>, TRUE)

\* A virtual host leads to a service of another machine, on a port that a container publishes here.
Elsewhere == Host(<<[Container("c6", "blog") EXCEPT !.hports = {8080}]>>, <<AppUnit>>, <<>>, {"nginx"},
                  <<Vhost("far", <<Up("10.0.0.9", 8080)>>)>>, TRUE)

MCContent == <<Shop, ShopDown, Namesakes, Elsewhere>> \o Regular
\* Two of three things happen to the second host: it turns into the first, something fails, the
\* server is deleted.  The others are looked at as they are.
Plan(h, st, c, f, d) == [host |-> h, store |-> st, changes |-> c, faults |-> f, deletes |-> d]
MCPlans == {Plan(2, "postgres", 1, 1, 0), Plan(2, "memory", 1, 0, 1), Plan(2, "memory", 0, 1, 1), Plan(2, "postgres", 0, 1, 1)}
           \cup {Plan(h, "memory", 0, 0, 0) : h \in DOMAIN MCContent}
Undisturbed == {Plan(h, "memory", 0, 0, 0) : h \in 1..4}

MCKnownDatabases == 5432 :> "postgresql" @@ 6379 :> "redis"
=============================================================================
