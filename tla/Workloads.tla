----------------------------- MODULE Workloads ------------------------------
(***************************************************************************)
(* The inventory page: buildInventory of httpx/handlers_inventory.go        *)
(* correlates the resources of a snapshot into one list of workloads, with  *)
(* the ports each of them listens on, as operators on a sequence of         *)
(* resources.  The order of the list is left out.                           *)
(***************************************************************************)
EXTENDS ServiceAudit

NoWorkloads == [items |-> <<>>, byContainer |-> <<>>, byUnit |-> <<>>, unattributed |-> <<>>, listening |-> 0]

Workload(id, name, kind, placement, status) ==
    [id |-> id, name |-> name, kind |-> kind, placement |-> placement, status |-> status, engine |-> "", ports |-> {}]

\* put: an item that is there already stays as it is.
PutWorkload(inv, item) == [inv EXCEPT !.items = @ @@ (item.id :> item)]

AddPorts(inv, id, ports) == [inv EXCEPT !.items[id].ports = @ \cup ports]

ContainerWorkload(inv, c) ==
    LET there == PutWorkload(inv, Workload(c.id, c.name, "container", "container", c.status))
    IN  [AddPorts(there, c.id, c.hports) EXCEPT !.byContainer = (c.cid :> c.id) @@ @]

\* Unlike the audit, a unit that failed is listed too.
UnitWorkload(inv, u) ==
    IF u.status \notin {"running", "failed"} THEN inv
    ELSE [PutWorkload(inv, Workload(u.id, u.name, "service", "host", u.status)) EXCEPT !.byUnit = (u.name :> u.id) @@ @]

ProxyWorkload(inv, rp) ==
    PutWorkload(inv, [Workload(rp.id, rp.name, "proxy", "host", "") EXCEPT !.engine = rp.engine])

\* A containerised engine is its container.
DatabaseWorkload(inv, db) ==
    IF db.cid \in DOMAIN inv.byContainer
    THEN [inv EXCEPT !.items[inv.byContainer[db.cid]].engine = IF @ = "" THEN db.engine ELSE @]
    ELSE AddPorts(PutWorkload(inv, [Workload(db.id, db.name, "database", IF db.cid = "" THEN "host" ELSE "container",
                                             db.status) EXCEPT !.engine = db.engine]), db.id, db.hports)

\* Mutant: a socket of a container that is not listed is passed over.
MutContainerIsEnough(inv, lp) ==
    CASE lp.cid \in DOMAIN inv.byContainer -> AddPorts(inv, inv.byContainer[lp.cid], {lp.port})
      [] lp.cid \notin DOMAIN inv.byContainer /\ lp.cid # "" -> inv
      [] OTHER -> IF lp.unit \in DOMAIN inv.byUnit THEN AddPorts(inv, inv.byUnit[lp.unit], {lp.port})
                  ELSE [inv EXCEPT !.unattributed = Append(@, lp.port)]

\* A socket is its container's, its unit's, or that of a workload of its own, named after the process.
AttachSocket(inv, lp) ==
    CASE lp.cid \in DOMAIN inv.byContainer -> AddPorts(inv, inv.byContainer[lp.cid], {lp.port})
      [] lp.cid \notin DOMAIN inv.byContainer /\ lp.unit \in DOMAIN inv.byUnit ->
            AddPorts(inv, inv.byUnit[lp.unit], {lp.port})
      [] OTHER ->
            LET id == <<"process", lp.process>>
            IN  IF lp.process = "" THEN [inv EXCEPT !.unattributed = Append(@, lp.port)]
                ELSE AddPorts(PutWorkload(inv, Workload(id, lp.process, "service", "host", "running")), id, {lp.port})

\* buildInventory
WorkloadsOf(snap) ==
    LET containers == FoldLeft(ContainerWorkload, NoWorkloads, ResourcesOf(snap, {"docker_container"}))
        units == FoldLeft(UnitWorkload, containers, ResourcesOf(snap, {"systemd_unit", "initd_service"}))
        proxies == FoldLeft(ProxyWorkload, units, ResourcesOf(snap, {"reverse_proxy"}))
        databases == FoldLeft(DatabaseWorkload, proxies, ResourcesOf(snap, {"database"}))
        sockets == ResourcesOf(snap, {"listening_port"})
    IN  [FoldLeft(AttachSocket, databases, sockets) EXCEPT !.listening = Len(sockets)]
=============================================================================
