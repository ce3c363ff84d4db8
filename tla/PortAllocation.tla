--------------------------- MODULE PortAllocation ---------------------------
(***************************************************************************)
(* How validate_and_set_config2 (cluster/cluster_common.py) gives ports to *)
(* the managers, the storage instances and the computing nodes of a        *)
(* configuration, before any script is written.                            *)
(*                                                                         *)
(* It goes once through the configuration: cluster managers, node          *)
(* managers, meta nodes, the other services, then each cluster.  A port    *)
(* the configuration gives is taken as it is; one it leaves out comes from *)
(* a counter of the machine's node manager.  Each port goes through        *)
(* addPortToMachine, which raises ValueError when the machine has it       *)
(* already: the script ends.  What was allocated is written to the         *)
(* metadata (modify_metadata.py, add_servernodes), where the cluster       *)
(* manager goes on allocating from the same counters.                      *)
(***************************************************************************)
EXTENDS Naturals, Sequences, FiniteSets

CONSTANTS
    Machine,       \* the hosts
    ManagerPorts,  \* ports a configuration gives to managers, or their defaults
    Given,         \* ports a configuration gives to instances and services
    StorageCur,    \* values of storage_curport as the walk begins
    ServerCur,     \* values of server_curport as the walk begins
    DefStorageCur, \* one above the first port of the default storage_portrange
    DefServerCur,  \* one above the first port of the default server_portrange
    MetaMgr,       \* meta.ha_mode is mgr
    MaxNodes,      \* bound: instances and services in the configuration
    NoPort         \* "the configuration gives no port"

ASSUME PortAssumption ==
    /\ ManagerPorts \subseteq Nat /\ Given \subseteq Nat /\ NoPort \notin Nat
    /\ StorageCur \subseteq Nat /\ ServerCur \subseteq Nat
    /\ DefStorageCur \in Nat /\ DefServerCur \in Nat
    /\ MetaMgr \in BOOLEAN /\ MaxNodes \in Nat

Kinds == {"storage", "server"}
Phases == {"cluster_manager", "node_manager", "meta", "services", "clusters", "done"}
NodeTypes == {"none", "storage", "server", "both"}

VARIABLES
    phase,      \* how far the walk has come
    rejected,   \* ValueError was raised
    nodes,      \* bound: instances and services so far
    portmap,    \* portmap[m]: the ports claimed on m
    clustermgrips, nodemgrips, \* machines with an entry of each manager
    nodetype,   \* nodetype[m] of the node manager entry of m
    curport,    \* curport[m][k]: the counter of kind k
    usedports,  \* usedports[m][k]: the ports given to instances of kind k
    current,    \* the instance being given ports: machine, kind, increments to come
    claims      \* history: every port claimed, with what for

vars == <<phase, rejected, nodes, portmap, clustermgrips, nodemgrips,
          nodetype, curport, usedports, current, claims>>

Idle == [on |-> NoPort, kind |-> "none", id |-> 0, left |-> <<>>]
Busy == current.left # <<>>

-----------------------------------------------------------------------------
\* addPortToMachine, for the ports ps at once.  "for" tells the managers from
\* the instances; "auto" is the increment when the port came from the counter.
Claim(m, ps, for, id, auto) ==
    /\ portmap' = [portmap EXCEPT ![m] = @ \cup ps]
    /\ claims' = claims \cup
          {[on |-> m, port |-> p, for |-> for, id |-> id, auto |-> auto] : p \in ps}

Distinct3(a, b, c) == a # b /\ b # c /\ a # c

Reject ==
    /\ rejected' = TRUE
    /\ UNCHANGED <<phase, nodes, portmap, clustermgrips, nodemgrips,
                   nodetype, curport, usedports, current, claims>>

\* brpc_raft_port, brpc_http_port and prometheus_port_start.
ClusterManager(m, a, b, c) ==
    /\ phase = "cluster_manager" /\ ~rejected
    /\ IF m \in clustermgrips \/ ~Distinct3(a, b, c) \/ {a, b, c} \cap portmap[m] # {}
       THEN Reject
       ELSE /\ clustermgrips' = clustermgrips \cup {m}
            /\ Claim(m, {a, b, c}, "cluster_mgr", 0, 0)
            /\ UNCHANGED <<phase, rejected, nodes, nodemgrips, nodetype,
                           curport, usedports, current>>

\* brpc_http_port, tcp_port and prometheus_port_start; storage_curport and
\* server_curport are given or one above the first port of their range.
NodeManager(m, a, b, c, type, storage, server) ==
    /\ phase = "node_manager" /\ ~rejected
    /\ IF m \in nodemgrips \/ ~Distinct3(a, b, c) \/ {a, b, c} \cap portmap[m] # {}
       THEN Reject
       ELSE /\ nodemgrips' = nodemgrips \cup {m}
            /\ nodetype' = [nodetype EXCEPT ![m] = type]
            /\ curport' = [curport EXCEPT ![m] =
                             [storage |-> storage, server |-> server]]
            /\ Claim(m, {a, b, c}, "node_mgr", 0, 0)
            /\ UNCHANGED <<phase, rejected, nodes, clustermgrips, usedports, current>>

\* get_default_nodemgr: the entry of a machine that has none.  Its own three
\* ports are not claimed.
DefaultNodemgr(m, kind) ==
    /\ nodemgrips' = nodemgrips \cup {m}
    /\ nodetype' = [nodetype EXCEPT ![m] = kind]
    /\ curport' = [curport EXCEPT ![m] =
                     [storage |-> DefStorageCur, server |-> DefServerCur]]

\* Mutant: an entry of another type is left as it is.
KeepNodetype(old, kind) == IF old = "none" THEN kind ELSE old

\* fix_nodemgr_nodetype
FixNodetype(old, kind) ==
    IF old \in {"both", kind} THEN old ELSE IF old = "none" THEN kind ELSE "both"

\* Mutant: no room is left for the exporters.
NoExporters(kind, mgr) ==
    IF kind = "server" THEN <<1, 1>> ELSE IF mgr THEN <<1, 1, 1>> ELSE <<1>>

\* How far the counter moves for each port of an instance: the port of a
\* storage node leaves room for its exporter, and so does mysql_port.
Increments(kind, mgr) ==
    IF kind = "server" THEN <<1, 2>> ELSE IF mgr THEN <<2, 1, 1>> ELSE <<2>>

\* Mutant: the entry of a machine is made anew for each instance.
AlwaysDefaultNodemgr(m, kind, mgr) ==
    /\ phase \in {"meta", "clusters"} /\ ~rejected /\ ~Busy
    /\ nodes < MaxNodes /\ nodes' = nodes + 1
    /\ current' = [on |-> m, kind |-> kind, id |-> nodes + 1,
                   left |-> Increments(kind, mgr)]
    /\ DefaultNodemgr(m, kind)
    /\ UNCHANGED <<phase, rejected, portmap, clustermgrips, usedports, claims>>

\* Mutant: the machine gets no entry.
NoDefaultNodemgr(m, kind, mgr) ==
    /\ phase \in {"meta", "clusters"} /\ ~rejected /\ ~Busy
    /\ nodes < MaxNodes /\ nodes' = nodes + 1
    /\ current' = [on |-> m, kind |-> kind, id |-> nodes + 1,
                   left |-> Increments(kind, mgr)]
    /\ UNCHANGED <<phase, rejected, portmap, clustermgrips, nodemgrips,
                   nodetype, curport, usedports, claims>>

\* A node of meta.nodes, of a shard, or of cluster.comp.  The order in which
\* the nodes of a cluster come is left open.
NewInstance(m, kind, mgr) ==
    /\ phase \in {"meta", "clusters"} /\ ~rejected /\ ~Busy
    /\ phase = "meta" => kind = "storage" /\ mgr = MetaMgr
    /\ nodes < MaxNodes /\ nodes' = nodes + 1
    /\ current' = [on |-> m, kind |-> kind, id |-> nodes + 1,
                   left |-> Increments(kind, mgr)]
    /\ IF m \in nodemgrips
       THEN /\ nodetype' = [nodetype EXCEPT ![m] = FixNodetype(@, kind)]
            /\ UNCHANGED <<nodemgrips, curport>>
       ELSE DefaultNodemgr(m, kind)
    /\ UNCHANGED <<phase, rejected, portmap, clustermgrips, usedports, claims>>

\* Mutant: a port that was given is not checked.
NextPortUnchecked(given) ==
    /\ Busy /\ ~rejected
    /\ LET m    == current.on
           k    == current.kind
           port == IF given = NoPort THEN curport[m][k] ELSE given
           step == IF given = NoPort THEN Head(current.left) ELSE 0
       IN  /\ curport' = [curport EXCEPT ![m][k] = @ + step]
           /\ Claim(m, {port}, k, current.id, step)
           /\ usedports' = [usedports EXCEPT ![m][k] = @ \cup {port}]
           /\ current' = IF Len(current.left) = 1
                         THEN Idle
                         ELSE [current EXCEPT !.left = Tail(@)]
           /\ UNCHANGED <<phase, rejected, nodes, clustermgrips, nodemgrips, nodetype>>

\* get_nodemgr_nextport, or the port given; addPortToMachine; addto_usedports.
NextPort(given) ==
    /\ Busy /\ ~rejected
    /\ LET m    == current.on
           k    == current.kind
           port == IF given = NoPort THEN curport[m][k] ELSE given
           step == IF given = NoPort THEN Head(current.left) ELSE 0
       IN  IF port \in portmap[m]
           THEN Reject
           ELSE /\ curport' = [curport EXCEPT ![m][k] = @ + step]
                /\ Claim(m, {port}, k, current.id, step)
                /\ usedports' = [usedports EXCEPT ![m][k] = @ \cup {port}]
                /\ current' = IF Len(current.left) = 1
                              THEN Idle
                              ELSE [current EXCEPT !.left = Tail(@)]
                /\ UNCHANGED <<phase, rejected, nodes, clustermgrips, nodemgrips, nodetype>>

\* hdfs, ssh, xpanel, elasticsearch and kibana; haproxy in a cluster.
Service(m, p) ==
    /\ phase \in {"services", "clusters"} /\ ~rejected /\ ~Busy
    /\ nodes < MaxNodes
    /\ IF p \in portmap[m]
       THEN Reject
       ELSE /\ nodes' = nodes + 1
            /\ Claim(m, {p}, "service", 0, 0)
            /\ UNCHANGED <<phase, rejected, clustermgrips, nodemgrips,
                           nodetype, curport, usedports, current>>

After == [cluster_manager |-> "node_manager", node_manager |-> "meta",
          meta |-> "services", services |-> "clusters", clusters |-> "done"]

NextPhase ==
    /\ phase # "done" /\ ~rejected /\ ~Busy
    /\ phase' = After[phase]
    /\ UNCHANGED <<rejected, nodes, portmap, clustermgrips, nodemgrips,
                   nodetype, curport, usedports, current, claims>>

Init ==
    /\ phase = "cluster_manager" /\ rejected = FALSE /\ nodes = 0
    /\ portmap = [m \in Machine |-> {}]
    /\ clustermgrips = {} /\ nodemgrips = {}
    /\ nodetype = [m \in Machine |-> "none"]
    /\ curport = [m \in Machine |-> [storage |-> 0, server |-> 0]]
    /\ usedports = [m \in Machine |-> [storage |-> {}, server |-> {}]]
    /\ current = Idle /\ claims = {}

Next ==
    \/ \E m \in Machine, a, b, c \in ManagerPorts :
          \/ ClusterManager(m, a, b, c)
          \/ \E type \in NodeTypes \ {"none"}, s \in StorageCur, v \in ServerCur :
                NodeManager(m, a, b, c, type, s, v)
    \/ \E m \in Machine, kind \in Kinds, mgr \in BOOLEAN : NewInstance(m, kind, mgr)
    \/ \E given \in Given \cup {NoPort} : NextPort(given)
    \/ \E m \in Machine, p \in Given : Service(m, p)
    \/ NextPhase

Spec == Init /\ [][Next]_vars

-----------------------------------------------------------------------------
(* Properties.                                                             *)

Claims == [on : Machine, port : Nat, id : 0..MaxNodes, auto : 0..2,
           for : Kinds \cup {"cluster_mgr", "node_mgr", "service"}]

\* The variables hold what their comments say; an instance being given ports
\* is on a machine that has a node manager entry by then.
TypeOK ==
    /\ phase \in Phases /\ rejected \in BOOLEAN /\ nodes \in 0..MaxNodes
    /\ portmap \in [Machine -> SUBSET Nat]
    /\ clustermgrips \subseteq Machine /\ nodemgrips \subseteq Machine
    /\ nodetype \in [Machine -> NodeTypes]
    /\ curport \in [Machine -> [Kinds -> Nat]]
    /\ usedports \in [Machine -> [Kinds -> SUBSET Nat]]
    /\ \/ current = Idle
       \/ current \in [on : nodemgrips, kind : Kinds, id : 1..MaxNodes,
                      left : {<<1, 2>>, <<2>>, <<2, 1, 1>>, <<1, 1>>, <<1>>}]
    /\ claims \subseteq Claims

\* No two managers, instances or services of a machine have the same port,
\* whichever ports were given and whichever came from a counter.
PortsDistinct ==
    \A c, d \in claims : c.on = d.on /\ c.port = d.port => c = d

\* The counter is past every port it gave and past the room it left for the
\* exporter: current_port_pos of the metadata is a place to go on from.
CountersAhead ==
    \A c \in claims : c.auto > 0 => c.port + c.auto <= curport[c.on][c.for]

\* What add_servernodes writes is what was allocated: the used ports of a
\* kind are those of its instances, and the entry of the machine has a type
\* for which a row with them is written.
Registered ==
    \A m \in Machine, k \in Kinds :
       /\ usedports[m][k] = {c.port : c \in {d \in claims : d.on = m /\ d.for = k}}
       /\ usedports[m][k] # {} => m \in nodemgrips /\ nodetype[m] \in {k, "both"}

PortsOf(i) == {c \in claims : c.id = i /\ c.for \in Kinds}
\* The instances that have all their ports, each of them from the counter.
Automatic ==
    {i \in 1..nodes : current.id # i /\ PortsOf(i) # {} /\ \A c \in PortsOf(i) : c.auto > 0}

\* The exporter of a storage node listens one above its port, that of a
\* computing node two above (clear_instance.sh, stop_instances.sh).  The port is the
\* first that the instance is given.
ExporterPort(i) ==
    LET main == CHOOSE c \in PortsOf(i) : \A d \in PortsOf(i) : c.port <= d.port
    IN  [on |-> main.on, for |-> main.for,
         port |-> main.port + IF main.for = "storage" THEN 1 ELSE 2]

\* The exporter of an instance whose ports all came from the counter never
\* has a port that the counter gave away, nor one that it will give.
ExportersFree ==
    \A i \in Automatic :
       LET e == ExporterPort(i) IN
       /\ e.port < curport[e.on][e.for]
       /\ \A c \in claims : c.auto > 0 /\ c.on = e.on /\ c.for = e.for => c.port # e.port
=============================================================================
