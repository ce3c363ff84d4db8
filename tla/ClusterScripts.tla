--------------------------- MODULE ClusterScripts ---------------------------
(***************************************************************************)
(* The scripts that cluster/setup_cluster_manager.py generates, and what   *)
(* running them does to the machines.                                      *)
(*                                                                         *)
(* install_with_config, start_with_config, stop_with_config and            *)
(* clean_with_config each write a list of remote commands.  The operators  *)
(* InstallScript, StartScript, StopScript and CleanScript are those lists; *)
(* the actions run one command at a time, in order, on the machine it      *)
(* names.  install.sh and start.sh set "trap ... exit 1 ERR" and stop at   *)
(* the first command that fails; stop.sh and clean.sh do not, and go on.   *)
(*                                                                         *)
(* Commands may fail, the operator may interrupt a script, and a machine   *)
(* may crash between two commands.  The programs the commands run          *)
(* (install-mysql.py, create_cluster.py, stopmysql.sh, ...) come from      *)
(* other repositories: CanRun says what each needs, as far as the scripts  *)
(* show it, and is marked external.                                        *)
(***************************************************************************)
EXTENDS Naturals, Sequences, SequencesExt, Lists

CONSTANTS
    Machine,      \* the hosts (the ip addresses of the configuration)
    Storage,      \* kunlun-storage instances: nodes of meta and data shards
    Comp,         \* kunlun-server instances: computing nodes
    Host,         \* Host[n] is the machine of instance n
    Primary,      \* the storage instances with is_primary
    NodeMgrs,     \* sequence: node_manager.nodes
    Skip,         \* machines whose node_manager entry has skip set
    ClusterMgrs,  \* sequence: cluster_manager.nodes
    MetaNodes,    \* sequence: meta.nodes; empty when only group_seeds is given
    Clusters,     \* sequence of [shards |-> sequences of storage, comps |-> sequence]
    FaultyIn,     \* the scripts in which a command may fail for no cause of its own
    MaxFaults,    \* bound: failures, interrupts, crashes and revivals in a behaviour
    MaxScripts    \* bound: scripts run in a behaviour

Instance == Storage \cup Comp
Scripts == {"install", "start", "stop", "clean"}

StorageOf(c) == FlattenSeq(c.shards)

\* What validate_and_set_config2 lets through: no instance twice, since its port would
\* be taken already, and a node manager, one for a machine, wherever there is one; it
\* adds the managers that are missing.
Validated ==
    /\ IsInjective(NodeMgrs) /\ IsInjective(ClusterMgrs) /\ IsInjective(MetaNodes)
    /\ \A i \in DOMAIN Clusters :
          /\ IsInjective(StorageOf(Clusters[i])) /\ IsInjective(Clusters[i].comps)
          /\ ToSet(StorageOf(Clusters[i])) \cap ToSet(MetaNodes) = {}
    /\ \A i, j \in DOMAIN Clusters : i # j =>
          /\ ToSet(StorageOf(Clusters[i])) \cap ToSet(StorageOf(Clusters[j])) = {}
          /\ ToSet(Clusters[i].comps) \cap ToSet(Clusters[j].comps) = {}
    /\ Storage = ToSet(MetaNodes) \cup UNION {ToSet(StorageOf(Clusters[i])) : i \in DOMAIN Clusters}
    /\ Comp = UNION {ToSet(Clusters[i].comps) : i \in DOMAIN Clusters}
    /\ \A n \in Instance : Host[n] \in ToSet(NodeMgrs)

ASSUME ScriptAssumption ==
    /\ Storage \cap Comp = {}
    /\ Host \in [Instance -> Machine]
    /\ Primary \subseteq Storage
    /\ NodeMgrs \in Seq(Machine) /\ ClusterMgrs \in Seq(Machine)
    /\ Skip \subseteq Machine
    /\ MetaNodes \in Seq(Storage)
    /\ Clusters \in Seq([shards : Seq(Seq(Storage)), comps : Seq(Comp)])
    /\ Validated
    /\ FaultyIn \subseteq Scripts
    /\ MaxFaults \in Nat /\ MaxScripts \in Nat

VARIABLES
    action,       \* the script being run, or "none"
    pc,           \* the next command of that script
    outcome,      \* how the last script ended: "none", "done" or "aborted"
    smooth,       \* no command failed without cause and nothing crashed in it
    base,         \* what it started from: "pristine", "installed", "tracked", "other"
    faults, runs, \* counters of the two bounds
    basedir,      \* machines with the base directory, env.sh and the driver
    packages,     \* machines with program_binaries unpacked
    nodemgrDir, clustermgrDir, \* machines with the managers' directories
    program,      \* instances with a copy under instance_binaries
    listed,       \* instances that their etc/instances_list.txt names
    data,         \* instances whose data directory is not empty
    running,      \* instances whose server process runs
    nodemgrUp, clustermgrUp,   \* machines with a manager process running
    sysTables,    \* bootstrap.py created the metadata database
    serverRows,   \* machines in server_nodes
    clusterRows   \* clusters in db_clusters

script == <<action, pc, outcome, smooth, base, faults, runs>>
files  == <<basedir, packages, nodemgrDir, clustermgrDir, program, listed>>
procs  == <<running, nodemgrUp, clustermgrUp>>
meta   == <<sysTables, serverRows, clusterRows>>
vars   == <<script, files, data, procs, meta>>

-----------------------------------------------------------------------------
(* The scripts: the order in which the commands are written. *)

Cmds(op, s) == [i \in DOMAIN s |-> [op |-> op, on |-> s[i]]]
\* For the commands that concern the metadata as a whole.
Cmd(op) == <<[op |-> op, on |-> 0]>>
\* For each element of s, the commands ops one after the other.
Each(ops, s) ==
    FlattenSeq([i \in DOMAIN s |->
                   [j \in DOMAIN ops |-> [op |-> ops[j], on |-> s[i]]]])

Replica == Storage \ Primary
\* Mutant: the sort by is_primary is forgotten.
AsConfigured(s) == s
PrimariesFirst(s) == Those(s, Primary) \o Those(s, Replica)

OnSkipped == {n \in Instance : Host[n] \in Skip}
\* Meta nodes whose program directory goes with a cluster manager: rm_clustermgr
\* takes the machine's instance_binaries before halt_storage looks there.
Undermined == {n \in OnSkipped : n \in ToSet(MetaNodes) /\ Host[n] \in ToSet(ClusterMgrs)}
OwnNodeMgrs == Those(NodeMgrs, Machine \ Skip)
OwnMachines == ToSet(NodeMgrs) \ Skip
ExternalMeta == MetaNodes = <<>>
\* A machine on which modify_metadata.py can run.
HasWorkNode == MetaNodes # <<>> \/ NodeMgrs # <<>> \/ ClusterMgrs # <<>>

\* workips is a Python set: its order is arbitrary, and does not matter.
WorkIps == SetToSeq(ToSet(NodeMgrs) \cup ToSet(ClusterMgrs))

\* Mutant: the computing nodes are not installed.
InstallStorageOnly(i) ==
    LET c == Clusters[i] IN
    Cmds("storage_env", StorageOf(c)) \o Cmds("server_env", c.comps)
      \o Cmds("install_storage", PrimariesFirst(StorageOf(c)))
      \o <<[op |-> "create_cluster", on |-> i]>>

InstallCluster(i) ==
    LET c == Clusters[i] IN
    Cmds("storage_env", StorageOf(c)) \o Cmds("server_env", c.comps)
      \o Cmds("install_storage", PrimariesFirst(StorageOf(c)))
      \o <<[op |-> "create_cluster", on |-> i]>>
      \o Cmds("add_comp", c.comps)

\* Mutant: the managers are started before they are registered.
RegisterLast ==
    Cmds("init_node", WorkIps)
      \o Cmds("setup_nodemgr", OwnNodeMgrs)
      \o Cmds("storage_env", PrimariesFirst(MetaNodes))
      \o Cmds("install_storage", PrimariesFirst(MetaNodes))
      \o (IF ExternalMeta THEN <<>> ELSE Cmd("bootstrap"))
      \o FlattenSeq([i \in DOMAIN Clusters |-> InstallCluster(i)])
      \o Cmds("setup_clustermgr", ClusterMgrs)
      \o Cmds("start_nodemgr", OwnNodeMgrs)
      \o Cmds("start_clustermgr", ClusterMgrs)
      \o (IF HasWorkNode THEN Cmd("add_metadata") ELSE <<>>)

InstallScript ==
    Cmds("init_node", WorkIps)
      \o Cmds("setup_nodemgr", OwnNodeMgrs)
      \o Cmds("storage_env", PrimariesFirst(MetaNodes))
      \o Cmds("install_storage", PrimariesFirst(MetaNodes))
      \o (IF ExternalMeta THEN <<>> ELSE Cmd("bootstrap"))
      \o FlattenSeq([i \in DOMAIN Clusters |-> InstallCluster(i)])
      \o Cmds("setup_clustermgr", ClusterMgrs)
      \o (IF HasWorkNode THEN Cmd("add_metadata") ELSE <<>>)
      \o Cmds("start_nodemgr", OwnNodeMgrs)
      \o Cmds("start_clustermgr", ClusterMgrs)

StartCluster(c) ==
    Cmds("start_instance", Those(StorageOf(c), OnSkipped))
      \o Cmds("start_instance", Those(c.comps, OnSkipped))

StartScript ==
    Each(<<"start_instances", "start_nodemgr">>, OwnNodeMgrs)
      \o Cmds("start_instance", Those(MetaNodes, OnSkipped))
      \o FlattenSeq([i \in DOMAIN Clusters |-> StartCluster(Clusters[i])])
      \o Cmds("start_clustermgr", ClusterMgrs)

StopCluster(c) ==
    Cmds("stop_instance", Those(StorageOf(c), OnSkipped))
      \o Cmds("stop_instance", Those(c.comps, OnSkipped))

\* Mutant: the instances are stopped under a node manager that runs.
StopInstancesFirst ==
    Each(<<"stop_instances", "stop_nodemgr">>, OwnNodeMgrs)
      \o FlattenSeq([i \in DOMAIN Clusters |-> StopCluster(Clusters[i])])
      \o Cmds("stop_clustermgr", ClusterMgrs)
      \o Cmds("stop_instance", Those(MetaNodes, OnSkipped))

\* Mutant: the meta nodes are forgotten.
StopNodesOnly ==
    Each(<<"stop_nodemgr", "stop_instances">>, OwnNodeMgrs)
      \o FlattenSeq([i \in DOMAIN Clusters |-> StopCluster(Clusters[i])])
      \o Cmds("stop_clustermgr", ClusterMgrs)

StopScript ==
    Each(<<"stop_nodemgr", "stop_instances">>, OwnNodeMgrs)
      \o FlattenSeq([i \in DOMAIN Clusters |-> StopCluster(Clusters[i])])
      \o Cmds("stop_clustermgr", ClusterMgrs)
      \o Cmds("stop_instance", Those(MetaNodes, OnSkipped))

CleanCluster(c) ==
    Each(<<"halt_storage", "rm_data">>, Those(StorageOf(c), OnSkipped))
      \o Each(<<"halt_comp", "rm_data">>, Those(c.comps, OnSkipped))

\* Mutant: the files of a machine go before its processes are stopped.
RemoveBeforeStop ==
    Each(<<"rm_nodemgr", "stop_nodemgr", "clear_instances">>, OwnNodeMgrs)
      \o FlattenSeq([i \in DOMAIN Clusters |-> CleanCluster(Clusters[i])])
      \o Each(<<"stop_clustermgr", "rm_clustermgr">>, ClusterMgrs)
      \o Each(<<"halt_storage", "rm_meta">>, Those(MetaNodes, OnSkipped))

CleanScript ==
    Each(<<"stop_nodemgr", "clear_instances", "rm_nodemgr">>, OwnNodeMgrs)
      \o FlattenSeq([i \in DOMAIN Clusters |-> CleanCluster(Clusters[i])])
      \o Each(<<"stop_clustermgr", "rm_clustermgr">>, ClusterMgrs)
      \o (IF ExternalMeta /\ NodeMgrs # <<>> THEN Cmd("remove_metadata") ELSE <<>>)
      \o Each(<<"halt_storage", "rm_meta">>, Those(MetaNodes, OnSkipped))

Commands(a) ==
    CASE a = "install" -> InstallScript
      [] a = "start"   -> StartScript
      [] a = "stop"    -> StopScript
      [] a = "clean"   -> CleanScript
      [] OTHER         -> <<>>

\* Mutant: install.sh without the trap.
TrapInStart == {"start"}

\* Mutant: the trap in every script.
TrapEverywhere == Scripts

\* The scripts that set an ERR trap.
AbortsOnError == {"install", "start"}

-----------------------------------------------------------------------------
(* What the commands need.                                                 *)

Metas == ToSet(MetaNodes)
On(m) == {n \in Instance : Host[n] = m}
ShardOf(n) ==
    LET ofClusters == UNION {ToSet(Clusters[i].shards) : i \in DOMAIN Clusters}
    IN  ToSet(CHOOSE s \in ofClusters \cup {MetaNodes} : n \in ToSet(s))
ClusterOf(n) == CHOOSE i \in DOMAIN Clusters : n \in ToSet(Clusters[i].comps)

MetaServes == ExternalMeta \/ (sysTables /\ Metas \cap Primary \subseteq running)

\* A server process is found through the instances_list.txt of its own
\* program directory, by the wrappers, by start_instances.sh and by
\* stop_instances.sh alike.
Reachable(n) == n \in program /\ n \in listed
\* What start_instances.sh, stop_instances.sh and clear_instances.sh find on m.
Managed(m) == {n \in On(m) : Reachable(n)}

\* clean_clusters stops a computing node from the dba_tools directory of
\* kunlun-server; the package keeps stop_pg.py in scripts, where
\* generate_server_startstop looks for it.
ServerPackageDirs == {"bin", "etc", "lib", "resources", "scripts"}
CleanCompDir == "dba_tools"

CanInstallStorage(n) ==
    /\ n \in program /\ n \notin data /\ n \notin running
    /\ n \in Primary \/ ShardOf(n) \cap Primary \subseteq running

CanCreateCluster(i) ==
    /\ MetaServes
    /\ ToSet(StorageOf(Clusters[i])) \subseteq running
    /\ i \notin clusterRows

CanAddComp(n) ==
    /\ MetaServes /\ ClusterOf(n) \in clusterRows
    /\ n \in program /\ n \notin data /\ n \notin running

\* modify_metadata.py sets ha_role on every primary before it connects to the
\* metadata; with a server down it raises.
CanAddMetadata == MetaServes /\ Primary \subseteq running

CanRun(c) ==
    CASE c.op = "setup_nodemgr"    -> c.on \in basedir
      [] c.op \in {"storage_env", "server_env"} -> Host[c.on] \in packages
      [] c.op = "install_storage"  -> CanInstallStorage(c.on)
      [] c.op = "bootstrap"        -> Metas \cap Primary \subseteq running /\ ~sysTables
      [] c.op = "create_cluster"   -> CanCreateCluster(c.on)
      [] c.op = "add_comp"         -> CanAddComp(c.on)
      [] c.op = "setup_clustermgr" -> c.on \in basedir
      [] c.op = "add_metadata"     -> CanAddMetadata
      [] c.op = "remove_metadata"  -> MetaServes
      [] c.op \in {"start_nodemgr", "stop_nodemgr"} -> c.on \in nodemgrDir
      [] c.op \in {"start_clustermgr", "stop_clustermgr"} -> c.on \in clustermgrDir
      [] c.op \in {"start_instance", "stop_instance", "halt_storage"} -> Reachable(c.on)
      [] c.op = "halt_comp"        -> CleanCompDir \in ServerPackageDirs /\ Reachable(c.on)
      [] OTHER                     -> TRUE

-----------------------------------------------------------------------------
(* Running a script.                                                       *)

Pending == action # "none" /\ pc <= Len(Commands(action))
Current == Commands(action)[pc]

\* The next command is op (one of ops), run on or for x.
At(op, x) == Pending /\ Current.op = op /\ Current.on = x
AtOneOf(ops, x) == Pending /\ Current.op \in ops /\ Current.on = x
InClean(op, x) == action = "clean" /\ At(op, x)

Advance ==
    /\ pc' = pc + 1
    /\ UNCHANGED <<action, outcome, smooth, base, faults, runs>>

\* Nothing of this configuration is there.  The node managers of the skipped
\* machines belong to the configuration that installed them, and run.
Pristine == running = {} /\ data = {} /\ nodemgrUp = Skip /\ clustermgrUp = {}

\* Every instance that the configuration has was installed.
Complete ==
    /\ data = Instance /\ program = Instance /\ listed = Instance
    /\ OwnMachines \subseteq nodemgrDir
    /\ ToSet(ClusterMgrs) \subseteq clustermgrDir
    /\ sysTables /\ clusterRows = DOMAIN Clusters
AllUp ==
    /\ running = Instance
    /\ nodemgrUp = OwnMachines \cup Skip /\ clustermgrUp = ToSet(ClusterMgrs)
AllDown == running = {} /\ nodemgrUp = Skip /\ clustermgrUp = {}

\* Every process that runs can be found from its files.
Tracked ==
    /\ \A n \in running : Reachable(n)
    /\ nodemgrUp \subseteq nodemgrDir /\ clustermgrUp \subseteq clustermgrDir

\* Clean machines are those that nothing was installed on, and skipped ones
\* with the packages they were prepared with.
Issue(a) ==
    /\ action = "none" /\ runs < MaxScripts
    /\ action' = a /\ pc' = 1 /\ smooth' = TRUE /\ runs' = runs + 1
    /\ base' = CASE Pristine /\ clusterRows = {} /\ Skip \subseteq packages -> "pristine"
                 [] Complete -> "installed"
                 [] Tracked  -> "tracked"
                 [] OTHER -> "other"
    /\ outcome' = "none"
    /\ UNCHANGED <<faults, files, data, procs, meta>>

Finish ==
    /\ action # "none" /\ pc > Len(Commands(action))
    /\ action' = "none" /\ outcome' = "done"
    /\ UNCHANGED <<pc, smooth, base, faults, runs, files, data, procs, meta>>

\* Mutant: the script steps back.
BackAfterError ==
    IF action \in AbortsOnError
    THEN action' = "none" /\ outcome' = "aborted" /\ UNCHANGED pc
    ELSE pc' = pc - 1 /\ UNCHANGED <<action, outcome>>

\* What an error does to the script: ERR trap or next line.
AfterError ==
    IF action \in AbortsOnError
    THEN action' = "none" /\ outcome' = "aborted" /\ UNCHANGED pc
    ELSE pc' = pc + 1 /\ UNCHANGED <<action, outcome>>

\* The commands that fill a data directory.
Installers == {"install_storage", "add_comp"}

\* The command cannot do its work in this state.
CommandFails ==
    /\ Pending /\ ~CanRun(Current)
    /\ AfterError
    /\ UNCHANGED <<smooth, base, faults, runs, files, data, procs, meta>>

\* The command fails although it could have run: ssh times out, a disk is
\* full.  An installer that fails may leave part of its data directory.
\* The "|| true" after start_instances.sh and its like is on the remote side:
\* dist.sh, which copies them, and ssh itself may still fail like this.
CommandFaults ==
    /\ Pending /\ action \in FaultyIn /\ CanRun(Current)
    /\ faults < MaxFaults /\ faults' = faults + 1
    /\ smooth' = FALSE
    /\ AfterError
    /\ \/ UNCHANGED data
       \/ Current.op \in Installers /\ data' = data \cup ({Current.on} \cap Instance)
    /\ UNCHANGED <<base, runs, files, procs, meta>>

\* The operator stops the script.
Interrupt ==
    /\ action # "none" /\ faults < MaxFaults /\ faults' = faults + 1
    /\ action' = "none" /\ outcome' = "aborted" /\ smooth' = FALSE
    /\ UNCHANGED <<pc, base, runs, files, data, procs, meta>>

\* A machine goes down and comes back: its files stay, its processes do not.
\* Who installed a skipped node manager brings that one up again.
Crash(m) ==
    /\ faults < MaxFaults /\ faults' = faults + 1
    /\ smooth' = FALSE
    /\ running' = running \ On(m)
    /\ nodemgrUp' = nodemgrUp \ ({m} \ Skip) /\ clustermgrUp' = clustermgrUp \ {m}
    /\ UNCHANGED <<action, pc, outcome, base, runs, files, data, meta>>

\* The node manager of a skipped machine starts an instance again that stop.sh or
\* clean.sh has just taken down: neither of them stops that manager.
Revive(n) ==
    /\ faults < MaxFaults /\ faults' = faults + 1
    /\ n \in OnSkipped /\ Host[n] \in nodemgrUp
    /\ n \in data \ running /\ Reachable(n)
    /\ smooth' = FALSE
    /\ running' = running \cup {n}
    /\ UNCHANGED <<action, pc, outcome, base, runs, files, data, nodemgrUp, clustermgrUp, meta>>

-----------------------------------------------------------------------------
(* install.sh                                                              *)

InitNode(m) ==
    /\ At("init_node", m)
    /\ basedir' = basedir \cup {m}
    /\ Advance
    /\ UNCHANGED <<packages, nodemgrDir, clustermgrDir, program, listed, data, procs, meta>>

SetupNodemgr(m) ==
    /\ At("setup_nodemgr", m) /\ CanRun(Current)
    /\ packages' = packages \cup {m}
    /\ nodemgrDir' = nodemgrDir \cup {m}
    /\ Advance
    /\ UNCHANGED <<basedir, clustermgrDir, program, listed, data, procs, meta>>

\* "cp -fr" of the unpacked package into the program directory.  The package
\* holds an emptied instances_list.txt, which replaces the instance's own.
InstanceEnv(n) ==
    /\ AtOneOf({"storage_env", "server_env"}, n)
    /\ CanRun(Current)
    /\ program' = program \cup {n}
    /\ listed' = listed \ {n}
    /\ Advance
    /\ UNCHANGED <<basedir, packages, nodemgrDir, clustermgrDir, data, procs, meta>>

\* install-mysql.py, or add_comp_self.py --install: initialises the data
\* directory, starts the server, records it in instances_list.txt.
InstallInstance(n) ==
    /\ AtOneOf(Installers, n)
    /\ CanRun(Current)
    /\ data' = data \cup {n}
    /\ running' = running \cup {n}
    /\ listed' = listed \cup {n}
    /\ Advance
    /\ UNCHANGED <<basedir, packages, nodemgrDir, clustermgrDir, program, nodemgrUp, clustermgrUp, meta>>

Bootstrap ==
    /\ At("bootstrap", 0) /\ CanRun(Current)
    /\ sysTables' = TRUE
    /\ Advance
    /\ UNCHANGED <<files, data, procs, serverRows, clusterRows>>

CreateCluster(i) ==
    /\ At("create_cluster", i) /\ CanRun(Current)
    /\ clusterRows' = clusterRows \cup {i}
    /\ Advance
    /\ UNCHANGED <<files, data, procs, sysTables, serverRows>>

SetupClustermgr(m) ==
    /\ At("setup_clustermgr", m) /\ CanRun(Current)
    /\ clustermgrDir' = clustermgrDir \cup {m}
    /\ Advance
    /\ UNCHANGED <<basedir, packages, nodemgrDir, program, listed, data, procs, meta>>

AddMetadata ==
    /\ At("add_metadata", 0) /\ CanRun(Current)
    /\ serverRows' = serverRows \cup OwnMachines
    /\ Advance
    /\ UNCHANGED <<files, data, procs, sysTables, clusterRows>>

StartNodemgr(m) ==
    /\ At("start_nodemgr", m) /\ CanRun(Current)
    /\ nodemgrUp' = nodemgrUp \cup {m}
    /\ Advance
    /\ UNCHANGED <<files, data, running, clustermgrUp, meta>>

StartClustermgr(m) ==
    /\ At("start_clustermgr", m) /\ CanRun(Current)
    /\ clustermgrUp' = clustermgrUp \cup {m}
    /\ Advance
    /\ UNCHANGED <<files, data, running, nodemgrUp, meta>>

-----------------------------------------------------------------------------
(* start.sh and stop.sh                                                    *)

\* The loops over instance_binaries end in "|| true": the script is not told
\* of the instances S on which they failed.
HideFailures(S) ==
    /\ S # {} => faults < MaxFaults /\ action \in FaultyIn
    /\ faults' = IF S = {} THEN faults ELSE faults + 1
    /\ smooth' = (smooth /\ S = {})
    /\ pc' = pc + 1
    /\ UNCHANGED <<action, outcome, base, runs>>

StartInstances(m) ==
    /\ At("start_instances", m)
    /\ \E S \in SUBSET (Managed(m) \cap data) :
          /\ HideFailures(S)
          /\ running' = running \cup ((Managed(m) \cap data) \ S)
    /\ UNCHANGED <<files, data, nodemgrUp, clustermgrUp, meta>>

\* start-storage-<port>.sh and start-server-<port>.sh.
StartInstance(n) ==
    /\ At("start_instance", n) /\ CanRun(Current)
    /\ running' = running \cup ({n} \cap data)
    /\ Advance
    /\ UNCHANGED <<files, data, nodemgrUp, clustermgrUp, meta>>

StopNodemgr(m) ==
    /\ At("stop_nodemgr", m) /\ CanRun(Current)
    /\ nodemgrUp' = nodemgrUp \ {m}
    /\ Advance
    /\ UNCHANGED <<files, data, running, clustermgrUp, meta>>

StopInstances(m) ==
    /\ At("stop_instances", m)
    /\ \E S \in SUBSET (Managed(m) \cap running) :
          /\ HideFailures(S)
          /\ running' = running \ (Managed(m) \ S)
    /\ UNCHANGED <<files, data, nodemgrUp, clustermgrUp, meta>>

\* stop-storage-<port>.sh, stop-server-<port>.sh, and the stop commands
\* that clean.sh runs in the program directory.
StopInstance(n) ==
    /\ AtOneOf({"stop_instance", "halt_storage", "halt_comp"}, n)
    /\ CanRun(Current)
    /\ running' = running \ {n}
    /\ Advance
    /\ UNCHANGED <<files, data, nodemgrUp, clustermgrUp, meta>>

StopClustermgr(m) ==
    /\ At("stop_clustermgr", m) /\ CanRun(Current)
    /\ clustermgrUp' = clustermgrUp \ {m}
    /\ Advance
    /\ UNCHANGED <<files, data, running, nodemgrUp, meta>>

-----------------------------------------------------------------------------
(* clean.sh                                                                *)

\* The metadata is gone with the last data directory of the meta shard.
LoseMeta(d) ==
    IF ExternalMeta \/ d \cap Metas # {}
    THEN UNCHANGED meta
    ELSE sysTables' = FALSE /\ serverRows' = {} /\ clusterRows' = {}

\* clear_instances.sh: each listed instance is stopped and its directories
\* removed by clear_instance.sh, whether the stop worked or not; afterwards
\* every program directory goes.
ClearInstances(m) ==
    /\ InClean("clear_instances", m)
    /\ \E S \in SUBSET (Managed(m) \cap running) :
          /\ HideFailures(S)
          /\ running' = running \ (Managed(m) \ S)
    /\ data' = data \ Managed(m)
    /\ LoseMeta(data \ Managed(m))
    /\ program' = program \ On(m)
    /\ listed' = listed \ On(m)
    /\ UNCHANGED <<basedir, packages, nodemgrDir, clustermgrDir, nodemgrUp, clustermgrUp>>

\* The rm commands that follow: instance_binaries, the node manager, what is
\* in its data directories, program_binaries.
RemoveNodemgr(m) ==
    /\ InClean("rm_nodemgr", m)
    /\ program' = program \ On(m)
    /\ listed' = listed \ On(m)
    /\ nodemgrDir' = nodemgrDir \ {m}
    /\ packages' = packages \ {m}
    /\ data' = data \ On(m)
    /\ LoseMeta(data \ On(m))
    /\ Advance
    /\ UNCHANGED <<basedir, clustermgrDir, procs>>

RemoveData(n) ==
    /\ InClean("rm_data", n)
    /\ data' = data \ {n}
    /\ LoseMeta(data \ {n})
    /\ Advance
    /\ UNCHANGED <<files, procs>>

\* Also removes the machine's instance_binaries and program_binaries.
RemoveClustermgr(m) ==
    /\ InClean("rm_clustermgr", m)
    /\ program' = program \ On(m)
    /\ listed' = listed \ On(m)
    /\ clustermgrDir' = clustermgrDir \ {m}
    /\ packages' = packages \ {m}
    /\ Advance
    /\ UNCHANGED <<basedir, nodemgrDir, data, procs, meta>>

\* modify_metadata.py with node_manager and delete_cluster: the first commits,
\* the second reads args.cluster_name, which no argument defines, and raises.
RemoveMetadata ==
    /\ InClean("remove_metadata", 0) /\ CanRun(Current)
    /\ serverRows' = serverRows \ OwnMachines
    /\ Advance
    /\ UNCHANGED <<files, data, procs, sysTables, clusterRows>>

RemoveMeta(n) ==
    /\ InClean("rm_meta", n)
    /\ program' = program \ {n}
    /\ listed' = listed \ {n}
    /\ data' = data \ {n}
    /\ LoseMeta(data \ {n})
    /\ Advance
    /\ UNCHANGED <<basedir, packages, nodemgrDir, clustermgrDir, procs>>

-----------------------------------------------------------------------------
Init ==
    /\ action = "none" /\ pc = 1 /\ outcome = "none"
    /\ smooth = TRUE /\ base = "other" /\ faults = 0 /\ runs = 0
    \* The machines with a skipped node manager were prepared before.
    /\ basedir = Skip /\ packages = Skip /\ nodemgrDir = Skip /\ clustermgrDir = {}
    /\ program = {} /\ listed = {} /\ data = {}
    /\ running = {} /\ nodemgrUp = Skip /\ clustermgrUp = {}
    /\ sysTables = ExternalMeta
    /\ serverRows = {} /\ clusterRows = {}

OnMachine(m) ==
    \/ InitNode(m) \/ SetupNodemgr(m) \/ SetupClustermgr(m)
    \/ StartNodemgr(m) \/ StartClustermgr(m) \/ StartInstances(m)
    \/ StopNodemgr(m) \/ StopClustermgr(m) \/ StopInstances(m)
    \/ ClearInstances(m) \/ RemoveNodemgr(m) \/ RemoveClustermgr(m)

OnInstance(n) ==
    \/ InstanceEnv(n) \/ InstallInstance(n)
    \/ StartInstance(n) \/ StopInstance(n)
    \/ RemoveData(n) \/ RemoveMeta(n)

Run ==
    \/ \E m \in Machine : OnMachine(m)
    \/ \E n \in Instance : OnInstance(n)
    \/ \E i \in DOMAIN Clusters : CreateCluster(i)
    \/ Bootstrap \/ AddMetadata \/ RemoveMetadata
    \/ CommandFails \/ Finish

Faults == CommandFaults \/ Interrupt \/ \E m \in Machine : Crash(m)

Next ==
    \/ Run \/ Faults
    \/ \E n \in Instance : Revive(n)
    \/ \E a \in Scripts : Issue(a)

Spec == Init /\ [][Next]_vars

\* An operator who wants the system installed: installs on clean machines,
\* and cleans before a new attempt.  Scripts and the operator make progress,
\* and no foreign node manager starts what clean.sh is about to remove.
Installed == action = "none" /\ Complete /\ AllUp

Recover ==
    /\ ~Installed
    /\ IF Pristine THEN Issue("install") ELSE Issue("clean")

RecoverNext == Run \/ Faults \/ Recover
RecoverSpec ==
    /\ Init /\ [][RecoverNext]_vars
    /\ WF_vars(Run) /\ WF_vars(Recover)

-----------------------------------------------------------------------------
(* Properties.                                                             *)

\* The variables hold what their comments say; a row of db_clusters belongs
\* to a cluster of the configuration (install_clusters numbers them from 1).
TypeOK ==
    /\ action \in Scripts \cup {"none"} /\ pc \in Nat \ {0}
    /\ outcome \in {"none", "done", "aborted"} /\ smooth \in BOOLEAN
    /\ base \in {"pristine", "installed", "tracked", "other"}
    /\ faults \in 0..MaxFaults /\ runs \in 0..MaxScripts
    /\ basedir \subseteq Machine /\ packages \subseteq Machine
    /\ nodemgrDir \subseteq Machine /\ clustermgrDir \subseteq Machine
    /\ program \subseteq Instance /\ listed \subseteq Instance
    /\ data \subseteq Instance /\ running \subseteq Instance
    /\ nodemgrUp \subseteq Machine /\ clustermgrUp \subseteq Machine
    /\ sysTables \in BOOLEAN /\ serverRows \subseteq Machine
    /\ clusterRows \subseteq DOMAIN Clusters

\* What a command of install.sh leaves behind.  A process it starts may crash.
Done(c) ==
    /\ c.op = "init_node"        => c.on \in basedir
    /\ c.op = "setup_nodemgr"    => c.on \in nodemgrDir \cap packages
    /\ c.op \in {"storage_env", "server_env"} => c.on \in program
    /\ c.op \in Installers       => c.on \in data
    /\ c.op = "bootstrap"        => sysTables
    /\ c.op = "create_cluster"   => c.on \in clusterRows
    /\ c.op = "setup_clustermgr" => c.on \in clustermgrDir
    /\ c.op = "add_metadata"     => OwnMachines \subseteq serverRows

\* install.sh passes no command that has not done its work: the ERR trap of
\* install_clustermgr_int, whatever fails, crashes or was there before.
InstallSkipsNothing ==
    action = "install" => \A i \in 1..(pc - 1) : Done(InstallScript[i])

\* "start the nodemgr and clustermgr process finally" (install_with_config):
\* install.sh starts a manager only when every instance is installed, every
\* cluster created and every node manager registered.
ManagersAfterMetadata ==
    [][action = "install" /\ <<nodemgrUp, clustermgrUp>>' # <<nodemgrUp, clustermgrUp>>
       => \/ <<nodemgrUp, clustermgrUp>>' \in (SUBSET nodemgrUp) \X (SUBSET clustermgrUp)
          \/ Complete /\ OwnMachines \subseteq serverRows]_vars

\* Each command finds what it needs, as the commands before it left it: install.sh
\* on clean machines, start.sh and stop.sh on a complete installation, in
\* any state of its processes, as long as nothing fails by itself.
CommandsCanRun ==
    /\ smooth /\ Pending
    /\ \/ action = "install" /\ base = "pristine"
       \/ action \in {"start", "stop"} /\ base = "installed"
    => CanRun(Current)

\* The stop commands of clean.sh that come too late or look in the wrong place.
OutOfReach(c) ==
    \/ c.op = "halt_storage" /\ c.on \in Undermined
    \/ c.op = "halt_comp" /\ CleanCompDir \notin ServerPackageDirs

\* clean.sh on a complete installation: each command finds what it needs, but for
\* exactly two.  The stopmysql.sh of an undermined meta node runs when "rm -fr
\* instance_binaries" has removed it; stop_pg.py is not in dba_tools.
CleanCanRun ==
    smooth /\ Pending /\ action = "clean" /\ base = "installed"
    => (CanRun(Current) <=> ~OutOfReach(Current))

AtEnd(a) == action = a /\ pc > Len(Commands(a)) /\ smooth

\* "Installation completed !", "Start action completed !", "Stop action completed !":
\* an install on clean machines ends with all instances and managers installed
\* and running; start.sh brings a complete installation up again and stop.sh takes it
\* down, whatever of it was running, and keep what the other one needs.
ScriptsComplete ==
    /\ AtEnd("install") /\ base = "pristine" => Complete /\ AllUp
    /\ AtEnd("start") /\ base = "installed" => Complete /\ AllUp
    /\ AtEnd("stop") /\ base = "installed" => Complete /\ AllDown

\* A data directory goes only when its server has stopped: clean.sh never
\* takes the files from under a server that it could find, unless the server
\* is an undermined meta node.
DataOutlivesServer ==
    [][smooth' /\ base # "other" =>
          \A n \in (data \ data') \ Undermined : n \notin running']_vars

\* stop.sh and clean.sh take an instance down under a running node manager, which
\* would start it again, only on the skipped machines, whose manager is not
\* theirs to stop; on every other machine its manager is down already.
ManagerDownFirst ==
    [][smooth' => \A n \in running \ running' :
          Host[n] \in nodemgrUp' => n \in OnSkipped]_vars

\* An operator who cleans after each failed install, and tries again, gets
\* the system installed, wherever the attempts were cut short.
RecoversByClean == <>Installed

-----------------------------------------------------------------------------
(* The scripts keep the promises of Lifecycle.                             *)

Processes ==
    Instance \cup {<<"node_mgr", m>> : m \in OwnMachines}
             \cup {<<"cluster_mgr", m>> : m \in ToSet(ClusterMgrs)}
ProcessesUp ==
    running \cup {<<"node_mgr", m>> : m \in nodemgrUp \ Skip}
            \cup {<<"cluster_mgr", m>> : m \in clustermgrUp}

\* A clean leaves undermined meta nodes running: nothing is promised of those.
Life == INSTANCE Lifecycle WITH
    part <- Instance \ Undermined, process <- Processes \ Undermined,
    revives <- OnSkipped \ Undermined, script <- action,
    present <- data \ Undermined, up <- ProcessesUp \ Undermined

\* The command lists of setup_cluster_manager.py, failures, crashes and foreign
\* revivals included, do what the abstract scripts promise.
KeepsPromises == Life!Spec
=============================================================================
