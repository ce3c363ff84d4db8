-------------------------- MODULE TraditionalScripts --------------------------
(***************************************************************************)
(* The scripts that cluster/traditional/generate_scripts.py generates, and *)
(* what running them does to the machines; with layout.groups, those of    *)
(* generate_scripts_groups.py beside it, which know data shards only.      *)
(*                                                                         *)
(* With --autostart, install.sh makes systemd units, so that machines that *)
(* restart bring their processes up again, also in the middle of a script. *)
(***************************************************************************)
EXTENDS Naturals, Sequences, SequencesExt, Lists

CONSTANTS
    Machine,
    Storage,    \* storage nodes, of meta and data shards
    Comp,       \* computing nodes
    ClusterMgr, \* cluster managers
    Haproxy,    \* the load balancer
    Host,       \* Host[n] is the machine of n
    Layouts,    \* the configurations to be explored, see LayoutType
    MaxFaults,  \* bound: failures and interrupts in a behaviour
    MaxReboots, \* bound: restarts of machines in a behaviour
    MaxScripts  \* bound: scripts run in a behaviour

Node == Storage \cup Comp
Proc == Node \cup ClusterMgr \cup {Haproxy}
Scripts == {"install", "start", "stop", "clean"}
Modes == {"mgr", "rbr", "no_rep"}

LayoutType ==
    [groups : BOOLEAN,
     meta : Seq(Storage), shards : Seq(Seq(Storage)), comps : Seq(Comp),
     mgrs : Seq(ClusterMgr),
     mgrKeys : {"nodes", "ip", "ip_ports", "both", "none"},  \* how they are given
     primary : SUBSET Storage,              \* nodes with is_primary
     ha : Modes \cup {""}, metaHa : Modes \cup {""},
     haproxy : BOOLEAN, autostart : BOOLEAN]

ASSUME TraditionalAssumption ==
    /\ Storage \cap Comp = {} /\ Node \cap ClusterMgr = {}
    /\ Haproxy \notin Node \cup ClusterMgr
    /\ Host \in [Proc -> Machine]
    /\ Layouts \subseteq LayoutType
    /\ MaxFaults \in Nat /\ MaxReboots \in Nat /\ MaxScripts \in Nat

VARIABLES
    layout,            \* the configuration, which never changes
    action, pc,        \* the script being run, or "none", and its next command
    full,              \* its --installtype or --cleantype: full, or cluster
    outcome,           \* the script that was run last, if it came to its end
    intact, rebooted,  \* no command failed without cause; a machine restarted
    base,              \* what it started from
    faults, reboots, runs,  \* counters of the bounds
    packages,          \* machines with the program packages
    prepared,          \* machines with env.sh, drivers and the other files
    listed,            \* nodes in the instances_list.txt of their package
    configured,        \* cluster managers with their configuration
    data,              \* nodes with a data directory
    sysTables, made,   \* bootstrap.py and create_cluster.py have run
    enabled,           \* processes with a systemd unit
    running,           \* processes that run
    active             \* those that run under their unit

script == <<layout, action, pc, full, outcome, intact, rebooted, base, faults, reboots, runs>>
files  == <<packages, prepared, listed, configured, data, enabled>>
meta   == <<sysTables, made>>
procs  == <<running, active>>
vars   == <<script, files, meta, procs>>

smooth == intact /\ ~rebooted
-----------------------------------------------------------------------------
(* The configuration.                                                      *)

\* Each shard of a groups configuration has a mode of its own.
MetaMode ==
    CASE layout.metaHa # "" -> layout.metaHa
      [] layout.metaHa = "" /\ layout.ha # "" -> layout.ha
      [] OTHER -> IF Len(layout.meta) > 1 THEN "mgr" ELSE "no_rep"
ShardMode(s) ==
    CASE layout.ha # "" -> layout.ha
      [] layout.ha = "" /\ layout.groups -> IF Len(s) = 1 THEN "no_rep" ELSE "mgr"
      [] OTHER -> MetaMode

Groups == (IF layout.groups THEN <<>> ELSE <<layout.meta>>) \o layout.shards
DataNodes == FlattenSeq(layout.shards)
StorageNodes == FlattenSeq(Groups)
Nodes == StorageNodes \o layout.comps
Proxy == IF layout.haproxy THEN <<Haproxy>> ELSE <<>>

\* The only node of a shard is its primary, be it marked or not.
Primaries ==
    UNION {IF Len(s) = 1 THEN ToSet(s) ELSE ToSet(s) \cap layout.primary : s \in ToSet(Groups)}
IsPrimary(n) == n \in Primaries
ShardOf(n) == CHOOSE s \in ToSet(Groups) : n \in ToSet(s)
IsReplica(n) == ~IsPrimary(n)
PrimaryOf(n) == CHOOSE p \in ToSet(ShardOf(n)) : IsPrimary(p)

ValidShard(s, mode) ==
    /\ s # <<>>
    /\ Len(s) = 1 <=> mode = "no_rep"
    /\ \A i, j \in DOMAIN s : {s[i], s[j]} \subseteq layout.primary => i = j
    /\ Len(s) > 1 => ToSet(s) \cap layout.primary # {}
\* With one ip and ports of its own, a misspelt name raises NameError.
ValidMgrs == layout.mgrKeys \in {"nodes", "ip"}

\* addPortToMachine: a node that is there twice has its port twice.
ValidConfig ==
    /\ IsInjective(Nodes)
    /\ ~layout.groups => ValidShard(layout.meta, MetaMode) /\ ValidMgrs
    /\ \A i \in DOMAIN layout.shards : ValidShard(layout.shards[i], ShardMode(layout.shards[i]))

\* setup_machines1 adds the host of everything that is configured.
KnownHosts == {Host[n] : n \in ToSet(Nodes \o layout.mgrs \o Proxy)}
On(m) == {n \in Proc : Host[n] = m}

-----------------------------------------------------------------------------
(* The scripts.                                                            *)

Cmds(op, s) == [i \in DOMAIN s |-> [op |-> op, on |-> s[i]]]
Cmd(op, x) == <<[op |-> op, on |-> x]>>

\* Units of storage nodes are there before the nodes themselves; computing nodes
\* have none, although generate_server_service could make them.
Units(s) == IF layout.autostart /\ ~layout.groups THEN Cmds("enable", s) ELSE <<>>
\* Mutant: the units stay.
KeepUnits(s) == Cmds("systemctl_stop", SelectSeq(s, LAMBDA n : layout.autostart))

NoUnits(s) == IF layout.autostart /\ ~layout.groups
              THEN Cmds("systemctl_stop", s) \o Cmds("disable", s) ELSE <<>>

Machines == SetToSeq(KnownHosts)
SetupMachine(m) ==
    (IF full THEN Cmd("unpack", m) ELSE <<>>) \o Cmd("prepare", m) \o Cmd("empty_list", m)

\* mpries, pries, msecs, secs: all primaries before all replicas.
InstallStorage ==
    Cmds("install_storage", Those(StorageNodes, Primaries))
      \o Cmds("install_storage", Those(StorageNodes, Storage \ Primaries))

InstallMgr(n) == Cmd("configure", n) \o Cmd("start", n) \o Units(<<n>>)

InstallScript ==
    FlattenSeq([i \in DOMAIN Machines |-> SetupMachine(Machines[i])])
      \o Units(StorageNodes)
      \o InstallStorage
      \o Cmds("install_comp", layout.comps)
      \o (IF layout.groups THEN <<>> ELSE Cmd("bootstrap", layout.comps[1])
                                            \o Cmd("create_cluster", layout.comps[1]))
      \o FlattenSeq([i \in DOMAIN layout.mgrs |-> InstallMgr(layout.mgrs[i])])
      \o Cmds("start", Proxy) \o Units(Proxy)

StartScript ==
    Cmds("start", StorageNodes) \o Cmds("start", layout.mgrs)
      \o Cmds("start", layout.comps) \o Cmds("start", Proxy)

\* Mutant: the computing nodes go on.
StopStorageOnly ==
    Cmds("stop", Proxy) \o Cmds("stop", layout.mgrs) \o Cmds("stop", StorageNodes)

StopScript ==
    Cmds("stop", Proxy) \o Cmds("stop", layout.comps) \o Cmds("stop", layout.mgrs)
      \o Cmds("stop", DataNodes)
      \o (IF layout.groups THEN <<>> ELSE Cmds("stop", layout.meta))

RemoveNode(n) == Cmd("rm", n) \o NoUnits(<<n>>)
RemoveNodes(s) == FlattenSeq([i \in DOMAIN s |-> RemoveNode(s[i])])

EnvCommands ==
    Cmds("stop", layout.comps) \o Cmds("stop", layout.mgrs)
      \o Cmds("stop", DataNodes)
      \o (IF layout.groups THEN <<>> ELSE Cmds("stop", layout.meta))
NoenvCommands ==
    Cmds("stop", Proxy) \o NoUnits(Proxy)
      \o RemoveNodes(layout.comps) \o NoUnits(layout.mgrs) \o RemoveNodes(DataNodes)
      \o (IF layout.groups THEN <<>> ELSE RemoveNodes(layout.meta))
      \o (IF full THEN Cmds("rm_base", Machines) ELSE <<>>)

\* Mutant: the directories go first.
RemoveBeforeStop == NoenvCommands \o EnvCommands

CleanScript == EnvCommands \o NoenvCommands

Commands(a) ==
    CASE a = "install" -> InstallScript
      [] a = "start"   -> StartScript
      [] a = "stop"    -> StopScript
      [] a = "clean"   -> CleanScript
      [] OTHER         -> <<>>

-----------------------------------------------------------------------------
(* Running a script.                                                       *)

\* The next command, if there is one left.
Upcoming == LET s == Commands(action) IN {s[i] : i \in {pc} \cap DOMAIN s}

\* startmysql.sh and start_pg.py look the port up in instances_list.txt.
Startable(n) ==
    /\ Host[n] \in packages
    /\ n \in Node => n \in listed \cap data /\ Host[n] \in prepared
    /\ n \in ClusterMgr => n \in configured
\* pg_ctl is given the directory, stopmysql.sh the port; kill -9 a process id.
Stoppable(n) ==
    /\ n \in Storage => n \in listed /\ Host[n] \in packages
    /\ n \in Comp => n \in data /\ Host[n] \in packages
    /\ n \in ClusterMgr => Host[n] \in packages

CanInstall(n) ==
    /\ Host[n] \in prepared /\ n \notin data
    /\ n \in Storage /\ IsReplica(n) => PrimaryOf(n) \in running

NodeInstalls == {"install_storage", "install_comp"}

\* What a command needs; one that lacks it fails and changes nothing.
CanRun(cmd) ==
    CASE cmd.op = "prepare"        -> cmd.on \in packages
      [] cmd.op = "start"          -> Startable(cmd.on) /\ (cmd.on = Haproxy => cmd.on \notin running)
      [] cmd.op = "stop"           -> Stoppable(cmd.on) /\ cmd.on \in running
      [] cmd.op \in NodeInstalls -> CanInstall(cmd.on)
      [] cmd.op = "bootstrap"      -> ~sysTables /\ ToSet(layout.meta) \subseteq running
      [] cmd.op = "create_cluster" -> sysTables /\ ~made /\ ToSet(Nodes) \subseteq running
      [] cmd.op = "configure"      -> Host[cmd.on] \in prepared
      [] cmd.op = "systemctl_stop" -> cmd.on \in enabled \cup active
      [] cmd.op = "disable"        -> cmd.on \in enabled
      [] OTHER                     -> TRUE

\* The next command of a script that is one of a, where it is op on x.
In(a, op, x) ==
    /\ action \in a
    /\ \E cmd \in Upcoming : cmd.op = op /\ cmd.on = x /\ CanRun(cmd)
    /\ pc' = pc + 1
    /\ UNCHANGED <<layout, action, full, outcome, intact, rebooted, base, faults, reboots, runs>>

\* Mutant: the other trap in both.
GoesOnAfterError == FALSE

\* "trap 'exit 1' ERR" is in install.sh only; that of a groups configuration
\* says "trap 'cat exit 1' ERR", which ends nothing.
AbortsOnError == action = "install" /\ ~layout.groups

AfterError ==
    IF AbortsOnError THEN action' = "none" /\ outcome' = "failed" /\ UNCHANGED pc
    ELSE pc' = pc + 1 /\ UNCHANGED <<action, outcome>>

Empty == data = {} /\ running = {} /\ listed = {} /\ enabled = {} /\ ~sysTables /\ ~made
Complete ==
    /\ data = ToSet(Nodes) /\ listed = data /\ configured = ToSet(layout.mgrs)
    /\ KnownHosts \subseteq packages \cap prepared
    /\ sysTables = ~layout.groups /\ made = ~layout.groups
    /\ enabled = IF layout.autostart /\ ~layout.groups
                 THEN ToSet(StorageNodes \o layout.mgrs \o Proxy) ELSE {}
Reachable == \A n \in running : Stoppable(n)

BaseFor(f) ==
    CASE Empty /\ (f \/ KnownHosts \subseteq packages) -> "pristine"
      [] Complete /\ Haproxy \notin active -> "installed"
      [] Complete /\ Haproxy \in active -> "watched"
      [] ~Empty /\ ~Complete /\ Reachable -> "tracked"
      [] OTHER -> "other"

\* The types that --installtype and --cleantype give; others take none.
Types(a) == IF a \in {"install", "clean"} THEN BOOLEAN ELSE {TRUE}

Issue(a) ==
    /\ action = "none" /\ runs < MaxScripts /\ ValidConfig
    /\ action' = a /\ pc' = 1 /\ runs' = runs + 1
    /\ full' \in Types(a)
    /\ base' = BaseFor(full')
    /\ outcome' = "none" /\ intact' = TRUE /\ rebooted' = FALSE
    /\ UNCHANGED <<layout, faults, reboots, files, meta, procs>>

\* The generator raises an error, and writes no script.
Refuse ==
    /\ action = "none" /\ runs < MaxScripts /\ ~ValidConfig
    /\ outcome' = "refused" /\ runs' = runs + 1
    /\ UNCHANGED <<layout, action, pc, full, intact, rebooted, base, faults, reboots, files, meta, procs>>

\* "Installation completed !" and the like.
Finish ==
    /\ action # "none" /\ pc > Len(Commands(action))
    /\ action' = "none" /\ outcome' = action
    /\ UNCHANGED <<layout, pc, full, intact, rebooted, base, faults, reboots, runs, files, meta, procs>>

Unpack(m) ==
    /\ In({"install"}, "unpack", m)
    /\ packages' = packages \cup {m}
    /\ UNCHANGED <<prepared, listed, configured, data, enabled, meta, procs>>

Prepare(m) ==
    /\ In({"install"}, "prepare", m)
    /\ prepared' = prepared \cup {m}
    /\ UNCHANGED <<packages, listed, configured, data, enabled, meta, procs>>

\* echo > etc/instances_list.txt, in both packages, whatever is in them.
EmptyList(m) ==
    /\ In({"install"}, "empty_list", m)
    /\ listed' = listed \ On(m)
    /\ UNCHANGED <<packages, prepared, configured, data, enabled, meta, procs>>

InstallNode(n) ==
    /\ In({"install"}, "install_storage", n) \/ In({"install"}, "install_comp", n)
    /\ data' = data \cup {n} /\ listed' = listed \cup {n} /\ running' = running \cup {n}
    /\ UNCHANGED <<packages, prepared, configured, enabled, meta, active>>

Bootstrap(n) ==
    /\ In({"install"}, "bootstrap", n)
    /\ sysTables' = TRUE
    /\ UNCHANGED <<files, made, procs>>

CreateCluster(n) ==
    /\ In({"install"}, "create_cluster", n)
    /\ made' = TRUE
    /\ UNCHANGED <<files, sysTables, procs>>

Configure(n) ==
    /\ In({"install"}, "configure", n)
    /\ configured' = configured \cup {n}
    /\ UNCHANGED <<packages, prepared, listed, data, enabled, meta, procs>>

\* cp to /usr/lib/systemd/system and systemctl enable: from the next boot on.
Enable(n) ==
    /\ In({"install"}, "enable", n)
    /\ enabled' = enabled \cup {n}
    /\ UNCHANGED <<packages, prepared, listed, configured, data, meta, procs>>

Start(n) ==
    /\ In({"install", "start"}, "start", n)
    /\ running' = running \cup {n}
    /\ UNCHANGED <<files, meta, active>>

\* Mutant: systemd is not aware of it.
StopUnnoticed(n) ==
    /\ In({"stop", "clean"}, "stop", n)
    /\ running' = running \ {n}
    /\ UNCHANGED <<files, meta, active>>

\* Restart=on-failure: kill -9 is a failure, and systemd starts haproxy again.
Stop(n) ==
    /\ In({"stop", "clean"}, "stop", n)
    /\ IF n = Haproxy /\ n \in active
       THEN UNCHANGED procs
       ELSE running' = running \ {n} /\ active' = active \ {n}
    /\ UNCHANGED <<files, meta>>

\* Takes down what the unit started, nothing else.
SystemctlStop(n) ==
    /\ In({"clean"}, "systemctl_stop", n)
    /\ running' = running \ (active \cap {n}) /\ active' = active \ {n}
    /\ UNCHANGED <<files, meta>>

\* systemctl disable and rm of the unit file.
Disable(n) ==
    /\ In({"clean"}, "disable", n)
    /\ enabled' = enabled \ {n}
    /\ UNCHANGED <<packages, prepared, listed, configured, data, meta, procs>>

\* The metadata goes with the last meta node.
LoseMeta ==
    /\ sysTables' = (sysTables /\ ToSet(layout.meta) \cap data' # {})
    /\ made' = (made /\ ToSet(layout.meta) \cap data' # {})

RemoveData(n) ==
    /\ In({"clean"}, "rm", n)
    /\ data' = data \ {n}
    /\ LoseMeta
    /\ UNCHANGED <<packages, prepared, listed, configured, enabled, procs>>

\* rm -fr of all that is in the base directory.
RemoveBase(m) ==
    /\ In({"clean"}, "rm_base", m)
    /\ packages' = packages \ {m} /\ prepared' = prepared \ {m}
    /\ listed' = listed \ On(m) /\ configured' = configured \ On(m)
    /\ UNCHANGED <<data, enabled, meta, procs>>

CommandFails ==
    /\ \E cmd \in Upcoming : ~CanRun(cmd)
    /\ AfterError
    /\ UNCHANGED <<layout, full, intact, rebooted, base, faults, reboots, runs, files, meta, procs>>

\* A command fails by itself; the installation of a node may leave its directory.
CommandFaults ==
    /\ faults < MaxFaults /\ faults' = faults + 1 /\ intact' = FALSE
    /\ \E cmd \in Upcoming :
          /\ CanRun(cmd)
          /\ \E left \in SUBSET {n \in Node : cmd.on = n /\ cmd.op \in NodeInstalls} :
                data' = data \cup left
    /\ AfterError
    /\ UNCHANGED <<layout, full, rebooted, base, reboots, runs,
                   packages, prepared, listed, configured, enabled, meta, procs>>

Interrupt ==
    /\ action # "none" /\ faults < MaxFaults /\ faults' = faults + 1
    /\ action' = "none" /\ outcome' = "failed" /\ intact' = FALSE
    /\ UNCHANGED <<layout, pc, full, rebooted, base, reboots, runs, files, meta, procs>>

\* Machine m restarts; it is there again before the next command.
Reboot(m) ==
    LET back == {n \in enabled \cap On(m) : Startable(n)} IN
    /\ reboots < MaxReboots /\ reboots' = reboots + 1 /\ rebooted' = TRUE
    /\ running' = (running \ On(m)) \cup back
    /\ active' = (active \ On(m)) \cup back
    /\ UNCHANGED <<layout, action, pc, full, outcome, intact, base, faults, runs, files, meta>>

-----------------------------------------------------------------------------
Init ==
    /\ layout \in Layouts
    /\ action = "none" /\ pc = 1 /\ full = TRUE /\ outcome = "none"
    /\ intact = TRUE /\ rebooted = FALSE /\ base = "other"
    /\ faults = 0 /\ reboots = 0 /\ runs = 0
    /\ packages = {} /\ prepared = {} /\ listed = {} /\ configured = {} /\ data = {}
    /\ sysTables = FALSE /\ made = FALSE
    /\ enabled = {} /\ running = {} /\ active = {}

OnMachine(m) == Unpack(m) \/ Prepare(m) \/ EmptyList(m) \/ RemoveBase(m)
OnProc(n) ==
    \/ InstallNode(n) \/ Bootstrap(n) \/ CreateCluster(n) \/ Configure(n) \/ Enable(n)
    \/ Start(n) \/ Stop(n) \/ SystemctlStop(n) \/ Disable(n) \/ RemoveData(n)

Run ==
    \/ \E m \in Machine \cap {cmd.on : cmd \in Upcoming} : OnMachine(m)
    \/ \E n \in Proc \cap {cmd.on : cmd \in Upcoming} : OnProc(n)
    \/ CommandFails \/ Finish

Next ==
    \/ Run \/ CommandFaults \/ Interrupt \/ Refuse
    \/ \E a \in Scripts : Issue(a)
    \/ \E m \in Machine : Reboot(m)

Spec == Init /\ [][Next]_vars

-----------------------------------------------------------------------------
(* Properties.                                                             *)

\* The variables hold what their comments say; a unit starts what it runs.
TypeOK ==
    /\ layout \in Layouts
    /\ action \in Scripts \cup {"none"} /\ pc \in Nat \ {0} /\ full \in BOOLEAN
    /\ outcome \in Scripts \cup {"none", "failed", "refused"}
    /\ intact \in BOOLEAN /\ rebooted \in BOOLEAN
    /\ base \in {"pristine", "installed", "watched", "tracked", "other"}
    /\ faults \in 0..MaxFaults /\ reboots \in 0..MaxReboots /\ runs \in 0..MaxScripts
    /\ packages \subseteq Machine /\ prepared \subseteq Machine
    /\ listed \subseteq Proc /\ configured \subseteq Proc /\ data \subseteq Proc
    /\ sysTables \in BOOLEAN /\ made \in BOOLEAN
    /\ enabled \subseteq Proc /\ running \subseteq Proc /\ active \subseteq running

\* What a command of install.sh is for.
Done(cmd) ==
    /\ cmd.op = "unpack"    => cmd.on \in packages
    /\ cmd.op = "prepare"   => cmd.on \in prepared
    /\ cmd.op \in NodeInstalls => cmd.on \in data
    /\ cmd.op = "bootstrap" => sysTables
    /\ cmd.op = "create_cluster" => made
    /\ cmd.op = "configure" => cmd.on \in configured
    /\ cmd.op = "enable"    => cmd.on \in enabled

\* install.sh stops at the first command that fails: it passes none that has not
\* done its work, whatever machines restart meanwhile.
InstallSkipsNothing ==
    action = "install" /\ ~layout.groups =>
        LET commands == InstallScript IN \A i \in 1..(pc - 1) : Done(commands[i])

AtEnd(a) == action = a /\ pc > Len(Commands(a))

\* Machines that restart in the middle of clean.sh, and whose units bring up
\* again what was stopped, do not save any node or its data from it, and
\* nothing is left that would start with the next boot.
CleanSurvivesReboots ==
    AtEnd("clean") /\ intact /\ base # "other" =>
        data = {} /\ running \cap Node = {} /\ enabled = {}

\* clean.sh takes no data directory from under a server that it could find.
DataOutlivesServer ==
    [][smooth' /\ base # "other" => \A n \in data \ data' : n \notin running']_vars

-----------------------------------------------------------------------------
Used == ToSet(Nodes \o layout.mgrs \o Proxy)
\* Nothing but clean.sh stops a haproxy that systemd watches over.
BaseName == IF base = "watched" THEN "tracked" ELSE base

Life == INSTANCE Lifecycle WITH
    part <- ToSet(Nodes), process <- Used, revives <- enabled,
    script <- action, base <- BaseName, present <- data, up <- running

\* The traditional scripts do what the abstract scripts promise.
KeepsPromises == Life!Spec
=============================================================================
