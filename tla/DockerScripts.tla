---------------------------- MODULE DockerScripts ----------------------------
(***************************************************************************)
(* The scripts that cluster_docker/generate_scripts.py generates, and what *)
(* running them does to the docker hosts.                                  *)
(*                                                                         *)
(* Every node of a cluster is a container of its own.  "docker run" comes  *)
(* back at once and the server inside starts beside the script, which      *)
(* waits for it with "docker exec ... wait_storage_up.sh" at chosen places.*)
(* No script sets an ERR trap: a command that fails is followed by the     *)
(* next one.  What the images do when their container starts comes from    *)
(* other repositories and is marked external.                              *)
(***************************************************************************)
EXTENDS Naturals, Sequences, FiniteSets, SequencesExt, Lists

CONSTANTS
    Machine,    \* the docker hosts
    Storage,    \* containers of meta and data shards
    Comp,       \* containers of computing nodes
    Manager,    \* the container of the cluster manager
    Host,       \* Host[c] is the machine of container c
    Layouts,    \* the configurations to be explored, see LayoutType
    MaxFaults,  \* bound: failures, interrupts and crashes in a behaviour
    MaxScripts  \* bound: scripts run in a behaviour

Node == Storage \cup Comp
Container == Node \cup {Manager}
Scripts == {"install", "start", "stop", "clean"}
Modes == {"mgr", "rbr", "no_rep"}

LayoutType ==
    [listed : SUBSET Machine,         \* the key "machines"
     meta : Seq(Storage), shards : Seq(Seq(Storage)), comps : Seq(Comp),
     primary : SUBSET Storage,        \* nodes with is_primary
     ha : Modes \cup {""}, metaHa : Modes \cup {""},  \* ha_mode of cluster and meta
     mounted : SUBSET Node,           \* nodes whose directories are given
     proxy : SUBSET Machine,          \* the machine of haproxy, if there is one
     imageInFiles : BOOLEAN]          \* --imageInFiles: images are copied, not pulled

ASSUME DockerAssumption ==
    /\ Storage \cap Comp = {} /\ Manager \notin Node
    /\ Host \in [Container -> Machine]
    /\ IsFiniteSet(Machine) /\ Layouts \subseteq LayoutType
    /\ MaxFaults \in Nat /\ MaxScripts \in Nat

VARIABLES
    layout,       \* the configuration, which never changes
    action,       \* the script being run, or "none"
    commands, pc, \* its commands, as they were generated, and the next of them
    outcome,      \* how it ended: "none", "done", "interrupted" or "refused"
    smooth,       \* no command failed without cause and nothing crashed in it
    base,         \* what it started from
    faults, runs, \* counters of the two bounds
    prepared,     \* machines with the base directory and the files in it
    exists,       \* containers that docker knows
    running,      \* containers that run
    serving,      \* containers whose server answers
    data,         \* nodes whose data directory or volume is filled
    images,       \* machines with the images
    copied,       \* the JSON files were copied into the first computing node
    inited,       \* init_cluster.sh created the cluster
    proxyUp       \* machines with a haproxy process

script == <<action, commands, pc, outcome, smooth, base, faults, runs>>
docker == <<prepared, exists, running, serving, data, images>>
rest   == <<copied, inited, proxyUp>>
vars   == <<layout, script, docker, rest>>

-----------------------------------------------------------------------------
(* The configuration.                                                      *)

MetaMode ==
    CASE layout.metaHa # "" -> layout.metaHa
      [] layout.metaHa = "" /\ layout.ha # "" -> layout.ha
      [] OTHER -> IF Len(layout.meta) > 1 THEN "mgr" ELSE "no_rep"
ShardMode == IF layout.ha # "" THEN layout.ha ELSE MetaMode

Groups == <<layout.meta>> \o layout.shards
StorageNodes == FlattenSeq(Groups)
Nodes == StorageNodes \o layout.comps
Proxy == SetToSeq(layout.proxy)
\* The containers of the configuration.
Used == ToSet(Nodes) \cup {Manager}

\* The only node of a shard is its primary, be it marked or not.
ShardOf(n) == CHOOSE s \in ToSet(Groups) : n \in ToSet(s)
IsPrimary(n) == n \in layout.primary \/ Len(ShardOf(n)) = 1
IsReplica(n) == ~IsPrimary(n)
PrimaryOf(n) == CHOOSE p \in ToSet(ShardOf(n)) : IsPrimary(p)
ModeOf(n) == IF n \in ToSet(layout.meta) THEN MetaMode ELSE ShardMode

ValidShard(s, mode) ==
    /\ s # <<>>
    /\ Len(s) = 1 <=> mode = "no_rep"
    /\ \A i, j \in DOMAIN s : {s[i], s[j]} \subseteq layout.primary => i = j
    /\ Len(s) > 1 => ToSet(s) \cap layout.primary # {}
\* validate_config, which only the generator of install.sh calls.
ValidConfig ==
    /\ ValidShard(layout.meta, MetaMode)
    /\ \A i \in DOMAIN layout.shards : ValidShard(layout.shards[i], ShardMode)

HostsOf(s) == {Host[n] : n \in ToSet(s)}
\* The machines a generator knows.  Only that of install.sh adds the hosts of
\* the computing nodes to those that are listed.
KnownHosts(a) ==
    layout.listed \cup HostsOf(StorageNodes) \cup {Host[Manager]} \cup layout.proxy
      \cup (IF a = "install" THEN HostsOf(layout.comps) ELSE {})
\* Writing the command of a computing node looks its host up, and the commands
\* that copy and init take the name of the first one.
Generates(a) ==
    /\ a = "install" => ValidConfig /\ layout.comps # <<>>
    /\ HostsOf(layout.comps) \subseteq KnownHosts(a)

-----------------------------------------------------------------------------
(* The scripts.                                                            *)

Cmds(op, s) == [i \in DOMAIN s |-> [op |-> op, on |-> s[i]]]
First(op, s) == [op |-> op, on |-> s[1]]

Primaries == {n \in ToSet(StorageNodes) : IsPrimary(n)}
\* commandslist: in rbr mode the replicas are in it as well, as configured.
RunFirst == {n \in ToSet(StorageNodes) : IsPrimary(n) \/ ModeOf(n) = "rbr"}

\* Mutant: the replicas do not wait for the primaries.
ReplicasAtOnce ==
    Cmds("run", Those(StorageNodes, RunFirst))
      \o Cmds("run", Those(StorageNodes, Storage \ RunFirst))
      \o Cmds("wait", Those(StorageNodes, Primaries))
      \o Cmds("wait", Those(StorageNodes, Storage \ Primaries))

RunStorage ==
    Cmds("run", Those(StorageNodes, RunFirst))
      \o Cmds("wait", Those(StorageNodes, Primaries))
      \o Cmds("run", Those(StorageNodes, Storage \ RunFirst))
      \o Cmds("wait", Those(StorageNodes, Storage \ Primaries))

RunComps == Cmds("run", layout.comps) \o Cmds("wait", layout.comps)

\* Mutant: the cluster is made before its description is there.
InitFirst == <<First("init", layout.comps), First("copy", layout.comps)>>

InitCluster == <<First("copy", layout.comps), First("init", layout.comps)>>

InstallScript ==
    Cmds("prepare", SetToSeq(KnownHosts("install")))
      \o RunStorage \o RunComps \o InitCluster
      \o <<[op |-> "run", on |-> Manager]>>
      \o Cmds("start_proxy", Proxy)

\* Mutant: the computing nodes are left to themselves.
StartStorageOnly ==
    Cmds("start", StorageNodes) \o Cmds("wait", StorageNodes)
      \o <<[op |-> "start", on |-> Manager]>>
      \o Cmds("start_proxy", Proxy)

StartScript ==
    Cmds("start", StorageNodes) \o Cmds("wait", StorageNodes)
      \o <<[op |-> "start", on |-> Manager]>>
      \o Cmds("start", layout.comps) \o Cmds("wait", layout.comps)
      \o Cmds("start_proxy", Proxy)

StopScript ==
    Cmds("stop_proxy", Proxy)
      \o Cmds("stop", StorageNodes)
      \o <<[op |-> "stop", on |-> Manager]>>
      \o Cmds("stop", layout.comps)

\* "docker container rm -fv", and "rm -fr" of each directory that was mounted.
RemoveNode(n) ==
    <<[op |-> "rm", on |-> n]>>
      \o (IF n \in layout.mounted THEN <<[op |-> "rm_dirs", on |-> n]>> ELSE <<>>)
RemoveNodes(s) == FlattenSeq([i \in DOMAIN s |-> RemoveNode(s[i])])

CleanScript ==
    Cmds("stop_proxy", Proxy)
      \o RemoveNodes(StorageNodes)
      \o <<[op |-> "rm", on |-> Manager]>>
      \o RemoveNodes(layout.comps)
      \o Cmds("rm_images", SetToSeq(KnownHosts("clean")))

Commands(a) ==
    CASE a = "install" -> InstallScript
      [] a = "start"   -> StartScript
      [] a = "stop"    -> StopScript
      [] a = "clean"   -> CleanScript
      [] OTHER         -> <<>>

-----------------------------------------------------------------------------
(* Running a script.                                                       *)

\* The next command, if there is one left.
Upcoming == {commands[i] : i \in {pc} \cap DOMAIN commands}

CanInit(c) ==
    /\ c \in serving /\ copied /\ ~inited
    /\ ToSet(Nodes) \subseteq serving

\* What a command needs; one that lacks it fails and changes nothing.
CanRun(cmd) ==
    CASE cmd.op = "prepare"     -> TRUE
      [] cmd.op = "run"         -> /\ Host[cmd.on] \in prepared /\ cmd.on \notin exists
                                   /\ layout.imageInFiles => Host[cmd.on] \in images
      [] cmd.op \in {"start", "stop", "rm", "copy"} -> cmd.on \in exists
      [] cmd.op = "wait"        -> cmd.on \in running
      [] cmd.op = "init"        -> CanInit(cmd.on)
      [] cmd.op = "start_proxy" -> cmd.on \in prepared \ proxyUp
      [] cmd.op = "stop_proxy"  -> cmd.on \in proxyUp
      [] cmd.op = "rm_dirs"     -> Host[cmd.on] \in prepared
      [] OTHER                  -> /\ cmd.on \in prepared  \* rm_images
                                   /\ \A c \in running : Host[c] # cmd.on

\* The scripts a command occurs in.
In(a, op, x) ==
    /\ action \in a
    /\ \E cmd \in Upcoming : cmd.op = op /\ cmd.on = x /\ CanRun(cmd)

\* The next line, whether the command worked or not.
GoOn ==
    /\ pc' = pc + 1
    /\ UNCHANGED <<layout, action, commands, outcome, smooth, base, faults, runs>>

Present == (exists \cap Node) \cup data
Pristine == exists = {} /\ data = {} /\ proxyUp = {} /\ ~inited
Complete == exists = Used /\ inited /\ copied /\ layout.proxy \subseteq prepared
\* An install that was cut short, with all it had started still up.
Resumable == exists = running /\ data \subseteq exists /\ (inited => exists = Used)
AllUp == running = Used /\ proxyUp = layout.proxy

Issue(a) ==
    /\ action = "none" /\ runs < MaxScripts
    /\ Generates(a)
    /\ action' = a /\ commands' = Commands(a) /\ pc' = 1
    /\ smooth' = TRUE /\ runs' = runs + 1
    /\ base' = CASE Pristine  -> "pristine"
                 [] Complete  -> "installed"
                 [] ~Pristine /\ ~Complete /\ Resumable -> "resumable"
                 [] OTHER     -> "other"
    /\ outcome' = "none"
    /\ UNCHANGED <<layout, faults, docker, rest>>

\* The generator raises a ValueError, a KeyError or a TypeError, and writes no script.
Refuse(a) ==
    /\ action = "none" /\ runs < MaxScripts
    /\ ~Generates(a)
    /\ outcome' = "refused" /\ runs' = runs + 1
    /\ UNCHANGED <<layout, action, commands, pc, smooth, base, faults, docker, rest>>

Finish ==
    /\ action # "none" /\ pc > Len(commands)
    /\ action' = "none" /\ commands' = <<>> /\ outcome' = "done"
    /\ UNCHANGED <<layout, pc, smooth, base, faults, runs, docker, rest>>

\* sudo mkdir; with --imageInFiles also dist.sh and docker load of the images.
Prepare(m) ==
    /\ In({"install"}, "prepare", m)
    /\ prepared' = prepared \cup {m}
    /\ images' = IF layout.imageInFiles THEN images \cup {m} ELSE images
    /\ GoOn
    /\ UNCHANGED <<exists, running, serving, data, rest>>

\* "docker run --name": fails when there is a container of that name.
RunContainer(c) ==
    /\ In({"install"}, "run", c)
    /\ exists' = exists \cup {c} /\ running' = running \cup {c}
    /\ images' = images \cup {Host[c]}
    /\ GoOn
    /\ UNCHANGED <<prepared, serving, data, rest>>

StartContainer(c) ==
    /\ In({"start"}, "start", c)
    /\ running' = running \cup {c}
    /\ GoOn
    /\ UNCHANGED <<prepared, exists, serving, data, images, rest>>

\* Mutant: clients of a container that stops are still served.
StopSilently(c) ==
    /\ In({"stop"}, "stop", c)
    /\ running' = running \ {c}
    /\ GoOn
    /\ UNCHANGED <<prepared, exists, serving, data, images, rest>>

StopContainer(c) ==
    /\ In({"stop"}, "stop", c)
    /\ running' = running \ {c} /\ serving' = serving \ {c}
    /\ GoOn
    /\ UNCHANGED <<prepared, exists, data, images, rest>>

\* wait_storage_up.sh and wait_server_up.sh look again until the server answers.
WaitFor(c) ==
    /\ In({"install", "start"}, "wait", c) /\ c \in serving
    /\ GoOn
    /\ UNCHANGED <<docker, rest>>

\* docker cp of the four JSON files.
CopyConfig(c) ==
    /\ In({"install"}, "copy", c)
    /\ copied' = TRUE
    /\ GoOn
    /\ UNCHANGED <<docker, inited, proxyUp>>

InitSystem(c) ==
    /\ In({"install"}, "init", c)
    /\ inited' = TRUE
    /\ GoOn
    /\ UNCHANGED <<docker, copied, proxyUp>>

StartProxy(m) ==
    /\ In({"install", "start"}, "start_proxy", m)
    /\ proxyUp' = proxyUp \cup {m}
    /\ GoOn
    /\ UNCHANGED <<docker, copied, inited>>

StopProxy(m) ==
    /\ In({"stop", "clean"}, "stop_proxy", m)
    /\ proxyUp' = proxyUp \ {m}
    /\ GoOn
    /\ UNCHANGED <<docker, copied, inited>>

\* Mutant: without -f docker does not remove a container that runs.
RemoveStopped(c) ==
    /\ In({"clean"}, "rm", c)
    /\ exists' = IF c \in running THEN exists ELSE exists \ {c}
    /\ GoOn
    /\ UNCHANGED <<prepared, running, serving, data, images, rest>>

\* -f stops the container, -v removes its volumes; mounted directories stay.
\* What was copied into it, and the metadata in it, go too.
RemoveContainer(c) ==
    /\ In({"clean"}, "rm", c)
    /\ exists' = exists \ {c} /\ running' = running \ {c}
    /\ serving' = serving \ {c}
    /\ data' = IF c \in layout.mounted THEN data ELSE data \ {c}
    /\ copied' = (copied /\ c # layout.comps[1])
    /\ inited' = (inited /\ ToSet(layout.meta) \cap data' # {})
    /\ GoOn
    /\ UNCHANGED <<prepared, images, proxyUp>>

RemoveDirs(c) ==
    /\ In({"clean"}, "rm_dirs", c)
    /\ data' = data \ {c}
    /\ inited' = (inited /\ ToSet(layout.meta) \cap data' # {})
    /\ GoOn
    /\ UNCHANGED <<prepared, exists, running, serving, images, copied, proxyUp>>

RemoveImages(m) ==
    /\ In({"clean"}, "rm_images", m)
    /\ images' = images \ {m}
    /\ GoOn
    /\ UNCHANGED <<prepared, exists, running, serving, data, rest>>

\* Mutant: the script itself looks again until the server answers.
FailsUnlessWaiting ==
    /\ \E cmd \in Upcoming : ~CanRun(cmd) /\ cmd.op # "wait"
    /\ GoOn
    /\ UNCHANGED <<docker, rest>>

CommandFails ==
    /\ \E cmd \in Upcoming : ~CanRun(cmd)
    /\ GoOn
    /\ UNCHANGED <<docker, rest>>

\* ssh or the docker daemon fails.
CommandFaults ==
    /\ faults < MaxFaults /\ faults' = faults + 1
    /\ \E cmd \in Upcoming : CanRun(cmd)
    /\ smooth' = FALSE /\ pc' = pc + 1
    /\ UNCHANGED <<layout, action, commands, outcome, base, runs, docker, rest>>

Interrupt ==
    /\ action # "none" /\ faults < MaxFaults /\ faults' = faults + 1
    /\ action' = "none" /\ commands' = <<>> /\ outcome' = "interrupted" /\ smooth' = FALSE
    /\ UNCHANGED <<layout, pc, base, runs, docker, rest>>

\* A host restarts: containers are there, and stay down.
Crash(m) ==
    LET down == {c \in Container : Host[c] = m} IN
    /\ faults < MaxFaults /\ faults' = faults + 1
    /\ smooth' = FALSE
    /\ running' = running \ down /\ serving' = serving \ down
    /\ proxyUp' = proxyUp \ {m}
    /\ UNCHANGED <<layout, action, commands, pc, outcome, base, runs>>
    /\ UNCHANGED <<prepared, exists, data, images, copied, inited>>

\* The server in a container gets ready, at any time after docker run or start.
Boot(c) ==
    /\ c \in running \ serving
    /\ serving' = serving \cup {c}
    /\ data' = data \cup ({c} \cap Node)
    /\ UNCHANGED <<layout, script, prepared, exists, running, images, rest>>

-----------------------------------------------------------------------------
Init ==
    /\ layout \in Layouts
    /\ action = "none" /\ commands = <<>> /\ pc = 1 /\ outcome = "none"
    /\ smooth = TRUE /\ base = "other" /\ faults = 0 /\ runs = 0
    /\ prepared = {} /\ images = {}
    /\ exists = {} /\ running = {} /\ serving = {} /\ data = {}
    /\ copied = FALSE /\ inited = FALSE /\ proxyUp = {}

OnContainer(c) ==
    \/ RunContainer(c) \/ StartContainer(c) \/ StopContainer(c) \/ WaitFor(c)
    \/ RemoveContainer(c) \/ RemoveDirs(c) \/ CopyConfig(c) \/ InitSystem(c)
OnMachine(m) == Prepare(m) \/ RemoveImages(m)
OnProxy(m) == StartProxy(m) \/ StopProxy(m)

Run ==
    \/ \E c \in Container \cap {cmd.on : cmd \in Upcoming} : OnContainer(c)
    \/ \E m \in Machine \cap {cmd.on : cmd \in Upcoming} : OnMachine(m)
    \/ \E m \in layout.proxy \cap {cmd.on : cmd \in Upcoming} : OnProxy(m)
    \/ CommandFails \/ Finish

Faults == CommandFaults \/ Interrupt \/ \E m \in Machine : Crash(m)

Next ==
    \/ Run \/ Faults
    \/ \E c \in Container : Boot(c)
    \/ \E a \in Scripts : Issue(a) \/ Refuse(a)

\* A replica may wait for ever for a primary that does not serve.
LacksPrimary(c) ==
    c \in ToSet(StorageNodes) /\ IsReplica(c) /\ PrimaryOf(c) \notin serving

\* The shell goes on to its next command or, where it waits for a server, that
\* server gets ready: the machines do not all stand still.  A replica whose
\* primary does not serve may get ready, and nothing says that it will.
Spec ==
    /\ Init /\ [][Next]_vars
    /\ WF_vars(Run \/ \E c \in Container : Boot(c) /\ ~LacksPrimary(c))

-----------------------------------------------------------------------------
(* Properties.                                                             *)

\* The variables hold what their comments say; only containers that run serve.
TypeOK ==
    /\ layout \in Layouts
    /\ action \in Scripts \cup {"none"} /\ pc \in Nat \ {0}
    /\ outcome \in {"none", "done", "interrupted", "refused"} /\ smooth \in BOOLEAN
    /\ base \in {"pristine", "installed", "resumable", "other"}
    /\ faults \in 0..MaxFaults /\ runs \in 0..MaxScripts
    /\ exists \subseteq Container /\ running \subseteq exists
    /\ serving \subseteq running /\ data \subseteq Node
    /\ prepared \subseteq Machine /\ images \subseteq prepared
    /\ proxyUp \subseteq prepared \cap layout.proxy
    /\ copied \in BOOLEAN /\ inited \in BOOLEAN

FromStart == smooth /\ action = "install" /\ base \in {"pristine", "resumable"}

\* priwaitlist before secmdlist: a replica of a group replication shard gets its
\* container only when its primary answers, also in an install that goes on where
\* another was interrupted; and when it gets ready for the first time, its primary
\* still does.  In a container from an earlier script, which may have failed, it
\* may get ready at any time.
JoinsLivePrimary ==
    [][FromStart =>
         \A n \in Storage :
            /\ n \in exists' \ exists \/ (base = "pristine" /\ n \in data' \ data)
            /\ IsReplica(n) /\ ModeOf(n) = "mgr"
            => PrimaryOf(n) \in serving]_vars

AtEnd(a) == action = a /\ pc > Len(Commands(a)) /\ smooth

\* install.sh run again after an interrupt, without clean.sh, completes the
\* installation: what exists is passed over, what is missing is made.
InstallResumes ==
    AtEnd("install") /\ FromStart => Complete /\ AllUp /\ Nodes # <<>> /\ ToSet(Nodes) \subseteq serving

\* A script waits for a replica that runs, and whose primary does not serve.
Stranded ==
    \E cmd \in Upcoming :
       cmd.op = "wait" /\ cmd.on \in running \ serving /\ LacksPrimary(cmd.on)

\* A script ends, or it waits for a replica whose primary did not start or went
\* down, which no script notices; in nothing else does it wait for ever.  It does
\* end when nothing fails: an install.sh run at first or again after an interrupt,
\* and any script over an installation that is complete, reach their last command.
ScriptsEnd ==
    /\ action # "none" ~> action = "none" \/ Stranded
    /\ FromStart \/ (smooth /\ base = "installed") ~> action = "none" \/ ~smooth

\* What a command of clean.sh leaves behind.
Gone(cmd) ==
    /\ cmd.op = "rm"         => cmd.on \notin exists \cup running
    /\ cmd.op = "stop_proxy" => cmd.on \notin proxyUp

\* clean.sh passes no command whose work is not done, although nothing stops it
\* at a failure, unless something failed by itself.
CleanSkipsNothing ==
    smooth /\ action = "clean" => \A i \in 1..(pc - 1) : Gone(CleanScript[i])

-----------------------------------------------------------------------------
Processes == Used \cup {<<"haproxy", m>> : m \in layout.proxy}
ProcessesUp == running \cup {<<"haproxy", m>> : m \in proxyUp}
BaseName == IF base = "resumable" THEN "tracked" ELSE base

Life == INSTANCE Lifecycle WITH
    part <- ToSet(Nodes), process <- Processes, revives <- {},
    script <- action, base <- BaseName, present <- Present, up <- ProcessesUp

\* The docker scripts do what the abstract scripts promise.
KeepsPromises == Life!Spec
=============================================================================
