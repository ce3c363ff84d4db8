# The kunlun cluster scripts: models, checks and proofs

This directory models the part of the repository that carries its own logic: the
programs under `src/cluster` that turn one JSON configuration into the shell
scripts which install, start, stop and remove a kunlun cluster, and the programs
those scripts leave on the machines; the two other generators of the repository,
`src/cluster/traditional` and `src/cluster_docker`; and its backups.

- [Inventory](#inventory)
- [Modules](#modules)
- [Runs](#runs) and [what they disagree with](#disagreements)
- [Bounds](#bounds), [fairness](#fairness)
- [Proofs](#proofs)
- [What is not modelled](#what-is-not-modelled)
- [What could follow](#what-could-follow)

How to run: `tlc -config MCClusterScripts_full.cfg MCClusterScripts.tla` and the
same for the other configurations, each with the `MC` module that its name begins
with; `tlapm ClusterScriptsProofs.tla` and the same for `Inductions` and the other
`*Proofs` modules. The proofs of `ClusterScripts` take some minutes.

## Inventory

A *machine* is an ip address of the configuration. On it run at most one *node
manager*, at most one *cluster manager*, and any number of *instances*: storage
nodes (`kunlun-storage`, a MySQL) and computing nodes (`kunlun-server`, a
PostgreSQL). Storage nodes form *shards* of a primary and its replicas; one
shard, the *metadata shard*, holds the system tables of the cluster manager.

| Part | Source | State it keeps | Operations |
|---|---|---|---|
| Validation, ports | `cluster_common.py` | per machine: used ports, node manager entry with its counters; the configuration itself, which it completes | `validate_and_set_config1/2/3`, `addPortToMachine`, `get_nodemgr_nextport` |
| Script generator | `setup_cluster_manager.py` | lists of commands, files and directories to be written | `install_/start_/stop_/clean_with_config` and `gen_cluster_config` |
| The generated scripts | `clustermgr/{install,start,stop,clean}.sh` | files and processes of every machine, metadata rows | one remote command after the other |
| Helpers on the machines | `clustermgr/{start,stop,clear}_instances.sh`, `clear_instance.sh` | `instance_binaries`, `instances_list.txt` | loop over the instances of a machine |
| Remote execution | `remote_run.sh`, `dist.sh` | none | run a command under ssh, copy a file |
| Metadata shard layout | `setup_metanodes_onedc/multidc` | nodes, sources, `node_map_master` pairs | list the nodes of one or of several data centres |
| Metadata changes | `clustermgr/modify_metadata.py` | rows of the metadata tables | one function per section of a JSON file, each with its own commit |
| Package download | `download_file` | files under `clustermgr` | retry, compare with Content-Length |
| Backup, restore | `backup/*.sh`, `check_gtid.py`, `restore/*` | gtid sets, copied log files | full and incremental backup, merge |
| Traditional generators | `traditional/generate_scripts.py`, `generate_scripts_groups.py` | as the generator; systemd units on the machines | four scripts each |
| Docker generator | `cluster_docker/generate_scripts.py` | containers, volumes and images of every host | four scripts |

How they interact. The generator validates the configuration first (ports,
`is_primary`, data centres), then writes a script and the JSON files that its
commands read. The scripts are run later, by hand, on a control machine; they
share nothing with each other but the state of the machines and the metadata
rows. The node manager that a script starts keeps the instances of its machine
up from then on, and the cluster manager goes on allocating ports from the
counters that `modify_metadata.py` wrote. No script knows what an earlier one
has done.

What is hard. A script is a long sequence over several machines that may stop
anywhere, and each script has its own policy for errors: `install.sh` and
`start.sh` set an ERR trap, `stop.sh` and `clean.sh` go on, and the helpers hide
failures behind `|| true`. Every command depends on what earlier commands, of
this script or another, left on its machine. Ports given by hand and ports that
are counted share one map. With several data centres the order in which nodes
are installed is sorted twice. `PROJECT.json` lists these hazards at their lines.

What makes it correct, per part:

- scripts: an install on clean machines reaches a complete running cluster; a
  command that could not do its work is never passed over by `install.sh`;
  start, stop and clean end in what their last line says, from any state of the
  processes; nothing loses its files while it runs; managers are started after
  the metadata names what they manage;
- ports: no port twice on a machine, exporters included; the counters that are
  handed on are past everything given; what is registered is what was given;
- metadata shard: a node is installed after the one it replicates from, along one
  tree; the stored map is that tree; the primary can get the acknowledgements it
  waits for;
- metadata changes: a change that fails half-way leaves one row per machine and
  type, with all the ports that were given; when it is run again as it is, the keys
  of the tables, if they have any, are all that keeps its rows from being made twice;
- backups: archives of a chain connect, and merging them loses nothing.

## Modules

### Lifecycle

What any of the three generators promises, without commands: `install` only adds,
`start` only brings up, `stop` only takes down, `clean` only removes, and a script
in which nothing went wrong, begun from a state that it is made for, ends in what
its last line says (`Outcome`). `revives` are processes that the machine may bring
up by itself. `ClusterScripts`, `TraditionalScripts` and `DockerScripts` implement
it: each has an instance `Life` with its own refinement mapping, and checks
`KeepsPromises == Life!Spec` as a property of its run.

### ClusterScripts

The four scripts of one data centre. `InstallScript`, `StartScript`,
`StopScript` and `CleanScript` are sequences of commands `[op, on]`, put together
loop by loop like the functions of `setup_cluster_manager.py`:

| Definition | Code |
|---|---|
| `InstallScript`, `InstallCluster` | `install_with_config`, `install_clusters` |
| `StartScript`, `StartCluster` | `start_with_config`, `start_clusters` |
| `StopScript`, `StopCluster` | `stop_with_config`, `stop_clusters` |
| `CleanScript`, `CleanCluster` | `clean_with_config`, `clean_clusters` |
| `AbortsOnError` | the `trap ... ERR` lines of the `*_clustermgr_int` functions |
| `PrimariesFirst` | the lists `pries` and `secs` |
| `OnSkipped`, `OwnNodeMgrs` | the tests of `skip` of a node manager entry |
| `Undermined`, `OutOfReach` | the `rm -fr instance_binaries` of a cluster manager before the `stopmysql.sh` of the meta nodes; `stop_pg.py` in `dba_tools` |
| `Validated` | what `validate_and_set_config2` lets through: no instance twice, one node manager for each machine that has instances, one cluster manager at most |

The loops that pass over a part of a list are written with `Those(s, S)` of `Lists`,
the elements of `s` that are in `S`, in their order.

The state is what the commands touch: directories (`basedir`, `packages`,
`nodemgrDir`, `clustermgrDir`), program directories and whether their
`instances_list.txt` names the server (`program`, `listed`), non-empty data
directories (`data`), processes (`running`, `nodemgrUp`, `clustermgrUp`) and
metadata (`sysTables`, `serverRows`, `clusterRows`). `action` and `pc` say which
script is at which command. One action is one command; `Issue` starts a script,
`Finish` ends it. `CommandFails` is a command that cannot work in this state;
`CommandFaults` one that fails for a reason of its own, `Interrupt` the operator
stopping a script, `Crash` a machine that goes down and comes back with its
files. The loops of the helper scripts end in `|| true`: `HideFailures` lets any
subset of their instances fail without the script noticing.

A machine with `skip` was set up by another configuration, whose node manager runs
there from the start, survives the four scripts (none of them stops it) and comes
back after a crash. It keeps up what is installed there: `Revive` is that manager
starting an instance that `stop.sh` or `clean.sh` has just taken down. What the
scripts do on such machines goes wrong in three ways, which the properties name:

- They stop and remove instances under the running manager. `ManagerDownFirst` says
  that this happens there and nowhere else; a script in which an instance was revived
  promises nothing about how it ends.
- `clean.sh` removes `instance_binaries` with a cluster manager and only later looks
  there for the `stopmysql.sh` of a meta node. The nodes that this hits,
  `Undermined`, are left out of `DataOutlivesServer` and `Life`, and named by
  `CleanCanRun`. The validation lets such a configuration through, and `full` is one.
- It removes their packages along with that cluster manager, and `install.sh` does
  not unpack them again: machines are clean (`pristine`) only if the packages of the
  skipped ones are there.

`CanRun` says what a command needs. What the programs of other repositories need
(`install-mysql.py`, `create_cluster.py`, `add_comp_self.py`, `bootstrap.py`) is
taken from how the scripts call them and marked external.

Three variables are only there for the properties: `base` is what a script
started from (`pristine`: nothing installed; `installed`: a complete
installation, whatever of it runs; `tracked`: every process can be found from its
files; `other`), `smooth` says that nothing failed by itself, crashed or was revived
since, `outcome` how the last script ended.

### PortAllocation

The walk of `validate_and_set_config2` over a configuration. The configuration
is not a constant: each step chooses what comes next in it, so that one run goes
through all configurations within the bounds. `phase` is the section the walk is
in (cluster managers, node managers, meta nodes, other services, clusters). An
instance takes one to three ports; `current` is the instance with the increments
its counter will make, and `NextPort` gives it one port, from the configuration
or from the counter. `Reject` is the ValueError of `addPortToMachine`. `claims`
is a history of what got which port; nothing reads it but properties.

### MetaNodes

The layout of the metadata shard, with and without `--multipledc` (`multipledc`). `nodes` is
`meta.nodes` in any order, with any marks; the two validation functions, the loops
of `setup_metanodes_onedc` and `setup_metanodes_multidc` (one step per data
centre) and the second sorting of `install_with_config` follow. An entry of
`metanodes` keeps the node, the file that it is installed from and its place in
it; `Source` is the node marked primary in that file. The files are values, as
`json.dump` writes them at that moment: the marks change afterwards. The loop
variable `node`, which Python keeps after its loop, is part of the state. The loops that
pass over a part of a list, and the two sortings by `is_primary`, use `Those`.

### DockerScripts

The four scripts of `cluster_docker/generate_scripts.py`, as lists of commands like
those of `ClusterScripts`. What is different is what the commands work on: a
container `exists`, may be `running`, and what is in it is `serving` some time
later, by itself (`Boot`, the start scripts of the images); a replica whose primary
does not serve may do so or not. `commands` is the script as
it was generated, from the time it is started to its end, and `Used` the containers of
the configuration. `wait` is a command that is done when the server of a container answers.
`RunStorage` has the four lists of `generate_install_scripts`: what runs at once
(`RunFirst`), the primaries that are waited for, the replicas, and the wait for those. `install.sh` has no trap; it
can be run again over what an interrupted one left, because `docker run` fails for
a container that exists and the script goes on. `Refuse` is a generator that ends
with an exception: an invalid configuration, one without computing nodes, or a host that
it does not know.

### TraditionalScripts

The four scripts of `traditional/generate_scripts.py` and of
`generate_scripts_groups.py` (`layout.groups`), which differ in the parts they
install and in the trap of `install.sh`. `ValidConfig` is what the validation lets
through: modes that fit the nodes, and no node twice (its port would be given twice on
its machine). With `autostart` each instance but the
computing nodes has a systemd unit: `enabled`, and `active` when systemd started it
and watches over it. `Reboot` is a machine that restarts and brings up what is
enabled; `kill -9` of an active haproxy is a failure to systemd, which starts it
again.

### MetadataChange

`modify_metadata.py` and the files that `install_with_config` and
`clean_with_config` write for it. A change is a sequence of statements, section by
section; `draft` is what the open transaction has made of `db`, `Commit` puts it
there, `Abort` drops it. `StatementFails` is an exception of the program in this
state, `StatementFaults` a lost connection, where a commit may be done or not. An
addition that failed may be run again as it is, by hand or by an `install.sh` that has
only machines to add, or be removed first (`MayAdd`); `repeated` says that one was run
again over rows that it had committed. `process_nodemapmaster` asks the master of each node
for its uuid over another connection (`AskMaster`), and a master that does not answer
has the uuid `""`, which is committed like any other: `modify_metadata.py` reports
nothing, and no text says that it should. Beside it a cluster manager gives ports from
the counters (`Allocate`); a row that the transaction has changed is locked.
The configurations are those that `validate_and_set_config2` lets through (`Validated`):
one node manager for a machine, its `nodetype` widened to what it gives ports to; and no
machine is set up by two of them at a time (`MayAdd`).
Whether the tables have keys is not in the repository: `keyed` has both values, for all
tables that a change inserts into.

### Backup

`backupmysql.sh` with `check_gtid.py`, and `merge_incr.py`. The transactions of a
shard are numbered; a log file is where it starts, an archive the copies it has and
its gtid. The servers commit, apply, rotate and fail over at any moment between the
steps of a backup. `FilesFor` is the walk of `check_gtid.py` from the newest file
backwards, `Ends` what it reads of a gtid set (the first interval of each uuid),
`Merged` the choice of `merge_incr.py`.

### How they fit

What `PortAllocation` and `MetaNodes` compute is fixed before the first command
runs: `ClusterScripts` takes its result as constants (`Host`, `Primary`, the order of
`MetaNodes`). Its `MetaNodes` is the list of a single data centre. `AddMetadata` and
`RemoveMetadata` of `ClusterScripts` are one command each; `MetadataChange` opens
them up. The three script modules are joined by `Lifecycle`. `Backup` runs on what
any of them has installed.

## Runs

| Run | Shows |
|---|---|
| `full` | Four machines, two of them prepared before and skipped, with their node managers running; a metadata shard of three nodes, one of which is with a cluster manager on a skipped machine; a cluster with a shard of two nodes and a computing node; in each shard a replica is listed first. Any four scripts in any order, any two of: a failing command, a hidden failure, an interrupt, a crash, an instance that a foreign node manager brings up again. All safety and action properties of the scripts. |
| `recover` | The same without the fourth machine and what is on it; the operator cleans after a failed install and tries again: the cluster gets installed. |
| `add` | Two clusters added to a metadata shard of another configuration, on skipped machines: the instances are handled one by one. The only run in which `remove_metadata`, `rm_data` and the per-instance commands of computing nodes are reached. |
| `ports` | All walks over two machines with up to three instances and services. |
| `meta` | Two meta nodes in each of three data centres, each but the primary secondary or standby, and all six in one: every order, every choice of marks. |
| `docker` | Two hosts, a meta shard and a data shard of two nodes each, a computing node; group replication and rbr, one with shards of a single node, and one with two primaries that is refused. Any three scripts, two faults, servers that get ready whenever they do and, for replicas without their primary, perhaps never. With liveness and the refinement of `Lifecycle`. |
| `traditional` | Two machines; a plain configuration, one with systemd units, data shards alone (groups), and two that are refused (a cluster manager with an ip and ports of its own, a node in two shards). Any three scripts, one failure or interrupt, one machine that restarts. With the refinement of `Lifecycle`. |
| `metadata` | Three configurations (one with the metadata shard that sets two machines up, one of them for storage only; one that adds a cluster on both, with a computing node on the latter; one more machine), four changes, additions that failed run again or removed, a port given by a cluster manager, one lost connection or silent master, tables with and without keys. |
| `backup` | Two servers, rbr or group replication; three transactions, two new log files, a failover, a command that fails; a full backup and two incremental ones. |
| `clean_added`, `nosecondary`, `backup_gtid` | Violations, see below. |

The properties, by what they guard:

- `InstallSkipsNothing`: behind the counter of `install.sh` all work is done,
  whatever fails, crashes or was there before. Proved as well.
- `KeepsPromises`: the refinement of `Lifecycle`, in `full`, `docker` and `traditional`.
  Start, stop and clean are asked from any mixture of running and stopped processes,
  as crashes and interrupts leave them; clean also from partial installations, as
  long as processes can be found from their files.
- `CommandsCanRun`, `CleanCanRun`: every command finds what it needs; the order of
  the lists is right, but for exactly the two stops of `clean.sh` that `OutOfReach`
  names. Proved as well.
- `ScriptsComplete`: what the last line of each script says, in `add`, where `clean.sh`
  does not keep its promise (`clean_added`). Proved as well.
- `DataOutlivesServer`, `ManagerDownFirst`: no step takes the files from under a
  running server, or stops an instance that a node manager keeps up: but for
  undermined meta nodes, and for instances on skipped machines.
- `ManagersAfterMetadata`: a manager starts only over a complete installation.
- `RecoversByClean`: the liveness property of the procedure in the documentation.
- `JoinsLivePrimary`: in docker, no replica of a group gets its container before its primary
  answers, also in an install that goes on where another was interrupted; and on clean
  machines the primary still does when the replica gets ready.
- `InstallResumes`: `install.sh` run again where one was interrupted completes the
  installation. `CleanSkipsNothing`: `clean.sh`, which no failure stops, passes no
  command that has not done its work.
- `ScriptsEnd`: a docker script waits for ever only for a replica that runs and whose
  primary does not serve (`Stranded`), and that takes a failure: an `install.sh` on clean
  machines or after an interrupt, and any script over a complete installation, end
  unless something fails or crashes.
- `CleanSurvivesReboots`: a restart in the middle of the traditional `clean.sh`,
  after which units bring up what was stopped, saves no node from it.
- `RowsOnce`, `PortsRecorded`, `PortsGivenOnce`, `NoUnknownCluster`: what changes that
  fail between two sections, and are repeated, leave in the tables. A second row for the
  same machine and type takes tables without keys and an addition run again over its
  own rows. The ports of an installed configuration are in all rows of the machine, and
  there is none just when the configuration that set the machine up registered it for
  the other type: then the `UPDATE` matches nothing, and the ports are lost without an
  error.
- `ArchivesConnect`: an incremental backup begins where the one before it ended, also
  on another server. `RestoresWithoutGap`, `MergeLosesNothing`: what a chain restores.
- `PortsDistinct`, `CountersAhead`, `Registered`, `ExportersFree`, `OneTree`,
  `NodeMapTrue`, `AcksAvailable`, `BootstrapOnSource`: see the comments at their
  definitions.

`SourceFirstNear` is what remains true of `SourceFirst` with several data centres;
`NodeMapTrue` leaves out, there, the sources in standby data centres, whose pairs
name the last node of an earlier loop. `PortsGivenOnce` holds when no cluster manager
gives a port between the writing of the configuration and the change.
`ArchivesConnect` and `RestoresWithoutGap` hold for chains without a failed command
and, in group replication, before the second primary; `RestoresWithoutGap` also only
when no log file begins between the last copy and the reading of the gtid. These
conditions are in the formulas, and each is a hazard in `PROJECT.json`.

Every property of a passing run is also
tried against a changed definition (the operators marked "Mutant", listed in
`PROJECT.json`) and then fails.

### Disagreements

- `clean_added`: `clean_clusters` looks for `stop_pg.py` of a computing node in
  `dba_tools`; it is in `scripts` everywhere else. `clean.sh` goes on and removes
  the data of the running server.
- `nosecondary`: without a secondary data centre the master of a standby one is
  installed before the node it replicates from.
- `backup_gtid`: an incremental backup puts `gtid_executed` into its file, read when
  the log files are copied already; a transaction committed in between is in the
  gtid of the archive and in none of its files.

Other faults met on the way have no run, because no text of the repository
contradicts them or a single line shows them: `modify_metadata.py` reads
`args.cluster_name`, which does not exist, so that the rows of removed clusters stay;
the trap of the groups generator is `'cat exit 1'`, which ends nothing; the `UPDATE` of
`add_servernodes` loses the ports of a machine without such a row; `clean.sh` looks for the
`stopmysql.sh` of a meta node in `instance_binaries` that it has removed with a cluster
manager, and goes on to the data of the running server; the docker
generators of start, stop and clean do not know the hosts of computing nodes;
`clsutermgr` is a name that does not exist. They are part of the models.

`BootstrapOnSource` is only claimed for one data centre. With several, the first
marked node of the configuration may be the master of a secondary one, and
`bootstrap.py` then runs on a replica; no text of the repository says which node
it should be, so this is recorded as a hazard and not as a disagreement.

## Bounds

- `MaxFaults` (2) and `MaxScripts` (4): two faults are the least with which a
  second one falls into the script that repairs the first; four scripts are
  install, a second attempt, and two of the others. `recover` has five scripts:
  install, clean, install, clean, install.
- Machines and instances are constants. Four machines and six instances give
  every combination of own and skipped machine, meta and data shard, primary and
  replica, with one computing node, and a cluster manager on either kind of machine.
  A revival counts as one of the `MaxFaults`. `add` has the second cluster and computing node.
- `FaultyIn` names the scripts whose commands may fail by themselves.
- `MaxNodes` (3): two counters and three instances let one instance run into the
  room of a second while a third one lies between. The port values are chosen
  around the starts of the counters: before, at, and where a counter will pass.
- `docker`, `traditional`: three scripts (install, one other, a third over what it
  left), two faults in docker and one (and a restart) in `traditional`; the groups, modes and directories are chosen so that each
  branch of the generators is taken by some configuration.
- `metadata`: four changes are an install, an addition, and a repetition of each; the
  machines of the second configuration are those that the first set up. One port given by
  a cluster manager (`MaxAllocs`), before, in or after any of them, is what can meet a counter.
- `backup`: three transactions are one in each archive; two new log files, on one server
  or one on each, let a file begin and end between two backups.
- Two nodes per data centre are the least the validation accepts; three data
  centres give each combination of roles.

## Fairness

Safety is checked without fairness. `RecoverSpec`, of `recover`, assumes weak
fairness of `Run` (a script that is being run gets to its next command: it is a
sequential shell script, and a command that hangs is outside the model) and of
`Recover` (the operator goes on until the cluster is installed). No fairness is
assumed of faults, and their number is bounded by `MaxFaults`. Failing commands
are confined to `install.sh` there (interrupts and crashes are not): after a
hidden failure in `clean.sh` a server may be left that no script finds again, and
no number of attempts helps. Nor is an instance revived there while `clean.sh` is
about to remove it, for the same reason. Both are limits of the procedure, not
assumptions that the code justifies.

`Spec` of `DockerScripts` assumes weak fairness of the commands of a script together
with the `Boot` of a server that does not lack its primary (`LacksPrimary`): a script
gets to its next command, and a primary, a single node, a computing node, or a replica
whose primary serves gets ready when it was started. Of a replica whose primary does not
serve, because its `docker run` failed or its host crashed, nothing is assumed: it may
get ready or never. A script that waits has no other step than a `Boot` or the failure of
`docker exec` when the container is not running, so it may wait for such a replica for
ever, and `ScriptsEnd` says that nothing else keeps it. Faults have no fairness and are
bounded.

## Proofs

`ClusterScriptsProofs` proves, for all configurations and any number of scripts
and faults:

- `Typing`: `TypeOK`. It is inductive.
- `InstallIsThorough`: `InstallSkipsNothing`. The property is nearly inductive by
  itself; what it needs is that nothing undoes a done command while `install.sh`
  runs. `Kept` is that fact (the files and rows only grow), `DoneIsKept` carries
  each `Done(c)` over a step, `StepOfInstall` covers the actions of the script,
  `PauseOfInstall` those that leave its counter alone. A failing command ends the
  script because `install` is in `AbortsOnError`: this is where the trap is used.

All else about the scripts rests on the order of their commands, and is proved in three
parts.

- *Lists.* `InstallInOrder`: in `InstallScript` each command comes after all that it
  needs (`NeedsInInstall`: a server after its program, its environment and, for a
  replica, the primaries of its shard; a cluster after its storage and the metadata; the
  managers after everything), and what must not be done twice is there once. The list is put together by concatenation,
  `FlattenSeq` and `Those`, and the proof follows it: `InstallAdds(s, before, after)`
  says that `s`, behind a list of the commands `before`, is in order and adds the set
  `after`; there is a lemma for a single command, for `\o`, and, by `FlattenInduction`,
  for a loop, and then one for each part of the generator. The same for `start.sh`,
  `stop.sh` and `clean.sh` (`StartInOrder` and its neighbours). What `Validated` says, no instance
  twice, is needed for "once".
- *Sets.* From here on a script is the set of commands that it has passed (`Did`), and
  `ScriptSteps` sums up the next-state relation: a step runs the next command
  (`Moves`), passes over it or ends the script (`Skips`, `Ends`), or is none of the
  script (`Rests`). No later proof looks at a list.
- *States.* The inductive invariants relate `Did` to the state of the machines.
  `Discipline` holds in every state, whatever failed: which files are there when others
  are (`FilesInPlace`), that rows stand for what exists (`MetadataKept`), that
  `install.sh` has listed what it installed (`InstallLists`), and that no node manager
  runs that the script in progress has stopped (`StopsManagers`). `Prepares` adds what
  holds as long as nothing failed by itself: an install on clean machines has made just
  what its commands make (`FreshInstall`), start and stop leave an installation complete
  (`Intact`). `UpSoFar`, `DownSoFar` say which processes the passed commands have
  brought up or down, `CleanIntact` and `CleanTracked` what a `clean.sh` in progress has
  left, and what still lets it find the servers that run.

From them:

- `ManagersComeLast` (`ManagersAfterMetadata`), `ManagersGoFirst` (`ManagerDownFirst`),
  both from `Discipline`, `ScriptsDoTheirWork` (`ScriptsComplete`),
  `CommandsFindWhatTheyNeed` (`CommandsCanRun`) and `CleanFindsWhatItNeeds`
  (`CleanCanRun`), without any further hypothesis. The last one is an equivalence: that
  `OutOfReach` commands do not find what they need is the order of the list again, the
  `rm_clustermgr` of the machine being passed before.
- `ServersStopBeforeData` (`DataOutlivesServer`) and `ScriptsKeepPromises`
  (`KeepsPromises`, the refinement of `Lifecycle` with all its steps and its final
  states), if `NoCompSkipped`: no computing node is on a skipped machine. The run
  `clean_added` shows that they do not hold otherwise. The configuration of `full`
  satisfies it.

`PortAllocationProofs` proves for all numbers of machines, nodes and ports:

- `PortTyping`, `NoPortTwice`, `CountersGoOn`, `RegisteredTruly`, from one invariant `Inv`. The
  strengthening is that `claims` and `portmap` agree (`ClaimsRecorded`) and that an
  entry of a machine is not made a second time: then a fresh port is fresh in
  `claims` too, and a counter is never set back. There is a lemma per action.
- `ExportersHaveRoom`: `ExportersFree`, from `RoomInv`: two ports of one counter have
  the room between them that the first one left (`RoomKept`), the ports of an instance
  are on one machine (`OwnNumber`), and an instance has the port that leaves room, or
  is not automatic, or is still under way (`StorageRoom`, `ServerRoom`, `UnderWay`).
  `RoomIsExporters` is the step from there to the property.

`DockerScriptsProofs` proves every safety property of `docker`, for every configuration
and any number of scripts and faults:

- `DockerTyping`: `TypeOK`, inductive (only containers that run serve, only those that
  exist run).

All else follows in the three parts of `ClusterScriptsProofs`:

- *Lists.* `InstallInOrder` and its neighbours: each command comes after those that it
  needs, and the commands of a script are a set (`InstallSet` ...). `RunStorageInOrder` is
  the one that matters: a replica comes after the wait for all primaries, not only for that
  of its own shard. `init` needs the wait for every node, `rm_dirs` the `rm` of its
  container.
- *Sets.* `ScriptSteps`: a step runs the next command (`Runs`), passes over it (`Skips`),
  ends the script, breaks something (`Breaks`: a failure, an interrupt, a crash), begins a
  script, or lets a server get ready (`Rests`). `InstallNeeds` and `CleanNeeds` say in terms
  of `Passed(op)`, the set that the script has passed `op` for, what was there before.
- *States.* `Course` has a position in a script (`InScript`), what can exist (`Within`: only
  what is configured, on machines that are prepared; data without a container lies in
  directories that were given), and what the passed commands have left, as long as nothing
  failed: `InstallSoFar`, `Intact` for start and stop, and `CleanSoFar`. No script has a trap,
  so a command that fails is passed like one that ran; `InstallSoFar` holds because in
  an install that began on clean machines or after an interrupt (`FromStart`) the only
  commands that can fail are those whose work is there already. For `wait` and `init` that
  is the order of the lists again.

From them:

- `InterruptedInstallResumes` (`InstallResumes`): behind the last command everything was
  passed (`AllPassed`), so everything is there.
- `ReplicasJoinLivePrimary` (`JoinsLivePrimary`): a replica that is run, or was, comes after
  the wait for its primary (`ReplicaWaits`), which a valid configuration has in its shard
  (`PrimaryIs`), and what serves goes on serving while nothing crashes.
- `CleanIsThorough` (`CleanSkipsNothing`), from `CleanSoFar`: that a removed container does
  not come back, since no command of `clean.sh` makes one and `Boot` needs one that runs.
- `DockerKeepsPromises` (`KeepsPromises`), without any hypothesis: every step is one of
  `Lifecycle` or none (`StepIsLife`), and a script that went smoothly ends as it promises
  (`EndsWell`).

`TraditionalScriptsProofs`:

- `TraditionalTyping`: `TypeOK`, inductive (what systemd holds active runs).
- `TraditionalInstallIsThorough`: `InstallSkipsNothing`, like `InstallIsThorough`,
  with machines that restart.

The other three properties of the run follow in the three parts of
`ClusterScriptsProofs`, for every configuration and both generators:

- *Lists.* `InstallInOrder`, `StartInOrder`, `StopInOrder`, `CleanInOrder`: each command
  comes after those that it needs (`NeedsInInstall`, `NeedsInUse`), and the commands of
  a script are a set that does not mention lists (`InstallSet`, `CleanSet` ...). Units
  are a case of each: a storage node's unit is made before the node, and taken away
  after it. `Adds` and its lemmas are in `Inductions`, for the proofs about all three
  generators.
- *Sets.* `ScriptSteps` sums up the next-state relation in terms of the set of commands
  passed (`Did`); `Runs(op, x)` is what command `op` on `x` does to it, restarts are a
  step of their own (`Reboots`).
- *States.* `Course`, for every step whatever failed: types, a position in a script that
  has one (`InScript`), nothing exists that is not in the configuration (`Within`), and
  what a `clean.sh` without failures has left so far (`CleanSoFar`). Its point is the
  restart: a process that was stopped and runs again is one that systemd holds active
  (or a haproxy that it started again), storage nodes are gone when their units are
  stopped, and what is disabled stays so. So a node that runs again loses its
  directory all the same, and its unit takes it down. `Smoothly` adds what holds while
  nothing failed and no machine restarted: an install on clean machines has made just
  what its commands make (`FreshInstall`), start and stop leave an installation
  complete (`Intact`).

From them:

- `CleanIsThorough` (`CleanSurvivesReboots`) and `DataStaysWithServers`
  (`DataOutlivesServer`), from `Course`.
- `TraditionalKeepsPromises` (`KeepsPromises`), without any hypothesis: every step,
  failures and restarts included, is one of `Lifecycle` or none (`StepIsLife`), and
  a script that went smoothly ends as it promises (`EndsWell`).
  `InstallCanRun` is the part that says why `install.sh` on clean machines never meets
  a command that cannot run.

`MetadataChangeProofs`:

- `MetadataTyping`: `TypeOK`, with it that nothing is left uncommitted when no change
  runs.
- The order of the statements. The sections of a change are put together with
  `FlattenSeq`; `AddInOrder` says of the statements of an addition what the invariants
  need of their order (`InOrder`: a row is inserted or updated once, between a `start`
  and a `commit` with nothing committed between; `WellMapped`: each pair of a data
  shard comes right after the look-up of its cluster), `RemoveInOrder` and `RemovesAll`
  that every row of the machines that are given up is deleted before the one commit.
  `OrderedNow` is this for the change that runs.
- A lemma for each kind of step (`Kinds`: it keeps the tables, goes back to them, runs a
  statement, breaks off, settles how a configuration stands ...) and each invariant.
- `RowsAreOnce`: `RowsOnce`, from `OnceInv`. That no row is twice in `db` says nothing of
  the rows that are still to come: the machine of each row that the running change has yet
  to insert has none, unless an addition was repeated over its rows (`NotYet`); what it has
  yet to delete or to commit is bounded too (`ToDelete`, `ToCommit`); and a machine that
  has rows is set up by a configuration that is not out, of which there is one (`MayAdd`).
- `PortsAreRecorded`: `PortsRecorded`, from `RecordInv`. What a running addition has done
  is in `draft` (`RunInDraft`), and what it has committed in `db` (`RunInDb`), the rows that
  it inserts included (`Recorded`); the other configurations' ports are in both, since
  statements only add ports and rows go only with the configuration that made them, after
  those that use them. A row that an addition finds of its own, because it is run again,
  has the ports it gives (`OwnPorts`). Where no installed configuration set the machine up
  for a type, there is no row of that type: a row was made by a configuration that is
  not out (`Owned`), and the one that set this machine up is installed.
- `PortsAreGivenOnce`: `PortsGivenOnce`, from `OnceGivenInv`. The ports of each row lie
  below its counter (`Below`) and the ports that the running addition has yet to enter do
  not (`NewPorts`), unless `raced`.
- `ClustersAreKnown`: `NoUnknownCluster`, from `MapInv`: when the next statement is the
  one after a look-up, `found` is its answer or the connection is lost (`Answered`), and
  over a lost connection nothing commits.

`MetaNodesProofs` proves the five properties of `meta` for every number of nodes and data
centres, every order of them and every choice of marks:

- The invariant, `MetaInv`, says what a layout in progress has in terms of the tree that
  comes out of it: `Tree[n]` is the node that `n` replicates from, defined from the
  configuration alone. `LaidOut(metanodes, D, Tree, Near)`: the list has each node of the
  data centres `D` once, from a file that marks its `Tree`, and after the entry of that
  node. `Listed(elements, D, ...)`: the pairs are those of the tree, but for standby data
  centres. Each loop adds one data centre to `D` (`OneMoreDc`, `ChainLaidOut`,
  `OneMoreListed`). It needs that only the masters of `D` are marked (`BuiltDcs`): then
  the file of the next data centre has one mark, and its source is known (`DumpIs`).
- `SourcesComeFirst` (`SourceFirstNear`): `install_with_config` sorts by the marks again.
  The marked entries keep their order (`ThoseInOrder`), and every source is marked
  (`SourceMarked`): this is where the second node of the primary data centre, the source
  of standby masters when there is no secondary data centre, is the exception that
  `nosecondary` shows.
- `NodesAreATree` (`OneTree`): of any replicas, the one first in `metanodes` has its source
  before it (`LeastNumber`), and one node is its own source (`OneRoot`).
- `NodeMapIsTrue` (`NodeMapTrue`), `AcksAreAvailable` (`AcksAvailable`; there are as many
  entries as nodes, `EntriesOf`, and `NearSize` counts the nodes that the primary waits
  for) and `BootstrapRunsOnSource` (`BootstrapOnSource`).

`BackupProofs`:

- `BackupTyping`: `TypeOK`. It needs that log files follow each other (`LogsFollow`),
  so that a copy ends no sooner than it starts.
- `IncrementsConnect`, that is `ArchivesConnect`, for any number of servers,
  transactions, log files and archives. The argument:
  - `check_gtid.py` reads the first interval of each uuid only. With one interval per
    uuid that is enough: a log file starts beyond the gtids of the last archive just when
    its first transaction is not in them (`BeyondIsLater`). The property says
    `OneInterval` for this reason.
  - So the files to copy are those from the one in which the gtids end to the newest
    (`BeginConnects`).
  - While a backup runs, the files still to be copied are an interval, what comes before
    the next of them is covered, and files begun since start after what the last archive
    has (`Running`). Commits, rotations, replicas and failovers keep that
    (`RunningStays`), a copy moves it on by one file (`CopyConnects`), and when no file is
    left the copies reach at least to where the archive before ended (`PackConnects`).

- `MergeIsLossless`: `MergeLosesNothing`. `merge_incr.py` takes the last copy of each
  file; on one server a file only grows, so the last copy has what the others have.
- `RestoreHasNoGap`: `RestoresWithoutGap`. That each archive connects to the one before
  (`IncrementsConnect`) says so of two archives; that nothing is missing anywhere between
  the first and the last is an induction over the chain, made with `LeastNumber`: of the
  transactions that no chosen copy has, the least would lie between two archives that
  connect.

`Inductions` has what these proofs need of induction: that a set of numbers has a least
one (`LeastNumber`, by well-founded induction), and from it that what holds of nothing and
goes on to hold as each sequence is appended holds of their concatenation
(`FlattenInduction`). `PortAllocationProofs` takes the first port of an instance with the
former, `BackupProofs` the first transaction of a uuid, `MetaNodesProofs` the first
replica of a list; `MetadataChangeProofs`,
and the three modules about scripts take the statements of a change and
the commands of a script with the latter. It also has the lemmas about the elements of a list: of a concatenation, of
`Those` (its elements, their order and its length), and how often each is there;
and `Adds(s, before, after, needs, once)`, the order of a list of commands, with the
lemmas that follow a list as it is put together, and commands as pairs of an operation
and what it works on (`C`, `All`).

The assumptions are the ones named in the modules (`ScriptAssumption`,
`PortAssumption`, `MetaAssumption`, `DockerAssumption`, `TraditionalAssumption`, `MetadataAssumption`,
`BackupAssumption`): kinds of the constants, disjoint kinds of instances, and what the
validation of a configuration excludes. TLC evaluates them in every run.

Model-checked only:

- liveness, `RecoversByClean` and `ScriptsEnd`: temporal proofs under fairness and
  ENABLED are beyond the prover.

## What is not modelled

- `--autostart` of `setup_cluster_manager.py`, `--sudo`, `--cloud`, `--defbase` beyond
  its effect: they change how a command is run, not the order. Units are modelled for
  the traditional generator, which has the same.
- haproxy of `setup_cluster_manager.py`, xpanel, elasticsearch, cdc: independent
  services next to the cluster.
- directories and paths of `validate_and_set_config2`: string handling.
- The ports of `validate_and_set_config1` and `validate_and_set_config3`, which repeat
  `validate_and_set_config2`. The rules of the former for shards and modes are in
  `TraditionalScripts`.
- `download_file`: one loop without anybody beside it.
- `restore-mysql.py`, `start_mgr.sh`, `wait_*up.sh`, `backuppostgresql.sh`: one server,
  one command after the other, no state between calls.
- `backup/mysqlbinlogchecker.cc` and `kunlun-pg-regress` are copies of other
  projects; smoke tests and benchmark tools are not part of the program.

## What could follow

1. Units and haproxy of `setup_cluster_manager.py` in `ClusterScripts`.
2. Backups with purged log files, and a restore that applies `Merged` to a server.
