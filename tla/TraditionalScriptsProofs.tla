----------------------- MODULE TraditionalScriptsProofs -----------------------
(***************************************************************************)
(* Theorems about TraditionalScripts, for every configuration: first those *)
(* that do not depend on what commands the scripts are made of, then the   *)
(* order of the commands, what a step does, and what follows from it.      *)
(***************************************************************************)
EXTENDS TraditionalScripts, Inductions

\* The variables hold values of their types in every reachable state.
THEOREM TraditionalTyping == Spec => []TypeOK
<1>1. Init => TypeOK
  <2> SUFFICES ASSUME Init PROVE TypeOK
    OBVIOUS
  <2>1. /\ full \in BOOLEAN /\ intact \in BOOLEAN /\ rebooted \in BOOLEAN
        /\ sysTables \in BOOLEAN /\ made \in BOOLEAN
    BY Zenon DEF Init
  <2> QED
    BY <2>1, TraditionalAssumption DEF Init, TypeOK
<1>2. TypeOK /\ [Next]_vars => TypeOK'
  <2> SUFFICES ASSUME TypeOK, [Next]_vars PROVE TypeOK'
    OBVIOUS
  <2> USE TraditionalAssumption DEF TypeOK
  <2>1. ASSUME NEW m \in Machine, OnMachine(m) PROVE TypeOK'
    <3>1. CASE Unpack(m)
      BY <3>1 DEF Unpack, In, meta, procs
    <3>2. CASE Prepare(m)
      BY <3>2 DEF Prepare, In, meta, procs
    <3>3. CASE EmptyList(m)
      BY <3>3 DEF EmptyList, In, meta, procs
    <3>4. CASE RemoveBase(m)
      BY <3>4 DEF RemoveBase, In, meta, procs
    <3> QED
      BY <2>1, <3>1, <3>2, <3>3, <3>4 DEF OnMachine
  <2>2. ASSUME NEW n \in Proc, OnProc(n) PROVE TypeOK'
    <3>1. CASE InstallNode(n)
      BY <3>1 DEF InstallNode, In, meta
    <3>2. CASE Bootstrap(n)
      BY <3>2 DEF Bootstrap, In, files, procs
    <3>3. CASE CreateCluster(n)
      BY <3>3 DEF CreateCluster, In, files, procs
    <3>4. CASE Configure(n)
      BY <3>4 DEF Configure, In, meta, procs
    <3>5. CASE Enable(n)
      BY <3>5 DEF Enable, In, meta, procs
    <3>6. CASE Start(n)
      BY <3>6 DEF Start, In, files, meta
    <3>7. CASE Stop(n)
      BY <3>7 DEF Stop, In, files, meta, procs
    <3>8. CASE SystemctlStop(n)
      BY <3>8 DEF SystemctlStop, In, files, meta
    <3>9. CASE Disable(n)
      BY <3>9 DEF Disable, In, meta, procs
    <3>10. CASE RemoveData(n)
      <4>1. sysTables' \in BOOLEAN /\ made' \in BOOLEAN
        BY <3>10, Zenon DEF RemoveData, LoseMeta
      <4> QED
        BY <3>10, <4>1 DEF RemoveData, In, procs
    <3> QED
      BY <2>2, <3>1, <3>2, <3>3, <3>4, <3>5, <3>6, <3>7, <3>8, <3>9, <3>10 DEF OnProc
  <2>3. CASE CommandFails
    BY <2>3 DEF CommandFails, AfterError, files, meta, procs
  <2>4. CASE Finish
    BY <2>4 DEF Finish, files, meta, procs
  <2>5. CASE CommandFaults
    <3>1. pc' \in Nat \ {0} /\ faults' \in 0..MaxFaults
      BY <2>5 DEF CommandFaults, AfterError
    <3>2. intact' \in BOOLEAN /\ sysTables' \in BOOLEAN /\ made' \in BOOLEAN
      BY <2>5, Zenon DEF CommandFaults, meta
    <3>3. action' \in Scripts \cup {"none"} /\ outcome' \in Scripts \cup {"none", "failed", "refused"}
      BY <2>5 DEF CommandFaults, AfterError
    <3>4. data' \subseteq Proc
      BY <2>5 DEF CommandFaults, Proc
    <3> QED
      BY <2>5, <3>1, <3>2, <3>3, <3>4 DEF CommandFaults, procs
  <2>6. CASE Interrupt
    <3>1. faults' \in 0..MaxFaults
      BY <2>6 DEF Interrupt
    <3>2. intact' \in BOOLEAN /\ sysTables' \in BOOLEAN /\ made' \in BOOLEAN
      BY <2>6, Zenon DEF Interrupt, meta
    <3> QED
      BY <2>6, <3>1, <3>2 DEF Interrupt, files, procs
  <2>7. CASE Refuse
    BY <2>7 DEF Refuse, files, meta, procs
  <2>8. ASSUME NEW a \in Scripts, Issue(a) PROVE TypeOK'
    <3>1. runs' \in 0..MaxScripts
      BY <2>8 DEF Issue
    <3>2. full' \in BOOLEAN /\ intact' \in BOOLEAN /\ rebooted' \in BOOLEAN
      BY <2>8, Zenon DEF Issue, Types
    <3>3. base' \in {"pristine", "installed", "watched", "tracked", "other"}
      BY <2>8, Zenon DEF Issue, BaseFor
    <3> QED
      BY <2>8, <3>1, <3>2, <3>3 DEF Issue, files, meta, procs
  <2>9. ASSUME NEW m \in Machine, Reboot(m) PROVE TypeOK'
    <3>1. reboots' \in 0..MaxReboots
      BY <2>9 DEF Reboot
    <3>2. rebooted' \in BOOLEAN /\ sysTables' \in BOOLEAN /\ made' \in BOOLEAN
      BY <2>9, Zenon DEF Reboot, meta
    <3> QED
      BY <2>9, <3>1, <3>2 DEF Reboot, files
  <2>10. CASE UNCHANGED vars
    BY <2>10 DEF vars, script, files, meta, procs
  <2> QED
    BY <2>1, <2>2, <2>3, <2>4, <2>5, <2>6, <2>7, <2>8, <2>9, <2>10 DEF Next, Run
<1> QED
  BY <1>1, <1>2, PTL DEF Spec

\* What is done and undone as the script goes.
Kept ==
    /\ packages \subseteq packages' /\ prepared \subseteq prepared'
    /\ configured \subseteq configured' /\ data \subseteq data' /\ enabled \subseteq enabled'
    /\ sysTables => sysTables'
    /\ made => made'

\* The step does the work of the current command of install.sh.
NextIsDone == \A cmd : cmd = InstallScript[pc] => Done(cmd)'

\* The script is that of the configuration and of its --installtype.
LEMMA InstallIsFixed == UNCHANGED <<layout, full>> => InstallScript' = InstallScript
<1> SUFFICES ASSUME UNCHANGED <<layout, full>> PROVE InstallScript' = InstallScript
  OBVIOUS
<1>1. UNCHANGED <<Groups, StorageNodes, Proxy, Nodes>>
  BY DEF Groups, StorageNodes, Proxy, Nodes
<1>2. UNCHANGED <<KnownHosts, Machines>>
  BY <1>1 DEF KnownHosts, Machines
<1>3. UNCHANGED InstallStorage
  BY <1>1 DEF InstallStorage, Primaries, Cmds
<1>4. ASSUME NEW m PROVE SetupMachine(m)' = SetupMachine(m)
  BY DEF SetupMachine, Cmd
<1>5. ASSUME NEW n PROVE InstallMgr(n)' = InstallMgr(n)
  BY DEF InstallMgr, Units, Cmds, Cmd
<1>6. UNCHANGED <<Units(StorageNodes), Units(Proxy)>>
  BY <1>1 DEF Units, Cmds
<1> QED
  BY <1>1, <1>2, <1>3, <1>4, <1>5, <1>6 DEF InstallScript, Cmds, Cmd

\* What has been done stays done while everything is kept.
LEMMA DoneIsKept == ASSUME NEW cmd, Done(cmd), Kept PROVE Done(cmd)'
  BY DEF Done, Kept

\* A step that runs the current command of install.sh, keeps what there was
\* and does what the command is for, leaves nothing undone.
LEMMA StepOfInstall ==
    ASSUME TypeOK, InstallSkipsNothing, action = "install", ~layout.groups,
           pc' = pc + 1, UNCHANGED <<layout, full>>, Kept, NextIsDone
    PROVE  InstallSkipsNothing'
<1> SUFFICES ASSUME NEW i \in 1..pc PROVE Done(InstallScript[i])'
  BY DEF InstallSkipsNothing, TypeOK
<1>0. InstallScript'[i] = InstallScript[i]
  BY InstallIsFixed
<1>1. CASE i = pc
  BY <1>0, <1>1 DEF NextIsDone, Done
<1>2. CASE i \in 1..(pc - 1)
  <2>1. Done(InstallScript[i])
    BY <1>2 DEF InstallSkipsNothing
  <2> QED
    BY <1>0, <2>1, DoneIsKept DEF Done
<1> QED
  BY <1>1, <1>2 DEF TypeOK

\* A step that leaves the script where it is undoes nothing either.
LEMMA PauseOfInstall ==
    ASSUME InstallSkipsNothing, UNCHANGED <<layout, action, full, pc>>, Kept
    PROVE  InstallSkipsNothing'
<1> SUFFICES ASSUME action = "install", ~layout.groups, NEW i \in 1..(pc - 1)
             PROVE  Done(InstallScript[i])'
  BY DEF InstallSkipsNothing
<1>1. Done(InstallScript[i])
  BY DEF InstallSkipsNothing
<1>2. InstallScript'[i] = InstallScript[i]
  BY InstallIsFixed
<1> QED
  BY <1>1, <1>2, DoneIsKept DEF Done

\* install.sh never passes a command that has not done its work, whatever
\* machines restart meanwhile.
THEOREM TraditionalInstallIsThorough == Spec => []InstallSkipsNothing
<1>1. Init => InstallSkipsNothing
  BY DEF Init, InstallSkipsNothing
<1>2. TypeOK /\ InstallSkipsNothing /\ [Next]_vars => InstallSkipsNothing'
  <2> SUFFICES ASSUME TypeOK, InstallSkipsNothing, [Next]_vars
               PROVE  InstallSkipsNothing'
    OBVIOUS
  <2>1. ASSUME ~(action' = "install" /\ ~layout'.groups) PROVE InstallSkipsNothing'
    BY <2>1 DEF InstallSkipsNothing
  <2>2. ASSUME NEW a \in SUBSET Scripts, NEW op, NEW x, In(a, op, x),
               action = "install" => Kept /\ NextIsDone
        PROVE  InstallSkipsNothing'
    <3>1. UNCHANGED <<layout, action, full>> /\ pc' = pc + 1
      BY <2>2 DEF In
    <3> QED
      BY <2>2, <3>1, <2>1, StepOfInstall
  <2>3. ASSUME NEW m \in Machine, OnMachine(m) PROVE InstallSkipsNothing'
    <3>1. CASE Unpack(m)
      <4>1. In({"install"}, "unpack", m)
        BY <3>1 DEF Unpack
      <4>2. action = "install" => Kept /\ NextIsDone
        BY <3>1 DEF Unpack, Kept, NextIsDone, Done, NodeInstalls, In, Upcoming, Commands, meta
      <4> QED
        BY <4>1, <4>2, <2>2 DEF Scripts
    <3>2. CASE Prepare(m)
      <4>1. In({"install"}, "prepare", m)
        BY <3>2 DEF Prepare
      <4>2. action = "install" => Kept /\ NextIsDone
        BY <3>2 DEF Prepare, Kept, NextIsDone, Done, NodeInstalls, In, Upcoming, Commands, meta
      <4> QED
        BY <4>1, <4>2, <2>2 DEF Scripts
    <3>3. CASE EmptyList(m)
      <4>1. In({"install"}, "empty_list", m)
        BY <3>3 DEF EmptyList
      <4>2. action = "install" => Kept /\ NextIsDone
        BY <3>3 DEF EmptyList, Kept, NextIsDone, Done, NodeInstalls, In, Upcoming, Commands, meta
      <4> QED
        BY <4>1, <4>2, <2>2 DEF Scripts
    <3>4. CASE RemoveBase(m)
      BY <3>4, <2>1 DEF RemoveBase, In
    <3> QED
      BY <2>3, <3>1, <3>2, <3>3, <3>4 DEF OnMachine
  <2>4. ASSUME NEW n \in Proc, OnProc(n) PROVE InstallSkipsNothing'
    <3>1. CASE InstallNode(n)
      <4>1. action = "install" => Kept /\ NextIsDone
        BY <3>1 DEF InstallNode, Kept, NextIsDone, Done, NodeInstalls, In, Upcoming, Commands, meta
      <4> QED
        BY <3>1, <4>1, <2>2 DEF InstallNode, Scripts
    <3>2. CASE Bootstrap(n)
      <4>1. In({"install"}, "bootstrap", n)
        BY <3>2 DEF Bootstrap
      <4>2. action = "install" => Kept /\ NextIsDone
        BY <3>2 DEF Bootstrap, Kept, NextIsDone, Done, NodeInstalls, In, Upcoming, Commands, files
      <4> QED
        BY <4>1, <4>2, <2>2 DEF Scripts
    <3>3. CASE CreateCluster(n)
      <4>1. In({"install"}, "create_cluster", n)
        BY <3>3 DEF CreateCluster
      <4>2. action = "install" => Kept /\ NextIsDone
        BY <3>3 DEF CreateCluster, Kept, NextIsDone, Done, NodeInstalls, In, Upcoming, Commands, files
      <4> QED
        BY <4>1, <4>2, <2>2 DEF Scripts
    <3>4. CASE Configure(n)
      <4>1. In({"install"}, "configure", n)
        BY <3>4 DEF Configure
      <4>2. action = "install" => Kept /\ NextIsDone
        BY <3>4 DEF Configure, Kept, NextIsDone, Done, NodeInstalls, In, Upcoming, Commands, meta
      <4> QED
        BY <4>1, <4>2, <2>2 DEF Scripts
    <3>5. CASE Enable(n)
      <4>1. In({"install"}, "enable", n)
        BY <3>5 DEF Enable
      <4>2. action = "install" => Kept /\ NextIsDone
        BY <3>5 DEF Enable, Kept, NextIsDone, Done, NodeInstalls, In, Upcoming, Commands, meta
      <4> QED
        BY <4>1, <4>2, <2>2 DEF Scripts
    <3>6. CASE Start(n)
      <4>1. In({"install", "start"}, "start", n)
        BY <3>6 DEF Start
      <4>2. action = "install" => Kept /\ NextIsDone
        BY <3>6 DEF Start, Kept, NextIsDone, Done, NodeInstalls, In, Upcoming, Commands, files, meta
      <4> QED
        BY <4>1, <4>2, <2>2 DEF Scripts
    <3>7. CASE Stop(n) \/ SystemctlStop(n) \/ Disable(n) \/ RemoveData(n)
      BY <3>7, <2>1 DEF Stop, SystemctlStop, Disable, RemoveData, In
    <3> QED
      BY <2>4, <3>1, <3>2, <3>3, <3>4, <3>5, <3>6, <3>7 DEF OnProc
  <2>5. CASE CommandFails
    BY <2>5, <2>1 DEF CommandFails, AfterError, AbortsOnError
  <2>6. CASE Finish
    BY <2>6, <2>1 DEF Finish
  <2>7. CASE CommandFaults
    BY <2>7, <2>1 DEF CommandFaults, AfterError, AbortsOnError
  <2>8. CASE Interrupt
    BY <2>8, <2>1 DEF Interrupt
  <2>9. CASE Refuse
    BY <2>9, <2>1 DEF Refuse
  <2>10. ASSUME NEW a \in Scripts, Issue(a) PROVE InstallSkipsNothing'
    BY <2>10 DEF Issue, InstallSkipsNothing
  <2>11. ASSUME NEW m \in Machine, Reboot(m) PROVE InstallSkipsNothing'
    <3>1. UNCHANGED <<layout, action, full, pc>> /\ Kept
      BY <2>11 DEF Reboot, Kept, files, meta
    <3> QED
      BY <3>1, PauseOfInstall
  <2>12. CASE UNCHANGED vars
    <3>1. UNCHANGED <<layout, action, full, pc>> /\ Kept
      BY <2>12 DEF vars, script, Kept, files, meta
    <3> QED
      BY <3>1, PauseOfInstall
  <2> QED
    BY <2>3, <2>4, <2>5, <2>6, <2>7, <2>8, <2>9, <2>10, <2>11, <2>12 DEF Next, Run
<1> QED
  BY <1>1, <1>2, TraditionalTyping, PTL DEF Spec

-----------------------------------------------------------------------------
(* The commands of the scripts. *)

\* What commands are run on: machines, processes, and the first computing node, be
\* there one or not.
Thing == Machine \cup Proc \cup {l.comps[1] : l \in Layouts}
Op == {"unpack", "prepare", "empty_list", "enable", "install_storage", "install_comp", "bootstrap",
       "create_cluster", "configure", "start", "stop", "rm", "systemctl_stop", "disable", "rm_base"}
Command == [op : Op, on : Thing]

\* Commands are equal only when both their parts are.
LEMMA CommandIs ==
    /\ \A op, x : C(op, x).op = op /\ C(op, x).on = x
    /\ \A op, x, o, y : C(op, x) = C(o, y) <=> op = o /\ x = y
    /\ \A op, x, o, S : C(op, x) \in All(o, S) <=> op = o /\ x \in S
    /\ \A op \in Op, x \in Thing : C(op, x) \in Command
    /\ \A c \in Command : c = C(c.op, c.on) /\ c.op \in Op /\ c.on \in Thing
    /\ \A op, x : Cmd(op, x) = <<C(op, x)>>
    /\ \A op \in Op : \A S : S \subseteq Thing => All(op, S) \subseteq Command
<1>1. \A op \in Op, x \in Thing : C(op, x) \in Command
  BY DEF C, Command
<1>2. \A c \in Command : c = C(c.op, c.on) /\ c.op \in Op /\ c.on \in Thing
  BY DEF C, Command
<1>3. \A op, x : Cmd(op, x) = <<C(op, x)>>
  BY DEF Cmd, C
<1>4. \A op \in Op : \A S : S \subseteq Thing => All(op, S) \subseteq Command
  BY <1>1 DEF All
<1> QED
  BY <1>1, <1>2, <1>3, <1>4, CommandParts

\* The same command for each of a list.
LEMMA AddsCmds ==
    ASSUME NEW D, NEW N, NEW O, NEW op, NEW S, NEW s \in Seq(S),
           \A x \in ToSet(s) : C(op, x) \in DOMAIN N /\ InPlace(C(op, x), D, N, O),
           IsInjective(s) \/ \A x \in ToSet(s) : C(op, x) \notin O
    PROVE  Adds(Cmds(op, s), D, All(op, ToSet(s)), N, O)
<1>1. Cmds(op, s) = [i \in DOMAIN s |-> C(op, s[i])]
  BY DEF Cmds, C
<1> QED
  BY <1>1, AddsSame

-----------------------------------------------------------------------------
(* The configuration. *)

Daemons == ToSet(layout.mgrs) \cup ToSet(Proxy)
\* What has a unit when it is installed.
Watches == layout.autostart /\ ~layout.groups
Watched == IF Watches THEN ToSet(StorageNodes) \cup Daemons ELSE {}

LEMMA FieldsAre ==
    ASSUME TypeOK
    PROVE  /\ layout.meta \in Seq(Storage) /\ layout.shards \in Seq(Seq(Storage))
           /\ layout.comps \in Seq(Comp) /\ layout.mgrs \in Seq(ClusterMgr)
           /\ layout.groups \in BOOLEAN /\ layout.autostart \in BOOLEAN
           /\ layout.haproxy \in BOOLEAN /\ layout.comps[1] \in Thing
<1>1. layout \in LayoutType /\ layout \in Layouts
  BY TraditionalAssumption DEF TypeOK
<1> QED
  BY <1>1 DEF LayoutType, Thing

\* The lists of the configuration.
LEMMA ListsAre ==
    ASSUME TypeOK
    PROVE  /\ Groups \in Seq(Seq(Storage)) /\ DataNodes \in Seq(Storage)
           /\ StorageNodes \in Seq(Storage) /\ Nodes \in Seq(Node) /\ Proxy \in Seq({Haproxy})
           /\ ToSet(StorageNodes) = UNION {ToSet(s) : s \in ToSet(Groups)}
           /\ ToSet(StorageNodes) = ToSet(DataNodes) \cup (IF layout.groups THEN {} ELSE ToSet(layout.meta))
           /\ ToSet(Nodes) = ToSet(StorageNodes) \cup ToSet(layout.comps)
           /\ Used = ToSet(Nodes) \cup Daemons
           /\ ToSet(StorageNodes \o layout.mgrs \o Proxy) = ToSet(StorageNodes) \cup Daemons
           /\ IsFiniteSet(Used)
<1>1. \A ss \in Seq(Seq(Storage)) :
         /\ FlattenSeq(ss) \in Seq(Storage)
         /\ ToSet(FlattenSeq(ss)) = UNION {ToSet(s) : s \in ToSet(ss)}
  <2> SUFFICES ASSUME NEW ss \in Seq(Seq(Storage))
               PROVE  /\ FlattenSeq(ss) \in Seq(Storage)
                      /\ ToSet(FlattenSeq(ss)) = UNION {ToSet(s) : s \in ToSet(ss)}
    OBVIOUS
  <2>1. /\ Len(ss) \in Nat /\ DOMAIN ss = 1..Len(ss) /\ (Len(ss) = 0 => ss = <<>>)
        /\ \A i \in 1..Len(ss) : ss[i] \in Seq(Storage)
    OBVIOUS
  <2>2. /\ FlattenSeq(ss) \in Seq(Storage)
        /\ ToSet(FlattenSeq(ss)) = UNION {ToSet(ss[i]) : i \in 1..Len(ss)}
    BY <2>1, ElementsOfFlat
  <2>3. UNION {ToSet(ss[i]) : i \in 1..Len(ss)} = UNION {ToSet(s) : s \in ToSet(ss)}
    <3>1. ToSet(ss) = {ss[i] : i \in 1..Len(ss)}
      BY <2>1 DEF ToSet
    <3> QED
      BY <3>1
  <2> QED
    BY <2>2, <2>3
<1>2. \A S : \A a, b \in Seq(S) : a \o b \in Seq(S) /\ ToSet(a \o b) = ToSet(a) \cup ToSet(b)
  BY ElementsOfConcat
<1>3. \A S, T : S \subseteq T => Seq(S) \subseteq Seq(T)
  OBVIOUS
<1>4. \A x : <<x>> \in Seq({x}) /\ ToSet(<<x>>) = {x}
  <2> SUFFICES ASSUME NEW x PROVE <<x>> \in Seq({x}) /\ ToSet(<<x>>) = {x}
    OBVIOUS
  <2>1. <<x>> \in Seq({x}) /\ DOMAIN <<x>> = {1} /\ <<x>>[1] = x
    OBVIOUS
  <2> QED
    BY <2>1 DEF ToSet
<1>5. \A S : <<>> \in Seq(S) /\ ToSet(<<>>) = {}
  BY DEF ToSet
<1>6. DataNodes \in Seq(Storage) /\ ToSet(DataNodes) = UNION {ToSet(s) : s \in ToSet(layout.shards)}
  BY <1>1, FieldsAre DEF DataNodes
<1> DEFINE Meta == IF layout.groups THEN <<>> ELSE <<layout.meta>>
<1>7. /\ Meta \in Seq(Seq(Storage))
      /\ ToSet(Meta) = IF layout.groups THEN {} ELSE {layout.meta}
  <2>1. <<layout.meta>> \in Seq(Seq(Storage))
    BY FieldsAre
  <2> QED
    BY <2>1, <1>4, <1>5
<1>8. /\ Groups \in Seq(Seq(Storage))
      /\ ToSet(Groups) = ToSet(layout.shards) \cup (IF layout.groups THEN {} ELSE {layout.meta})
  <2>1. Groups = Meta \o layout.shards
    BY DEF Groups
  <2> HIDE DEF Meta
  <2> QED
    BY <2>1, <1>2, <1>7, FieldsAre
<1>9. StorageNodes \in Seq(Storage) /\ ToSet(StorageNodes) = UNION {ToSet(s) : s \in ToSet(Groups)}
  BY <1>1, <1>8 DEF StorageNodes
<1>10. ToSet(StorageNodes) = ToSet(DataNodes) \cup (IF layout.groups THEN {} ELSE ToSet(layout.meta))
  BY <1>6, <1>8, <1>9
<1>11. Nodes \in Seq(Node) /\ ToSet(Nodes) = ToSet(StorageNodes) \cup ToSet(layout.comps)
  <2>1. Storage \subseteq Node /\ Comp \subseteq Node
    BY DEF Node
  <2>2. StorageNodes \in Seq(Node) /\ layout.comps \in Seq(Node)
    BY <2>1, <1>3, <1>9, FieldsAre
  <2> QED
    BY <2>2, <1>2 DEF Nodes
<1>12. Proxy \in Seq({Haproxy})
  BY <1>4, <1>5 DEF Proxy
<1>13. Node \subseteq Proc /\ Storage \subseteq Proc /\ ClusterMgr \subseteq Proc /\ {Haproxy} \subseteq Proc
  BY DEF Proc, Node
<1>14. /\ Nodes \in Seq(Proc) /\ StorageNodes \in Seq(Proc)
       /\ layout.mgrs \in Seq(Proc) /\ Proxy \in Seq(Proc)
  BY <1>3, <1>9, <1>11, <1>12, <1>13, FieldsAre
<1>15. \A a \in Seq(Proc) :
          /\ (a \o layout.mgrs) \o Proxy \in Seq(Proc)
          /\ ToSet((a \o layout.mgrs) \o Proxy) = ToSet(a) \cup Daemons
  <2> SUFFICES ASSUME NEW a \in Seq(Proc)
               PROVE  /\ (a \o layout.mgrs) \o Proxy \in Seq(Proc)
                      /\ ToSet((a \o layout.mgrs) \o Proxy) = ToSet(a) \cup Daemons
    OBVIOUS
  <2>1. a \o layout.mgrs \in Seq(Proc) /\ ToSet(a \o layout.mgrs) = ToSet(a) \cup ToSet(layout.mgrs)
    BY <1>2, <1>14
  <2>2. /\ (a \o layout.mgrs) \o Proxy \in Seq(Proc)
        /\ ToSet((a \o layout.mgrs) \o Proxy) = ToSet(a \o layout.mgrs) \cup ToSet(Proxy)
    <3> DEFINE b == a \o layout.mgrs
    <3>1. b \in Seq(Proc)
      BY <2>1
    <3> HIDE DEF b
    <3>2. b \o Proxy \in Seq(Proc) /\ ToSet(b \o Proxy) = ToSet(b) \cup ToSet(Proxy)
      BY <1>2, <1>14, <3>1
    <3> QED
      BY <3>2 DEF b
  <2> QED
    BY <2>1, <2>2 DEF Daemons
<1>16. Used = ToSet(Nodes) \cup Daemons /\ Nodes \o layout.mgrs \o Proxy \in Seq(Proc)
  BY <1>14, <1>15 DEF Used
<1>17. ToSet(StorageNodes \o layout.mgrs \o Proxy) = ToSet(StorageNodes) \cup Daemons
  BY <1>14, <1>15
<1>18. IsFiniteSet(Used)
  <2> DEFINE s == Nodes \o layout.mgrs \o Proxy
             f == [i \in 1..Len(s) |-> s[i]]
  <2>1. s \in Seq(Proc)
    BY <1>16
  <2> HIDE DEF s
  <2>2. Len(s) \in Nat /\ ToSet(s) = {f[i] : i \in 1..Len(s)}
    BY <2>1 DEF ToSet
  <2>3. IsFiniteSet(1..Len(s))
    BY <2>2, FS_Interval
  <2>4. f \in Surjection(1..Len(s), ToSet(s))
    BY <2>2 DEF Surjection
  <2>5. IsFiniteSet(ToSet(s))
    BY <2>3, <2>4, FS_Surjection
  <2> QED
    BY <2>5 DEF s, Used
<1> QED
  BY <1>6, <1>8, <1>9, <1>10, <1>11, <1>12, <1>16, <1>17, <1>18

\* What the configuration says of nodes, processes and their machines.
LEMMA Configured ==
    ASSUME TypeOK
    PROVE  /\ ToSet(StorageNodes) \subseteq Storage /\ ToSet(layout.comps) \subseteq Comp
           /\ ToSet(layout.mgrs) \subseteq ClusterMgr /\ ToSet(Proxy) \subseteq {Haproxy}
           /\ ToSet(Nodes) \subseteq Node /\ Daemons \cap Node = {} /\ ToSet(Nodes) \subseteq Used
           /\ Used \subseteq Proc /\ Watched \subseteq Used /\ Daemons \subseteq Used
           /\ ToSet(Nodes) = Used \cap Node
           /\ KnownHosts \subseteq Machine /\ \A n \in Used : Host[n] \in KnownHosts
           /\ Machines \in Seq(Machine) /\ ToSet(Machines) = KnownHosts /\ IsInjective(Machines)
           /\ Used \subseteq Thing /\ KnownHosts \subseteq Thing
<1>1. \A S : \A s \in Seq(S) : ToSet(s) \subseteq S
  BY DEF ToSet
<1>2. /\ ToSet(StorageNodes) \subseteq Storage /\ ToSet(layout.comps) \subseteq Comp
      /\ ToSet(layout.mgrs) \subseteq ClusterMgr /\ ToSet(Proxy) \subseteq {Haproxy}
      /\ ToSet(Nodes) \subseteq Node
  BY <1>1, FieldsAre, ListsAre
<1>3. Used = ToSet(Nodes) \cup Daemons /\ ToSet(Nodes) = ToSet(StorageNodes) \cup ToSet(layout.comps)
  BY ListsAre
<1>4. Daemons \subseteq ClusterMgr \cup {Haproxy}
  BY <1>2 DEF Daemons
<1>5. Daemons \cap Node = {} /\ Used \subseteq Proc /\ Watched \subseteq Used /\ ToSet(Nodes) = Used \cap Node
  BY <1>2, <1>3, <1>4, TraditionalAssumption DEF Proc, Watched
<1>6. KnownHosts = {Host[n] : n \in Used}
  BY DEF KnownHosts, Used
<1>7. KnownHosts \subseteq Machine
  BY <1>5, <1>6, TraditionalAssumption
<1>8. IsFiniteSet(KnownHosts)
  <2> DEFINE f == [n \in Used |-> Host[n]]
  <2>1. f \in Surjection(Used, KnownHosts)
    BY <1>6 DEF Surjection
  <2> QED
    BY <2>1, ListsAre, FS_Surjection
<1>9. Machines \in Seq(KnownHosts) /\ ToSet(Machines) = KnownHosts /\ IsInjective(Machines)
  BY <1>8, ListOfSet DEF Machines
<1>10. Machines \in Seq(Machine)
  <2>1. \A S, T : S \subseteq T => Seq(S) \subseteq Seq(T)
    OBVIOUS
  <2> QED
    BY <2>1, <1>7, <1>9
<1>11. Used \subseteq Thing /\ KnownHosts \subseteq Thing
  BY <1>5, <1>7 DEF Thing
<1>12. \A n \in Used : Host[n] \in KnownHosts
  BY <1>6
<1> QED
  BY <1>2, <1>3, <1>5, <1>7, <1>9, <1>10, <1>11, <1>12

\* A valid configuration has every node once, and a primary in each shard.
LEMMA ConfigIsValid ==
    ASSUME TypeOK, ValidConfig
    PROVE  /\ IsInjective(StorageNodes) /\ IsInjective(layout.comps) /\ IsInjective(Proxy)
           /\ \A n \in ToSet(StorageNodes) \ Primaries : PrimaryOf(n) \in ToSet(StorageNodes) \cap Primaries
<1>1. IsInjective(Nodes) /\ Nodes = StorageNodes \o layout.comps
  BY DEF ValidConfig, Nodes
<1>2. StorageNodes \in Seq(Storage) /\ layout.comps \in Seq(Comp) /\ Groups \in Seq(Seq(Storage))
  BY ListsAre, FieldsAre
<1>3. IsInjective(StorageNodes) /\ IsInjective(layout.comps)
  <2> DEFINE a == StorageNodes
             b == layout.comps
             c == a \o b
             l == Len(a)
  <2>1. /\ l \in Nat /\ Len(b) \in Nat /\ DOMAIN c = 1..(l + Len(b))
        /\ DOMAIN a = 1..l /\ DOMAIN b = 1..Len(b)
        /\ \A i \in 1..l : c[i] = a[i]
        /\ \A j \in 1..Len(b) : c[l + j] = b[j]
    BY <1>2
  <2>2. \A i, j \in 1..(l + Len(b)) : c[i] = c[j] => i = j
    BY <1>1, <2>1 DEF IsInjective
  <2> HIDE DEF a, b, c, l
  <2>3. \A i, j \in 1..l : a[i] = a[j] => i = j
    BY <2>1, <2>2
  <2>4. \A i, j \in 1..Len(b) : b[i] = b[j] => i = j
    <3> SUFFICES ASSUME NEW i \in 1..Len(b), NEW j \in 1..Len(b), b[i] = b[j] PROVE i = j
      OBVIOUS
    <3>1. l + i \in 1..(l + Len(b)) /\ l + j \in 1..(l + Len(b)) /\ c[l + i] = c[l + j]
      BY <2>1
    <3>2. l + i = l + j
      BY <2>2, <3>1
    <3> QED
      BY <2>1, <3>2
  <2> QED
    BY <2>1, <2>3, <2>4 DEF IsInjective, a, b
<1>4. IsInjective(Proxy)
  <2>1. Proxy = <<Haproxy>> \/ Proxy = <<>>
    BY DEF Proxy
  <2>2. \A x : DOMAIN <<x>> = {1}
    OBVIOUS
  <2> QED
    BY <2>1, <2>2 DEF IsInjective
<1>5. ASSUME NEW s \in ToSet(Groups) PROVE \E mode : ValidShard(s, mode)
  <2>1. \A x : <<x>> \in Seq({x}) /\ ToSet(<<x>>) = {x}
    <3>1. \A x : <<x>> \in Seq({x}) /\ DOMAIN <<x>> = {1} /\ <<x>>[1] = x
      OBVIOUS
    <3> QED
      BY <3>1 DEF ToSet
  <2>2. <<>> \in Seq(Seq(Storage)) /\ <<layout.meta>> \in Seq(Seq(Storage)) /\ layout.shards \in Seq(Seq(Storage))
    BY FieldsAre
  <2>3. s \in ToSet(layout.shards) \/ (~layout.groups /\ s = layout.meta)
    <3>1. CASE layout.groups
      <4>1. Groups = <<>> \o layout.shards
        BY <3>1 DEF Groups
      <4>2. ToSet(<<>> \o layout.shards) = ToSet(<<>>) \cup ToSet(layout.shards)
        BY <2>2, ElementsOfConcat
      <4>3. ToSet(<<>>) = {}
        BY DEF ToSet
      <4> QED
        BY <4>1, <4>2, <4>3
    <3>2. CASE ~layout.groups
      <4>1. Groups = <<layout.meta>> \o layout.shards
        BY <3>2 DEF Groups
      <4>2. ToSet(<<layout.meta>> \o layout.shards) = ToSet(<<layout.meta>>) \cup ToSet(layout.shards)
        BY <2>2, ElementsOfConcat
      <4> QED
        BY <4>1, <4>2, <2>1, <3>2
    <3> QED
      BY <3>1, <3>2
  <2>4. CASE s \in ToSet(layout.shards)
    BY <2>4 DEF ValidConfig, ToSet
  <2>5. CASE ~layout.groups /\ s = layout.meta
    BY <2>5 DEF ValidConfig
  <2> QED
    BY <2>3, <2>4, <2>5
<1>6. ASSUME NEW s \in ToSet(Groups) PROVE ToSet(s) \cap Primaries # {} /\ ToSet(s) \subseteq ToSet(StorageNodes)
  <2>1. s \in Seq(Storage) /\ Len(s) \in Nat /\ DOMAIN s = 1..Len(s)
    BY <1>2 DEF ToSet
  <2>2. s # <<>> /\ (Len(s) > 1 => ToSet(s) \cap layout.primary # {})
    BY <1>5 DEF ValidShard
  <2>3. (IF Len(s) = 1 THEN ToSet(s) ELSE ToSet(s) \cap layout.primary) \subseteq Primaries
    BY DEF Primaries
  <2>4. Len(s) = 1 => s[1] \in ToSet(s)
    BY <2>1 DEF ToSet
  <2>5. Len(s) = 1 \/ Len(s) > 1
    BY <2>1, <2>2
  <2>6. ToSet(s) \subseteq ToSet(StorageNodes)
    BY ListsAre
  <2> QED
    BY <2>2, <2>3, <2>4, <2>5, <2>6
<1>7. ASSUME NEW n \in ToSet(StorageNodes) PROVE PrimaryOf(n) \in ToSet(StorageNodes) \cap Primaries
  <2>1. \E s \in ToSet(Groups) : n \in ToSet(s)
    BY ListsAre
  <2>2. ShardOf(n) \in ToSet(Groups)
    BY <2>1 DEF ShardOf
  <2>3. \E p \in ToSet(ShardOf(n)) : IsPrimary(p)
    BY <2>2, <1>6 DEF IsPrimary
  <2>4. PrimaryOf(n) \in ToSet(ShardOf(n)) /\ IsPrimary(PrimaryOf(n))
    BY <2>3 DEF PrimaryOf
  <2> QED
    BY <2>2, <2>4, <1>6 DEF IsPrimary
<1> QED
  BY <1>3, <1>4, <1>7

-----------------------------------------------------------------------------
(* start.sh, stop.sh and clean.sh: each command after those it needs. *)

NeedsInUse(op, x) ==
    CASE op \in {"rm", "rm_base"} -> All("stop", Used)
      [] op = "systemctl_stop"    -> All("stop", {x}) \cup All("rm", {x} \cap Node)
      [] OTHER                    -> {}
UseNeeds == [c \in Command |-> NeedsInUse(c.op, c.on)]
UseAdds(s, D, E) == Adds(s, D, E, UseNeeds, {})

LEMMA UseNeedsAre ==
    /\ DOMAIN UseNeeds = Command
    /\ \A op \in Op, x \in Thing : C(op, x) \in Command /\ UseNeeds[C(op, x)] = NeedsInUse(op, x)
  BY CommandIs DEF UseNeeds

LEMMA UseAddsBoth ==
    ASSUME NEW D, NEW E, NEW F, NEW a, NEW b, UseAdds(a, D, E), UseAdds(b, D \cup E, F)
    PROVE  UseAdds(a \o b, D, E \cup F)
  BY AddsBoth DEF UseAdds

LEMMA UseAddsCmds ==
    ASSUME NEW D, NEW op \in Op, NEW S, NEW s \in Seq(S), ToSet(s) \subseteq Thing,
           \A x \in ToSet(s) : NeedsInUse(op, x) \subseteq D
    PROVE  UseAdds(Cmds(op, s), D, All(op, ToSet(s)))
<1>1. \A x \in ToSet(s) : C(op, x) \in DOMAIN UseNeeds /\ InPlace(C(op, x), D, UseNeeds, {})
  BY UseNeedsAre DEF InPlace
<1>2. \A x \in ToSet(s) : C(op, x) \notin {}
  OBVIOUS
<1> QED
  BY <1>1, <1>2, AddsCmds DEF UseAdds

\* Commands without needs.
LEMMA UseAddsFree ==
    ASSUME NEW D, NEW op \in {"start", "stop", "disable"}, NEW S, NEW s \in Seq(S), ToSet(s) \subseteq Thing
    PROVE  UseAdds(Cmds(op, s), D, All(op, ToSet(s)))
<1>1. op \in Op /\ \A x \in ToSet(s) : NeedsInUse(op, x) \subseteq D
  BY DEF Op, NeedsInUse
<1> QED
  BY <1>1, UseAddsCmds

LEMMA StartInOrder == ASSUME TypeOK PROVE UseAdds(StartScript, {}, All("start", Used))
<1> DEFINE a == Cmds("start", StorageNodes)
           b == Cmds("start", layout.mgrs)
           c == Cmds("start", layout.comps)
           d == Cmds("start", Proxy)
           A == All("start", ToSet(StorageNodes))
           B == All("start", ToSet(layout.mgrs))
           F == All("start", ToSet(layout.comps))
           G == All("start", ToSet(Proxy))
<1>1. StartScript = ((a \o b) \o c) \o d
  BY DEF StartScript
<1>2. /\ ToSet(StorageNodes) \subseteq Thing /\ ToSet(layout.mgrs) \subseteq Thing
      /\ ToSet(layout.comps) \subseteq Thing /\ ToSet(Proxy) \subseteq Thing
  BY Configured, ListsAre DEF Daemons
<1>3. \A D : UseAdds(a, D, A) /\ UseAdds(b, D, B) /\ UseAdds(c, D, F) /\ UseAdds(d, D, G)
  BY <1>2, FieldsAre, ListsAre, UseAddsFree
<1>4. ((A \cup B) \cup F) \cup G = All("start", Used)
  <2>1. ((ToSet(StorageNodes) \cup ToSet(layout.mgrs)) \cup ToSet(layout.comps)) \cup ToSet(Proxy) = Used
    BY ListsAre DEF Daemons
  <2> DEFINE S == ToSet(StorageNodes)
             T == ToSet(layout.mgrs)
             U == ToSet(layout.comps)
             V == ToSet(Proxy)
  <2>2. ((A \cup B) \cup F) \cup G
          = ((All("start", S) \cup All("start", T)) \cup All("start", U)) \cup All("start", V)
    OBVIOUS
  <2> HIDE DEF S, T, U, V, A, B, F, G
  <2>3. ((All("start", S) \cup All("start", T)) \cup All("start", U)) \cup All("start", V)
          = All("start", ((S \cup T) \cup U) \cup V)
    BY AllIs
  <2> QED
    BY <2>1, <2>2, <2>3 DEF S, T, U, V
<1> HIDE DEF a, b, c, d, A, B, F, G
<1>5. UseAdds(a \o b, {}, A \cup B)
  BY <1>3, UseAddsBoth
<1>6. UseAdds((a \o b) \o c, {}, (A \cup B) \cup F)
  BY <1>3, <1>5, UseAddsBoth
<1>7. UseAdds(((a \o b) \o c) \o d, {}, ((A \cup B) \cup F) \cup G)
  BY <1>3, <1>6, UseAddsBoth
<1> QED
  BY <1>1, <1>4, <1>7

\* The nodes of the metadata shard, where there is one.
Metas == IF layout.groups THEN {} ELSE ToSet(layout.meta)

\* What is the same in stop.sh and clean.sh, where haproxy is first or last.
LEMMA EnvInOrder ==
    ASSUME TypeOK, NEW D
    PROVE  UseAdds(EnvCommands, D, All("stop", ToSet(Nodes) \cup ToSet(layout.mgrs)))
<1> DEFINE a == Cmds("stop", layout.comps)
           b == Cmds("stop", layout.mgrs)
           c == Cmds("stop", DataNodes)
           d == IF layout.groups THEN <<>> ELSE Cmds("stop", layout.meta)
           A == All("stop", ToSet(layout.comps))
           B == All("stop", ToSet(layout.mgrs))
           F == All("stop", ToSet(DataNodes))
           G == All("stop", Metas)
<1>1. EnvCommands = ((a \o b) \o c) \o d
  BY DEF EnvCommands
<1>2. /\ ToSet(layout.mgrs) \subseteq Thing /\ Metas \subseteq Thing
      /\ ToSet(layout.comps) \subseteq Thing /\ ToSet(DataNodes) \subseteq Thing
  BY Configured, ListsAre DEF Daemons, Metas
<1>3. \A E : UseAdds(a, E, A) /\ UseAdds(b, E, B) /\ UseAdds(c, E, F)
  BY <1>2, FieldsAre, ListsAre, UseAddsFree
<1>4. \A E : UseAdds(d, E, G)
  <2>1. CASE layout.groups
    BY <2>1, AllIs, AddsNothing DEF UseAdds, Metas
  <2>2. CASE ~layout.groups
    BY <2>2, <1>2, FieldsAre, UseAddsFree DEF Metas
  <2> QED
    BY <2>1, <2>2
<1>5. ((A \cup B) \cup F) \cup G = All("stop", ToSet(Nodes) \cup ToSet(layout.mgrs))
  <2>1. ((ToSet(layout.comps) \cup ToSet(layout.mgrs)) \cup ToSet(DataNodes)) \cup Metas = ToSet(Nodes) \cup ToSet(layout.mgrs)
    BY ListsAre DEF Metas
  <2>2. ((A \cup B) \cup F) \cup G
          = All("stop", ((ToSet(layout.comps) \cup ToSet(layout.mgrs)) \cup ToSet(DataNodes)) \cup Metas)
    BY AllIs
  <2> QED
    BY <2>1, <2>2
<1> HIDE DEF a, b, c, d, A, B, F, G
<1>6. UseAdds(a \o b, D, A \cup B)
  BY <1>3, UseAddsBoth
<1>7. UseAdds((a \o b) \o c, D, (A \cup B) \cup F)
  BY <1>3, <1>6, UseAddsBoth
<1>8. UseAdds(((a \o b) \o c) \o d, D, ((A \cup B) \cup F) \cup G)
  BY <1>4, <1>7, UseAddsBoth
<1> QED
  BY <1>1, <1>5, <1>8

LEMMA StopInOrder == ASSUME TypeOK PROVE UseAdds(StopScript, {}, All("stop", Used))
<1> DEFINE p == Cmds("stop", Proxy)
           a == Cmds("stop", layout.comps)
           b == Cmds("stop", layout.mgrs)
           c == Cmds("stop", DataNodes)
           d == IF layout.groups THEN <<>> ELSE Cmds("stop", layout.meta)
           P == All("stop", ToSet(Proxy))
           A == All("stop", ToSet(layout.comps))
           B == All("stop", ToSet(layout.mgrs))
           F == All("stop", ToSet(DataNodes))
           G == All("stop", Metas)
<1>1. StopScript = (((p \o a) \o b) \o c) \o d
  BY DEF StopScript
<1>2. /\ ToSet(layout.mgrs) \subseteq Thing /\ Metas \subseteq Thing /\ ToSet(Proxy) \subseteq Thing
      /\ ToSet(layout.comps) \subseteq Thing /\ ToSet(DataNodes) \subseteq Thing
  BY Configured, ListsAre DEF Daemons, Metas
<1>3. \A E : UseAdds(p, E, P) /\ UseAdds(a, E, A) /\ UseAdds(b, E, B) /\ UseAdds(c, E, F)
  BY <1>2, FieldsAre, ListsAre, UseAddsFree
<1>4. \A E : UseAdds(d, E, G)
  <2>1. CASE layout.groups
    BY <2>1, AllIs, AddsNothing DEF UseAdds, Metas
  <2>2. CASE ~layout.groups
    BY <2>2, <1>2, FieldsAre, UseAddsFree DEF Metas
  <2> QED
    BY <2>1, <2>2
<1>5. (((P \cup A) \cup B) \cup F) \cup G = All("stop", Used)
  <2>1. (((ToSet(Proxy) \cup ToSet(layout.comps)) \cup ToSet(layout.mgrs)) \cup ToSet(DataNodes)) \cup Metas = Used
    BY ListsAre DEF Metas, Daemons
  <2>2. ((P \cup A) \cup B) \cup F
          = All("stop", ((ToSet(Proxy) \cup ToSet(layout.comps)) \cup ToSet(layout.mgrs)) \cup ToSet(DataNodes))
    BY AllIs
  <2> HIDE DEF P, A, B, F
  <2> QED
    BY <2>1, <2>2, AllIs
<1> HIDE DEF p, a, b, c, d, P, A, B, F, G
<1>6. UseAdds(p \o a, {}, P \cup A)
  BY <1>3, UseAddsBoth
<1>7. UseAdds((p \o a) \o b, {}, (P \cup A) \cup B)
  BY <1>3, <1>6, UseAddsBoth
<1>8. UseAdds(((p \o a) \o b) \o c, {}, ((P \cup A) \cup B) \cup F)
  BY <1>3, <1>7, UseAddsBoth
<1>9. UseAdds((((p \o a) \o b) \o c) \o d, {}, (((P \cup A) \cup B) \cup F) \cup G)
  BY <1>4, <1>8, UseAddsBoth
<1> QED
  BY <1>1, <1>5, <1>9

\* What NoUnits takes from the processes of S.
UnitsGone(S) == IF Watches THEN All("systemctl_stop", S) \cup All("disable", S) ELSE {}

LEMMA NoUnitsInOrder ==
    ASSUME TypeOK, NEW D, NEW S, NEW s \in Seq(S), ToSet(s) \subseteq Thing,
           All("stop", ToSet(s)) \subseteq D, All("rm", ToSet(s) \cap Node) \subseteq D
    PROVE  UseAdds(NoUnits(s), D, UnitsGone(ToSet(s)))
<1>1. CASE Watches
  <2>1. NoUnits(s) = Cmds("systemctl_stop", s) \o Cmds("disable", s)
    BY <1>1 DEF NoUnits, Watches
  <2>2. UseAdds(Cmds("systemctl_stop", s), D, All("systemctl_stop", ToSet(s)))
    <3>1. \A x \in ToSet(s) : NeedsInUse("systemctl_stop", x) = All("stop", {x}) \cup All("rm", {x} \cap Node)
      BY DEF NeedsInUse
    <3>2. \A x \in ToSet(s) : All("stop", {x}) \subseteq D /\ All("rm", {x} \cap Node) \subseteq D
      BY DEF All
    <3> QED
      BY <3>1, <3>2, UseAddsCmds DEF Op
  <2>3. UseAdds(Cmds("disable", s), D \cup All("systemctl_stop", ToSet(s)), All("disable", ToSet(s)))
    BY UseAddsFree
  <2>4. UseAdds(Cmds("systemctl_stop", s) \o Cmds("disable", s), D,
                All("systemctl_stop", ToSet(s)) \cup All("disable", ToSet(s)))
    BY <2>2, <2>3, UseAddsBoth
  <2> QED
    BY <1>1, <2>1, <2>4 DEF UnitsGone
<1>2. CASE ~Watches
  BY <1>2, AddsNothing DEF UseAdds, UnitsGone, NoUnits, Watches
<1> QED
  BY <1>1, <1>2

\* What RemoveNodes takes from the nodes of S.
NodesGone(S) == All("rm", S) \cup UnitsGone(S)

LEMMA GoneIs ==
    /\ NodesGone({}) = {} /\ UnitsGone({}) = {}
    /\ \A S, T : NodesGone(S) \cup NodesGone(T) = NodesGone(S \cup T)
    /\ \A S, T : UnitsGone(S) \cup UnitsGone(T) = UnitsGone(S \cup T)
    /\ \A S, T, U : NodesGone(S) \cup NodesGone(T) \cup NodesGone(U) = NodesGone(S \cup T \cup U)
    /\ \A S, T, U : UnitsGone(S) \cup UnitsGone(T) \cup UnitsGone(U) = UnitsGone(S \cup T \cup U)
    /\ \A S : \A n \in S : NodesGone({n}) \subseteq NodesGone(S)
    /\ \A S : \A c \in NodesGone(S) : \E n \in S : c \in NodesGone({n})
  BY DEF NodesGone, UnitsGone, All

LEMMA RemoveNodesInOrder ==
    ASSUME TypeOK, NEW D, NEW S, NEW s \in Seq(S), ToSet(s) \subseteq ToSet(Nodes),
           All("stop", Used) \subseteq D
    PROVE  UseAdds(RemoveNodes(s), D, NodesGone(ToSet(s)))
<1> DEFINE ss == [i \in DOMAIN s |-> RemoveNode(s[i])]
           E == [i \in DOMAIN s |-> NodesGone({s[i]})]
<1>1. /\ Len(s) \in Nat /\ DOMAIN s = 1..Len(s)
      /\ \A k \in 1..Len(s) : s[k] \in ToSet(s)
  BY DEF ToSet
<1>2. RemoveNodes(s) = FlattenSeq(ss)
  BY DEF RemoveNodes
<1>3. /\ Len(ss) = Len(s) /\ (Len(ss) = 0 => ss = <<>>)
      /\ \A i \in 1..Len(s) : ss[i] = RemoveNode(s[i]) /\ E[i] = NodesGone({s[i]})
  BY <1>1
<1> HIDE DEF ss, E
<1>4. ASSUME NEW i \in 1..Len(ss) PROVE UseAdds(ss[i], D \cup FirstOf(E, i - 1), E[i])
  <2> DEFINE n == s[i]
             F == D \cup FirstOf(E, i - 1)
  <2>1. n \in ToSet(Nodes) /\ ss[i] = Cmd("rm", n) \o NoUnits(<<n>>) /\ E[i] = NodesGone({n})
    BY <1>1, <1>3 DEF RemoveNode
  <2>2. n \in Thing /\ n \in Used /\ n \in Node
    BY <2>1, Configured
  <2> HIDE DEF n
  <2>3. All("stop", Used) \subseteq F
    OBVIOUS
  <2> HIDE DEF F
  <2>4. UseAdds(Cmd("rm", n), F, All("rm", {n}))
    <3>1. "rm" \in Op /\ UseNeeds[C("rm", n)] = All("stop", Used) /\ C("rm", n) \in DOMAIN UseNeeds
      BY <2>2, UseNeedsAre DEF NeedsInUse, Op
    <3> QED
      BY <2>3, <3>1, AddsOne, CommandIs, AllIs DEF UseAdds
  <2>5. UseAdds(NoUnits(<<n>>), F \cup All("rm", {n}), UnitsGone({n}))
    <3>1. <<n>> \in Seq({n}) /\ DOMAIN <<n>> = {1} /\ <<n>>[1] = n
      OBVIOUS
    <3>2. ToSet(<<n>>) = {n}
      BY <3>1 DEF ToSet
    <3>3. All("stop", {n}) \subseteq F \cup All("rm", {n}) /\ All("rm", {n} \cap Node) \subseteq F \cup All("rm", {n})
      BY <2>2, <2>3 DEF All
    <3> QED
      BY <2>2, <3>1, <3>2, <3>3, NoUnitsInOrder
  <2>6. UseAdds(Cmd("rm", n) \o NoUnits(<<n>>), F, All("rm", {n}) \cup UnitsGone({n}))
    BY <2>4, <2>5, UseAddsBoth
  <2> QED
    BY <2>1, <2>6 DEF NodesGone, F
<1>5. UseAdds(FlattenSeq(ss), D, FirstOf(E, Len(ss)))
  <2>1. \A i \in 1..Len(ss) : Adds(ss[i], D \cup FirstOf(E, i - 1), E[i], UseNeeds, {})
    BY <1>4 DEF UseAdds
  <2>2. Adds(FlattenSeq(ss), D, FirstOf(E, Len(ss)), UseNeeds, {})
    BY <1>1, <1>3, <2>1, AddsAll
  <2> QED
    BY <2>2 DEF UseAdds
<1>6. FirstOf(E, Len(ss)) = NodesGone(ToSet(s))
  <2>0. \A n \in ToSet(s) : NodesGone({n}) \subseteq NodesGone(ToSet(s))
    BY GoneIs, Zenon
  <2>1. \A k \in 1..Len(s) : E[k] \subseteq NodesGone(ToSet(s))
    BY <1>1, <1>3, <2>0
  <2>2. \A n \in ToSet(s) : \E k \in 1..Len(s) : E[k] = NodesGone({n})
    BY <1>1, <1>3 DEF ToSet
  <2>4. \A c \in NodesGone(ToSet(s)) : \E n \in ToSet(s) : c \in NodesGone({n})
    BY GoneIs, Zenon
  <2>3. \A c \in NodesGone(ToSet(s)) : \E k \in 1..Len(s) : c \in E[k]
    BY <2>2, <2>4
  <2> HIDE DEF NodesGone
  <2> QED
    BY <2>1, <2>3, <1>3 DEF FirstOf
<1> QED
  BY <1>2, <1>5, <1>6

CleanSet ==
    (All("stop", Used) \cup All("rm", ToSet(Nodes)) \cup UnitsGone(Used))
      \cup (IF full THEN All("rm_base", KnownHosts) ELSE {})

LEMMA CleanInOrder == ASSUME TypeOK PROVE UseAdds(CleanScript, {}, CleanSet)
<1> DEFINE e  == EnvCommands
           p  == Cmds("stop", Proxy)
           up == NoUnits(Proxy)
           rc == RemoveNodes(layout.comps)
           um == NoUnits(layout.mgrs)
           rd == RemoveNodes(DataNodes)
           rm == IF layout.groups THEN <<>> ELSE RemoveNodes(layout.meta)
           b  == IF full THEN Cmds("rm_base", Machines) ELSE <<>>
           X  == All("stop", ToSet(Nodes) \cup ToSet(layout.mgrs))
           P  == All("stop", ToSet(Proxy))
           UP == UnitsGone(ToSet(Proxy))
           RC == NodesGone(ToSet(layout.comps))
           UM == UnitsGone(ToSet(layout.mgrs))
           RD == NodesGone(ToSet(DataNodes))
           RM == NodesGone(Metas)
           B  == IF full THEN All("rm_base", KnownHosts) ELSE {}
           tail == ((((((p \o up) \o rc) \o um) \o rd) \o rm) \o b)
<1>1. CleanScript = e \o tail
  BY DEF CleanScript, NoenvCommands
<1>2. /\ Proxy \in Seq({Haproxy}) /\ layout.comps \in Seq(Comp) /\ layout.mgrs \in Seq(ClusterMgr)
      /\ DataNodes \in Seq(Storage) /\ layout.meta \in Seq(Storage) /\ Machines \in Seq(Machine)
      /\ ToSet(Machines) = KnownHosts
  BY FieldsAre, ListsAre, Configured
<1>3. /\ ToSet(Proxy) \subseteq Thing /\ ToSet(layout.mgrs) \subseteq Thing /\ KnownHosts \subseteq Thing
      /\ ToSet(layout.comps) \subseteq ToSet(Nodes) /\ ToSet(DataNodes) \subseteq ToSet(Nodes)
      /\ Metas \subseteq ToSet(Nodes)
      /\ ToSet(Proxy) \cap Node = {} /\ ToSet(layout.mgrs) \cap Node = {}
      /\ ToSet(Proxy) \subseteq Used /\ ToSet(layout.mgrs) \subseteq Used
      /\ (ToSet(Nodes) \cup ToSet(layout.mgrs)) \cup ToSet(Proxy) = Used
  BY Configured, ListsAre DEF Daemons, Metas
<1>4. X \cup P = All("stop", Used)
  BY <1>3, AllIs
<1>5. UseAdds(e, {}, X)
  BY EnvInOrder
<1>6. UseAdds(p, X, P)
  BY <1>2, <1>3, UseAddsFree
<1>7. ASSUME NEW D, All("stop", Used) \subseteq D
      PROVE  /\ UseAdds(up, D, UP) /\ UseAdds(um, D, UM)
             /\ UseAdds(rc, D, RC) /\ UseAdds(rd, D, RD) /\ UseAdds(rm, D, RM) /\ UseAdds(b, D, B)
  <2>1. UseAdds(up, D, UP) /\ UseAdds(um, D, UM)
    <3>1. All("stop", ToSet(Proxy)) \subseteq D /\ All("stop", ToSet(layout.mgrs)) \subseteq D
      BY <1>3, <1>7, AllIs
    <3>2. All("rm", {}) \subseteq D
      BY AllIs
    <3> QED
      BY <1>2, <1>3, <3>1, <3>2, NoUnitsInOrder
  <2>2. UseAdds(rc, D, RC) /\ UseAdds(rd, D, RD)
    BY <1>2, <1>3, <1>7, RemoveNodesInOrder
  <2>3. UseAdds(rm, D, RM)
    <3>1. CASE layout.groups
      <4>1. rm = <<>> /\ RM = {}
        BY <3>1, GoneIs DEF Metas
      <4> HIDE DEF rm, RM
      <4> QED
        BY <4>1, AddsNothing DEF UseAdds
    <3>2. CASE ~layout.groups
      BY <3>2, <1>2, <1>3, <1>7, RemoveNodesInOrder DEF Metas
    <3> QED
      BY <3>1, <3>2
  <2>4. UseAdds(b, D, B)
    <3>1. CASE full
      <4>1. UseAdds(Cmds("rm_base", Machines), D, All("rm_base", ToSet(Machines)))
        <5>1. "rm_base" \in Op /\ \A x : NeedsInUse("rm_base", x) \subseteq D
          BY <1>7 DEF NeedsInUse, Op
        <5> QED
          BY <1>2, <1>3, <5>1, UseAddsCmds
      <4> QED
        BY <1>2, <3>1, <4>1
    <3>2. CASE ~full
      BY <3>2, AddsNothing DEF UseAdds
    <3> QED
      BY <3>1, <3>2
  <2> QED
    BY <2>1, <2>2, <2>3, <2>4
<1>8. /\ RC \cup RD \cup RM = NodesGone(ToSet(Nodes))
      /\ NodesGone(ToSet(Nodes)) \cup UP \cup UM = All("rm", ToSet(Nodes)) \cup UnitsGone(Used)
  <2>1. (ToSet(layout.comps) \cup ToSet(DataNodes)) \cup Metas = ToSet(Nodes)
    BY ListsAre DEF Metas
  <2>2. RC \cup RD \cup RM = NodesGone((ToSet(layout.comps) \cup ToSet(DataNodes)) \cup Metas)
    BY GoneIs
  <2>3. UnitsGone(ToSet(Nodes)) \cup UP \cup UM = UnitsGone((ToSet(Nodes) \cup ToSet(Proxy)) \cup ToSet(layout.mgrs))
    BY GoneIs
  <2>4. (ToSet(Nodes) \cup ToSet(Proxy)) \cup ToSet(layout.mgrs) = Used
    BY <1>3
  <2>5. NodesGone(ToSet(Nodes)) = All("rm", ToSet(Nodes)) \cup UnitsGone(ToSet(Nodes))
    BY DEF NodesGone
  <2>6. RC \cup RD \cup RM = NodesGone(ToSet(Nodes))
    BY <2>1, <2>2
  <2>7. UnitsGone(ToSet(Nodes)) \cup UP \cup UM = UnitsGone(Used)
    BY <2>3, <2>4
  <2> HIDE DEF RC, RD, RM, UP, UM
  <2> QED
    BY <2>5, <2>6, <2>7
<1>9. CleanSet = X \cup ((((((P \cup UP) \cup RC) \cup UM) \cup RD) \cup RM) \cup B)
  <2>1. CleanSet = (X \cup P) \cup (All("rm", ToSet(Nodes)) \cup UnitsGone(Used)) \cup B
    BY <1>4 DEF CleanSet
  <2> HIDE DEF X, P, UP, RC, UM, RD, RM, B
  <2> QED
    BY <2>1, <1>8
<1> DEFINE S == All("stop", Used)
<1> HIDE DEF e, p, up, rc, um, rd, rm, b, X, P, UP, RC, UM, RD, RM, B, S
<1>10. UseAdds(tail, X, (((((P \cup UP) \cup RC) \cup UM) \cup RD) \cup RM) \cup B)
  <2>0. S = X \cup P
    BY <1>4 DEF S
  <2>1. \A E : LET D == X \cup (P \cup E) IN
             /\ UseAdds(up, D, UP) /\ UseAdds(um, D, UM)
             /\ UseAdds(rc, D, RC) /\ UseAdds(rd, D, RD) /\ UseAdds(rm, D, RM) /\ UseAdds(b, D, B)
    <3>1. \A D : S \subseteq D =>
             /\ UseAdds(up, D, UP) /\ UseAdds(um, D, UM)
             /\ UseAdds(rc, D, RC) /\ UseAdds(rd, D, RD) /\ UseAdds(rm, D, RM) /\ UseAdds(b, D, B)
      BY <1>7 DEF S
    <3>2. \A E : S \subseteq X \cup (P \cup E)
      BY <2>0
    <3> QED
      BY <3>1, <3>2
  <2>2. UseAdds(p \o up, X, P \cup UP)
    <3>1. P = P \cup {}
      OBVIOUS
    <3>2. UseAdds(up, X \cup P, UP)
      BY <2>1, <3>1
    <3> QED
      BY <1>6, <3>2, UseAddsBoth
  <2>3. UseAdds((p \o up) \o rc, X, (P \cup UP) \cup RC)
    BY <2>1, <2>2, UseAddsBoth
  <2>4. UseAdds(((p \o up) \o rc) \o um, X, ((P \cup UP) \cup RC) \cup UM)
    <3>1. (P \cup UP) \cup RC = P \cup (UP \cup RC)
      OBVIOUS
    <3>2. UseAdds(um, X \cup ((P \cup UP) \cup RC), UM)
      BY <2>1, <3>1
    <3> QED
      BY <2>3, <3>2, UseAddsBoth
  <2>5. UseAdds((((p \o up) \o rc) \o um) \o rd, X, (((P \cup UP) \cup RC) \cup UM) \cup RD)
    <3>1. ((P \cup UP) \cup RC) \cup UM = P \cup (UP \cup RC \cup UM)
      OBVIOUS
    <3>2. UseAdds(rd, X \cup (((P \cup UP) \cup RC) \cup UM), RD)
      BY <2>1, <3>1
    <3> QED
      BY <2>4, <3>2, UseAddsBoth
  <2>6. UseAdds(((((p \o up) \o rc) \o um) \o rd) \o rm, X, ((((P \cup UP) \cup RC) \cup UM) \cup RD) \cup RM)
    <3>1. (((P \cup UP) \cup RC) \cup UM) \cup RD = P \cup (UP \cup RC \cup UM \cup RD)
      OBVIOUS
    <3>2. UseAdds(rm, X \cup ((((P \cup UP) \cup RC) \cup UM) \cup RD), RM)
      BY <2>1, <3>1
    <3> QED
      BY <2>5, <3>2, UseAddsBoth
  <2> DEFINE t == ((((p \o up) \o rc) \o um) \o rd) \o rm
             T == ((((P \cup UP) \cup RC) \cup UM) \cup RD) \cup RM
  <2>7. UseAdds(b, X \cup T, B)
    <3>1. T = P \cup (UP \cup RC \cup UM \cup RD \cup RM)
      OBVIOUS
    <3> HIDE DEF T
    <3> QED
      BY <2>1, <3>1
  <2>8. UseAdds(t, X, T)
    BY <2>6
  <2> HIDE DEF t, T
  <2>9. UseAdds(t \o b, X, T \cup B)
    BY <2>7, <2>8, UseAddsBoth
  <2> QED
    BY <2>9 DEF t, T
<1> DEFINE F == (((((P \cup UP) \cup RC) \cup UM) \cup RD) \cup RM) \cup B
<1>11. {} \cup X = X
  OBVIOUS
<1> HIDE DEF tail, F
<1>12. UseAdds(e \o tail, {}, X \cup F)
  BY <1>5, <1>10, <1>11, UseAddsBoth DEF F
<1> QED
  BY <1>1, <1>9, <1>12 DEF F

-----------------------------------------------------------------------------
(* install.sh: each command after those it needs, and the installation of a *)
(* node once.                                                               *)

Installs == All("install_storage", ToSet(StorageNodes)) \cup All("install_comp", ToSet(layout.comps))

NeedsInInstall(op, x) ==
    CASE op = "prepare"        -> IF full THEN All("unpack", {x}) ELSE {}
      [] op \in NodeInstalls   ->
            All("prepare", {Host[x]})
              \cup All("install_storage", {PrimaryOf(y) : y \in {x} \cap (Storage \ Primaries)})
      [] op = "bootstrap"      -> All("install_storage", ToSet(layout.meta))
      [] op = "create_cluster" -> All("bootstrap", {layout.comps[1]}) \cup Installs
      [] op = "configure"      -> All("prepare", {Host[x]})
      [] op = "start"          -> All("prepare", {Host[x]}) \cup All("configure", {x} \cap ClusterMgr)
      [] OTHER                 -> {}
InstallNeeds == [c \in Command |-> NeedsInInstall(c.op, c.on)]
InstallOnce ==
    {c \in Command : \/ c.op \in NodeInstalls \cup {"bootstrap", "create_cluster"}
                     \/ c.op = "start" /\ c.on = Haproxy}
InstallAdds(s, D, E) == Adds(s, D, E, InstallNeeds, InstallOnce)

LEMMA InstallNeedsAre ==
    /\ DOMAIN InstallNeeds = Command
    /\ \A op \in Op, x \in Thing :
          /\ C(op, x) \in Command /\ InstallNeeds[C(op, x)] = NeedsInInstall(op, x)
          /\ C(op, x) \in InstallOnce <=>
                \/ op \in NodeInstalls \cup {"bootstrap", "create_cluster"}
                \/ op = "start" /\ x = Haproxy
  BY CommandIs DEF InstallNeeds, InstallOnce

LEMMA InstallAddsBoth ==
    ASSUME NEW D, NEW E, NEW F, NEW a, NEW b, InstallAdds(a, D, E), InstallAdds(b, D \cup E, F)
    PROVE  InstallAdds(a \o b, D, E \cup F)
  BY AddsBoth DEF InstallAdds

\* One command.
LEMMA InstallAddsOne ==
    ASSUME NEW D, NEW op \in Op, NEW x \in Thing, NeedsInInstall(op, x) \subseteq D,
           C(op, x) \in InstallOnce => C(op, x) \notin D
    PROVE  InstallAdds(Cmd(op, x), D, All(op, {x}))
<1>1. C(op, x) \in DOMAIN InstallNeeds /\ InstallNeeds[C(op, x)] \subseteq D
  BY InstallNeedsAre
<1>2. Cmd(op, x) = <<C(op, x)>> /\ All(op, {x}) = {C(op, x)}
  BY CommandIs, AllIs
<1> QED
  BY <1>1, <1>2, AddsOne DEF InstallAdds

\* The same command for each of a list.
LEMMA InstallAddsCmds ==
    ASSUME NEW D, NEW op \in Op, NEW S, NEW s \in Seq(S), ToSet(s) \subseteq Thing,
           \A x \in ToSet(s) : NeedsInInstall(op, x) \subseteq D /\ C(op, x) \notin D,
           IsInjective(s)
    PROVE  InstallAdds(Cmds(op, s), D, All(op, ToSet(s)))
<1>1. \A x \in ToSet(s) : C(op, x) \in DOMAIN InstallNeeds /\ InPlace(C(op, x), D, InstallNeeds, InstallOnce)
  BY InstallNeedsAre DEF InPlace
<1> QED
  BY <1>1, AddsCmds DEF InstallAdds

UnitsOf(S) == IF Watches THEN All("enable", S) ELSE {}

LEMMA UnitsInOrder ==
    ASSUME NEW D, NEW S, NEW s \in Seq(S), ToSet(s) \subseteq Thing
    PROVE  InstallAdds(Units(s), D, UnitsOf(ToSet(s)))
<1>1. CASE Watches
  <2>1. Units(s) = Cmds("enable", s)
    BY <1>1 DEF Units, Watches
  <2>2. "enable" \in Op /\ \A x : NeedsInInstall("enable", x) = {}
    BY DEF Op, NeedsInInstall, NodeInstalls
  <2>3. \A x \in ToSet(s) : C("enable", x) \in DOMAIN InstallNeeds /\ C("enable", x) \notin InstallOnce
                               /\ InPlace(C("enable", x), D, InstallNeeds, InstallOnce)
    BY <2>2, InstallNeedsAre DEF InPlace, NodeInstalls
  <2> QED
    BY <1>1, <2>1, <2>3, AddsCmds DEF InstallAdds, UnitsOf
<1>2. CASE ~Watches
  <2>1. Units(s) = <<>>
    BY <1>2 DEF Units, Watches
  <2> QED
    BY <1>2, <2>1, AddsNothing DEF InstallAdds, UnitsOf
<1> QED
  BY <1>1, <1>2

\* A machine is set up.
MachineSet(S) ==
    ((IF full THEN All("unpack", S) ELSE {}) \cup All("prepare", S)) \cup All("empty_list", S)

LEMMA MachineSetIs ==
    /\ \A S : \A m \in S : MachineSet({m}) \subseteq MachineSet(S)
    /\ \A S : \A c \in MachineSet(S) : \E m \in S : c \in MachineSet({m})
  BY DEF MachineSet, All

LEMMA SetupInOrder ==
    ASSUME NEW D, NEW m \in Thing
    PROVE  InstallAdds(SetupMachine(m), D, MachineSet({m}))
<1> DEFINE u == IF full THEN Cmd("unpack", m) ELSE <<>>
           U == IF full THEN All("unpack", {m}) ELSE {}
           p == Cmd("prepare", m)
           l == Cmd("empty_list", m)
<1>1. SetupMachine(m) = (u \o p) \o l
  BY DEF SetupMachine
<1>2. /\ {"unpack", "prepare", "empty_list"} \subseteq Op
      /\ \A op \in {"unpack", "prepare", "empty_list"} : C(op, m) \notin InstallOnce
      /\ NeedsInInstall("unpack", m) = {} /\ NeedsInInstall("prepare", m) = U
      /\ NeedsInInstall("empty_list", m) = {}
  <2>1. {"unpack", "prepare", "empty_list"} \subseteq Op
    BY DEF Op
  <2>2. \A op \in {"unpack", "prepare", "empty_list"} : C(op, m) \notin InstallOnce
    BY <2>1, InstallNeedsAre DEF NodeInstalls
  <2> QED
    BY <2>1, <2>2 DEF NeedsInInstall, NodeInstalls
<1>3. InstallAdds(u, D, U)
  <2>1. CASE full
    <3>1. InstallAdds(Cmd("unpack", m), D, All("unpack", {m}))
      BY <1>2, InstallAddsOne
    <3> QED
      BY <2>1, <3>1
  <2>2. CASE ~full
    BY <2>2, AddsNothing DEF InstallAdds
  <2> QED
    BY <2>1, <2>2
<1>4. InstallAdds(p, D \cup U, All("prepare", {m}))
  BY <1>2, InstallAddsOne
<1>5. \A E : InstallAdds(l, E, All("empty_list", {m}))
  BY <1>2, InstallAddsOne
<1> DEFINE P == All("prepare", {m})
           L == All("empty_list", {m})
<1>6. MachineSet({m}) = (U \cup P) \cup L
  BY DEF MachineSet
<1> HIDE DEF u, p, l, U, P, L
<1>7. InstallAdds(u \o p, D, U \cup P)
  BY <1>3, <1>4, InstallAddsBoth DEF P
<1>8. InstallAdds((u \o p) \o l, D, (U \cup P) \cup L)
  BY <1>5, <1>7, InstallAddsBoth DEF L
<1> QED
  BY <1>1, <1>6, <1>8

LEMMA SetupsInOrder ==
    ASSUME TypeOK
    PROVE  InstallAdds(FlattenSeq([i \in DOMAIN Machines |-> SetupMachine(Machines[i])]),
                       {}, MachineSet(KnownHosts))
<1> DEFINE s == Machines
           ss == [i \in DOMAIN s |-> SetupMachine(s[i])]
           E == [i \in DOMAIN s |-> MachineSet({s[i]})]
<1>1. /\ s \in Seq(Machine) /\ ToSet(s) = KnownHosts /\ KnownHosts \subseteq Thing
  BY Configured
<1> HIDE DEF s
<1>2. /\ Len(s) \in Nat /\ DOMAIN s = 1..Len(s)
      /\ \A k \in 1..Len(s) : s[k] \in ToSet(s)
  BY <1>1 DEF ToSet
<1>3. /\ Len(ss) = Len(s) /\ (Len(ss) = 0 => ss = <<>>)
      /\ \A i \in 1..Len(s) : ss[i] = SetupMachine(s[i]) /\ E[i] = MachineSet({s[i]})
  BY <1>2
<1> HIDE DEF ss, E
<1>4. \A i \in 1..Len(ss) : Adds(ss[i], {} \cup FirstOf(E, i - 1), E[i], InstallNeeds, InstallOnce)
  BY <1>1, <1>2, <1>3, SetupInOrder DEF InstallAdds
<1>5. Adds(FlattenSeq(ss), {}, FirstOf(E, Len(ss)), InstallNeeds, InstallOnce)
  BY <1>2, <1>3, <1>4, AddsAll
<1>6. FirstOf(E, Len(ss)) = MachineSet(ToSet(s))
  <2>0. \A n \in ToSet(s) : MachineSet({n}) \subseteq MachineSet(ToSet(s))
    BY MachineSetIs, Zenon
  <2>1. \A k \in 1..Len(s) : E[k] \subseteq MachineSet(ToSet(s))
    BY <1>2, <1>3, <2>0
  <2>2. \A n \in ToSet(s) : \E k \in 1..Len(s) : E[k] = MachineSet({n})
    BY <1>2, <1>3 DEF ToSet
  <2>3. \A c \in MachineSet(ToSet(s)) : \E n \in ToSet(s) : c \in MachineSet({n})
    BY MachineSetIs, Zenon
  <2>4. \A c \in MachineSet(ToSet(s)) : \E k \in 1..Len(s) : c \in E[k]
    BY <2>2, <2>3
  <2> QED
    BY <2>1, <2>4, <1>3 DEF FirstOf
<1> QED
  BY <1>1, <1>5, <1>6 DEF InstallAdds, ss, s

\* A cluster manager is configured and started, and has its unit made.
MgrSet(S) == (All("configure", S) \cup All("start", S)) \cup UnitsOf(S)

LEMMA MgrSetIs ==
    /\ \A S : \A m \in S : MgrSet({m}) \subseteq MgrSet(S)
    /\ \A S : \A c \in MgrSet(S) : \E m \in S : c \in MgrSet({m})
  BY DEF MgrSet, UnitsOf, All

LEMMA MgrInOrder ==
    ASSUME NEW D, NEW n \in Thing, n # Haproxy, C("prepare", Host[n]) \in D
    PROVE  InstallAdds(InstallMgr(n), D, MgrSet({n}))
<1> DEFINE c == Cmd("configure", n)
           s == Cmd("start", n)
           u == Units(<<n>>)
           P == All("configure", {n})
           S == All("start", {n})
           U == UnitsOf({n})
<1>1. InstallMgr(n) = (c \o s) \o u
  BY DEF InstallMgr
<1>2. /\ {"configure", "start"} \subseteq Op
      /\ \A op \in {"configure", "start"} : C(op, n) \notin InstallOnce
      /\ NeedsInInstall("configure", n) \subseteq D
      /\ NeedsInInstall("start", n) \subseteq D \cup P
  <2>1. {"configure", "start"} \subseteq Op
    BY DEF Op
  <2>2. \A op \in {"configure", "start"} : C(op, n) \notin InstallOnce
    BY <2>1, InstallNeedsAre DEF NodeInstalls
  <2>3. All("prepare", {Host[n]}) \subseteq D
    BY AllIs
  <2>4. All("configure", {n} \cap ClusterMgr) \subseteq P
    BY AllIs
  <2> QED
    BY <2>1, <2>2, <2>3, <2>4 DEF NeedsInInstall, NodeInstalls
<1>3. InstallAdds(c, D, P)
  BY <1>2, InstallAddsOne
<1>4. InstallAdds(s, D \cup P, S)
  BY <1>2, InstallAddsOne
<1>5. \A E : InstallAdds(u, E, U)
  <2>1. <<n>> \in Seq({n}) /\ DOMAIN <<n>> = {1} /\ <<n>>[1] = n
    OBVIOUS
  <2>2. ToSet(<<n>>) = {n}
    BY <2>1 DEF ToSet
  <2> QED
    BY <2>1, <2>2, UnitsInOrder
<1>6. MgrSet({n}) = (P \cup S) \cup U
  BY DEF MgrSet
<1> HIDE DEF c, s, u, P, S, U
<1>7. InstallAdds(c \o s, D, P \cup S)
  BY <1>3, <1>4, InstallAddsBoth
<1>8. InstallAdds((c \o s) \o u, D, (P \cup S) \cup U)
  BY <1>5, <1>7, InstallAddsBoth
<1> QED
  BY <1>1, <1>6, <1>8

LEMMA MgrsInOrder ==
    ASSUME TypeOK, NEW D, All("prepare", KnownHosts) \subseteq D
    PROVE  InstallAdds(FlattenSeq([i \in DOMAIN layout.mgrs |-> InstallMgr(layout.mgrs[i])]),
                       D, MgrSet(ToSet(layout.mgrs)))
<1> DEFINE s == layout.mgrs
           ss == [i \in DOMAIN s |-> InstallMgr(s[i])]
           E == [i \in DOMAIN s |-> MgrSet({s[i]})]
<1>1. /\ s \in Seq(ClusterMgr)
      /\ \A n \in ToSet(s) : n \in Thing /\ n # Haproxy /\ C("prepare", Host[n]) \in D
  <2>1. layout.mgrs \in Seq(ClusterMgr)
    BY FieldsAre
  <2>2. ToSet(layout.mgrs) \subseteq ClusterMgr /\ ToSet(layout.mgrs) \subseteq Used
    BY Configured DEF Daemons
  <2>3. \A n \in Used : n \in Thing /\ Host[n] \in KnownHosts
    BY Configured
  <2>4. Haproxy \notin ClusterMgr
    BY TraditionalAssumption
  <2>5. \A m \in KnownHosts : C("prepare", m) \in D
    BY CommandIs
  <2> QED
    BY <2>1, <2>2, <2>3, <2>4, <2>5
<1> HIDE DEF s
<1>2. /\ Len(s) \in Nat /\ DOMAIN s = 1..Len(s)
      /\ \A k \in 1..Len(s) : s[k] \in ToSet(s)
  BY <1>1 DEF ToSet
<1>3. /\ Len(ss) = Len(s) /\ (Len(ss) = 0 => ss = <<>>)
      /\ \A i \in 1..Len(s) : ss[i] = InstallMgr(s[i]) /\ E[i] = MgrSet({s[i]})
  BY <1>2
<1> HIDE DEF ss, E
<1>4. \A i \in 1..Len(ss) : Adds(ss[i], D \cup FirstOf(E, i - 1), E[i], InstallNeeds, InstallOnce)
  <2> SUFFICES ASSUME NEW i \in 1..Len(s) PROVE InstallAdds(ss[i], D \cup FirstOf(E, i - 1), E[i])
    BY <1>3 DEF InstallAdds
  <2>1. s[i] \in Thing /\ s[i] # Haproxy /\ C("prepare", Host[s[i]]) \in D \cup FirstOf(E, i - 1)
    BY <1>1, <1>2
  <2>2. InstallAdds(InstallMgr(s[i]), D \cup FirstOf(E, i - 1), MgrSet({s[i]}))
    BY <2>1, MgrInOrder
  <2> QED
    BY <1>3, <2>2
<1>5. Adds(FlattenSeq(ss), D, FirstOf(E, Len(ss)), InstallNeeds, InstallOnce)
  BY <1>2, <1>3, <1>4, AddsAll
<1>6. FirstOf(E, Len(ss)) = MgrSet(ToSet(s))
  <2>0. \A n \in ToSet(s) : MgrSet({n}) \subseteq MgrSet(ToSet(s))
    BY MgrSetIs, Zenon
  <2>1. \A k \in 1..Len(s) : E[k] \subseteq MgrSet(ToSet(s))
    BY <1>2, <1>3, <2>0
  <2>2. \A n \in ToSet(s) : \E k \in 1..Len(s) : E[k] = MgrSet({n})
    BY <1>2, <1>3 DEF ToSet
  <2>3. \A c \in MgrSet(ToSet(s)) : \E n \in ToSet(s) : c \in MgrSet({n})
    BY MgrSetIs, Zenon
  <2>4. \A c \in MgrSet(ToSet(s)) : \E k \in 1..Len(s) : c \in E[k]
    BY <2>2, <2>3
  <2> QED
    BY <2>1, <2>4, <1>3 DEF FirstOf
<1> QED
  BY <1>5, <1>6 DEF InstallAdds, ss, s

\* The storage nodes, the primaries first.
LEMMA StorageInOrder ==
    ASSUME TypeOK, ValidConfig, NEW D, All("prepare", KnownHosts) \subseteq D,
           \A x : C("install_storage", x) \notin D
    PROVE  InstallAdds(InstallStorage, D, All("install_storage", ToSet(StorageNodes)))
<1> DEFINE a == Those(StorageNodes, Primaries)
           b == Those(StorageNodes, Storage \ Primaries)
           A == All("install_storage", ToSet(a))
           B == All("install_storage", ToSet(b))
<1>1. InstallStorage = Cmds("install_storage", a) \o Cmds("install_storage", b)
  BY DEF InstallStorage
<1>2. /\ StorageNodes \in Seq(Storage) /\ IsInjective(StorageNodes)
      /\ ToSet(StorageNodes) \subseteq Storage /\ ToSet(StorageNodes) \subseteq Used
      /\ Used \subseteq Thing /\ \A n \in Used : Host[n] \in KnownHosts
      /\ \A n \in ToSet(StorageNodes) \ Primaries : PrimaryOf(n) \in ToSet(StorageNodes) \cap Primaries
  BY ListsAre, Configured, ConfigIsValid
<1>3. /\ a \in Seq(Storage \cap Primaries) /\ ToSet(a) = ToSet(StorageNodes) \cap Primaries
      /\ b \in Seq(Storage \cap (Storage \ Primaries)) /\ ToSet(b) = ToSet(StorageNodes) \cap (Storage \ Primaries)
      /\ IsInjective(a) /\ IsInjective(b)
  BY <1>2, ThoseAre, ThoseOnce
<1> HIDE DEF a, b
<1>4. "install_storage" \in Op /\ "install_storage" \in NodeInstalls
  BY DEF Op, NodeInstalls
<1>5. \A x : NeedsInInstall("install_storage", x) =
            All("prepare", {Host[x]})
              \cup All("install_storage", {PrimaryOf(y) : y \in {x} \cap (Storage \ Primaries)})
  BY DEF NeedsInInstall, NodeInstalls
<1>6. \A x \in Used : All("prepare", {Host[x]}) \subseteq D
  BY <1>2, AllIs
<1>7. InstallAdds(Cmds("install_storage", a), D, A)
  <2>1. ToSet(a) \subseteq Thing
    BY <1>2, <1>3
  <2>2. ASSUME NEW x \in ToSet(a) PROVE NeedsInInstall("install_storage", x) \subseteq D /\ C("install_storage", x) \notin D
    <3>1. x \in Used /\ x \in Primaries
      BY <1>2, <1>3
    <3>2. {PrimaryOf(y) : y \in {x} \cap (Storage \ Primaries)} = {}
      BY <3>1
    <3>3. NeedsInInstall("install_storage", x) = All("prepare", {Host[x]}) \cup All("install_storage", {})
      BY <3>2, <1>5
    <3>4. All("install_storage", {}) = {}
      BY AllIs
    <3>5. All("prepare", {Host[x]}) \subseteq D
      BY <3>1, <1>6
    <3> QED
      BY <3>3, <3>4, <3>5
  <2> QED
    BY <1>3, <1>4, <2>1, <2>2, InstallAddsCmds
<1>8. InstallAdds(Cmds("install_storage", b), D \cup A, B)
  <2>1. ToSet(b) \subseteq Thing
    BY <1>2, <1>3
  <2>2. ASSUME NEW x \in ToSet(b)
        PROVE  NeedsInInstall("install_storage", x) \subseteq D \cup A /\ C("install_storage", x) \notin D \cup A
    <3>1. x \in Used /\ x \in ToSet(StorageNodes) \ Primaries /\ PrimaryOf(x) \in ToSet(a)
      BY <1>2, <1>3
    <3>2. {PrimaryOf(y) : y \in {x} \cap (Storage \ Primaries)} \subseteq {PrimaryOf(x)}
      OBVIOUS
    <3>3. {PrimaryOf(y) : y \in {x} \cap (Storage \ Primaries)} \subseteq ToSet(a)
      BY <3>1, <3>2
    <3>4. C("install_storage", x) \notin A
      BY <3>1, <1>3, CommandIs
    <3>5. All("install_storage", {PrimaryOf(y) : y \in {x} \cap (Storage \ Primaries)}) \subseteq A
      BY <3>3, AllIs
    <3> QED
      BY <3>1, <3>4, <3>5, <1>5, <1>6
  <2> QED
    BY <1>3, <1>4, <2>1, <2>2, InstallAddsCmds
<1>9. A \cup B = All("install_storage", ToSet(StorageNodes))
  <2>1. ToSet(a) \cup ToSet(b) = ToSet(StorageNodes)
    BY <1>2, <1>3
  <2> QED
    BY <2>1, AllIs
<1> QED
  BY <1>1, <1>7, <1>8, <1>9, InstallAddsBoth

MetaSet ==
    IF layout.groups THEN {}
    ELSE All("bootstrap", {layout.comps[1]}) \cup All("create_cluster", {layout.comps[1]})
InstallSet ==
    (((MachineSet(KnownHosts) \cup UnitsOf(Used \cap Watched)) \cup Installs) \cup MetaSet)
      \cup (All("configure", ToSet(layout.mgrs)) \cup All("start", Daemons))

\* What a whole part of the script adds has none of the commands of others.
LEMMA PartsApart ==
    ASSUME NEW S, NEW T, NEW x
    PROVE  /\ \A op \in NodeInstalls \cup {"bootstrap", "create_cluster", "start"} :
                 C(op, x) \notin MachineSet(S) \cup UnitsOf(T)
           /\ \A op \in {"bootstrap", "create_cluster", "start"} : C(op, x) \notin Installs
           /\ \A op \in {"start"} : C(op, x) \notin MetaSet
           /\ C("start", x) \in MgrSet(S) => x \in S
           /\ \A U : C("install_comp", x) \notin All("install_storage", U)
  BY CommandIs DEF MachineSet, UnitsOf, Installs, MetaSet, MgrSet, NodeInstalls

LEMMA InstallInOrder == ASSUME TypeOK, ValidConfig PROVE InstallAdds(InstallScript, {}, InstallSet)
<1> DEFINE m  == FlattenSeq([i \in DOMAIN Machines |-> SetupMachine(Machines[i])])
           u  == Units(StorageNodes)
           s  == InstallStorage
           c  == Cmds("install_comp", layout.comps)
           b  == IF layout.groups THEN <<>> ELSE Cmd("bootstrap", layout.comps[1])
                                                   \o Cmd("create_cluster", layout.comps[1])
           g  == FlattenSeq([i \in DOMAIN layout.mgrs |-> InstallMgr(layout.mgrs[i])])
           p  == Cmds("start", Proxy)
           up == Units(Proxy)
           M  == MachineSet(KnownHosts)
           U  == UnitsOf(ToSet(StorageNodes))
           S  == All("install_storage", ToSet(StorageNodes))
           F  == All("install_comp", ToSet(layout.comps))
           G  == MgrSet(ToSet(layout.mgrs))
           P  == All("start", ToSet(Proxy))
           UP == UnitsOf(ToSet(Proxy))
<1>1. InstallScript = ((((((m \o u) \o s) \o c) \o b) \o g) \o p) \o up
  BY DEF InstallScript
<1>2. /\ StorageNodes \in Seq(Storage) /\ layout.comps \in Seq(Comp) /\ layout.mgrs \in Seq(ClusterMgr)
      /\ Proxy \in Seq({Haproxy})
      /\ IsInjective(layout.comps) /\ IsInjective(Proxy)
      /\ ToSet(StorageNodes) \subseteq Used /\ ToSet(layout.comps) \subseteq Used
      /\ ToSet(Proxy) \subseteq Used /\ ToSet(layout.mgrs) \subseteq Used
      /\ ToSet(layout.comps) \subseteq Comp /\ ToSet(Proxy) \subseteq {Haproxy}
      /\ ToSet(layout.mgrs) \subseteq ClusterMgr
      /\ ~layout.groups => ToSet(layout.meta) \subseteq ToSet(StorageNodes)
  BY FieldsAre, ListsAre, Configured, ConfigIsValid DEF Daemons
<1>3. /\ Used \subseteq Thing /\ layout.comps[1] \in Thing /\ \A n \in Used : Host[n] \in KnownHosts
      /\ Storage \cap Comp = {} /\ Haproxy \notin ClusterMgr
  BY Configured, FieldsAre, TraditionalAssumption
<1>4. All("prepare", KnownHosts) \subseteq M
  BY DEF MachineSet
<1>5. InstallAdds(m, {}, M)
  BY SetupsInOrder
<1>6. \A D : InstallAdds(u, D, U) /\ InstallAdds(up, D, UP)
  BY <1>2, <1>3, UnitsInOrder
<1>7. InstallAdds(s, M \cup U, S)
  <2>1. \A x : C("install_storage", x) \notin M \cup U
    BY PartsApart DEF NodeInstalls
  <2>2. All("prepare", KnownHosts) \subseteq M \cup U
    BY <1>4
  <2> QED
    BY <2>1, <2>2, StorageInOrder
<1>8. InstallAdds(c, (M \cup U) \cup S, F)
  <2>1. ASSUME NEW x \in ToSet(layout.comps)
        PROVE  NeedsInInstall("install_comp", x) \subseteq (M \cup U) \cup S /\ C("install_comp", x) \notin (M \cup U) \cup S
    <3>1. NeedsInInstall("install_comp", x) =
            All("prepare", {Host[x]})
              \cup All("install_storage", {PrimaryOf(y) : y \in {x} \cap (Storage \ Primaries)})
      BY DEF NeedsInInstall, NodeInstalls
    <3>2. {PrimaryOf(y) : y \in {x} \cap (Storage \ Primaries)} = {}
      BY <1>2, <1>3
    <3>3. All("prepare", {Host[x]}) \subseteq M
      BY <1>2, <1>3, <1>4, AllIs
    <3>4. C("install_comp", x) \notin M \cup U /\ C("install_comp", x) \notin S
      BY PartsApart DEF NodeInstalls
    <3>5. All("install_storage", {}) = {}
      BY AllIs
    <3> QED
      BY <3>1, <3>2, <3>3, <3>4, <3>5
  <2>2. "install_comp" \in Op /\ ToSet(layout.comps) \subseteq Thing
    BY <1>2, <1>3 DEF Op
  <2> QED
    BY <1>2, <2>1, <2>2, InstallAddsCmds
<1> DEFINE D4 == ((M \cup U) \cup S) \cup F
<1>9. InstallAdds(b, D4, MetaSet)
  <2>1. CASE layout.groups
    BY <2>1, AddsNothing DEF InstallAdds, MetaSet
  <2>2. CASE ~layout.groups
    <3> DEFINE x == layout.comps[1]
    <3>1. S \cup F = Installs
      BY DEF Installs
    <3>2. C("bootstrap", x) \notin D4 /\ C("create_cluster", x) \notin D4
      <4>1. C("bootstrap", x) \notin M \cup U /\ C("create_cluster", x) \notin M \cup U
            /\ C("bootstrap", x) \notin Installs /\ C("create_cluster", x) \notin Installs
        BY PartsApart
      <4> QED
        BY <3>1, <4>1
    <3>3. NeedsInInstall("bootstrap", x) \subseteq D4
      <4>1. NeedsInInstall("bootstrap", x) = All("install_storage", ToSet(layout.meta))
        BY DEF NeedsInInstall, NodeInstalls
      <4>2. All("install_storage", ToSet(layout.meta)) \subseteq S
        BY <2>2, <1>2, AllIs
      <4> QED
        BY <4>1, <4>2
    <3>4. NeedsInInstall("create_cluster", x) \subseteq D4 \cup All("bootstrap", {x})
      <4>1. NeedsInInstall("create_cluster", x) = All("bootstrap", {x}) \cup Installs
        BY DEF NeedsInInstall, NodeInstalls
      <4> QED
        BY <3>1, <4>1
    <3>5. C("create_cluster", x) \notin D4 \cup All("bootstrap", {x})
      BY <3>2, CommandIs
    <3>6. "bootstrap" \in Op /\ "create_cluster" \in Op /\ x \in Thing
      BY <1>3 DEF Op
    <3>7. b = Cmd("bootstrap", x) \o Cmd("create_cluster", x)
      BY <2>2
    <3>8. MetaSet = All("bootstrap", {x}) \cup All("create_cluster", {x})
      BY <2>2 DEF MetaSet
    <3> HIDE DEF x, D4, b
    <3>9. InstallAdds(Cmd("bootstrap", x), D4, All("bootstrap", {x}))
      BY <3>2, <3>3, <3>6, InstallAddsOne
    <3>10. InstallAdds(Cmd("create_cluster", x), D4 \cup All("bootstrap", {x}), All("create_cluster", {x}))
      BY <3>4, <3>5, <3>6, InstallAddsOne
    <3> QED
      BY <3>7, <3>8, <3>9, <3>10, InstallAddsBoth
  <2> QED
    BY <2>1, <2>2
<1>10. InstallAdds(g, D4 \cup MetaSet, G)
  <2>1. All("prepare", KnownHosts) \subseteq D4 \cup MetaSet
    BY <1>4
  <2> HIDE DEF D4
  <2> QED
    BY <2>1, MgrsInOrder
<1> DEFINE D6 == (D4 \cup MetaSet) \cup G
<1>11. InstallAdds(p, D6, P)
  <2>1. ASSUME NEW x \in ToSet(Proxy)
        PROVE  NeedsInInstall("start", x) \subseteq D6 /\ C("start", x) \notin D6
    <3>1. NeedsInInstall("start", x) = All("prepare", {Host[x]}) \cup All("configure", {x} \cap ClusterMgr)
      BY DEF NeedsInInstall, NodeInstalls
    <3>2. x \notin ClusterMgr /\ Host[x] \in KnownHosts /\ x \notin ToSet(layout.mgrs)
      BY <1>2, <1>3
    <3>3. {x} \cap ClusterMgr = {}
      BY <3>2
    <3>4. All("configure", {}) = {}
      BY AllIs
    <3>5. All("prepare", {Host[x]}) \subseteq M
      BY <3>2, <1>4, AllIs
    <3>6. C("start", x) \notin M \cup U /\ C("start", x) \notin Installs /\ C("start", x) \notin MetaSet
          /\ C("start", x) \notin G
      BY <3>2, PartsApart
    <3>7. S \cup F = Installs
      BY DEF Installs
    <3> QED
      BY <3>1, <3>3, <3>4, <3>5, <3>6, <3>7
  <2>2. "start" \in Op /\ ToSet(Proxy) \subseteq Thing
    BY <1>2, <1>3 DEF Op
  <2> HIDE DEF D6
  <2> QED
    BY <1>2, <2>1, <2>2, InstallAddsCmds
<1>12. ((D6 \cup P) \cup UP) = InstallSet
  <2>1. S \cup F = Installs
    BY DEF Installs
  <2>2. G = (All("configure", ToSet(layout.mgrs)) \cup All("start", ToSet(layout.mgrs))) \cup UnitsOf(ToSet(layout.mgrs))
    BY DEF MgrSet
  <2>3. All("start", ToSet(layout.mgrs)) \cup P = All("start", Daemons)
    BY AllIs DEF Daemons
  <2>4. U \cup UnitsOf(ToSet(layout.mgrs)) \cup UP = UnitsOf(Used \cap Watched)
    <3>1. CASE Watches
      <4>1. Used \cap Watched = ToSet(StorageNodes) \cup (ToSet(layout.mgrs) \cup ToSet(Proxy))
        BY <3>1, <1>2 DEF Watched, Daemons
      <4>2. \A T : UnitsOf(T) = All("enable", T)
        BY <3>1 DEF UnitsOf
      <4> QED
        BY <4>1, <4>2, AllIs
    <3>2. CASE ~Watches
      BY <3>2 DEF UnitsOf
    <3> QED
      BY <3>1, <3>2
  <2> DEFINE um == UnitsOf(ToSet(layout.mgrs))
             w  == UnitsOf(Used \cap Watched)
             k  == All("configure", ToSet(layout.mgrs))
             sm == All("start", ToSet(layout.mgrs))
             sd == All("start", Daemons)
  <2>5. InstallSet = (((M \cup w) \cup Installs) \cup MetaSet) \cup (k \cup sd)
    BY DEF InstallSet
  <2>6. /\ S \cup F = Installs /\ G = (k \cup sm) \cup um /\ sm \cup P = sd /\ (U \cup um) \cup UP = w
    BY <2>1, <2>2, <2>3, <2>4
  <2>7. ((D6 \cup P) \cup UP) = ((((((((M \cup U) \cup S) \cup F) \cup MetaSet) \cup G) \cup P) \cup UP))
    OBVIOUS
  <2> HIDE DEF M, U, S, F, P, UP, G, um, w, k, sm, sd, D6
  <2>8. ((((((((M \cup U) \cup S) \cup F) \cup MetaSet) \cup ((k \cup sm) \cup um)) \cup P) \cup UP))
          = (((M \cup ((U \cup um) \cup UP)) \cup (S \cup F)) \cup MetaSet) \cup (k \cup (sm \cup P))
    OBVIOUS
  <2> QED
    BY <2>5, <2>6, <2>7, <2>8
<1> HIDE DEF m, u, s, c, b, g, p, up, M, U, S, F, G, P, UP
<1>13. InstallAdds(m \o u, {}, M \cup U)
  <2>1. {} \cup M = M
    OBVIOUS
  <2> QED
    BY <1>5, <1>6, <2>1, InstallAddsBoth
<1>14. \A D : {} \cup D = D
  OBVIOUS
<1>15. InstallAdds((m \o u) \o s, {}, (M \cup U) \cup S)
  BY <1>7, <1>13, <1>14, InstallAddsBoth
<1>16. InstallAdds(((m \o u) \o s) \o c, {}, D4)
  BY <1>8, <1>15, <1>14, InstallAddsBoth
<1> HIDE DEF D4
<1>17. InstallAdds((((m \o u) \o s) \o c) \o b, {}, D4 \cup MetaSet)
  BY <1>9, <1>16, <1>14, InstallAddsBoth
<1>18. InstallAdds(((((m \o u) \o s) \o c) \o b) \o g, {}, D6)
  BY <1>10, <1>17, <1>14, InstallAddsBoth
<1> HIDE DEF D6
<1>19. InstallAdds((((((m \o u) \o s) \o c) \o b) \o g) \o p, {}, D6 \cup P)
  BY <1>11, <1>18, <1>14, InstallAddsBoth
<1>20. InstallAdds(((((((m \o u) \o s) \o c) \o b) \o g) \o p) \o up, {}, (D6 \cup P) \cup UP)
  BY <1>6, <1>19, <1>14, InstallAddsBoth
<1> QED
  BY <1>1, <1>12, <1>20

ScriptSet(a) ==
    CASE a = "install" -> InstallSet
      [] a \in {"start", "stop"} -> All(a, Used)
      [] OTHER         -> CleanSet

\* The commands that the script has passed.
Did == Before(Commands(action), pc)
Pending == pc \in DOMAIN Commands(action)
Current == Commands(action)[pc]
Passed(op) == {x \in Thing : C(op, x) \in Did}

InScript == action # "none" => ValidConfig /\ pc \in 1..(Len(Commands(action)) + 1)

\* The commands of each script, as a set.
LEMMA ScriptsAre ==
    ASSUME TypeOK, ValidConfig
    PROVE  \A a \in Scripts :
       LET s == Commands(a) IN
       /\ Len(s) \in Nat /\ Before(s, Len(s) + 1) = ScriptSet(a)
       /\ DOMAIN s = 1..Len(s)
       /\ \A k \in 1..Len(s) : s[k] \in ScriptSet(a)
       /\ \A k \in 1..(Len(s) + 1) : Before(s, k) \subseteq ScriptSet(a)
       /\ ScriptSet(a) \subseteq Command
<1>1. Commands("install") = InstallScript /\ Commands("start") = StartScript
      /\ Commands("stop") = StopScript /\ Commands("clean") = CleanScript
  BY DEF Commands
<1>2. ScriptSet("install") = InstallSet /\ ScriptSet("start") = All("start", Used)
      /\ ScriptSet("stop") = All("stop", Used) /\ ScriptSet("clean") = CleanSet
  BY DEF ScriptSet
<1>3. DOMAIN InstallNeeds = Command /\ DOMAIN UseNeeds = Command
  BY DEF InstallNeeds, UseNeeds
<1>4. Adds(InstallScript, {}, InstallSet, InstallNeeds, InstallOnce)
  BY InstallInOrder DEF InstallAdds
<1>5. /\ Adds(StartScript, {}, All("start", Used), UseNeeds, {})
      /\ Adds(StopScript, {}, All("stop", Used), UseNeeds, {})
      /\ Adds(CleanScript, {}, CleanSet, UseNeeds, {})
  BY StartInOrder, StopInOrder, CleanInOrder DEF UseAdds
<1>6. ASSUME NEW a \in Scripts
      PROVE  Adds(Commands(a), {}, ScriptSet(a), InstallNeeds, InstallOnce)
             \/ Adds(Commands(a), {}, ScriptSet(a), UseNeeds, {})
  BY <1>1, <1>2, <1>4, <1>5 DEF Scripts
<1> SUFFICES ASSUME NEW a \in Scripts
             PROVE LET s == Commands(a) IN
       /\ Len(s) \in Nat /\ Before(s, Len(s) + 1) = ScriptSet(a)
       /\ DOMAIN s = 1..Len(s)
       /\ \A k \in 1..Len(s) : s[k] \in ScriptSet(a)
       /\ \A k \in 1..(Len(s) + 1) : Before(s, k) \subseteq ScriptSet(a)
       /\ ScriptSet(a) \subseteq Command
  OBVIOUS
<1>7. Commands(a) \in Seq(Command)
  BY <1>3, <1>6 DEF Adds
<1>8. DOMAIN Commands(a) = 1..Len(Commands(a))
  BY <1>7
<1>9. CASE Adds(Commands(a), {}, ScriptSet(a), InstallNeeds, InstallOnce)
  BY <1>3, <1>8, <1>9, AddsInOrder
<1>10. CASE Adds(Commands(a), {}, ScriptSet(a), UseNeeds, {})
  BY <1>3, <1>8, <1>10, AddsInOrder
<1> QED
  BY <1>6, <1>9, <1>10

\* What goes with the configuration and the type of the script.
LEMMA ConfigIsFixed ==
    ASSUME UNCHANGED layout
    PROVE  /\ UNCHANGED <<Groups, DataNodes, StorageNodes, Nodes, Proxy, Primaries, KnownHosts, Machines>>
           /\ UNCHANGED <<Used, Daemons, Watches, Watched, Installs>>
           /\ ValidConfig => ValidConfig'
           /\ \A s, m : ValidShard(s, m)' = ValidShard(s, m)
<1>1. UNCHANGED <<Groups, DataNodes, StorageNodes, Proxy, Nodes>>
  BY DEF Groups, StorageNodes, DataNodes, Proxy, Nodes
<1>2. UNCHANGED <<KnownHosts, Primaries>>
  BY <1>1 DEF KnownHosts, Primaries
<1>3. UNCHANGED Machines
  BY <1>2 DEF Machines
<1>4. UNCHANGED <<Used, Daemons, Watches>>
  BY <1>1 DEF Used, Daemons, Watches
<1>5. UNCHANGED <<Watched, Installs>>
  BY <1>1, <1>4 DEF Watched, Installs
<1>6. \A s, m : ValidShard(s, m)' = ValidShard(s, m)
  BY DEF ValidShard
<1>7. UNCHANGED MetaMode
  BY DEF MetaMode
<1>8. \A s : ShardMode(s)' = ShardMode(s)
  BY <1>7 DEF ShardMode
<1>9. UNCHANGED ValidMgrs
  BY DEF ValidMgrs
<1>10. ValidConfig => ValidConfig'
  BY <1>1, <1>6, <1>7, <1>8, <1>9 DEF ValidConfig
<1> QED
  BY <1>1, <1>2, <1>3, <1>4, <1>5, <1>6, <1>10

LEMMA ScriptIsFixed ==
    ASSUME UNCHANGED <<layout, full>>, NEW a
    PROVE  Commands(a)' = Commands(a)
<1>1. UNCHANGED InstallScript
  BY InstallIsFixed
<1>2. UNCHANGED <<DataNodes, StorageNodes, Nodes, Proxy, Machines>>
  BY ConfigIsFixed
<1>3. UNCHANGED StartScript
  BY <1>2 DEF StartScript, Cmds
<1>4. UNCHANGED StopScript
  BY <1>2 DEF StopScript, Cmds
<1>5. UNCHANGED EnvCommands
  BY <1>2 DEF EnvCommands, Cmds
<1>6. \A s : NoUnits(s)' = NoUnits(s)
  BY DEF NoUnits, Cmds
<1>7. \A s : RemoveNodes(s)' = RemoveNodes(s)
  BY <1>6 DEF RemoveNodes, RemoveNode, Cmd
<1>8. UNCHANGED NoenvCommands
  BY <1>2, <1>6, <1>7 DEF NoenvCommands, Cmds
<1>9. UNCHANGED CleanScript
  BY <1>5, <1>8 DEF CleanScript
<1> QED
  BY <1>1, <1>3, <1>4, <1>9 DEF Commands

\* install.sh: what a command needs, and what those before it needed, is done.
LEMMA InstallDid ==
    ASSUME TypeOK, InScript, action = "install"
    PROVE  /\ Did \subseteq InstallSet /\ \A c \in Did : InstallNeeds[c] \subseteq Did
           /\ Pending => InPlace(Current, Did, InstallNeeds, InstallOnce)
<1>0. ValidConfig
  BY DEF InScript
<1>1. Adds(InstallScript, {}, InstallSet, InstallNeeds, InstallOnce)
  BY <1>0, InstallInOrder DEF InstallAdds
<1>2. Commands(action) = InstallScript
  BY DEF Commands
<1>3. Pending => pc \in 1..Len(InstallScript)
  BY <1>1, <1>2, AddsInOrder DEF Pending, Adds
<1> QED
  BY <1>1, <1>2, <1>3, AddsInOrder DEF Did, Current, InScript

\* start.sh, stop.sh and clean.sh: what a command needs was passed.
LEMMA UseDid ==
    ASSUME TypeOK, InScript, action \in {"start", "stop", "clean"}
    PROVE  /\ \A c \in Did : UseNeeds[c] \subseteq Did
           /\ Pending => InPlace(Current, Did, UseNeeds, {})
<1>1. Adds(Commands(action), {}, ScriptSet(action), UseNeeds, {})
  BY StartInOrder, StopInOrder, CleanInOrder DEF UseAdds, Commands, ScriptSet
<1>2. Pending => pc \in 1..Len(Commands(action))
  BY <1>1 DEF Pending, Adds
<1> QED
  BY <1>1, <1>2, AddsInOrder DEF Did, Current, InScript

\* The commands passed and the next one belong to the script.
LEMMA DidIs ==
    ASSUME TypeOK, InScript, action # "none"
    PROVE  /\ Did \subseteq ScriptSet(action) /\ ScriptSet(action) \subseteq Command
           /\ Pending => Current \in ScriptSet(action) /\ Current \in Command
           /\ ~Pending => Did = ScriptSet(action) /\ pc > Len(Commands(action))
           /\ Pending => pc + 1 \in 1..(Len(Commands(action)) + 1) /\ ~(pc > Len(Commands(action)))
           /\ Upcoming = IF Pending THEN {Current} ELSE {}
<1>1. action \in Scripts /\ ValidConfig
  BY DEF TypeOK, InScript
<1>2. Len(Commands(action)) \in Nat /\ DOMAIN Commands(action) = 1..Len(Commands(action))
  BY <1>1, ScriptsAre
<1>3. Pending => pc \in 1..Len(Commands(action)) 
  BY <1>2 DEF Pending
<1>4. ~Pending => pc = Len(Commands(action)) + 1
  BY <1>2 DEF Pending, InScript
<1>5. Upcoming = IF Pending THEN {Current} ELSE {}
  BY DEF Upcoming, Pending, Current
<1> QED
  BY <1>1, <1>2, <1>3, <1>4, <1>5, ScriptsAre DEF Did, Current, InScript

LEMMA PendingIs == ASSUME TypeOK, Pending PROVE action # "none"
  BY DEF Pending, Commands, Scripts

\* One more command is done.
LEMMA OneMore ==
    ASSUME TypeOK, UNCHANGED <<layout, full, action>>, pc' = pc + 1
    PROVE  Did' = Did \cup {Current}
<1>1. ASSUME NEW s, NEW k \in Nat \ {0} PROVE Before(s, k + 1) = Before(s, k) \cup {s[k]}
  <2>1. 1..((k + 1) - 1) = 1..(k - 1) \cup {k}
    OBVIOUS
  <2> QED
    BY <2>1 DEF Before
<1>2. Commands(action)' = Commands(action)
  BY ScriptIsFixed
<1>3. Did' = Before(Commands(action), pc + 1)
  BY <1>2 DEF Did
<1>4. pc \in Nat \ {0}
  BY DEF TypeOK
<1> QED
  BY <1>1, <1>3, <1>4 DEF Did, Current

\* A script that begins has passed nothing.
LEMMA NoneYet == ASSUME pc' = 1 PROVE Did' = {}
  BY DEF Did, Before

\* What a command does to machines and processes.
Effect(op, x) ==
    /\ packages' = CASE op = "unpack" -> packages \cup {x} [] op = "rm_base" -> packages \ {x}
                     [] OTHER -> packages
    /\ prepared' = CASE op = "prepare" -> prepared \cup {x} [] op = "rm_base" -> prepared \ {x}
                     [] OTHER -> prepared
    /\ listed' = CASE op \in NodeInstalls -> listed \cup {x}
                   [] op \in {"empty_list", "rm_base"} -> listed \ On(x)
                   [] OTHER -> listed
    /\ configured' = CASE op = "configure" -> configured \cup {x}
                       [] op = "rm_base" -> configured \ On(x)
                       [] OTHER -> configured
    /\ data' = CASE op \in NodeInstalls -> data \cup {x} [] op = "rm" -> data \ {x} [] OTHER -> data
    /\ op = "bootstrap" => sysTables' /\ made' = made
    /\ op = "create_cluster" => made' /\ sysTables' = sysTables
    /\ op = "rm" => LoseMeta
    /\ op \notin {"bootstrap", "create_cluster", "rm"} => sysTables' = sysTables /\ made' = made
    /\ enabled' = CASE op = "enable" -> enabled \cup {x} [] op = "disable" -> enabled \ {x}
                    [] OTHER -> enabled
    /\ running' = CASE op \in NodeInstalls \cup {"start"} -> running \cup {x}
                    [] op = "stop" /\ ~(x = Haproxy /\ x \in active) -> running \ {x}
                    [] op = "systemctl_stop" -> running \ (active \cap {x})
                    [] OTHER -> running
    /\ active' = CASE op = "stop" /\ ~(x = Haproxy /\ x \in active) -> active \ {x}
                   [] op = "systemctl_stop" -> active \ {x}
                   [] OTHER -> active

\* The script goes on to its next command.
Moves ==
    /\ Pending /\ pc' = pc + 1 /\ UNCHANGED <<layout, action, full, base>>
\* The command runs.
Runs(op, x) ==
    /\ Moves /\ Current = C(op, x) /\ CanRun(Current) /\ Effect(op, x)
    /\ UNCHANGED <<intact, rebooted, faults, reboots, runs>>
\* A command that has no effect.
Skips ==
    /\ Moves /\ ~CanRun(Current) /\ ~AbortsOnError
    /\ UNCHANGED <<intact, rebooted, files, meta, procs>>
\* What a command that failed by itself may leave.
Leaves ==
    /\ Pending /\ action' \in {action, "none"}
    /\ intact' = FALSE /\ data \subseteq data'
    /\ data' # data => Current.op \in NodeInstalls /\ data' \subseteq data \cup ({Current.on} \cap Node)
    /\ UNCHANGED <<layout, full, base, rebooted, packages, prepared, listed, configured, enabled, meta, procs>>
Faulty == Moves /\ Leaves /\ ~AbortsOnError
\* The script ends.
Ends ==
    /\ action # "none" /\ action' = "none"
    /\ UNCHANGED <<layout, full, base, rebooted, packages, prepared, listed, configured, enabled, meta, procs>>
    /\ \/ UNCHANGED <<intact, data>> /\ ~Pending
       \/ UNCHANGED <<intact, data>> /\ Pending /\ AbortsOnError /\ ~CanRun(Current)
       \/ Leaves
       \/ intact' = FALSE /\ data' = data
\* Nothing happens to the script that runs, or to the machines.
Rests ==
    UNCHANGED <<layout, action, pc, full, intact, rebooted, base, files, meta, procs>>
Reboots == \E m \in Machine : Reboot(m)
Issues == \E a \in Scripts : Issue(a)

\* The command that an action is for.
LEMMA CurrentIs ==
    ASSUME TypeOK, InScript, NEW a, NEW op, NEW x, In(a, op, x)
    PROVE  /\ Moves /\ Current = C(op, x) /\ CanRun(Current) /\ action \in a
           /\ UNCHANGED <<intact, rebooted, faults, reboots, runs>>
<1>1. action # "none" /\ Upcoming # {}
  BY DEF In, Upcoming, Commands, Scripts, TypeOK
<1>2. Pending /\ Upcoming = {Current} /\ Current \in Command
  BY <1>1, DidIs
<1>3. Current = C(op, x) /\ CanRun(Current)
  BY <1>2, CommandIs DEF In
<1> QED
  BY <1>2, <1>3 DEF In, Moves

\* Every step is a command of the script that runs, or begins or ends a script, or
\* is the restart of a machine, or nothing of all this.
LEMMA ScriptSteps ==
    ASSUME TypeOK, InScript, [Next]_vars
    PROVE  \/ Issues \/ Skips \/ Faulty \/ Ends \/ Rests \/ Reboots
           \/ \E op \in Op, x \in Thing : Runs(op, x)
<1> DEFINE Ran == \E op \in Op, x \in Thing : Runs(op, x)
<1>1. ASSUME NEW op \in Op, NEW a, NEW x, In(a, op, x), Effect(op, x) PROVE Ran
  <2>1. Runs(op, x)
    BY <1>1, CurrentIs DEF Runs
  <2>2. Pending /\ Current = C(op, x)
    BY <1>1, CurrentIs DEF Moves
  <2>3. x \in Thing
    BY <2>2, PendingIs, DidIs, CommandIs
  <2> HIDE DEF Runs
  <2> QED
    BY <2>1, <2>3
<1>2. ASSUME NEW m \in Machine, OnMachine(m) PROVE Ran
  <2>1. CASE Unpack(m)
    BY <1>1, <2>1 DEF Unpack, Effect, Op, NodeInstalls, meta, procs
  <2>2. CASE Prepare(m)
    BY <1>1, <2>2 DEF Prepare, Effect, Op, NodeInstalls, meta, procs
  <2>3. CASE EmptyList(m)
    BY <1>1, <2>3 DEF EmptyList, Effect, Op, NodeInstalls, meta, procs
  <2>4. CASE RemoveBase(m)
    BY <1>1, <2>4 DEF RemoveBase, Effect, Op, NodeInstalls, meta, procs
  <2> QED
    BY <1>2, <2>1, <2>2, <2>3, <2>4 DEF OnMachine
<1>3. ASSUME NEW n \in Proc, OnProc(n) PROVE Ran
  <2>1. CASE InstallNode(n)
    <3>1. Effect("install_storage", n) /\ Effect("install_comp", n)
      BY <2>1 DEF InstallNode, Effect, NodeInstalls, meta
    <3> QED
      BY <1>1, <2>1, <3>1 DEF InstallNode, Op
  <2>2. CASE Bootstrap(n)
    <3>1. Effect("bootstrap", n)
      BY <2>2 DEF Bootstrap, Effect, NodeInstalls, files, procs
    <3> QED
      BY <1>1, <2>2, <3>1 DEF Bootstrap, Op
  <2>3. CASE CreateCluster(n)
    <3>1. Effect("create_cluster", n)
      BY <2>3 DEF CreateCluster, Effect, NodeInstalls, files, procs
    <3> QED
      BY <1>1, <2>3, <3>1 DEF CreateCluster, Op
  <2>4. CASE Configure(n)
    <3>1. Effect("configure", n)
      BY <2>4 DEF Configure, Effect, NodeInstalls, meta, procs
    <3> QED
      BY <1>1, <2>4, <3>1 DEF Configure, Op
  <2>5. CASE Enable(n)
    <3>1. Effect("enable", n)
      BY <2>5 DEF Enable, Effect, NodeInstalls, meta, procs
    <3> QED
      BY <1>1, <2>5, <3>1 DEF Enable, Op
  <2>6. CASE Start(n)
    <3>1. Effect("start", n)
      BY <2>6 DEF Start, Effect, NodeInstalls, files, meta
    <3> QED
      BY <1>1, <2>6, <3>1 DEF Start, Op
  <2>7. CASE Stop(n)
    <3>1. Effect("stop", n)
      BY <2>7 DEF Stop, Effect, NodeInstalls, files, meta, procs
    <3> QED
      BY <1>1, <2>7, <3>1 DEF Stop, Op
  <2>8. CASE SystemctlStop(n)
    <3>1. Effect("systemctl_stop", n)
      BY <2>8 DEF SystemctlStop, Effect, NodeInstalls, files, meta
    <3> QED
      BY <1>1, <2>8, <3>1 DEF SystemctlStop, Op
  <2>9. CASE Disable(n)
    <3>1. Effect("disable", n)
      BY <2>9 DEF Disable, Effect, NodeInstalls, meta, procs
    <3> QED
      BY <1>1, <2>9, <3>1 DEF Disable, Op
  <2>10. CASE RemoveData(n)
    <3>1. Effect("rm", n)
      BY <2>10 DEF RemoveData, Effect, NodeInstalls, procs
    <3> QED
      BY <1>1, <2>10, <3>1 DEF RemoveData, Op
  <2> QED
    BY <1>3, <2>1, <2>2, <2>3, <2>4, <2>5, <2>6, <2>7, <2>8, <2>9, <2>10 DEF OnProc
<1>4. (\E cmd \in Upcoming : TRUE) => /\ action # "none" /\ Pending /\ Upcoming = {Current}
  <2>1. (\E cmd \in Upcoming : TRUE) => action # "none"
    BY DEF Upcoming, Commands, Scripts
  <2> QED
    BY <2>1, DidIs
<1>5. CASE CommandFails
  <2>1. Pending /\ ~CanRun(Current) /\ action # "none" /\ AfterError
        /\ UNCHANGED <<layout, full, intact, rebooted, base, files, meta, procs>>
    BY <1>4, <1>5 DEF CommandFails
  <2>2. CASE AbortsOnError
    <3>1. Ends
      BY <2>1, <2>2 DEF Ends, AfterError, files
    <3> QED
      BY <3>1
  <2>3. CASE ~AbortsOnError
    <3>1. Skips
      BY <2>1, <2>3 DEF Skips, AfterError, Moves
    <3> QED
      BY <3>1
  <2> QED
    BY <2>2, <2>3
<1>6. CASE Finish
  <2>1. ~Pending
    BY <1>6, DidIs DEF Finish
  <2>2. Ends
    BY <1>6, <2>1 DEF Finish, Ends, files
  <2> QED
    BY <2>2
<1>7. CASE CommandFaults
  <2>1. PICK cmd \in Upcoming :
           \E left \in SUBSET {n \in Node : cmd.on = n /\ cmd.op \in NodeInstalls} : data' = data \cup left
    BY <1>7 DEF CommandFaults
  <2>2. Pending /\ cmd = Current /\ action # "none"
    BY <1>4, <2>1
  <2>3. PICK left \in SUBSET {n \in Node : Current.on = n /\ Current.op \in NodeInstalls} : data' = data \cup left
    BY <2>1, <2>2
  <2>4. /\ data \subseteq data'
        /\ data' # data => Current.op \in NodeInstalls /\ data' \subseteq data \cup ({Current.on} \cap Node)
    BY <2>3
  <2>5. Leaves /\ AfterError
    BY <1>7, <2>2, <2>4 DEF CommandFaults, Leaves, AfterError
  <2>6. CASE AbortsOnError
    <3>1. Ends
      BY <2>2, <2>5, <2>6 DEF Ends, Leaves, AfterError
    <3> QED
      BY <3>1
  <2>7. CASE ~AbortsOnError
    <3>1. Moves
      BY <2>2, <2>5, <2>7 DEF Moves, Leaves, AfterError
    <3> QED
      BY <2>5, <2>7, <3>1 DEF Faulty
  <2> QED
    BY <2>6, <2>7
<1>8. CASE Interrupt
  <2>1. Ends
    BY <1>8 DEF Interrupt, Ends, files
  <2> QED
    BY <2>1
<1>9. CASE Refuse \/ UNCHANGED vars
  <2>1. Rests
    BY <1>9 DEF Refuse, Rests, vars, script
  <2> QED
    BY <2>1
<1>10. Next => Run \/ CommandFaults \/ Interrupt \/ Refuse \/ Issues \/ Reboots
  BY DEF Next, Issues, Reboots
<1>11. Run => (\E m \in Machine : OnMachine(m)) \/ (\E n \in Proc : OnProc(n)) \/ CommandFails \/ Finish
  BY DEF Run
<1> QED
  BY <1>2, <1>3, <1>5, <1>6, <1>7, <1>8, <1>9, <1>10, <1>11

LEMMA LengthIs == TypeOK /\ ValidConfig => \A a \in Scripts : Len(Commands(a)) \in Nat
  BY ScriptsAre
LEMMA LengthNext == (TypeOK /\ ValidConfig => \A a \in Scripts : Len(Commands(a)) \in Nat)'
  BY LengthIs, PTL

\* The script stays within its commands.
LEMMA ScriptPosition == ASSUME TypeOK, TypeOK', InScript, [Next]_vars PROVE InScript'
<1>1. ASSUME NEW a \in Scripts, Issue(a) PROVE InScript'
  <2>1. action' = a /\ pc' = 1 /\ UNCHANGED layout /\ ValidConfig
    BY <1>1 DEF Issue
  <2>2. ValidConfig'
    BY <2>1, ConfigIsFixed
  <2>3. Len(Commands(action))' \in Nat
    BY <2>1, <2>2, LengthNext
  <2> QED
    BY <2>1, <2>2, <2>3 DEF InScript
<1>2. CASE Moves
  <2>1. action # "none" /\ action' = action /\ pc' = pc + 1 /\ Pending /\ UNCHANGED <<layout, full>>
    BY <1>2, PendingIs DEF Moves
  <2>2. pc + 1 \in 1..(Len(Commands(action)) + 1) /\ ValidConfig
    BY <2>1, DidIs DEF InScript
  <2>3. Commands(action)' = Commands(action) /\ ValidConfig'
    BY <2>1, <2>2, ConfigIsFixed, ScriptIsFixed
  <2> QED
    BY <2>1, <2>2, <2>3 DEF InScript
<1>3. CASE Ends
  BY <1>3 DEF Ends, InScript
<1>4. ASSUME UNCHANGED <<layout, full, action, pc>> PROVE InScript'
  <2>1. Commands(action)' = Commands(action) /\ (ValidConfig => ValidConfig')
    BY <1>4, ConfigIsFixed, ScriptIsFixed
  <2> QED
    BY <1>4, <2>1 DEF InScript
<1>5. CASE Rests \/ Reboots
  BY <1>4, <1>5 DEF Rests, Reboots, Reboot
<1> QED
  BY <1>1, <1>2, <1>3, <1>5, ScriptSteps DEF Skips, Faulty, Runs, Issues

\* How a step changes what was passed.
LEMMA PassedSteps ==
    ASSUME TypeOK, InScript
    PROVE  /\ Moves => \E o \in Op, x \in Thing :
                 /\ Current = C(o, x) /\ Passed(o)' = Passed(o) \cup {x}
                 /\ \A p : p # o => Passed(p)' = Passed(p)
           /\ Rests \/ Reboots => \A p : Passed(p)' = Passed(p)
           /\ Issues => \A p : Passed(p)' = {}
           /\ action # "none" => \A p, x : C(p, x) \in Did <=> x \in Passed(p)
<1>0. ASSUME UNCHANGED layout PROVE Thing' = Thing
  BY DEF Thing
<1>1. ASSUME Moves
      PROVE  \E o \in Op, x \in Thing :
                 /\ Current = C(o, x) /\ Passed(o)' = Passed(o) \cup {x}
                 /\ \A p : p # o => Passed(p)' = Passed(p)
  <2>1. Did' = Did \cup {Current}
    BY <1>1, OneMore DEF Moves
  <2>2. Current \in Command
    BY <1>1, DidIs, PendingIs DEF Moves
  <2>3. PICK o \in Op, x \in Thing : Current = C(o, x)
    BY <2>2, CommandIs
  <2>4. \A p, y : C(p, y) \in Did' <=> C(p, y) \in Did \/ (p = o /\ y = x)
    BY <2>1, <2>3, CommandIs
  <2>5. Passed(o)' = Passed(o) \cup {x} /\ \A p : p # o => Passed(p)' = Passed(p)
    BY <2>4, <1>0, <1>1 DEF Passed, Moves
  <2> QED
    BY <2>3, <2>5
<1>2. ASSUME Rests \/ Reboots PROVE \A p : Passed(p)' = Passed(p)
  <2>1. UNCHANGED <<layout, full, action, pc>>
    BY <1>2 DEF Rests, Reboots, Reboot
  <2>2. Did' = Did
    BY <2>1, ScriptIsFixed DEF Did
  <2> QED
    BY <1>0, <2>1, <2>2 DEF Passed
<1>3. Issues => \A p : Passed(p)' = {}
  BY NoneYet DEF Issues, Issue, Passed
<1>4. ASSUME action # "none", NEW p, NEW x PROVE C(p, x) \in Did <=> x \in Passed(p)
  <2>1. Did \subseteq Command
    BY <1>4, DidIs
  <2> QED
    BY <2>1, CommandIs DEF Passed
<1> QED
  BY <1>1, <1>2, <1>3, <1>4

\* Which commands the scripts have for whom.
LEMMA SetsAre ==
    /\ \A op, x : C(op, x) \in InstallSet <=>
          \/ op = "unpack" /\ full /\ x \in KnownHosts
          \/ op \in {"prepare", "empty_list"} /\ x \in KnownHosts
          \/ op = "enable" /\ x \in Used \cap Watched /\ Watches
          \/ op = "install_storage" /\ x \in ToSet(StorageNodes)
          \/ op = "install_comp" /\ x \in ToSet(layout.comps)
          \/ op \in {"bootstrap", "create_cluster"} /\ ~layout.groups /\ x = layout.comps[1]
          \/ op = "configure" /\ x \in ToSet(layout.mgrs)
          \/ op = "start" /\ x \in Daemons
    /\ \A op, x : C(op, x) \in CleanSet <=>
          \/ op = "stop" /\ x \in Used
          \/ op = "rm" /\ x \in ToSet(Nodes)
          \/ op \in {"systemctl_stop", "disable"} /\ Watches /\ x \in Used
          \/ op = "rm_base" /\ full /\ x \in KnownHosts
<1>1. ASSUME NEW op, NEW x
      PROVE C(op, x) \in InstallSet <=>
          \/ op = "unpack" /\ full /\ x \in KnownHosts
          \/ op \in {"prepare", "empty_list"} /\ x \in KnownHosts
          \/ op = "enable" /\ x \in Used \cap Watched /\ Watches
          \/ op = "install_storage" /\ x \in ToSet(StorageNodes)
          \/ op = "install_comp" /\ x \in ToSet(layout.comps)
          \/ op \in {"bootstrap", "create_cluster"} /\ ~layout.groups /\ x = layout.comps[1]
          \/ op = "configure" /\ x \in ToSet(layout.mgrs)
          \/ op = "start" /\ x \in Daemons
  <2>1. C(op, x) \in MachineSet(KnownHosts) <=>
          \/ op = "unpack" /\ full /\ x \in KnownHosts
          \/ op \in {"prepare", "empty_list"} /\ x \in KnownHosts
    BY CommandIs DEF MachineSet
  <2>2. C(op, x) \in UnitsOf(Used \cap Watched) <=> op = "enable" /\ x \in Used \cap Watched /\ Watches
    BY CommandIs DEF UnitsOf
  <2>3. C(op, x) \in Installs <=> \/ op = "install_storage" /\ x \in ToSet(StorageNodes)
                                  \/ op = "install_comp" /\ x \in ToSet(layout.comps)
    BY CommandIs DEF Installs
  <2>4. C(op, x) \in MetaSet <=> op \in {"bootstrap", "create_cluster"} /\ ~layout.groups /\ x = layout.comps[1]
    BY CommandIs DEF MetaSet
  <2>5. /\ C(op, x) \in All("configure", ToSet(layout.mgrs)) <=> op = "configure" /\ x \in ToSet(layout.mgrs)
        /\ C(op, x) \in All("start", Daemons) <=> op = "start" /\ x \in Daemons
    BY CommandIs
  <2> QED
    BY <2>1, <2>2, <2>3, <2>4, <2>5 DEF InstallSet
<1>2. ASSUME NEW op, NEW x
      PROVE C(op, x) \in CleanSet <=>
          \/ op = "stop" /\ x \in Used
          \/ op = "rm" /\ x \in ToSet(Nodes)
          \/ op \in {"systemctl_stop", "disable"} /\ Watches /\ x \in Used
          \/ op = "rm_base" /\ full /\ x \in KnownHosts
  BY CommandIs DEF CleanSet, UnitsGone
<1> QED
  BY <1>1, <1>2

\* The next command of a script.
Belongs(op, x) ==
    /\ action \in {"start", "stop"} => op = action /\ x \in Used
    /\ action = "clean" =>
          \/ op = "stop" /\ x \in Used
          \/ op = "rm" /\ x \in ToSet(Nodes)
          \/ op \in {"systemctl_stop", "disable"} /\ Watches /\ x \in Used
          \/ op = "rm_base" /\ full /\ x \in KnownHosts
    /\ action = "install" =>
          \/ op = "unpack" /\ full /\ x \in KnownHosts
          \/ op \in {"prepare", "empty_list"} /\ x \in KnownHosts
          \/ op = "enable" /\ x \in Used \cap Watched /\ Watches
          \/ op = "install_storage" /\ x \in ToSet(StorageNodes)
          \/ op = "install_comp" /\ x \in ToSet(layout.comps)
          \/ op \in {"bootstrap", "create_cluster"} /\ ~layout.groups /\ x = layout.comps[1]
          \/ op = "configure" /\ x \in ToSet(layout.mgrs)
          \/ op = "start" /\ x \in Daemons
LEMMA CurrentBelongs ==
    ASSUME TypeOK, InScript, Pending, NEW op, NEW x, Current = C(op, x)
    PROVE  Belongs(op, x) /\ action \in Scripts
<1>1. action \in Scripts /\ C(op, x) \in ScriptSet(action)
  BY PendingIs, DidIs DEF TypeOK
<1>2. action \in {"start", "stop"} => op = action /\ x \in Used
  BY <1>1, CommandIs DEF ScriptSet
<1>3. action = "clean" => C(op, x) \in CleanSet
  BY <1>1 DEF ScriptSet
<1>4. action = "install" => C(op, x) \in InstallSet
  BY <1>1 DEF ScriptSet
<1> QED
  BY <1>1, <1>2, <1>3, <1>4, SetsAre DEF Belongs

\* What was passed of a script that came to its end.
LEMMA AllPassed ==
    ASSUME TypeOK, InScript, action # "none", ~Pending
    PROVE  /\ action \in {"start", "stop"} => Passed(action) = Used
           /\ action = "clean" => /\ Passed("stop") = Used /\ Passed("rm") = ToSet(Nodes)
                                  /\ Watches => Passed("systemctl_stop") = Used /\ Passed("disable") = Used
           /\ action = "install" =>
                /\ Passed("install_storage") = ToSet(StorageNodes)
                /\ Passed("install_comp") = ToSet(layout.comps) /\ Passed("start") = Daemons
                /\ ~layout.groups => Passed("bootstrap") # {} /\ Passed("create_cluster") # {}
<1>1. Did = ScriptSet(action)
  BY DidIs
<1>2. \A op, x : C(op, x) \in ScriptSet(action) <=> x \in Passed(op)
  BY <1>1, PassedSteps
<1>3. action \in {"start", "stop"} => Passed(action) = Used
  <2> SUFFICES ASSUME action \in {"start", "stop"} PROVE Passed(action) = Used
    OBVIOUS
  <2>1. \A x : C(action, x) \in ScriptSet(action) <=> x \in Used
    BY CommandIs DEF ScriptSet
  <2> QED
    BY <1>2, <2>1
<1>4. action = "clean" => /\ Passed("stop") = Used /\ Passed("rm") = ToSet(Nodes)
                          /\ Watches => Passed("systemctl_stop") = Used /\ Passed("disable") = Used
  <2> SUFFICES ASSUME action = "clean"
               PROVE  /\ Passed("stop") = Used /\ Passed("rm") = ToSet(Nodes)
                      /\ Watches => Passed("systemctl_stop") = Used /\ Passed("disable") = Used
    OBVIOUS
  <2>1. ScriptSet(action) = CleanSet
    BY DEF ScriptSet
  <2>2. \A op, x : C(op, x) \in CleanSet <=> x \in Passed(op)
    BY <1>2, <2>1
  <2>3. /\ \A x : x \in Passed("stop") <=> x \in Used
        /\ \A x : x \in Passed("rm") <=> x \in ToSet(Nodes)
        /\ Watches => \A x : x \in Passed("systemctl_stop") <=> x \in Used
        /\ Watches => \A x : x \in Passed("disable") <=> x \in Used
    BY <2>2, SetsAre
  <2> QED
    BY <2>3, Zenon
<1>5. action = "install" =>
                /\ Passed("install_storage") = ToSet(StorageNodes)
                /\ Passed("install_comp") = ToSet(layout.comps) /\ Passed("start") = Daemons
                /\ ~layout.groups => Passed("bootstrap") # {} /\ Passed("create_cluster") # {}
  <2> SUFFICES ASSUME action = "install"
               PROVE  /\ Passed("install_storage") = ToSet(StorageNodes)
                      /\ Passed("install_comp") = ToSet(layout.comps) /\ Passed("start") = Daemons
                      /\ ~layout.groups => Passed("bootstrap") # {} /\ Passed("create_cluster") # {}
    OBVIOUS
  <2>1. ScriptSet(action) = InstallSet
    BY DEF ScriptSet
  <2>2. \A op, x : C(op, x) \in InstallSet <=> x \in Passed(op)
    BY <1>2, <2>1
  <2>3. /\ \A x : x \in Passed("install_storage") <=> x \in ToSet(StorageNodes)
        /\ \A x : x \in Passed("install_comp") <=> x \in ToSet(layout.comps)
        /\ \A x : x \in Passed("start") <=> x \in Daemons
        /\ ~layout.groups => layout.comps[1] \in Passed("bootstrap") /\ layout.comps[1] \in Passed("create_cluster")
    BY <2>2, SetsAre
  <2> QED
    BY <2>3, Zenon
<1> QED
  BY <1>3, <1>4, <1>5

-----------------------------------------------------------------------------
(* clean.sh and what restarts meanwhile. *)

\* Only what is configured is there.
Within ==
    /\ data \subseteq ToSet(Nodes) /\ running \subseteq Used
    /\ enabled \subseteq Watched /\ active \subseteq Watched /\ configured \subseteq ToSet(layout.mgrs)

LEMMA WithinStep == ASSUME TypeOK, InScript, Within, [Next]_vars PROVE Within'
<1>0. UNCHANGED layout => UNCHANGED <<Nodes, Used, Watched>>
  BY ConfigIsFixed
<1>1. ASSUME UNCHANGED <<layout, files, procs>> PROVE Within'
  BY <1>0, <1>1 DEF Within, files, procs
<1>2. CASE Issues
  BY <1>1, <1>2 DEF Issues, Issue
<1>3. CASE Skips
  BY <1>1, <1>3 DEF Skips, Moves
<1>4. CASE Rests
  BY <1>1, <1>4 DEF Rests
<1>5. ASSUME Leaves PROVE Within'
  <2>1. Current.op \in NodeInstalls => Current.on \in ToSet(Nodes)
    <3>1. Pending /\ Current \in Command
      BY <1>5, PendingIs, DidIs DEF Leaves
    <3>2. PICK op \in Op, x \in Thing : Current = C(op, x)
      BY <3>1, CommandIs
    <3>3. Belongs(op, x) /\ action \in Scripts
      BY <3>1, <3>2, CurrentBelongs
    <3>4. op \in NodeInstalls => x \in ToSet(StorageNodes) \cup ToSet(layout.comps)
      BY <3>3 DEF Belongs, NodeInstalls, Scripts
    <3> QED
      BY <3>2, <3>4, ListsAre, CommandIs
  <2>2. UNCHANGED <<layout, Nodes, Used, Watched>> /\ UNCHANGED <<enabled, configured, running, active>>
        /\ data' \subseteq ToSet(Nodes)
    BY <1>0, <1>5, <2>1 DEF Leaves, procs, Within
  <2> QED
    BY <2>2 DEF Within
<1>6. CASE Ends
  <2>1. ASSUME UNCHANGED data PROVE Within'
    BY <1>1, <1>6, <2>1 DEF Ends, files
  <2> QED
    BY <1>5, <1>6, <2>1 DEF Ends
<1>7. CASE Faulty
  BY <1>5, <1>7 DEF Faulty
<1>8. CASE Reboots
  <2>1. PICK m \in Machine : Reboot(m)
    BY <1>8 DEF Reboots
  <2>2. UNCHANGED <<layout, Nodes, Used, Watched>> /\ UNCHANGED <<data, enabled, configured>>
        /\ running' \subseteq running \cup enabled /\ active' \subseteq active \cup enabled
    BY <1>0, <2>1 DEF Reboot, files
  <2>3. Watched \subseteq Used
    BY Configured
  <2> QED
    BY <2>2, <2>3 DEF Within
<1>9. ASSUME NEW op \in Op, NEW x \in Thing, Runs(op, x) PROVE Within'
  <2>1. Belongs(op, x) /\ action \in Scripts
    BY <1>9, CurrentBelongs DEF Runs, Moves
  <2>2. UNCHANGED <<layout, Nodes, Used, Watched>>
    BY <1>0, <1>9 DEF Runs, Moves
  <2>3. /\ op \in NodeInstalls => x \in ToSet(Nodes) /\ x \in Used
        /\ op = "start" => x \in Used
        /\ op = "enable" => x \in Watched
        /\ op = "configure" => x \in ToSet(layout.mgrs)
    BY <2>1, ListsAre, Configured DEF Belongs, NodeInstalls, Scripts
  <2>4. Effect(op, x)
    BY <1>9 DEF Runs
  <2>5. data' \subseteq ToSet(Nodes) /\ configured' \subseteq ToSet(layout.mgrs) /\ enabled' \subseteq Watched
    BY <2>3, <2>4 DEF Effect, Within
  <2>6. running' \subseteq Used /\ active' \subseteq Watched
    BY <2>3, <2>4 DEF Effect, Within
  <2> QED
    BY <2>2, <2>5, <2>6 DEF Within
<1> QED
  BY <1>2, <1>3, <1>4, <1>6, <1>7, <1>8, <1>9, ScriptSteps

\* clean.sh so far: what it was to stop runs only where a restart has brought it
\* up again under its unit, and no unit that it has removed is there.
CleanSoFar ==
    action = "clean" /\ intact =>
       /\ Passed("rm") \cap data = {} /\ Passed("disable") \cap enabled = {}
       /\ base # "other" =>
            /\ Used \subseteq Passed("stop") \/ Reachable
            /\ \A n \in running \cap Passed("stop") : n \in active /\ (rebooted \/ n = Haproxy)
            /\ \A n \in running \cap Passed("systemctl_stop") : n \notin Node /\ rebooted

\* What the commands of clean.sh come after.
LEMMA CleanNeeds ==
    ASSUME TypeOK, InScript, action = "clean"
    PROVE  /\ Passed("rm") # {} => Used \subseteq Passed("stop")
           /\ \A x \in Passed("systemctl_stop") \cap Node : x \in Passed("rm")
           /\ \A x \in Thing : Pending /\ Current \in {C("rm", x), C("rm_base", x)}
                 => Used \subseteq Passed("stop")
           /\ \A x \in Thing : Pending /\ Current = C("systemctl_stop", x)
                 => x \in Passed("stop") /\ (x \in Node => x \in Passed("rm"))
<1>1. \A op, x : C(op, x) \in Did <=> x \in Passed(op)
  BY PassedSteps
<1>2. /\ \A c \in Did : UseNeeds[c] \subseteq Did
      /\ Pending => UseNeeds[Current] \subseteq Did
  BY UseDid DEF InPlace
<1>3. \A op \in Op, x \in Thing : UseNeeds[C(op, x)] = NeedsInUse(op, x)
  BY UseNeedsAre
<1>4. ASSUME All("stop", Used) \subseteq Did PROVE Used \subseteq Passed("stop")
  <2>1. \A x \in Used : C("stop", x) \in All("stop", Used)
    BY CommandIs
  <2> QED
    BY <1>1, <1>4, <2>1
<1>5. \A x \in Thing : NeedsInUse("rm", x) = All("stop", Used) /\ NeedsInUse("rm_base", x) = All("stop", Used)
  BY DEF NeedsInUse
<1>6. \A x \in Thing : x \in Passed("rm") => Used \subseteq Passed("stop")
  BY <1>1, <1>2, <1>3, <1>4, <1>5 DEF Op
<1>7. \A x \in Thing : Pending /\ Current \in {C("rm", x), C("rm_base", x)} => Used \subseteq Passed("stop")
  BY <1>2, <1>3, <1>4, <1>5 DEF Op
<1>8. ASSUME NEW x \in Thing, NeedsInUse("systemctl_stop", x) \subseteq Did
      PROVE  x \in Passed("stop") /\ (x \in Node => x \in Passed("rm"))
  <2>1. C("stop", x) \in NeedsInUse("systemctl_stop", x)
    BY CommandIs DEF NeedsInUse
  <2>2. x \in Node => C("rm", x) \in NeedsInUse("systemctl_stop", x)
    BY CommandIs DEF NeedsInUse
  <2> QED
    BY <1>1, <1>8, <2>1, <2>2
<1>9. "systemctl_stop" \in Op
  BY DEF Op
<1>10. \A x \in Passed("systemctl_stop") \cap Node : x \in Passed("rm")
  <2>1. Passed("systemctl_stop") \subseteq Thing
    BY DEF Passed
  <2> QED
    BY <1>1, <1>2, <1>3, <1>8, <1>9, <2>1
<1>11. \A x \in Thing : Pending /\ Current = C("systemctl_stop", x)
                 => x \in Passed("stop") /\ (x \in Node => x \in Passed("rm"))
  BY <1>2, <1>3, <1>8, <1>9
<1>12. Passed("rm") \subseteq Thing
  BY DEF Passed
<1> QED
  BY <1>6, <1>7, <1>10, <1>11, <1>12

\* What a script starts from.
LEMMA BasesAre ==
    ASSUME TypeOK, Within, NEW a \in Scripts, Issue(a)
    PROVE  /\ base' # "other" => Reachable
           /\ base' = "pristine" => Empty /\ (full' \/ KnownHosts \subseteq packages)
           /\ base' \in {"installed", "watched"} => Complete
           /\ base' = "installed" => Haproxy \notin active
<1>1. base' = BaseFor(full')
  BY DEF Issue
<1>2. /\ base' = "pristine" => Empty /\ (full' \/ KnownHosts \subseteq packages)
      /\ base' = "installed" => Complete /\ Haproxy \notin active
      /\ base' = "watched" => Complete
      /\ base' \in {"pristine", "installed", "watched", "other"} \/ Reachable
  BY <1>1 DEF BaseFor
<1>3. Empty => Reachable
  BY DEF Empty, Reachable
<1>4. Complete => Reachable
  <2> SUFFICES ASSUME Complete, NEW n \in running PROVE Stoppable(n)
    BY DEF Reachable
  <2>1. n \in Used /\ Host[n] \in packages
    BY Configured DEF Complete, Within
  <2>2. n \in Node => n \in listed /\ n \in data
    BY <2>1, Configured DEF Complete
  <2> QED
    BY <2>1, <2>2 DEF Stoppable, Node
<1> QED
  BY <1>2, <1>3, <1>4

\* A process that its unit brings up can be stopped.
LEMMA StartableIsStoppable == \A n : Startable(n) => Stoppable(n)
  BY DEF Startable, Stoppable, Node

LEMMA CleanStep ==
    ASSUME TypeOK, InScript, Within, CleanSoFar, [Next]_vars PROVE CleanSoFar'
<1>0. UNCHANGED layout => Used' = Used
  BY ConfigIsFixed
<1>1. CASE Issues
  <2>1. PICK a \in Scripts : Issue(a)
    BY <1>1 DEF Issues
  <2>2. \A p : Passed(p)' = {}
    BY <1>1, PassedSteps
  <2>3. base' # "other" => Reachable'
    BY <2>1, BasesAre DEF Issue, Reachable, Stoppable, files, procs
  <2> QED
    BY <2>2, <2>3 DEF CleanSoFar
<1>2. CASE Ends
  BY <1>2 DEF Ends, CleanSoFar
<1>3. CASE Faulty
  BY <1>3 DEF Faulty, Leaves, CleanSoFar
<1>4. CASE Rests
  <2>1. \A p : Passed(p)' = Passed(p)
    BY <1>4, PassedSteps
  <2> QED
    BY <1>0, <1>4, <2>1 DEF Rests, CleanSoFar, Reachable, Stoppable, files, procs
<1>5. CASE Reboots
  <2> SUFFICES ASSUME action = "clean", intact PROVE CleanSoFar'
    BY <1>5 DEF Reboots, Reboot, CleanSoFar
  <2>1. PICK m \in Machine : Reboot(m)
    BY <1>5 DEF Reboots
  <2>2. \A p : Passed(p)' = Passed(p)
    BY <1>5, PassedSteps
  <2> DEFINE back == {n \in enabled \cap On(m) : Startable(n)}
  <2>3. /\ running' = (running \ On(m)) \cup back /\ active' = (active \ On(m)) \cup back
        /\ rebooted' /\ UNCHANGED <<layout, base, packages, listed, configured, data, enabled>>
    BY <2>1 DEF Reboot, files
  <2>4. \A n : Stoppable(n)' = Stoppable(n)
    BY <2>3 DEF Stoppable
  <2>5. Reachable => Reachable'
    BY <2>3, <2>4, StartableIsStoppable DEF Reachable
  <2>6. \A n \in back \cap Passed("systemctl_stop") : n \notin Node
    BY CleanNeeds DEF CleanSoFar, Startable
  <2> HIDE DEF back
  <2>7. Used' = Used
    BY <1>0, <2>3
  <2>8. Passed("rm")' \cap data' = {} /\ Passed("disable")' \cap enabled' = {}
    BY <2>2, <2>3 DEF CleanSoFar
  <2>9. ASSUME base # "other"
        PROVE  /\ Used' \subseteq Passed("stop")' \/ Reachable'
               /\ \A n \in running' \cap Passed("stop")' : n \in active'
               /\ \A n \in running' \cap Passed("systemctl_stop")' : n \notin Node
    BY <2>2, <2>3, <2>5, <2>6, <2>7, <2>9 DEF CleanSoFar
  <2> QED
    BY <2>3, <2>8, <2>9 DEF CleanSoFar
<1>6. CASE Skips /\ action = "clean" /\ intact
  <2>1. PICK op \in Op, x \in Thing :
                 /\ Current = C(op, x) /\ Passed(op)' = Passed(op) \cup {x}
                 /\ \A p : p # op => Passed(p)' = Passed(p)
    BY <1>6, PassedSteps DEF Skips
  <2>2. Belongs(op, x) /\ Pending
    BY <1>6, <2>1, CurrentBelongs DEF Skips, Moves
  <2>3. ~CanRun(C(op, x))
    BY <1>6, <2>1 DEF Skips
  <2>4. \/ op = "stop" /\ x \in Used /\ ~(Stoppable(x) /\ x \in running)
        \/ op = "systemctl_stop" /\ x \notin active
        \/ op = "disable" /\ x \notin enabled
    BY <1>6, <2>2, <2>3, CommandIs DEF Belongs, CanRun, NodeInstalls
  <2>5. /\ Used' = Used /\ Reachable' = Reachable
        /\ UNCHANGED <<action, intact, rebooted, base, data, enabled, running, active>>
    BY <1>0, <1>6 DEF Skips, Moves, files, procs, Reachable, Stoppable
  <2>6. op = "systemctl_stop" => x \in Passed("stop")
    BY <1>6, <2>1, <2>2, CleanNeeds
  <2>7. \A p : Passed(p) \subseteq Passed(p)' /\ Passed(p)' \subseteq Passed(p) \cup {x}
    BY <2>1
  <2>8. Passed("rm")' \cap data' = {} /\ Passed("disable")' \cap enabled' = {}
    BY <1>6, <2>1, <2>4, <2>5 DEF CleanSoFar
  <2>9. ASSUME base # "other"
        PROVE  /\ Used' \subseteq Passed("stop")' \/ Reachable'
               /\ \A n \in running' \cap Passed("stop")' : n \in active' /\ (rebooted' \/ n = Haproxy)
               /\ \A n \in running' \cap Passed("systemctl_stop")' : n \notin Node /\ rebooted'
    <3>1. Used' \subseteq Passed("stop")' \/ Reachable'
      BY <1>6, <2>5, <2>7, <2>9 DEF CleanSoFar
    <3>2. op = "stop" /\ x \in running => x \in Passed("stop")
      BY <1>6, <2>4, <2>9 DEF CleanSoFar, Reachable
    <3>3. \A n \in running' \cap Passed("stop")' : n \in active' /\ (rebooted' \/ n = Haproxy)
      BY <1>6, <2>1, <2>5, <2>9, <3>2 DEF CleanSoFar
    <3>4. op = "systemctl_stop" => x \notin running
      BY <1>6, <2>4, <2>6, <2>9 DEF CleanSoFar
    <3>5. \A n \in running' \cap Passed("systemctl_stop")' : n \notin Node /\ rebooted'
      BY <1>6, <2>1, <2>5, <2>9, <3>4 DEF CleanSoFar
    <3> QED
      BY <3>1, <3>3, <3>5
  <2> QED
    BY <2>5, <2>8, <2>9 DEF CleanSoFar
<1>7. ASSUME NEW o \in Op, NEW y \in Thing, Runs(o, y), action = "clean", intact PROVE CleanSoFar'
  <2>1. PICK op \in Op, x \in Thing :
                 /\ Current = C(op, x) /\ Passed(op)' = Passed(op) \cup {x}
                 /\ \A p : p # op => Passed(p)' = Passed(p)
    BY <1>7, PassedSteps DEF Runs
  <2>2. Belongs(op, x) /\ Pending /\ op = o /\ x = y
    <3>1. Pending /\ Current = C(o, y) /\ Current = C(op, x)
      BY <1>7, <2>1 DEF Runs, Moves
    <3>2. Belongs(op, x)
      BY <3>1, CurrentBelongs
    <3>3. C(o, y) = C(op, x)
      BY <3>1
    <3>4. op = o /\ x = y
      BY <3>3, CommandIs
    <3> QED
      BY <3>1, <3>2, <3>4
  <2>3. /\ Effect(op, x) /\ UNCHANGED <<layout, action, base, intact, rebooted>>
    BY <1>7, <2>2 DEF Runs, Moves
  <2>4. \/ op = "stop" /\ x \in Used
        \/ op \in {"rm", "systemctl_stop", "disable", "rm_base"}
    BY <1>7, <2>2 DEF Belongs
  <2>5. Used' = Used
    BY <1>0, <2>3
  <2>6. /\ data' = IF op = "rm" THEN data \ {x} ELSE data
        /\ enabled' = IF op = "disable" THEN enabled \ {x} ELSE enabled
        /\ running' = CASE op = "stop" /\ ~(x = Haproxy /\ x \in active) -> running \ {x}
                        [] op = "systemctl_stop" -> running \ (active \cap {x})
                        [] OTHER -> running
        /\ active' = CASE op = "stop" /\ ~(x = Haproxy /\ x \in active) -> active \ {x}
                        [] op = "systemctl_stop" -> active \ {x}
                        [] OTHER -> active
        /\ op # "rm_base" => UNCHANGED <<packages, listed>>
    BY <2>3, <2>4 DEF Effect, NodeInstalls
  <2>7. op \in {"rm", "rm_base"} => Used \subseteq Passed("stop")
    BY <1>7, <2>1, <2>2, CleanNeeds
  <2>8. op = "systemctl_stop" => x \in Passed("stop")
    BY <1>7, <2>1, <2>2, CleanNeeds
  <2>9. \A p : Passed(p) \subseteq Passed(p)'
    BY <2>1
  <2>10. Passed("rm")' \cap data' = {} /\ Passed("disable")' \cap enabled' = {}
    BY <1>7, <2>1, <2>6 DEF CleanSoFar
  <2>11. ASSUME base # "other"
        PROVE  /\ Used' \subseteq Passed("stop")' \/ Reachable'
               /\ \A n \in running' \cap Passed("stop")' : n \in active' /\ (rebooted' \/ n = Haproxy)
               /\ \A n \in running' \cap Passed("systemctl_stop")' : n \notin Node /\ rebooted'
    <3>0. running' \subseteq running
      BY <2>6
    <3>1. Used' \subseteq Passed("stop")' \/ Reachable'
      <4>1. CASE Used \subseteq Passed("stop")
        BY <2>5, <2>9, <4>1
      <4>2. CASE ~(Used \subseteq Passed("stop"))
        <5>1. Reachable /\ op \notin {"rm", "rm_base"}
          BY <1>7, <2>7, <2>11, <4>2 DEF CleanSoFar
        <5>2. UNCHANGED <<packages, listed, data>>
          BY <2>6, <5>1
        <5>3. Reachable'
          BY <3>0, <5>1, <5>2 DEF Reachable, Stoppable
        <5> QED
          BY <5>3
      <4> QED
        BY <4>1, <4>2
    <3>2. ASSUME NEW n \in running' \cap Passed("stop")' PROVE n \in active' /\ (rebooted' \/ n = Haproxy)
      <4>1. CASE n \in Passed("stop")
        <5>1. n \in active /\ (rebooted \/ n = Haproxy)
          BY <1>7, <2>11, <3>0, <3>2, <4>1 DEF CleanSoFar
        <5>2. n \in active'
          BY <2>6, <3>2, <5>1
        <5> QED
          BY <2>3, <5>1, <5>2
      <4>2. CASE n \notin Passed("stop")
        <5>1. op = "stop" /\ n = x
          BY <2>1, <3>2, <4>2
        <5>2. n = Haproxy /\ n \in active'
          BY <2>6, <3>2, <5>1
        <5> QED
          BY <5>2
      <4> QED
        BY <4>1, <4>2
    <3>3. ASSUME NEW n \in running' \cap Passed("systemctl_stop")' PROVE n \notin Node /\ rebooted'
      <4>1. CASE n \in Passed("systemctl_stop")
        BY <1>7, <2>3, <2>11, <3>0, <3>3, <4>1 DEF CleanSoFar
      <4>2. CASE n \notin Passed("systemctl_stop")
        <5>1. op = "systemctl_stop" /\ n = x
          BY <2>1, <3>3, <4>2
        <5>2. n \in active
          BY <1>7, <2>8, <2>11, <3>0, <3>3, <5>1 DEF CleanSoFar
        <5> QED
          BY <2>6, <3>3, <5>1, <5>2
      <4> QED
        BY <4>1, <4>2
    <3> QED
      BY <3>1, <3>2, <3>3
  <2> QED
    BY <2>3, <2>10, <2>11 DEF CleanSoFar
<1>8. ASSUME Moves, UNCHANGED intact, ~(action = "clean" /\ intact) PROVE CleanSoFar'
  <2>1. ~(action = "clean" /\ intact)'
    BY <1>8, Zenon DEF Moves
  <2> QED
    BY <2>1 DEF CleanSoFar
<1> QED
  BY <1>1, <1>2, <1>3, <1>4, <1>5, <1>6, <1>7, <1>8, ScriptSteps DEF Skips, Runs

\* What every reachable state has.
Course == TypeOK /\ InScript /\ Within /\ CleanSoFar
LEMMA CourseHolds == Spec => []Course
<1>1. Init => InScript /\ Within /\ CleanSoFar
  <2> SUFFICES ASSUME Init PROVE InScript /\ Within /\ CleanSoFar
    OBVIOUS
  <2>1. action = "none" /\ data = {} /\ running = {} /\ enabled = {} /\ active = {} /\ configured = {}
    BY DEF Init
  <2> QED
    BY <2>1 DEF InScript, Within, CleanSoFar
<1>2. TypeOK /\ TypeOK' /\ InScript /\ Within /\ CleanSoFar /\ [Next]_vars
        => InScript' /\ Within' /\ CleanSoFar'
  BY ScriptPosition, WithinStep, CleanStep
<1> QED
  BY <1>1, <1>2, TraditionalTyping, PTL DEF Spec, Course

\* Whatever machines restart in the middle of clean.sh, and whatever processes
\* their units bring up again, it leaves no data, no node and no unit.
THEOREM CleanIsThorough == Spec => []CleanSurvivesReboots
<1>1. Course => CleanSurvivesReboots
  <2> USE DEF Course
  <2> SUFFICES ASSUME Course, AtEnd("clean"), intact, base # "other"
               PROVE  data = {} /\ running \cap Node = {} /\ enabled = {}
    BY DEF CleanSurvivesReboots
  <2>1. action = "clean" /\ ~Pending
    BY DidIs DEF AtEnd
  <2>2. /\ Passed("stop") = Used /\ Passed("rm") = ToSet(Nodes)
        /\ Watches => Passed("systemctl_stop") = Used /\ Passed("disable") = Used
    BY <2>1, AllPassed
  <2>3. data = {}
    BY <2>1, <2>2 DEF CleanSoFar, Within
  <2>4. enabled = {}
    BY <2>1, <2>2, Configured DEF CleanSoFar, Within, Watched
  <2>5. ASSUME NEW n \in running \cap Node PROVE FALSE
    <3>1. n \in Used /\ n \in active
      BY <2>1, <2>2 DEF CleanSoFar, Within
    <3>2. Watches
      BY <3>1 DEF Within, Watched
    <3> QED
      BY <2>1, <2>2, <3>1, <3>2 DEF CleanSoFar
  <2> QED
    BY <2>3, <2>4, <2>5
<1> QED
  BY <1>1, CourseHolds, PTL

\* clean.sh takes no data directory from under a server that it could find.
THEOREM DataStaysWithServers == Spec => DataOutlivesServer
<1>1. Course /\ [Next]_vars => (smooth' /\ base # "other" => \A n \in data \ data' : n \notin running')
  <2> USE DEF Course
  <2> SUFFICES ASSUME Course, [Next]_vars, smooth', base # "other", NEW n \in data \ data'
               PROVE  n \notin running'
    OBVIOUS
  <2>1. CASE \E op \in Op, x \in Thing : Runs(op, x)
    <3>1. PICK op \in Op, x \in Thing : Runs(op, x)
      BY <2>1
    <3>2. Effect(op, x) /\ Belongs(op, x) /\ action \in Scripts /\ Pending /\ Current = C(op, x)
      BY <3>1, CurrentBelongs DEF Runs, Moves
    <3>3. op = "rm" /\ n = x
      BY <3>2 DEF Effect
    <3>4. action = "clean" /\ running' = running
      BY <3>2, <3>3 DEF Belongs, Scripts, Effect, NodeInstalls
    <3>5. Used \subseteq Passed("stop")
      BY <3>2, <3>3, <3>4, CleanNeeds
    <3>6. intact /\ ~rebooted
      BY <3>1, Zenon DEF Runs, smooth
    <3>7. n \in Node /\ n # Haproxy
      BY Configured, TraditionalAssumption DEF Within
    <3> QED
      BY <3>4, <3>5, <3>6, <3>7 DEF CleanSoFar, Within
  <2>2. CASE Reboots
    BY <2>2 DEF Reboots, Reboot, files
  <2>3. CASE Issues \/ Skips \/ Faulty \/ Ends \/ Rests
    <3>1. data \subseteq data'
      BY <2>3 DEF Issues, Issue, Skips, Faulty, Leaves, Ends, Rests, files
    <3> QED
      BY <3>1
  <2> QED
    BY <2>1, <2>2, <2>3, ScriptSteps
<1> QED
  BY <1>1, CourseHolds, PTL DEF Spec, DataOutlivesServer

-----------------------------------------------------------------------------
(* The scripts when nothing goes wrong. *)

\* An installation from nothing: what is there is what the script has put there.
FreshInstall ==
    smooth /\ action = "install" /\ base = "pristine" =>
       /\ data = Passed("install_storage") \cup Passed("install_comp")
       /\ running = data \cup Passed("start")
       /\ IF full THEN Passed("unpack") \subseteq packages ELSE KnownHosts \subseteq packages
       /\ Passed("prepare") \subseteq prepared /\ Passed("configure") \subseteq configured
       /\ sysTables <=> Passed("bootstrap") # {}
       /\ made <=> Passed("create_cluster") # {}

\* On clean machines install.sh finds what it needs.
LEMMA InstallCanRun ==
    ASSUME Course, FreshInstall, smooth, action = "install", base = "pristine", Pending
    PROVE  CanRun(Current)
<1> USE DEF Course
<1>1. \A op, x : C(op, x) \in Did <=> x \in Passed(op)
  BY PassedSteps
<1>2. PICK op \in Op, x \in Thing : Current = C(op, x)
  BY DidIs, CommandIs
<1>3. Belongs(op, x)
  BY <1>2, CurrentBelongs
<1>4. /\ NeedsInInstall(op, x) \subseteq Did
      /\ op \in NodeInstalls \cup {"bootstrap", "create_cluster"} \/ (op = "start" /\ x = Haproxy)
            => C(op, x) \notin Did
      /\ \A o \in Op, y \in Thing : C(o, y) \in Did => NeedsInInstall(o, y) \subseteq Did
      /\ Did \subseteq InstallSet
  BY <1>2, InstallDid, InstallNeedsAre DEF InPlace
<1>5. /\ data = Passed("install_storage") \cup Passed("install_comp")
      /\ running = data \cup Passed("start")
      /\ IF full THEN Passed("unpack") \subseteq packages ELSE KnownHosts \subseteq packages
      /\ Passed("prepare") \subseteq prepared /\ Passed("configure") \subseteq configured
      /\ sysTables <=> Passed("bootstrap") # {}
      /\ made <=> Passed("create_cluster") # {}
  BY DEF FreshInstall
<1>6. \A o, y : C(o, y) \in All(o, {y})
  BY CommandIs
\* A machine that is prepared has its packages.
<1>7. ASSUME NEW m \in KnownHosts, full => C("unpack", m) \in Did PROVE m \in packages
  BY <1>1, <1>5, <1>7
<1>8. ASSUME NEW m \in KnownHosts, C("prepare", m) \in Did PROVE m \in packages /\ m \in prepared
  <2>1. NeedsInInstall("prepare", m) = IF full THEN All("unpack", {m}) ELSE {}
    BY DEF NeedsInInstall, NodeInstalls
  <2>2. m \in Thing /\ "prepare" \in Op
    BY Configured DEF Op
  <2>3. full => C("unpack", m) \in Did
    BY <1>4, <1>6, <1>8, <2>1, <2>2
  <2> QED
    BY <1>1, <1>5, <1>7, <1>8, <2>3
<1>9. CASE op = "prepare"
  <2>1. x \in KnownHosts
    BY <1>3, <1>9 DEF Belongs, NodeInstalls
  <2>2. full => C("unpack", x) \in Did
    BY <1>4, <1>6, <1>9 DEF NeedsInInstall, NodeInstalls
  <2>3. x \in packages
    BY <1>7, <2>1, <2>2
  <2> QED
    BY <1>2, <1>9, <2>3, CommandIs DEF CanRun, NodeInstalls
<1>10. CASE op = "start"
  <2>1. x \in Daemons /\ x \in Used /\ x \notin Node /\ Host[x] \in KnownHosts
    BY <1>3, <1>10, Configured DEF Belongs
  <2>2. NeedsInInstall(op, x) = All("prepare", {Host[x]}) \cup All("configure", {x} \cap ClusterMgr)
    BY <1>10 DEF NeedsInInstall, NodeInstalls
  <2>3. C("prepare", Host[x]) \in Did
    BY <1>4, <1>6, <2>2
  <2>4. Host[x] \in packages
    BY <1>8, <2>1, <2>3
  <2>5. x \in ClusterMgr => x \in configured
    <3>1. x \in ClusterMgr => C("configure", x) \in All("configure", {x} \cap ClusterMgr)
      BY CommandIs
    <3> QED
      BY <1>1, <1>4, <1>5, <2>2, <3>1
  <2>6. x = Haproxy => x \notin running
    <3>1. x \notin data
      BY <2>1, Configured DEF Within
    <3> QED
      BY <1>1, <1>4, <1>5, <1>10, <3>1
  <2>7. Startable(x)
    BY <2>1, <2>4, <2>5 DEF Startable
  <2>8. Current.op = "start" /\ Current.on = x
    BY <1>2, <1>10, CommandIs
  <2> QED
    BY <2>6, <2>7, <2>8 DEF CanRun, NodeInstalls
<1>11. CASE op \in NodeInstalls
  <2>1. \/ op = "install_storage" /\ x \in ToSet(StorageNodes)
        \/ op = "install_comp" /\ x \in ToSet(layout.comps)
    BY <1>3, <1>11 DEF Belongs, NodeInstalls
  <2>2. x \in Used /\ Host[x] \in KnownHosts
    BY <2>1, ListsAre, Configured
  <2>3. NeedsInInstall(op, x) = All("prepare", {Host[x]})
              \cup All("install_storage", {PrimaryOf(y) : y \in {x} \cap (Storage \ Primaries)})
    BY <1>11 DEF NeedsInInstall, NodeInstalls
  <2>4. Host[x] \in prepared
    BY <1>4, <1>6, <1>8, <2>2, <2>3
  <2>5. x \notin data
    <3>1. x \notin Passed(op)
      BY <1>1, <1>4, <1>11
    <3>2. \A y : /\ y \in Passed("install_storage") => y \in ToSet(StorageNodes)
                 /\ y \in Passed("install_comp") => y \in ToSet(layout.comps)
      BY <1>1, <1>4, SetsAre
    <3>3. ToSet(StorageNodes) \cap ToSet(layout.comps) = {}
      BY Configured, TraditionalAssumption
    <3> QED
      BY <1>5, <2>1, <3>1, <3>2, <3>3
  <2>6. x \in Storage /\ IsReplica(x) => PrimaryOf(x) \in running
    <3> SUFFICES ASSUME x \in Storage \ Primaries PROVE PrimaryOf(x) \in running
      BY DEF IsReplica, IsPrimary
    <3>1. PrimaryOf(x) \in {PrimaryOf(y) : y \in {x} \cap (Storage \ Primaries)}
      OBVIOUS
    <3>2. C("install_storage", PrimaryOf(x)) \in All("install_storage", {PrimaryOf(y) : y \in {x} \cap (Storage \ Primaries)})
      BY <3>1, CommandIs
    <3>3. C("install_storage", PrimaryOf(x)) \in Did
      BY <1>4, <2>3, <3>2
    <3> QED
      BY <1>1, <1>5, <3>3
  <2>7. CanInstall(x)
    BY <2>4, <2>5, <2>6 DEF CanInstall
  <2>8. Current.op \in NodeInstalls /\ Current.on = x
    BY <1>2, <1>11, CommandIs
  <2> QED
    BY <2>7, <2>8 DEF CanRun, NodeInstalls
<1>12. \A y : y \in Passed("bootstrap") \cup Passed("create_cluster") => y = layout.comps[1]
  BY <1>1, <1>4, SetsAre
<1>13. CASE op = "bootstrap"
  <2>1. x = layout.comps[1] /\ x \notin Passed("bootstrap")
    BY <1>1, <1>3, <1>4, <1>13 DEF Belongs
  <2>2. ~sysTables
    BY <1>5, <1>12, <2>1
  <2>3. All("install_storage", ToSet(layout.meta)) \subseteq Did
    BY <1>4, <1>13 DEF NeedsInInstall, NodeInstalls
  <2>4. \A y \in ToSet(layout.meta) : C("install_storage", y) \in All("install_storage", ToSet(layout.meta))
    BY CommandIs
  <2>5. ToSet(layout.meta) \subseteq running
    BY <1>1, <1>5, <2>3, <2>4
  <2>6. Current.op = "bootstrap"
    BY <1>2, <1>13, CommandIs
  <2> QED
    BY <2>2, <2>5, <2>6 DEF CanRun, NodeInstalls
<1>14. CASE op = "create_cluster"
  <2>1. x = layout.comps[1] /\ x \notin Passed("create_cluster")
    BY <1>1, <1>3, <1>4, <1>14 DEF Belongs
  <2>2. ~made
    BY <1>5, <1>12, <2>1
  <2>3. All("bootstrap", {layout.comps[1]}) \cup Installs \subseteq Did
    BY <1>4, <1>14 DEF NeedsInInstall, NodeInstalls
  <2>4. sysTables
    BY <1>1, <1>5, <1>6, <2>3
  <2>5. \A y : /\ y \in ToSet(StorageNodes) => C("install_storage", y) \in Installs
               /\ y \in ToSet(layout.comps) => C("install_comp", y) \in Installs
    BY CommandIs DEF Installs
  <2>6. ToSet(Nodes) \subseteq running
    BY <1>1, <1>5, <2>3, <2>5, ListsAre
  <2>7. Current.op = "create_cluster"
    BY <1>2, <1>14, CommandIs
  <2> QED
    BY <2>2, <2>4, <2>6, <2>7 DEF CanRun, NodeInstalls
<1>15. CASE op = "configure"
  <2>1. x \in Used /\ Host[x] \in KnownHosts
    BY <1>3, <1>15, Configured DEF Belongs, NodeInstalls, Daemons
  <2>2. All("prepare", {Host[x]}) \subseteq Did
    BY <1>4, <1>15 DEF NeedsInInstall, NodeInstalls
  <2>3. Host[x] \in prepared
    BY <1>6, <1>8, <2>1, <2>2
  <2>4. Current.op = "configure" /\ Current.on = x
    BY <1>2, <1>15, CommandIs
  <2> QED
    BY <2>3, <2>4 DEF CanRun, NodeInstalls
<1>16. CASE op \in {"unpack", "empty_list", "enable"}
  <2>1. Current.op \in {"unpack", "empty_list", "enable"}
    BY <1>2, <1>16, CommandIs
  <2> QED
    BY <2>1 DEF CanRun, NodeInstalls
<1> QED
  BY <1>3, <1>9, <1>10, <1>11, <1>13, <1>14, <1>15, <1>16 DEF Belongs, NodeInstalls

LEMMA FreshStep ==
    ASSUME Course, FreshInstall, [Next]_vars PROVE FreshInstall'
<1> USE DEF Course
<1>1. CASE Issues
  <2>1. PICK a \in Scripts : Issue(a)
    BY <1>1 DEF Issues
  <2>2. \A p : Passed(p)' = {}
    BY <1>1, PassedSteps
  <2>3. UNCHANGED KnownHosts
    BY <2>1, ConfigIsFixed DEF Issue
  <2>4. base' = "pristine" =>
           /\ data' = {} /\ running' = {} /\ ~sysTables' /\ ~made'
           /\ full' \/ KnownHosts' \subseteq packages'
    BY <2>1, <2>3, BasesAre DEF Issue, Empty, files, procs, meta
  <2> QED
    BY <2>2, <2>4 DEF FreshInstall
<1>2. CASE Ends
  BY <1>2 DEF Ends, FreshInstall
<1>3. CASE Faulty
  BY <1>3 DEF Faulty, Leaves, FreshInstall, smooth
<1>4. CASE Rests
  <2>1. \A p : Passed(p)' = Passed(p)
    BY <1>4, PassedSteps
  <2>2. UNCHANGED <<smooth, action, base, full, data, running, packages, prepared, configured, sysTables, made, KnownHosts>>
    BY <1>4, ConfigIsFixed DEF Rests, files, procs, meta, smooth
  <2> QED
    BY <2>1, <2>2 DEF FreshInstall
<1>5. CASE Reboots
  BY <1>5 DEF Reboots, Reboot, FreshInstall, smooth
<1>6. ASSUME Moves, UNCHANGED <<intact, rebooted>>, ~(smooth /\ action = "install" /\ base = "pristine")
      PROVE  FreshInstall'
  <2>1. ~(smooth /\ action = "install" /\ base = "pristine")'
    BY <1>6, Zenon DEF Moves, smooth
  <2> QED
    BY <2>1 DEF FreshInstall
<1>7. CASE Skips
  <2>1. ~(smooth /\ action = "install" /\ base = "pristine")
    BY <1>7, InstallCanRun DEF Skips, Moves
  <2> QED
    BY <1>6, <1>7, <2>1 DEF Skips
<1>8. ASSUME NEW o \in Op, NEW y \in Thing, Runs(o, y), smooth, action = "install", base = "pristine"
      PROVE  FreshInstall'
  <2>1. PICK op \in Op, x \in Thing :
                 /\ Current = C(op, x) /\ Passed(op)' = Passed(op) \cup {x}
                 /\ \A p : p # op => Passed(p)' = Passed(p)
    BY <1>8, PassedSteps DEF Runs
  <2>2. op = o /\ x = y /\ Pending
    <3>1. Pending /\ C(o, y) = C(op, x)
      BY <1>8, <2>1 DEF Runs, Moves
    <3> QED
      BY <3>1, CommandIs
  <2>3. Belongs(op, x) /\ Effect(op, x) /\ UNCHANGED <<full, layout>>
    BY <1>8, <2>1, <2>2, CurrentBelongs DEF Runs, Moves
  <2>4. op \in NodeInstalls \cup {"unpack", "prepare", "empty_list", "enable", "bootstrap", "create_cluster",
                                   "configure", "start"}
    BY <1>8, <2>3 DEF Belongs, NodeInstalls
  <2>5. /\ data' = IF op \in NodeInstalls THEN data \cup {x} ELSE data
        /\ running' = IF op \in NodeInstalls \cup {"start"} THEN running \cup {x} ELSE running
        /\ packages' = IF op = "unpack" THEN packages \cup {x} ELSE packages
        /\ prepared' = IF op = "prepare" THEN prepared \cup {x} ELSE prepared
        /\ configured' = IF op = "configure" THEN configured \cup {x} ELSE configured
    BY <2>3, <2>4 DEF Effect, NodeInstalls
  <2>6. /\ op = "bootstrap" => sysTables' /\ made' = made
        /\ op = "create_cluster" => made' /\ sysTables' = sysTables
        /\ op \notin {"bootstrap", "create_cluster"} => sysTables' = sysTables /\ made' = made
    BY <2>3, <2>4 DEF Effect, NodeInstalls
  <2>7. /\ data = Passed("install_storage") \cup Passed("install_comp")
        /\ running = data \cup Passed("start")
        /\ IF full THEN Passed("unpack") \subseteq packages ELSE KnownHosts \subseteq packages
        /\ Passed("prepare") \subseteq prepared /\ Passed("configure") \subseteq configured
        /\ sysTables <=> Passed("bootstrap") # {}
        /\ made <=> Passed("create_cluster") # {}
    BY <1>8 DEF FreshInstall
  <2>8. KnownHosts' = KnownHosts
    BY <2>3, ConfigIsFixed
  <2>9. data' = Passed("install_storage")' \cup Passed("install_comp")' /\ running' = data' \cup Passed("start")'
    BY <2>1, <2>5, <2>7 DEF NodeInstalls
  <2>10. IF full' THEN Passed("unpack")' \subseteq packages' ELSE KnownHosts' \subseteq packages'
    <3>1. full' = full
      BY <2>3
    <3>2. CASE full
      BY <2>1, <2>5, <2>7, <3>1, <3>2
    <3>3. CASE ~full
      BY <2>5, <2>7, <2>8, <3>1, <3>3
    <3> QED
      BY <3>2, <3>3
  <2>11. Passed("prepare")' \subseteq prepared' /\ Passed("configure")' \subseteq configured'
    BY <2>1, <2>5, <2>7
  <2>12. (sysTables' <=> Passed("bootstrap")' # {}) /\ (made' <=> Passed("create_cluster")' # {})
    <3>1. CASE op = "bootstrap"
      BY <2>1, <2>6, <2>7, <3>1
    <3>2. CASE op = "create_cluster"
      BY <2>1, <2>6, <2>7, <3>2
    <3>3. CASE op \notin {"bootstrap", "create_cluster"}
      BY <2>1, <2>6, <2>7, <3>3
    <3> QED
      BY <3>1, <3>2, <3>3
  <2> QED
    BY <2>9, <2>10, <2>11, <2>12 DEF FreshInstall
<1> QED
  BY <1>1, <1>2, <1>3, <1>4, <1>5, <1>6, <1>7, <1>8, ScriptSteps DEF Runs

\* start.sh and stop.sh leave a complete installation complete; what the one has
\* passed runs, and what the other has passed does not.
Intact ==
    smooth /\ action \in {"start", "stop"} /\ base = "installed" =>
        /\ Complete /\ Haproxy \notin active
        /\ action = "start" => Passed("start") \subseteq running
        /\ action = "stop" => Passed("stop") \cap running = {}

\* All of a complete installation can be started and stopped.
LEMMA CompleteIsReady ==
    ASSUME Course, Complete, NEW x \in Used
    PROVE  Stoppable(x) /\ Startable(x)
<1>1. Host[x] \in packages /\ Host[x] \in prepared
  BY Configured DEF Complete, Course
<1>2. x \in Node => x \in listed /\ x \in data
  BY Configured DEF Complete, Course
<1>3. x \in ClusterMgr => x \in configured
  <2>1. x \in ClusterMgr => x \in ToSet(layout.mgrs)
    BY Configured, ListsAre, TraditionalAssumption DEF Daemons, Course
  <2> QED
    BY <2>1 DEF Complete
<1> QED
  BY <1>1, <1>2, <1>3 DEF Stoppable, Startable, Node

LEMMA CompleteIsFixed ==
    ASSUME UNCHANGED <<layout, packages, prepared, listed, configured, data, enabled, sysTables, made>>
    PROVE  Complete' = Complete
<1>1. UNCHANGED <<Nodes, KnownHosts, StorageNodes, Proxy>>
  BY ConfigIsFixed
<1> QED
  BY <1>1 DEF Complete

LEMMA IntactStep == ASSUME Course, Intact, [Next]_vars PROVE Intact'
<1> USE DEF Course
<1>1. CASE Issues
  <2>1. PICK a \in Scripts : Issue(a)
    BY <1>1 DEF Issues
  <2>2. \A p : Passed(p)' = {}
    BY <1>1, PassedSteps
  <2>3. base' = "installed" => Complete /\ Haproxy \notin active
    BY <2>1, BasesAre
  <2>4. Complete' = Complete /\ active' = active
    BY <2>1, CompleteIsFixed DEF Issue, files, meta, procs
  <2> QED
    BY <2>2, <2>3, <2>4 DEF Intact
<1>2. CASE Ends
  BY <1>2 DEF Ends, Intact
<1>3. CASE Faulty
  BY <1>3 DEF Faulty, Leaves, Intact, smooth
<1>4. CASE Rests
  <2>1. \A p : Passed(p)' = Passed(p)
    BY <1>4, PassedSteps
  <2>2. UNCHANGED <<smooth, action, base, running, active>> /\ Complete' = Complete
    BY <1>4, CompleteIsFixed DEF Rests, files, procs, meta, smooth
  <2> QED
    BY <2>1, <2>2 DEF Intact
<1>5. CASE Reboots
  BY <1>5 DEF Reboots, Reboot, Intact, smooth
<1> DEFINE Relevant == smooth /\ action \in {"start", "stop"} /\ base = "installed"
<1>6. ASSUME Moves, UNCHANGED <<intact, rebooted>>, ~Relevant PROVE Intact'
  <2>1. ~(smooth /\ action \in {"start", "stop"} /\ base = "installed")'
    BY <1>6, Zenon DEF Moves, smooth
  <2> QED
    BY <2>1 DEF Intact
<1>7. ASSUME Moves, Relevant
      PROVE  \E x \in Used : /\ Current = C(action, x) /\ Stoppable(x) /\ Startable(x)
                             /\ Passed(action)' = Passed(action) \cup {x}
  <2>1. PICK op \in Op, x \in Thing :
                 /\ Current = C(op, x) /\ Passed(op)' = Passed(op) \cup {x}
                 /\ \A p : p # op => Passed(p)' = Passed(p)
    BY <1>7, PassedSteps
  <2>2. op = action /\ x \in Used
    BY <1>7, <2>1, CurrentBelongs DEF Moves, Belongs
  <2>3. Stoppable(x) /\ Startable(x)
    BY <1>7, <2>2, CompleteIsReady DEF Intact
  <2>4. Current = C(action, x) /\ Passed(action)' = Passed(action) \cup {x}
    <3>1. action' = action
      BY <1>7 DEF Moves
    <3> QED
      BY <2>1, <2>2, <3>1 DEF Passed
  <2> HIDE DEF Relevant
  <2> QED
    BY <2>2, <2>3, <2>4
<1>8. CASE Skips /\ Relevant
  <2>1. PICK x \in Used : /\ Current = C(action, x) /\ Stoppable(x) /\ Startable(x)
                          /\ Passed(action)' = Passed(action) \cup {x}
    BY <1>7, <1>8 DEF Skips
  <2>2. ~CanRun(C(action, x)) /\ UNCHANGED <<action, base, intact, rebooted, running, active>>
    BY <1>8, <2>1 DEF Skips, Moves, procs
  <2>3. /\ action = "start" => x \in running
        /\ action = "stop" => x \notin running
    BY <2>1, <2>2, CommandIs DEF CanRun, NodeInstalls
  <2>4. Complete' = Complete
    BY <1>8, CompleteIsFixed DEF Skips, Moves, files, meta
  <2> QED
    BY <1>8, <2>1, <2>2, <2>3, <2>4 DEF Intact
<1>9. ASSUME NEW o \in Op, NEW y \in Thing, Runs(o, y), Relevant PROVE Intact'
  <2>1. PICK x \in Used : /\ Current = C(action, x) /\ Stoppable(x) /\ Startable(x)
                          /\ Passed(action)' = Passed(action) \cup {x}
    BY <1>7, <1>9 DEF Runs
  <2>2. o = action /\ y = x
    <3>1. C(o, y) = C(action, x)
      BY <1>9, <2>1 DEF Runs
    <3> QED
      BY <3>1, CommandIs
  <2>3. Effect(action, x) /\ UNCHANGED <<layout, action, base, intact, rebooted>>
    BY <1>9, <2>2 DEF Runs, Moves
  <2>4. UNCHANGED <<packages, prepared, listed, configured, data, enabled, sysTables, made>>
    BY <1>9, <2>3 DEF Effect, NodeInstalls
  <2>5. Complete' = Complete
    BY <2>3, <2>4, CompleteIsFixed
  <2>6. /\ action = "start" => running' = running \cup {x} /\ active' = active
        /\ action = "stop" /\ Haproxy \notin active => running' = running \ {x} /\ active' = active \ {x}
    BY <2>3 DEF Effect, NodeInstalls
  <2> QED
    BY <1>9, <2>1, <2>3, <2>5, <2>6 DEF Intact
<1> QED
  BY <1>1, <1>2, <1>3, <1>4, <1>5, <1>6, <1>8, <1>9, ScriptSteps DEF Skips, Runs

Smoothly == Course /\ FreshInstall /\ Intact
LEMMA SmoothlyHolds == Spec => []Smoothly
<1>1. Init => FreshInstall /\ Intact
  <2> SUFFICES ASSUME Init PROVE FreshInstall /\ Intact
    OBVIOUS
  <2>1. action = "none"
    BY DEF Init
  <2> QED
    BY <2>1 DEF FreshInstall, Intact
<1>2. Course /\ FreshInstall /\ Intact /\ [Next]_vars => FreshInstall' /\ Intact'
  BY FreshStep, IntactStep
<1> QED
  BY <1>1, <1>2, CourseHolds, PTL DEF Spec, Smoothly

-----------------------------------------------------------------------------
(* The scripts against the abstract ones of Lifecycle.                     *)

\* Where the last command is done, the machines are in the state that a script in
\* which nothing went wrong promises.
LEMMA EndsWell ==
    ASSUME Smoothly, action # "none", ~Pending, smooth, BaseName \in Life!MadeFor(action)
    PROVE  Life!Outcome(action)
<1> USE DEF Smoothly, Course
<1>1. action \in {"install", "start", "stop", "clean"}
  BY DEF TypeOK, Scripts
<1>2. intact /\ ~rebooted
  BY Zenon DEF smooth
<1>3. CASE action = "install"
  <2>1. base = "pristine"
    BY <1>3 DEF Life!MadeFor, BaseName
  <2>2. Passed("install_storage") = ToSet(StorageNodes)
        /\ Passed("install_comp") = ToSet(layout.comps) /\ Passed("start") = Daemons
    BY <1>3, AllPassed
  <2>3. data = ToSet(Nodes) /\ running = Used
    BY <1>3, <2>1, <2>2, ListsAre DEF FreshInstall
  <2> QED
    BY <1>3, <2>3 DEF Life!Outcome
<1>4. CASE action \in {"start", "stop"}
  <2>1. base = "installed"
    BY <1>4 DEF Life!MadeFor, BaseName
  <2>2. Passed(action) = Used
    BY <1>4, AllPassed
  <2>3. data = ToSet(Nodes)
    BY <1>4, <2>1 DEF Intact, Complete
  <2>4. /\ action = "start" => running = Used
        /\ action = "stop" => running = {}
    BY <1>4, <2>1, <2>2 DEF Intact, Within
  <2> QED
    BY <1>4, <2>3, <2>4 DEF Life!Outcome
<1>5. CASE action = "clean"
  <2>1. base # "other"
    BY <1>5 DEF Life!MadeFor, BaseName, Life!Bases
  <2>2. /\ Passed("stop") = Used /\ Passed("rm") = ToSet(Nodes)
        /\ Watches => Passed("systemctl_stop") = Used
    BY <1>5, AllPassed
  <2>3. data = {}
    BY <1>2, <1>5, <2>2 DEF CleanSoFar, Within
  <2>4. ASSUME NEW n \in running PROVE FALSE
    <3>1. n \in Used /\ n \in active
      BY <1>2, <1>5, <2>1, <2>2 DEF CleanSoFar, Within
    <3>2. Watches
      BY <3>1 DEF Within, Watched
    <3> QED
      BY <1>2, <1>5, <2>1, <2>2, <3>1, <3>2 DEF CleanSoFar
  <2> QED
    BY <1>5, <2>3, <2>4 DEF Life!Outcome
<1> QED
  BY <1>1, <1>3, <1>4, <1>5

LEMMA InitIsLife == Init => Life!Init
<1> SUFFICES ASSUME Init PROVE Life!Init
  OBVIOUS
<1>1. smooth = TRUE
  BY Zenon DEF Init, smooth
<1>2. action = "none" /\ base = "other" /\ data = {} /\ running = {}
  BY DEF Init
<1> QED
  BY <1>1, <1>2 DEF Life!Init, BaseName

\* A script begins from what its base says of the machines.
LEMMA IssueBegins ==
    ASSUME Smoothly, NEW a \in Scripts, Issue(a)
    PROVE  Life!Next
<1>1. UNCHANGED <<layout, data, running>> /\ action = "none" /\ action' = a
  BY DEF Issue, files, procs
<1>2. UNCHANGED <<Nodes, Used>>
  BY <1>1, ConfigIsFixed
<1>3. smooth' = TRUE
  BY Zenon DEF Issue, smooth
<1>4. base' \in {"pristine", "installed", "watched", "tracked", "other"}
  BY Zenon DEF Issue, BaseFor
<1>5. /\ base' = "pristine" => data = {} /\ running = {}
      /\ base' = "installed" => data = ToSet(Nodes)
  BY BasesAre DEF Smoothly, Course, Empty, Complete
<1>6. /\ BaseName' \in Life!Bases
      /\ BaseName' = "pristine" => base' = "pristine"
      /\ BaseName' = "installed" => base' = "installed"
  BY <1>4 DEF BaseName, Life!Bases
<1>7. Life!Begin(a)
  BY <1>1, <1>2, <1>3, <1>5, <1>6 DEF Life!Begin
<1> QED
  BY <1>2, <1>7 DEF Life!Next, Life!configuration, Life!Scripts, Scripts

\* A command that does what its script may do is a step of work.
LEMMA Works ==
    ASSUME Within', action \in Scripts, UNCHANGED <<layout, action, base>>,
           smooth' \in {smooth, FALSE},
           action = "install" => data \subseteq data' /\ running \subseteq running',
           action = "start" => data' = data /\ running \subseteq running',
           action = "stop" => data' = data /\ running' \subseteq running,
           action = "clean" => data' \subseteq data /\ running' \subseteq running
    PROVE  Life!Next
<1>1. UNCHANGED <<Nodes, Used>>
  BY ConfigIsFixed
<1>2. data' \subseteq ToSet(Nodes) /\ running' \subseteq Used
  BY <1>1 DEF Within
<1>3. action \in {"install", "start", "stop", "clean"} /\ action # "none" /\ BaseName' = BaseName
  BY DEF Scripts, BaseName
<1>4. Life!Work
  BY <1>2, <1>3 DEF Life!Work
<1> QED
  BY <1>1, <1>4 DEF Life!Next, Life!configuration

\* A script that ends before its last command, or without its outcome.
LEMMA Aborts ==
    ASSUME Within', action # "none", action' = "none", UNCHANGED <<layout, base, running>>, data \subseteq data',
           smooth' = FALSE \/ (smooth' = smooth /\ (smooth => BaseName \notin Life!MadeFor(action)))
    PROVE  Life!Next
<1>1. UNCHANGED <<Nodes, Used, BaseName>>
  BY ConfigIsFixed DEF BaseName
<1>2. data' \subseteq ToSet(Nodes)
  BY <1>1 DEF Within
<1>3. smooth' \in {smooth, FALSE} /\ (smooth' => BaseName \notin Life!MadeFor(action))
  <2>1. CASE smooth' = FALSE
    BY <2>1
  <2>2. CASE smooth' = smooth /\ (smooth => BaseName \notin Life!MadeFor(action))
    BY <2>2
  <2> QED
    BY <2>1, <2>2
<1>4. Life!Abort
  BY <1>1, <1>2, <1>3 DEF Life!Abort
<1> QED
  BY <1>1, <1>4 DEF Life!Next, Life!configuration

\* Each step of the scripts is a step of the abstract ones or none.
LEMMA StepIsLife ==
    ASSUME Smoothly, Within', [Next]_vars
    PROVE  [Life!Next]_(Life!vars)
<1> USE DEF Smoothly, Course
<1>1. CASE Issues
  BY <1>1, IssueBegins DEF Issues
<1>2. CASE Rests
  <2>1. UNCHANGED <<layout, action, base, data, running, enabled>>
    BY <1>2 DEF Rests, files, procs
  <2>2. UNCHANGED smooth
    BY <1>2, Zenon DEF Rests, smooth
  <2>3. UNCHANGED <<Nodes, Used, BaseName>>
    BY <2>1, ConfigIsFixed DEF BaseName
  <2> QED
    BY <2>1, <2>2, <2>3 DEF Life!vars, Life!configuration
<1>3. CASE Skips
  <2>1. action \in Scripts /\ UNCHANGED <<layout, action, base, data, running>>
    BY <1>3, PendingIs DEF Skips, Moves, files, procs, TypeOK
  <2>2. smooth' = smooth
    BY <1>3, Zenon DEF Skips, smooth
  <2> QED
    BY <2>1, <2>2, Works
<1>4. CASE Faulty
  <2>1. /\ action \in Scripts /\ Pending /\ UNCHANGED <<layout, action, base, running>> /\ data \subseteq data'
        /\ data' # data => Current.op \in NodeInstalls
    BY <1>4, PendingIs DEF Faulty, Leaves, Moves, procs, TypeOK
  <2>2. smooth' = FALSE
    BY <1>4, Zenon DEF Faulty, Leaves, smooth
  <2>3. action # "install" => Current.op \notin NodeInstalls
    <3>1. PICK op \in Op, x \in Thing : Current = C(op, x)
      BY <2>1, DidIs, PendingIs, CommandIs
    <3>2. Belongs(op, x)
      BY <2>1, <3>1, CurrentBelongs
    <3>3. Current.op = op
      BY <3>1, CommandIs
    <3> QED
      BY <2>1, <3>2, <3>3 DEF Belongs, Scripts, NodeInstalls
  <2> QED
    BY <2>1, <2>2, <2>3, Works DEF Scripts
<1>5. CASE Ends
  <2>1. action # "none" /\ action' = "none" /\ UNCHANGED <<layout, base, running>>
    BY <1>5 DEF Ends, procs
  <2>2. CASE UNCHANGED <<intact, data>> /\ ~Pending
    <3>1. smooth' = smooth
      BY <1>5, <2>2, Zenon DEF Ends, smooth
    <3>2. UNCHANGED <<Nodes, Used, BaseName>>
      BY <2>1, ConfigIsFixed DEF BaseName
    <3>3. smooth /\ BaseName \in Life!MadeFor(action) => Life!Outcome(action)
      BY <2>1, <2>2, EndsWell
    <3>4. Life!Finish
      BY <2>1, <2>2, <3>1, <3>2, <3>3 DEF Life!Finish
    <3> QED
      BY <3>2, <3>4 DEF Life!Next, Life!configuration
  <2>3. CASE UNCHANGED <<intact, data>> /\ Pending /\ AbortsOnError /\ ~CanRun(Current)
    <3>1. smooth' = smooth
      BY <1>5, <2>3, Zenon DEF Ends, smooth
    <3>2. action = "install"
      BY <2>3 DEF AbortsOnError
    <3>3. smooth => base # "pristine"
      BY <2>3, <3>2, InstallCanRun
    <3>4. smooth => BaseName \notin Life!MadeFor(action)
      BY <3>2, <3>3 DEF Life!MadeFor, BaseName
    <3> QED
      BY <2>1, <2>3, <3>1, <3>4, Aborts
  <2>4. CASE intact' = FALSE /\ data \subseteq data'
    <3>1. smooth' = FALSE
      BY <2>4, Zenon DEF smooth
    <3> QED
      BY <2>1, <2>4, <3>1, Aborts
  <2> QED
    BY <1>5, <2>2, <2>3, <2>4 DEF Ends, Leaves
<1>6. CASE Reboots
  <2>1. PICK m \in Machine : Reboot(m)
    BY <1>6 DEF Reboots
  <2>2. UNCHANGED <<layout, action, base, data>> /\ running' \subseteq running \cup enabled
    BY <2>1 DEF Reboot, files
  <2>3. smooth' = FALSE
    BY <2>1, Zenon DEF Reboot, smooth
  <2>4. UNCHANGED <<Nodes, Used, BaseName>>
    BY <2>2, ConfigIsFixed DEF BaseName
  <2>5. Life!Crash
    BY <2>2, <2>3, <2>4 DEF Life!Crash
  <2> QED
    BY <2>4, <2>5 DEF Life!Next, Life!configuration
<1>7. ASSUME NEW op \in Op, NEW x \in Thing, Runs(op, x) PROVE Life!Next
  <2>1. /\ action \in Scripts /\ Belongs(op, x) /\ Effect(op, x)
        /\ UNCHANGED <<layout, action, base>>
    BY <1>7, CurrentBelongs DEF Runs, Moves
  <2>2. smooth' = smooth
    BY <1>7, Zenon DEF Runs, smooth
  <2>3. action = "install" => data \subseteq data' /\ running \subseteq running'
    BY <2>1 DEF Belongs, Effect, NodeInstalls
  <2>4. action = "start" => data' = data /\ running \subseteq running'
    BY <2>1 DEF Belongs, Effect, NodeInstalls
  <2>5. action = "stop" => data' = data /\ running' \subseteq running
    BY <2>1 DEF Belongs, Effect, NodeInstalls
  <2>6. action = "clean" => data' \subseteq data /\ running' \subseteq running
    BY <2>1 DEF Belongs, Effect, NodeInstalls
  <2> QED
    BY <2>1, <2>2, <2>3, <2>4, <2>5, <2>6, Works
<1> QED
  BY <1>1, <1>2, <1>3, <1>4, <1>5, <1>6, <1>7, ScriptSteps

\* The traditional scripts implement Lifecycle, whatever fails and whichever machine
\* restarts: install.sh only adds, start.sh only brings up, stop.sh only takes down,
\* clean.sh only removes, and what goes smoothly from what it is made for ends well.
THEOREM TraditionalKeepsPromises == Spec => KeepsPromises
<1>1. Init => Life!Init
  BY InitIsLife
<1>2. Smoothly /\ Smoothly' /\ [Next]_vars => [Life!Next]_(Life!vars)
  BY StepIsLife DEF Smoothly, Course
<1> QED
  BY <1>1, <1>2, SmoothlyHolds, PTL DEF Spec, KeepsPromises, Life!Spec
=============================================================================
