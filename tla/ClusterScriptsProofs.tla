------------------------ MODULE ClusterScriptsProofs ------------------------
(***************************************************************************)
(* Theorems about ClusterScripts, for every configuration.                 *)
(*                                                                         *)
(* That install.sh leaves nothing undone rests only on its ERR trap.  All  *)
(* else rests on the order of the commands: the middle part shows that in  *)
(* each script every command comes after the commands it needs, and those  *)
(* that must not be repeated come once.  From there on a script is the set *)
(* of commands it has passed (Did, Passed), and the last part relates that *)
(* set to the state of the machines.                                       *)
(***************************************************************************)
EXTENDS ClusterScripts, Inductions

LEMMA OwnMachinesType == OwnMachines \subseteq Machine
  BY ScriptAssumption DEF OwnMachines, ToSet

\* What stays as it is, or only grows, except in clean.sh.
Kept ==
    /\ basedir \subseteq basedir' /\ packages \subseteq packages'
    /\ nodemgrDir \subseteq nodemgrDir' /\ clustermgrDir \subseteq clustermgrDir'
    /\ program \subseteq program' /\ data \subseteq data'
    /\ sysTables => sysTables'
    /\ serverRows \subseteq serverRows' /\ clusterRows \subseteq clusterRows'

\* The variables hold values of their types in every reachable state.
THEOREM Typing == Spec => []TypeOK
<1>1. Init => TypeOK
  BY ScriptAssumption DEF Init, TypeOK, ExternalMeta
<1>2. TypeOK /\ [Next]_vars => TypeOK'
  <2> SUFFICES ASSUME TypeOK, [Next]_vars PROVE TypeOK'
    OBVIOUS
  <2> USE ScriptAssumption DEF TypeOK
  <2>1. ASSUME NEW m \in Machine, OnMachine(m) PROVE TypeOK'
    <3>1. CASE InitNode(m)
      BY <3>1 DEF InitNode, Advance, procs, meta
    <3>2. CASE SetupNodemgr(m)
      BY <3>2 DEF SetupNodemgr, Advance, procs, meta
    <3>3. CASE SetupClustermgr(m)
      BY <3>3 DEF SetupClustermgr, Advance, procs, meta
    <3>4. CASE StartNodemgr(m)
      BY <3>4 DEF StartNodemgr, Advance, files, meta
    <3>5. CASE StartClustermgr(m)
      BY <3>5 DEF StartClustermgr, Advance, files, meta
    <3>6. CASE StartInstances(m)
      BY <3>6 DEF StartInstances, HideFailures, Managed, On, files, meta
    <3>7. CASE StopNodemgr(m)
      BY <3>7 DEF StopNodemgr, Advance, files, meta
    <3>8. CASE StopClustermgr(m)
      BY <3>8 DEF StopClustermgr, Advance, files, meta
    <3>9. CASE StopInstances(m)
      BY <3>9 DEF StopInstances, HideFailures, files, meta
    <3>10. CASE ClearInstances(m)
      <4>1. smooth' \in BOOLEAN /\ sysTables' \in BOOLEAN
        BY <3>10, Zenon DEF ClearInstances, HideFailures, LoseMeta, meta
      <4> QED
        BY <3>10, <4>1 DEF ClearInstances, HideFailures, LoseMeta, meta
    <3>11. CASE RemoveNodemgr(m)
      <4>1. smooth' \in BOOLEAN /\ sysTables' \in BOOLEAN
        BY <3>11, Zenon DEF RemoveNodemgr, Advance, LoseMeta, meta
      <4> QED
        BY <3>11, <4>1 DEF RemoveNodemgr, Advance, LoseMeta, procs, meta
    <3>12. CASE RemoveClustermgr(m)
      BY <3>12 DEF RemoveClustermgr, Advance, procs, meta
    <3> QED
      BY <2>1, <3>1, <3>2, <3>3, <3>4, <3>5, <3>6, <3>7, <3>8, <3>9, <3>10, <3>11, <3>12
      DEF OnMachine
  <2>2. ASSUME NEW n \in Instance, OnInstance(n) PROVE TypeOK'
    <3>1. CASE InstanceEnv(n)
      BY <3>1 DEF InstanceEnv, Advance, procs, meta
    <3>2. CASE InstallInstance(n)
      BY <3>2 DEF InstallInstance, Advance, meta
    <3>3. CASE StartInstance(n)
      BY <3>3 DEF StartInstance, Advance, files, meta
    <3>4. CASE StopInstance(n)
      BY <3>4 DEF StopInstance, Advance, files, meta
    <3>5. CASE RemoveData(n)
      <4>1. smooth' \in BOOLEAN /\ sysTables' \in BOOLEAN
        BY <3>5, Zenon DEF RemoveData, Advance, LoseMeta, meta
      <4> QED
        BY <3>5, <4>1 DEF RemoveData, Advance, LoseMeta, files, procs, meta
    <3>6. CASE RemoveMeta(n)
      <4>1. smooth' \in BOOLEAN /\ sysTables' \in BOOLEAN
        BY <3>6, Zenon DEF RemoveMeta, Advance, LoseMeta, meta
      <4> QED
        BY <3>6, <4>1 DEF RemoveMeta, Advance, LoseMeta, procs, meta
    <3> QED
      BY <2>2, <3>1, <3>2, <3>3, <3>4, <3>5, <3>6 DEF OnInstance
  <2>3. ASSUME NEW i \in DOMAIN Clusters, CreateCluster(i) PROVE TypeOK'
    BY <2>3 DEF CreateCluster, Advance, files, procs
  <2>4. CASE Bootstrap
    BY <2>4 DEF Bootstrap, Advance, files, procs
  <2>5. CASE AddMetadata
    BY <2>5, OwnMachinesType DEF AddMetadata, Advance, files, procs
  <2>6. CASE RemoveMetadata
    BY <2>6 DEF RemoveMetadata, Advance, files, procs
  <2>7. CASE CommandFails
    BY <2>7 DEF CommandFails, AfterError, files, procs, meta
  <2>8. CASE Finish
    BY <2>8 DEF Finish, files, procs, meta
  <2>9. CASE CommandFaults
    <3>1. smooth' \in BOOLEAN /\ sysTables' \in BOOLEAN
      BY <2>9, Zenon DEF CommandFaults, meta
    <3> QED
      BY <2>9, <3>1 DEF CommandFaults, AfterError, files, procs, meta
  <2>10. CASE Interrupt
    <3>1. smooth' \in BOOLEAN /\ sysTables' \in BOOLEAN
      BY <2>10, Zenon DEF Interrupt, meta
    <3> QED
      BY <2>10, <3>1 DEF Interrupt, files, procs, meta
  <2>11. ASSUME NEW m \in Machine, Crash(m) PROVE TypeOK'
    <3>1. smooth' \in BOOLEAN /\ sysTables' \in BOOLEAN
      BY <2>11, Zenon DEF Crash, meta
    <3> QED
      BY <2>11, <3>1 DEF Crash, files, meta
  <2>12. ASSUME NEW a \in Scripts, Issue(a) PROVE TypeOK'
    BY <2>12 DEF Issue, files, procs, meta
  <2>13. CASE UNCHANGED vars
    BY <2>13 DEF vars, script, files, procs, meta
  <2>14. ASSUME NEW n \in Instance, Revive(n) PROVE TypeOK'
    <3>1. smooth' \in BOOLEAN /\ sysTables' \in BOOLEAN
      BY <2>14, Zenon DEF Revive, meta
    <3> QED
      BY <2>14, <3>1 DEF Revive, files, meta
  <2> QED
    BY <2>1, <2>2, <2>3, <2>4, <2>5, <2>6, <2>7, <2>8, <2>9, <2>10, <2>11, <2>12, <2>13, <2>14
    DEF Next, Run, Faults
<1> QED
  BY <1>1, <1>2, PTL DEF Spec

\* The step does the work of the current command of install.sh.
NextIsDone == \A c : c = InstallScript[pc] => Done(c)'

\* What has been done stays done while everything is kept.
LEMMA DoneIsKept == ASSUME NEW c, Done(c), Kept PROVE Done(c)'
  BY DEF Done, Kept

\* A step that runs the current command of install.sh, keeps what there was
\* and does what the command is for, leaves nothing undone.
LEMMA StepOfInstall ==
    ASSUME TypeOK, InstallSkipsNothing, action = "install",
           pc' = pc + 1, Kept, NextIsDone
    PROVE  InstallSkipsNothing'
<1> SUFFICES ASSUME NEW i \in 1..pc PROVE Done(InstallScript[i])'
  BY DEF InstallSkipsNothing, TypeOK
<1>1. CASE i = pc
  BY <1>1 DEF NextIsDone
<1>2. CASE i \in 1..(pc - 1)
  <2>1. Done(InstallScript[i])
    BY <1>2 DEF InstallSkipsNothing
  <2> QED
    BY <2>1, DoneIsKept
<1> QED
  BY <1>1, <1>2 DEF TypeOK

\* A step that leaves the script where it is undoes nothing either.
LEMMA PauseOfInstall ==
    ASSUME InstallSkipsNothing, UNCHANGED <<action, pc>>, Kept
    PROVE  InstallSkipsNothing'
<1> SUFFICES ASSUME action = "install", NEW i \in 1..(pc - 1)
             PROVE  Done(InstallScript[i])'
  BY DEF InstallSkipsNothing
<1>1. Done(InstallScript[i])
  BY DEF InstallSkipsNothing
<1> QED
  BY <1>1, DoneIsKept

\* install.sh never passes a command that has not done its work.
THEOREM InstallIsThorough == Spec => []InstallSkipsNothing
<1>1. Init => InstallSkipsNothing
  BY DEF Init, InstallSkipsNothing
<1>2. TypeOK /\ InstallSkipsNothing /\ [Next]_vars => InstallSkipsNothing'
  <2> SUFFICES ASSUME TypeOK, InstallSkipsNothing, [Next]_vars
               PROVE  InstallSkipsNothing'
    OBVIOUS
  <2>1. ASSUME action # "install", action' # "install" PROVE InstallSkipsNothing'
    BY <2>1 DEF InstallSkipsNothing
  <2>2. ASSUME NEW m \in Machine, OnMachine(m) PROVE InstallSkipsNothing'
    <3>1. CASE InitNode(m)
      <4>1. pc' = pc + 1 /\ action' = action /\ Kept
        BY <3>1 DEF InitNode, Advance, procs, meta, Kept, files
      <4>2. action = "install" => NextIsDone
        BY <3>1, ScriptAssumption DEF InitNode, Advance, procs, meta, At, AtOneOf, Current, Commands, Done, Installers, NextIsDone
      <4> QED
        BY <4>1, <4>2, <2>1, StepOfInstall
    <3>2. CASE SetupNodemgr(m)
      <4>1. pc' = pc + 1 /\ action' = action /\ Kept
        BY <3>2 DEF SetupNodemgr, Advance, procs, meta, Kept, files
      <4>2. action = "install" => NextIsDone
        BY <3>2, ScriptAssumption DEF SetupNodemgr, Advance, procs, meta, At, AtOneOf, Current, Commands, Done, Installers, NextIsDone
      <4> QED
        BY <4>1, <4>2, <2>1, StepOfInstall
    <3>3. CASE SetupClustermgr(m)
      <4>1. pc' = pc + 1 /\ action' = action /\ Kept
        BY <3>3 DEF SetupClustermgr, Advance, procs, meta, Kept, files
      <4>2. action = "install" => NextIsDone
        BY <3>3, ScriptAssumption DEF SetupClustermgr, Advance, procs, meta, At, AtOneOf, Current, Commands, Done, Installers, NextIsDone
      <4> QED
        BY <4>1, <4>2, <2>1, StepOfInstall
    <3>4. CASE StartNodemgr(m)
      <4>1. pc' = pc + 1 /\ action' = action /\ Kept
        BY <3>4 DEF StartNodemgr, Advance, files, meta, Kept
      <4>2. action = "install" => NextIsDone
        BY <3>4, ScriptAssumption DEF StartNodemgr, Advance, files, meta, At, AtOneOf, Current, Commands, Done, Installers, NextIsDone
      <4> QED
        BY <4>1, <4>2, <2>1, StepOfInstall
    <3>5. CASE StartClustermgr(m)
      <4>1. pc' = pc + 1 /\ action' = action /\ Kept
        BY <3>5 DEF StartClustermgr, Advance, files, meta, Kept
      <4>2. action = "install" => NextIsDone
        BY <3>5, ScriptAssumption DEF StartClustermgr, Advance, files, meta, At, AtOneOf, Current, Commands, Done, Installers, NextIsDone
      <4> QED
        BY <4>1, <4>2, <2>1, StepOfInstall
    <3>6. CASE StartInstances(m)
      <4>1. pc' = pc + 1 /\ action' = action /\ Kept
        BY <3>6 DEF StartInstances, HideFailures, files, meta, Kept
      <4>2. action = "install" => NextIsDone
        BY <3>6, ScriptAssumption DEF StartInstances, HideFailures, files, meta, At, AtOneOf, Current, Commands, Done, Installers, NextIsDone
      <4> QED
        BY <4>1, <4>2, <2>1, StepOfInstall
    <3>7. CASE StopNodemgr(m)
      <4>1. pc' = pc + 1 /\ action' = action /\ Kept
        BY <3>7 DEF StopNodemgr, Advance, files, meta, Kept
      <4>2. action = "install" => NextIsDone
        BY <3>7, ScriptAssumption DEF StopNodemgr, Advance, files, meta, At, AtOneOf, Current, Commands, Done, Installers, NextIsDone
      <4> QED
        BY <4>1, <4>2, <2>1, StepOfInstall
    <3>8. CASE StopClustermgr(m)
      <4>1. pc' = pc + 1 /\ action' = action /\ Kept
        BY <3>8 DEF StopClustermgr, Advance, files, meta, Kept
      <4>2. action = "install" => NextIsDone
        BY <3>8, ScriptAssumption DEF StopClustermgr, Advance, files, meta, At, AtOneOf, Current, Commands, Done, Installers, NextIsDone
      <4> QED
        BY <4>1, <4>2, <2>1, StepOfInstall
    <3>9. CASE StopInstances(m)
      <4>1. pc' = pc + 1 /\ action' = action /\ Kept
        BY <3>9 DEF StopInstances, HideFailures, files, meta, Kept
      <4>2. action = "install" => NextIsDone
        BY <3>9, ScriptAssumption DEF StopInstances, HideFailures, files, meta, At, AtOneOf, Current, Commands, Done, Installers, NextIsDone
      <4> QED
        BY <4>1, <4>2, <2>1, StepOfInstall
    <3>10. CASE ClearInstances(m)
      BY <3>10, <2>1 DEF ClearInstances, InClean, HideFailures
    <3>11. CASE RemoveNodemgr(m)
      BY <3>11, <2>1 DEF RemoveNodemgr, InClean, Advance
    <3>12. CASE RemoveClustermgr(m)
      BY <3>12, <2>1 DEF RemoveClustermgr, InClean, Advance
    <3> QED
      BY <2>2, <3>1, <3>2, <3>3, <3>4, <3>5, <3>6, <3>7, <3>8, <3>9, <3>10, <3>11, <3>12 DEF OnMachine
  <2>3. ASSUME NEW n \in Instance, OnInstance(n) PROVE InstallSkipsNothing'
    <3>1. CASE InstanceEnv(n)
      <4>1. pc' = pc + 1 /\ action' = action /\ Kept
        BY <3>1 DEF InstanceEnv, Advance, procs, meta, Kept, files
      <4>2. action = "install" => NextIsDone
        BY <3>1, ScriptAssumption DEF InstanceEnv, Advance, procs, meta, At, AtOneOf, Current, Commands, Done, Installers, NextIsDone
      <4> QED
        BY <4>1, <4>2, <2>1, StepOfInstall
    <3>2. CASE InstallInstance(n)
      <4>1. pc' = pc + 1 /\ action' = action /\ Kept
        BY <3>2 DEF InstallInstance, Advance, meta, Kept, files
      <4>2. action = "install" => NextIsDone
        BY <3>2, ScriptAssumption DEF InstallInstance, Advance, meta, At, AtOneOf, Current, Commands, Done, Installers, NextIsDone
      <4> QED
        BY <4>1, <4>2, <2>1, StepOfInstall
    <3>3. CASE StartInstance(n)
      <4>1. pc' = pc + 1 /\ action' = action /\ Kept
        BY <3>3 DEF StartInstance, Advance, files, meta, Kept
      <4>2. action = "install" => NextIsDone
        BY <3>3, ScriptAssumption DEF StartInstance, Advance, files, meta, At, AtOneOf, Current, Commands, Done, Installers, NextIsDone
      <4> QED
        BY <4>1, <4>2, <2>1, StepOfInstall
    <3>4. CASE StopInstance(n)
      <4>1. pc' = pc + 1 /\ action' = action /\ Kept
        BY <3>4 DEF StopInstance, Advance, files, meta, Kept
      <4>2. action = "install" => NextIsDone
        BY <3>4, ScriptAssumption DEF StopInstance, Advance, files, meta, At, AtOneOf, Current, Commands, Done, Installers, NextIsDone
      <4> QED
        BY <4>1, <4>2, <2>1, StepOfInstall
    <3>5. CASE RemoveData(n)
      BY <3>5, <2>1 DEF RemoveData, InClean, Advance
    <3>6. CASE RemoveMeta(n)
      BY <3>6, <2>1 DEF RemoveMeta, InClean, Advance
    <3> QED
      BY <2>3, <3>1, <3>2, <3>3, <3>4, <3>5, <3>6 DEF OnInstance
  <2>4. ASSUME NEW i \in DOMAIN Clusters, CreateCluster(i) PROVE InstallSkipsNothing'
    <3>1. pc' = pc + 1 /\ action' = action /\ Kept
      BY <2>4 DEF CreateCluster, Advance, Kept, files
    <3>2. action = "install" => NextIsDone
      BY <2>4 DEF CreateCluster, At, Current, Commands, Done, Installers, NextIsDone
    <3> QED
      BY <3>1, <3>2, <2>1, StepOfInstall
  <2>5. CASE Bootstrap
    <3>1. pc' = pc + 1 /\ action' = action /\ Kept
      BY <2>5 DEF Bootstrap, Advance, Kept, files
    <3>2. action = "install" => NextIsDone
      BY <2>5 DEF Bootstrap, At, Current, Commands, Done, Installers, NextIsDone
    <3> QED
      BY <3>1, <3>2, <2>1, StepOfInstall
  <2>6. CASE AddMetadata
    <3>1. pc' = pc + 1 /\ action' = action /\ Kept
      BY <2>6 DEF AddMetadata, Advance, Kept, files
    <3>2. action = "install" => NextIsDone
      BY <2>6 DEF AddMetadata, At, Current, Commands, Done, Installers, NextIsDone
    <3> QED
      BY <3>1, <3>2, <2>1, StepOfInstall
  <2>7. CASE RemoveMetadata
    BY <2>7, <2>1 DEF RemoveMetadata, InClean, Advance
  <2>8. CASE CommandFails
    BY <2>8, <2>1 DEF CommandFails, AfterError, AbortsOnError, InstallSkipsNothing
  <2>9. CASE Finish
    BY <2>9, <2>1 DEF Finish, InstallSkipsNothing
  <2>10. CASE CommandFaults
    BY <2>10, <2>1 DEF CommandFaults, AfterError, AbortsOnError, InstallSkipsNothing
  <2>11. CASE Interrupt
    BY <2>11, <2>1 DEF Interrupt, InstallSkipsNothing
  <2>12. ASSUME NEW m \in Machine, Crash(m) PROVE InstallSkipsNothing'
    <3>1. UNCHANGED <<action, pc>> /\ Kept
      BY <2>12 DEF Crash, Kept, files, meta
    <3> QED
      BY <3>1, PauseOfInstall
  <2>13. ASSUME NEW a \in Scripts, Issue(a) PROVE InstallSkipsNothing'
    BY <2>13 DEF Issue, InstallSkipsNothing
  <2>14. CASE UNCHANGED vars
    <3>1. UNCHANGED <<action, pc>> /\ Kept
      BY <2>14 DEF vars, script, files, meta, Kept
    <3> QED
      BY <3>1, PauseOfInstall
  <2>15. ASSUME NEW n \in Instance, Revive(n) PROVE InstallSkipsNothing'
    <3>1. UNCHANGED <<action, pc>> /\ Kept
      BY <2>15 DEF Revive, Kept, files, meta
    <3> QED
      BY <3>1, PauseOfInstall
  <2> QED
    BY <2>2, <2>3, <2>4, <2>5, <2>6, <2>7, <2>8, <2>9, <2>10, <2>11, <2>12, <2>13, <2>14, <2>15
    DEF Next, Run, Faults
<1> QED
  BY <1>1, <1>2, Typing, PTL DEF Spec

-----------------------------------------------------------------------------
(* The commands of the scripts, and what each comes after. *)

\* What commands are run on: machines, instances, clusters by their numbers.
Thing == Machine \cup Instance \cup Nat
Op == {"init_node", "setup_nodemgr", "storage_env", "server_env", "install_storage", "bootstrap",
       "create_cluster", "add_comp", "setup_clustermgr", "add_metadata", "start_nodemgr",
       "start_clustermgr", "start_instances", "start_instance", "stop_nodemgr", "stop_instances",
       "stop_instance", "stop_clustermgr", "clear_instances", "rm_nodemgr", "halt_storage",
       "halt_comp", "rm_data", "rm_clustermgr", "remove_metadata", "rm_meta"}
Command == [op : Op, on : Thing]

AllOf(ops, S) == {C(op, x) : op \in ToSet(ops), x \in S}

\* Commands are equal only when both their parts are.
LEMMA CommandIs ==
    /\ \A op, x : C(op, x).op = op /\ C(op, x).on = x
    /\ \A op, x, o, y : C(op, x) = C(o, y) <=> op = o /\ x = y
    /\ \A op, x, o, S : C(op, x) \in All(o, S) <=> op = o /\ x \in S
    /\ \A op, x, ops, S : C(op, x) \in AllOf(ops, S) <=> op \in ToSet(ops) /\ x \in S
    /\ \A op \in Op, x \in Thing : C(op, x) \in Command
    /\ \A c \in Command : c = C(c.op, c.on) /\ c.op \in Op /\ c.on \in Thing
<1>1. \A op \in Op, x \in Thing : C(op, x) \in Command
  BY DEF C, Command
<1>2. \A c \in Command : c = C(c.op, c.on) /\ c.op \in Op /\ c.on \in Thing
  BY DEF C, Command
<1>3. \A op, x, ops, S : C(op, x) \in AllOf(ops, S) <=> op \in ToSet(ops) /\ x \in S
  BY CommandParts DEF AllOf
<1> QED
  BY <1>1, <1>2, <1>3, CommandParts

\* The same command for each of a list.
LEMMA AddsCmds ==
    ASSUME NEW D, NEW N, NEW O, NEW op, NEW S, NEW s \in Seq(S), IsInjective(s),
           \A x \in ToSet(s) : C(op, x) \in DOMAIN N /\ InPlace(C(op, x), D, N, O)
    PROVE  Adds(Cmds(op, s), D, All(op, ToSet(s)), N, O)
<1>1. Cmds(op, s) = [i \in DOMAIN s |-> C(op, s[i])]
  BY DEF Cmds, C
<1> QED
  BY <1>1, AddsSame

\* For each of a list, the same commands one after the other.
LEMMA AddsEach ==
    ASSUME NEW D, NEW N, NEW O, NEW Q, NEW ops \in Seq(Q), IsInjective(ops), ops # <<>>,
           NEW S, NEW s \in Seq(S), IsInjective(s),
           \A x \in ToSet(s) : \A j \in 1..Len(ops) :
              /\ C(ops[j], x) \in DOMAIN N
              /\ InPlace(C(ops[j], x), D \cup {C(ops[l], x) : l \in 1..(j - 1)}, N, O)
    PROVE  Adds(Each(ops, s), D, AllOf(ops, ToSet(s)), N, O)
<1> DEFINE b(x) == [j \in DOMAIN ops |-> C(ops[j], x)]
           ss == [i \in DOMAIN s |-> b(s[i])]
           E == [i \in DOMAIN s |-> {C(o, s[i]) : o \in ToSet(ops)}]
<1>1. /\ Len(s) \in Nat /\ DOMAIN s = 1..Len(s)
      /\ \A k \in 1..Len(s) : s[k] \in ToSet(s)
      /\ Len(ops) \in Nat /\ DOMAIN ops = 1..Len(ops)
      /\ \A k \in 1..Len(ops) : ops[k] \in ToSet(ops)
  BY DEF ToSet
<1>2. Each(ops, s) = FlattenSeq(ss)
  BY DEF Each, C
<1>3. /\ Len(ss) = Len(s)
      /\ Len(ss) = 0 => ss = <<>>
      /\ \A i \in 1..Len(s) : ss[i] = b(s[i]) /\ E[i] = {C(o, s[i]) : o \in ToSet(ops)}
  BY <1>1
<1>4. AllOf(ops, ToSet(s)) = {C(o, x) : o \in ToSet(ops), x \in ToSet(s)}
  BY DEF AllOf
<1>5. \A x : DOMAIN b(x) = 1..Len(ops) /\ Len(b(x)) = Len(ops) /\ \A j \in 1..Len(ops) : b(x)[j] = C(ops[j], x)
  BY <1>1
<1>6. ASSUME NEW x \in ToSet(s) PROVE b(x) \in Seq(DOMAIN N)
  <2>1. \A j \in 1..Len(ops) : C(ops[j], x) \in DOMAIN N
    OBVIOUS
  <2> QED
    BY <2>1, <1>1
<1> HIDE DEF ss, E, b
<1>7. FirstOf(E, Len(ss)) = AllOf(ops, ToSet(s))
  <2>1. \A i \in 1..Len(s) : E[i] \subseteq AllOf(ops, ToSet(s))
    BY <1>1, <1>3, <1>4
  <2>2. \A o \in ToSet(ops), x \in ToSet(s) : \E i \in 1..Len(s) : C(o, x) \in E[i]
    BY <1>1, <1>3 DEF ToSet
  <2> QED
    BY <2>1, <2>2, <1>3, <1>4 DEF FirstOf
<1>8. ASSUME NEW i \in 1..Len(ss)
       PROVE  Adds(ss[i], D \cup FirstOf(E, i - 1), E[i], N, O)
  <2> DEFINE x == s[i]
             F == FirstOf(E, i - 1)
  <2>1. x \in ToSet(s) /\ ss[i] = b(x) /\ E[i] = {C(o, x) : o \in ToSet(ops)}
    BY <1>1, <1>3
  <2>2. \A o : C(o, x) \notin F
    <3> SUFFICES ASSUME NEW o, NEW j \in 1..(i - 1), C(o, x) \in E[j] PROVE FALSE
      BY DEF FirstOf
    <3>1. j \in 1..Len(s) /\ j # i /\ i \in 1..Len(s)
      BY <1>1, <1>3
    <3>2. s[j] = x
      BY <3>1, <1>3, CommandIs
    <3> QED
      BY <3>1, <3>2, <1>1 DEF IsInjective
  <2> HIDE DEF x, F
  <2>3. ToSet(b(x)) = E[i]
    <3>1. ToSet(b(x)) = {C(ops[j], x) : j \in 1..Len(ops)}
      BY <1>5 DEF ToSet
    <3>2. {C(o, x) : o \in ToSet(ops)} = {C(ops[j], x) : j \in 1..Len(ops)}
      BY <1>1 DEF ToSet
    <3> QED
      BY <3>1, <3>2, <2>1
  <2>4. Orderly(b(x), D \cup F, N, O)
    <3> SUFFICES ASSUME NEW j \in 1..Len(ops)
                 PROVE  InPlace(b(x)[j], (D \cup F) \cup Before(b(x), j), N, O)
      BY <1>5 DEF Orderly
    <3>1. b(x)[j] = C(ops[j], x)
      BY <1>5
    <3>2. \A l \in 1..(j - 1) : l \in 1..Len(ops) /\ l # j
      BY <1>1
    <3>3. Before(b(x), j) = {C(ops[l], x) : l \in 1..(j - 1)}
      BY <3>2, <1>5 DEF Before
    <3>4. InPlace(C(ops[j], x), D \cup Before(b(x), j), N, O)
      BY <3>3, <2>1
    <3>5. C(ops[j], x) \notin F
      BY <2>2
    <3> QED
      BY <3>1, <3>4, <3>5 DEF InPlace
  <2> QED
    BY <2>1, <2>3, <2>4, <1>6 DEF Adds, F
<1>9. Adds(FlattenSeq(ss), D, FirstOf(E, Len(ss)), N, O)
  <2>1. Len(ss) \in Nat /\ (Len(ss) = 0 => ss = <<>>)
    BY <1>1, <1>3
  <2> QED
    BY <2>1, <1>8, AddsAll
<1> QED
  BY <1>2, <1>7, <1>9

-----------------------------------------------------------------------------
(* The configuration. *)

StorageIn(i) == ToSet(StorageOf(Clusters[i]))
CompsIn(i) == ToSet(Clusters[i].comps)
Numbers == DOMAIN Clusters
WorkMachines == ToSet(NodeMgrs) \cup ToSet(ClusterMgrs)

\* The lists of the configuration, by their types.
LEMMA TypesOfLists ==
    /\ Numbers = 1..Len(Clusters) /\ Len(Clusters) \in Nat /\ Numbers \subseteq Nat
    /\ \A i \in Numbers : /\ Clusters[i].shards \in Seq(Seq(Storage))
                          /\ StorageOf(Clusters[i]) \in Seq(Storage)
                          /\ Clusters[i].comps \in Seq(Comp)
                          /\ StorageIn(i) = UNION {ToSet(s) : s \in ToSet(Clusters[i].shards)}
    /\ NodeMgrs \in Seq(Machine) /\ ClusterMgrs \in Seq(Machine) /\ MetaNodes \in Seq(Storage)
<1>1. /\ Numbers = 1..Len(Clusters) /\ Len(Clusters) \in Nat /\ Numbers \subseteq Nat
      /\ \A i \in Numbers : Clusters[i].shards \in Seq(Seq(Storage)) /\ Clusters[i].comps \in Seq(Comp)
  <2> DEFINE R == [shards : Seq(Seq(Storage)), comps : Seq(Comp)]
  <2>1. Clusters \in Seq(R)
    BY ScriptAssumption
  <2>2. \A r \in R : r.shards \in Seq(Seq(Storage)) /\ r.comps \in Seq(Comp)
    OBVIOUS
  <2> HIDE DEF R
  <2>3. \A i \in 1..Len(Clusters) : Clusters[i] \in R
    BY <2>1
  <2> QED
    BY <2>1, <2>2, <2>3 DEF Numbers
<1>2. ASSUME NEW i \in Numbers
      PROVE  /\ StorageOf(Clusters[i]) \in Seq(Storage)
             /\ StorageIn(i) = UNION {ToSet(s) : s \in ToSet(Clusters[i].shards)}
  <2> DEFINE ss == Clusters[i].shards
  <2>1. ss \in Seq(Seq(Storage))
    BY <1>1
  <2> HIDE DEF ss
  <2>2. /\ Len(ss) \in Nat /\ DOMAIN ss = 1..Len(ss)
        /\ Len(ss) = 0 => ss = <<>>
        /\ \A k \in 1..Len(ss) : ss[k] \in Seq(Storage)
    BY <2>1
  <2>3. /\ FlattenSeq(ss) \in Seq(Storage)
        /\ ToSet(FlattenSeq(ss)) = UNION {ToSet(ss[k]) : k \in 1..Len(ss)}
    BY <2>2, ElementsOfFlat
  <2>4. {ToSet(ss[k]) : k \in 1..Len(ss)} = {ToSet(s) : s \in ToSet(ss)}
    <3>1. ToSet(ss) = {ss[k] : k \in 1..Len(ss)}
      BY <2>2 DEF ToSet
    <3> QED
      BY <3>1
  <2> QED
    BY <2>3, <2>4 DEF StorageIn, StorageOf, ss
<1> QED
  BY <1>1, <1>2, ScriptAssumption

\* What the validated configuration says of the instances and their machines.
LEMMA Configured ==
    /\ Metas \subseteq Storage
    /\ \A i \in Numbers : StorageIn(i) \subseteq Storage /\ CompsIn(i) \subseteq Comp
    /\ \A i \in Numbers : StorageIn(i) \cap Metas = {}
    /\ \A i, j \in Numbers : i # j => StorageIn(i) \cap StorageIn(j) = {} /\ CompsIn(i) \cap CompsIn(j) = {}
    /\ \A n \in Storage : n \in Metas \/ \E i \in Numbers : n \in StorageIn(i)
    /\ \A n \in Comp : \E i \in Numbers : n \in CompsIn(i)
    /\ \A n \in Instance : Host[n] \in ToSet(NodeMgrs) /\ Host[n] \in Machine
    /\ Storage \cap Comp = {} /\ Primary \subseteq Storage
    /\ OwnMachines \subseteq Machine /\ ToSet(ClusterMgrs) \subseteq Machine /\ WorkMachines \subseteq Machine
<1>1. \A S : \A s \in Seq(S) : ToSet(s) \subseteq S
  BY DEF ToSet
<1>2. Validated
  BY ScriptAssumption
<1>3. /\ \A i \in Numbers : StorageIn(i) \cap Metas = {}
      /\ \A i, j \in Numbers : i # j => StorageIn(i) \cap StorageIn(j) = {} /\ CompsIn(i) \cap CompsIn(j) = {}
      /\ \A n \in Storage : n \in Metas \/ \E i \in Numbers : n \in StorageIn(i)
      /\ \A n \in Comp : \E i \in Numbers : n \in CompsIn(i)
      /\ \A n \in Instance : Host[n] \in ToSet(NodeMgrs)
  BY <1>2 DEF Validated, Numbers, StorageIn, CompsIn, Metas
<1>4. \A n \in Instance : Host[n] \in Machine
  BY ScriptAssumption
<1>5. Metas \subseteq Storage
  BY <1>1, TypesOfLists DEF Metas
<1>6. ASSUME NEW i \in Numbers PROVE StorageIn(i) \subseteq Storage /\ CompsIn(i) \subseteq Comp
  BY <1>1, TypesOfLists DEF StorageIn, CompsIn
<1>7. OwnMachines \subseteq Machine /\ ToSet(ClusterMgrs) \subseteq Machine /\ WorkMachines \subseteq Machine
  BY <1>1, TypesOfLists DEF OwnMachines, WorkMachines
<1> QED
  BY <1>3, <1>4, <1>5, <1>6, <1>7, ScriptAssumption

\* A shard has only nodes of its cluster.
LEMMA ShardsAre ==
    /\ \A n \in Metas : ShardOf(n) \subseteq Metas
    /\ \A i \in Numbers : \A n \in StorageIn(i) : ShardOf(n) \subseteq StorageIn(i)
    /\ \A i \in Numbers : \A n \in CompsIn(i) : ClusterOf(n) = i
<1> DEFINE ofClusters == UNION {ToSet(Clusters[i].shards) : i \in DOMAIN Clusters}
           chosen(n) == CHOOSE s \in ofClusters \cup {MetaNodes} : n \in ToSet(s)
<1>1. \A n : ShardOf(n) = ToSet(chosen(n))
  BY DEF ShardOf
<1>2. ASSUME NEW s \in ofClusters PROVE \E i \in Numbers : ToSet(s) \subseteq StorageIn(i)
  BY TypesOfLists DEF Numbers
<1>3. ASSUME NEW i \in Numbers, NEW n \in StorageIn(i) PROVE \E s \in ofClusters : n \in ToSet(s)
  BY TypesOfLists DEF Numbers
<1> HIDE DEF ofClusters
<1>4. ASSUME NEW n \in Metas PROVE ShardOf(n) \subseteq Metas
  <2>1. n \in ToSet(MetaNodes)
    BY DEF Metas
  <2>2. chosen(n) \in ofClusters \cup {MetaNodes} /\ n \in ToSet(chosen(n))
    BY <2>1
  <2> HIDE DEF chosen
  <2>3. chosen(n) \notin ofClusters
    BY <2>2, <1>2, Configured
  <2> QED
    BY <2>2, <2>3, <1>1 DEF Metas
<1>5. ASSUME NEW i \in Numbers, NEW n \in StorageIn(i) PROVE ShardOf(n) \subseteq StorageIn(i)
  <2>1. chosen(n) \in ofClusters \cup {MetaNodes} /\ n \in ToSet(chosen(n))
    BY <1>3
  <2> HIDE DEF chosen
  <2>2. n \notin ToSet(MetaNodes)
    BY Configured DEF Metas
  <2>3. PICK j \in Numbers : ToSet(chosen(n)) \subseteq StorageIn(j)
    BY <2>1, <2>2, <1>2
  <2>4. i = j
    BY <2>1, <2>3, Configured
  <2> QED
    BY <2>3, <2>4, <1>1
<1>6. ASSUME NEW i \in Numbers, NEW n \in CompsIn(i) PROVE ClusterOf(n) = i
  <2>1. \A j \in Numbers : n \in CompsIn(j) => j = i
    BY Configured
  <2> QED
    BY <2>1 DEF ClusterOf, CompsIn, Numbers
<1> QED
  BY <1>4, <1>5, <1>6

\* The lists that the scripts go through.
LEMMA ListsAre ==
    /\ OwnNodeMgrs \in Seq(Machine) /\ IsInjective(OwnNodeMgrs) /\ ToSet(OwnNodeMgrs) = OwnMachines
    /\ WorkIps \in Seq(Machine) /\ IsInjective(WorkIps) /\ ToSet(WorkIps) = WorkMachines
    /\ IsInjective(ClusterMgrs)
    /\ \A i \in Numbers : IsInjective(StorageOf(Clusters[i])) /\ IsInjective(Clusters[i].comps)
    /\ IsInjective(MetaNodes)
<1>1. Validated
  BY ScriptAssumption
<1>2. /\ IsInjective(ClusterMgrs) /\ IsInjective(NodeMgrs) /\ IsInjective(MetaNodes)
      /\ \A i \in Numbers : IsInjective(StorageOf(Clusters[i])) /\ IsInjective(Clusters[i].comps)
  BY <1>1 DEF Validated, Numbers
<1>3. /\ OwnNodeMgrs \in Seq(Machine \cap (Machine \ Skip))
      /\ ToSet(OwnNodeMgrs) = ToSet(NodeMgrs) \cap (Machine \ Skip)
      /\ IsInjective(OwnNodeMgrs)
  BY <1>2, TypesOfLists, ThoseAre, ThoseOnce DEF OwnNodeMgrs
<1>4. ToSet(NodeMgrs) \subseteq Machine
  BY TypesOfLists DEF ToSet
<1>5. OwnNodeMgrs \in Seq(Machine) /\ ToSet(OwnNodeMgrs) = OwnMachines
  <2>1. Machine \cap (Machine \ Skip) \subseteq Machine
    OBVIOUS
  <2>2. \A S, T : S \subseteq T => Seq(S) \subseteq Seq(T)
    OBVIOUS
  <2> QED
    BY <1>3, <1>4, <2>1, <2>2 DEF OwnMachines
<1>6. IsFiniteSet(WorkMachines)
  <2>1. \A S : \A s \in Seq(S) : IsFiniteSet(ToSet(s))
    <3> SUFFICES ASSUME NEW S, NEW s \in Seq(S) PROVE IsFiniteSet(ToSet(s))
      OBVIOUS
    <3> DEFINE f == [i \in 1..Len(s) |-> s[i]]
    <3>1. Len(s) \in Nat /\ ToSet(s) = {f[i] : i \in 1..Len(s)}
      BY DEF ToSet
    <3>2. IsFiniteSet(1..Len(s))
      BY <3>1, FS_Interval
    <3>3. f \in Surjection(1..Len(s), ToSet(s))
      BY <3>1 DEF Surjection
    <3> QED
      BY <3>2, <3>3, FS_Surjection
  <2>2. IsFiniteSet(ToSet(NodeMgrs)) /\ IsFiniteSet(ToSet(ClusterMgrs))
    BY <2>1, TypesOfLists
  <2> QED
    BY <2>2, FS_Union DEF WorkMachines
<1>7. WorkIps \in Seq(WorkMachines) /\ IsInjective(WorkIps) /\ ToSet(WorkIps) = WorkMachines
  BY <1>6, ListOfSet DEF WorkIps, WorkMachines
<1>8. WorkIps \in Seq(Machine)
  <2>1. \A S, T : S \subseteq T => Seq(S) \subseteq Seq(T)
    OBVIOUS
  <2> QED
    BY <1>7, <2>1, Configured
<1> QED
  BY <1>2, <1>3, <1>5, <1>7, <1>8

-----------------------------------------------------------------------------
(* install.sh: each command after what it needs. *)

MetaReady == IF ExternalMeta THEN {} ELSE All("bootstrap", {0})
Registers == IF HasWorkNode THEN All("add_metadata", {0}) ELSE {}
\* All that comes before the managers are registered and started.
Installs ==
    All("init_node", WorkMachines) \cup All("setup_nodemgr", OwnMachines)
      \cup All("storage_env", Storage) \cup All("install_storage", Storage) \cup MetaReady
      \cup All("server_env", Comp) \cup All("create_cluster", Numbers)
      \cup All("add_comp", Comp) \cup All("setup_clustermgr", ToSet(ClusterMgrs))
Managers == All("start_nodemgr", OwnMachines) \cup All("start_clustermgr", ToSet(ClusterMgrs))

NeedsInInstall(op, x) ==
    CASE op \in {"setup_nodemgr", "setup_clustermgr"} -> {C("init_node", x)}
      [] op \in {"storage_env", "server_env"} -> All("setup_nodemgr", {Host[x]} \ Skip)
      [] op = "install_storage" -> {C("storage_env", x)} \cup
            (IF x \in Primary THEN {} ELSE All("install_storage", ShardOf(x) \cap Primary))
      [] op = "bootstrap" -> All("install_storage", Metas)
      [] op = "create_cluster" -> MetaReady \cup All("install_storage", StorageIn(x))
      [] op = "add_comp" -> MetaReady \cup {C("create_cluster", ClusterOf(x)), C("server_env", x)}
      [] op = "add_metadata" -> Installs
      [] op \in {"start_nodemgr", "start_clustermgr"} -> Installs \cup Registers
      [] OTHER -> {}
InstallNeeds == [c \in Command |-> NeedsInInstall(c.op, c.on)]
InstallOnce ==
    {c \in Command : c.op \in {"storage_env", "server_env", "install_storage", "add_comp",
                               "bootstrap", "create_cluster"}}

InstallAdds(s, D, E) == Adds(s, D, E, InstallNeeds, InstallOnce)
InstallFits(c, D) == c \in Command /\ InPlace(c, D, InstallNeeds, InstallOnce)

\* A command of install.sh fits after D when D holds what it needs, and not the command.
LEMMA InstallFitsIs ==
    ASSUME NEW op \in Op, NEW x \in Thing, NEW D,
           NeedsInInstall(op, x) \subseteq D,
           C(op, x) \in D => op \notin {"storage_env", "server_env", "install_storage", "add_comp",
                                        "bootstrap", "create_cluster"}
    PROVE  InstallFits(C(op, x), D)
<1>1. C(op, x) \in Command /\ C(op, x).op = op /\ C(op, x).on = x
  BY CommandIs
<1>2. InstallNeeds[C(op, x)] = NeedsInInstall(op, x)
  BY <1>1 DEF InstallNeeds
<1>3. C(op, x) \in InstallOnce => op \in {"storage_env", "server_env", "install_storage", "add_comp",
                                        "bootstrap", "create_cluster"}
  BY <1>1 DEF InstallOnce
<1> QED
  BY <1>1, <1>2, <1>3 DEF InstallFits, InPlace

\* Two parts of install.sh, one after the other.
LEMMA InstallAddsBoth ==
    ASSUME NEW D, NEW E, NEW F, NEW a, NEW b, InstallAdds(a, D, E), InstallAdds(b, D \cup E, F)
    PROVE  InstallAdds(a \o b, D, E \cup F)
  BY AddsBoth DEF InstallAdds

\* The same command for each of a list, in install.sh.
LEMMA InstallAddsCmds ==
    ASSUME NEW D, NEW op, NEW S, NEW s \in Seq(S), IsInjective(s),
           \A x \in ToSet(s) : InstallFits(C(op, x), D)
    PROVE  InstallAdds(Cmds(op, s), D, All(op, ToSet(s)))
<1>1. DOMAIN InstallNeeds = Command
  BY DEF InstallNeeds
<1> QED
  BY <1>1, AddsCmds DEF InstallAdds, InstallFits

\* The commands for a list that is put together from two.
LEMMA CmdsOfBoth ==
    ASSUME NEW op, NEW S, NEW a \in Seq(S), NEW b \in Seq(S)
    PROVE  Cmds(op, a \o b) = Cmds(op, a) \o Cmds(op, b)
<1>1. /\ Len(a) \in Nat /\ Len(b) \in Nat /\ Len(a \o b) = Len(a) + Len(b)
      /\ DOMAIN a = 1..Len(a) /\ DOMAIN b = 1..Len(b) /\ DOMAIN (a \o b) = 1..(Len(a) + Len(b))
  OBVIOUS
<1>2. \A s \in Seq(S) : /\ Cmds(op, s) \in Seq({C(op, x) : x \in S})
                        /\ Len(Cmds(op, s)) = Len(s)
                        /\ \A i \in 1..Len(s) : Cmds(op, s)[i] = C(op, s[i])
  BY DEF Cmds, C
<1> DEFINE T == {C(op, x) : x \in S}
           ca == Cmds(op, a)
           cb == Cmds(op, b)
           l == Cmds(op, a \o b)
<1>3. /\ ca \in Seq(T) /\ Len(ca) = Len(a) /\ \A i \in 1..Len(a) : ca[i] = C(op, a[i])
      /\ cb \in Seq(T) /\ Len(cb) = Len(b) /\ \A i \in 1..Len(b) : cb[i] = C(op, b[i])
  BY <1>2
<1>4. /\ l \in Seq(T) /\ Len(l) = Len(a) + Len(b)
      /\ \A i \in 1..(Len(a) + Len(b)) : l[i] = C(op, (a \o b)[i])
  <2>1. a \o b \in Seq(S)
    OBVIOUS
  <2> QED
    BY <2>1, <1>1, <1>2
<1> HIDE DEF T, ca, cb, l
<1>5. /\ \A i \in 1..Len(a) : (a \o b)[i] = a[i] /\ (ca \o cb)[i] = ca[i]
      /\ \A i \in 1..Len(b) : /\ (a \o b)[Len(a) + i] = b[i]
                              /\ (ca \o cb)[Len(a) + i] = cb[i]
  BY <1>1, <1>3
<1>6. ASSUME NEW i \in 1..(Len(a) + Len(b)) PROVE l[i] = (ca \o cb)[i]
  <2>1. CASE i \in 1..Len(a)
    BY <2>1, <1>3, <1>4, <1>5
  <2>2. CASE i \notin 1..Len(a)
    <3>1. PICK k \in 1..Len(b) : i = Len(a) + k
      <4>1. i - Len(a) \in 1..Len(b) /\ i = Len(a) + (i - Len(a))
        BY <2>2, <1>1
      <4> QED
        BY <4>1
    <3> QED
      BY <3>1, <1>3, <1>4, <1>5
  <2> QED
    BY <2>1, <2>2
<1>7. ca \o cb \in Seq(T) /\ Len(ca \o cb) = Len(a) + Len(b)
  <2>1. ca \in Seq(T) /\ cb \in Seq(T)
    BY <1>3
  <2>2. ca \o cb \in Seq(T) /\ Len(ca \o cb) = Len(ca) + Len(cb)
    BY <2>1
  <2> QED
    BY <2>2, <1>3
<1>8. l = ca \o cb
  BY <1>1, <1>4, <1>6, <1>7
<1> QED
  BY <1>8 DEF l, ca, cb

\* The primaries of a list, then the rest of it.
LEMMA InstallAddsInOrder ==
    ASSUME NEW D, NEW op, NEW s \in Seq(Storage), IsInjective(s),
           \A x \in ToSet(s) \cap Primary : InstallFits(C(op, x), D),
           \A x \in ToSet(s) \ Primary :
              InstallFits(C(op, x), D \cup All(op, ToSet(s) \cap Primary))
    PROVE  InstallAdds(Cmds(op, PrimariesFirst(s)), D, All(op, ToSet(s)))
<1> DEFINE a == Those(s, Primary)
           b == Those(s, Replica)
<1>1. /\ a \in Seq(Storage \cap Primary) /\ ToSet(a) = ToSet(s) \cap Primary /\ IsInjective(a)
      /\ b \in Seq(Storage \cap Replica) /\ ToSet(b) = ToSet(s) \cap Replica /\ IsInjective(b)
  BY ThoseAre, ThoseOnce
<1>2. PrimariesFirst(s) = a \o b
  BY DEF PrimariesFirst
<1> HIDE DEF a, b
<1>3. a \in Seq(Storage) /\ b \in Seq(Storage)
  BY <1>1
<1>4. ToSet(b) = ToSet(s) \ Primary /\ ToSet(s) \subseteq Storage
  BY <1>1 DEF Replica, ToSet
<1>5. InstallAdds(Cmds(op, a), D, All(op, ToSet(a)))
  BY <1>1, InstallAddsCmds
<1>6. InstallAdds(Cmds(op, b), D \cup All(op, ToSet(a)), All(op, ToSet(b)))
  <2>1. \A x \in ToSet(b) : InstallFits(C(op, x), D \cup All(op, ToSet(a)))
    BY <1>1, <1>4
  <2> QED
    BY <2>1, <1>1, InstallAddsCmds
<1>7. Cmds(op, PrimariesFirst(s)) = Cmds(op, a) \o Cmds(op, b)
  BY <1>2, <1>3, CmdsOfBoth
<1>8. All(op, ToSet(a)) \cup All(op, ToSet(b)) = All(op, ToSet(s))
  BY <1>1, <1>4 DEF All
<1> QED
  BY <1>5, <1>6, <1>7, <1>8, InstallAddsBoth

\* All that commands are run on.
LEMMA Things ==
    /\ \A m \in Machine : m \in Thing
    /\ \A n \in Instance : n \in Thing
    /\ \A n \in Storage : n \in Thing /\ n \in Instance
    /\ \A n \in Comp : n \in Thing /\ n \in Instance
    /\ \A i \in Numbers : i \in Thing
    /\ 0 \in Thing
  BY TypesOfLists DEF Thing, Instance

\* The machines and the metadata shard, before the clusters.
Prepared ==
    All("init_node", WorkMachines) \cup All("setup_nodemgr", OwnMachines)
      \cup All("storage_env", Metas) \cup All("install_storage", Metas) \cup MetaReady

InstallBegins ==
    Cmds("init_node", WorkIps)
      \o Cmds("setup_nodemgr", OwnNodeMgrs)
      \o Cmds("storage_env", PrimariesFirst(MetaNodes))
      \o Cmds("install_storage", PrimariesFirst(MetaNodes))
      \o (IF ExternalMeta THEN <<>> ELSE Cmd("bootstrap"))

\* A single command in install.sh.
LEMMA InstallAddsOne ==
    ASSUME NEW D, NEW op, NEW x, InstallFits(C(op, x), D)
    PROVE  InstallAdds(<<C(op, x)>>, D, All(op, {x}))
<1>1. DOMAIN InstallNeeds = Command
  BY DEF InstallNeeds
<1>2. All(op, {x}) = {C(op, x)}
  BY DEF All
<1> QED
  BY <1>1, <1>2, AddsOne DEF InstallAdds, InstallFits, InPlace

\* No command at all.
LEMMA InstallAddsNothing == ASSUME NEW D PROVE InstallAdds(<<>>, D, {})
  BY AddsNothing DEF InstallAdds

\* An instance's environment needs only the package on its machine.
LEMMA EnvFits ==
    ASSUME NEW op \in {"storage_env", "server_env"}, NEW x \in Instance, NEW D,
           All("setup_nodemgr", OwnMachines) \subseteq D, C(op, x) \notin D
    PROVE  InstallFits(C(op, x), D)
<1>1. {Host[x]} \ Skip \subseteq OwnMachines
  BY Configured DEF OwnMachines
<1>2. All("setup_nodemgr", {Host[x]} \ Skip) \subseteq All("setup_nodemgr", OwnMachines)
  BY <1>1 DEF All
<1>3. NeedsInInstall(op, x) = All("setup_nodemgr", {Host[x]} \ Skip)
  BY DEF NeedsInInstall
<1>4. op \in Op /\ x \in Thing
  BY Things DEF Op
<1> QED
  BY <1>2, <1>3, <1>4, InstallFitsIs

\* A storage node is installed after its environment and the primaries of its shard.
LEMMA StorageFits ==
    ASSUME NEW x \in Storage, NEW D, C("storage_env", x) \in D, C("install_storage", x) \notin D,
           x \notin Primary => All("install_storage", ShardOf(x) \cap Primary) \subseteq D
    PROVE  InstallFits(C("install_storage", x), D)
<1>1. NeedsInInstall("install_storage", x) \subseteq D
  BY DEF NeedsInInstall
<1>2. x \in Thing
  BY Things
<1> QED
  BY <1>1, <1>2, Things, InstallFitsIs DEF Op

\* The machines and the metadata shard are prepared in order.
LEMMA InstallBeginsInOrder == InstallAdds(InstallBegins, {}, Prepared)
<1> DEFINE A1 == All("init_node", WorkMachines)
           A2 == All("setup_nodemgr", OwnMachines)
           A3 == All("storage_env", Metas)
           A4 == All("install_storage", Metas)
<1>1. InstallAdds(Cmds("init_node", WorkIps), {}, A1)
  <2>1. ASSUME NEW x \in WorkMachines PROVE InstallFits(C("init_node", x), {})
    <3>1. NeedsInInstall("init_node", x) = {} /\ x \in Thing
      BY Things, Configured DEF NeedsInInstall
    <3> QED
      BY <3>1, Things, InstallFitsIs DEF Op
  <2> QED
    BY <2>1, ListsAre, InstallAddsCmds
<1>2. InstallAdds(Cmds("setup_nodemgr", OwnNodeMgrs), A1, A2)
  <2>1. ASSUME NEW x \in OwnMachines PROVE InstallFits(C("setup_nodemgr", x), A1)
    <3>1. NeedsInInstall("setup_nodemgr", x) = {C("init_node", x)} /\ x \in Thing
      BY Things, Configured DEF NeedsInInstall
    <3>2. C("init_node", x) \in A1
      BY CommandIs DEF OwnMachines, WorkMachines
    <3> QED
      BY <3>1, <3>2, Things, InstallFitsIs DEF Op
  <2> QED
    BY <2>1, ListsAre, InstallAddsCmds
<1>3. InstallAdds(Cmds("storage_env", PrimariesFirst(MetaNodes)), A1 \cup A2, A3)
  <2>1. ASSUME NEW x \in Metas, NEW F, C("storage_env", x) \notin F
        PROVE  InstallFits(C("storage_env", x), (A1 \cup A2) \cup F)
    <3>1. C("storage_env", x) \notin A1 \cup A2
      BY CommandIs
    <3>2. x \in Instance
      BY Configured, Things
    <3> QED
      BY <2>1, <3>1, <3>2, EnvFits
  <2>2. \A x \in Metas \ Primary : C("storage_env", x) \notin All("storage_env", Metas \cap Primary)
    BY CommandIs
  <2>3. \A x \in Metas \cap Primary : InstallFits(C("storage_env", x), A1 \cup A2)
    <3>1. A1 \cup A2 = (A1 \cup A2) \cup {}
      OBVIOUS
    <3> QED
      BY <3>1, <2>1
  <2> HIDE DEF A1, A2
  <2> QED
    BY <2>1, <2>2, <2>3, TypesOfLists, ListsAre, InstallAddsInOrder DEF Metas
<1>4. InstallAdds(Cmds("install_storage", PrimariesFirst(MetaNodes)), (A1 \cup A2) \cup A3, A4)
  <2> DEFINE D == (A1 \cup A2) \cup A3
             P == All("install_storage", Metas \cap Primary)
  <2>1. \A x \in Metas : C("storage_env", x) \in D /\ C("install_storage", x) \notin D
    BY CommandIs
  <2>2. \A x \in Metas \ Primary :
           C("install_storage", x) \notin P /\ All("install_storage", ShardOf(x) \cap Primary) \subseteq P
    BY ShardsAre, CommandIs DEF All
  <2> HIDE DEF D, P
  <2>3. \A x \in Metas \cap Primary : InstallFits(C("install_storage", x), D)
    BY <2>1, Configured, StorageFits
  <2>4. ASSUME NEW x \in Metas \ Primary PROVE InstallFits(C("install_storage", x), D \cup P)
    <3>1. C("storage_env", x) \in D \cup P /\ C("install_storage", x) \notin D \cup P
      BY <2>1, <2>2
    <3>2. All("install_storage", ShardOf(x) \cap Primary) \subseteq D \cup P
      BY <2>2
    <3> QED
      BY <3>1, <3>2, Configured, StorageFits
  <2>5. InstallAdds(Cmds("install_storage", PrimariesFirst(MetaNodes)), D, A4)
    BY <2>3, <2>4, TypesOfLists, ListsAre, InstallAddsInOrder DEF Metas, P
  <2> QED
    BY <2>5 DEF D
<1>5. InstallAdds(IF ExternalMeta THEN <<>> ELSE Cmd("bootstrap"), ((A1 \cup A2) \cup A3) \cup A4, MetaReady)
  <2> DEFINE D == ((A1 \cup A2) \cup A3) \cup A4
  <2>1. CASE ExternalMeta
    BY <2>1, InstallAddsNothing DEF MetaReady
  <2>2. CASE ~ExternalMeta
    <3>1. NeedsInInstall("bootstrap", 0) \subseteq D
      BY DEF NeedsInInstall
    <3>2. C("bootstrap", 0) \notin D
      BY CommandIs
    <3>3. InstallFits(C("bootstrap", 0), D)
      <4> HIDE DEF D
      <4> QED
        BY <3>1, <3>2, Things, InstallFitsIs DEF Op
    <3>4. Cmd("bootstrap") = <<C("bootstrap", 0)>>
      BY DEF Cmd, C
    <3> QED
      BY <2>2, <3>3, <3>4, InstallAddsOne DEF MetaReady
  <2> QED
    BY <2>1, <2>2
<1>6. (((({} \cup A1) \cup A2) \cup A3) \cup A4) \cup MetaReady = Prepared /\ {} \cup A1 = A1
  BY DEF Prepared
<1> HIDE DEF A1, A2, A3, A4
<1>7. InstallAdds(Cmds("init_node", WorkIps) \o Cmds("setup_nodemgr", OwnNodeMgrs), {}, A1 \cup A2)
  BY <1>1, <1>2, <1>6, InstallAddsBoth
<1> DEFINE B == Cmds("init_node", WorkIps) \o Cmds("setup_nodemgr", OwnNodeMgrs)
<1>8. ASSUME NEW E, NEW F, NEW a, NEW b, InstallAdds(a, {}, E), InstallAdds(b, E, F)
      PROVE  InstallAdds(a \o b, {}, E \cup F)
  <2>1. {} \cup E = E
    OBVIOUS
  <2> QED
    BY <2>1, <1>8, InstallAddsBoth
<1> HIDE DEF B
<1>9. InstallAdds(B \o Cmds("storage_env", PrimariesFirst(MetaNodes)), {}, (A1 \cup A2) \cup A3)
  BY <1>3, <1>7, <1>8 DEF B
<1>10. InstallAdds((B \o Cmds("storage_env", PrimariesFirst(MetaNodes)))
                     \o Cmds("install_storage", PrimariesFirst(MetaNodes)),
                   {}, ((A1 \cup A2) \cup A3) \cup A4)
  BY <1>4, <1>9, <1>8
<1>11. InstallAdds(InstallBegins, {}, (((A1 \cup A2) \cup A3) \cup A4) \cup MetaReady)
  BY <1>5, <1>10, <1>8 DEF InstallBegins, B
<1> QED
  BY <1>6, <1>11

OfCluster(i) ==
    All("storage_env", StorageIn(i)) \cup All("server_env", CompsIn(i))
      \cup All("install_storage", StorageIn(i)) \cup All("create_cluster", {i})
      \cup All("add_comp", CompsIn(i))

\* The commands for one cluster are in order.
LEMMA InstallClusterInOrder ==
    ASSUME NEW i \in Numbers, NEW D, All("setup_nodemgr", OwnMachines) \subseteq D,
           MetaReady \subseteq D, \A c \in OfCluster(i) : c \notin D
    PROVE  InstallAdds(InstallCluster(i), D, OfCluster(i))
<1> DEFINE S == StorageOf(Clusters[i])
           P == Clusters[i].comps
           A1 == All("storage_env", StorageIn(i))
           A2 == All("server_env", CompsIn(i))
           A3 == All("install_storage", StorageIn(i))
           A4 == All("create_cluster", {i})
           A5 == All("add_comp", CompsIn(i))
<1>1. /\ S \in Seq(Storage) /\ IsInjective(S) /\ ToSet(S) = StorageIn(i)
      /\ P \in Seq(Comp) /\ IsInjective(P) /\ ToSet(P) = CompsIn(i)
  BY TypesOfLists, ListsAre DEF StorageIn, CompsIn
<1>2. /\ \A x \in StorageIn(i) : /\ C("storage_env", x) \notin D /\ C("install_storage", x) \notin D
                                 /\ x \in Instance /\ x \in Storage
      /\ \A x \in CompsIn(i) : /\ C("server_env", x) \notin D /\ C("add_comp", x) \notin D
                               /\ x \in Instance /\ x \in Comp
      /\ C("create_cluster", i) \notin D
  BY Configured, CommandIs, Things DEF OfCluster
<1>3. InstallCluster(i) =
        (((Cmds("storage_env", S) \o Cmds("server_env", P))
           \o Cmds("install_storage", PrimariesFirst(S)))
           \o <<C("create_cluster", i)>>) \o Cmds("add_comp", P)
  BY DEF InstallCluster, C
<1> HIDE DEF S, P
<1>4. InstallAdds(Cmds("storage_env", S), D, A1)
  <2>1. \A x \in StorageIn(i) : InstallFits(C("storage_env", x), D)
    BY <1>2, EnvFits
  <2> QED
    BY <1>1, <2>1, InstallAddsCmds
<1>5. InstallAdds(Cmds("server_env", P), D \cup A1, A2)
  <2>1. \A x \in CompsIn(i) : C("server_env", x) \notin D \cup A1
    BY <1>2, CommandIs
  <2> HIDE DEF A1
  <2>2. \A x \in CompsIn(i) : InstallFits(C("server_env", x), D \cup A1)
    BY <1>2, <2>1, EnvFits
  <2> QED
    BY <1>1, <2>2, InstallAddsCmds
<1>6. InstallAdds(Cmds("install_storage", PrimariesFirst(S)), D \cup (A1 \cup A2), A3)
  <2> DEFINE F == D \cup (A1 \cup A2)
             Q == All("install_storage", StorageIn(i) \cap Primary)
  <2>1. \A x \in StorageIn(i) : C("storage_env", x) \in F /\ C("install_storage", x) \notin F
    BY <1>2, CommandIs
  <2>2. \A x \in StorageIn(i) \ Primary :
           C("install_storage", x) \notin Q /\ All("install_storage", ShardOf(x) \cap Primary) \subseteq Q
    BY ShardsAre, CommandIs DEF All
  <2> HIDE DEF F, Q
  <2>3. \A x \in StorageIn(i) \cap Primary : InstallFits(C("install_storage", x), F)
    BY <1>2, <2>1, StorageFits
  <2>4. ASSUME NEW x \in StorageIn(i) \ Primary PROVE InstallFits(C("install_storage", x), F \cup Q)
    <3>1. C("storage_env", x) \in F \cup Q /\ C("install_storage", x) \notin F \cup Q
      BY <2>1, <2>2
    <3>2. All("install_storage", ShardOf(x) \cap Primary) \subseteq F \cup Q
      BY <2>2
    <3> QED
      BY <1>2, <3>1, <3>2, StorageFits
  <2>5. InstallAdds(Cmds("install_storage", PrimariesFirst(S)), F, A3)
    BY <1>1, <2>3, <2>4, InstallAddsInOrder DEF Q
  <2> QED
    BY <2>5 DEF F
<1>7. InstallAdds(<<C("create_cluster", i)>>, D \cup ((A1 \cup A2) \cup A3), A4)
  <2> DEFINE F == D \cup ((A1 \cup A2) \cup A3)
  <2>1. NeedsInInstall("create_cluster", i) \subseteq F
    BY DEF NeedsInInstall
  <2>2. C("create_cluster", i) \notin F
    BY <1>2, CommandIs
  <2>3. InstallFits(C("create_cluster", i), F)
    <3> HIDE DEF F
    <3> QED
      BY <2>1, <2>2, Things, InstallFitsIs DEF Op
  <2> QED
    BY <2>3, InstallAddsOne
<1>8. InstallAdds(Cmds("add_comp", P), D \cup (((A1 \cup A2) \cup A3) \cup A4), A5)
  <2> DEFINE F == D \cup (((A1 \cup A2) \cup A3) \cup A4)
  <2>1. ASSUME NEW x \in CompsIn(i) PROVE InstallFits(C("add_comp", x), F)
    <3>1. C("create_cluster", ClusterOf(x)) \in F /\ C("server_env", x) \in F
      BY ShardsAre, CommandIs
    <3>2. NeedsInInstall("add_comp", x) \subseteq F
      BY <3>1 DEF NeedsInInstall
    <3>3. C("add_comp", x) \notin F
      BY <1>2, CommandIs
    <3> HIDE DEF F
    <3> QED
      BY <1>2, <3>2, <3>3, Things, InstallFitsIs DEF Op
  <2> HIDE DEF F
  <2>2. InstallAdds(Cmds("add_comp", P), F, A5)
    BY <1>1, <2>1, InstallAddsCmds
  <2> QED
    BY <2>2 DEF F
<1>9. OfCluster(i) = (((A1 \cup A2) \cup A3) \cup A4) \cup A5
  BY DEF OfCluster
<1> HIDE DEF A1, A2, A3, A4, A5
<1> DEFINE a1 == Cmds("storage_env", S)
           a2 == Cmds("server_env", P)
           a3 == Cmds("install_storage", PrimariesFirst(S))
           a4 == <<C("create_cluster", i)>>
           a5 == Cmds("add_comp", P)
<1> HIDE DEF a1, a2, a3, a4, a5
<1>10. ASSUME NEW E, NEW F, NEW a, NEW b, InstallAdds(a, D, E), InstallAdds(b, D \cup E, F)
       PROVE  InstallAdds(a \o b, D, E \cup F)
  BY <1>10, InstallAddsBoth
<1>11. InstallAdds(a1 \o a2, D, A1 \cup A2)
  BY <1>4, <1>5, <1>10 DEF a1, a2
<1>12. InstallAdds((a1 \o a2) \o a3, D, (A1 \cup A2) \cup A3)
  BY <1>6, <1>11, <1>10 DEF a3
<1>13. InstallAdds(((a1 \o a2) \o a3) \o a4, D, ((A1 \cup A2) \cup A3) \cup A4)
  BY <1>7, <1>12, <1>10 DEF a4
<1>14. InstallAdds((((a1 \o a2) \o a3) \o a4) \o a5, D, (((A1 \cup A2) \cup A3) \cup A4) \cup A5)
  BY <1>8, <1>13, <1>10 DEF a5
<1> QED
  BY <1>3, <1>9, <1>14 DEF a1, a2, a3, a4, a5

\* The commands for all clusters, one after the other, are in order.
LEMMA InstallClustersInOrder ==
    InstallAdds(FlattenSeq([i \in DOMAIN Clusters |-> InstallCluster(i)]), Prepared,
                UNION {OfCluster(i) : i \in Numbers})
<1> DEFINE ss == [i \in DOMAIN Clusters |-> InstallCluster(i)]
           E == [i \in Numbers |-> OfCluster(i)]
<1>1. /\ Numbers = 1..Len(Clusters) /\ Len(Clusters) \in Nat /\ Len(ss) = Len(Clusters)
      /\ Len(ss) = 0 => ss = <<>>
      /\ \A i \in Numbers : ss[i] = InstallCluster(i) /\ E[i] = OfCluster(i)
  BY TypesOfLists DEF Numbers
<1> HIDE DEF ss, E
<1>2. ASSUME NEW i \in 1..Len(ss) PROVE InstallAdds(ss[i], Prepared \cup FirstOf(E, i - 1), E[i])
  <2> DEFINE D == Prepared \cup FirstOf(E, i - 1)
  <2>1. i \in Numbers /\ \A j \in 1..(i - 1) : j \in Numbers /\ j # i
    BY <1>1
  <2>2. \A c \in OfCluster(i) : c \notin Prepared
    BY Configured, CommandIs, <2>1 DEF OfCluster, Prepared, MetaReady, All
  <2>3. \A c \in OfCluster(i) : c \notin FirstOf(E, i - 1)
    <3> SUFFICES ASSUME NEW j \in 1..(i - 1), NEW c \in OfCluster(i), c \in OfCluster(j) PROVE FALSE
      BY <1>1, <2>1 DEF FirstOf
    <3>1. j \in Numbers /\ j # i
      BY <2>1
    <3>2. StorageIn(i) \cap StorageIn(j) = {} /\ CompsIn(i) \cap CompsIn(j) = {}
      BY <2>1, <3>1, Configured
    <3> QED
      BY <3>1, <3>2, CommandIs DEF OfCluster, All
  <2>4. All("setup_nodemgr", OwnMachines) \subseteq D /\ MetaReady \subseteq D
    BY DEF Prepared
  <2>5. \A c \in OfCluster(i) : c \notin D
    BY <2>2, <2>3
  <2> HIDE DEF D
  <2>6. InstallAdds(InstallCluster(i), D, OfCluster(i))
    BY <2>1, <2>4, <2>5, InstallClusterInOrder
  <2> QED
    BY <1>1, <2>1, <2>6 DEF D
<1>3. InstallAdds(FlattenSeq(ss), Prepared, FirstOf(E, Len(ss)))
  <2>1. Len(ss) \in Nat /\ (Len(ss) = 0 => ss = <<>>)
    BY <1>1
  <2> QED
    BY <1>2, <2>1, AddsAll DEF InstallAdds
<1>4. FirstOf(E, Len(ss)) = UNION {OfCluster(i) : i \in Numbers}
  <2>1. \A i \in 1..Len(ss) : E[i] = OfCluster(i)
    BY <1>1
  <2>2. 1..Len(ss) = Numbers
    BY <1>1
  <2> QED
    BY <2>1, <2>2 DEF FirstOf
<1> QED
  BY <1>3, <1>4 DEF ss

\* What the parts of install.sh do, taken together.
LEMMA InstallsAre ==
    (Prepared \cup UNION {OfCluster(i) : i \in Numbers}) \cup All("setup_clustermgr", ToSet(ClusterMgrs))
      = Installs
<1> DEFINE U == UNION {OfCluster(i) : i \in Numbers}
<1>1. U = All("storage_env", Storage \ Metas) \cup All("server_env", Comp)
            \cup All("install_storage", Storage \ Metas) \cup All("create_cluster", Numbers)
            \cup All("add_comp", Comp)
  <2>1. ASSUME NEW i \in Numbers
        PROVE  /\ StorageIn(i) \subseteq Storage \ Metas /\ CompsIn(i) \subseteq Comp
    BY Configured
  <2>2. \A n \in Storage \ Metas : \E i \in Numbers : n \in StorageIn(i)
    BY Configured
  <2>3. \A n \in Comp : \E i \in Numbers : n \in CompsIn(i)
    BY Configured
  <2> QED
    BY <2>1, <2>2, <2>3 DEF OfCluster, All
<1> HIDE DEF U
<1>2. All("storage_env", Storage) = All("storage_env", Metas) \cup All("storage_env", Storage \ Metas)
  BY Configured DEF All
<1>3. All("install_storage", Storage) = All("install_storage", Metas) \cup All("install_storage", Storage \ Metas)
  BY Configured DEF All
<1> QED
  BY <1>1, <1>2, <1>3 DEF Prepared, Installs, U

\* install.sh is in order: every command comes after all that it needs (NeedsInInstall:
\* a server after its program and the primaries of its shard, a cluster after its
\* storage, the managers after everything), and what must not be done twice is there
\* once (install_with_config, install_clusters).
THEOREM InstallInOrder == InstallAdds(InstallScript, {}, (Installs \cup Registers) \cup Managers)
<1> DEFINE U == UNION {OfCluster(i) : i \in Numbers}
           a1 == InstallBegins
           a2 == FlattenSeq([i \in DOMAIN Clusters |-> InstallCluster(i)])
           a3 == Cmds("setup_clustermgr", ClusterMgrs)
           a4 == IF HasWorkNode THEN Cmd("add_metadata") ELSE <<>>
           a5 == Cmds("start_nodemgr", OwnNodeMgrs)
           a6 == Cmds("start_clustermgr", ClusterMgrs)
           A3 == All("setup_clustermgr", ToSet(ClusterMgrs))
           A5 == All("start_nodemgr", OwnMachines)
           A6 == All("start_clustermgr", ToSet(ClusterMgrs))
<1>1. InstallScript = ((((a1 \o a2) \o a3) \o a4) \o a5) \o a6
  BY DEF InstallScript, InstallBegins
<1>2. ASSUME NEW E, NEW F, NEW a, NEW b, InstallAdds(a, {}, E), InstallAdds(b, E, F)
      PROVE  InstallAdds(a \o b, {}, E \cup F)
  <2>1. {} \cup E = E
    OBVIOUS
  <2> QED
    BY <2>1, <1>2, InstallAddsBoth
<1>3. InstallAdds(a1, {}, Prepared) /\ InstallAdds(a2, Prepared, U)
  BY InstallBeginsInOrder, InstallClustersInOrder
<1>4. InstallAdds(a3, Prepared \cup U, A3)
  <2> DEFINE D == Prepared \cup U
  <2>1. ASSUME NEW x \in ToSet(ClusterMgrs) PROVE InstallFits(C("setup_clustermgr", x), D)
    <3>1. C("init_node", x) \in D
      BY CommandIs DEF Prepared, WorkMachines
    <3>2. NeedsInInstall("setup_clustermgr", x) \subseteq D
      BY <3>1 DEF NeedsInInstall
    <3> HIDE DEF D
    <3> QED
      BY <3>2, Configured, Things, InstallFitsIs DEF Op
  <2> HIDE DEF D
  <2>2. InstallAdds(a3, D, A3)
    BY <2>1, TypesOfLists, ListsAre, InstallAddsCmds
  <2> QED
    BY <2>2 DEF D
<1>5. InstallAdds(a4, Installs, Registers)
  <2>1. CASE ~HasWorkNode
    BY <2>1, InstallAddsNothing DEF Registers
  <2>2. CASE HasWorkNode
    <3>1. NeedsInInstall("add_metadata", 0) \subseteq Installs
      BY DEF NeedsInInstall
    <3>2. InstallFits(C("add_metadata", 0), Installs)
      BY <3>1, Things, InstallFitsIs DEF Op
    <3>3. Cmd("add_metadata") = <<C("add_metadata", 0)>>
      BY DEF Cmd, C
    <3> QED
      BY <2>2, <3>2, <3>3, InstallAddsOne DEF Registers
  <2> QED
    BY <2>1, <2>2
<1>6. ASSUME NEW op \in {"start_nodemgr", "start_clustermgr"}, NEW x \in Machine, NEW F
      PROVE  InstallFits(C(op, x), (Installs \cup Registers) \cup F)
  <2>1. NeedsInInstall(op, x) \subseteq (Installs \cup Registers) \cup F
    BY DEF NeedsInInstall
  <2> QED
    BY <2>1, Things, InstallFitsIs DEF Op
<1>7. InstallAdds(a5, Installs \cup Registers, A5)
  <2>1. \A x \in OwnMachines : InstallFits(C("start_nodemgr", x), Installs \cup Registers)
    <3>1. Installs \cup Registers = (Installs \cup Registers) \cup {}
      OBVIOUS
    <3> QED
      BY <1>6, <3>1, Configured
  <2> QED
    BY <2>1, ListsAre, InstallAddsCmds
<1>8. InstallAdds(a6, (Installs \cup Registers) \cup A5, A6)
  <2>1. \A x \in ToSet(ClusterMgrs) : InstallFits(C("start_clustermgr", x), (Installs \cup Registers) \cup A5)
    BY <1>6, Configured
  <2> HIDE DEF A5
  <2> QED
    BY <2>1, TypesOfLists, ListsAre, InstallAddsCmds
<1> HIDE DEF a1, a2, a3, a4, a5, a6, A3, A5, A6, U
<1>9. InstallAdds(a1 \o a2, {}, Prepared \cup U)
  BY <1>2, <1>3
<1>10. InstallAdds((a1 \o a2) \o a3, {}, (Prepared \cup U) \cup A3)
  BY <1>2, <1>4, <1>9
<1>11. (Prepared \cup U) \cup A3 = Installs
  BY InstallsAre DEF U, A3
<1>12. InstallAdds(((a1 \o a2) \o a3) \o a4, {}, Installs \cup Registers)
  BY <1>2, <1>5, <1>10, <1>11
<1>13. InstallAdds((((a1 \o a2) \o a3) \o a4) \o a5, {}, (Installs \cup Registers) \cup A5)
  BY <1>2, <1>7, <1>12
<1>14. InstallAdds(((((a1 \o a2) \o a3) \o a4) \o a5) \o a6, {}, ((Installs \cup Registers) \cup A5) \cup A6)
  BY <1>2, <1>8, <1>13
<1>15. ((Installs \cup Registers) \cup A5) \cup A6 = (Installs \cup Registers) \cup Managers
  BY DEF Managers, A5, A6
<1> QED
  BY <1>1, <1>14, <1>15

-----------------------------------------------------------------------------
(* start.sh, stop.sh and clean.sh: their commands, and what each comes after. *)

\* Instances on the skipped machine x that clean.sh stops before a cluster manager.
EarlyOn(x) == {n \in Instance : n \in OnSkipped /\ n \notin Metas /\ Host[n] = x}

NeedsInUse(op, x) ==
    CASE op \in {"stop_instances", "clear_instances"} -> {C("stop_nodemgr", x)}
      [] op = "rm_nodemgr" -> {C("stop_nodemgr", x), C("clear_instances", x)}
      [] op = "rm_clustermgr" ->
            {C("stop_clustermgr", x)} \cup All("clear_instances", {x} \cap OwnMachines)
              \cup All("halt_storage", EarlyOn(x) \cap Storage)
      [] op = "halt_storage" -> IF x \in Undermined THEN {C("rm_clustermgr", Host[x])} ELSE {}
      [] op = "rm_data" -> {C(IF x \in Storage THEN "halt_storage" ELSE "halt_comp", x)}
      [] op = "rm_meta" -> {C("halt_storage", x)}
      [] OTHER -> {}
UseNeeds == [c \in Command |-> NeedsInUse(c.op, c.on)]
UseOnce == {c \in Command : c.op \in {"stop_nodemgr", "stop_clustermgr", "halt_storage"}}

UseAdds(s, D, E) == Adds(s, D, E, UseNeeds, UseOnce)
UseFits(c, D) == c \in Command /\ InPlace(c, D, UseNeeds, UseOnce)

\* A command of the other scripts fits after D when D holds what it needs.
LEMMA UseFitsIs ==
    ASSUME NEW op \in Op, NEW x \in Thing, NEW D, NeedsInUse(op, x) \subseteq D,
           C(op, x) \in D => op \notin {"stop_nodemgr", "stop_clustermgr", "halt_storage"}
    PROVE  UseFits(C(op, x), D)
<1>1. C(op, x) \in Command /\ C(op, x).op = op /\ C(op, x).on = x
  BY CommandIs
<1>2. UseNeeds[C(op, x)] = NeedsInUse(op, x)
  BY <1>1 DEF UseNeeds
<1>3. C(op, x) \in UseOnce => op \in {"stop_nodemgr", "stop_clustermgr", "halt_storage"}
  BY <1>1 DEF UseOnce
<1> QED
  BY <1>1, <1>2, <1>3 DEF UseFits, InPlace

\* Two parts of such a script, one after the other.
LEMMA UseAddsBoth ==
    ASSUME NEW D, NEW E, NEW F, NEW a, NEW b, UseAdds(a, D, E), UseAdds(b, D \cup E, F)
    PROVE  UseAdds(a \o b, D, E \cup F)
  BY AddsBoth DEF UseAdds

\* No command at all.
LEMMA UseAddsNothing == ASSUME NEW D PROVE UseAdds(<<>>, D, {})
  BY AddsNothing DEF UseAdds

\* The same command for each of a list.
LEMMA UseAddsCmds ==
    ASSUME NEW D, NEW op \in Op, NEW S \in SUBSET Thing, NEW s \in Seq(S), IsInjective(s),
           op \notin {"stop_nodemgr", "stop_clustermgr", "halt_storage"},
           \A x \in ToSet(s) : NeedsInUse(op, x) \subseteq D
    PROVE  UseAdds(Cmds(op, s), D, All(op, ToSet(s)))
<1>1. DOMAIN UseNeeds = Command
  BY DEF UseNeeds
<1>2. ToSet(s) \subseteq Thing
  BY DEF ToSet
<1>3. \A x \in ToSet(s) : UseFits(C(op, x), D)
  BY <1>2, UseFitsIs
<1> QED
  BY <1>1, <1>3, AddsCmds DEF UseAdds, UseFits

\* Two and three commands for each.
LEMMA UseAddsTwo ==
    ASSUME NEW D, NEW o1 \in Op, NEW o2 \in Op, o1 # o2,
           NEW S \in SUBSET Thing, NEW s \in Seq(S), IsInjective(s),
           \A x \in ToSet(s) : UseFits(C(o1, x), D) /\ UseFits(C(o2, x), D \cup {C(o1, x)})
    PROVE  UseAdds(Each(<<o1, o2>>, s), D, All(o1, ToSet(s)) \cup All(o2, ToSet(s)))
<1> DEFINE ops == <<o1, o2>>
<1>1. DOMAIN UseNeeds = Command
  BY DEF UseNeeds
<1>2. /\ ops \in Seq(Op) /\ Len(ops) = 2 /\ DOMAIN ops = {1, 2} /\ ops[1] = o1 /\ ops[2] = o2
      /\ ops # <<>>
  OBVIOUS
<1> HIDE DEF ops
<1>3. IsInjective(ops) /\ ToSet(ops) = {o1, o2}
  BY <1>2 DEF IsInjective, ToSet
<1>4. ASSUME NEW x \in ToSet(s), NEW j \in 1..Len(ops)
      PROVE  UseFits(C(ops[j], x), D \cup {C(ops[l], x) : l \in 1..(j - 1)})
  <2> DEFINE B == {C(ops[l], x) : l \in 1..(j - 1)}
  <2>1. j = 1 \/ j = 2
    BY <1>2
  <2>2. CASE j = 1
    <3>1. B = {}
      BY <2>2
    <3>2. D \cup B = D
      BY <3>1
    <3> HIDE DEF B
    <3> QED
      BY <2>2, <3>2, <1>2 DEF B
  <2>3. CASE j = 2
    <3>1. 1..(j - 1) = {1}
      BY <2>3
    <3>2. B = {C(o1, x)}
      BY <3>1, <1>2
    <3>3. D \cup B = D \cup {C(o1, x)}
      BY <3>2
    <3> HIDE DEF B
    <3> QED
      BY <2>3, <3>3, <1>2 DEF B
  <2> QED
    BY <2>1, <2>2, <2>3
<1>5. UseAdds(Each(ops, s), D, AllOf(ops, ToSet(s)))
  BY <1>1, <1>2, <1>3, <1>4, AddsEach DEF UseAdds, UseFits
<1>6. AllOf(ops, ToSet(s)) = All(o1, ToSet(s)) \cup All(o2, ToSet(s))
  BY <1>3 DEF AllOf, All
<1> QED
  BY <1>5, <1>6 DEF ops

\* Three commands for each of a list, one after the other.
LEMMA UseAddsThree ==
    ASSUME NEW D, NEW o1 \in Op, NEW o2 \in Op, NEW o3 \in Op, o1 # o2, o1 # o3, o2 # o3,
           NEW S \in SUBSET Thing, NEW s \in Seq(S), IsInjective(s),
           \A x \in ToSet(s) : /\ UseFits(C(o1, x), D)
                               /\ UseFits(C(o2, x), D \cup {C(o1, x)})
                               /\ UseFits(C(o3, x), D \cup {C(o1, x), C(o2, x)})
    PROVE  UseAdds(Each(<<o1, o2, o3>>, s), D,
                   All(o1, ToSet(s)) \cup All(o2, ToSet(s)) \cup All(o3, ToSet(s)))
<1> DEFINE ops == <<o1, o2, o3>>
<1>1. DOMAIN UseNeeds = Command
  BY DEF UseNeeds
<1>2. /\ ops \in Seq(Op) /\ Len(ops) = 3 /\ DOMAIN ops = {1, 2, 3}
      /\ ops[1] = o1 /\ ops[2] = o2 /\ ops[3] = o3
      /\ ops # <<>>
  OBVIOUS
<1> HIDE DEF ops
<1>3. IsInjective(ops) /\ ToSet(ops) = {o1, o2, o3}
  BY <1>2 DEF IsInjective, ToSet
<1>4. ASSUME NEW x \in ToSet(s), NEW j \in 1..Len(ops)
      PROVE  UseFits(C(ops[j], x), D \cup {C(ops[l], x) : l \in 1..(j - 1)})
  <2> DEFINE B == {C(ops[l], x) : l \in 1..(j - 1)}
  <2>1. j = 1 \/ j = 2 \/ j = 3
    BY <1>2
  <2>2. CASE j = 1
    <3>1. B = {}
      BY <2>2
    <3>2. D \cup B = D
      BY <3>1
    <3> HIDE DEF B
    <3> QED
      BY <2>2, <3>2, <1>2 DEF B
  <2>3. CASE j = 2
    <3>1. 1..(j - 1) = {1}
      BY <2>3
    <3>2. B = {C(o1, x)}
      BY <3>1, <1>2
    <3>3. D \cup B = D \cup {C(o1, x)}
      BY <3>2
    <3> HIDE DEF B
    <3> QED
      BY <2>3, <3>3, <1>2 DEF B
  <2>4. CASE j = 3
    <3>1. 1..(j - 1) = {1, 2}
      BY <2>4
    <3>2. B = {C(o1, x), C(o2, x)}
      BY <3>1, <1>2
    <3>3. D \cup B = D \cup {C(o1, x), C(o2, x)}
      BY <3>2
    <3> HIDE DEF B
    <3> QED
      BY <2>4, <3>3, <1>2 DEF B
  <2> QED
    BY <2>1, <2>2, <2>3, <2>4
<1>5. UseAdds(Each(ops, s), D, AllOf(ops, ToSet(s)))
  BY <1>1, <1>2, <1>3, <1>4, AddsEach DEF UseAdds, UseFits
<1>6. AllOf(ops, ToSet(s)) = All(o1, ToSet(s)) \cup All(o2, ToSet(s)) \cup All(o3, ToSet(s))
  BY <1>3 DEF AllOf, All
<1> QED
  BY <1>5, <1>6 DEF ops

\* The same for each cluster.
LEMMA UseAddsClusters ==
    ASSUME NEW D, NEW ss, NEW E, DOMAIN ss = Numbers, Len(ss) = Len(Clusters),
           Len(ss) = 0 => ss = <<>>,
           \A i \in Numbers : UseAdds(ss[i], D \cup FirstOf(E, i - 1), E[i])
    PROVE  UseAdds(FlattenSeq(ss), D, FirstOf(E, Len(Clusters)))
<1>1. Numbers = 1..Len(ss) /\ Len(ss) \in Nat
  BY TypesOfLists
<1> QED
  BY <1>1, AddsAll DEF UseAdds

\* The instances on skipped machines, as lists.
LEMMA SkippedLists ==
    /\ \A s \in Seq(Storage) : IsInjective(s) =>
          /\ Those(s, OnSkipped) \in Seq(Storage) /\ IsInjective(Those(s, OnSkipped))
          /\ ToSet(Those(s, OnSkipped)) = ToSet(s) \cap OnSkipped
    /\ \A s \in Seq(Comp) : IsInjective(s) =>
          /\ Those(s, OnSkipped) \in Seq(Comp) /\ IsInjective(Those(s, OnSkipped))
          /\ ToSet(Those(s, OnSkipped)) = ToSet(s) \cap OnSkipped
<1>1. ASSUME NEW S, NEW s \in Seq(S), IsInjective(s)
      PROVE  /\ Those(s, OnSkipped) \in Seq(S) /\ IsInjective(Those(s, OnSkipped))
             /\ ToSet(Those(s, OnSkipped)) = ToSet(s) \cap OnSkipped
  <2>1. Those(s, OnSkipped) \in Seq(S \cap OnSkipped)
    BY ThoseAre
  <2>2. Seq(S \cap OnSkipped) \subseteq Seq(S)
    OBVIOUS
  <2> QED
    BY <1>1, <2>1, <2>2, ThoseAre, ThoseOnce
<1> QED
  BY <1>1

StartSet ==
    All("start_instances", OwnMachines) \cup All("start_nodemgr", OwnMachines)
      \cup All("start_instance", OnSkipped) \cup All("start_clustermgr", ToSet(ClusterMgrs))
StopSet ==
    All("stop_nodemgr", OwnMachines) \cup All("stop_instances", OwnMachines)
      \cup All("stop_instance", OnSkipped) \cup All("stop_clustermgr", ToSet(ClusterMgrs))
RemovesRows ==
    IF ExternalMeta /\ NodeMgrs # <<>> THEN All("remove_metadata", {0}) ELSE {}
CleanSet ==
    All("stop_nodemgr", OwnMachines) \cup All("clear_instances", OwnMachines)
      \cup All("rm_nodemgr", OwnMachines)
      \cup All("halt_storage", Storage \cap OnSkipped) \cup All("halt_comp", Comp \cap OnSkipped)
      \cup All("rm_data", OnSkipped \ Metas) \cup All("rm_meta", Metas \cap OnSkipped)
      \cup All("stop_clustermgr", ToSet(ClusterMgrs)) \cup All("rm_clustermgr", ToSet(ClusterMgrs))
      \cup RemovesRows

SkippedIn(i) == (StorageIn(i) \cup CompsIn(i)) \cap OnSkipped

\* Machines and instances are things that commands are run on.
LEMMA SubsetsOfThing ==
    Machine \in SUBSET Thing /\ Storage \in SUBSET Thing /\ Comp \in SUBSET Thing
  BY DEF Thing, Instance

\* The instances on skipped machines: those of the metadata shard and of each cluster.
LEMMA SkippedAre ==
    /\ \A i \in Numbers : SkippedIn(i) \subseteq OnSkipped \ Metas
    /\ \A n \in OnSkipped \ Metas : \E i \in Numbers : n \in SkippedIn(i)
    /\ OnSkipped \subseteq Instance
<1>1. OnSkipped \subseteq Instance
  BY DEF OnSkipped
<1>2. \A i \in Numbers : SkippedIn(i) \subseteq OnSkipped \ Metas
  BY Configured DEF SkippedIn
<1>3. \A n \in OnSkipped \ Metas : \E i \in Numbers : n \in SkippedIn(i)
  BY <1>1, Configured DEF SkippedIn, Instance
<1> QED
  BY <1>1, <1>2, <1>3

\* A command for the skipped instances of each cluster is one for all but the meta nodes.
LEMMA SkippedOfClusters ==
    ASSUME NEW op, NEW E, \A i \in Numbers : E[i] = All(op, SkippedIn(i))
    PROVE  FirstOf(E, Len(Clusters)) = All(op, OnSkipped \ Metas)
<1>1. FirstOf(E, Len(Clusters)) = UNION {E[i] : i \in Numbers}
  BY TypesOfLists DEF FirstOf
<1>2. \A c \in UNION {E[i] : i \in Numbers} : c \in All(op, OnSkipped \ Metas)
  BY SkippedAre DEF All
<1>3. \A c \in All(op, OnSkipped \ Metas) : c \in UNION {E[i] : i \in Numbers}
  <2> SUFFICES ASSUME NEW n \in OnSkipped \ Metas PROVE \E i \in Numbers : C(op, n) \in E[i]
    BY DEF All
  <2>1. PICK i \in Numbers : n \in SkippedIn(i)
    BY SkippedAre
  <2>2. C(op, n) \in All(op, SkippedIn(i))
    BY <2>1, CommandIs
  <2> QED
    BY <2>2
<1> QED
  BY <1>1, <1>2, <1>3

\* start.sh and stop.sh go through the clusters alike.
LEMMA UseAddsSkipped ==
    ASSUME NEW op \in {"start_instance", "stop_instance"}, NEW D
    PROVE  /\ UseAdds(Cmds(op, Those(MetaNodes, OnSkipped)), D, All(op, Metas \cap OnSkipped))
           /\ \A i \in Numbers :
                 UseAdds(Cmds(op, Those(StorageOf(Clusters[i]), OnSkipped))
                            \o Cmds(op, Those(Clusters[i].comps, OnSkipped)),
                         D, All(op, SkippedIn(i)))
<1>1. op \in Op /\ \A x : NeedsInUse(op, x) = {}
  BY DEF Op, NeedsInUse
<1>2. op \notin {"stop_nodemgr", "stop_clustermgr", "halt_storage"}
  OBVIOUS
<1>3. ASSUME NEW F, NEW S \in SUBSET Thing, NEW s \in Seq(S), IsInjective(s)
      PROVE  UseAdds(Cmds(op, s), F, All(op, ToSet(s)))
  BY <1>1, <1>2, <1>3, UseAddsCmds
<1>4. UseAdds(Cmds(op, Those(MetaNodes, OnSkipped)), D, All(op, Metas \cap OnSkipped))
  BY <1>3, TypesOfLists, ListsAre, SkippedLists, SubsetsOfThing DEF Metas
<1>5. ASSUME NEW i \in Numbers
      PROVE  UseAdds(Cmds(op, Those(StorageOf(Clusters[i]), OnSkipped))
                        \o Cmds(op, Those(Clusters[i].comps, OnSkipped)),
                     D, All(op, SkippedIn(i)))
  <2> DEFINE a == Those(StorageOf(Clusters[i]), OnSkipped)
             b == Those(Clusters[i].comps, OnSkipped)
  <2>1. /\ a \in Seq(Storage) /\ IsInjective(a) /\ ToSet(a) = StorageIn(i) \cap OnSkipped
        /\ b \in Seq(Comp) /\ IsInjective(b) /\ ToSet(b) = CompsIn(i) \cap OnSkipped
    BY TypesOfLists, ListsAre, SkippedLists DEF StorageIn, CompsIn
  <2> HIDE DEF a, b
  <2>2. UseAdds(Cmds(op, a), D, All(op, ToSet(a)))
    BY <1>3, <2>1, SubsetsOfThing
  <2>3. UseAdds(Cmds(op, b), D \cup All(op, ToSet(a)), All(op, ToSet(b)))
    BY <1>3, <2>1, SubsetsOfThing
  <2>4. UseAdds(Cmds(op, a) \o Cmds(op, b), D, All(op, ToSet(a)) \cup All(op, ToSet(b)))
    BY <2>2, <2>3, UseAddsBoth
  <2>5. ToSet(a) \cup ToSet(b) = SkippedIn(i)
    BY <2>1 DEF SkippedIn
  <2>6. All(op, ToSet(a)) \cup All(op, ToSet(b)) = All(op, SkippedIn(i))
    BY <2>5, AllIs
  <2>7. UseAdds(Cmds(op, a) \o Cmds(op, b), D, All(op, SkippedIn(i)))
    BY <2>4, <2>6
  <2> QED
    BY <2>7 DEF a, b
<1> QED
  BY <1>4, <1>5

\* start.sh is in order.
LEMMA StartInOrder == UseAdds(StartScript, {}, StartSet)
<1> DEFINE a1 == Each(<<"start_instances", "start_nodemgr">>, OwnNodeMgrs)
           a2 == Cmds("start_instance", Those(MetaNodes, OnSkipped))
           ss == [i \in DOMAIN Clusters |-> StartCluster(Clusters[i])]
           a3 == FlattenSeq(ss)
           a4 == Cmds("start_clustermgr", ClusterMgrs)
           E == [i \in Numbers |-> All("start_instance", SkippedIn(i))]
           A1 == All("start_instances", OwnMachines) \cup All("start_nodemgr", OwnMachines)
           A2 == All("start_instance", Metas \cap OnSkipped)
           A3 == FirstOf(E, Len(Clusters))
           A4 == All("start_clustermgr", ToSet(ClusterMgrs))
<1>1. StartScript = ((a1 \o a2) \o a3) \o a4
  BY DEF StartScript
<1>2. \A op \in {"start_instances", "start_nodemgr", "start_clustermgr"} :
         op \in Op /\ \A x : NeedsInUse(op, x) = {}
  BY DEF Op, NeedsInUse
<1>3. UseAdds(a1, {}, A1)
  <2>1. \A op \in {"start_instances", "start_nodemgr"}, x \in Machine : \A D : UseFits(C(op, x), D)
    BY <1>2, Things, UseFitsIs
  <2>2. \A x \in ToSet(OwnNodeMgrs) :
           /\ UseFits(C("start_instances", x), {})
           /\ UseFits(C("start_nodemgr", x), {} \cup {C("start_instances", x)})
    BY <2>1, ListsAre, Configured
  <2> QED
    BY <1>2, <2>2, ListsAre, SubsetsOfThing, UseAddsTwo
<1>4. UseAdds(a2, A1, A2)
  BY UseAddsSkipped
<1>5. UseAdds(a3, A1 \cup A2, A3)
  <2>1. /\ DOMAIN ss = Numbers /\ Len(ss) = Len(Clusters)
        /\ Len(ss) = 0 => ss = <<>>
        /\ \A i \in Numbers : ss[i] = StartCluster(Clusters[i]) /\ E[i] = All("start_instance", SkippedIn(i))
    BY TypesOfLists DEF Numbers
  <2> HIDE DEF ss, E, A1, A2
  <2>2. \A i \in Numbers : UseAdds(ss[i], (A1 \cup A2) \cup FirstOf(E, i - 1), E[i])
    BY <2>1, UseAddsSkipped DEF StartCluster
  <2> QED
    BY <2>1, <2>2, UseAddsClusters
<1>6. UseAdds(a4, (A1 \cup A2) \cup A3, A4)
  <2> HIDE DEF A1, A2, A3
  <2>1. \A x : NeedsInUse("start_clustermgr", x) \subseteq (A1 \cup A2) \cup A3
    BY <1>2
  <2> QED
    BY <1>2, <2>1, TypesOfLists, ListsAre, SubsetsOfThing, UseAddsCmds
<1>7. A3 = All("start_instance", OnSkipped \ Metas)
  <2>1. \A i \in Numbers : E[i] = All("start_instance", SkippedIn(i))
    OBVIOUS
  <2> HIDE DEF E
  <2> QED
    BY <2>1, SkippedOfClusters
<1>8. A2 \cup A3 = All("start_instance", OnSkipped)
  <2>1. (Metas \cap OnSkipped) \cup (OnSkipped \ Metas) = OnSkipped
    OBVIOUS
  <2> HIDE DEF A3
  <2> QED
    BY <1>7, <2>1, AllIs
<1>9. StartSet = ((A1 \cup A2) \cup A3) \cup A4
  <2> HIDE DEF A2, A3
  <2> QED
    BY <1>8 DEF StartSet
<1> HIDE DEF a1, a2, a3, a4, A1, A2, A3, A4
<1>10. ASSUME NEW X, NEW Y, NEW a, NEW b, UseAdds(a, {}, X), UseAdds(b, X, Y)
       PROVE  UseAdds(a \o b, {}, X \cup Y)
  <2>1. {} \cup X = X
    OBVIOUS
  <2> QED
    BY <2>1, <1>10, UseAddsBoth
<1>11. UseAdds(a1 \o a2, {}, A1 \cup A2)
  BY <1>3, <1>4, <1>10
<1>12. UseAdds((a1 \o a2) \o a3, {}, (A1 \cup A2) \cup A3)
  BY <1>5, <1>11, <1>10
<1>13. UseAdds(((a1 \o a2) \o a3) \o a4, {}, ((A1 \cup A2) \cup A3) \cup A4)
  BY <1>6, <1>12, <1>10
<1> QED
  BY <1>1, <1>9, <1>13

\* stop.sh is in order: a node manager before the instances of its machine.
LEMMA StopInOrder == UseAdds(StopScript, {}, StopSet)
<1> DEFINE a1 == Each(<<"stop_nodemgr", "stop_instances">>, OwnNodeMgrs)
           ss == [i \in DOMAIN Clusters |-> StopCluster(Clusters[i])]
           a2 == FlattenSeq(ss)
           a3 == Cmds("stop_clustermgr", ClusterMgrs)
           a4 == Cmds("stop_instance", Those(MetaNodes, OnSkipped))
           E == [i \in Numbers |-> All("stop_instance", SkippedIn(i))]
           A1 == All("stop_nodemgr", OwnMachines) \cup All("stop_instances", OwnMachines)
           A2 == FirstOf(E, Len(Clusters))
           A3 == All("stop_clustermgr", ToSet(ClusterMgrs))
           A4 == All("stop_instance", Metas \cap OnSkipped)
<1>1. StopScript = ((a1 \o a2) \o a3) \o a4
  BY DEF StopScript
<1>2. UseAdds(a1, {}, A1)
  <2>1. ASSUME NEW x \in Machine
        PROVE  /\ UseFits(C("stop_nodemgr", x), {})
               /\ UseFits(C("stop_instances", x), {} \cup {C("stop_nodemgr", x)})
    <3>1. NeedsInUse("stop_nodemgr", x) = {} /\ NeedsInUse("stop_instances", x) = {C("stop_nodemgr", x)}
      BY DEF NeedsInUse
    <3>2. UseFits(C("stop_nodemgr", x), {})
      BY <3>1, Things, UseFitsIs DEF Op
    <3>3. UseFits(C("stop_instances", x), {} \cup {C("stop_nodemgr", x)})
      BY <3>1, Things, UseFitsIs DEF Op
    <3> QED
      BY <3>2, <3>3
  <2>2. ToSet(OwnNodeMgrs) \subseteq Machine
    BY ListsAre, Configured
  <2> QED
    BY <2>1, <2>2, ListsAre, SubsetsOfThing, UseAddsTwo DEF Op
<1>3. UseAdds(a2, A1, A2)
  <2>1. /\ DOMAIN ss = Numbers /\ Len(ss) = Len(Clusters)
        /\ Len(ss) = 0 => ss = <<>>
        /\ \A i \in Numbers : ss[i] = StopCluster(Clusters[i]) /\ E[i] = All("stop_instance", SkippedIn(i))
    BY TypesOfLists DEF Numbers
  <2> HIDE DEF ss, E, A1
  <2>2. \A i \in Numbers : UseAdds(ss[i], A1 \cup FirstOf(E, i - 1), E[i])
    BY <2>1, UseAddsSkipped DEF StopCluster
  <2> QED
    BY <2>1, <2>2, UseAddsClusters
<1>4. A2 = All("stop_instance", OnSkipped \ Metas)
  <2>1. \A i \in Numbers : E[i] = All("stop_instance", SkippedIn(i))
    OBVIOUS
  <2> HIDE DEF E
  <2> QED
    BY <2>1, SkippedOfClusters
<1>5. UseAdds(a3, A1 \cup A2, A3)
  <2>1. \A x : NeedsInUse("stop_clustermgr", x) = {}
    BY DEF NeedsInUse
  <2>2. \A x \in ToSet(ClusterMgrs) : C("stop_clustermgr", x) \notin A1 \cup A2
    <3> HIDE DEF A2
    <3> QED
      BY <1>4, CommandIs
  <2>3. ASSUME NEW x \in ToSet(ClusterMgrs) PROVE UseFits(C("stop_clustermgr", x), A1 \cup A2)
    <3> HIDE DEF A1, A2
    <3> QED
      BY <2>1, <2>2, Configured, Things, UseFitsIs DEF Op
  <2>4. DOMAIN UseNeeds = Command
    BY DEF UseNeeds
  <2> HIDE DEF A1, A2
  <2> QED
    BY <2>3, <2>4, TypesOfLists, ListsAre, AddsCmds DEF UseAdds, UseFits
<1>6. UseAdds(a4, (A1 \cup A2) \cup A3, A4)
  BY UseAddsSkipped
<1>7. A2 \cup A4 = All("stop_instance", OnSkipped)
  <2>1. (OnSkipped \ Metas) \cup (Metas \cap OnSkipped) = OnSkipped
    OBVIOUS
  <2> HIDE DEF A2
  <2> QED
    BY <1>4, <2>1, AllIs
<1>8. StopSet = ((A1 \cup A2) \cup A3) \cup A4
  <2> HIDE DEF A2, A4
  <2> QED
    BY <1>7 DEF StopSet
<1> HIDE DEF a1, a2, a3, a4, A1, A2, A3, A4
<1>9. ASSUME NEW X, NEW Y, NEW a, NEW b, UseAdds(a, {}, X), UseAdds(b, X, Y)
      PROVE  UseAdds(a \o b, {}, X \cup Y)
  <2>1. {} \cup X = X
    OBVIOUS
  <2> QED
    BY <2>1, <1>9, UseAddsBoth
<1>10. UseAdds(a1 \o a2, {}, A1 \cup A2)
  BY <1>2, <1>3, <1>9
<1>11. UseAdds((a1 \o a2) \o a3, {}, (A1 \cup A2) \cup A3)
  BY <1>5, <1>10, <1>9
<1>12. UseAdds(((a1 \o a2) \o a3) \o a4, {}, ((A1 \cup A2) \cup A3) \cup A4)
  BY <1>6, <1>11, <1>9
<1> QED
  BY <1>1, <1>8, <1>12

CleanOf(i) ==
    (All("halt_storage", StorageIn(i) \cap OnSkipped) \cup All("rm_data", StorageIn(i) \cap OnSkipped))
      \cup (All("halt_comp", CompsIn(i) \cap OnSkipped) \cup All("rm_data", CompsIn(i) \cap OnSkipped))

\* The commands of clean.sh for one cluster are in order: each server before its data.
LEMMA CleanClusterInOrder ==
    ASSUME NEW i \in Numbers, NEW D,
           \A x \in StorageIn(i) : C("halt_storage", x) \notin D
    PROVE  UseAdds(CleanCluster(Clusters[i]), D, CleanOf(i))
<1> DEFINE S == Those(StorageOf(Clusters[i]), OnSkipped)
           P == Those(Clusters[i].comps, OnSkipped)
           A1 == All("halt_storage", ToSet(S)) \cup All("rm_data", ToSet(S))
           A2 == All("halt_comp", ToSet(P)) \cup All("rm_data", ToSet(P))
<1>1. /\ S \in Seq(Storage) /\ IsInjective(S) /\ ToSet(S) = StorageIn(i) \cap OnSkipped
      /\ P \in Seq(Comp) /\ IsInjective(P) /\ ToSet(P) = CompsIn(i) \cap OnSkipped
  BY TypesOfLists, ListsAre, SkippedLists DEF StorageIn, CompsIn
<1>2. /\ CleanCluster(Clusters[i]) = Each(<<"halt_storage", "rm_data">>, S) \o Each(<<"halt_comp", "rm_data">>, P)
      /\ CleanOf(i) = A1 \cup A2
  BY <1>1 DEF CleanCluster, CleanOf
<1> HIDE DEF S, P
<1>3. UseAdds(Each(<<"halt_storage", "rm_data">>, S), D, A1)
  <2>1. ASSUME NEW x \in ToSet(S)
        PROVE  /\ UseFits(C("halt_storage", x), D)
               /\ UseFits(C("rm_data", x), D \cup {C("halt_storage", x)})
    <3>1. x \in StorageIn(i) /\ x \in Storage /\ x \notin Metas
      BY <1>1, Configured
    <3>2. NeedsInUse("halt_storage", x) = {} /\ NeedsInUse("rm_data", x) = {C("halt_storage", x)}
      BY <3>1 DEF NeedsInUse, Undermined, Metas
    <3>3. UseFits(C("halt_storage", x), D)
      BY <3>1, <3>2, Things, UseFitsIs DEF Op
    <3>4. UseFits(C("rm_data", x), D \cup {C("halt_storage", x)})
      BY <3>1, <3>2, Things, UseFitsIs DEF Op
    <3> QED
      BY <3>3, <3>4
  <2> QED
    BY <1>1, <2>1, SubsetsOfThing, UseAddsTwo DEF Op
<1>4. UseAdds(Each(<<"halt_comp", "rm_data">>, P), D \cup A1, A2)
  <2>1. ASSUME NEW x \in ToSet(P), NEW F
        PROVE  /\ UseFits(C("halt_comp", x), F)
               /\ UseFits(C("rm_data", x), F \cup {C("halt_comp", x)})
    <3>1. x \in Comp /\ x \notin Storage
      BY <1>1, Configured
    <3>2. NeedsInUse("halt_comp", x) = {} /\ NeedsInUse("rm_data", x) = {C("halt_comp", x)}
      BY <3>1 DEF NeedsInUse
    <3>3. UseFits(C("halt_comp", x), F)
      BY <3>1, <3>2, Things, UseFitsIs DEF Op
    <3>4. UseFits(C("rm_data", x), F \cup {C("halt_comp", x)})
      BY <3>1, <3>2, Things, UseFitsIs DEF Op
    <3> QED
      BY <3>3, <3>4
  <2> HIDE DEF A1
  <2> QED
    BY <1>1, <2>1, SubsetsOfThing, UseAddsTwo DEF Op
<1> HIDE DEF A1, A2
<1> QED
  BY <1>2, <1>3, <1>4, UseAddsBoth

CleansClusters == All("halt_storage", (Storage \ Metas) \cap OnSkipped)
                    \cup All("halt_comp", Comp \cap OnSkipped) \cup All("rm_data", OnSkipped \ Metas)

\* What they do for all clusters, taken together.
LEMMA CleansClustersAre ==
    ASSUME NEW E, \A i \in Numbers : E[i] = CleanOf(i)
    PROVE  FirstOf(E, Len(Clusters)) = CleansClusters
<1>1. FirstOf(E, Len(Clusters)) = UNION {E[i] : i \in Numbers}
  BY TypesOfLists DEF FirstOf
<1>2. ASSUME NEW i \in Numbers PROVE CleanOf(i) \subseteq CleansClusters
  BY Configured DEF CleanOf, CleansClusters, All
<1>3. ASSUME NEW n \in (Storage \ Metas) \cap OnSkipped
      PROVE  \E i \in Numbers : C("halt_storage", n) \in CleanOf(i) /\ C("rm_data", n) \in CleanOf(i)
  <2>1. PICK i \in Numbers : n \in StorageIn(i)
    BY Configured
  <2>2. C("halt_storage", n) \in CleanOf(i) /\ C("rm_data", n) \in CleanOf(i)
    BY <2>1, CommandIs DEF CleanOf
  <2> QED
    BY <2>2
<1>4. ASSUME NEW n \in Comp \cap OnSkipped
      PROVE  \E i \in Numbers : C("halt_comp", n) \in CleanOf(i) /\ C("rm_data", n) \in CleanOf(i)
  <2>1. PICK i \in Numbers : n \in CompsIn(i)
    BY Configured
  <2>2. C("halt_comp", n) \in CleanOf(i) /\ C("rm_data", n) \in CleanOf(i)
    BY <2>1, CommandIs DEF CleanOf
  <2> QED
    BY <2>2
<1>5. ASSUME NEW c \in CleansClusters PROVE \E i \in Numbers : c \in CleanOf(i)
  <2>1. \A n \in OnSkipped \ Metas :
           n \in (Storage \ Metas) \cap OnSkipped \/ n \in Comp \cap OnSkipped
    BY DEF OnSkipped, Instance
  <2> QED
    BY <2>1, <1>3, <1>4 DEF CleansClusters, All
<1>6. UNION {E[i] : i \in Numbers} = CleansClusters
  BY <1>2, <1>5
<1> QED
  BY <1>1, <1>6

\* clean.sh is in order: processes before files, a node manager before its instances.
LEMMA CleanInOrder == UseAdds(CleanScript, {}, CleanSet)
<1> DEFINE a1 == Each(<<"stop_nodemgr", "clear_instances", "rm_nodemgr">>, OwnNodeMgrs)
           ss == [i \in DOMAIN Clusters |-> CleanCluster(Clusters[i])]
           a2 == FlattenSeq(ss)
           a3 == Each(<<"stop_clustermgr", "rm_clustermgr">>, ClusterMgrs)
           a4 == IF ExternalMeta /\ NodeMgrs # <<>> THEN Cmd("remove_metadata") ELSE <<>>
           M == Those(MetaNodes, OnSkipped)
           a5 == Each(<<"halt_storage", "rm_meta">>, M)
           E == [i \in Numbers |-> CleanOf(i)]
           A1 == All("stop_nodemgr", OwnMachines) \cup All("clear_instances", OwnMachines)
                   \cup All("rm_nodemgr", OwnMachines)
           A3 == All("stop_clustermgr", ToSet(ClusterMgrs)) \cup All("rm_clustermgr", ToSet(ClusterMgrs))
           A5 == All("halt_storage", Metas \cap OnSkipped) \cup All("rm_meta", Metas \cap OnSkipped)
<1>1. CleanScript = (((a1 \o a2) \o a3) \o a4) \o a5
  BY DEF CleanScript
<1>2. UseAdds(a1, {}, A1)
  <2>1. ASSUME NEW x \in Machine
        PROVE  /\ UseFits(C("stop_nodemgr", x), {})
               /\ UseFits(C("clear_instances", x), {} \cup {C("stop_nodemgr", x)})
               /\ UseFits(C("rm_nodemgr", x), {} \cup {C("stop_nodemgr", x), C("clear_instances", x)})
    <3>1. /\ NeedsInUse("stop_nodemgr", x) = {}
          /\ NeedsInUse("clear_instances", x) = {C("stop_nodemgr", x)}
          /\ NeedsInUse("rm_nodemgr", x) = {C("stop_nodemgr", x), C("clear_instances", x)}
      BY DEF NeedsInUse
    <3>2. UseFits(C("stop_nodemgr", x), {})
      BY <3>1, Things, UseFitsIs DEF Op
    <3>3. UseFits(C("clear_instances", x), {} \cup {C("stop_nodemgr", x)})
      BY <3>1, Things, UseFitsIs DEF Op
    <3>4. UseFits(C("rm_nodemgr", x), {} \cup {C("stop_nodemgr", x), C("clear_instances", x)})
      BY <3>1, Things, UseFitsIs DEF Op
    <3> QED
      BY <3>2, <3>3, <3>4
  <2>2. \A x \in ToSet(OwnNodeMgrs) :
           /\ UseFits(C("stop_nodemgr", x), {})
           /\ UseFits(C("clear_instances", x), {} \cup {C("stop_nodemgr", x)})
           /\ UseFits(C("rm_nodemgr", x), {} \cup {C("stop_nodemgr", x), C("clear_instances", x)})
    BY <2>1, ListsAre, Configured
  <2>3. "stop_nodemgr" \in Op /\ "clear_instances" \in Op /\ "rm_nodemgr" \in Op
    BY DEF Op
  <2>4. UseAdds(a1, {}, All("stop_nodemgr", ToSet(OwnNodeMgrs)) \cup All("clear_instances", ToSet(OwnNodeMgrs))
                          \cup All("rm_nodemgr", ToSet(OwnNodeMgrs)))
    BY <2>2, <2>3, ListsAre, SubsetsOfThing, UseAddsThree
  <2> QED
    BY <2>4, ListsAre
<1>3. UseAdds(a2, A1, CleansClusters)
  <2>1. /\ DOMAIN ss = Numbers /\ Len(ss) = Len(Clusters)
        /\ Len(ss) = 0 => ss = <<>>
        /\ \A i \in Numbers : ss[i] = CleanCluster(Clusters[i]) /\ E[i] = CleanOf(i)
    BY TypesOfLists DEF Numbers
  <2> HIDE DEF ss, E
  <2>2. ASSUME NEW i \in Numbers PROVE UseAdds(ss[i], A1 \cup FirstOf(E, i - 1), E[i])
    <3>1. \A j \in 1..(i - 1) : j \in Numbers /\ j # i
      BY TypesOfLists
    <3>2. ASSUME NEW x \in StorageIn(i) PROVE C("halt_storage", x) \notin FirstOf(E, i - 1)
      <4> SUFFICES ASSUME NEW j \in 1..(i - 1), C("halt_storage", x) \in E[j] PROVE FALSE
        BY DEF FirstOf
      <4>1. E[j] = CleanOf(j) /\ j \in Numbers /\ j # i
        BY <2>1, <3>1
      <4>2. x \in StorageIn(j)
        BY <4>1, CommandIs DEF CleanOf
      <4> QED
        BY <4>1, <4>2, Configured
    <3>3. \A x : C("halt_storage", x) \notin A1
      BY CommandIs
    <3> HIDE DEF A1
    <3>4. \A x \in StorageIn(i) : C("halt_storage", x) \notin A1 \cup FirstOf(E, i - 1)
      BY <3>2, <3>3
    <3>5. UseAdds(CleanCluster(Clusters[i]), A1 \cup FirstOf(E, i - 1), CleanOf(i))
      BY <3>4, CleanClusterInOrder
    <3> QED
      BY <2>1, <3>5
  <2> HIDE DEF A1
  <2>3. UseAdds(FlattenSeq(ss), A1, FirstOf(E, Len(Clusters)))
    BY <2>1, <2>2, UseAddsClusters
  <2> QED
    BY <2>1, <2>3, CleansClustersAre
<1>4. UseAdds(a3, A1 \cup CleansClusters, A3)
  <2> DEFINE D == A1 \cup CleansClusters
  <2>1. ASSUME NEW x \in ToSet(ClusterMgrs)
        PROVE  /\ UseFits(C("stop_clustermgr", x), D)
               /\ UseFits(C("rm_clustermgr", x), D \cup {C("stop_clustermgr", x)})
    <3>1. /\ NeedsInUse("stop_clustermgr", x) = {}
          /\ NeedsInUse("rm_clustermgr", x)
               = {C("stop_clustermgr", x)} \cup All("clear_instances", {x} \cap OwnMachines)
                   \cup All("halt_storage", EarlyOn(x) \cap Storage)
      BY DEF NeedsInUse
    <3>2. /\ C("stop_clustermgr", x) \notin D /\ All("clear_instances", {x} \cap OwnMachines) \subseteq D
          /\ All("halt_storage", EarlyOn(x) \cap Storage) \subseteq D
      BY CommandIs DEF CleansClusters, All, EarlyOn
    <3> HIDE DEF D
    <3>3. UseFits(C("stop_clustermgr", x), D)
      BY <3>1, <3>2, Configured, Things, UseFitsIs DEF Op
    <3>4. UseFits(C("rm_clustermgr", x), D \cup {C("stop_clustermgr", x)})
      <4>1. NeedsInUse("rm_clustermgr", x) \subseteq D \cup {C("stop_clustermgr", x)}
        BY <3>1, <3>2
      <4> QED
        BY <4>1, Configured, Things, UseFitsIs DEF Op
    <3> QED
      BY <3>3, <3>4
  <2> HIDE DEF D
  <2>2. UseAdds(a3, D, A3)
    BY <2>1, TypesOfLists, ListsAre, SubsetsOfThing, UseAddsTwo DEF Op
  <2> QED
    BY <2>2 DEF D
<1>5. UseAdds(a4, (A1 \cup CleansClusters) \cup A3, RemovesRows)
  <2> DEFINE D == (A1 \cup CleansClusters) \cup A3
  <2> HIDE DEF D
  <2>1. UseAdds(a4, D, RemovesRows)
    <3>1. CASE ~(ExternalMeta /\ NodeMgrs # <<>>)
      BY <3>1, UseAddsNothing DEF RemovesRows
    <3>2. CASE ExternalMeta /\ NodeMgrs # <<>>
      <4>1. NeedsInUse("remove_metadata", 0) \subseteq D
        BY DEF NeedsInUse
      <4>2. UseFits(C("remove_metadata", 0), D)
        BY <4>1, Things, UseFitsIs DEF Op
      <4>3. Cmd("remove_metadata") = <<C("remove_metadata", 0)>> /\ RemovesRows = {C("remove_metadata", 0)}
        BY <3>2 DEF Cmd, C, RemovesRows, All
      <4>4. DOMAIN UseNeeds = Command
        BY DEF UseNeeds
      <4> QED
        BY <3>2, <4>2, <4>3, <4>4, AddsOne DEF UseAdds, UseFits, InPlace
    <3> QED
      BY <3>1, <3>2
  <2> QED
    BY <2>1 DEF D
<1>6. UseAdds(a5, ((A1 \cup CleansClusters) \cup A3) \cup RemovesRows, A5)
  <2> DEFINE D == ((A1 \cup CleansClusters) \cup A3) \cup RemovesRows
  <2>1. M \in Seq(Storage) /\ IsInjective(M) /\ ToSet(M) = Metas \cap OnSkipped
    BY TypesOfLists, ListsAre, SkippedLists DEF Metas
  <2>2. /\ \A x \in Metas : C("halt_storage", x) \notin D
        /\ \A x \in Undermined : C("rm_clustermgr", Host[x]) \in D
    <3>1. \A x \in Metas : C("halt_storage", x) \notin D
      BY CommandIs DEF CleansClusters, RemovesRows
    <3>2. \A x \in Undermined : C("rm_clustermgr", Host[x]) \in A3
      BY DEF Undermined, All
    <3> QED
      BY <3>1, <3>2
  <2> HIDE DEF D, M
  <2>3. ASSUME NEW x \in ToSet(M)
        PROVE  /\ UseFits(C("halt_storage", x), D)
               /\ UseFits(C("rm_meta", x), D \cup {C("halt_storage", x)})
    <3>1. NeedsInUse("halt_storage", x) \subseteq D /\ NeedsInUse("rm_meta", x) = {C("halt_storage", x)}
      BY <2>2 DEF NeedsInUse
    <3>2. x \in Storage /\ C("halt_storage", x) \notin D
      BY <2>1, <2>2, Configured
    <3>3. UseFits(C("halt_storage", x), D)
      BY <3>1, <3>2, Things, UseFitsIs DEF Op
    <3>4. UseFits(C("rm_meta", x), D \cup {C("halt_storage", x)})
      BY <3>1, <3>2, Things, UseFitsIs DEF Op
    <3> QED
      BY <3>3, <3>4
  <2>4. UseAdds(a5, D, A5)
    BY <2>1, <2>3, SubsetsOfThing, UseAddsTwo DEF Op
  <2> QED
    BY <2>4 DEF D
<1>7. CleanSet = (((A1 \cup CleansClusters) \cup A3) \cup RemovesRows) \cup A5
  <2>1. Storage \cap OnSkipped = ((Storage \ Metas) \cap OnSkipped) \cup (Metas \cap OnSkipped)
    BY Configured
  <2>2. All("halt_storage", Storage \cap OnSkipped)
          = All("halt_storage", (Storage \ Metas) \cap OnSkipped) \cup All("halt_storage", Metas \cap OnSkipped)
    BY <2>1, AllIs
  <2> QED
    BY <2>2 DEF CleanSet, CleansClusters
<1> HIDE DEF a1, a2, a3, a4, a5, A1, A3, A5
<1>8. ASSUME NEW X, NEW Y, NEW a, NEW b, UseAdds(a, {}, X), UseAdds(b, X, Y)
      PROVE  UseAdds(a \o b, {}, X \cup Y)
  <2>1. {} \cup X = X
    OBVIOUS
  <2> QED
    BY <2>1, <1>8, UseAddsBoth
<1>9. UseAdds(a1 \o a2, {}, A1 \cup CleansClusters)
  BY <1>2, <1>3, <1>8
<1>10. UseAdds((a1 \o a2) \o a3, {}, (A1 \cup CleansClusters) \cup A3)
  BY <1>4, <1>9, <1>8
<1>11. UseAdds(((a1 \o a2) \o a3) \o a4, {}, ((A1 \cup CleansClusters) \cup A3) \cup RemovesRows)
  BY <1>5, <1>10, <1>8
<1>12. UseAdds((((a1 \o a2) \o a3) \o a4) \o a5, {},
               (((A1 \cup CleansClusters) \cup A3) \cup RemovesRows) \cup A5)
  BY <1>6, <1>11, <1>8
<1> QED
  BY <1>1, <1>7, <1>12

-----------------------------------------------------------------------------
(* What a step does to the script. *)

InstallSet == (Installs \cup Registers) \cup Managers
ScriptSet(a) ==
    CASE a = "install" -> InstallSet
      [] a = "start"   -> StartSet
      [] a = "stop"    -> StopSet
      [] OTHER         -> CleanSet

\* The commands that the script has passed.
Did == Before(Commands(action), pc)

InScript == action # "none" => pc \in 1..(Len(Commands(action)) + 1)

\* The commands of each script, as a set.
LEMMA ScriptsAre ==
    \A a \in Scripts :
       LET s == Commands(a) IN
       /\ Len(s) \in Nat /\ Before(s, Len(s) + 1) = ScriptSet(a)
       /\ \A k \in 1..Len(s) : s[k] \in ScriptSet(a)
       /\ \A k \in 1..(Len(s) + 1) : Before(s, k) \subseteq ScriptSet(a)
       /\ ScriptSet(a) \subseteq Command
<1>1. Commands("install") = InstallScript /\ Commands("start") = StartScript
      /\ Commands("stop") = StopScript /\ Commands("clean") = CleanScript
  BY DEF Commands
<1>2. ScriptSet("install") = InstallSet /\ ScriptSet("start") = StartSet
      /\ ScriptSet("stop") = StopSet /\ ScriptSet("clean") = CleanSet
  BY DEF ScriptSet
<1>3. DOMAIN InstallNeeds = Command /\ DOMAIN UseNeeds = Command
  BY DEF InstallNeeds, UseNeeds
<1>4. Adds(InstallScript, {}, InstallSet, InstallNeeds, InstallOnce)
  BY InstallInOrder DEF InstallAdds, InstallSet
<1>5. /\ Adds(StartScript, {}, StartSet, UseNeeds, UseOnce)
      /\ Adds(StopScript, {}, StopSet, UseNeeds, UseOnce)
      /\ Adds(CleanScript, {}, CleanSet, UseNeeds, UseOnce)
  BY StartInOrder, StopInOrder, CleanInOrder DEF UseAdds
<1>6. ASSUME NEW a \in Scripts
      PROVE  Adds(Commands(a), {}, ScriptSet(a), InstallNeeds, InstallOnce)
             \/ Adds(Commands(a), {}, ScriptSet(a), UseNeeds, UseOnce)
  BY <1>1, <1>2, <1>4, <1>5 DEF Scripts
<1> SUFFICES ASSUME NEW a \in Scripts
             PROVE LET s == Commands(a) IN
       /\ Len(s) \in Nat /\ Before(s, Len(s) + 1) = ScriptSet(a)
       /\ \A k \in 1..Len(s) : s[k] \in ScriptSet(a)
       /\ \A k \in 1..(Len(s) + 1) : Before(s, k) \subseteq ScriptSet(a)
       /\ ScriptSet(a) \subseteq Command
  OBVIOUS
<1>7. CASE Adds(Commands(a), {}, ScriptSet(a), InstallNeeds, InstallOnce)
  BY <1>3, <1>7, AddsInOrder
<1>8. CASE Adds(Commands(a), {}, ScriptSet(a), UseNeeds, UseOnce)
  BY <1>3, <1>8, AddsInOrder
<1> QED
  BY <1>6, <1>7, <1>8

\* install.sh: what a command needs, and what those before it needed, is done.
LEMMA InstallDid ==
    ASSUME InScript, action = "install"
    PROVE  /\ Did \subseteq InstallSet /\ \A c \in Did : InstallNeeds[c] \subseteq Did
           /\ Pending => InPlace(Current, Did, InstallNeeds, InstallOnce)
<1>1. Adds(InstallScript, {}, InstallSet, InstallNeeds, InstallOnce)
  BY InstallInOrder DEF InstallAdds, InstallSet
<1>2. Commands(action) = InstallScript
  BY DEF Commands
<1>3. Pending => pc \in 1..Len(InstallScript)
  BY <1>1, <1>2, AddsInOrder DEF Pending, InScript
<1> QED
  BY <1>1, <1>2, <1>3, AddsInOrder DEF Did, Current, InScript

\* start.sh, stop.sh and clean.sh: what a command needs was passed.
LEMMA UseDid ==
    ASSUME InScript, action \in {"start", "stop", "clean"}
    PROVE  /\ \A c \in Did : UseNeeds[c] \subseteq Did
           /\ Pending => InPlace(Current, Did, UseNeeds, UseOnce)
<1>1. Adds(Commands(action), {}, ScriptSet(action), UseNeeds, UseOnce)
  BY StartInOrder, StopInOrder, CleanInOrder DEF UseAdds, Commands, ScriptSet
<1>2. Pending => pc \in 1..Len(Commands(action))
  BY <1>1, AddsInOrder DEF Pending, InScript
<1> QED
  BY <1>1, <1>2, AddsInOrder DEF Did, Current, InScript

\* The commands passed and the next one belong to the script.
LEMMA DidIs ==
    ASSUME TypeOK, InScript, action # "none"
    PROVE  /\ Did \subseteq ScriptSet(action)
           /\ Pending => Current \in ScriptSet(action) /\ Current \in Command
           /\ ~Pending => Did = ScriptSet(action)
           /\ Pending => pc + 1 \in 1..(Len(Commands(action)) + 1)
<1>1. action \in Scripts
  BY DEF TypeOK
<1>2. Len(Commands(action)) \in Nat
  BY <1>1, ScriptsAre
<1>3. Pending => pc \in 1..Len(Commands(action)) 
  BY <1>2 DEF Pending, InScript
<1>4. ~Pending => pc = Len(Commands(action)) + 1
  BY <1>2 DEF Pending, InScript
<1> QED
  BY <1>1, <1>2, <1>3, <1>4, ScriptsAre DEF Did, Current, InScript

\* One more command is done.
LEMMA OneMore ==
    ASSUME TypeOK, action' = action, pc' = pc + 1
    PROVE  Did' = Did \cup {Current}
<1>1. pc \in Nat \ {0} /\ pc + 1 - 1 = pc /\ 1..pc = 1..(pc - 1) \cup {pc}
  BY DEF TypeOK
<1>2. Commands(action') = Commands(action)
  OBVIOUS
<1>3. Did' = Before(Commands(action), pc + 1)
  BY <1>2 DEF Did
<1> QED
  BY <1>1, <1>3 DEF Before, Did, Current

\* A script that begins has passed nothing.
LEMMA NoneYet == ASSUME pc' = 1 PROVE Did' = {}
  BY DEF Did, Before

InstallRuns ==
    \/ \E m \in Machine : InitNode(m) \/ SetupNodemgr(m) \/ SetupClustermgr(m)
                            \/ StartNodemgr(m) \/ StartClustermgr(m)
    \/ \E n \in Instance : InstanceEnv(n) \/ InstallInstance(n)
    \/ \E i \in DOMAIN Clusters : CreateCluster(i)
    \/ Bootstrap \/ AddMetadata
StartRuns ==
    \/ \E m \in Machine : StartInstances(m) \/ StartNodemgr(m) \/ StartClustermgr(m)
    \/ \E n \in Instance : StartInstance(n)
StopRuns ==
    \/ \E m \in Machine : StopNodemgr(m) \/ StopInstances(m) \/ StopClustermgr(m)
    \/ \E n \in Instance : StopInstance(n)
CleanRuns ==
    \/ \E m \in Machine : StopNodemgr(m) \/ ClearInstances(m) \/ RemoveNodemgr(m)
                            \/ StopClustermgr(m) \/ RemoveClustermgr(m)
    \/ \E n \in Instance : StopInstance(n) \/ RemoveData(n) \/ RemoveMeta(n)
    \/ RemoveMetadata

\* The script goes on to its next command.
Moves ==
    /\ Pending /\ pc' = pc + 1 /\ UNCHANGED <<action, base, runs>> /\ (smooth' => smooth)
\* A command that has no effect.
Skips ==
    /\ action \in {"stop", "clean"} /\ Moves
    /\ UNCHANGED <<files, data, procs, meta>>
    /\ smooth' => smooth /\ ~CanRun(Current)
\* The script ends.
Ends ==
    /\ action # "none" /\ action' = "none"
    /\ UNCHANGED <<base, files, procs, meta>> /\ data \subseteq data'
    /\ \/ UNCHANGED <<data, smooth>> /\ pc > Len(Commands(action))
       \/ UNCHANGED <<data, smooth>> /\ Pending /\ action \in AbortsOnError /\ ~CanRun(Current)
       \/ smooth' = FALSE
\* A machine crashes, an instance is revived, or nothing happens.
Rests ==
    /\ UNCHANGED <<action, pc, base, files, data, meta>>
    /\ running' \subseteq running \cup OnSkipped
    /\ nodemgrUp' \subseteq nodemgrUp /\ clustermgrUp' \subseteq clustermgrUp
    /\ nodemgrUp \cap Skip \subseteq nodemgrUp'
    /\ smooth' => smooth /\ UNCHANGED procs

\* The operations of each script.
LEMMA OperationsOf ==
    ASSUME TypeOK, InScript, Pending
    PROVE  /\ action = "install" =>
                Current.op \in {"init_node", "setup_nodemgr", "storage_env", "server_env",
                                "install_storage", "bootstrap", "create_cluster", "add_comp",
                                "setup_clustermgr", "add_metadata", "start_nodemgr", "start_clustermgr"}
           /\ action = "start" =>
                Current.op \in {"start_instances", "start_nodemgr", "start_instance", "start_clustermgr"}
           /\ action = "stop" =>
                Current.op \in {"stop_nodemgr", "stop_instances", "stop_instance", "stop_clustermgr"}
           /\ action = "clean" =>
                Current.op \in {"stop_nodemgr", "clear_instances", "rm_nodemgr", "halt_storage",
                                "halt_comp", "rm_data", "rm_meta", "stop_clustermgr", "rm_clustermgr",
                                "remove_metadata"}
<1>1. action # "none"
  BY DEF Pending
<1>2. Current \in ScriptSet(action)
  BY <1>1, DidIs
<1>3. CASE action = "install"
  <2>1. Current \in InstallSet
    BY <1>2, <1>3 DEF ScriptSet
  <2> QED
    BY <1>3, <2>1, CommandIs DEF InstallSet, Installs, Registers, Managers, MetaReady, All
<1>4. CASE action = "start"
  <2>1. Current \in StartSet
    BY <1>2, <1>4 DEF ScriptSet
  <2> QED
    BY <1>4, <2>1, CommandIs DEF StartSet, All
<1>5. CASE action = "stop"
  <2>1. Current \in StopSet
    BY <1>2, <1>5 DEF ScriptSet
  <2> QED
    BY <1>5, <2>1, CommandIs DEF StopSet, All
<1>6. CASE action = "clean"
  <2>1. Current \in CleanSet
    BY <1>2, <1>6 DEF ScriptSet
  <2> QED
    BY <1>6, <2>1, CommandIs DEF CleanSet, RemovesRows, All
<1> QED
  BY <1>1, <1>3, <1>4, <1>5, <1>6 DEF TypeOK, Scripts

\* Every step is a command of the script that runs, or begins or ends a script, or
\* has no effect on it.
LEMMA ScriptSteps ==
    ASSUME TypeOK, InScript, [Next]_vars
    PROVE  \/ \E a \in Scripts : Issue(a)
           \/ Skips \/ Ends \/ Rests
           \/ Moves /\ action = "install" /\ InstallRuns
           \/ Moves /\ action = "start" /\ StartRuns
           \/ Moves /\ action = "stop" /\ StopRuns
           \/ Moves /\ action = "clean" /\ CleanRuns
<1> DEFINE Ran ==
       \/ Moves /\ action = "install" /\ InstallRuns
       \/ Moves /\ action = "start" /\ StartRuns
       \/ Moves /\ action = "stop" /\ StopRuns
       \/ Moves /\ action = "clean" /\ CleanRuns
           Issued == \E a \in Scripts : Issue(a)
           Steps == Ran \/ Skips \/ Ends \/ Rests \/ Issued
<1> SUFFICES Steps
  OBVIOUS
<1>1. Pending => action \in Scripts
  BY DEF TypeOK, Pending
<1>2. Pending => Current.op \in
         CASE action = "install" ->
                {"init_node", "setup_nodemgr", "storage_env", "server_env",
                 "install_storage", "bootstrap", "create_cluster", "add_comp",
                 "setup_clustermgr", "add_metadata", "start_nodemgr", "start_clustermgr"}
           [] action = "start" -> {"start_instances", "start_nodemgr", "start_instance", "start_clustermgr"}
           [] action = "stop" -> {"stop_nodemgr", "stop_instances", "stop_instance", "stop_clustermgr"}
           [] OTHER -> {"stop_nodemgr", "clear_instances", "rm_nodemgr", "halt_storage",
                                "halt_comp", "rm_data", "rm_meta", "stop_clustermgr", "rm_clustermgr",
                                "remove_metadata"}
  BY <1>1, OperationsOf DEF Scripts
<1> DEFINE op == Current.op
<1>3. ASSUME NEW m \in Machine, OnMachine(m) PROVE Ran
  <2>1. CASE InitNode(m)
    <3>1. Moves /\ op = "init_node"
      BY <2>1 DEF InitNode, At, Advance, Moves
    <3> QED
      BY <2>1, <3>1, <1>1, <1>2 DEF Scripts, InstallRuns, Moves
  <2>2. CASE SetupNodemgr(m)
    <3>1. Moves /\ op = "setup_nodemgr"
      BY <2>2 DEF SetupNodemgr, At, Advance, Moves
    <3> QED
      BY <2>2, <3>1, <1>1, <1>2 DEF Scripts, InstallRuns, Moves
  <2>3. CASE SetupClustermgr(m)
    <3>1. Moves /\ op = "setup_clustermgr"
      BY <2>3 DEF SetupClustermgr, At, Advance, Moves
    <3> QED
      BY <2>3, <3>1, <1>1, <1>2 DEF Scripts, InstallRuns, Moves
  <2>4. CASE StartNodemgr(m)
    <3>1. Moves /\ op = "start_nodemgr"
      BY <2>4 DEF StartNodemgr, At, Advance, Moves
    <3> QED
      BY <2>4, <3>1, <1>1, <1>2 DEF Scripts, InstallRuns, StartRuns, Moves
  <2>5. CASE StartClustermgr(m)
    <3>1. Moves /\ op = "start_clustermgr"
      BY <2>5 DEF StartClustermgr, At, Advance, Moves
    <3> QED
      BY <2>5, <3>1, <1>1, <1>2 DEF Scripts, InstallRuns, StartRuns, Moves
  <2>6. CASE StartInstances(m)
    <3>1. Moves /\ op = "start_instances"
      BY <2>6 DEF StartInstances, At, HideFailures, Moves
    <3> QED
      BY <2>6, <3>1, <1>1, <1>2 DEF Scripts, StartRuns, Moves
  <2>7. CASE StopNodemgr(m)
    <3>1. Moves /\ op = "stop_nodemgr"
      BY <2>7 DEF StopNodemgr, At, Advance, Moves
    <3> QED
      BY <2>7, <3>1, <1>1, <1>2 DEF Scripts, StopRuns, CleanRuns, Moves
  <2>8. CASE StopClustermgr(m)
    <3>1. Moves /\ op = "stop_clustermgr"
      BY <2>8 DEF StopClustermgr, At, Advance, Moves
    <3> QED
      BY <2>8, <3>1, <1>1, <1>2 DEF Scripts, StopRuns, CleanRuns, Moves
  <2>9. CASE StopInstances(m)
    <3>1. Moves /\ op = "stop_instances"
      BY <2>9 DEF StopInstances, At, HideFailures, Moves
    <3> QED
      BY <2>9, <3>1, <1>1, <1>2 DEF Scripts, StopRuns, Moves
  <2>10. CASE ClearInstances(m)
    <3>1. Moves /\ action = "clean"
      BY <2>10 DEF ClearInstances, InClean, At, HideFailures, Moves
    <3> QED
      BY <2>10, <3>1 DEF CleanRuns
  <2>11. CASE RemoveNodemgr(m)
    <3>1. Moves /\ action = "clean"
      BY <2>11 DEF RemoveNodemgr, InClean, At, Advance, Moves
    <3> QED
      BY <2>11, <3>1 DEF CleanRuns
  <2>12. CASE RemoveClustermgr(m)
    <3>1. Moves /\ action = "clean"
      BY <2>12 DEF RemoveClustermgr, InClean, At, Advance, Moves
    <3> QED
      BY <2>12, <3>1 DEF CleanRuns
  <2> HIDE DEF Ran
  <2> QED
    BY <1>3, <2>1, <2>2, <2>3, <2>4, <2>5, <2>6, <2>7, <2>8, <2>9, <2>10, <2>11, <2>12 DEF OnMachine
<1>4. ASSUME NEW n \in Instance, OnInstance(n) PROVE Ran
  <2>1. CASE InstanceEnv(n)
    <3>1. Moves /\ op \in {"storage_env", "server_env"}
      BY <2>1 DEF InstanceEnv, AtOneOf, Advance, Moves
    <3> QED
      BY <2>1, <3>1, <1>1, <1>2 DEF Scripts, InstallRuns, Moves
  <2>2. CASE InstallInstance(n)
    <3>1. Moves /\ op \in {"install_storage", "add_comp"}
      BY <2>2 DEF InstallInstance, AtOneOf, Advance, Moves, Installers
    <3> QED
      BY <2>2, <3>1, <1>1, <1>2 DEF Scripts, InstallRuns, Moves
  <2>3. CASE StartInstance(n)
    <3>1. Moves /\ op = "start_instance"
      BY <2>3 DEF StartInstance, At, Advance, Moves
    <3> QED
      BY <2>3, <3>1, <1>1, <1>2 DEF Scripts, StartRuns, Moves
  <2>4. CASE StopInstance(n)
    <3>1. Moves /\ op \in {"stop_instance", "halt_storage", "halt_comp"}
      BY <2>4 DEF StopInstance, AtOneOf, Advance, Moves
    <3> QED
      BY <2>4, <3>1, <1>1, <1>2 DEF Scripts, StopRuns, CleanRuns, Moves
  <2>5. CASE RemoveData(n)
    <3>1. Moves /\ action = "clean"
      BY <2>5 DEF RemoveData, InClean, At, Advance, Moves
    <3> QED
      BY <2>5, <3>1 DEF CleanRuns
  <2>6. CASE RemoveMeta(n)
    <3>1. Moves /\ action = "clean"
      BY <2>6 DEF RemoveMeta, InClean, At, Advance, Moves
    <3> QED
      BY <2>6, <3>1 DEF CleanRuns
  <2> HIDE DEF Ran
  <2> QED
    BY <1>4, <2>1, <2>2, <2>3, <2>4, <2>5, <2>6 DEF OnInstance
<1>5. ASSUME NEW i \in DOMAIN Clusters, CreateCluster(i) PROVE Ran
  <2>1. Moves /\ op = "create_cluster"
    BY <1>5 DEF CreateCluster, At, Advance, Moves
  <2> QED
    BY <1>5, <2>1, <1>1, <1>2 DEF Scripts, InstallRuns, Moves
<1>6. CASE Bootstrap
  <2>1. Moves /\ op = "bootstrap"
    BY <1>6 DEF Bootstrap, At, Advance, Moves
  <2> QED
    BY <1>6, <2>1, <1>1, <1>2 DEF Scripts, InstallRuns, Moves
<1>7. CASE AddMetadata
  <2>1. Moves /\ op = "add_metadata"
    BY <1>7 DEF AddMetadata, At, Advance, Moves
  <2> QED
    BY <1>7, <2>1, <1>1, <1>2 DEF Scripts, InstallRuns, Moves
<1>8. CASE RemoveMetadata
  <2>1. Moves /\ action = "clean"
    BY <1>8 DEF RemoveMetadata, InClean, At, Advance, Moves
  <2> QED
    BY <1>8, <2>1 DEF CleanRuns
<1>9. CASE CommandFails
  <2>1. CASE action \in AbortsOnError
    BY <1>9, <2>1 DEF CommandFails, AfterError, Ends, Pending, AbortsOnError
  <2>2. CASE action \notin AbortsOnError
    BY <1>9, <2>2, <1>1 DEF CommandFails, AfterError, Skips, Moves, AbortsOnError, Scripts
  <2> QED
    BY <2>1, <2>2
<1>10. CASE CommandFaults
  <2>1. data \subseteq data' /\ smooth' = FALSE /\ Pending
    BY <1>10 DEF CommandFaults
  <2>2. CASE action \in AbortsOnError
    BY <1>10, <2>1, <2>2 DEF CommandFaults, AfterError, Ends, Pending, AbortsOnError
  <2>3. CASE action \notin AbortsOnError
    <3>1. action \in {"stop", "clean"}
      BY <2>1, <2>3, <1>1 DEF AbortsOnError, Scripts
    <3>2. Current.op \notin Installers
      BY <2>1, <3>1, <1>2 DEF Installers
    <3> QED
      BY <1>10, <2>1, <2>3, <3>1, <3>2 DEF CommandFaults, AfterError, Skips, Moves
  <2> QED
    BY <2>2, <2>3
<1>11. CASE Interrupt
  BY <1>11 DEF Interrupt, Ends
<1>12. CASE Finish
  BY <1>12 DEF Finish, Ends
<1>13. ASSUME NEW m \in Machine, Crash(m) PROVE Rests
  BY <1>13 DEF Crash, Rests
<1>14. CASE UNCHANGED vars
  BY <1>14 DEF vars, script, procs, Rests
<1>19. ASSUME NEW n \in Instance, Revive(n) PROVE Rests
  BY <1>19 DEF Revive, Rests
<1>15. CASE Issued
  BY <1>15
<1> HIDE DEF Ran, Issued
<1>16. CASE Run
  <2>1. ASSUME Ran PROVE Steps
    BY <2>1
  <2> HIDE DEF Steps
  <2> QED
    BY <1>16, <2>1, <1>3, <1>4, <1>5, <1>6, <1>7, <1>8, <1>9, <1>12 DEF Run
<1>17. CASE Faults
  <2>1. ASSUME Rests PROVE Steps
    BY <2>1
  <2> HIDE DEF Steps
  <2> QED
    BY <1>17, <2>1, <1>10, <1>11, <1>13 DEF Faults
<1>18. Next => Run \/ Faults \/ Rests \/ Issued
  BY <1>19 DEF Next, Issued
<1> QED
  BY <1>14, <1>15, <1>16, <1>17, <1>18

\* The script stays within its commands.
LEMMA ScriptPosition == ASSUME TypeOK, InScript, [Next]_vars PROVE InScript'
<1>1. ASSUME NEW a \in Scripts, Issue(a) PROVE InScript'
  <2>1. action' = a /\ pc' = 1 /\ Len(Commands(a)) \in Nat
    BY <1>1, ScriptsAre DEF Issue
  <2>2. Commands(action') = Commands(a)
    BY <2>1
  <2> QED
    BY <2>1, <2>2 DEF InScript
<1>2. CASE Moves
  <2>1. action # "none" /\ action' = action /\ pc' = pc + 1 /\ Pending
    BY <1>2 DEF Moves, Pending
  <2>2. pc + 1 \in 1..(Len(Commands(action)) + 1)
    BY <2>1, DidIs
  <2> QED
    BY <2>1, <2>2 DEF InScript
<1>3. CASE Ends
  BY <1>3 DEF Ends, InScript
<1>4. CASE Rests
  BY <1>4 DEF Rests, InScript
<1> QED
  BY <1>1, <1>2, <1>3, <1>4, ScriptSteps DEF Skips

\* The command that an action is for.
LEMMA CurrentIs ==
    ASSUME TypeOK, InScript
    PROVE  /\ \A op, x : At(op, x) =>
                 /\ Pending /\ action \in Scripts
                 /\ Current = C(op, x) /\ C(op, x) \in ScriptSet(action)
           /\ \A ops, x : AtOneOf(ops, x) =>
                 /\ Pending /\ action \in Scripts
                 /\ \E op \in ops : Current = C(op, x) /\ C(op, x) \in ScriptSet(action)
<1>1. Pending => /\ action \in Scripts /\ Current \in ScriptSet(action) /\ Current \in Command
  BY DidIs DEF Pending, TypeOK
<1>2. ASSUME NEW op, NEW x, At(op, x) PROVE Pending /\ Current = C(op, x)
  BY <1>1, <1>2, CommandIs DEF At
<1>3. ASSUME NEW ops, NEW x, AtOneOf(ops, x) PROVE Pending /\ \E op \in ops : Current = C(op, x)
  BY <1>1, <1>3, CommandIs DEF AtOneOf
<1> QED
  BY <1>1, <1>2, <1>3

\* Which commands each script has for whom.
LEMMA ScriptSetsAre ==
    /\ \A op, m : C(op, m) \in InstallSet =>
          /\ op = "start_nodemgr" => m \in OwnMachines
          /\ op = "start_clustermgr" => m \in ToSet(ClusterMgrs)
          /\ op \in {"storage_env", "install_storage"} => m \in Storage
          /\ op \in {"server_env", "add_comp"} => m \in Comp
          /\ op = "bootstrap" => ~ExternalMeta
          /\ op = "create_cluster" => m \in Numbers
    /\ \A op, m : C(op, m) \in StartSet =>
          /\ op \in {"start_nodemgr", "start_instances"} => m \in OwnMachines
          /\ op = "start_clustermgr" => m \in ToSet(ClusterMgrs)
          /\ op = "start_instance" => m \in OnSkipped
    /\ \A op, m : C(op, m) \in StopSet =>
          /\ op \in {"stop_nodemgr", "stop_instances"} => m \in OwnMachines
          /\ op = "stop_clustermgr" => m \in ToSet(ClusterMgrs)
          /\ op = "stop_instance" => m \in OnSkipped
    /\ \A op, m : C(op, m) \in CleanSet =>
          /\ op \in {"stop_nodemgr", "clear_instances", "rm_nodemgr"} => m \in OwnMachines
          /\ op \in {"stop_clustermgr", "rm_clustermgr"} => m \in ToSet(ClusterMgrs)
          /\ op = "halt_storage" => m \in Storage \cap OnSkipped
          /\ op = "halt_comp" => m \in Comp \cap OnSkipped
          /\ op = "rm_data" => m \in OnSkipped \ Metas
          /\ op = "rm_meta" => m \in Metas \cap OnSkipped
          /\ op = "remove_metadata" => ExternalMeta
<1>1. ASSUME NEW op, NEW m, C(op, m) \in InstallSet
      PROVE  /\ op = "start_nodemgr" => m \in OwnMachines
             /\ op = "start_clustermgr" => m \in ToSet(ClusterMgrs)
             /\ op \in {"storage_env", "install_storage"} => m \in Storage
             /\ op \in {"server_env", "add_comp"} => m \in Comp
             /\ op = "bootstrap" => ~ExternalMeta
             /\ op = "create_cluster" => m \in Numbers
  BY <1>1, CommandIs DEF InstallSet, Installs, Registers, Managers, MetaReady
<1>2. ASSUME NEW op, NEW m, C(op, m) \in StartSet
      PROVE  /\ op \in {"start_nodemgr", "start_instances"} => m \in OwnMachines
             /\ op = "start_clustermgr" => m \in ToSet(ClusterMgrs)
             /\ op = "start_instance" => m \in OnSkipped
  BY <1>2, CommandIs DEF StartSet
<1>3. ASSUME NEW op, NEW m, C(op, m) \in StopSet
      PROVE  /\ op \in {"stop_nodemgr", "stop_instances"} => m \in OwnMachines
             /\ op = "stop_clustermgr" => m \in ToSet(ClusterMgrs)
             /\ op = "stop_instance" => m \in OnSkipped
  BY <1>3, CommandIs DEF StopSet
<1>4. ASSUME NEW op, NEW m, C(op, m) \in CleanSet
      PROVE  /\ op \in {"stop_nodemgr", "clear_instances", "rm_nodemgr"} => m \in OwnMachines
             /\ op \in {"stop_clustermgr", "rm_clustermgr"} => m \in ToSet(ClusterMgrs)
             /\ op = "halt_storage" => m \in Storage \cap OnSkipped
             /\ op = "halt_comp" => m \in Comp \cap OnSkipped
             /\ op = "rm_data" => m \in OnSkipped \ Metas
             /\ op = "rm_meta" => m \in Metas \cap OnSkipped
             /\ op = "remove_metadata" => ExternalMeta
  BY <1>4, CommandIs DEF CleanSet, RemovesRows
<1> QED
  BY <1>1, <1>2, <1>3, <1>4

\* The same of the command that runs.
LEMMA RunsOn ==
    ASSUME TypeOK, InScript
    PROVE  /\ action = "install" =>
              /\ \A m : At("start_nodemgr", m) => m \in OwnMachines
              /\ \A m : At("start_clustermgr", m) => m \in ToSet(ClusterMgrs)
              /\ \A n : AtOneOf({"storage_env", "server_env"}, n) =>
                          \/ Current = C("storage_env", n) /\ n \in Storage
                          \/ Current = C("server_env", n) /\ n \in Comp
              /\ \A n : AtOneOf(Installers, n) =>
                          \/ Current = C("install_storage", n) /\ n \in Storage
                          \/ Current = C("add_comp", n) /\ n \in Comp
              /\ At("bootstrap", 0) => ~ExternalMeta
              /\ \A i : At("create_cluster", i) => i \in Numbers
           /\ action = "start" =>
              /\ \A m : At("start_nodemgr", m) \/ At("start_instances", m) => m \in OwnMachines
              /\ \A m : At("start_clustermgr", m) => m \in ToSet(ClusterMgrs)
              /\ \A n : At("start_instance", n) => n \in OnSkipped
           /\ action = "stop" =>
              /\ \A m : At("stop_nodemgr", m) \/ At("stop_instances", m) => m \in OwnMachines
              /\ \A m : At("stop_clustermgr", m) => m \in ToSet(ClusterMgrs)
              /\ \A n : AtOneOf({"stop_instance", "halt_storage", "halt_comp"}, n) =>
                          Current = C("stop_instance", n) /\ n \in OnSkipped
           /\ action = "clean" =>
              /\ \A m : At("stop_nodemgr", m) \/ At("clear_instances", m) \/ At("rm_nodemgr", m)
                          => m \in OwnMachines
              /\ \A m : At("stop_clustermgr", m) \/ At("rm_clustermgr", m) => m \in ToSet(ClusterMgrs)
              /\ \A n : AtOneOf({"stop_instance", "halt_storage", "halt_comp"}, n) =>
                          \/ Current = C("halt_storage", n) /\ n \in Storage \cap OnSkipped
                          \/ Current = C("halt_comp", n) /\ n \in Comp \cap OnSkipped
              /\ \A n : At("rm_data", n) => n \in OnSkipped \ Metas
              /\ \A n : At("rm_meta", n) => n \in Metas \cap OnSkipped
<1> USE CurrentIs, ScriptSetsAre
<1>1. CASE action = "install"
  <2>1. ScriptSet(action) = InstallSet
    BY <1>1 DEF ScriptSet
  <2> QED
    BY <1>1, <2>1 DEF Installers
<1>2. CASE action = "start"
  <2>1. ScriptSet(action) = StartSet
    BY <1>2 DEF ScriptSet
  <2> QED
    BY <1>2, <2>1
<1>3. CASE action = "stop"
  <2>1. ScriptSet(action) = StopSet
    BY <1>3 DEF ScriptSet
  <2>2. \A n : AtOneOf({"stop_instance", "halt_storage", "halt_comp"}, n) => Current = C("stop_instance", n)
    BY <1>3, <2>1, CommandIs DEF StopSet
  <2> QED
    BY <1>3, <2>1, <2>2, CommandIs
<1>4. CASE action = "clean"
  <2>1. ScriptSet(action) = CleanSet
    BY <1>4 DEF ScriptSet
  <2>2. \A n : C("stop_instance", n) \notin CleanSet
    BY CommandIs DEF CleanSet, RemovesRows
  <2>3. \A n : AtOneOf({"stop_instance", "halt_storage", "halt_comp"}, n) =>
              \/ Current = C("halt_storage", n) /\ n \in Storage \cap OnSkipped
              \/ Current = C("halt_comp", n) /\ n \in Comp \cap OnSkipped
    BY <1>4, <2>1, <2>2
  <2> QED
    BY <1>4, <2>1, <2>3
<1> QED
  BY <1>1, <1>2, <1>3, <1>4

-----------------------------------------------------------------------------
(* What the proofs need to know of the files, the metadata and the managers. *)

\* A machine with packages or programs has the node manager's directory; the
\* node managers of the skipped machines are there, and up.
FilesInPlace ==
    /\ packages \subseteq nodemgrDir /\ Skip \subseteq nodemgrDir
    /\ \A n \in program : Host[n] \in nodemgrDir
    /\ Skip \subseteq nodemgrUp /\ nodemgrUp \subseteq OwnMachines \cup Skip
    /\ clustermgrUp \subseteq ToSet(ClusterMgrs)

\* A metadata shard outside the configuration is there; one of it has its tables
\* only as long as a data directory of it is left.
MetadataKept ==
    /\ ExternalMeta => sysTables
    /\ ~ExternalMeta /\ data \cap Metas = {} => ~sysTables

\* No step takes the node manager's directory from under programs or packages.
LEMMA FilesStep ==
    ASSUME TypeOK, InScript, FilesInPlace, [Next]_vars
    PROVE  FilesInPlace'
<1> USE DEF FilesInPlace
<1>1. ASSUME NEW a \in Scripts, Issue(a) PROVE FilesInPlace'
  BY <1>1 DEF Issue, files, procs
<1>2. CASE Skips
  BY <1>2 DEF Skips, files, procs
<1>3. CASE Ends
  BY <1>3 DEF Ends, files, procs
<1>4. CASE Rests
  BY <1>4 DEF Rests, files, procs
<1>5. CASE Moves /\ action = "install" /\ InstallRuns
  <2>1. ASSUME NEW m \in Machine,
               InitNode(m) \/ SetupNodemgr(m) \/ SetupClustermgr(m) \/ StartNodemgr(m) \/ StartClustermgr(m)
        PROVE  FilesInPlace'
    BY <1>5, <2>1, RunsOn DEF InitNode, SetupNodemgr, SetupClustermgr, StartNodemgr, StartClustermgr, files, procs
  <2>2. ASSUME NEW n \in Instance, InstanceEnv(n) PROVE FilesInPlace'
    <3>1. CanRun(Current) /\ (Current = C("storage_env", n) \/ Current = C("server_env", n))
      BY <1>5, <2>2, RunsOn DEF InstanceEnv
    <3>2. Host[n] \in packages
      BY <3>1, CommandIs DEF CanRun
    <3> QED
      BY <2>2, <3>2 DEF InstanceEnv, procs
  <2>3. ASSUME NEW n \in Instance, InstallInstance(n) PROVE FilesInPlace'
    BY <2>3 DEF InstallInstance
  <2>4. ASSUME NEW i \in DOMAIN Clusters, CreateCluster(i) PROVE FilesInPlace'
    BY <2>4 DEF CreateCluster, files, procs
  <2>5. CASE Bootstrap \/ AddMetadata
    BY <2>5 DEF Bootstrap, AddMetadata, files, procs
  <2> QED
    BY <1>5, <2>1, <2>2, <2>3, <2>4, <2>5 DEF InstallRuns
<1>6. CASE Moves /\ action = "start" /\ StartRuns
  BY <1>6, RunsOn DEF StartRuns, StartInstances, StartNodemgr, StartClustermgr, StartInstance, files
<1>7. CASE Moves /\ action = "stop" /\ StopRuns
  BY <1>7, RunsOn DEF StopRuns, StopNodemgr, StopInstances, StopClustermgr, StopInstance, OwnMachines, files
<1>8. CASE Moves /\ action = "clean" /\ CleanRuns
  <2>1. ASSUME NEW m \in Machine,
               StopNodemgr(m) \/ ClearInstances(m) \/ StopClustermgr(m) \/ RemoveClustermgr(m)
        PROVE  FilesInPlace'
    BY <1>8, <2>1, RunsOn
    DEF StopNodemgr, ClearInstances, StopClustermgr, RemoveClustermgr, OwnMachines, files, procs
  <2>2. ASSUME NEW m \in Machine, RemoveNodemgr(m) PROVE FilesInPlace'
    <3>1. m \notin Skip
      BY <1>8, <2>2, RunsOn DEF RemoveNodemgr, InClean, OwnMachines
    <3> QED
      BY <2>2, <3>1 DEF RemoveNodemgr, On, procs, TypeOK
  <2>3. ASSUME NEW n \in Instance, StopInstance(n) \/ RemoveData(n) \/ RemoveMeta(n) PROVE FilesInPlace'
    BY <2>3 DEF StopInstance, RemoveData, RemoveMeta, files, procs
  <2>4. CASE RemoveMetadata
    BY <2>4 DEF RemoveMetadata, files, procs
  <2> QED
    BY <1>8, <2>1, <2>2, <2>3, <2>4 DEF CleanRuns
<1> QED
  BY <1>1, <1>2, <1>3, <1>4, <1>5, <1>6, <1>7, <1>8, ScriptSteps

\* All that install.sh has passed is done.
LEMMA DidIsDone ==
    ASSUME TypeOK, InstallSkipsNothing, action = "install", NEW c \in Did
    PROVE  Done(c)
<1>1. Commands(action) = InstallScript
  BY DEF Commands
<1> QED
  BY <1>1 DEF InstallSkipsNothing, Did, Before

\* What the next command of install.sh needs is done.
LEMMA NeedsAreDone ==
    ASSUME TypeOK, InScript, InstallSkipsNothing, action = "install", NEW op, NEW x, Pending, Current = C(op, x)
    PROVE  /\ NeedsInInstall(op, x) \subseteq Did
           /\ \A c \in NeedsInInstall(op, x) : Done(c)
<1>1. InPlace(Current, Did, InstallNeeds, InstallOnce)
  BY InstallDid
<1>2. Current \in Command
  BY DidIs DEF Pending
<1>3. InstallNeeds[Current] = NeedsInInstall(op, x)
  BY <1>2, CommandIs DEF InstallNeeds
<1>4. NeedsInInstall(op, x) \subseteq Did
  BY <1>1, <1>3 DEF InPlace
<1> QED
  BY <1>4, DidIsDone

\* What a command that was passed needs was passed before it.
LEMMA NeedsWereDone ==
    ASSUME TypeOK, InScript, action = "install", NEW op, NEW x, C(op, x) \in Did
    PROVE  NeedsInInstall(op, x) \subseteq Did
<1>1. InstallNeeds[C(op, x)] \subseteq Did
  BY InstallDid
<1>2. C(op, x) \in Command
  <2>1. Did \subseteq ScriptSet("install") /\ "install" \in Scripts
    BY DidIs DEF Scripts
  <2> QED
    BY <2>1, ScriptsAre
<1>3. InstallNeeds[C(op, x)] = NeedsInInstall(op, x)
  BY <1>2, CommandIs DEF InstallNeeds
<1> QED
  BY <1>1, <1>3

\* A metadata shard of the configuration has nodes.
LEMMA MetasThere == ~ExternalMeta => Metas # {}
<1> SUFFICES ASSUME MetaNodes # <<>> PROVE Metas # {}
  BY DEF ExternalMeta
<1>1. MetaNodes \in Seq(Storage)
  BY TypesOfLists
<1>2. 1 \in DOMAIN MetaNodes
  BY <1>1
<1> QED
  BY <1>2 DEF ToSet, Metas

\* The metadata tables go with the last data directory, and not before.
LEMMA MetadataStep ==
    ASSUME TypeOK, InScript, InstallSkipsNothing, MetadataKept, [Next]_vars
    PROVE  MetadataKept'
<1>1. ASSUME UNCHANGED sysTables, data \subseteq data' PROVE MetadataKept'
  BY <1>1 DEF MetadataKept
<1>2. ASSUME LoseMeta(data') PROVE MetadataKept'
  BY <1>2 DEF MetadataKept, LoseMeta, meta
<1>3. CASE Moves /\ action = "install" /\ InstallRuns
  <2>1. CASE Bootstrap
    <3>1. Pending /\ Current = C("bootstrap", 0) /\ ~ExternalMeta
      BY <1>3, <2>1, CurrentIs, RunsOn DEF Bootstrap
    <3>2. Metas # {}
      BY <3>1, MetasThere
    <3>3. NeedsInInstall("bootstrap", 0) = All("install_storage", Metas)
      BY DEF NeedsInInstall
    <3>4. \A n \in Metas : Done(C("install_storage", n))
      BY <1>3, <3>1, <3>3, NeedsAreDone, CommandIs
    <3>5. Metas \subseteq data
      BY <3>4, CommandIs DEF Done, Installers
    <3> QED
      BY <2>1, <3>1, <3>2, <3>5, Configured DEF Bootstrap, MetadataKept, files, procs
  <2>2. CASE ~Bootstrap
    <3>1. UNCHANGED sysTables /\ data \subseteq data'
      BY <1>3, <2>2
      DEF InstallRuns, InitNode, SetupNodemgr, SetupClustermgr, StartNodemgr, StartClustermgr,
          InstanceEnv, InstallInstance, CreateCluster, AddMetadata, files, procs, meta
    <3> QED
      BY <3>1, <1>1
  <2> QED
    BY <2>1, <2>2
<1>4. CASE Moves /\ action = "clean" /\ CleanRuns
  <2>1. ASSUME NEW m \in Machine,
               StopNodemgr(m) \/ StopClustermgr(m) \/ RemoveClustermgr(m)
        PROVE  MetadataKept'
    BY <2>1, <1>1 DEF StopNodemgr, StopClustermgr, RemoveClustermgr, files, procs, meta
  <2>2. ASSUME NEW m \in Machine, ClearInstances(m) \/ RemoveNodemgr(m) PROVE MetadataKept'
    BY <2>2, <1>2 DEF ClearInstances, RemoveNodemgr
  <2>3. ASSUME NEW n \in Instance, StopInstance(n) PROVE MetadataKept'
    BY <2>3, <1>1 DEF StopInstance, meta
  <2>4. ASSUME NEW n \in Instance, RemoveData(n) \/ RemoveMeta(n) PROVE MetadataKept'
    BY <2>4, <1>2 DEF RemoveData, RemoveMeta
  <2>5. CASE RemoveMetadata
    BY <2>5, <1>1 DEF RemoveMetadata, meta
  <2> QED
    BY <1>4, <2>1, <2>2, <2>3, <2>4, <2>5 DEF CleanRuns
<1>5. CASE Moves /\ action = "start" /\ StartRuns
  BY <1>5, <1>1 DEF StartRuns, StartInstances, StartNodemgr, StartClustermgr, StartInstance, files, meta
<1>6. CASE Moves /\ action = "stop" /\ StopRuns
  BY <1>6, <1>1 DEF StopRuns, StopNodemgr, StopInstances, StopClustermgr, StopInstance, files, meta
<1>7. ASSUME NEW a \in Scripts, Issue(a) PROVE MetadataKept'
  BY <1>7, <1>1 DEF Issue, meta
<1>8. CASE Skips \/ Ends \/ Rests
  BY <1>8, <1>1 DEF Skips, Ends, Rests, meta
<1> QED
  BY <1>3, <1>4, <1>5, <1>6, <1>7, <1>8, ScriptSteps

-----------------------------------------------------------------------------
(* The managers come last. *)

\* The instances that install.sh has installed.
SoFar == {n \in Instance : \E op \in Installers : C(op, n) \in Did}
InstallLists == action = "install" => SoFar \subseteq listed

\* The commands passed, after a step.
LEMMA DidSteps ==
    ASSUME TypeOK
    PROVE  /\ Moves => Did' = Did \cup {Current}
           /\ Rests => Did' = Did
           /\ \A a \in Scripts : Issue(a) => Did' = {}
<1>1. Moves => Did' = Did \cup {Current}
  BY OneMore DEF Moves
<1>2. ASSUME UNCHANGED <<action, pc>> PROVE Did' = Did
  BY <1>2 DEF Did
<1>3. Rests => Did' = Did
  BY <1>2 DEF Rests
<1>4. \A a \in Scripts : Issue(a) => Did' = {}
  BY NoneYet DEF Issue
<1> QED
  BY <1>1, <1>3, <1>4

\* Only the installers add to what is installed.
LEMMA SoFarSteps ==
    ASSUME TypeOK, Moves, \A n : C("install_storage", n) # Current /\ C("add_comp", n) # Current
    PROVE  SoFar' = SoFar
<1>1. Did' = Did \cup {Current}
  BY DidSteps
<1> QED
  BY <1>1 DEF SoFar, Installers

\* An instance that was installed does not get its environment anew.
LEMMA EnvComesFirst ==
    ASSUME TypeOK, InScript, action = "install", NEW n \in Instance,
           AtOneOf({"storage_env", "server_env"}, n)
    PROVE  n \notin SoFar
<1>1. /\ Pending
      /\ \/ Current = C("storage_env", n) /\ n \in Storage
         \/ Current = C("server_env", n) /\ n \in Comp
  BY RunsOn, CurrentIs
<1>2. Current \notin Did
  <2>1. Current \in Command
    BY <1>1, DidIs
  <2>2. Current \in InstallOnce
    BY <1>1, <2>1, CommandIs DEF InstallOnce
  <2>3. InPlace(Current, Did, InstallNeeds, InstallOnce)
    BY <1>1, InstallDid
  <2> QED
    BY <2>2, <2>3 DEF InPlace
<1>3. ASSUME C("install_storage", n) \in Did PROVE C("storage_env", n) \in Did /\ n \in Storage
  <2>1. C("storage_env", n) \in NeedsInInstall("install_storage", n)
    BY DEF NeedsInInstall
  <2>2. C("install_storage", n) \in InstallSet
    BY <1>3, InstallDid
  <2> QED
    BY <1>3, <2>1, <2>2, NeedsWereDone, ScriptSetsAre
<1>4. ASSUME C("add_comp", n) \in Did PROVE C("server_env", n) \in Did /\ n \in Comp
  <2>1. C("server_env", n) \in NeedsInInstall("add_comp", n)
    BY DEF NeedsInInstall
  <2>2. C("add_comp", n) \in InstallSet
    BY <1>4, InstallDid
  <2> QED
    BY <1>4, <2>1, <2>2, NeedsWereDone, ScriptSetsAre
<1> QED
  BY <1>1, <1>2, <1>3, <1>4, Configured DEF SoFar, Installers

\* install.sh leaves what it has installed in the instances lists.
LEMMA ListsStep ==
    ASSUME TypeOK, InScript, InstallLists, [Next]_vars
    PROVE  InstallLists'
<1>1. CASE Moves /\ action = "install" /\ InstallRuns
  <2>1. Did' = Did \cup {Current} /\ action' = action
    BY <1>1, DidSteps DEF Moves
  <2>2. ASSUME NEW n \in Instance, InstanceEnv(n) PROVE InstallLists'
    <3>1. AtOneOf({"storage_env", "server_env"}, n) /\ listed' = listed \ {n}
      BY <2>2 DEF InstanceEnv
    <3>2. Current = C("storage_env", n) \/ Current = C("server_env", n)
      BY <1>1, <3>1, RunsOn
    <3>3. SoFar' = SoFar
      BY <1>1, <3>2, SoFarSteps, CommandIs
    <3>4. n \notin SoFar
      BY <1>1, <3>1, EnvComesFirst
    <3> QED
      BY <1>1, <3>1, <3>3, <3>4 DEF InstallLists
  <2>3. ASSUME NEW n \in Instance, InstallInstance(n) PROVE InstallLists'
    <3>1. AtOneOf(Installers, n) /\ listed' = listed \cup {n}
      BY <2>3 DEF InstallInstance
    <3>2. Current = C("install_storage", n) \/ Current = C("add_comp", n)
      BY <1>1, <3>1, RunsOn
    <3>3. SoFar' \subseteq SoFar \cup {n}
      BY <2>1, <3>2, CommandIs DEF SoFar
    <3> QED
      BY <1>1, <3>1, <3>3 DEF InstallLists
  <2>4. CASE \A n \in Instance : ~InstanceEnv(n) /\ ~InstallInstance(n)
    <3>1. UNCHANGED listed
      BY <1>1, <2>4
      DEF InstallRuns, InitNode, SetupNodemgr, SetupClustermgr, StartNodemgr, StartClustermgr,
          CreateCluster, Bootstrap, AddMetadata, files
    <3>2. Current.op \notin {"install_storage", "add_comp"}
      BY <1>1, <2>4
      DEF InstallRuns, InitNode, SetupNodemgr, SetupClustermgr, StartNodemgr, StartClustermgr,
          CreateCluster, Bootstrap, AddMetadata, At
    <3>3. SoFar' = SoFar
      BY <1>1, <3>2, SoFarSteps, CommandIs
    <3> QED
      BY <1>1, <3>1, <3>3 DEF InstallLists
  <2> QED
    BY <2>2, <2>3, <2>4
<1>2. ASSUME NEW a \in Scripts, Issue(a) PROVE InstallLists'
  <2>1. SoFar' = {}
    BY <1>2, DidSteps DEF SoFar
  <2> QED
    BY <2>1 DEF InstallLists
<1>3. CASE Rests
  <2>1. UNCHANGED SoFar /\ UNCHANGED <<action, listed>>
    BY <1>3, DidSteps DEF SoFar, Rests, files
  <2> QED
    BY <2>1 DEF InstallLists
<1>4. ASSUME action' # "install" PROVE InstallLists'
  BY <1>4 DEF InstallLists
<1> QED
  BY <1>1, <1>2, <1>3, <1>4, ScriptSteps DEF Skips, Ends, Moves

\* The node managers that stop.sh and clean.sh have passed are down, or had no directory.
StopsManagers ==
    smooth /\ action \in {"stop", "clean"} =>
       \A m \in Machine : C("stop_nodemgr", m) \in Did => m \notin nodemgrUp \/ m \notin nodemgrDir

\* A node manager that was stopped stays down while the script runs.
LEMMA StopsStep ==
    ASSUME TypeOK, InScript, StopsManagers, [Next]_vars
    PROVE  StopsManagers'
<1>1. ASSUME NEW a \in Scripts, Issue(a) PROVE StopsManagers'
  <2>1. Did' = {}
    BY <1>1, DidSteps
  <2> QED
    BY <2>1 DEF StopsManagers
<1>2. ASSUME action' \notin {"stop", "clean"} PROVE StopsManagers'
  BY <1>2 DEF StopsManagers
<1>3. CASE Rests
  <2>1. Did' = Did
    BY <1>3, DidSteps
  <2> QED
    BY <1>3, <2>1 DEF StopsManagers, Rests, files
<1>4. CASE Skips
  <2>1. Did' = Did \cup {Current} /\ action' = action
    BY <1>4, DidSteps DEF Skips, Moves
  <2>2. ASSUME smooth', NEW m \in Machine, C("stop_nodemgr", m) \in Did'
        PROVE  m \notin nodemgrUp' \/ m \notin nodemgrDir'
    <3>1. smooth /\ UNCHANGED <<nodemgrUp, nodemgrDir>>
      BY <1>4, <2>2 DEF Skips, Moves, files, procs
    <3>2. CASE C("stop_nodemgr", m) \in Did
      BY <1>4, <3>1, <3>2 DEF StopsManagers, Skips
    <3>3. CASE C("stop_nodemgr", m) = Current
      <4>1. ~CanRun(Current)
        BY <1>4, <2>2 DEF Skips
      <4>2. m \notin nodemgrDir
        BY <3>3, <4>1, CommandIs DEF CanRun
      <4> QED
        BY <3>1, <4>2
    <3> QED
      BY <2>1, <2>2, <3>2, <3>3
  <2> QED
    BY <2>2 DEF StopsManagers
<1>5. CASE Moves /\ action \in {"stop", "clean"} /\ (StopRuns \/ CleanRuns)
  <2>1. Did' = Did \cup {Current} /\ action' = action /\ (smooth' => smooth)
    BY <1>5, DidSteps DEF Moves
  <2>2. ASSUME NEW m \in Machine, StopNodemgr(m) PROVE StopsManagers'
    <3>1. Current = C("stop_nodemgr", m) /\ nodemgrUp' = nodemgrUp \ {m} /\ UNCHANGED nodemgrDir
      BY <2>2, CurrentIs DEF StopNodemgr, files
    <3>2. \A x : C("stop_nodemgr", x) \in Did' => C("stop_nodemgr", x) \in Did \/ x = m
      BY <2>1, <3>1, CommandIs
    <3> QED
      BY <2>1, <3>1, <3>2 DEF StopsManagers
  <2>3. CASE \A m \in Machine : ~StopNodemgr(m)
    <3>1. UNCHANGED nodemgrUp /\ nodemgrDir' \subseteq nodemgrDir
      BY <1>5, <2>3
      DEF StopRuns, StopInstances, StopClustermgr, StopInstance, CleanRuns, ClearInstances,
          RemoveNodemgr, RemoveClustermgr, RemoveData, RemoveMeta, RemoveMetadata, files, procs
    <3>2. Current.op # "stop_nodemgr"
      BY <1>5, <2>3
      DEF StopRuns, StopInstances, StopClustermgr, StopInstance, CleanRuns, ClearInstances,
          RemoveNodemgr, RemoveClustermgr, RemoveData, RemoveMeta, RemoveMetadata, InClean, At, AtOneOf
    <3>3. \A x : C("stop_nodemgr", x) \in Did' => C("stop_nodemgr", x) \in Did
      BY <2>1, <3>2, CommandIs
    <3> QED
      BY <2>1, <3>1, <3>3 DEF StopsManagers
  <2> QED
    BY <2>2, <2>3
<1> QED
  BY <1>1, <1>2, <1>3, <1>4, <1>5, ScriptSteps DEF Ends, Moves

\* What the next command of the other scripts needs was passed.
LEMMA UseNeedsDid ==
    ASSUME TypeOK, InScript, action \in {"start", "stop", "clean"}, NEW op, NEW x,
           Pending, Current = C(op, x)
    PROVE  /\ NeedsInUse(op, x) \subseteq Did
           /\ op \in {"stop_nodemgr", "stop_clustermgr", "halt_storage"} => C(op, x) \notin Did
<1>1. InPlace(Current, Did, UseNeeds, UseOnce)
  BY UseDid
<1>2. Current \in Command
  BY DidIs DEF Pending
<1>3. UseNeeds[Current] = NeedsInUse(op, x)
  BY <1>2, CommandIs DEF UseNeeds
<1>4. op \in {"stop_nodemgr", "stop_clustermgr", "halt_storage"} => Current \in UseOnce
  BY <1>2, CommandIs DEF UseOnce
<1> QED
  BY <1>1, <1>3, <1>4 DEF InPlace

\* The same of a command that was passed.
LEMMA UseNeedsWereDid ==
    ASSUME TypeOK, InScript, action \in {"start", "stop", "clean"}, NEW op, NEW x, C(op, x) \in Did
    PROVE  NeedsInUse(op, x) \subseteq Did
<1>1. UseNeeds[C(op, x)] \subseteq Did
  BY UseDid
<1>2. C(op, x) \in Command
  BY DidIs, ScriptsAre DEF TypeOK
<1>3. UseNeeds[C(op, x)] = NeedsInUse(op, x)
  BY <1>2, CommandIs DEF UseNeeds
<1> QED
  BY <1>1, <1>3

\* What install.sh, stop.sh and clean.sh keep to, whatever fails.
Discipline ==
    /\ TypeOK /\ InScript /\ InstallSkipsNothing
    /\ FilesInPlace /\ MetadataKept /\ InstallLists /\ StopsManagers

\* These are invariants.
LEMMA DisciplineHolds == Spec => []Discipline
<1>1. Init => InScript /\ FilesInPlace /\ MetadataKept /\ InstallLists /\ StopsManagers
  <2>1. Init => InScript /\ InstallLists /\ StopsManagers
    BY DEF Init, InScript, InstallLists, StopsManagers
  <2>2. Init => FilesInPlace /\ MetadataKept
    <3> SUFFICES ASSUME Init PROVE FilesInPlace /\ MetadataKept
      OBVIOUS
    <3>1. FilesInPlace
      BY DEF Init, FilesInPlace
    <3>2. MetadataKept
      BY DEF Init, MetadataKept
    <3> QED
      BY <3>1, <3>2
  <2> QED
    BY <2>1, <2>2
<1>2. /\ InScript /\ FilesInPlace /\ MetadataKept /\ InstallLists /\ StopsManagers
      /\ TypeOK /\ InstallSkipsNothing /\ [Next]_vars
      => (InScript /\ FilesInPlace /\ MetadataKept /\ InstallLists /\ StopsManagers)'
  BY ScriptPosition, FilesStep, MetadataStep, ListsStep, StopsStep
<1> QED
  BY <1>1, <1>2, Typing, InstallIsThorough, PTL DEF Spec, Discipline

\* When the managers' turn comes, everything is installed and registered.
LEMMA CompleteBeforeManagers ==
    ASSUME Discipline, action = "install", Installs \cup Registers \subseteq Did
    PROVE  Complete /\ OwnMachines \subseteq serverRows
<1> USE DEF Discipline
<1>1. \A c \in Installs : Done(c) /\ c \in Did
  BY DidIsDone
<1>2. \A n \in Instance : n \in data /\ n \in program /\ n \in SoFar
  <2>1. ASSUME NEW n \in Storage PROVE C("storage_env", n) \in Installs /\ C("install_storage", n) \in Installs
    BY CommandIs DEF Installs
  <2>2. ASSUME NEW n \in Comp PROVE C("server_env", n) \in Installs /\ C("add_comp", n) \in Installs
    BY CommandIs DEF Installs
  <2>3. ASSUME NEW n \in Storage PROVE n \in data /\ n \in program /\ n \in SoFar
    BY <1>1, <2>1, CommandIs DEF Done, SoFar, Installers, Instance
  <2>4. ASSUME NEW n \in Comp PROVE n \in data /\ n \in program /\ n \in SoFar
    BY <1>1, <2>2, CommandIs DEF Done, SoFar, Installers, Instance
  <2> QED
    BY <2>3, <2>4 DEF Instance
<1>3. data = Instance /\ program = Instance /\ listed = Instance
  BY <1>2 DEF TypeOK, InstallLists
<1>4. OwnMachines \subseteq nodemgrDir /\ ToSet(ClusterMgrs) \subseteq clustermgrDir
  <2>1. ASSUME NEW m \in OwnMachines PROVE C("setup_nodemgr", m) \in Installs
    BY CommandIs DEF Installs
  <2>2. ASSUME NEW m \in ToSet(ClusterMgrs) PROVE C("setup_clustermgr", m) \in Installs
    BY CommandIs DEF Installs
  <2> QED
    BY <1>1, <2>1, <2>2, CommandIs DEF Done
<1>5. sysTables
  <2>1. CASE ExternalMeta
    BY <2>1 DEF MetadataKept
  <2>2. CASE ~ExternalMeta
    <3>1. C("bootstrap", 0) \in Installs
      BY <2>2, CommandIs DEF Installs, MetaReady
    <3> QED
      BY <1>1, <3>1, CommandIs DEF Done
  <2> QED
    BY <2>1, <2>2
<1>6. clusterRows = DOMAIN Clusters
  <2>1. ASSUME NEW i \in Numbers PROVE C("create_cluster", i) \in Installs
    BY CommandIs DEF Installs
  <2>2. \A i \in Numbers : i \in clusterRows
    BY <1>1, <2>1, CommandIs DEF Done
  <2> QED
    BY <2>2 DEF TypeOK, Numbers
<1>7. OwnMachines \subseteq serverRows
  <2>1. CASE HasWorkNode
    <3>1. C("add_metadata", 0) \in Registers
      BY <2>1, CommandIs DEF Registers
    <3>2. Done(C("add_metadata", 0))
      BY <3>1, DidIsDone
    <3> QED
      BY <3>2, CommandIs DEF Done
  <2>2. CASE ~HasWorkNode
    <3>1. OwnMachines = {}
      BY <2>2 DEF HasWorkNode, OwnMachines, ToSet
    <3> QED
      BY <3>1
  <2> QED
    BY <2>1, <2>2
<1> QED
  BY <1>3, <1>4, <1>5, <1>6, <1>7 DEF Complete

\* install.sh starts a manager only after all its other commands, and so only
\* when every instance is installed, every cluster created and every node
\* manager registered (install_with_config: "start the nodemgr and clustermgr
\* process finally").
THEOREM ManagersComeLast == Spec => ManagersAfterMetadata
<1> DEFINE Mgrs == <<nodemgrUp, clustermgrUp>>
           Fine == action = "install" /\ Mgrs' # Mgrs
                     => \/ Mgrs' \in (SUBSET nodemgrUp) \X (SUBSET clustermgrUp)
                        \/ Complete /\ OwnMachines \subseteq serverRows
<1>1. Discipline /\ [Next]_vars => Fine
  <2> SUFFICES ASSUME Discipline, [Next]_vars, action = "install", Mgrs' # Mgrs
               PROVE  \/ Mgrs' \in (SUBSET nodemgrUp) \X (SUBSET clustermgrUp)
                      \/ Complete /\ OwnMachines \subseteq serverRows
    OBVIOUS
  <2>1. CASE Rests
    BY <2>1 DEF Rests
  <2>2. CASE Moves /\ InstallRuns
    <3>1. PICK m \in Machine : StartNodemgr(m) \/ StartClustermgr(m)
      BY <2>2
      DEF InstallRuns, InitNode, SetupNodemgr, SetupClustermgr, InstanceEnv, InstallInstance,
          CreateCluster, Bootstrap, AddMetadata, files, procs
    <3>2. Pending /\ (Current = C("start_nodemgr", m) \/ Current = C("start_clustermgr", m))
      BY <3>1, CurrentIs DEF StartNodemgr, StartClustermgr, Discipline
    <3>3. NeedsInInstall("start_nodemgr", m) = Installs \cup Registers
          /\ NeedsInInstall("start_clustermgr", m) = Installs \cup Registers
      BY DEF NeedsInInstall
    <3>4. Installs \cup Registers \subseteq Did
      BY <3>2, <3>3, NeedsAreDone DEF Discipline
    <3> QED
      BY <3>4, CompleteBeforeManagers
  <2>3. ASSUME NEW a \in Scripts, Issue(a) PROVE FALSE
    BY <2>3 DEF Issue
  <2>4. ~Skips /\ ~Ends
    BY DEF Skips, Ends, procs
  <2> QED
    BY <2>1, <2>2, <2>3, <2>4, ScriptSteps DEF Discipline
<1>2. Fine => [Fine]_vars
  OBVIOUS
<1> QED
  BY <1>1, <1>2, DisciplineHolds, PTL DEF Spec, ManagersAfterMetadata

\* On every machine whose node manager is theirs to stop, stop.sh and clean.sh take
\* an instance down only when that manager is down already: they stop it first, and
\* if they could not find it then there was no instance of its to find either.
\* Under a running node manager they take down those of the skipped machines.
THEOREM ManagersGoFirst == Spec => ManagerDownFirst
<1> DEFINE Fine == smooth' => \A n \in running \ running' : Host[n] \in nodemgrUp' => n \in OnSkipped
<1>1. Discipline /\ [Next]_vars => Fine
  <2> SUFFICES ASSUME Discipline, [Next]_vars, smooth', NEW n \in running, n \notin running',
                      n \notin OnSkipped
               PROVE  Host[n] \notin nodemgrUp'
    OBVIOUS
  <2> USE DEF Discipline
  <2>1. n \in Instance /\ Host[n] \in Machine
    BY Configured DEF TypeOK
  <2>3. CASE Moves /\ ((action = "stop" /\ StopRuns) \/ (action = "clean" /\ CleanRuns))
    <3>1. UNCHANGED nodemgrUp
      BY <2>3
      DEF StopRuns, StopNodemgr, StopInstances, StopClustermgr, StopInstance, CleanRuns, ClearInstances,
          RemoveNodemgr, RemoveClustermgr, RemoveData, RemoveMeta, RemoveMetadata, procs
    <3>2. ASSUME NEW i \in Instance, StopInstance(i) PROVE Host[n] \notin nodemgrUp
      <4>1. i = n
        BY <3>2 DEF StopInstance
      <4>2. n \in OnSkipped
        BY <2>3, <3>2, <4>1, RunsOn DEF StopInstance
      <4> QED
        BY <4>2
    <3>3. ASSUME NEW m \in Machine, StopInstances(m) \/ ClearInstances(m) PROVE Host[n] \notin nodemgrUp
      <4>1. n \in Managed(m)
        BY <3>3 DEF StopInstances, ClearInstances
      <4>2. n \in program /\ Host[n] = m
        BY <4>1 DEF Managed, On, Reachable
      <4>3. Pending /\ (Current = C("stop_instances", m) \/ Current = C("clear_instances", m))
            /\ C("stop_nodemgr", m) \in Did
        <5>1. Pending /\ (Current = C("stop_instances", m) \/ Current = C("clear_instances", m))
          BY <3>3, CurrentIs DEF StopInstances, ClearInstances, InClean
        <5>2. NeedsInUse("stop_instances", m) = {C("stop_nodemgr", m)}
              /\ NeedsInUse("clear_instances", m) = {C("stop_nodemgr", m)}
          BY DEF NeedsInUse
        <5> QED
          BY <2>3, <5>1, <5>2, UseNeedsDid
      <4>4. m \in nodemgrDir
        BY <4>2 DEF FilesInPlace
      <4> QED
        BY <2>3, <4>2, <4>3, <4>4 DEF StopsManagers, Moves
    <3> QED
      BY <2>3, <3>1, <3>2, <3>3
      DEF StopRuns, StopNodemgr, StopClustermgr, CleanRuns,
          RemoveNodemgr, RemoveClustermgr, RemoveData, RemoveMeta, RemoveMetadata, procs
  <2>4. CASE Moves /\ ((action = "install" /\ InstallRuns) \/ (action = "start" /\ StartRuns))
    <3>1. running \subseteq running'
      BY <2>4
      DEF InstallRuns, InitNode, SetupNodemgr, SetupClustermgr, StartNodemgr, StartClustermgr,
          InstanceEnv, InstallInstance, CreateCluster, Bootstrap, AddMetadata,
          StartRuns, StartInstances, StartInstance, procs
    <3> QED
      BY <3>1
  <2>5. ~Skips /\ ~Ends /\ ~Rests /\ \A a \in Scripts : ~Issue(a)
    BY DEF Skips, Ends, Rests, Issue, procs
  <2>6. \/ Moves /\ ((action = "stop" /\ StopRuns) \/ (action = "clean" /\ CleanRuns))
        \/ Moves /\ ((action = "install" /\ InstallRuns) \/ (action = "start" /\ StartRuns))
    BY <2>5, ScriptSteps
  <2> HIDE DEF Discipline
  <2> QED
    BY <2>3, <2>4, <2>6
<1>2. Fine => [Fine]_vars
  OBVIOUS
<1> QED
  BY <1>1, <1>2, DisciplineHolds, PTL DEF Spec, ManagerDownFirst

-----------------------------------------------------------------------------
(* Every command finds what it needs. *)

\* What the script has run the command op for.
Passed(op) == {x \in Thing : C(op, x) \in Did}

\* An installation from nothing: what is there is what the script has put there.
FreshInstall ==
    smooth /\ action = "install" /\ base = "pristine" =>
       /\ data = Passed("install_storage") \cup Passed("add_comp") /\ running = data
       /\ clusterRows = Passed("create_cluster")
       /\ sysTables <=> ExternalMeta \/ 0 \in Passed("bootstrap")
       /\ nodemgrUp = Passed("start_nodemgr") \cup Skip /\ clustermgrUp = Passed("start_clustermgr")
       /\ Skip \subseteq packages

\* start.sh and stop.sh leave a complete installation complete.
Intact == smooth /\ action \in {"start", "stop"} /\ base = "installed" => Complete

\* How a step changes what was passed.
LEMMA PassedSteps ==
    ASSUME TypeOK, InScript
    PROVE  /\ Moves => \E o \in Op, x \in Thing :
                 /\ Current = C(o, x) /\ Passed(o)' = Passed(o) \cup {x}
                 /\ \A p : p # o => Passed(p)' = Passed(p)
           /\ Rests => \A p : Passed(p)' = Passed(p)
           /\ \A a \in Scripts : Issue(a) => \A p : Passed(p)' = {}
           /\ action # "none" => \A p, x : C(p, x) \in Did <=> x \in Passed(p)
<1>1. ASSUME Moves
      PROVE  \E o \in Op, x \in Thing :
                 /\ Current = C(o, x) /\ Passed(o)' = Passed(o) \cup {x}
                 /\ \A p : p # o => Passed(p)' = Passed(p)
  <2>1. Did' = Did \cup {Current}
    BY <1>1, DidSteps
  <2>2. Current \in Command
    BY <1>1, DidIs DEF Moves, Pending
  <2>3. PICK o \in Op, x \in Thing : Current = C(o, x)
    BY <2>2, CommandIs
  <2>4. \A p, y : C(p, y) \in Did' <=> C(p, y) \in Did \/ (p = o /\ y = x)
    BY <2>1, <2>3, CommandIs
  <2>5. Passed(o)' = Passed(o) \cup {x} /\ \A p : p # o => Passed(p)' = Passed(p)
    BY <2>4 DEF Passed
  <2> QED
    BY <2>3, <2>5
<1>2. Rests => \A p : Passed(p)' = Passed(p)
  BY DidSteps DEF Passed
<1>3. \A a \in Scripts : Issue(a) => \A p : Passed(p)' = {}
  BY DidSteps DEF Passed
<1>4. ASSUME action # "none", NEW p, NEW x PROVE C(p, x) \in Did <=> x \in Passed(p)
  <2>1. Did \subseteq Command
    BY <1>4, DidIs, ScriptsAre DEF TypeOK
  <2> QED
    BY <2>1, CommandIs DEF Passed
<1> QED
  BY <1>1, <1>2, <1>3, <1>4

\* What an installation starts from.
LEMMA BasesAre ==
    ASSUME NEW a, Issue(a)
    PROVE  /\ base' = "pristine" => Pristine /\ clusterRows = {} /\ Skip \subseteq packages
           /\ base' = "installed" => Complete
           /\ base' # "other" => Pristine \/ Complete \/ Tracked
  BY DEF Issue

\* Each command of install.sh adds what it is for, and nothing else changes.
LEMMA FreshStep ==
    ASSUME Discipline, FreshInstall, [Next]_vars
    PROVE  FreshInstall'
<1> USE DEF Discipline
<1>1. ASSUME NEW a \in Scripts, Issue(a) PROVE FreshInstall'
  <2> SUFFICES ASSUME base' = "pristine"
               PROVE  /\ data' = {} /\ running' = {} /\ clusterRows' = {} /\ nodemgrUp' = Skip /\ clustermgrUp' = {}
                      /\ sysTables' <=> ExternalMeta
                      /\ Skip \subseteq packages'
    <3>1. \A p : Passed(p)' = {}
      BY <1>1, PassedSteps
    <3> QED
      BY <3>1 DEF FreshInstall
  <2>1. /\ Pristine /\ clusterRows = {} /\ Skip \subseteq packages
        /\ UNCHANGED <<packages, data, running, clusterRows, nodemgrUp, clustermgrUp, sysTables>>
    BY <1>1, BasesAre DEF Issue, files, procs, meta
  <2> QED
    BY <2>1 DEF Pristine, MetadataKept
<1>2. CASE Rests
  <2>1. \A p : Passed(p)' = Passed(p)
    BY <1>2, PassedSteps
  <2>2. smooth' => /\ smooth
                   /\ UNCHANGED <<action, base, packages, data, running, nodemgrUp, clustermgrUp, sysTables, clusterRows>>
    BY <1>2 DEF Rests, files, procs, meta
  <2> QED
    BY <2>1, <2>2 DEF FreshInstall
<1>3. ASSUME action' # "install" PROVE FreshInstall'
  BY <1>3 DEF FreshInstall
<1>4. CASE Moves /\ action = "install" /\ InstallRuns
  <2> SUFFICES ASSUME smooth', base' = "pristine"
               PROVE  FreshInstall'
    BY DEF FreshInstall
  <2>1. smooth /\ base = "pristine"
    BY <1>4 DEF Moves
  <2>2. /\ data = Passed("install_storage") \cup Passed("add_comp") /\ running = data
        /\ clusterRows = Passed("create_cluster")
        /\ sysTables <=> ExternalMeta \/ 0 \in Passed("bootstrap")
        /\ nodemgrUp = Passed("start_nodemgr") \cup Skip /\ clustermgrUp = Passed("start_clustermgr")
        /\ Skip \subseteq packages'
    <3>1. packages \subseteq packages'
      BY <1>4
      DEF InstallRuns, InitNode, SetupNodemgr, SetupClustermgr, StartNodemgr, StartClustermgr,
          InstanceEnv, InstallInstance, CreateCluster, Bootstrap, AddMetadata, files
    <3> QED
      BY <1>4, <2>1, <3>1 DEF FreshInstall
  <2>3. PICK o \in Op, x \in Thing :
                 /\ Current = C(o, x) /\ Passed(o)' = Passed(o) \cup {x}
                 /\ \A p : p # o => Passed(p)' = Passed(p)
    BY <1>4, PassedSteps
  <2>4. Current.op = o /\ Current.on = x
    BY <2>3, CommandIs
  <2>5. CASE o \in {"install_storage", "add_comp"}
    <3>1. data' = data \cup {x} /\ running' = running \cup {x}
          /\ UNCHANGED <<clusterRows, sysTables, nodemgrUp, clustermgrUp>>
      BY <1>4, <2>4, <2>5
      DEF InstallRuns, InitNode, SetupNodemgr, SetupClustermgr, StartNodemgr, StartClustermgr,
          InstanceEnv, InstallInstance, CreateCluster, Bootstrap, AddMetadata, At, AtOneOf, files, procs, meta
    <3> QED
      BY <2>2, <2>3, <2>5, <3>1 DEF FreshInstall
  <2>6. CASE o = "create_cluster"
    <3>1. clusterRows' = clusterRows \cup {x}
          /\ UNCHANGED <<data, running, sysTables, nodemgrUp, clustermgrUp>>
      BY <1>4, <2>4, <2>6
      DEF InstallRuns, InitNode, SetupNodemgr, SetupClustermgr, StartNodemgr, StartClustermgr,
          InstanceEnv, InstallInstance, CreateCluster, Bootstrap, AddMetadata, Installers, At, AtOneOf, files, procs, meta
    <3> QED
      BY <2>2, <2>3, <2>6, <3>1 DEF FreshInstall
  <2>7. CASE o = "bootstrap"
    <3>1. sysTables' = TRUE /\ x = 0
          /\ UNCHANGED <<data, running, clusterRows, nodemgrUp, clustermgrUp>>
      BY <1>4, <2>4, <2>7
      DEF InstallRuns, InitNode, SetupNodemgr, SetupClustermgr, StartNodemgr, StartClustermgr,
          InstanceEnv, InstallInstance, CreateCluster, Bootstrap, AddMetadata, Installers, At, AtOneOf, files, procs, meta
    <3> QED
      BY <2>2, <2>3, <2>7, <3>1 DEF FreshInstall
  <2>8. CASE o = "start_nodemgr"
    <3>1. nodemgrUp' = nodemgrUp \cup {x}
          /\ UNCHANGED <<data, running, clusterRows, sysTables, clustermgrUp>>
      BY <1>4, <2>4, <2>8
      DEF InstallRuns, InitNode, SetupNodemgr, SetupClustermgr, StartNodemgr, StartClustermgr,
          InstanceEnv, InstallInstance, CreateCluster, Bootstrap, AddMetadata, Installers, At, AtOneOf, files, procs, meta
    <3> QED
      BY <2>2, <2>3, <2>8, <3>1 DEF FreshInstall
  <2>9. CASE o = "start_clustermgr"
    <3>1. clustermgrUp' = clustermgrUp \cup {x}
          /\ UNCHANGED <<data, running, clusterRows, sysTables, nodemgrUp>>
      BY <1>4, <2>4, <2>9
      DEF InstallRuns, InitNode, SetupNodemgr, SetupClustermgr, StartNodemgr, StartClustermgr,
          InstanceEnv, InstallInstance, CreateCluster, Bootstrap, AddMetadata, Installers, At, AtOneOf, files, procs, meta
    <3> QED
      BY <2>2, <2>3, <2>9, <3>1 DEF FreshInstall
  <2>10. CASE o \notin {"install_storage", "add_comp", "create_cluster", "bootstrap", "start_nodemgr", "start_clustermgr"}
    <3>1. UNCHANGED <<data, running, clusterRows, sysTables, nodemgrUp, clustermgrUp>>
      BY <1>4, <2>4, <2>10
      DEF InstallRuns, InitNode, SetupNodemgr, SetupClustermgr, StartNodemgr, StartClustermgr,
          InstanceEnv, InstallInstance, CreateCluster, Bootstrap, AddMetadata, Installers, At, AtOneOf, files, procs, meta
    <3> QED
      BY <2>2, <2>3, <2>10, <3>1 DEF FreshInstall
  <2> QED
    BY <2>5, <2>6, <2>7, <2>8, <2>9, <2>10
<1> QED
  BY <1>1, <1>2, <1>3, <1>4, ScriptSteps DEF Skips, Ends, Moves

\* start.sh and stop.sh remove nothing.
LEMMA IntactStep ==
    ASSUME TypeOK, InScript, Intact, [Next]_vars
    PROVE  Intact'
<1>1. ASSUME NEW a \in Scripts, Issue(a) PROVE Intact'
  <2>1. base' = "installed" => Complete
    BY <1>1, BasesAre
  <2> QED
    BY <1>1, <2>1 DEF Intact, Complete, Issue, files, meta
<1>2. ASSUME UNCHANGED <<action, base, files, data, meta>>, smooth' => smooth PROVE Intact'
  BY <1>2 DEF Intact, Complete, files, meta
<1>3. ASSUME action' \notin {"start", "stop"} PROVE Intact'
  BY <1>3 DEF Intact
<1>4. CASE Rests
  BY <1>2, <1>4 DEF Rests
<1>5. CASE Skips
  BY <1>2, <1>5 DEF Skips, Moves
<1>6. CASE Moves /\ action = "start" /\ StartRuns
  BY <1>2, <1>6 DEF Moves, StartRuns, StartInstances, StartNodemgr, StartClustermgr, StartInstance
<1>7. CASE Moves /\ action = "stop" /\ StopRuns
  BY <1>2, <1>7 DEF Moves, StopRuns, StopNodemgr, StopInstances, StopClustermgr, StopInstance
<1> QED
  BY <1>1, <1>3, <1>4, <1>5, <1>6, <1>7, ScriptSteps DEF Ends, Moves

\* On a complete installation start.sh and stop.sh find everything.
LEMMA UseCanRun ==
    ASSUME Discipline, Complete, action \in {"start", "stop"}, Pending
    PROVE  CanRun(Current)
<1> USE DEF Discipline
<1>1. Current \in ScriptSet(action) /\ Current \in Command
  BY DidIs DEF Pending
<1>2. PICK op \in Op, x \in Thing : Current = C(op, x)
  BY <1>1, CommandIs
<1>3. /\ op \in {"start_nodemgr", "stop_nodemgr"} => x \in OwnMachines
      /\ op \in {"start_clustermgr", "stop_clustermgr"} => x \in ToSet(ClusterMgrs)
      /\ op \in {"start_instance", "stop_instance"} => x \in Instance
      /\ op \in {"start_instances", "start_nodemgr", "start_instance", "start_clustermgr",
                 "stop_nodemgr", "stop_instances", "stop_instance", "stop_clustermgr"}
  <2>1. CASE action = "start"
    BY <1>1, <1>2, <2>1, ScriptSetsAre, SkippedAre, CommandIs DEF ScriptSet, StartSet
  <2>2. CASE action = "stop"
    BY <1>1, <1>2, <2>2, ScriptSetsAre, SkippedAre, CommandIs DEF ScriptSet, StopSet
  <2> QED
    BY <2>1, <2>2
<1> QED
  BY <1>2, <1>3, CommandIs DEF CanRun, Complete, Reachable

\* On clean machines install.sh finds what it needs.
LEMMA InstallCanRun ==
    ASSUME Discipline, FreshInstall, smooth, action = "install", base = "pristine", Pending
    PROVE  CanRun(Current)
<1> USE DEF Discipline
<1>1. Current \in InstallSet /\ Current \in Command
  BY DidIs DEF Pending, ScriptSet
<1>2. PICK op \in Op, x \in Thing : Current = C(op, x)
  BY <1>1, CommandIs
<1>3. NeedsInInstall(op, x) \subseteq Did /\ \A c \in NeedsInInstall(op, x) : Done(c)
  BY <1>2, NeedsAreDone
<1>4. op \in {"install_storage", "add_comp", "bootstrap", "create_cluster"} => C(op, x) \notin Did
  <2>1. InPlace(Current, Did, InstallNeeds, InstallOnce)
    BY InstallDid
  <2>2. op \in {"install_storage", "add_comp", "bootstrap", "create_cluster"} => Current \in InstallOnce
    BY <1>1, <1>2, CommandIs DEF InstallOnce
  <2> QED
    BY <1>2, <2>1, <2>2 DEF InPlace
<1>5. \A p, y : C(p, y) \in Did <=> y \in Passed(p)
  BY PassedSteps
<1>6. /\ data = Passed("install_storage") \cup Passed("add_comp") /\ running = data
      /\ clusterRows = Passed("create_cluster")
      /\ sysTables <=> ExternalMeta \/ 0 \in Passed("bootstrap")
  BY DEF FreshInstall
<1>7. \A p, y : y \in Passed(p) => C(p, y) \in InstallSet
  BY <1>5, InstallDid
<1>8. /\ op \in {"storage_env", "install_storage"} => x \in Storage
      /\ op \in {"server_env", "add_comp"} => x \in Comp
      /\ op = "start_nodemgr" => x \in OwnMachines
      /\ op = "start_clustermgr" => x \in ToSet(ClusterMgrs)
      /\ op = "bootstrap" => ~ExternalMeta /\ x = 0
      /\ op = "create_cluster" => x \in Numbers
  <2>1. op = "bootstrap" => x = 0
    BY <1>1, <1>2, CommandIs DEF InstallSet, Installs, MetaReady, Registers, Managers
  <2> QED
    BY <1>1, <1>2, <2>1, ScriptSetsAre
<1>9. \A n : C("install_storage", n) \in Did => n \in running
  BY <1>5, <1>6
<1>10. MetaReady \subseteq Did => MetaServes
  <2>1. CASE ExternalMeta
    BY <2>1 DEF MetaServes
  <2>2. CASE ~ExternalMeta /\ MetaReady \subseteq Did
    <3>1. C("bootstrap", 0) \in Did
      BY <2>2, CommandIs DEF MetaReady
    <3>2. NeedsInInstall("bootstrap", 0) = All("install_storage", Metas)
      BY DEF NeedsInInstall
    <3>3. \A n \in Metas : C("install_storage", n) \in Did
      BY <3>1, <3>2, NeedsWereDone, CommandIs
    <3> QED
      BY <3>1, <3>3, <1>5, <1>6, <1>9 DEF MetaServes
  <2> QED
    BY <2>1, <2>2
<1>11. ASSUME op \in {"install_storage", "add_comp"} PROVE x \notin data /\ x \notin running
  BY <1>4, <1>5, <1>6, <1>7, <1>8, <1>11, ScriptSetsAre, Configured
<1>12. CASE op \in {"setup_nodemgr", "setup_clustermgr"}
  <2>1. Done(C("init_node", x))
    BY <1>3, <1>12 DEF NeedsInInstall
  <2> QED
    BY <1>2, <1>12, <2>1, CommandIs DEF Done, CanRun
<1>13. CASE op \in {"storage_env", "server_env"}
  <2>1. x \in Instance
    BY <1>8, <1>13 DEF Instance
  <2>2. CASE Host[x] \in Skip
    BY <1>2, <1>13, <2>2, CommandIs DEF CanRun, FreshInstall
  <2>3. CASE Host[x] \notin Skip
    <3>1. C("setup_nodemgr", Host[x]) \in NeedsInInstall(op, x)
      BY <1>13, <2>3, CommandIs DEF NeedsInInstall
    <3>2. Host[x] \in packages
      BY <1>3, <3>1, CommandIs DEF Done
    <3> QED
      BY <1>2, <1>13, <3>2, CommandIs DEF CanRun
  <2> QED
    BY <2>2, <2>3
<1>14. CASE op = "install_storage"
  <2>1. NeedsInInstall(op, x) = {C("storage_env", x)} \cup
            (IF x \in Primary THEN {} ELSE All("install_storage", ShardOf(x) \cap Primary))
    BY <1>14 DEF NeedsInInstall
  <2>2. x \in program
    BY <1>3, <2>1, CommandIs DEF Done
  <2>3. x \in Primary \/ ShardOf(x) \cap Primary \subseteq running
    BY <1>3, <1>9, <2>1, CommandIs
  <2> QED
    BY <1>2, <1>11, <1>14, <2>2, <2>3, CommandIs DEF CanRun, CanInstallStorage
<1>15. CASE op = "bootstrap"
  <2>1. NeedsInInstall(op, x) = All("install_storage", Metas)
    BY <1>15 DEF NeedsInInstall
  <2>2. Metas \subseteq running
    BY <1>3, <1>9, <2>1, CommandIs
  <2>3. ~sysTables
    BY <1>4, <1>5, <1>6, <1>8, <1>15
  <2> QED
    BY <1>2, <1>15, <2>2, <2>3, CommandIs DEF CanRun
<1>16. CASE op = "create_cluster"
  <2>1. NeedsInInstall(op, x) = MetaReady \cup All("install_storage", StorageIn(x))
    BY <1>16 DEF NeedsInInstall
  <2>2. StorageIn(x) \subseteq running /\ MetaServes
    BY <1>3, <1>9, <1>10, <2>1, CommandIs
  <2>3. x \notin clusterRows
    BY <1>4, <1>5, <1>6, <1>16
  <2> QED
    BY <1>2, <1>16, <2>2, <2>3, CommandIs DEF CanRun, CanCreateCluster, StorageIn
<1>17. CASE op = "add_comp"
  <2>1. NeedsInInstall(op, x) = MetaReady \cup {C("create_cluster", ClusterOf(x)), C("server_env", x)}
    BY <1>17 DEF NeedsInInstall
  <2>2. MetaServes /\ ClusterOf(x) \in clusterRows
    BY <1>3, <1>5, <1>6, <1>10, <2>1
  <2>3. x \in program
    BY <1>3, <2>1, CommandIs DEF Done
  <2> QED
    BY <1>2, <1>11, <1>17, <2>2, <2>3, CommandIs DEF CanRun, CanAddComp
<1>18. CASE op = "add_metadata"
  <2>1. Installs \subseteq Did
    BY <1>3, <1>18 DEF NeedsInInstall
  <2>2. MetaReady \subseteq Did
    BY <2>1 DEF Installs
  <2>3. ASSUME NEW n \in Primary PROVE n \in running
    <3>1. C("install_storage", n) \in Installs
      BY Configured, CommandIs DEF Installs
    <3> QED
      BY <1>9, <2>1, <3>1
  <2> QED
    BY <1>2, <1>10, <1>18, <2>2, <2>3, CommandIs DEF CanRun, CanAddMetadata
<1>19. CASE op = "start_nodemgr"
  <2>1. Done(C("setup_nodemgr", x))
    <3>1. C("setup_nodemgr", x) \in Installs
      BY <1>8, <1>19, CommandIs DEF Installs
    <3> QED
      BY <1>3, <1>19, <3>1 DEF NeedsInInstall
  <2> QED
    BY <1>2, <1>19, <2>1, CommandIs DEF Done, CanRun
<1>20. CASE op = "start_clustermgr"
  <2>1. Done(C("setup_clustermgr", x))
    <3>1. C("setup_clustermgr", x) \in Installs
      BY <1>8, <1>20, CommandIs DEF Installs
    <3> QED
      BY <1>3, <1>20, <3>1 DEF NeedsInInstall
  <2> QED
    BY <1>2, <1>20, <2>1, CommandIs DEF Done, CanRun
<1>21. CASE op = "init_node"
  BY <1>2, <1>21, CommandIs DEF CanRun
<1>22. op \in {"init_node", "setup_nodemgr", "storage_env", "server_env", "install_storage", "bootstrap",
              "create_cluster", "add_comp", "setup_clustermgr", "add_metadata", "start_nodemgr",
              "start_clustermgr"}
  BY <1>2, OperationsOf, CommandIs
<1> QED
  BY <1>12, <1>13, <1>14, <1>15, <1>16, <1>17, <1>18, <1>19, <1>20, <1>21, <1>22

Prepares == Discipline /\ FreshInstall /\ Intact

\* These are invariants too.
LEMMA PreparesHolds == Spec => []Prepares
<1>1. Init => FreshInstall /\ Intact
  BY DEF Init, FreshInstall, Intact
<1>2. FreshInstall /\ Intact /\ Discipline /\ [Next]_vars => (FreshInstall /\ Intact)'
  BY FreshStep, IntactStep DEF Discipline
<1> QED
  BY <1>1, <1>2, DisciplineHolds, PTL DEF Spec, Prepares

\* Every command of install.sh on clean machines, and of start.sh and stop.sh on a
\* complete installation, finds what it needs, as the commands before it left it.
THEOREM CommandsFindWhatTheyNeed == Spec => []CommandsCanRun
<1>1. Prepares => CommandsCanRun
  <2> SUFFICES ASSUME Prepares, smooth, Pending,
                      \/ action = "install" /\ base = "pristine"
                      \/ action \in {"start", "stop"} /\ base = "installed"
               PROVE  CanRun(Current)
    BY DEF CommandsCanRun
  <2>1. CASE action = "install" /\ base = "pristine"
    BY <2>1, InstallCanRun DEF Prepares
  <2>2. CASE action \in {"start", "stop"} /\ base = "installed"
    BY <2>2, UseCanRun DEF Prepares, Intact
  <2> QED
    BY <2>1, <2>2
<1> QED
  BY <1>1, PreparesHolds, PTL

-----------------------------------------------------------------------------
(* The scripts reach what they announce. *)

\* What start.sh has come to on a complete installation is up; stop.sh, down.
UpSoFar ==
    smooth /\ action = "start" /\ base = "installed" =>
       /\ \A n \in Instance :
             Host[n] \in Passed("start_instances") \/ n \in Passed("start_instance") => n \in running
       /\ Passed("start_nodemgr") \subseteq nodemgrUp
       /\ Passed("start_clustermgr") \subseteq clustermgrUp
DownSoFar ==
    smooth /\ action = "stop" /\ base = "installed" =>
       /\ \A n \in running : Host[n] \notin Passed("stop_instances") /\ n \notin Passed("stop_instance")
       /\ nodemgrUp \cap Passed("stop_nodemgr") = {}
       /\ clustermgrUp \cap Passed("stop_clustermgr") = {}

\* Each command of start.sh brings up what it is for.
LEMMA UpStep ==
    ASSUME Prepares, UpSoFar, [Next]_vars
    PROVE  UpSoFar'
<1> USE DEF Prepares, Discipline
<1>1. ASSUME NEW a \in Scripts, Issue(a) PROVE UpSoFar'
  <2>1. \A p : Passed(p)' = {}
    BY <1>1, PassedSteps
  <2> QED
    BY <2>1 DEF UpSoFar
<1>2. ASSUME action' # "start" PROVE UpSoFar'
  BY <1>2 DEF UpSoFar
<1>3. CASE Rests
  <2>1. \A p : Passed(p)' = Passed(p)
    BY <1>3, PassedSteps
  <2>2. smooth' => smooth /\ UNCHANGED <<action, base, running, nodemgrUp, clustermgrUp>>
    BY <1>3 DEF Rests, procs
  <2> QED
    BY <2>1, <2>2 DEF UpSoFar
<1>4. CASE Moves /\ action = "start" /\ StartRuns
  <2> SUFFICES ASSUME smooth', base' = "installed" PROVE UpSoFar'
    BY DEF UpSoFar
  <2>1. smooth /\ base = "installed"
    BY <1>4 DEF Moves
  <2>2. /\ \A n \in Instance :
             Host[n] \in Passed("start_instances") \/ n \in Passed("start_instance") => n \in running
        /\ Passed("start_nodemgr") \subseteq nodemgrUp
        /\ Passed("start_clustermgr") \subseteq clustermgrUp
    BY <1>4, <2>1 DEF UpSoFar
  <2>3. PICK o \in Op, x \in Thing :
                 /\ Current = C(o, x) /\ Passed(o)' = Passed(o) \cup {x}
                 /\ \A p : p # o => Passed(p)' = Passed(p)
    BY <1>4, PassedSteps
  <2>4. Current.op = o /\ Current.on = x
    BY <2>3, CommandIs
  <2>5. data = Instance /\ \A m : Managed(m) = On(m)
    BY <1>4, <2>1 DEF Intact, Complete, Managed, Reachable, On
  <2>6. CASE o = "start_instances"
    <3>1. x \in Machine /\ StartInstances(x) /\ UNCHANGED <<nodemgrUp, clustermgrUp>>
      BY <1>4, <2>4, <2>6 DEF StartRuns, StartInstances, StartNodemgr, StartClustermgr, StartInstance, At
    <3>2. running' = running \cup On(x)
      BY <2>1, <2>5, <3>1 DEF StartInstances, HideFailures, On
    <3> QED
      BY <2>2, <2>3, <2>6, <3>1, <3>2 DEF UpSoFar, On
  <2>7. CASE o = "start_instance"
    <3>1. running' = running \cup ({x} \cap data) /\ UNCHANGED <<nodemgrUp, clustermgrUp>>
      BY <1>4, <2>4, <2>7 DEF StartRuns, StartInstances, StartNodemgr, StartClustermgr, StartInstance, At
    <3> QED
      BY <2>2, <2>3, <2>5, <2>7, <3>1 DEF UpSoFar
  <2>8. CASE o = "start_nodemgr"
    <3>1. nodemgrUp' = nodemgrUp \cup {x} /\ UNCHANGED <<running, clustermgrUp>>
      BY <1>4, <2>4, <2>8 DEF StartRuns, StartInstances, StartNodemgr, StartClustermgr, StartInstance, At
    <3> QED
      BY <2>2, <2>3, <2>8, <3>1 DEF UpSoFar
  <2>9. CASE o = "start_clustermgr"
    <3>1. clustermgrUp' = clustermgrUp \cup {x} /\ UNCHANGED <<running, nodemgrUp>>
      BY <1>4, <2>4, <2>9 DEF StartRuns, StartInstances, StartNodemgr, StartClustermgr, StartInstance, At
    <3> QED
      BY <2>2, <2>3, <2>9, <3>1 DEF UpSoFar
  <2> QED
    BY <1>4, <2>4, <2>6, <2>7, <2>8, <2>9, OperationsOf DEF Moves
<1> QED
  BY <1>1, <1>2, <1>3, <1>4, ScriptSteps DEF Skips, Ends, Moves

\* Each command of stop.sh takes down what it is for, and nothing comes up again.
LEMMA DownStep ==
    ASSUME Prepares, DownSoFar, [Next]_vars
    PROVE  DownSoFar'
<1> USE DEF Prepares, Discipline
<1>1. ASSUME NEW a \in Scripts, Issue(a) PROVE DownSoFar'
  <2>1. \A p : Passed(p)' = {}
    BY <1>1, PassedSteps
  <2> QED
    BY <2>1 DEF DownSoFar
<1>2. ASSUME action' # "stop" PROVE DownSoFar'
  BY <1>2 DEF DownSoFar
<1>3. CASE Rests
  <2>1. \A p : Passed(p)' = Passed(p)
    BY <1>3, PassedSteps
  <2>2. smooth' => smooth /\ UNCHANGED <<action, base, running, nodemgrUp, clustermgrUp>>
    BY <1>3 DEF Rests, procs
  <2> QED
    BY <2>1, <2>2 DEF DownSoFar
<1>4. CASE Moves /\ action = "stop" /\ StopRuns
  <2> SUFFICES ASSUME smooth', base' = "installed" PROVE DownSoFar'
    BY DEF DownSoFar
  <2>1. smooth /\ base = "installed"
    BY <1>4 DEF Moves
  <2>2. /\ \A n \in running : Host[n] \notin Passed("stop_instances") /\ n \notin Passed("stop_instance")
        /\ nodemgrUp \cap Passed("stop_nodemgr") = {}
        /\ clustermgrUp \cap Passed("stop_clustermgr") = {}
    BY <1>4, <2>1 DEF DownSoFar
  <2>3. PICK o \in Op, x \in Thing :
                 /\ Current = C(o, x) /\ Passed(o)' = Passed(o) \cup {x}
                 /\ \A p : p # o => Passed(p)' = Passed(p)
    BY <1>4, PassedSteps
  <2>4. Current.op = o /\ Current.on = x
    BY <2>3, CommandIs
  <2>5. \A m : Managed(m) = On(m)
    BY <1>4, <2>1 DEF Intact, Complete, Managed, Reachable, On
  <2>6. CASE o = "stop_instances"
    <3>1. x \in Machine /\ StopInstances(x) /\ UNCHANGED <<nodemgrUp, clustermgrUp>>
      BY <1>4, <2>4, <2>6 DEF StopRuns, StopInstances, StopNodemgr, StopClustermgr, StopInstance, At, AtOneOf
    <3>2. running' = running \ On(x)
      BY <2>1, <2>5, <3>1 DEF StopInstances, HideFailures, On
    <3>3. running \subseteq Instance
      BY DEF TypeOK
    <3> QED
      BY <2>2, <2>3, <2>6, <3>1, <3>2, <3>3 DEF DownSoFar, On
  <2>7. CASE o = "stop_instance"
    <3>1. running' = running \ {x} /\ UNCHANGED <<nodemgrUp, clustermgrUp>>
      BY <1>4, <2>4, <2>7 DEF StopRuns, StopInstances, StopNodemgr, StopClustermgr, StopInstance, At, AtOneOf
    <3> QED
      BY <2>2, <2>3, <2>7, <3>1 DEF DownSoFar
  <2>8. CASE o = "stop_nodemgr"
    <3>1. nodemgrUp' = nodemgrUp \ {x} /\ UNCHANGED <<running, clustermgrUp>>
      BY <1>4, <2>4, <2>8 DEF StopRuns, StopInstances, StopNodemgr, StopClustermgr, StopInstance, At, AtOneOf
    <3> QED
      BY <2>2, <2>3, <2>8, <3>1 DEF DownSoFar
  <2>9. CASE o = "stop_clustermgr"
    <3>1. clustermgrUp' = clustermgrUp \ {x} /\ UNCHANGED <<running, nodemgrUp>>
      BY <1>4, <2>4, <2>9 DEF StopRuns, StopInstances, StopNodemgr, StopClustermgr, StopInstance, At, AtOneOf
    <3> QED
      BY <2>2, <2>3, <2>9, <3>1 DEF DownSoFar
  <2> QED
    BY <1>4, <2>4, <2>6, <2>7, <2>8, <2>9, OperationsOf DEF Moves
<1>5. CASE Skips /\ action = "stop"
  <2> SUFFICES ASSUME smooth', base' = "installed" PROVE FALSE
    BY DEF DownSoFar
  <2>1. smooth /\ base = "installed" /\ Pending /\ ~CanRun(Current)
    BY <1>5 DEF Skips, Moves
  <2> QED
    BY <1>5, <2>1, UseCanRun DEF Intact
<1> QED
  BY <1>1, <1>2, <1>3, <1>4, <1>5, ScriptSteps DEF Skips, Ends, Moves

\* And so are these.
LEMMA ProgressHolds == Spec => [](Prepares /\ UpSoFar /\ DownSoFar)
<1>1. Init => UpSoFar /\ DownSoFar
  BY DEF Init, UpSoFar, DownSoFar
<1>2. UpSoFar /\ DownSoFar /\ Prepares /\ [Next]_vars => (UpSoFar /\ DownSoFar)'
  BY UpStep, DownStep
<1> QED
  BY <1>1, <1>2, PreparesHolds, PTL DEF Spec

\* Each instance is on a machine of a node manager, skipped or not.
LEMMA Hosted == \A n \in Instance : Host[n] \in OwnMachines \/ n \in OnSkipped
  BY Configured DEF OwnMachines, OnSkipped

\* An install.sh that nothing interrupts, begun on clean machines, ends with all
\* instances and managers installed and running; start.sh brings a complete
\* installation up again, stop.sh takes it down, whatever of it was running, and
\* both leave it complete.
THEOREM ScriptsDoTheirWork == Spec => []ScriptsComplete
<1>1. Prepares /\ UpSoFar /\ DownSoFar => ScriptsComplete
  <2> SUFFICES ASSUME Prepares, UpSoFar, DownSoFar PROVE ScriptsComplete
    OBVIOUS
  <2> USE DEF Prepares, Discipline
  <2>1. ASSUME NEW a \in Scripts, AtEnd(a)
        PROVE  /\ smooth /\ action = a /\ Did = ScriptSet(a)
               /\ \A p, x : C(p, x) \in ScriptSet(a) <=> x \in Passed(p)
    <3>1. smooth /\ action = a /\ action # "none" /\ ~Pending
      <4>1. Len(Commands(a)) \in Nat /\ pc \in Nat
        BY ScriptsAre DEF TypeOK
      <4>2. smooth /\ action = a /\ action # "none" /\ pc > Len(Commands(a))
        BY <2>1 DEF AtEnd, Scripts
      <4> QED
        BY <4>1, <4>2 DEF Pending
    <3> QED
      BY <3>1, DidIs, PassedSteps
  <2>2. ASSUME AtEnd("install"), base = "pristine" PROVE Complete /\ AllUp
    <3>1. smooth /\ action = "install" /\ Did = InstallSet
          /\ \A p, x : C(p, x) \in InstallSet <=> x \in Passed(p)
      BY <2>1, <2>2 DEF ScriptSet, Scripts
    <3>2. Complete
      BY <3>1, CompleteBeforeManagers DEF InstallSet
    <3>3. running = Instance
      BY <2>2, <3>1, <3>2 DEF FreshInstall, Complete
    <3>4. Passed("start_nodemgr") = OwnMachines /\ Passed("start_clustermgr") = ToSet(ClusterMgrs)
      <4>1. \A x \in OwnMachines : C("start_nodemgr", x) \in InstallSet
        BY CommandIs DEF InstallSet, Managers
      <4>2. \A x \in ToSet(ClusterMgrs) : C("start_clustermgr", x) \in InstallSet
        BY CommandIs DEF InstallSet, Managers
      <4> QED
        BY <3>1, <4>1, <4>2, ScriptSetsAre
    <3> QED
      BY <2>2, <3>1, <3>2, <3>3, <3>4 DEF FreshInstall, AllUp
  <2>3. ASSUME AtEnd("start"), base = "installed" PROVE Complete /\ AllUp
    <3>1. smooth /\ action = "start"
          /\ \A p, x : C(p, x) \in StartSet <=> x \in Passed(p)
      BY <2>1, <2>3 DEF ScriptSet, Scripts
    <3>2. /\ \A x \in OwnMachines : C("start_nodemgr", x) \in StartSet /\ C("start_instances", x) \in StartSet
          /\ \A x \in ToSet(ClusterMgrs) : C("start_clustermgr", x) \in StartSet
          /\ \A x \in OnSkipped : C("start_instance", x) \in StartSet
      BY CommandIs DEF StartSet
    <3>3. \A n \in Instance : n \in running
      BY <2>3, <3>1, <3>2, Hosted DEF UpSoFar
    <3>4. OwnMachines \subseteq nodemgrUp /\ ToSet(ClusterMgrs) \subseteq clustermgrUp
      BY <2>3, <3>1, <3>2 DEF UpSoFar
    <3>5. AllUp
      BY <3>3, <3>4 DEF AllUp, TypeOK, FilesInPlace
    <3> QED
      BY <2>3, <3>1, <3>5 DEF Intact
  <2>4. ASSUME AtEnd("stop"), base = "installed" PROVE Complete /\ AllDown
    <3>1. smooth /\ action = "stop"
          /\ \A p, x : C(p, x) \in StopSet <=> x \in Passed(p)
      BY <2>1, <2>4 DEF ScriptSet, Scripts
    <3>2. /\ \A x \in OwnMachines : C("stop_nodemgr", x) \in StopSet /\ C("stop_instances", x) \in StopSet
          /\ \A x \in ToSet(ClusterMgrs) : C("stop_clustermgr", x) \in StopSet
          /\ \A x \in OnSkipped : C("stop_instance", x) \in StopSet
      BY CommandIs DEF StopSet
    <3>3. \A n \in Instance : n \notin running
      BY <2>4, <3>1, <3>2, Hosted DEF DownSoFar
    <3>4. OwnMachines \cap nodemgrUp = {} /\ ToSet(ClusterMgrs) \cap clustermgrUp = {}
      BY <2>4, <3>1, <3>2 DEF DownSoFar
    <3>5. AllDown
      BY <3>3, <3>4 DEF AllDown, TypeOK, FilesInPlace
    <3> QED
      BY <2>4, <3>1, <3>5 DEF Intact
  <2> QED
    BY <2>2, <2>3, <2>4 DEF ScriptsComplete
<1> QED
  BY <1>1, ProgressHolds, PTL

-----------------------------------------------------------------------------
(* clean.sh.                                                               *)

\* No computing node on a machine whose node manager is skipped: clean.sh looks for
\* its stop script in the wrong directory (CleanCompDir).
NoCompSkipped == Comp \cap OnSkipped = {}

\* What clean.sh has not come to is still there.
CleanIntact ==
    smooth /\ action = "clean" /\ base = "installed" =>
       /\ OwnMachines \ Passed("rm_nodemgr") \subseteq nodemgrDir
       /\ ToSet(ClusterMgrs) \ Passed("rm_clustermgr") \subseteq clustermgrDir
       /\ \A n \in (Storage \cap OnSkipped) \ Passed("rm_meta") :
             Reachable(n) <=> Host[n] \notin Passed("rm_clustermgr")

\* Every process that runs can be found, but for those of undermined meta nodes.
FoundOnes ==
    /\ \A n \in running \ Undermined : n \in program /\ n \in listed
    /\ nodemgrUp \subseteq nodemgrDir /\ clustermgrUp \subseteq clustermgrDir

\* What clean.sh has come to is down and gone, and the rest can be found.
CleanTracked ==
    smooth /\ action = "clean" /\ base # "other" =>
       /\ FoundOnes
       /\ \A n \in running \ Undermined : Host[n] \notin Passed("clear_instances")
                                              /\ n \notin Passed("halt_storage")
       /\ nodemgrUp \cap Passed("stop_nodemgr") = {}
       /\ clustermgrUp \cap Passed("stop_clustermgr") = {}
       /\ \A n \in data : Host[n] \notin Passed("rm_nodemgr") /\ n \notin Passed("rm_data")
                            /\ n \notin Passed("rm_meta")

\* A command of clean.sh and what it does: to the processes, and to the files.
Cleans(o, x) ==
    \/ /\ o = "stop_nodemgr" /\ nodemgrUp' = nodemgrUp \ {x}
       /\ UNCHANGED <<files, data, running, clustermgrUp>>
    \/ /\ o = "stop_clustermgr" /\ clustermgrUp' = clustermgrUp \ {x}
       /\ UNCHANGED <<files, data, running, nodemgrUp>>
    \/ /\ o \in {"halt_storage", "halt_comp"} /\ running' = running \ {x}
       /\ UNCHANGED <<files, data, nodemgrUp, clustermgrUp>>
    \/ /\ o = "clear_instances" /\ x \in Machine
       /\ smooth' => running' = running \ Managed(x)
       /\ running' \subseteq running /\ running \ running' \subseteq Managed(x)
       /\ data' = data \ Managed(x)
       /\ program' = program \ On(x) /\ listed' = listed \ On(x)
       /\ UNCHANGED <<packages, nodemgrDir, clustermgrDir, nodemgrUp, clustermgrUp>>
    \/ /\ o = "rm_nodemgr" /\ x \in Machine
       /\ program' = program \ On(x) /\ listed' = listed \ On(x)
       /\ nodemgrDir' = nodemgrDir \ {x} /\ data' = data \ On(x)
       /\ UNCHANGED <<clustermgrDir, procs>>
    \/ /\ o = "rm_clustermgr" /\ x \in Machine
       /\ program' = program \ On(x) /\ listed' = listed \ On(x)
       /\ clustermgrDir' = clustermgrDir \ {x}
       /\ UNCHANGED <<nodemgrDir, data, procs>>
    \/ o = "rm_data" /\ data' = data \ {x} /\ UNCHANGED <<files, procs>>
    \/ /\ o = "rm_meta" /\ program' = program \ {x} /\ listed' = listed \ {x} /\ data' = data \ {x}
       /\ UNCHANGED <<nodemgrDir, clustermgrDir, procs>>
    \/ o = "remove_metadata" /\ UNCHANGED <<files, data, procs>>

\* What the command of clean.sh that runs does.
LEMMA CleanRunsAre ==
    ASSUME TypeOK, InScript, Moves, action = "clean", CleanRuns,
           NEW o \in Op, NEW x \in Thing, Current = C(o, x)
    PROVE  Cleans(o, x)
<1>1. Current.op = o /\ Current.on = x
  BY CommandIs
<1>2. ASSUME NEW m \in Machine, StopNodemgr(m) \/ StopClustermgr(m) PROVE Cleans(o, x)
  BY <1>1, <1>2 DEF StopNodemgr, StopClustermgr, At, Cleans
<1>3. ASSUME NEW m \in Machine, ClearInstances(m) PROVE Cleans(o, x)
  <2>1. o = "clear_instances" /\ x = m
    BY <1>1, <1>3 DEF ClearInstances, InClean, At
  <2>2. PICK S \in SUBSET (Managed(m) \cap running) : HideFailures(S) /\ running' = running \ (Managed(m) \ S)
    BY <1>3 DEF ClearInstances
  <2>3. smooth' => S = {}
    BY <2>2 DEF HideFailures
  <2> QED
    BY <1>3, <2>1, <2>2, <2>3 DEF ClearInstances, Cleans
<1>4. ASSUME NEW m \in Machine, RemoveNodemgr(m) PROVE Cleans(o, x)
  BY <1>1, <1>4 DEF RemoveNodemgr, InClean, At, Cleans
<1>5. ASSUME NEW m \in Machine, RemoveClustermgr(m) PROVE Cleans(o, x)
  BY <1>1, <1>5 DEF RemoveClustermgr, InClean, At, Cleans
<1>6. ASSUME NEW n \in Instance, StopInstance(n) PROVE Cleans(o, x)
  <2>1. AtOneOf({"stop_instance", "halt_storage", "halt_comp"}, n)
    BY <1>6 DEF StopInstance
  <2>2. o \in {"halt_storage", "halt_comp"} /\ x = n
    BY <2>1, RunsOn, CommandIs
  <2> QED
    BY <1>6, <2>2 DEF StopInstance, Cleans
<1>7. ASSUME NEW n \in Instance, RemoveData(n) \/ RemoveMeta(n) PROVE Cleans(o, x)
  BY <1>1, <1>7 DEF RemoveData, RemoveMeta, InClean, At, Cleans
<1>8. ASSUME RemoveMetadata PROVE Cleans(o, x)
  BY <1>1, <1>8 DEF RemoveMetadata, InClean, At, Cleans
<1> QED
  BY <1>2, <1>3, <1>4, <1>5, <1>6, <1>7, <1>8 DEF CleanRuns

\* Whom the commands of clean.sh are for, and what was passed before.
LEMMA CleanPassed ==
    ASSUME TypeOK, InScript, action = "clean", Pending, NEW o, NEW x, Current = C(o, x)
    PROVE  /\ o \in {"stop_nodemgr", "clear_instances", "rm_nodemgr"} => x \in OwnMachines
           /\ o \in {"stop_clustermgr", "rm_clustermgr"} => x \in ToSet(ClusterMgrs)
           /\ o = "halt_storage" => x \in Storage \cap OnSkipped
           /\ o = "halt_comp" => x \in Comp \cap OnSkipped
           /\ o = "rm_data" => x \in OnSkipped \ Metas
           /\ o = "rm_meta" => x \in Metas \cap OnSkipped
           /\ o = "remove_metadata" => ExternalMeta
           /\ o = "stop_nodemgr" => x \notin Passed("rm_nodemgr")
           /\ o = "stop_clustermgr" => x \notin Passed("rm_clustermgr")
           /\ o = "halt_storage" => x \notin Passed("rm_meta")
           /\ o = "clear_instances" => x \in Passed("stop_nodemgr")
           /\ o = "rm_nodemgr" => x \in Passed("stop_nodemgr") /\ x \in Passed("clear_instances")
           /\ o = "rm_clustermgr" => x \in Passed("stop_clustermgr")
           /\ o = "rm_clustermgr" /\ x \in OwnMachines => x \in Passed("clear_instances")
           /\ o = "rm_clustermgr" => EarlyOn(x) \cap Storage \subseteq Passed("halt_storage")
           /\ o = "halt_storage" /\ x \in Undermined => Host[x] \in Passed("rm_clustermgr")
           /\ o = "halt_storage" /\ x \notin Undermined => Host[x] \notin Passed("rm_clustermgr")
           /\ o = "rm_data" /\ x \in Storage => x \in Passed("halt_storage")
           /\ o = "rm_meta" => x \in Passed("halt_storage")
<1>0. Did \subseteq CleanSet
  BY DidIs DEF ScriptSet
<1>1. C(o, x) \in CleanSet
  BY DidIs DEF ScriptSet, Pending
<1>2. \A p, y : C(p, y) \in Did <=> y \in Passed(p)
  BY PassedSteps
<1>3. NeedsInUse(o, x) \subseteq Did
      /\ (o \in {"stop_nodemgr", "stop_clustermgr", "halt_storage"} => C(o, x) \notin Did)
  BY UseNeedsDid
<1>4. /\ x \in Passed("rm_nodemgr") => C("stop_nodemgr", x) \in Did
      /\ x \in Passed("rm_clustermgr") => C("stop_clustermgr", x) \in Did
      /\ x \in Passed("rm_meta") => C("halt_storage", x) \in Did
  BY <1>2, UseNeedsWereDid DEF NeedsInUse
<1>5. /\ o = "clear_instances" => x \in Passed("stop_nodemgr")
      /\ o = "rm_nodemgr" => x \in Passed("stop_nodemgr") /\ x \in Passed("clear_instances")
      /\ o = "rm_clustermgr" => x \in Passed("stop_clustermgr")
      /\ o = "rm_clustermgr" /\ x \in OwnMachines => x \in Passed("clear_instances")
      /\ o = "rm_data" /\ x \in Storage => x \in Passed("halt_storage")
      /\ o = "rm_meta" => x \in Passed("halt_storage")
  <2>1. o = "clear_instances" => x \in Passed("stop_nodemgr")
    BY <1>2, <1>3 DEF NeedsInUse
  <2>2. o = "rm_nodemgr" => x \in Passed("stop_nodemgr") /\ x \in Passed("clear_instances")
    BY <1>2, <1>3 DEF NeedsInUse
  <2>3. /\ o = "rm_clustermgr" => x \in Passed("stop_clustermgr")
        /\ o = "rm_clustermgr" /\ x \in OwnMachines => x \in Passed("clear_instances")
    BY <1>2, <1>3, CommandIs DEF NeedsInUse
  <2>4. o = "rm_data" /\ x \in Storage => x \in Passed("halt_storage")
    BY <1>2, <1>3 DEF NeedsInUse
  <2>5. o = "rm_meta" => x \in Passed("halt_storage")
    BY <1>2, <1>3 DEF NeedsInUse
  <2> QED
    BY <2>1, <2>2, <2>3, <2>4, <2>5
<1>6. /\ o = "stop_nodemgr" => x \notin Passed("rm_nodemgr")
      /\ o = "stop_clustermgr" => x \notin Passed("rm_clustermgr")
      /\ o = "halt_storage" => x \notin Passed("rm_meta")
  BY <1>3, <1>4
<1>7. o = "rm_clustermgr" => EarlyOn(x) \cap Storage \subseteq Passed("halt_storage")
  <2> SUFFICES ASSUME o = "rm_clustermgr", NEW n \in EarlyOn(x), n \in Storage
               PROVE  n \in Passed("halt_storage")
    OBVIOUS
  <2>1. C("halt_storage", n) \in NeedsInUse(o, x)
    BY DEF NeedsInUse, All
  <2> QED
    BY <1>2, <1>3, <2>1
<1>8. o = "halt_storage" /\ x \in Undermined => Host[x] \in Passed("rm_clustermgr")
  BY <1>2, <1>3 DEF NeedsInUse
<1>9. ASSUME o = "halt_storage", x \notin Undermined PROVE Host[x] \notin Passed("rm_clustermgr")
  <2> SUFFICES ASSUME C("rm_clustermgr", Host[x]) \in Did PROVE FALSE
    BY <1>2
  <2>1. x \in Storage \cap OnSkipped
    BY <1>1, <1>9, ScriptSetsAre
  <2>2. C("rm_clustermgr", Host[x]) \in CleanSet
    BY <1>0
  <2>3. Host[x] \in ToSet(ClusterMgrs)
    BY <2>2, ScriptSetsAre
  <2>4. x \in EarlyOn(Host[x])
    BY <1>9, <2>1, <2>3, SkippedAre DEF EarlyOn, Undermined, Metas
  <2>5. C("halt_storage", x) \in NeedsInUse("rm_clustermgr", Host[x])
    BY <2>1, <2>4 DEF NeedsInUse, All
  <2> QED
    BY <1>3, <1>9, <2>5, UseNeedsWereDid
<1> QED
  BY <1>1, <1>5, <1>6, <1>7, <1>8, <1>9, ScriptSetsAre

\* clean.sh removes nothing before its turn, but for what goes with a cluster manager.
LEMMA CleanIntactStep ==
    ASSUME Discipline, CleanIntact, [Next]_vars
    PROVE  CleanIntact'
<1> USE DEF Discipline
<1>1. ASSUME NEW a \in Scripts, Issue(a) PROVE CleanIntact'
  <2>1. base' = "installed" => Complete
    BY <1>1, BasesAre
  <2>2. UNCHANGED <<nodemgrDir, clustermgrDir, program, listed>>
    BY <1>1 DEF Issue, files
  <2>3. OnSkipped \subseteq Instance
    BY SkippedAre
  <2>4. \A p : Passed(p)' = {}
    BY <1>1, PassedSteps
  <2> QED
    BY <2>1, <2>2, <2>3, <2>4 DEF CleanIntact, Complete, Reachable
<1>2. ASSUME action' # "clean" PROVE CleanIntact'
  BY <1>2 DEF CleanIntact
<1>3. CASE Rests
  <2>1. \A p : Passed(p)' = Passed(p)
    BY <1>3, PassedSteps
  <2> QED
    BY <1>3, <2>1 DEF Rests, CleanIntact, Reachable, files
<1>4. CASE Moves /\ action = "clean" /\ (Skips \/ CleanRuns)
  <2> SUFFICES ASSUME smooth', base' = "installed" PROVE CleanIntact'
    BY DEF CleanIntact
  <2>1. smooth /\ base = "installed" /\ Pending
    BY <1>4 DEF Moves
  <2>2. /\ OwnMachines \ Passed("rm_nodemgr") \subseteq nodemgrDir
        /\ ToSet(ClusterMgrs) \ Passed("rm_clustermgr") \subseteq clustermgrDir
        /\ \A n \in (Storage \cap OnSkipped) \ Passed("rm_meta") :
              n \in program /\ n \in listed <=> Host[n] \notin Passed("rm_clustermgr")
    BY <1>4, <2>1 DEF CleanIntact, Reachable
  <2>3. PICK o \in Op, x \in Thing :
                 /\ Current = C(o, x) /\ Passed(o)' = Passed(o) \cup {x}
                 /\ \A p : p # o => Passed(p)' = Passed(p)
    BY <1>4, PassedSteps
  <2> DEFINE Left == /\ OwnMachines \ Passed("rm_nodemgr")' \subseteq nodemgrDir'
                     /\ ToSet(ClusterMgrs) \ Passed("rm_clustermgr")' \subseteq clustermgrDir'
                     /\ \A n \in (Storage \cap OnSkipped) \ Passed("rm_meta")' :
                           n \in program' /\ n \in listed' <=> Host[n] \notin Passed("rm_clustermgr")'
  <2>4. Left => CleanIntact'
    <3>1. /\ UNCHANGED <<OwnMachines, ToSet(ClusterMgrs), Storage \cap OnSkipped>>
          /\ \A n : UNCHANGED Host[n]
      BY DEF OwnMachines, OnSkipped, Instance, ToSet
    <3> QED
      BY <3>1 DEF CleanIntact, Reachable
  <2> SUFFICES Left
    BY <2>4
  <2>5. CASE UNCHANGED <<nodemgrDir, clustermgrDir, program, listed>> /\ o # "rm_clustermgr"
    BY <2>2, <2>3, <2>5
  <2>6. CASE Skips
    <3>1. o # "rm_clustermgr"
      BY <2>1, <2>3, <2>6, CommandIs DEF Skips, CanRun
    <3> QED
      BY <2>5, <2>6, <3>1 DEF Skips, files
  <2>7. CASE CleanRuns
    <3>1. Cleans(o, x)
      BY <1>4, <2>3, <2>7, CleanRunsAre
    <3>2. o \in {"clear_instances", "rm_nodemgr"} => x \in OwnMachines
      BY <1>4, <2>3, CleanPassed DEF Moves
    <3>3. OnSkipped \subseteq Instance /\ \A n \in Instance : n \in On(x) <=> Host[n] = x
      BY SkippedAre DEF On
    <3>4. o \in {"clear_instances", "rm_nodemgr"} => On(x) \cap OnSkipped = {}
      BY <3>2 DEF On, OnSkipped, OwnMachines
    <3>5. CASE o \notin {"clear_instances", "rm_nodemgr", "rm_clustermgr", "rm_meta"}
      BY <2>5, <3>1, <3>5 DEF Cleans, files
    <3>6. CASE o = "clear_instances"
      BY <2>2, <2>3, <3>1, <3>4, <3>6 DEF Cleans
    <3>7. CASE o = "rm_nodemgr"
      BY <2>2, <2>3, <3>1, <3>4, <3>7 DEF Cleans
    <3>8. CASE o = "rm_clustermgr"
      BY <2>2, <2>3, <3>1, <3>3, <3>8 DEF Cleans
    <3>9. CASE o = "rm_meta"
      BY <2>2, <2>3, <3>1, <3>9 DEF Cleans
    <3> QED
      BY <3>5, <3>6, <3>7, <3>8, <3>9
  <2> QED
    BY <1>4, <2>6, <2>7
<1> QED
  BY <1>1, <1>2, <1>3, <1>4, ScriptSteps DEF Skips, Ends, Moves

\* clean.sh on a complete installation finds what it needs, but for two of its commands.
LEMMA CleanFinds ==
    ASSUME Discipline, CleanIntact, smooth, action = "clean", base = "installed", Pending
    PROVE  CanRun(Current) <=> ~OutOfReach(Current)
<1> USE DEF Discipline
<1>1. Current \in Command
  BY DidIs DEF Pending
<1>2. PICK o \in Op, x \in Thing : Current = C(o, x)
  BY <1>1, CommandIs
<1>3. /\ o = "stop_nodemgr" => x \in nodemgrDir
      /\ o = "stop_clustermgr" => x \in clustermgrDir
      /\ o = "halt_storage" => (Reachable(x) <=> x \notin Undermined)
      /\ o = "remove_metadata" => ExternalMeta
  BY <1>2, CleanPassed DEF CleanIntact
<1>4. o \in {"stop_nodemgr", "clear_instances", "rm_nodemgr", "halt_storage", "halt_comp", "rm_data",
             "rm_meta", "stop_clustermgr", "rm_clustermgr", "remove_metadata"}
  BY <1>2, OperationsOf, CommandIs
<1>5. Current.op = o /\ Current.on = x
  BY <1>2, CommandIs
<1>6. CleanCompDir \notin ServerPackageDirs
  BY DEF CleanCompDir, ServerPackageDirs
<1> QED
  BY <1>3, <1>4, <1>5, <1>6 DEF CanRun, OutOfReach, MetaServes

\* Whatever runs of a complete installation, on every configuration: a command of
\* clean.sh finds what it needs unless it is the stopmysql.sh of a meta node whose
\* program went with the cluster manager of its skipped machine, or the stop_pg.py of
\* a computing node on a skipped machine; and those two never do.
THEOREM CleanFindsWhatItNeeds == Spec => []CleanCanRun
<1>1. Init => CleanIntact
  BY DEF Init, CleanIntact
<1>2. CleanIntact /\ Discipline /\ [Next]_vars => CleanIntact'
  BY CleanIntactStep
<1>3. CleanIntact /\ Discipline => CleanCanRun
  BY CleanFinds DEF CleanCanRun
<1> QED
  BY <1>1, <1>2, <1>3, DisciplineHolds, PTL DEF Spec

\* Configurations do not change.
LEMMA UnderminedStays == UNCHANGED <<Undermined, OnSkipped, Instance, Processes>>
  BY DEF Undermined, OnSkipped, Instance, Processes

\* clean.sh loses track of no process, and removes data only of stopped servers.
LEMMA CleanTrackedStep ==
    ASSUME Discipline, NoCompSkipped, CleanTracked, [Next]_vars
    PROVE  /\ CleanTracked'
           /\ smooth' /\ base # "other" => \A n \in (data \ data') \ Undermined : n \notin running'
<1> DEFINE Safe == smooth' /\ base # "other" => \A n \in (data \ data') \ Undermined : n \notin running'
<1> USE DEF Discipline
<1>1. ASSUME NEW a \in Scripts, Issue(a) PROVE CleanTracked' /\ Safe
  <2> SUFFICES ASSUME base' # "other" PROVE CleanTracked' /\ Safe
    BY <1>1 DEF CleanTracked, Issue
  <2>1. \A p : Passed(p)' = {}
    BY <1>1, PassedSteps
  <2>2. UNCHANGED <<data, running, nodemgrUp, clustermgrUp, nodemgrDir, clustermgrDir, program, listed>>
    BY <1>1 DEF Issue, files, procs
  <2>3. Pristine \/ Complete \/ Tracked
    BY <1>1, BasesAre
  <2>4. FoundOnes
    <3>1. CASE Pristine
      BY <3>1 DEF Pristine, FoundOnes, FilesInPlace
    <3>2. CASE Complete
      BY <3>2 DEF Complete, FoundOnes, FilesInPlace, TypeOK
    <3>3. CASE Tracked
      BY <3>3 DEF Tracked, Reachable, FoundOnes
    <3> QED
      BY <2>3, <3>1, <3>2, <3>3
  <2>5. FoundOnes'
    BY <2>2, <2>4, UnderminedStays DEF FoundOnes
  <2> QED
    BY <2>1, <2>2, <2>5 DEF CleanTracked
<1>2. ASSUME action' # "clean" PROVE CleanTracked'
  BY <1>2 DEF CleanTracked
<1>3. ASSUME data \subseteq data' PROVE Safe
  BY <1>3
<1>4. CASE Rests
  <2>1. \A p : Passed(p)' = Passed(p)
    BY <1>4, PassedSteps
  <2>2. UNCHANGED <<action, base, data, nodemgrDir, clustermgrDir, program, listed>>
        /\ (smooth' => smooth /\ UNCHANGED <<running, nodemgrUp, clustermgrUp>>)
    BY <1>4 DEF Rests, files, procs
  <2> QED
    BY <1>3, <2>1, <2>2, UnderminedStays DEF CleanTracked, FoundOnes
<1>5. CASE Moves /\ action = "clean" /\ (Skips \/ CleanRuns)
  <2> SUFFICES ASSUME smooth', base' # "other" PROVE CleanTracked' /\ Safe
    BY <1>5 DEF CleanTracked, Moves
  <2>1. smooth /\ base # "other" /\ Pending
    BY <1>5 DEF Moves
  <2>2. /\ FoundOnes
        /\ \A n \in running \ Undermined : Host[n] \notin Passed("clear_instances")
                                               /\ n \notin Passed("halt_storage")
        /\ nodemgrUp \cap Passed("stop_nodemgr") = {}
        /\ clustermgrUp \cap Passed("stop_clustermgr") = {}
        /\ \A n \in data : Host[n] \notin Passed("rm_nodemgr") /\ n \notin Passed("rm_data")
                            /\ n \notin Passed("rm_meta")
    BY <1>5, <2>1 DEF CleanTracked
  <2>3. PICK o \in Op, x \in Thing :
                 /\ Current = C(o, x) /\ Passed(o)' = Passed(o) \cup {x}
                 /\ \A p : p # o => Passed(p)' = Passed(p)
    BY <1>5, PassedSteps
  <2>4. /\ \A n \in running \ Undermined : n \in program /\ n \in listed
        /\ nodemgrUp \subseteq nodemgrDir /\ clustermgrUp \subseteq clustermgrDir
        /\ running \subseteq Instance /\ data \subseteq Instance
    BY <2>2 DEF FoundOnes, TypeOK
  <2> DEFINE Found == /\ \A n \in running' \ Undermined : n \in program' /\ n \in listed'
                      /\ nodemgrUp' \subseteq nodemgrDir' /\ clustermgrUp' \subseteq clustermgrDir'
  <2>5. Found => FoundOnes'
    BY UnderminedStays DEF FoundOnes
  <2> HIDE DEF Found
  <2>6. CASE Skips
    <3>1. /\ UNCHANGED <<data, running, nodemgrUp, clustermgrUp, nodemgrDir, clustermgrDir, program, listed>>
          /\ ~CanRun(Current)
      BY <2>6 DEF Skips, files, procs
    <3>2. /\ o = "stop_nodemgr" => x \notin nodemgrUp
          /\ o = "stop_clustermgr" => x \notin clustermgrUp
          /\ o = "halt_storage" => x \notin running \ Undermined
      BY <2>3, <2>4, <3>1, CommandIs DEF CanRun, Reachable
    <3>3. o \in {"stop_nodemgr", "stop_clustermgr", "halt_storage", "halt_comp", "remove_metadata"}
      BY <1>5, <2>1, <2>3, <3>1, OperationsOf, CommandIs DEF CanRun
    <3>4. FoundOnes'
      BY <2>4, <2>5, <3>1 DEF Found
    <3> QED
      BY <1>3, UnderminedStays, <2>2, <2>3, <3>1, <3>2, <3>3, <3>4 DEF CleanTracked
  <2>7. CASE CleanRuns
    <3>1. Cleans(o, x)
      BY <1>5, <2>3, <2>7, CleanRunsAre
    <3>2. /\ o \in {"stop_nodemgr", "clear_instances", "rm_nodemgr"} => x \in OwnMachines
          /\ o \in {"stop_clustermgr", "rm_clustermgr"} => x \in ToSet(ClusterMgrs)
          /\ o = "halt_storage" => x \in Storage \cap OnSkipped
          /\ o = "halt_comp" => x \in Comp \cap OnSkipped
          /\ o = "rm_data" => x \in OnSkipped \ Metas
          /\ o = "rm_meta" => x \in Metas \cap OnSkipped
          /\ o = "rm_nodemgr" => x \in Passed("stop_nodemgr") /\ x \in Passed("clear_instances")
          /\ o = "rm_clustermgr" => x \in Passed("stop_clustermgr")
          /\ o = "rm_clustermgr" /\ x \in OwnMachines => x \in Passed("clear_instances")
          /\ o = "rm_clustermgr" => EarlyOn(x) \cap Storage \subseteq Passed("halt_storage")
          /\ o = "rm_data" /\ x \in Storage => x \in Passed("halt_storage")
          /\ o = "rm_meta" => x \in Passed("halt_storage")
      BY <1>5, <2>1, <2>3, CleanPassed
    <3>3. /\ \A m : \A n \in Instance : n \in On(m) <=> Host[n] = m
          /\ \A n \in Undermined : Host[n] \notin OwnMachines
      BY DEF On, Undermined, OnSkipped, OwnMachines
    <3>4. CASE o = "stop_nodemgr"
      <4>1. nodemgrUp' = nodemgrUp \ {x}
            /\ UNCHANGED <<data, running, clustermgrUp, nodemgrDir, clustermgrDir, program, listed>>
        BY <3>1, <3>4 DEF Cleans, files
      <4>2. FoundOnes'
        BY <2>4, <2>5, <4>1 DEF Found
      <4> QED
        BY <1>3, UnderminedStays, <2>2, <2>3, <3>4, <4>1, <4>2 DEF CleanTracked
    <3>5. CASE o = "stop_clustermgr"
      <4>1. clustermgrUp' = clustermgrUp \ {x}
            /\ UNCHANGED <<data, running, nodemgrUp, nodemgrDir, clustermgrDir, program, listed>>
        BY <3>1, <3>5 DEF Cleans, files
      <4>2. FoundOnes'
        BY <2>4, <2>5, <4>1 DEF Found
      <4> QED
        BY <1>3, UnderminedStays, <2>2, <2>3, <3>5, <4>1, <4>2 DEF CleanTracked
    <3>6. CASE o \in {"halt_storage", "halt_comp"}
      <4>1. running' = running \ {x}
            /\ UNCHANGED <<data, nodemgrUp, clustermgrUp, nodemgrDir, clustermgrDir, program, listed>>
        BY <3>1, <3>6 DEF Cleans, files
      <4>2. FoundOnes'
        BY <2>4, <2>5, <4>1 DEF Found
      <4> QED
        BY <1>3, UnderminedStays, <2>2, <2>3, <3>6, <4>1, <4>2 DEF CleanTracked
    <3>7. CASE o = "clear_instances"
      <4>1. running' = running \ Managed(x) /\ data' = data \ Managed(x)
            /\ program' = program \ On(x) /\ listed' = listed \ On(x)
            /\ UNCHANGED <<nodemgrDir, clustermgrDir, nodemgrUp, clustermgrUp>>
        BY <3>1, <3>7 DEF Cleans
      <4>2. \A n \in running' : n \in running /\ n \notin On(x)
        BY <2>4, <3>2, <3>3, <3>7, <4>1 DEF Managed, Reachable
      <4>3. FoundOnes'
        BY <2>4, <2>5, <4>1, <4>2 DEF Found
      <4>4. Safe
        BY <4>1
      <4> QED
        BY UnderminedStays, <2>2, <2>3, <2>4, <3>3, <3>7, <4>1, <4>2, <4>3, <4>4 DEF CleanTracked
    <3>8. CASE o = "rm_nodemgr"
      <4>1. program' = program \ On(x) /\ listed' = listed \ On(x)
            /\ nodemgrDir' = nodemgrDir \ {x} /\ data' = data \ On(x)
            /\ UNCHANGED <<clustermgrDir, running, nodemgrUp, clustermgrUp>>
        BY <3>1, <3>8 DEF Cleans, procs
      <4>2. \A n \in running : n \notin On(x)
        BY <2>2, <2>4, <3>2, <3>3, <3>8
      <4>3. x \notin nodemgrUp
        BY <2>2, <3>2, <3>8
      <4>4. FoundOnes'
        BY <2>4, <2>5, <4>1, <4>2, <4>3 DEF Found
      <4>5. Safe
        BY <4>1, <4>2
      <4> QED
        BY UnderminedStays, <2>2, <2>3, <2>4, <3>3, <3>8, <4>1, <4>4, <4>5 DEF CleanTracked
    <3>9. CASE o = "rm_clustermgr"
      <4>1. program' = program \ On(x) /\ listed' = listed \ On(x) /\ clustermgrDir' = clustermgrDir \ {x}
            /\ UNCHANGED <<nodemgrDir, data, running, nodemgrUp, clustermgrUp>>
        BY <3>1, <3>9 DEF Cleans, procs
      <4>2. \A n \in running \ Undermined : n \notin On(x)
        <5> SUFFICES ASSUME NEW n \in running \ Undermined, Host[n] = x PROVE FALSE
          BY <2>4, <3>3
        <5>1. x \in OwnMachines \/ n \in OnSkipped
          BY <2>4, Hosted
        <5>2. CASE x \in OwnMachines
          BY <2>2, <3>2, <3>9, <5>2
        <5>3. CASE n \in OnSkipped
          <6>1. n \in Storage /\ n \notin Metas
            BY <2>4, <3>2, <3>9, <5>3 DEF NoCompSkipped, Instance, Undermined, Metas
          <6>2. n \in Passed("halt_storage")
            BY <2>4, <3>2, <3>9, <5>3, <6>1 DEF EarlyOn
          <6> QED
            BY <2>2, <6>2
        <5> QED
          BY <5>1, <5>2, <5>3
      <4>3. x \notin clustermgrUp
        BY <2>2, <3>2, <3>9
      <4>4. FoundOnes'
        BY <2>4, <2>5, <4>1, <4>2, <4>3 DEF Found
      <4> QED
        BY <1>3, UnderminedStays, <2>2, <2>3, <3>9, <4>1, <4>4 DEF CleanTracked
    <3>10. CASE o = "rm_data"
      <4>1. data' = data \ {x}
            /\ UNCHANGED <<running, nodemgrUp, clustermgrUp, nodemgrDir, clustermgrDir, program, listed>>
        BY <3>1, <3>10 DEF Cleans, files, procs
      <4>2. x \in Storage
        BY <3>2, <3>10, SkippedAre DEF NoCompSkipped, Instance
      <4>3. x \notin running \ Undermined
        BY <2>2, <3>2, <3>10, <4>2
      <4>4. FoundOnes'
        BY <2>4, <2>5, <4>1 DEF Found
      <4>5. Safe
        BY <4>1, <4>3
      <4> QED
        BY UnderminedStays, <2>2, <2>3, <3>10, <4>1, <4>4, <4>5 DEF CleanTracked
    <3>11. CASE o = "rm_meta"
      <4>1. program' = program \ {x} /\ listed' = listed \ {x} /\ data' = data \ {x}
            /\ UNCHANGED <<running, nodemgrUp, clustermgrUp, nodemgrDir, clustermgrDir>>
        BY <3>1, <3>11 DEF Cleans, procs
      <4>2. x \notin running \ Undermined
        BY <2>2, <3>2, <3>11
      <4>3. FoundOnes'
        BY <2>4, <2>5, <4>1, <4>2 DEF Found
      <4>4. Safe
        BY <4>1, <4>2
      <4> QED
        BY UnderminedStays, <2>2, <2>3, <3>11, <4>1, <4>3, <4>4 DEF CleanTracked
    <3>12. CASE o = "remove_metadata"
      <4>1. UNCHANGED <<data, running, nodemgrUp, clustermgrUp, nodemgrDir, clustermgrDir, program, listed>>
        BY <3>1, <3>12 DEF Cleans, files, procs
      <4>2. FoundOnes'
        BY <2>4, <2>5, <4>1 DEF Found
      <4> QED
        BY <1>3, UnderminedStays, <2>2, <2>3, <3>12, <4>1, <4>2 DEF CleanTracked
    <3> QED
      BY <3>1, <3>4, <3>5, <3>6, <3>7, <3>8, <3>9, <3>10, <3>11, <3>12 DEF Cleans
  <2> QED
    BY <1>5, <2>6, <2>7
<1>6. ASSUME Moves, action # "clean", InstallRuns \/ StartRuns \/ StopRuns PROVE CleanTracked' /\ Safe
  <2>1. data \subseteq data'
    BY <1>6
    DEF InstallRuns, InitNode, SetupNodemgr, SetupClustermgr, StartNodemgr, StartClustermgr,
        InstanceEnv, InstallInstance, CreateCluster, Bootstrap, AddMetadata,
        StartRuns, StartInstances, StartInstance, StopRuns, StopNodemgr, StopInstances,
        StopClustermgr, StopInstance
  <2> QED
    BY <1>2, <1>3, <1>6, <2>1 DEF Moves
<1>7. CASE Skips /\ action # "clean"
  BY <1>2, <1>3, <1>7 DEF Skips, Moves
<1>8. CASE Ends
  BY <1>2, <1>3, <1>8 DEF Ends
<1> DEFINE Fine == CleanTracked' /\ Safe
<1>9. \A a \in Scripts : Issue(a) => Fine
  BY <1>1
<1>10. (Rests => Fine) /\ (Ends => Fine)
  BY <1>4, <1>8
<1>11. Skips => Fine
  BY <1>5, <1>7 DEF Skips
<1>12. Moves /\ action = "clean" /\ CleanRuns => Fine
  BY <1>5
<1>13. Moves /\ action \in {"install", "start", "stop"} /\ (InstallRuns \/ StartRuns \/ StopRuns) => Fine
  BY <1>6
<1>14. Fine
  <2> HIDE DEF Fine
  <2> QED
    BY <1>9, <1>10, <1>11, <1>12, <1>13, ScriptSteps
<1> QED
  BY <1>14

\* With no computing node on a machine whose node manager is skipped, clean.sh takes no
\* data directory from under a server that it could find, but for an undermined meta node.
THEOREM ServersStopBeforeData ==
    ASSUME NoCompSkipped PROVE Spec => DataOutlivesServer
<1> DEFINE Safe == smooth' /\ base # "other" => \A n \in (data \ data') \ Undermined : n \notin running'
<1>1. Init => CleanTracked
  BY DEF Init, CleanTracked
<1>2. CleanTracked /\ Discipline /\ [Next]_vars => CleanTracked' /\ Safe
  BY CleanTrackedStep
<1>3. Safe => [Safe]_vars
  OBVIOUS
<1> QED
  BY <1>1, <1>2, <1>3, DisciplineHolds, PTL DEF Spec, DataOutlivesServer

-----------------------------------------------------------------------------
(* The scripts keep the promises of Lifecycle. *)

\* Where clean.sh ends, nothing is left of what it could find.
LEMMA CleanEnds ==
    ASSUME Discipline, NoCompSkipped, CleanTracked, AtEnd("clean"), base # "other"
    PROVE  data = {} /\ running \subseteq Undermined /\ nodemgrUp = Skip /\ clustermgrUp = {}
<1> USE DEF Discipline
<1>1. smooth /\ action = "clean" /\ ~Pending
  <2>1. Len(Commands("clean")) \in Nat /\ pc \in Nat
    BY ScriptsAre DEF TypeOK, Scripts
  <2>2. smooth /\ action = "clean" /\ pc > Len(Commands("clean"))
    BY DEF AtEnd
  <2> QED
    BY <2>1, <2>2 DEF Pending
<1>2. \A p, x : C(p, x) \in CleanSet => x \in Passed(p)
  BY <1>1, DidIs, PassedSteps DEF ScriptSet
<1>3. /\ OwnMachines \subseteq Passed("stop_nodemgr") /\ OwnMachines \subseteq Passed("clear_instances")
      /\ OwnMachines \subseteq Passed("rm_nodemgr")
      /\ ToSet(ClusterMgrs) \subseteq Passed("stop_clustermgr")
      /\ Storage \cap OnSkipped \subseteq Passed("halt_storage")
      /\ OnSkipped \ Metas \subseteq Passed("rm_data")
      /\ Metas \cap OnSkipped \subseteq Passed("rm_meta")
  <2>1. /\ \A x \in OwnMachines : C("stop_nodemgr", x) \in CleanSet /\ C("clear_instances", x) \in CleanSet
                                   /\ C("rm_nodemgr", x) \in CleanSet
        /\ \A x \in ToSet(ClusterMgrs) : C("stop_clustermgr", x) \in CleanSet
        /\ \A x \in Storage \cap OnSkipped : C("halt_storage", x) \in CleanSet
        /\ \A x \in OnSkipped \ Metas : C("rm_data", x) \in CleanSet
        /\ \A x \in Metas \cap OnSkipped : C("rm_meta", x) \in CleanSet
    BY CommandIs DEF CleanSet
  <2> QED
    BY <1>2, <2>1
<1>4. /\ \A n \in running \ Undermined : Host[n] \notin Passed("clear_instances")
                                            /\ n \notin Passed("halt_storage")
      /\ nodemgrUp \cap Passed("stop_nodemgr") = {}
      /\ clustermgrUp \cap Passed("stop_clustermgr") = {}
      /\ \A n \in data : Host[n] \notin Passed("rm_nodemgr") /\ n \notin Passed("rm_data")
                            /\ n \notin Passed("rm_meta")
  BY <1>1 DEF CleanTracked
<1>5. running \subseteq Instance /\ data \subseteq Instance
  BY DEF TypeOK
<1>6. \A n \in Instance : n \in OnSkipped => n \in Storage
  BY DEF NoCompSkipped, Instance
<1>7. running \subseteq Undermined
  BY <1>3, <1>4, <1>5, <1>6, Hosted
<1>8. data = {}
  BY <1>3, <1>4, <1>5, Hosted
<1> QED
  BY <1>3, <1>4, <1>7, <1>8 DEF FilesInPlace

\* What Lifecycle sees of the processes and of the data: all but the undermined.
Up == ProcessesUp \ Undermined
Here == data \ Undermined

\* The processes as one set, and the three that it is made of.
LEMMA ProcessesGrow ==
    /\ running \subseteq running' /\ nodemgrUp \subseteq nodemgrUp' /\ clustermgrUp \subseteq clustermgrUp'
         => Up \subseteq Up'
    /\ running' \subseteq running /\ nodemgrUp' \subseteq nodemgrUp /\ clustermgrUp' \subseteq clustermgrUp
         => Up' \subseteq Up
    /\ running' \subseteq running \cup OnSkipped /\ nodemgrUp' \subseteq nodemgrUp
           /\ clustermgrUp' \subseteq clustermgrUp
         => Up' \subseteq Up \cup (OnSkipped \ Undermined)
    /\ UNCHANGED <<running, nodemgrUp, clustermgrUp>> => Up' = Up
    /\ AllUp => Up = Processes \ Undermined
    /\ running \subseteq Undermined /\ nodemgrUp = Skip /\ clustermgrUp = {} => Up = {}
    /\ TypeOK /\ FilesInPlace => Up \subseteq Processes \ Undermined
<1>1. /\ running \subseteq running' /\ nodemgrUp \subseteq nodemgrUp' /\ clustermgrUp \subseteq clustermgrUp'
         => Up \subseteq Up'
  BY UnderminedStays DEF ProcessesUp, Up
<1>2. /\ running' \subseteq running /\ nodemgrUp' \subseteq nodemgrUp /\ clustermgrUp' \subseteq clustermgrUp
         => Up' \subseteq Up
  BY UnderminedStays DEF ProcessesUp, Up
<1>3. running' \subseteq running \cup OnSkipped /\ nodemgrUp' \subseteq nodemgrUp
          /\ clustermgrUp' \subseteq clustermgrUp
         => Up' \subseteq Up \cup (OnSkipped \ Undermined)
  <2> SUFFICES ASSUME running' \subseteq running \cup OnSkipped, nodemgrUp' \subseteq nodemgrUp,
                      clustermgrUp' \subseteq clustermgrUp, NEW x \in Up'
               PROVE  x \in Up \cup (OnSkipped \ Undermined)
    OBVIOUS
  <2>1. x \in ProcessesUp' /\ x \notin Undermined
    BY UnderminedStays DEF Up
  <2>2. CASE x \in running'
    BY <2>1, <2>2 DEF ProcessesUp, Up
  <2>3. CASE x \in {<<"node_mgr", m>> : m \in nodemgrUp' \ Skip}
    BY <2>1, <2>3 DEF ProcessesUp, Up
  <2>4. CASE x \in {<<"cluster_mgr", m>> : m \in clustermgrUp'}
    BY <2>1, <2>4 DEF ProcessesUp, Up
  <2> QED
    BY <2>1, <2>2, <2>3, <2>4 DEF ProcessesUp
<1>4. UNCHANGED <<running, nodemgrUp, clustermgrUp>> => Up' = Up
  BY UnderminedStays DEF ProcessesUp, Up
<1>5. AllUp => Up = Processes \ Undermined
  BY DEF AllUp, ProcessesUp, Processes, OwnMachines, Up
<1>6. running \subseteq Undermined /\ nodemgrUp = Skip /\ clustermgrUp = {} => Up = {}
  BY DEF ProcessesUp, Up
<1>7. TypeOK /\ FilesInPlace => Up \subseteq Processes \ Undermined
  BY DEF TypeOK, FilesInPlace, ProcessesUp, Processes, Up
<1> QED
  BY <1>1, <1>2, <1>3, <1>4, <1>5, <1>6, <1>7

\* The configuration that Lifecycle sees does not change.
LEMMA SameLife == Life!configuration' = Life!configuration /\ UNCHANGED (OnSkipped \ Undermined)
  BY UnderminedStays DEF Life!configuration

\* A command that does what its script may do is a step of work.
LEMMA Works ==
    ASSUME Discipline, Discipline', Moves,
           action = "install" => data \subseteq data' /\ Up \subseteq Up',
           action = "start" => data' = data /\ Up \subseteq Up',
           action = "stop" => data' = data /\ Up' \subseteq Up,
           action = "clean" => data' \subseteq data /\ Up' \subseteq Up
    PROVE  Life!Next
<1>1. Up' \subseteq Processes \ Undermined /\ Here' \subseteq Instance \ Undermined
  <2>1. (TypeOK /\ FilesInPlace)' => (Up \subseteq Processes \ Undermined)'
    BY ProcessesGrow, PTL
  <2> QED
    BY <2>1, UnderminedStays DEF Discipline, TypeOK, Here
<1>2. /\ action \in {"install", "start", "stop", "clean"} /\ action' = action /\ base' = base
      /\ smooth' \in {smooth, FALSE}
  BY DEF Moves, Pending, Discipline, TypeOK, Scripts
<1>3. /\ data \subseteq data' => Here \subseteq Here'
      /\ data' \subseteq data => Here' \subseteq Here
      /\ data' = data => Here' = Here
  BY UnderminedStays DEF Here
<1>4. Life!Work
  BY <1>1, <1>2, <1>3 DEF Life!Work, Up, Here
<1> QED
  BY <1>4, SameLife DEF Life!Next

\* What each script does to data and processes.
LEMMA StepsAreOneWay ==
    ASSUME TypeOK, InScript
    PROVE  /\ InstallRuns => data \subseteq data' /\ Up \subseteq Up'
           /\ StartRuns => data' = data /\ Up \subseteq Up'
           /\ StopRuns => data' = data /\ Up' \subseteq Up
           /\ Moves /\ action = "clean" /\ CleanRuns => data' \subseteq data /\ Up' \subseteq Up
<1>1. ASSUME InstallRuns PROVE data \subseteq data' /\ Up \subseteq Up'
  <2>1. data \subseteq data' /\ running \subseteq running' /\ nodemgrUp \subseteq nodemgrUp'
        /\ clustermgrUp \subseteq clustermgrUp'
    BY <1>1
    DEF InstallRuns, InitNode, SetupNodemgr, SetupClustermgr, StartNodemgr, StartClustermgr,
        InstanceEnv, InstallInstance, CreateCluster, Bootstrap, AddMetadata, procs
  <2> QED
    BY <2>1, ProcessesGrow
<1>2. ASSUME StartRuns PROVE data' = data /\ Up \subseteq Up'
  <2>1. data' = data /\ running \subseteq running' /\ nodemgrUp \subseteq nodemgrUp'
        /\ clustermgrUp \subseteq clustermgrUp'
    BY <1>2 DEF StartRuns, StartInstances, StartNodemgr, StartClustermgr, StartInstance
  <2> QED
    BY <2>1, ProcessesGrow
<1>3. ASSUME StopRuns PROVE data' = data /\ Up' \subseteq Up
  <2>1. data' = data /\ running' \subseteq running /\ nodemgrUp' \subseteq nodemgrUp
        /\ clustermgrUp' \subseteq clustermgrUp
    BY <1>3 DEF StopRuns, StopInstances, StopNodemgr, StopClustermgr, StopInstance
  <2> QED
    BY <2>1, ProcessesGrow
<1>4. ASSUME Moves, action = "clean", CleanRuns PROVE data' \subseteq data /\ Up' \subseteq Up
  <2>1. PICK o \in Op, x \in Thing : Current = C(o, x)
    BY <1>4, DidIs, CommandIs DEF Moves, Pending
  <2>2. Cleans(o, x)
    BY <1>4, <2>1, CleanRunsAre
  <2>3. data' \subseteq data /\ running' \subseteq running /\ nodemgrUp' \subseteq nodemgrUp
        /\ clustermgrUp' \subseteq clustermgrUp
    BY <2>2 DEF Cleans, procs
  <2> QED
    BY <2>3, ProcessesGrow
<1> QED
  BY <1>1, <1>2, <1>3, <1>4

\* Lifecycle begins where the scripts do.
LEMMA InitIsLife == Init => Life!Init
<1>1. Init => Up = {} /\ Here = {}
  BY ProcessesGrow DEF Init, Here
<1> QED
  BY <1>1 DEF Init, Life!Init, Up, Here

\* A script begins from what its base says of the machines.
LEMMA IssueBegins ==
    ASSUME Discipline, Discipline', NEW a \in Scripts, Issue(a)
    PROVE  Life!Next
<1>1. /\ action = "none" /\ action' = a /\ smooth' = TRUE
      /\ UNCHANGED <<data, running, nodemgrUp, clustermgrUp>>
  BY DEF Issue, procs
<1>2. base' \in Life!Bases
  BY DEF Discipline, TypeOK, Life!Bases
<1>3. base' = "pristine" => Here = {} /\ Up = {}
  BY BasesAre, ProcessesGrow DEF Pristine, Here
<1>4. base' = "installed" => Here = Instance \ Undermined
  BY BasesAre DEF Complete, Here
<1>5. Up' = Up /\ Here' = Here
  BY <1>1, ProcessesGrow, UnderminedStays DEF Here
<1>6. Life!Begin(a)
  BY <1>1, <1>2, <1>3, <1>4, <1>5 DEF Life!Begin, Up, Here
<1> QED
  BY <1>6, SameLife DEF Life!Next, Life!Scripts, Scripts

\* A script that ends, at its last command or before.
LEMMA EndsAreLife ==
    ASSUME Discipline, Discipline', ScriptsComplete, CommandsCanRun, CleanTracked, NoCompSkipped, Ends
    PROVE  Life!Next
<1>1. /\ action # "none" /\ action' = "none" /\ UNCHANGED <<base, Up>>
      /\ Here \subseteq Here' /\ Here' \subseteq Instance \ Undermined
      /\ data' = data => Here' = Here
  BY ProcessesGrow, UnderminedStays DEF Ends, procs, Discipline, TypeOK, Here
<1>2. action \in {"install", "start", "stop", "clean"} /\ smooth \in BOOLEAN
  BY <1>1 DEF Discipline, TypeOK, Scripts
<1>3. CASE UNCHANGED <<data, smooth>> /\ pc > Len(Commands(action))
  <2>1. smooth /\ base \in Life!MadeFor(action) => Life!Outcome(action)
    <3> SUFFICES ASSUME smooth, base \in Life!MadeFor(action) PROVE Life!Outcome(action)
      OBVIOUS
    <3>1. AtEnd(action)
      BY <1>3 DEF AtEnd
    <3>2. CASE action = "install" \/ action = "start"
      <4>1. Complete /\ AllUp
        BY <3>1, <3>2 DEF ScriptsComplete, Life!MadeFor
      <4> QED
        BY <3>2, <4>1, ProcessesGrow DEF Life!Outcome, Complete, Up, Here
    <3>3. CASE action = "stop"
      <4>1. Complete /\ AllDown
        BY <3>1, <3>3 DEF ScriptsComplete, Life!MadeFor
      <4> QED
        BY <3>3, <4>1, ProcessesGrow DEF Life!Outcome, Complete, AllDown, Up, Here
    <3>4. CASE action = "clean"
      <4>1. data = {} /\ Up = {}
        BY <3>1, <3>4, CleanEnds, ProcessesGrow DEF Life!MadeFor
      <4> QED
        BY <3>4, <4>1 DEF Life!Outcome, Up, Here
    <3> QED
      BY <1>2, <3>2, <3>3, <3>4
  <2> HIDE DEF Life!Outcome, Life!MadeFor
  <2>2. Life!Finish
    BY <1>1, <1>3, <2>1 DEF Life!Finish, Up, Here
  <2> QED
    BY <2>2, SameLife DEF Life!Next
<1>4. CASE smooth' = FALSE
  <2>1. Life!Abort
    BY <1>1, <1>4 DEF Life!Abort, Up, Here
  <2> QED
    BY <2>1, SameLife DEF Life!Next
<1>5. CASE UNCHANGED <<data, smooth>> /\ Pending /\ action \in AbortsOnError /\ ~CanRun(Current)
  <2>1. smooth' => base \notin Life!MadeFor(action)
    BY <1>5 DEF CommandsCanRun, AbortsOnError, Life!MadeFor
  <2>2. Life!Abort
    BY <1>1, <1>5, <2>1 DEF Life!Abort, Up, Here
  <2> QED
    BY <2>2, SameLife DEF Life!Next
<1> QED
  BY <1>3, <1>4, <1>5 DEF Ends

\* Each step of the scripts is a step of the abstract ones or none.
LEMMA StepIsLife ==
    ASSUME Discipline, Discipline', ScriptsComplete, CommandsCanRun, CleanTracked, NoCompSkipped, [Next]_vars
    PROVE  [Life!Next]_(Life!vars)
<1>0. TypeOK /\ InScript
  BY DEF Discipline
<1>1. ASSUME NEW a \in Scripts, Issue(a) PROVE Life!Next
  BY <1>1, IssueBegins
<1>2. CASE Skips
  <2>1. UNCHANGED <<data, Up>>
    BY <1>2, ProcessesGrow DEF Skips, procs
  <2> QED
    BY <1>2, <2>1, Works DEF Skips
<1>3. CASE Ends
  BY <1>3, EndsAreLife
<1>4. CASE Rests
  <2>1. UNCHANGED <<action, base, Here>> /\ Up' \subseteq Up \cup (OnSkipped \ Undermined)
        /\ (smooth' => smooth /\ UNCHANGED Up)
    BY <1>4, ProcessesGrow, UnderminedStays DEF Rests, procs, Here
  <2>2. smooth \in BOOLEAN /\ smooth' \in BOOLEAN
    BY DEF Discipline, TypeOK
  <2>3. CASE smooth' = FALSE
    BY <2>1, <2>3, SameLife DEF Life!Next, Life!Crash, Up, Here
  <2>4. CASE smooth' = TRUE
    BY <2>1, <2>2, <2>4, SameLife DEF Life!vars, Up, Here
  <2> QED
    BY <2>2, <2>3, <2>4
<1>5. CASE Moves /\ \/ action = "install" /\ InstallRuns
                    \/ action = "start" /\ StartRuns
                    \/ action = "stop" /\ StopRuns
                    \/ action = "clean" /\ CleanRuns
  BY <1>0, <1>5, StepsAreOneWay, Works
<1> QED
  BY <1>0, <1>1, <1>2, <1>3, <1>4, <1>5, ScriptSteps

\* With no computing node on a machine whose node manager is skipped, the four scripts
\* keep the promises of Lifecycle, undermined meta nodes left out, whatever fails, is
\* interrupted, crashes or is revived.
THEOREM ScriptsKeepPromises == ASSUME NoCompSkipped PROVE Spec => KeepsPromises
<1>1. Init => Life!Init /\ CleanTracked
  BY InitIsLife DEF Init, CleanTracked
<1>2. CleanTracked /\ Discipline /\ [Next]_vars => CleanTracked'
  BY CleanTrackedStep
<1>3. /\ Discipline /\ Discipline' /\ ScriptsComplete /\ CommandsCanRun /\ CleanTracked /\ [Next]_vars
      => [Life!Next]_(Life!vars)
  BY StepIsLife
<1>4. Spec => []ScriptsComplete /\ []CommandsCanRun
  BY ScriptsDoTheirWork, CommandsFindWhatTheyNeed, PTL
<1> QED
  BY <1>1, <1>2, <1>3, <1>4, DisciplineHolds, PTL DEF Spec, KeepsPromises, Life!Spec
=============================================================================
