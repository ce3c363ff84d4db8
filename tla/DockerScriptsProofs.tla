------------------------- MODULE DockerScriptsProofs -------------------------
(***************************************************************************)
(* Theorems about DockerScripts, for every configuration: its type         *)
(* invariant, what install.sh and clean.sh come to, when a replica gets    *)
(* its container, and that the scripts implement Lifecycle.                *)
(*                                                                         *)
(* The argument goes by the commands of a script.  Needs(a)[c] is what has *)
(* to come before command c in script a, and that it does is proved of the *)
(* lists the generators write (InOrder).  The inductive invariant, Course, *)
(* says of the commands that a script has passed what is true on the       *)
(* machines; every step is one of six kinds (ScriptSteps), and each keeps  *)
(* that.                                                                   *)
(***************************************************************************)
EXTENDS DockerScripts, Inductions

\* The variables hold values of their types in every reachable state.
THEOREM DockerTyping == Spec => []TypeOK
<1>1. Init => TypeOK
  <2> SUFFICES ASSUME Init PROVE TypeOK
    OBVIOUS
  <2>1. smooth \in BOOLEAN /\ copied \in BOOLEAN /\ inited \in BOOLEAN
    BY Zenon DEF Init
  <2>2. pc \in Nat \ {0} /\ faults \in 0..MaxFaults /\ runs \in 0..MaxScripts
    BY DockerAssumption DEF Init
  <2> QED
    BY <2>1, <2>2 DEF Init, TypeOK
<1>2. TypeOK /\ [Next]_vars => TypeOK'
  <2> SUFFICES ASSUME TypeOK, [Next]_vars PROVE TypeOK'
    OBVIOUS
  <2> USE DockerAssumption DEF TypeOK
  <2>1. ASSUME NEW c \in Container, OnContainer(c) PROVE TypeOK'
    <3>1. CASE RunContainer(c)
      <4>1. Host[c] \in prepared
        BY <3>1, Zenon DEF RunContainer, In, CanRun
      <4> QED
        BY <3>1, <4>1 DEF RunContainer, GoOn, rest
    <3>2. CASE StartContainer(c)
      <4>1. c \in exists
        BY <3>2 DEF StartContainer, In, CanRun
      <4> QED
        BY <3>2, <4>1 DEF StartContainer, GoOn, rest
    <3>3. CASE StopContainer(c)
      BY <3>3 DEF StopContainer, GoOn, rest
    <3>4. CASE WaitFor(c)
      BY <3>4 DEF WaitFor, GoOn, docker, rest
    <3>5. CASE RemoveContainer(c)
      <4>1. copied' \in BOOLEAN /\ inited' \in BOOLEAN /\ smooth' \in BOOLEAN
        BY <3>5, Zenon DEF RemoveContainer, GoOn
      <4> QED
        BY <3>5, <4>1 DEF RemoveContainer, GoOn
    <3>6. CASE RemoveDirs(c)
      <4>1. copied' \in BOOLEAN /\ inited' \in BOOLEAN /\ smooth' \in BOOLEAN
        BY <3>6, Zenon DEF RemoveDirs, GoOn
      <4> QED
        BY <3>6, <4>1 DEF RemoveDirs, GoOn
    <3>7. CASE CopyConfig(c)
      BY <3>7 DEF CopyConfig, GoOn, docker
    <3>8. CASE InitSystem(c)
      BY <3>8 DEF InitSystem, GoOn, docker
    <3> QED
      BY <2>1, <3>1, <3>2, <3>3, <3>4, <3>5, <3>6, <3>7, <3>8 DEF OnContainer
  <2>2. ASSUME NEW m \in Machine, OnMachine(m) PROVE TypeOK'
    <3>1. CASE Prepare(m)
      BY <3>1 DEF Prepare, GoOn, rest
    <3>2. CASE RemoveImages(m)
      BY <3>2 DEF RemoveImages, GoOn, rest
    <3> QED
      BY <2>2, <3>1, <3>2 DEF OnMachine
  <2>12. ASSUME NEW m \in layout.proxy, OnProxy(m) PROVE TypeOK'
    <3>1. CASE StartProxy(m)
      <4>1. m \in prepared
        BY <3>1 DEF StartProxy, In, CanRun
      <4> QED
        BY <3>1, <4>1 DEF StartProxy, GoOn, docker
    <3>2. CASE StopProxy(m)
      BY <3>2 DEF StopProxy, GoOn, docker
    <3> QED
      BY <2>12, <3>1, <3>2 DEF OnProxy
  <2>3. CASE CommandFails
    BY <2>3 DEF CommandFails, GoOn, docker, rest
  <2>4. CASE Finish
    BY <2>4 DEF Finish, docker, rest
  <2>5. CASE CommandFaults
    <3>1. faults' \in 0..MaxFaults /\ pc' \in Nat \ {0}
      BY <2>5 DEF CommandFaults
    <3>2. smooth' \in BOOLEAN /\ copied' \in BOOLEAN /\ inited' \in BOOLEAN
      BY <2>5, Zenon DEF CommandFaults, rest
    <3> QED
      BY <2>5, <3>1, <3>2 DEF CommandFaults, docker, rest
  <2>6. CASE Interrupt
    <3>1. faults' \in 0..MaxFaults /\ pc' \in Nat \ {0}
      BY <2>6 DEF Interrupt
    <3>2. smooth' \in BOOLEAN /\ copied' \in BOOLEAN /\ inited' \in BOOLEAN
      BY <2>6, Zenon DEF Interrupt, rest
    <3> QED
      BY <2>6, <3>1, <3>2 DEF Interrupt, docker, rest
  <2>7. ASSUME NEW m \in Machine, Crash(m) PROVE TypeOK'
    <3>1. faults' \in 0..MaxFaults /\ pc' \in Nat \ {0}
      BY <2>7 DEF Crash
    <3>2. smooth' \in BOOLEAN /\ copied' \in BOOLEAN /\ inited' \in BOOLEAN
      BY <2>7, Zenon DEF Crash
    <3> QED
      BY <2>7, <3>1, <3>2 DEF Crash
  <2>8. ASSUME NEW c \in Container, Boot(c) PROVE TypeOK'
    BY <2>8 DEF Boot, script, rest
  <2>9. ASSUME NEW a \in Scripts, Issue(a) PROVE TypeOK'
    BY <2>9 DEF Issue, docker, rest
  <2>10. ASSUME NEW a \in Scripts, Refuse(a) PROVE TypeOK'
    BY <2>10 DEF Refuse, docker, rest
  <2>11. CASE UNCHANGED vars
    BY <2>11 DEF vars, script, docker, rest
  <2> QED
    BY <2>1, <2>2, <2>3, <2>4, <2>5, <2>6, <2>7, <2>8, <2>9, <2>10, <2>11, <2>12
    DEF Next, Run, Faults
<1> QED
  BY <1>1, <1>2, PTL DEF Spec

-----------------------------------------------------------------------------
(* The commands of the scripts.                                            *)

\* What commands are run on.
Thing == Machine \cup Container
Op == {"prepare", "run", "wait", "copy", "init", "start", "stop", "start_proxy", "stop_proxy",
       "rm", "rm_dirs", "rm_images"}
Command == [op : Op, on : Thing]

\* Commands are equal only when both their parts are.
LEMMA CommandIs ==
    /\ \A op, x : C(op, x).op = op /\ C(op, x).on = x
    /\ \A op, x, o, y : C(op, x) = C(o, y) <=> op = o /\ x = y
    /\ \A op, x, o, S : C(op, x) \in All(o, S) <=> op = o /\ x \in S
    /\ \A op \in Op, x \in Thing : C(op, x) \in Command
    /\ \A c \in Command : c = C(c.op, c.on) /\ c.op \in Op /\ c.on \in Thing
    /\ \A op, s : First(op, s) = C(op, s[1])
<1>1. \A op \in Op, x \in Thing : C(op, x) \in Command
  BY DEF C, Command
<1>2. \A c \in Command : c = C(c.op, c.on) /\ c.op \in Op /\ c.on \in Thing
  BY DEF C, Command
<1>3. \A op, s : First(op, s) = C(op, s[1])
  BY DEF First, C
<1> QED
  BY <1>1, <1>2, <1>3, CommandParts

-----------------------------------------------------------------------------
(* The configuration.                                                      *)

LEMMA FieldsAre ==
    ASSUME TypeOK
    PROVE  /\ layout.meta \in Seq(Storage) /\ layout.shards \in Seq(Seq(Storage))
           /\ layout.comps \in Seq(Comp) /\ layout.listed \subseteq Machine
           /\ layout.proxy \subseteq Machine /\ layout.mounted \subseteq Node
           /\ layout.primary \subseteq Storage
<1>1. layout \in LayoutType
  BY DockerAssumption DEF TypeOK
<1> QED
  BY <1>1 DEF LayoutType

\* The lists of the configuration.
LEMMA ListsAre ==
    ASSUME TypeOK
    PROVE  /\ Groups \in Seq(Seq(Storage)) /\ StorageNodes \in Seq(Storage) /\ Nodes \in Seq(Node)
           /\ ToSet(Groups) = {layout.meta} \cup ToSet(layout.shards)
           /\ ToSet(StorageNodes) = UNION {ToSet(s) : s \in ToSet(Groups)}
           /\ ToSet(Nodes) = ToSet(StorageNodes) \cup ToSet(layout.comps)
           /\ Proxy \in Seq(layout.proxy) /\ ToSet(Proxy) = layout.proxy
<1>1. \A S : \A a, b \in Seq(S) : a \o b \in Seq(S) /\ ToSet(a \o b) = ToSet(a) \cup ToSet(b)
  BY ElementsOfConcat
<1>2. \A S, T : S \subseteq T => Seq(S) \subseteq Seq(T)
  OBVIOUS
<1>3. Groups \in Seq(Seq(Storage)) /\ ToSet(Groups) = {layout.meta} \cup ToSet(layout.shards)
  <2> DEFINE g == <<layout.meta>>
  <2>1. g \in Seq(Seq(Storage)) /\ DOMAIN g = {1} /\ g[1] = layout.meta
    BY FieldsAre
  <2>2. Groups = g \o layout.shards
    BY DEF Groups
  <2> HIDE DEF g
  <2>3. ToSet(g) = {layout.meta}
    BY <2>1 DEF ToSet
  <2>4. g \o layout.shards \in Seq(Seq(Storage)) /\ ToSet(g \o layout.shards) = ToSet(g) \cup ToSet(layout.shards)
    BY <1>1, <2>1, FieldsAre
  <2> QED
    BY <2>2, <2>3, <2>4
<1>4. StorageNodes \in Seq(Storage) /\ ToSet(StorageNodes) = UNION {ToSet(s) : s \in ToSet(Groups)}
  <2> DEFINE ss == Groups
  <2>1. ss \in Seq(Seq(Storage))
    BY <1>3
  <2> HIDE DEF ss
  <2>2. /\ Len(ss) \in Nat /\ DOMAIN ss = 1..Len(ss) /\ (Len(ss) = 0 => ss = <<>>)
        /\ \A i \in 1..Len(ss) : ss[i] \in Seq(Storage)
    BY <2>1
  <2>3. /\ FlattenSeq(ss) \in Seq(Storage)
        /\ ToSet(FlattenSeq(ss)) = UNION {ToSet(ss[i]) : i \in 1..Len(ss)}
    BY <2>2, ElementsOfFlat
  <2>4. ToSet(ss) = {ss[i] : i \in 1..Len(ss)}
    BY <2>2 DEF ToSet
  <2>5. UNION {ToSet(ss[i]) : i \in 1..Len(ss)} = UNION {ToSet(s) : s \in ToSet(ss)}
    BY <2>4
  <2> QED
    BY <2>3, <2>5 DEF ss, StorageNodes
<1>5. Nodes \in Seq(Node) /\ ToSet(Nodes) = ToSet(StorageNodes) \cup ToSet(layout.comps)
  <2>1. Storage \subseteq Node /\ Comp \subseteq Node
    BY DEF Node
  <2>2. StorageNodes \in Seq(Node) /\ layout.comps \in Seq(Node)
    BY <2>1, <1>2, <1>4, FieldsAre
  <2> QED
    BY <2>2, <1>1 DEF Nodes
<1>6. Proxy \in Seq(layout.proxy) /\ ToSet(Proxy) = layout.proxy
  <2>1. IsFiniteSet(layout.proxy)
    BY FieldsAre, DockerAssumption, FS_Subset
  <2> QED
    BY <2>1, ListOfSet DEF Proxy
<1> QED
  BY <1>3, <1>4, <1>5, <1>6

\* What the configuration says of nodes, containers and their machines.
LEMMA Configured ==
    ASSUME TypeOK
    PROVE  /\ ToSet(StorageNodes) \subseteq Storage /\ ToSet(layout.comps) \subseteq Comp
           /\ ToSet(Nodes) \subseteq Node /\ Used \subseteq Container
           /\ ToSet(Nodes) = Used \cap Node /\ ToSet(StorageNodes) = Used \cap Storage
           /\ Used = (ToSet(StorageNodes) \cup ToSet(layout.comps)) \cup {Manager}
           /\ \A a : KnownHosts(a) \subseteq Machine /\ layout.proxy \subseteq KnownHosts(a)
           /\ \A n \in Used : Host[n] \in KnownHosts("install")
           /\ Used \subseteq Thing /\ Machine \subseteq Thing
           /\ layout.comps # <<>> => /\ layout.comps[1] \in ToSet(Nodes) /\ layout.comps[1] \in Thing
                                     /\ layout.comps[1] \in Used
<1>1. \A S : \A s \in Seq(S) : ToSet(s) \subseteq S
  BY DEF ToSet
<1>2. /\ ToSet(StorageNodes) \subseteq Storage /\ ToSet(layout.comps) \subseteq Comp
      /\ ToSet(Nodes) = ToSet(StorageNodes) \cup ToSet(layout.comps)
  BY <1>1, FieldsAre, ListsAre
<1>3. /\ Used \subseteq Container /\ ToSet(Nodes) \subseteq Node
      /\ ToSet(Nodes) = Used \cap Node /\ ToSet(StorageNodes) = Used \cap Storage
  BY <1>2, DockerAssumption DEF Used, Container, Node
<1>4. Used = (ToSet(StorageNodes) \cup ToSet(layout.comps)) \cup {Manager}
  BY <1>2 DEF Used
<1>5. \A n \in Used : Host[n] \in Machine
  BY <1>3, DockerAssumption
<1>6. ASSUME NEW a PROVE KnownHosts(a) \subseteq Machine /\ layout.proxy \subseteq KnownHosts(a)
  BY <1>4, <1>5, FieldsAre DEF KnownHosts, HostsOf
<1>7. \A n \in Used : Host[n] \in KnownHosts("install")
  BY <1>4 DEF KnownHosts, HostsOf
<1>8. ASSUME layout.comps # <<>> PROVE layout.comps[1] \in ToSet(Nodes)
  <2>1. 1 \in DOMAIN layout.comps
    BY <1>8, FieldsAre
  <2> QED
    BY <2>1, <1>2 DEF ToSet
<1> QED
  BY <1>2, <1>3, <1>4, <1>6, <1>7, <1>8 DEF Thing, Used

\* The machines, as a list.
LEMMA HostsListed ==
    ASSUME TypeOK, NEW a
    PROVE  /\ SetToSeq(KnownHosts(a)) \in Seq(KnownHosts(a))
           /\ ToSet(SetToSeq(KnownHosts(a))) = KnownHosts(a) /\ KnownHosts(a) \subseteq Thing
<1>1. KnownHosts(a) \subseteq Machine
  BY Configured
<1>2. IsFiniteSet(KnownHosts(a))
  BY <1>1, DockerAssumption, FS_Subset
<1> QED
  BY <1>1, <1>2, ListOfSet DEF Thing

\* The primary of a replica in a valid configuration.
LEMMA PrimaryIs ==
    ASSUME TypeOK, ValidConfig, NEW n \in ToSet(StorageNodes), IsReplica(n)
    PROVE  PrimaryOf(n) \in Primaries
<1>1. \E s \in ToSet(Groups) : n \in ToSet(s)
  BY ListsAre
<1>2. ShardOf(n) \in ToSet(Groups) /\ n \in ToSet(ShardOf(n))
  BY <1>1 DEF ShardOf
<1> DEFINE s == ShardOf(n)
<1>3. s \in Seq(Storage) /\ Len(s) \in Nat /\ (Len(s) = 0 => s = <<>>)
  <2>1. s \in Seq(Storage)
    BY <1>2, ListsAre, FieldsAre DEF ToSet
  <2> QED
    BY <2>1
<1>4. \E mode : ValidShard(s, mode)
  <2>1. s = layout.meta \/ \E i \in DOMAIN layout.shards : s = layout.shards[i]
    <3>1. s = layout.meta \/ s \in ToSet(layout.shards)
      BY <1>2, ListsAre
    <3> QED
      BY <3>1 DEF ToSet
  <2> QED
    BY <2>1 DEF ValidConfig
<1>5. Len(s) # 1
  BY DEF IsReplica, IsPrimary
<1>6. ToSet(s) \cap layout.primary # {}
  <2>1. s # <<>>
    BY <1>4 DEF ValidShard
  <2>2. Len(s) > 1
    <3> DEFINE l == Len(s)
    <3>1. l \in Nat /\ l # 1 /\ l # 0
      BY <2>1, <1>3, <1>5
    <3> HIDE DEF l
    <3>2. l > 1
      BY <3>1
    <3> QED
      BY <3>2 DEF l
  <2> QED
    BY <1>4, <2>2 DEF ValidShard
<1>7. \E p \in ToSet(ShardOf(n)) : IsPrimary(p)
  BY <1>6 DEF IsPrimary
<1>8. PrimaryOf(n) \in ToSet(ShardOf(n)) /\ IsPrimary(PrimaryOf(n))
  BY <1>7 DEF PrimaryOf
<1>9. PrimaryOf(n) \in ToSet(StorageNodes)
  BY <1>2, <1>8, ListsAre
<1> QED
  BY <1>8, <1>9 DEF Primaries

-----------------------------------------------------------------------------
(* Each command of a script comes after those it needs.                    *)

NeedsInInstall(op, x) ==
    CASE op = "run"         -> All("prepare", {Host[x]})
                                 \cup (IF x \in ToSet(StorageNodes) \ RunFirst
                                         THEN All("wait", Primaries) ELSE {})
      [] op \in {"wait", "copy"} -> All("run", {x})
      [] op = "init"        -> All("wait", ToSet(Nodes)) \cup All("copy", {x})
      [] op = "start_proxy" -> All("prepare", {x})
      [] OTHER              -> {}
NeedsInUse(op, x) == IF op = "rm_dirs" THEN All("rm", {x}) ELSE {}
Needs(a) == [c \in Command |-> IF a = "install" THEN NeedsInInstall(c.op, c.on) ELSE NeedsInUse(c.op, c.on)]
InOrder(a, s, D, E) == Adds(s, D, E, Needs(a), {})

LEMMA NeedsAre ==
    /\ \A a : DOMAIN Needs(a) = Command
    /\ \A op \in Op, x \in Thing : C(op, x) \in Command
    /\ \A a : \A op \in Op, x \in Thing :
          Needs(a)[C(op, x)] = IF a = "install" THEN NeedsInInstall(op, x) ELSE NeedsInUse(op, x)
  BY CommandIs DEF Needs

LEMMA BothInOrder ==
    ASSUME NEW a, NEW D, NEW E, NEW F, NEW s, NEW t, InOrder(a, s, D, E), InOrder(a, t, D \cup E, F)
    PROVE  InOrder(a, s \o t, D, E \cup F)
  BY AddsBoth DEF InOrder

\* The same command for each of a list.
LEMMA SameInOrder ==
    ASSUME NEW a, NEW D, NEW op \in Op, NEW S, NEW s \in Seq(S), ToSet(s) \subseteq Thing,
           \A x \in ToSet(s) : (IF a = "install" THEN NeedsInInstall(op, x) ELSE NeedsInUse(op, x)) \subseteq D
    PROVE  InOrder(a, Cmds(op, s), D, All(op, ToSet(s)))
<1>1. Cmds(op, s) = [i \in DOMAIN s |-> C(op, s[i])]
  BY DEF Cmds, C
<1>2. \A x \in ToSet(s) : C(op, x) \in DOMAIN Needs(a) /\ InPlace(C(op, x), D, Needs(a), {})
  BY NeedsAre DEF InPlace
<1> QED
  BY <1>1, <1>2, AddsSame DEF InOrder

\* One command.
LEMMA OneInOrder ==
    ASSUME NEW a, NEW D, NEW op \in Op, NEW x \in Thing,
           (IF a = "install" THEN NeedsInInstall(op, x) ELSE NeedsInUse(op, x)) \subseteq D
    PROVE  InOrder(a, <<C(op, x)>>, D, All(op, {x}))
<1>1. C(op, x) \in DOMAIN Needs(a) /\ Needs(a)[C(op, x)] \subseteq D
  BY NeedsAre
<1>2. All(op, {x}) = {C(op, x)}
  BY AllIs
<1> QED
  BY <1>1, <1>2, AddsOne DEF InOrder

\* Commands without needs.
LEMMA FreeInOrder ==
    ASSUME NEW a, a # "install", NEW D, NEW op \in Op \ {"rm_dirs"},
           NEW S, NEW s \in Seq(S), ToSet(s) \subseteq Thing
    PROVE  InOrder(a, Cmds(op, s), D, All(op, ToSet(s)))
<1>1. op \in Op /\ \A x \in ToSet(s) : NeedsInUse(op, x) \subseteq D
  BY DEF NeedsInUse
<1> QED
  BY <1>1, SameInOrder

InstallSet ==
    ((((All("prepare", KnownHosts("install")) \cup All("run", Used)) \cup All("wait", ToSet(Nodes)))
       \cup All("copy", {layout.comps[1]})) \cup All("init", {layout.comps[1]}))
       \cup All("start_proxy", layout.proxy)
StartSet ==
    (All("start", Used) \cup All("wait", ToSet(Nodes))) \cup All("start_proxy", layout.proxy)
StopSet == All("stop_proxy", layout.proxy) \cup All("stop", Used)
CleanSet ==
    ((All("stop_proxy", layout.proxy) \cup All("rm", Used)) \cup All("rm_dirs", ToSet(Nodes) \cap layout.mounted))
      \cup All("rm_images", KnownHosts("clean"))

\* The containers of storage nodes: those that come later, after the primaries answer.
LEMMA RunStorageInOrder ==
    ASSUME TypeOK, NEW D, All("prepare", KnownHosts("install")) \subseteq D
    PROVE  InOrder("install", RunStorage, D, All("run", ToSet(StorageNodes)) \cup All("wait", ToSet(StorageNodes)))
<1> DEFINE a == Those(StorageNodes, RunFirst)
           b == Those(StorageNodes, Primaries)
           c == Those(StorageNodes, Storage \ RunFirst)
           d == Those(StorageNodes, Storage \ Primaries)
           N == ToSet(StorageNodes)
           A == All("run", ToSet(a))
           B == All("wait", ToSet(b))
           E == All("run", ToSet(c))
           F == All("wait", ToSet(d))
<1>1. RunStorage = ((Cmds("run", a) \o Cmds("wait", b)) \o Cmds("run", c)) \o Cmds("wait", d)
  BY DEF RunStorage
<1>2. /\ StorageNodes \in Seq(Storage) /\ N \subseteq Storage /\ N \subseteq Used /\ N \subseteq Thing
      /\ Primaries \subseteq N /\ Primaries \subseteq RunFirst /\ RunFirst \subseteq N
      /\ \A x \in N : All("prepare", {Host[x]}) \subseteq D
  <2>1. \A x \in N : Host[x] \in KnownHosts("install")
    BY Configured
  <2> QED
    BY <2>1, ListsAre, Configured, AllIs DEF Primaries, RunFirst
<1>3. /\ a \in Seq(Storage \cap RunFirst) /\ ToSet(a) = N \cap RunFirst
      /\ b \in Seq(Storage \cap Primaries) /\ ToSet(b) = N \cap Primaries
      /\ c \in Seq(Storage \cap (Storage \ RunFirst)) /\ ToSet(c) = N \cap (Storage \ RunFirst)
      /\ d \in Seq(Storage \cap (Storage \ Primaries)) /\ ToSet(d) = N \cap (Storage \ Primaries)
  BY <1>2, ThoseAre
<1> HIDE DEF a, b, c, d
<1>4. /\ ToSet(a) \subseteq Thing /\ ToSet(b) \subseteq Thing /\ ToSet(c) \subseteq Thing /\ ToSet(d) \subseteq Thing
      /\ ToSet(b) = Primaries /\ ToSet(b) \subseteq ToSet(a) /\ ToSet(d) \subseteq ToSet(a) \cup ToSet(c)
      /\ ToSet(a) \cup ToSet(c) = N /\ ToSet(b) \cup ToSet(d) = N
  BY <1>2, <1>3
<1>5. "run" \in Op /\ "wait" \in Op
  BY DEF Op
<1>6. \A x : /\ NeedsInInstall("wait", x) = All("run", {x})
             /\ x \notin N \ RunFirst => NeedsInInstall("run", x) = All("prepare", {Host[x]})
             /\ x \in N \ RunFirst => NeedsInInstall("run", x) = All("prepare", {Host[x]}) \cup All("wait", Primaries)
  BY DEF NeedsInInstall
<1>7. InOrder("install", Cmds("run", a), D, A)
  <2>1. \A x \in ToSet(a) : NeedsInInstall("run", x) \subseteq D
    BY <1>2, <1>3, <1>6
  <2> QED
    BY <2>1, <1>3, <1>4, <1>5, SameInOrder
<1>8. InOrder("install", Cmds("wait", b), D \cup A, B)
  <2>1. \A x \in ToSet(b) : All("run", {x}) \subseteq A
    BY <1>4 DEF All
  <2>2. \A x \in ToSet(b) : NeedsInInstall("wait", x) \subseteq D \cup A
    BY <2>1, <1>6
  <2> QED
    BY <2>2, <1>3, <1>4, <1>5, SameInOrder
<1>9. InOrder("install", Cmds("run", c), D \cup (A \cup B), E)
  <2>1. \A x \in ToSet(c) : NeedsInInstall("run", x) \subseteq D \cup (A \cup B)
    <3>1. B = All("wait", Primaries)
      BY <1>4
    <3>2. \A x \in ToSet(c) : x \in N \ RunFirst
      BY <1>3
    <3>3. \A x \in ToSet(c) : All("prepare", {Host[x]}) \subseteq D
      BY <3>2, <1>2
    <3>4. \A x \in ToSet(c) : NeedsInInstall("run", x) = All("prepare", {Host[x]}) \cup B
      BY <3>1, <3>2, <1>6
    <3> HIDE DEF N, A, B
    <3> QED
      BY <3>3, <3>4
  <2> QED
    BY <2>1, <1>3, <1>4, <1>5, SameInOrder
<1>10. InOrder("install", Cmds("wait", d), D \cup ((A \cup B) \cup E), F)
  <2>1. \A x \in ToSet(d) : NeedsInInstall("wait", x) \subseteq D \cup ((A \cup B) \cup E)
    <3>1. \A x \in ToSet(d) : x \in ToSet(a) \/ x \in ToSet(c)
      BY <1>4
    <3>2. \A x : x \in ToSet(a) => All("run", {x}) \subseteq A
      BY DEF All
    <3>3. \A x : x \in ToSet(c) => All("run", {x}) \subseteq E
      BY DEF All
    <3>4. \A x \in ToSet(d) : All("run", {x}) \subseteq A \/ All("run", {x}) \subseteq E
      BY <3>1, <3>2, <3>3
    <3> HIDE DEF A, B, E
    <3> QED
      BY <3>4, <1>6
  <2> QED
    BY <2>1, <1>3, <1>4, <1>5, SameInOrder
<1>11. ((A \cup B) \cup E) \cup F = All("run", N) \cup All("wait", N)
  <2>1. A \cup E = All("run", N) /\ B \cup F = All("wait", N)
    BY <1>4, AllIs
  <2> HIDE DEF A, B, E, F, N
  <2> QED
    BY <2>1
<1> DEFINE ca == Cmds("run", a)
           cb == Cmds("wait", b)
           cc == Cmds("run", c)
           cd == Cmds("wait", d)
<1> HIDE DEF A, B, E, F, ca, cb, cc, cd
<1>12. InOrder("install", ca \o cb, D, A \cup B)
  BY <1>7, <1>8, BothInOrder DEF ca, cb
<1>13. InOrder("install", (ca \o cb) \o cc, D, (A \cup B) \cup E)
  BY <1>9, <1>12, BothInOrder DEF cc
<1>14. InOrder("install", ((ca \o cb) \o cc) \o cd, D, ((A \cup B) \cup E) \cup F)
  BY <1>10, <1>13, BothInOrder DEF cd
<1> QED
  BY <1>1, <1>11, <1>14 DEF ca, cb, cc, cd

LEMMA InstallInOrder ==
    ASSUME TypeOK, layout.comps # <<>>
    PROVE  InOrder("install", InstallScript, {}, InstallSet)
<1> DEFINE p == Cmds("prepare", SetToSeq(KnownHosts("install")))
           rc == Cmds("run", layout.comps)
           wc == Cmds("wait", layout.comps)
           x1 == layout.comps[1]
           cp == <<C("copy", x1)>>
           it == <<C("init", x1)>>
           mg == <<C("run", Manager)>>
           px == Cmds("start_proxy", Proxy)
           N == ToSet(StorageNodes)
           M == ToSet(layout.comps)
           K == KnownHosts("install")
           P == All("prepare", K)
           R == All("run", N)
           W == All("wait", N)
           RM == All("run", M)
           WM == All("wait", M)
           CP == All("copy", {x1})
           IT == All("init", {x1})
           MG == All("run", {Manager})
           PX == All("start_proxy", layout.proxy)
<1>1. InstallScript = ((((p \o RunStorage) \o (rc \o wc)) \o (cp \o it)) \o mg) \o px
  <2>1. InitCluster = <<C("copy", x1), C("init", x1)>>
    BY CommandIs DEF InitCluster
  <2>2. ASSUME NEW c, NEW d PROVE <<c>> \o <<d>> = <<c, d>>
    <3> DEFINE s == <<c>>
               t == <<d>>
    <3>1. s \in Seq({c, d}) /\ t \in Seq({c, d}) /\ Len(s) = 1 /\ Len(t) = 1 /\ s[1] = c /\ t[1] = d
      OBVIOUS
    <3> HIDE DEF s, t
    <3>2. s \o t \in Seq({c, d}) /\ Len(s \o t) = 2 /\ (s \o t)[1] = c /\ (s \o t)[2] = d
      <4>1. s \in Seq({c, d}) /\ t \in Seq({c, d})
        BY <3>1
      <4>2. /\ s \o t \in Seq({c, d}) /\ Len(s \o t) = Len(s) + Len(t)
            /\ \A i \in 1..Len(s) : (s \o t)[i] = s[i]
            /\ \A i \in 1..Len(t) : (s \o t)[Len(s) + i] = t[i]
        BY <4>1
      <4>3. 1 \in 1..1 /\ 1 + 1 = 2
        OBVIOUS
      <4> QED
        BY <3>1, <4>2, <4>3
    <3>3. \A q \in Seq({c, d}) : Len(q) = 2 => q = <<q[1], q[2]>>
      OBVIOUS
    <3> QED
      BY <3>2, <3>3 DEF s, t
  <2>3. InitCluster = cp \o it
    BY <2>1, <2>2
  <2>4. <<[op |-> "run", on |-> Manager]>> = mg
    BY DEF C
  <2>5. RunComps = rc \o wc
    BY DEF RunComps
  <2> QED
    BY <2>3, <2>4, <2>5 DEF InstallScript
<1>2. /\ "prepare" \in Op /\ "run" \in Op /\ "wait" \in Op /\ "copy" \in Op /\ "init" \in Op
      /\ "start_proxy" \in Op
  BY DEF Op
<1>3. /\ N \subseteq Used /\ M \subseteq Used /\ Manager \in Used /\ Used \subseteq Thing
      /\ x1 \in M /\ x1 \in Thing /\ layout.proxy \subseteq K /\ layout.proxy \subseteq Thing
      /\ M \cap N = {} /\ Manager \notin N
      /\ M \subseteq Thing /\ N \cup M = ToSet(Nodes) /\ (N \cup M) \cup {Manager} = Used
      /\ \A x \in Used : All("prepare", {Host[x]}) \subseteq P
  <2>1. \A x \in Used : Host[x] \in K
    BY Configured
  <2>2. \A x \in Used : All("prepare", {Host[x]}) \subseteq P
    BY <2>1 DEF All
  <2>3. x1 \in M
    <3>1. 1 \in DOMAIN layout.comps
      BY FieldsAre
    <3> QED
      BY <3>1 DEF ToSet
  <2> QED
    BY <2>2, <2>3, Configured, ListsAre, DockerAssumption DEF Used, Node
<1>4. \A x : /\ NeedsInInstall("prepare", x) = {} /\ NeedsInInstall("wait", x) = All("run", {x})
             /\ NeedsInInstall("copy", x) = All("run", {x})
             /\ x \notin N => NeedsInInstall("run", x) = All("prepare", {Host[x]})
             /\ NeedsInInstall("init", x) = All("wait", ToSet(Nodes)) \cup All("copy", {x})
             /\ NeedsInInstall("start_proxy", x) = All("prepare", {x})
  BY DEF NeedsInInstall
<1>5. InOrder("install", p, {}, P)
  <2>1. \A x \in ToSet(SetToSeq(K)) : NeedsInInstall("prepare", x) \subseteq {}
    BY <1>4
  <2> QED
    BY <2>1, <1>2, HostsListed, SameInOrder
<1>6. InOrder("install", RunStorage, {} \cup P, R \cup W)
  BY RunStorageInOrder
<1>7. ASSUME NEW D, P \subseteq D PROVE InOrder("install", rc \o wc, D, RM \cup WM)
  <2>1. InOrder("install", rc, D, RM)
    <3>0. \A x \in M : x \notin N /\ All("prepare", {Host[x]}) \subseteq P
      BY <1>3
    <3>1. \A x \in M : NeedsInInstall("run", x) \subseteq D
      BY <3>0, <1>4, <1>7
    <3> QED
      BY <3>1, <1>2, <1>3, FieldsAre, SameInOrder
  <2>2. InOrder("install", wc, D \cup RM, WM)
    <3>1. \A x \in M : All("run", {x}) \subseteq RM
      BY DEF All
    <3>2. \A x \in M : NeedsInInstall("wait", x) \subseteq D \cup RM
      BY <3>1, <1>4
    <3> QED
      BY <3>2, <1>2, <1>3, FieldsAre, SameInOrder
  <2> QED
    BY <2>1, <2>2, BothInOrder
<1>8. ASSUME NEW D, RM \subseteq D, W \subseteq D, WM \subseteq D PROVE InOrder("install", cp \o it, D, CP \cup IT)
  <2>1. InOrder("install", cp, D, CP)
    <3>1. All("run", {x1}) \subseteq RM
      BY <1>3 DEF All
    <3>2. NeedsInInstall("copy", x1) \subseteq D
      BY <3>1, <1>4, <1>8
    <3> QED
      BY <3>2, <1>2, <1>3, OneInOrder
  <2>2. InOrder("install", it, D \cup CP, IT)
    <3>1. All("wait", ToSet(Nodes)) = W \cup WM
      BY <1>3, AllIs
    <3>2. NeedsInInstall("init", x1) \subseteq D \cup CP
      BY <3>1, <1>4, <1>8
    <3> QED
      BY <3>2, <1>2, <1>3, OneInOrder
  <2> QED
    BY <2>1, <2>2, BothInOrder
<1>9. ASSUME NEW D, P \subseteq D PROVE InOrder("install", mg, D, MG)
  <2>1. Manager \in Thing /\ NeedsInInstall("run", Manager) \subseteq D
    BY <1>3, <1>4, <1>9
  <2> QED
    BY <2>1, <1>2, OneInOrder
<1>10. ASSUME NEW D, P \subseteq D PROVE InOrder("install", px, D, PX)
  <2>1. \A x \in layout.proxy : All("prepare", {x}) \subseteq P
    BY <1>3 DEF All
  <2>2. \A x \in layout.proxy : NeedsInInstall("start_proxy", x) \subseteq D
    BY <2>1, <1>4, <1>10
  <2>3. Proxy \in Seq(layout.proxy) /\ ToSet(Proxy) = layout.proxy
    BY ListsAre
  <2> QED
    BY <2>2, <2>3, <1>2, <1>3, SameInOrder
<1>11. ((((P \cup (R \cup W)) \cup (RM \cup WM)) \cup (CP \cup IT)) \cup MG) \cup PX = InstallSet
  <2>1. /\ (R \cup RM) \cup MG = All("run", Used)
        /\ W \cup WM = All("wait", ToSet(Nodes))
    BY <1>3, AllIs
  <2>2. InstallSet = ((((P \cup All("run", Used)) \cup All("wait", ToSet(Nodes))) \cup CP) \cup IT) \cup PX
    BY DEF InstallSet
  <2> HIDE DEF P, R, W, RM, WM, CP, IT, MG, PX
  <2> QED
    BY <2>1, <2>2
<1> DEFINE rcw == rc \o wc
           cpi == cp \o it
<1> HIDE DEF p, rcw, cpi, mg, px, P, R, W, RM, WM, CP, IT, MG, PX, N, M, K, x1
<1>12. InOrder("install", p \o RunStorage, {}, P \cup (R \cup W))
  BY <1>5, <1>6, BothInOrder
<1>13. InOrder("install", (p \o RunStorage) \o rcw, {}, (P \cup (R \cup W)) \cup (RM \cup WM))
  <2>1. InOrder("install", rcw, {} \cup (P \cup (R \cup W)), RM \cup WM)
    BY <1>7 DEF rcw
  <2> QED
    BY <2>1, <1>12, BothInOrder
<1>14. InOrder("install", ((p \o RunStorage) \o rcw) \o cpi, {}, ((P \cup (R \cup W)) \cup (RM \cup WM)) \cup (CP \cup IT))
  <2>1. InOrder("install", cpi, {} \cup ((P \cup (R \cup W)) \cup (RM \cup WM)), CP \cup IT)
    BY <1>8 DEF cpi
  <2> QED
    BY <2>1, <1>13, BothInOrder
<1>15. InOrder("install", (((p \o RunStorage) \o rcw) \o cpi) \o mg, {},
               (((P \cup (R \cup W)) \cup (RM \cup WM)) \cup (CP \cup IT)) \cup MG)
  <2>1. InOrder("install", mg, {} \cup (((P \cup (R \cup W)) \cup (RM \cup WM)) \cup (CP \cup IT)), MG)
    BY <1>9
  <2> QED
    BY <2>1, <1>14, BothInOrder
<1>16. InOrder("install", ((((p \o RunStorage) \o rcw) \o cpi) \o mg) \o px, {},
               ((((P \cup (R \cup W)) \cup (RM \cup WM)) \cup (CP \cup IT)) \cup MG) \cup PX)
  <2>1. InOrder("install", px, {} \cup ((((P \cup (R \cup W)) \cup (RM \cup WM)) \cup (CP \cup IT)) \cup MG), PX)
    BY <1>10
  <2> QED
    BY <2>1, <1>15, BothInOrder
<1> QED
  BY <1>1, <1>11, <1>16 DEF rcw, cpi

LEMMA StartInOrder == ASSUME TypeOK PROVE InOrder("start", StartScript, {}, StartSet)
<1> DEFINE a == Cmds("start", StorageNodes)
           b == Cmds("wait", StorageNodes)
           c == <<C("start", Manager)>>
           d == Cmds("start", layout.comps)
           e == Cmds("wait", layout.comps)
           f == Cmds("start_proxy", Proxy)
           N == ToSet(StorageNodes)
           M == ToSet(layout.comps)
           A == All("start", N)
           B == All("wait", N)
           E == All("start", {Manager})
           F == All("start", M)
           G == All("wait", M)
           H == All("start_proxy", layout.proxy)
<1>1. StartScript = ((((a \o b) \o c) \o d) \o e) \o f
  BY DEF StartScript, C
<1>2. /\ N \subseteq Thing /\ M \subseteq Thing /\ Manager \in Thing /\ layout.proxy \subseteq Thing
      /\ N \cup M = ToSet(Nodes) /\ (N \cup M) \cup {Manager} = Used
  <2>1. layout.proxy \subseteq Machine
    BY FieldsAre
  <2> QED
    BY <2>1, Configured, ListsAre DEF Used
<1>3. "start" \in Op \ {"rm_dirs"} /\ "wait" \in Op \ {"rm_dirs"} /\ "start_proxy" \in Op \ {"rm_dirs"}
  BY DEF Op
<1>4. \A D : /\ InOrder("start", a, D, A) /\ InOrder("start", b, D, B)
             /\ InOrder("start", d, D, F) /\ InOrder("start", e, D, G)
  BY <1>2, <1>3, FieldsAre, ListsAre, FreeInOrder
<1>5. \A D : InOrder("start", f, D, H)
  <2>1. Proxy \in Seq(layout.proxy) /\ ToSet(Proxy) = layout.proxy
    BY ListsAre
  <2> QED
    BY <1>2, <1>3, <2>1, FreeInOrder
<1>6. \A D : InOrder("start", c, D, E)
  <2>1. \A D : NeedsInUse("start", Manager) \subseteq D
    BY DEF NeedsInUse
  <2> QED
    BY <1>2, <1>3, <2>1, OneInOrder
<1>7. ((((A \cup B) \cup E) \cup F) \cup G) \cup H = StartSet
  <2>1. (A \cup F) \cup E = All("start", Used) /\ B \cup G = All("wait", ToSet(Nodes))
    BY <1>2, AllIs
  <2>2. StartSet = (All("start", Used) \cup All("wait", ToSet(Nodes))) \cup H
    BY DEF StartSet
  <2> HIDE DEF A, B, E, F, G, H
  <2> QED
    BY <2>1, <2>2
<1> HIDE DEF a, b, c, d, e, f, A, B, E, F, G, H
<1>8. InOrder("start", a \o b, {}, A \cup B)
  BY <1>4, BothInOrder
<1>9. InOrder("start", (a \o b) \o c, {}, (A \cup B) \cup E)
  BY <1>6, <1>8, BothInOrder
<1>10. InOrder("start", ((a \o b) \o c) \o d, {}, ((A \cup B) \cup E) \cup F)
  BY <1>4, <1>9, BothInOrder
<1>11. InOrder("start", (((a \o b) \o c) \o d) \o e, {}, (((A \cup B) \cup E) \cup F) \cup G)
  BY <1>4, <1>10, BothInOrder
<1>12. InOrder("start", ((((a \o b) \o c) \o d) \o e) \o f, {}, ((((A \cup B) \cup E) \cup F) \cup G) \cup H)
  BY <1>5, <1>11, BothInOrder
<1> QED
  BY <1>1, <1>7, <1>12

LEMMA StopInOrder == ASSUME TypeOK PROVE InOrder("stop", StopScript, {}, StopSet)
<1> DEFINE a == Cmds("stop_proxy", Proxy)
           b == Cmds("stop", StorageNodes)
           c == <<C("stop", Manager)>>
           d == Cmds("stop", layout.comps)
           N == ToSet(StorageNodes)
           M == ToSet(layout.comps)
           A == All("stop_proxy", layout.proxy)
           B == All("stop", N)
           E == All("stop", {Manager})
           F == All("stop", M)
<1>1. StopScript = ((a \o b) \o c) \o d
  BY DEF StopScript, C
<1>2. /\ N \subseteq Thing /\ M \subseteq Thing /\ Manager \in Thing /\ layout.proxy \subseteq Thing
      /\ (N \cup M) \cup {Manager} = Used
  <2>1. layout.proxy \subseteq Machine
    BY FieldsAre
  <2> QED
    BY <2>1, Configured, ListsAre DEF Used
<1>3. "stop" \in Op \ {"rm_dirs"} /\ "stop_proxy" \in Op \ {"rm_dirs"}
  BY DEF Op
<1>4. \A D : InOrder("stop", b, D, B) /\ InOrder("stop", d, D, F)
  BY <1>2, <1>3, FieldsAre, ListsAre, FreeInOrder
<1>5. \A D : InOrder("stop", a, D, A)
  <2>1. Proxy \in Seq(layout.proxy) /\ ToSet(Proxy) = layout.proxy
    BY ListsAre
  <2> QED
    BY <1>2, <1>3, <2>1, FreeInOrder
<1>6. \A D : InOrder("stop", c, D, E)
  <2>1. \A D : NeedsInUse("stop", Manager) \subseteq D
    BY DEF NeedsInUse
  <2> QED
    BY <1>2, <1>3, <2>1, OneInOrder
<1>7. ((A \cup B) \cup E) \cup F = StopSet
  <2>1. (B \cup F) \cup E = All("stop", Used)
    BY <1>2, AllIs
  <2>2. StopSet = A \cup All("stop", Used)
    BY DEF StopSet
  <2> HIDE DEF A, B, E, F
  <2> QED
    BY <2>1, <2>2
<1> HIDE DEF a, b, c, d, A, B, E, F
<1>8. InOrder("stop", a \o b, {}, A \cup B)
  BY <1>4, <1>5, BothInOrder
<1>9. InOrder("stop", (a \o b) \o c, {}, (A \cup B) \cup E)
  BY <1>6, <1>8, BothInOrder
<1>10. InOrder("stop", ((a \o b) \o c) \o d, {}, ((A \cup B) \cup E) \cup F)
  BY <1>4, <1>9, BothInOrder
<1> QED
  BY <1>1, <1>7, <1>10

\* What RemoveNodes is made of.
NodesGone(S) == All("rm", S) \cup All("rm_dirs", S \cap layout.mounted)

LEMMA NodeGoneInOrder ==
    ASSUME NEW D, NEW n \in Thing
    PROVE  InOrder("clean", RemoveNode(n), D, NodesGone({n}))
<1>1. "rm" \in Op /\ "rm_dirs" \in Op
  BY DEF Op
<1>2. NeedsInUse("rm", n) = {} /\ NeedsInUse("rm_dirs", n) = All("rm", {n})
  BY DEF NeedsInUse
<1>3. InOrder("clean", <<C("rm", n)>>, D, All("rm", {n}))
  BY <1>1, <1>2, OneInOrder
<1>4. CASE n \in layout.mounted
  <2>1. RemoveNode(n) = <<C("rm", n)>> \o <<C("rm_dirs", n)>>
    BY <1>4 DEF RemoveNode, C
  <2>2. InOrder("clean", <<C("rm_dirs", n)>>, D \cup All("rm", {n}), All("rm_dirs", {n}))
    BY <1>1, <1>2, OneInOrder
  <2>3. NodesGone({n}) = All("rm", {n}) \cup All("rm_dirs", {n})
    <3>1. {n} \cap layout.mounted = {n}
      BY <1>4
    <3> QED
      BY <3>1 DEF NodesGone
  <2>4. InOrder("clean", <<C("rm", n)>> \o <<C("rm_dirs", n)>>, D, All("rm", {n}) \cup All("rm_dirs", {n}))
    BY <1>3, <2>2, BothInOrder
  <2> QED
    BY <2>1, <2>3, <2>4
<1>5. CASE n \notin layout.mounted
  <2>1. RemoveNode(n) = <<C("rm", n)>>
    BY <1>5 DEF RemoveNode, C
  <2>2. NodesGone({n}) = All("rm", {n})
    <3>1. {n} \cap layout.mounted = {}
      BY <1>5
    <3> QED
      BY <3>1, AllIs DEF NodesGone
  <2> QED
    BY <1>3, <2>1, <2>2
<1> QED
  BY <1>4, <1>5

LEMMA RemoveNodesInOrder ==
    ASSUME NEW D, NEW S, NEW s \in Seq(S), ToSet(s) \subseteq Thing
    PROVE  InOrder("clean", RemoveNodes(s), D, NodesGone(ToSet(s)))
<1> DEFINE ss == [i \in DOMAIN s |-> RemoveNode(s[i])]
           E == [i \in DOMAIN s |-> NodesGone({s[i]})]
<1>1. /\ Len(s) \in Nat /\ DOMAIN s = 1..Len(s)
      /\ \A k \in 1..Len(s) : s[k] \in ToSet(s)
  BY DEF ToSet
<1>2. RemoveNodes(s) = FlattenSeq(ss)
  BY DEF RemoveNodes
<1>3. /\ Len(ss) = Len(s) /\ (Len(ss) = 0 => ss = <<>>)
      /\ \A i \in 1..Len(s) : ss[i] = RemoveNode(s[i]) /\ E[i] = NodesGone({s[i]})
  BY <1>1
<1> HIDE DEF ss, E
<1>4. \A i \in 1..Len(ss) : Adds(ss[i], D \cup FirstOf(E, i - 1), E[i], Needs("clean"), {})
  BY <1>1, <1>3, NodeGoneInOrder DEF InOrder
<1>5. InOrder("clean", FlattenSeq(ss), D, FirstOf(E, Len(ss)))
  BY <1>1, <1>3, <1>4, AddsAll DEF InOrder
<1>6. FirstOf(E, Len(ss)) = NodesGone(ToSet(s))
  <2>1. \A n \in ToSet(s) : NodesGone({n}) \subseteq NodesGone(ToSet(s))
    BY DEF NodesGone, All
  <2>2. \A c \in NodesGone(ToSet(s)) : \E n \in ToSet(s) : c \in NodesGone({n})
    BY DEF NodesGone, All
  <2>3. \A k \in 1..Len(s) : E[k] \subseteq NodesGone(ToSet(s))
    BY <1>1, <1>3, <2>1
  <2>4. \A n \in ToSet(s) : \E k \in 1..Len(s) : E[k] = NodesGone({n})
    BY <1>1, <1>3 DEF ToSet
  <2>5. \A c \in NodesGone(ToSet(s)) : \E k \in 1..Len(s) : c \in E[k]
    BY <2>2, <2>4
  <2> QED
    BY <2>3, <2>5, <1>3 DEF FirstOf
<1> QED
  BY <1>2, <1>5, <1>6

LEMMA CleanInOrder == ASSUME TypeOK PROVE InOrder("clean", CleanScript, {}, CleanSet)
<1> DEFINE a == Cmds("stop_proxy", Proxy)
           b == RemoveNodes(StorageNodes)
           c == <<C("rm", Manager)>>
           d == RemoveNodes(layout.comps)
           e == Cmds("rm_images", SetToSeq(KnownHosts("clean")))
           N == ToSet(StorageNodes)
           M == ToSet(layout.comps)
           A == All("stop_proxy", layout.proxy)
           B == NodesGone(N)
           E == All("rm", {Manager})
           F == NodesGone(M)
           G == All("rm_images", KnownHosts("clean"))
<1>1. CleanScript = (((a \o b) \o c) \o d) \o e
  BY DEF CleanScript, C
<1>2. /\ N \subseteq Thing /\ M \subseteq Thing /\ Manager \in Thing /\ layout.proxy \subseteq Thing
      /\ N \cup M = ToSet(Nodes) /\ (N \cup M) \cup {Manager} = Used
  <2>1. layout.proxy \subseteq Machine
    BY FieldsAre
  <2> QED
    BY <2>1, Configured, ListsAre DEF Used
<1>3. "stop_proxy" \in Op \ {"rm_dirs"} /\ "rm" \in Op \ {"rm_dirs"} /\ "rm_images" \in Op \ {"rm_dirs"}
  BY DEF Op
<1>4. \A D : InOrder("clean", b, D, B) /\ InOrder("clean", d, D, F)
  BY <1>2, FieldsAre, ListsAre, RemoveNodesInOrder
<1>5. \A D : InOrder("clean", a, D, A)
  <2>1. Proxy \in Seq(layout.proxy) /\ ToSet(Proxy) = layout.proxy
    BY ListsAre
  <2> QED
    BY <1>2, <1>3, <2>1, FreeInOrder
<1>6. \A D : InOrder("clean", c, D, E)
  <2>1. \A D : NeedsInUse("rm", Manager) \subseteq D
    BY DEF NeedsInUse
  <2> QED
    BY <1>2, <1>3, <2>1, OneInOrder
<1>7. \A D : InOrder("clean", e, D, G)
  BY <1>3, HostsListed, FreeInOrder
<1>8. (((A \cup B) \cup E) \cup F) \cup G = CleanSet
  <2> DEFINE B1 == All("rm", N)
             B2 == All("rm_dirs", N \cap layout.mounted)
             F1 == All("rm", M)
             F2 == All("rm_dirs", M \cap layout.mounted)
  <2>1. (N \cap layout.mounted) \cup (M \cap layout.mounted) = ToSet(Nodes) \cap layout.mounted
    BY <1>2
  <2>2. (B1 \cup F1) \cup E = All("rm", Used) /\ B2 \cup F2 = All("rm_dirs", ToSet(Nodes) \cap layout.mounted)
    BY <1>2, <2>1, AllIs
  <2>3. CleanSet = ((A \cup All("rm", Used)) \cup All("rm_dirs", ToSet(Nodes) \cap layout.mounted)) \cup G
    BY DEF CleanSet
  <2>4. B = B1 \cup B2 /\ F = F1 \cup F2
    BY DEF NodesGone
  <2> HIDE DEF A, B, E, F, G, B1, B2, F1, F2
  <2> QED
    BY <2>2, <2>3, <2>4
<1> HIDE DEF a, b, c, d, e, A, B, E, F, G
<1>9. InOrder("clean", a \o b, {}, A \cup B)
  BY <1>4, <1>5, BothInOrder
<1>10. InOrder("clean", (a \o b) \o c, {}, (A \cup B) \cup E)
  BY <1>6, <1>9, BothInOrder
<1>11. InOrder("clean", ((a \o b) \o c) \o d, {}, ((A \cup B) \cup E) \cup F)
  BY <1>4, <1>10, BothInOrder
<1>12. InOrder("clean", (((a \o b) \o c) \o d) \o e, {}, (((A \cup B) \cup E) \cup F) \cup G)
  BY <1>7, <1>11, BothInOrder
<1> QED
  BY <1>1, <1>8, <1>12

ScriptSet(a) ==
    CASE a = "install" -> InstallSet
      [] a = "start"   -> StartSet
      [] a = "stop"    -> StopSet
      [] OTHER         -> CleanSet

\* The commands that the script has passed, and the next one.
Did == Before(Commands(action), pc)
Pending == pc \in DOMAIN Commands(action)
Current == Commands(action)[pc]
Passed(op) == {x \in Thing : C(op, x) \in Did}

InScript ==
    /\ commands = Commands(action)
    /\ action = "install" => ValidConfig /\ layout.comps # <<>>
    /\ action # "none" => pc \in 1..(Len(Commands(action)) + 1)

LEMMA ScriptInOrder ==
    ASSUME TypeOK, NEW a \in Scripts, a = "install" => layout.comps # <<>>
    PROVE  InOrder(a, Commands(a), {}, ScriptSet(a))
<1>1. CASE a = "install"
  <2>1. Commands(a) = InstallScript /\ ScriptSet(a) = InstallSet
    BY <1>1 DEF Commands, ScriptSet
  <2> QED
    BY <1>1, <2>1, InstallInOrder
<1>2. CASE a = "start"
  <2>1. Commands(a) = StartScript /\ ScriptSet(a) = StartSet
    BY <1>2 DEF Commands, ScriptSet
  <2> QED
    BY <1>2, <2>1, StartInOrder
<1>3. CASE a = "stop"
  <2>1. Commands(a) = StopScript /\ ScriptSet(a) = StopSet
    BY <1>3 DEF Commands, ScriptSet
  <2> QED
    BY <1>3, <2>1, StopInOrder
<1>4. CASE a = "clean"
  <2>1. Commands(a) = CleanScript /\ ScriptSet(a) = CleanSet
    BY <1>4 DEF Commands, ScriptSet
  <2> QED
    BY <1>4, <2>1, CleanInOrder
<1> QED
  BY <1>1, <1>2, <1>3, <1>4 DEF Scripts

LEMMA LengthIs ==
    TypeOK => \A a \in Scripts : (a = "install" => layout.comps # <<>>) =>
                 /\ Len(Commands(a)) \in Nat /\ DOMAIN Commands(a) = 1..Len(Commands(a))
<1> SUFFICES ASSUME TypeOK, NEW a \in Scripts, a = "install" => layout.comps # <<>>
             PROVE  Len(Commands(a)) \in Nat /\ DOMAIN Commands(a) = 1..Len(Commands(a))
  OBVIOUS
<1>1. Adds(Commands(a), {}, ScriptSet(a), Needs(a), {})
  BY ScriptInOrder DEF InOrder
<1>2. Commands(a) \in Seq(DOMAIN Needs(a))
  BY <1>1 DEF Adds
<1> QED
  BY <1>2

LEMMA LengthNext ==
    (TypeOK => \A a \in Scripts : (a = "install" => layout.comps # <<>>) =>
                 /\ Len(Commands(a)) \in Nat /\ DOMAIN Commands(a) = 1..Len(Commands(a)))'
  BY LengthIs, PTL

\* What a command needs, and what those before it needed, was passed; the commands
\* passed and the next one belong to the script.
LEMMA DidIs ==
    ASSUME TypeOK, InScript, action # "none"
    PROVE  /\ Did \subseteq ScriptSet(action) /\ ScriptSet(action) \subseteq Command
           /\ \A c \in Did : Needs(action)[c] \subseteq Did
           /\ Pending => /\ Current \in ScriptSet(action) /\ Current \in Command
                         /\ Needs(action)[Current] \subseteq Did
                         /\ pc + 1 \in 1..(Len(Commands(action)) + 1) /\ ~(pc > Len(Commands(action)))
           /\ ~Pending => Did = ScriptSet(action) /\ pc > Len(Commands(action))
           /\ Upcoming = IF Pending THEN {Current} ELSE {}
<1> DEFINE s == Commands(action)
           E == ScriptSet(action)
           N == Needs(action)
<1>1. action \in Scripts /\ (action = "install" => layout.comps # <<>>) /\ pc \in 1..(Len(s) + 1)
  BY DEF TypeOK, InScript
<1>2. Adds(s, {}, E, N, {}) /\ Len(s) \in Nat /\ DOMAIN s = 1..Len(s)
  BY <1>1, ScriptInOrder, LengthIs DEF InOrder
<1>3. DOMAIN N = Command
  BY NeedsAre
<1>4. Upcoming = IF Pending THEN {Current} ELSE {}
  BY DEF Upcoming, Pending, Current, InScript
<1>5. Did = Before(s, pc) /\ Current = s[pc] /\ (Pending <=> pc \in 1..Len(s))
  BY <1>2 DEF Did, Current, Pending
<1> HIDE DEF s, E, N
<1>6. /\ E \subseteq DOMAIN N /\ Before(s, Len(s) + 1) = E
      /\ \A k \in 1..Len(s) : s[k] \in E /\ InPlace(s[k], Before(s, k), N, {})
      /\ \A k \in 1..(Len(s) + 1) :
            Before(s, k) \subseteq E /\ \A c \in Before(s, k) : N[c] \subseteq Before(s, k)
  BY <1>2, AddsInOrder
<1>7. ~Pending => pc = Len(s) + 1 /\ pc > Len(s)
  BY <1>1, <1>2, <1>5
<1>8. Pending => pc + 1 \in 1..(Len(s) + 1) /\ ~(pc > Len(s))
  BY <1>1, <1>2, <1>5
<1>9. Pending => Current \in E /\ Current \in Command /\ N[Current] \subseteq Did
  BY <1>3, <1>5, <1>6 DEF InPlace
<1>10. ~Pending => Did = E
  BY <1>5, <1>6, <1>7
<1>11. Did \subseteq E /\ E \subseteq Command /\ \A c \in Did : N[c] \subseteq Did
  BY <1>1, <1>3, <1>5, <1>6
<1> QED
  BY <1>4, <1>7, <1>8, <1>9, <1>10, <1>11 DEF s, E, N

LEMMA PendingIs == ASSUME TypeOK, Pending PROVE action # "none" /\ action \in Scripts
  BY DEF Pending, Commands, Scripts, TypeOK

\* What goes with the configuration.
LEMMA ConfigIsFixed ==
    ASSUME UNCHANGED layout
    PROVE  /\ UNCHANGED <<Groups, StorageNodes, Nodes, Proxy, Used, Processes, Primaries, RunFirst>>
           /\ \A a : KnownHosts(a)' = KnownHosts(a) /\ Commands(a)' = Commands(a)
           /\ ValidConfig => ValidConfig'
<1>1. UNCHANGED <<Groups, StorageNodes, Nodes, Proxy, MetaMode>>
  BY DEF Groups, StorageNodes, Proxy, Nodes, MetaMode
<1>2. UNCHANGED <<Used, ShardMode>>
  BY <1>1 DEF Used, ShardMode
<1>3. UNCHANGED Processes
  BY <1>2 DEF Processes
<1>4. \A n : ShardOf(n)' = ShardOf(n) /\ ModeOf(n)' = ModeOf(n)
  BY <1>1, <1>2 DEF ShardOf, ModeOf
<1>5. \A n : IsPrimary(n)' = IsPrimary(n)
  BY <1>4 DEF IsPrimary
<1>6. UNCHANGED <<Primaries, RunFirst>>
  BY <1>1, <1>4, <1>5 DEF Primaries, RunFirst
<1>7. \A a : KnownHosts(a)' = KnownHosts(a)
  BY <1>1 DEF KnownHosts, HostsOf
<1>8. UNCHANGED <<RunStorage, RunComps, InitCluster>>
  BY <1>1, <1>6 DEF RunStorage, RunComps, InitCluster, Cmds, First
<1>9. UNCHANGED InstallScript
  BY <1>1, <1>7, <1>8 DEF InstallScript, Cmds
<1>10. UNCHANGED <<StartScript, StopScript>>
  BY <1>1 DEF StartScript, StopScript, Cmds
<1>11. UNCHANGED CleanScript
  BY <1>1, <1>7 DEF CleanScript, RemoveNodes, RemoveNode, Cmds
<1>12. \A a : Commands(a)' = Commands(a)
  BY <1>9, <1>10, <1>11 DEF Commands
<1>13. \A s, m : ValidShard(s, m)' = ValidShard(s, m)
  BY DEF ValidShard
<1>14. ValidConfig => ValidConfig'
  BY <1>1, <1>2, <1>13 DEF ValidConfig
<1> QED
  BY <1>1, <1>2, <1>3, <1>6, <1>7, <1>12, <1>14

\* One more command is passed.
LEMMA OneMore ==
    ASSUME TypeOK, UNCHANGED <<layout, action>>, pc' = pc + 1
    PROVE  Did' = Did \cup {Current}
<1>1. ASSUME NEW s, NEW k \in Nat \ {0} PROVE Before(s, k + 1) = Before(s, k) \cup {s[k]}
  <2>1. 1..((k + 1) - 1) = 1..(k - 1) \cup {k}
    OBVIOUS
  <2> QED
    BY <2>1 DEF Before
<1>2. Commands(action)' = Commands(action)
  BY ConfigIsFixed
<1>3. Did' = Before(Commands(action), pc + 1)
  BY <1>2 DEF Did
<1>4. pc \in Nat \ {0}
  BY DEF TypeOK
<1> QED
  BY <1>1, <1>3, <1>4 DEF Did, Current

-----------------------------------------------------------------------------
(* The steps, by what they do to the script and the machines.              *)

\* What a command does when it runs.
Effect(op, x) ==
    /\ prepared' = IF op = "prepare" THEN prepared \cup {x} ELSE prepared
    /\ exists' = CASE op = "run" -> exists \cup {x} [] op = "rm" -> exists \ {x} [] OTHER -> exists
    /\ running' = CASE op \in {"run", "start"} -> running \cup {x}
                    [] op \in {"stop", "rm"} -> running \ {x} [] OTHER -> running
    /\ serving' = IF op \in {"stop", "rm"} THEN serving \ {x} ELSE serving
    /\ op = "wait" => x \in serving
    /\ data' = IF op = "rm_dirs" \/ (op = "rm" /\ x \notin layout.mounted) THEN data \ {x} ELSE data
    /\ op # "rm_images" => images \subseteq images'
    /\ op = "prepare" /\ layout.imageInFiles => x \in images'
    /\ proxyUp' = CASE op = "start_proxy" -> proxyUp \cup {x} [] op = "stop_proxy" -> proxyUp \ {x}
                    [] OTHER -> proxyUp
    /\ op = "copy" => copied'
    /\ op \notin {"copy", "rm"} => copied' = copied
    /\ op = "init" => inited'
    /\ op \notin {"init", "rm", "rm_dirs"} => inited' = inited

\* The script goes on to its next command.
Moves == Pending /\ pc' = pc + 1 /\ UNCHANGED <<layout, action, commands, base>>
\* The command runs.
Runs(op, x) == Moves /\ Current = C(op, x) /\ CanRun(Current) /\ Effect(op, x) /\ UNCHANGED smooth
\* A command that finds nothing to do, or not what it needs.
Skips == Moves /\ ~CanRun(Current) /\ UNCHANGED <<smooth, docker, rest>>
\* The script has come to its end.
Ends ==
    /\ action # "none" /\ ~Pending /\ action' = "none" /\ commands' = <<>>
    /\ UNCHANGED <<layout, base, smooth, docker, rest>>
\* A failure, an interrupt or the crash of a machine.
Breaks ==
    /\ smooth' = FALSE /\ running' \subseteq running /\ proxyUp' \subseteq proxyUp
    /\ UNCHANGED <<layout, base, prepared, exists, data, images, copied, inited>>
    /\ \/ action # "none" /\ action' = "none" /\ commands' = <<>> /\ UNCHANGED <<running, proxyUp>>
       \/ Moves \/ UNCHANGED <<action, commands, pc>>
\* Nothing happens, except that servers get ready.
Rests ==
    /\ UNCHANGED <<layout, action, commands, pc, base, smooth, prepared, exists, running, images, rest>>
    /\ serving \subseteq serving' /\ data \subseteq data' /\ data' \subseteq data \cup (running \cap Node)
Issues == \E a \in Scripts : Issue(a)

\* The command that an action is for.
LEMMA CurrentIs ==
    ASSUME TypeOK, InScript, NEW a, NEW op, NEW x, In(a, op, x), GoOn
    PROVE  Moves /\ Current = C(op, x) /\ CanRun(Current) /\ UNCHANGED smooth
<1>1. action # "none" /\ Upcoming # {}
  <2>1. Upcoming # {}
    BY DEF In
  <2>2. action = "none" => commands = <<>>
    BY DEF InScript, Commands
  <2> QED
    BY <2>1, <2>2 DEF Upcoming
<1>2. Pending /\ Upcoming = {Current} /\ Current \in Command
  BY <1>1, DidIs
<1>3. Current = C(op, x) /\ CanRun(Current)
  BY <1>2, CommandIs DEF In
<1> QED
  BY <1>2, <1>3 DEF GoOn, Moves

\* Every step is a command of the script that runs, or begins or ends a script, or is
\* a failure, or nothing of all this.
LEMMA ScriptSteps ==
    ASSUME TypeOK, InScript, [Next]_vars
    PROVE  \/ Issues \/ Skips \/ Ends \/ Breaks \/ Rests
           \/ \E op \in Op, x \in Thing : Runs(op, x)
<1> DEFINE Ran == \E op \in Op, x \in Thing : Runs(op, x)
<1>1. ASSUME NEW op \in Op, NEW x \in Thing, NEW a, In(a, op, x), GoOn, Effect(op, x) PROVE Ran
  <2>1. Runs(op, x)
    BY <1>1, CurrentIs DEF Runs
  <2> HIDE DEF Runs
  <2> QED
    BY <2>1
<1>2. ASSUME NEW c \in Container, OnContainer(c) PROVE Ran
  <2>0. c \in Thing
    BY DEF Thing
  <2>1. CASE RunContainer(c)
    <3>1. Effect("run", c)
      BY <2>1 DEF RunContainer, Effect, rest
    <3> QED
      BY <1>1, <2>0, <2>1, <3>1 DEF RunContainer, Op
  <2>2. CASE StartContainer(c)
    <3>1. Effect("start", c)
      BY <2>2 DEF StartContainer, Effect, rest
    <3> QED
      BY <1>1, <2>0, <2>2, <3>1 DEF StartContainer, Op
  <2>3. CASE StopContainer(c)
    <3>1. Effect("stop", c)
      BY <2>3 DEF StopContainer, Effect, rest
    <3> QED
      BY <1>1, <2>0, <2>3, <3>1 DEF StopContainer, Op
  <2>4. CASE WaitFor(c)
    <3>1. Effect("wait", c)
      BY <2>4 DEF WaitFor, Effect, docker, rest
    <3> QED
      BY <1>1, <2>0, <2>4, <3>1 DEF WaitFor, Op
  <2>5. CASE RemoveContainer(c)
    <3>1. Effect("rm", c)
      BY <2>5 DEF RemoveContainer, Effect
    <3> QED
      BY <1>1, <2>0, <2>5, <3>1 DEF RemoveContainer, Op
  <2>6. CASE RemoveDirs(c)
    <3>1. Effect("rm_dirs", c)
      BY <2>6 DEF RemoveDirs, Effect
    <3> QED
      BY <1>1, <2>0, <2>6, <3>1 DEF RemoveDirs, Op
  <2>7. CASE CopyConfig(c)
    <3>1. Effect("copy", c)
      BY <2>7 DEF CopyConfig, Effect, docker
    <3> QED
      BY <1>1, <2>0, <2>7, <3>1 DEF CopyConfig, Op
  <2>8. CASE InitSystem(c)
    <3>1. Effect("init", c)
      BY <2>8 DEF InitSystem, Effect, docker
    <3> QED
      BY <1>1, <2>0, <2>8, <3>1 DEF InitSystem, Op
  <2> QED
    BY <1>2, <2>1, <2>2, <2>3, <2>4, <2>5, <2>6, <2>7, <2>8 DEF OnContainer
<1>3. ASSUME NEW m \in Machine, OnMachine(m) PROVE Ran
  <2>0. m \in Thing
    BY DEF Thing
  <2>1. CASE Prepare(m)
    <3>1. Effect("prepare", m)
      BY <2>1 DEF Prepare, Effect, rest
    <3> QED
      BY <1>1, <2>0, <2>1, <3>1 DEF Prepare, Op
  <2>2. CASE RemoveImages(m)
    <3>1. Effect("rm_images", m)
      BY <2>2 DEF RemoveImages, Effect, rest
    <3> QED
      BY <1>1, <2>0, <2>2, <3>1 DEF RemoveImages, Op
  <2> QED
    BY <1>3, <2>1, <2>2 DEF OnMachine
<1>4. ASSUME NEW m \in layout.proxy, OnProxy(m) PROVE Ran
  <2>0. m \in Thing
    BY FieldsAre DEF Thing
  <2>1. CASE StartProxy(m)
    <3>1. Effect("start_proxy", m)
      BY <2>1 DEF StartProxy, Effect, docker
    <3> QED
      BY <1>1, <2>0, <2>1, <3>1 DEF StartProxy, Op
  <2>2. CASE StopProxy(m)
    <3>1. Effect("stop_proxy", m)
      BY <2>2 DEF StopProxy, Effect, docker
    <3> QED
      BY <1>1, <2>0, <2>2, <3>1 DEF StopProxy, Op
  <2> QED
    BY <1>4, <2>1, <2>2 DEF OnProxy
<1>5. (\E cmd \in Upcoming : TRUE) => action # "none" /\ Pending /\ Upcoming = {Current}
  <2>1. (\E cmd \in Upcoming : TRUE) => action # "none"
    BY DEF InScript, Upcoming, Commands, Scripts
  <2> QED
    BY <2>1, DidIs
<1>6. ASSUME NEW m \in Machine, Crash(m) PROVE Breaks
  BY <1>6 DEF Crash, Breaks
<1>7. ASSUME NEW c \in Container, Boot(c) PROVE Rests
  BY <1>7 DEF Boot, Rests, script, rest
<1>8. ASSUME NEW a \in Scripts, Refuse(a) PROVE Rests
  BY <1>8 DEF Refuse, Rests, docker, rest
<1> HIDE DEF Ran
<1>9. Run \/ Faults \/ (\E c \in Container : Boot(c)) \/ (\E a \in Scripts : Issue(a) \/ Refuse(a)) \/ UNCHANGED vars
  BY DEF Next
<1>10. Run => Ran \/ Skips \/ Ends
  <2>1. CommandFails => Skips
    BY <1>5 DEF CommandFails, GoOn, Skips, Moves
  <2>2. Finish => Ends
    BY DidIs DEF Finish, Ends, InScript
  <2> QED
    BY <1>2, <1>3, <1>4, <2>1, <2>2 DEF Run
<1>11. Faults => Breaks
  <2>1. CommandFaults => Breaks
    BY <1>5 DEF CommandFaults, Moves, Breaks, docker, rest
  <2>2. Interrupt => Breaks
    BY DEF Interrupt, Breaks, docker, rest
  <2> QED
    BY <1>6, <2>1, <2>2 DEF Faults
<1>12. UNCHANGED vars => Rests
  BY DEF Rests, vars, script, docker, rest
<1> QED
  BY <1>7, <1>8, <1>9, <1>10, <1>11, <1>12 DEF Issues, Ran

\* The script stays within its commands.
LEMMA ScriptPosition == ASSUME TypeOK, TypeOK', InScript, [Next]_vars PROVE InScript'
<1>1. ASSUME NEW a \in Scripts, Issue(a) PROVE InScript'
  <2>1. /\ action' = a /\ commands' = Commands(a) /\ pc' = 1 /\ UNCHANGED layout
        /\ a = "install" => ValidConfig /\ layout.comps # <<>>
    BY <1>1 DEF Issue, Generates
  <2>2. (a = "install" => ValidConfig') /\ Commands(a)' = Commands(a)
    BY <2>1, ConfigIsFixed
  <2>3. Len(Commands(action))' \in Nat
    BY <2>1, LengthNext
  <2> QED
    BY <2>1, <2>2, <2>3 DEF InScript
<1>2. CASE Moves
  <2>1. action # "none" /\ pc' = pc + 1 /\ Pending /\ UNCHANGED <<layout, action, commands>>
    BY <1>2, PendingIs DEF Moves
  <2>2. pc + 1 \in 1..(Len(Commands(action)) + 1)
    BY <2>1, DidIs
  <2>3. Commands(action)' = Commands(action) /\ (ValidConfig => ValidConfig')
    BY <2>1, ConfigIsFixed
  <2> QED
    BY <2>1, <2>2, <2>3 DEF InScript
<1>3. ASSUME action' = "none", commands' = <<>> PROVE InScript'
  BY <1>3 DEF InScript, Commands
<1>4. ASSUME UNCHANGED <<layout, action, commands, pc>> PROVE InScript'
  <2>1. Commands(action)' = Commands(action) /\ (ValidConfig => ValidConfig')
    BY <1>4, ConfigIsFixed
  <2> QED
    BY <1>4, <2>1 DEF InScript
<1>5. CASE Rests
  BY <1>4, <1>5 DEF Rests
<1>6. CASE Breaks
  BY <1>2, <1>3, <1>4, <1>6 DEF Breaks
<1>7. CASE Ends
  BY <1>3, <1>7 DEF Ends
<1> QED
  BY <1>1, <1>2, <1>5, <1>6, <1>7, ScriptSteps DEF Skips, Runs, Issues

\* The commands of each script, one by one.
Belongs(a, op, x) ==
    \/ /\ a = "install"
       /\ \/ op = "prepare" /\ x \in KnownHosts("install")
          \/ op = "run" /\ x \in Used
          \/ op = "wait" /\ x \in ToSet(Nodes)
          \/ op \in {"copy", "init"} /\ x = layout.comps[1]
          \/ op = "start_proxy" /\ x \in layout.proxy
    \/ /\ a = "start"
       /\ \/ op = "start" /\ x \in Used
          \/ op = "wait" /\ x \in ToSet(Nodes)
          \/ op = "start_proxy" /\ x \in layout.proxy
    \/ /\ a = "stop"
       /\ \/ op = "stop" /\ x \in Used
          \/ op = "stop_proxy" /\ x \in layout.proxy
    \/ /\ a = "clean"
       /\ \/ op = "stop_proxy" /\ x \in layout.proxy
          \/ op = "rm" /\ x \in Used
          \/ op = "rm_dirs" /\ x \in ToSet(Nodes) \cap layout.mounted
          \/ op = "rm_images" /\ x \in KnownHosts("clean")

LEMMA SetsAre == \A a \in Scripts : \A op, x : C(op, x) \in ScriptSet(a) <=> Belongs(a, op, x)
<1>1. \A op, x : C(op, x) \in InstallSet <=> Belongs("install", op, x)
  BY CommandIs DEF InstallSet, Belongs
<1>2. \A op, x : C(op, x) \in StartSet <=> Belongs("start", op, x)
  BY CommandIs DEF StartSet, Belongs
<1>3. \A op, x : C(op, x) \in StopSet <=> Belongs("stop", op, x)
  BY CommandIs DEF StopSet, Belongs
<1>4. \A op, x : C(op, x) \in CleanSet <=> Belongs("clean", op, x)
  BY CommandIs DEF CleanSet, Belongs
<1>5. /\ ScriptSet("install") = InstallSet /\ ScriptSet("start") = StartSet
      /\ ScriptSet("stop") = StopSet /\ ScriptSet("clean") = CleanSet
  BY DEF ScriptSet
<1> QED
  BY <1>1, <1>2, <1>3, <1>4, <1>5 DEF Scripts

\* What was passed, and what is next.
LEMMA PassedIs ==
    ASSUME TypeOK, InScript, action # "none"
    PROVE  /\ \A p, x : C(p, x) \in Did <=> x \in Passed(p)
           /\ Pending => \E op \in Op, x \in Thing : Current = C(op, x)
           /\ \A op, x : Pending /\ Current = C(op, x) => Belongs(action, op, x)
           /\ \A op, x : x \in Passed(op) => Belongs(action, op, x)
           /\ ~Pending => \A op, x : x \in Passed(op) <=> Belongs(action, op, x)
<1>0. action \in Scripts
  BY DEF TypeOK
<1>1. Did \subseteq Command /\ Did \subseteq ScriptSet(action)
  BY DidIs
<1>2. \A p, x : C(p, x) \in Did <=> x \in Passed(p)
  BY <1>1, CommandIs DEF Passed
<1>3. Pending => \E op \in Op, x \in Thing : Current = C(op, x)
  BY DidIs, CommandIs
<1>4. \A op, x : Pending /\ Current = C(op, x) => Belongs(action, op, x)
  BY <1>0, DidIs, SetsAre
<1>5. \A op, x : x \in Passed(op) => Belongs(action, op, x)
  BY <1>0, <1>1, <1>2, SetsAre
<1>6. ~Pending => \A op, x : x \in Passed(op) <=> Belongs(action, op, x)
  BY <1>0, <1>2, DidIs, SetsAre
<1> QED
  BY <1>2, <1>3, <1>4, <1>5, <1>6

\* How a step changes what was passed.
LEMMA PassedSteps ==
    ASSUME TypeOK, InScript
    PROVE  /\ Moves => \E o \in Op, x \in Thing :
                 /\ Current = C(o, x) /\ Passed(o)' = Passed(o) \cup {x}
                 /\ \A p : p # o => Passed(p)' = Passed(p)
           /\ Rests => \A p : Passed(p)' = Passed(p)
           /\ Issues => \A p : Passed(p)' = {}
<1>1. ASSUME Moves
      PROVE  \E o \in Op, x \in Thing :
                 /\ Current = C(o, x) /\ Passed(o)' = Passed(o) \cup {x}
                 /\ \A p : p # o => Passed(p)' = Passed(p)
  <2>1. Did' = Did \cup {Current}
    BY <1>1, OneMore DEF Moves
  <2>2. Current \in Command
    BY <1>1, DidIs, PendingIs DEF Moves
  <2>3. PICK o \in Op, x \in Thing : Current = C(o, x)
    BY <2>2, CommandIs
  <2>4. \A p, y : C(p, y) \in Did' <=> C(p, y) \in Did \/ (p = o /\ y = x)
    BY <2>1, <2>3, CommandIs
  <2>5. Passed(o)' = Passed(o) \cup {x} /\ \A p : p # o => Passed(p)' = Passed(p)
    BY <2>4 DEF Passed
  <2> QED
    BY <2>3, <2>5
<1>2. ASSUME Rests PROVE \A p : Passed(p)' = Passed(p)
  <2>1. UNCHANGED <<layout, action, pc>>
    BY <1>2 DEF Rests
  <2>2. Did' = Did
    BY <2>1, ConfigIsFixed DEF Did
  <2> QED
    BY <2>2 DEF Passed
<1>3. Issues => \A p : Passed(p)' = {}
  BY DEF Issues, Issue, Passed, Did, Before
<1> QED
  BY <1>1, <1>2, <1>3

\* What the commands of install.sh that were passed, and the next one, come after.
LEMMA InstallNeeds ==
    ASSUME TypeOK, InScript, action = "install", NEW op \in Op, NEW x \in Thing,
           x \in Passed(op) \/ (Pending /\ Current = C(op, x))
    PROVE  /\ op = "run" => /\ Host[x] \in Passed("prepare")
                            /\ x \in ToSet(StorageNodes) \ RunFirst => Primaries \subseteq Passed("wait")
           /\ op \in {"wait", "copy"} => x \in Passed("run")
           /\ op = "init" => ToSet(Nodes) \subseteq Passed("wait") /\ x \in Passed("copy")
           /\ op = "start_proxy" => x \in Passed("prepare")
<1>1. \A p, y : C(p, y) \in Did <=> y \in Passed(p)
  BY PassedIs
<1>2. Needs(action)[C(op, x)] \subseteq Did
  BY <1>1, DidIs
<1>3. NeedsInInstall(op, x) \subseteq Did
  BY <1>2, NeedsAre
<1>4. \A p, S : All(p, S) \subseteq Did => S \subseteq Passed(p)
  BY <1>1, CommandIs
<1>5. \A p, y : All(p, {y}) \subseteq Did => y \in Passed(p)
  BY <1>4
<1>6. op = "run" => /\ Host[x] \in Passed("prepare")
                    /\ x \in ToSet(StorageNodes) \ RunFirst => Primaries \subseteq Passed("wait")
  <2> SUFFICES ASSUME op = "run"
               PROVE  /\ Host[x] \in Passed("prepare")
                      /\ x \in ToSet(StorageNodes) \ RunFirst => Primaries \subseteq Passed("wait")
    OBVIOUS
  <2>1. NeedsInInstall(op, x) = All("prepare", {Host[x]})
                                 \cup (IF x \in ToSet(StorageNodes) \ RunFirst
                                         THEN All("wait", Primaries) ELSE {})
    BY DEF NeedsInInstall
  <2>2. All("prepare", {Host[x]}) \subseteq Did
    BY <1>3, <2>1
  <2>3. x \in ToSet(StorageNodes) \ RunFirst => All("wait", Primaries) \subseteq Did
    BY <1>3, <2>1
  <2> QED
    BY <1>4, <1>5, <2>2, <2>3
<1>7. op \in {"wait", "copy"} => x \in Passed("run")
  <2>1. op \in {"wait", "copy"} => NeedsInInstall(op, x) = All("run", {x})
    BY DEF NeedsInInstall
  <2> QED
    BY <1>3, <1>5, <2>1
<1>8. op = "init" => ToSet(Nodes) \subseteq Passed("wait") /\ x \in Passed("copy")
  <2>1. op = "init" => NeedsInInstall(op, x) = All("wait", ToSet(Nodes)) \cup All("copy", {x})
    BY DEF NeedsInInstall
  <2>2. op = "init" => All("wait", ToSet(Nodes)) \subseteq Did /\ All("copy", {x}) \subseteq Did
    BY <1>3, <2>1
  <2> QED
    BY <1>4, <1>5, <2>2
<1>9. op = "start_proxy" => x \in Passed("prepare")
  <2>1. op = "start_proxy" => NeedsInInstall(op, x) = All("prepare", {x})
    BY DEF NeedsInInstall
  <2> QED
    BY <1>3, <1>5, <2>1
<1> QED
  BY <1>6, <1>7, <1>8, <1>9

\* clean.sh removes the directories of a container after the container.
LEMMA CleanNeeds ==
    ASSUME TypeOK, InScript, action = "clean", NEW x \in Thing,
           x \in Passed("rm_dirs") \/ (Pending /\ Current = C("rm_dirs", x))
    PROVE  x \in Passed("rm")
<1>1. \A p, y : C(p, y) \in Did <=> y \in Passed(p)
  BY PassedIs
<1>2. Needs(action)[C("rm_dirs", x)] \subseteq Did
  BY <1>1, DidIs
<1>3. "rm_dirs" \in Op
  BY DEF Op
<1>4. NeedsInUse("rm_dirs", x) \subseteq Did
  BY <1>2, <1>3, NeedsAre
<1>5. C("rm", x) \in NeedsInUse("rm_dirs", x)
  BY CommandIs DEF NeedsInUse
<1> QED
  BY <1>1, <1>4, <1>5

-----------------------------------------------------------------------------
(* The inductive invariant.                                                *)

\* Only what is configured is there, on machines that are prepared; and what is left
\* when its container is gone lies in directories that were given.
Within ==
    /\ exists \subseteq Used /\ data \subseteq ToSet(Nodes)
    /\ \A n \in exists \cup data : Host[n] \in prepared
    /\ data \ layout.mounted \subseteq exists

\* A step that puts up no container, and fills only what runs.
LEMMA WithinIsKept ==
    ASSUME TypeOK, Within, UNCHANGED <<layout, exists>>, prepared \subseteq prepared',
           data' \subseteq data \cup (running \cap Node)
    PROVE  Within'
<1>1. UNCHANGED <<Used, Nodes>>
  BY ConfigIsFixed
<1>2. running \cap Node \subseteq exists \cap ToSet(Nodes)
  BY Configured DEF TypeOK, Within
<1>3. \A n \in exists' \cup data' : Host[n] \in prepared'
  BY <1>2 DEF Within
<1>4. layout'.mounted = layout.mounted
  OBVIOUS
<1>5. data' \ layout.mounted \subseteq exists
  BY <1>2 DEF Within
<1> QED
  BY <1>1, <1>2, <1>3, <1>4, <1>5 DEF Within

LEMMA WithinStep == ASSUME TypeOK, InScript, Within, [Next]_vars PROVE Within'
<1>1. CASE Issues
  BY <1>1, WithinIsKept DEF Issues, Issue, docker
<1>2. CASE Skips
  BY <1>2, WithinIsKept DEF Skips, Moves, docker
<1>3. CASE Ends
  BY <1>3, WithinIsKept DEF Ends, docker
<1>4. CASE Breaks
  BY <1>4, WithinIsKept DEF Breaks
<1>5. CASE Rests
  BY <1>5, WithinIsKept DEF Rests
<1>6. ASSUME NEW op \in Op, NEW x \in Thing, Runs(op, x) PROVE Within'
  <2>1. Effect(op, x) /\ Current = C(op, x) /\ CanRun(Current) /\ Pending /\ UNCHANGED layout
    BY <1>6 DEF Runs, Moves
  <2>2. Belongs(action, op, x)
    BY <2>1, PassedIs, PendingIs
  <2>3. UNCHANGED <<Used, Nodes>> /\ layout'.mounted = layout.mounted
    BY <2>1, ConfigIsFixed
  <2>4. prepared \subseteq prepared'
    BY <2>1 DEF Effect
  <2>5. CASE op = "run"
    <3>1. x \in Used
      BY <2>2, <2>5 DEF Belongs
    <3>2. Host[x] \in prepared
      BY <2>1, <2>5, CommandIs DEF CanRun
    <3>3. exists' = exists \cup {x} /\ data' = data
      BY <2>1, <2>5 DEF Effect
    <3>4. exists' \subseteq Used' /\ data' \subseteq ToSet(Nodes)'
      BY <2>3, <3>1, <3>3 DEF Within
    <3>5. \A n \in exists' \cup data' : Host[n] \in prepared'
      BY <2>4, <3>2, <3>3 DEF Within
    <3>6. data' \ layout'.mounted \subseteq exists'
      BY <2>3, <3>3 DEF Within
    <3> QED
      BY <3>4, <3>5, <3>6 DEF Within
  <2>6. CASE op = "rm"
    <3>1. exists' = exists \ {x} /\ data' = IF x \notin layout.mounted THEN data \ {x} ELSE data
      BY <2>1, <2>6 DEF Effect
    <3>2. exists' \subseteq Used' /\ data' \subseteq ToSet(Nodes)'
      BY <2>3, <3>1 DEF Within
    <3>3. \A n \in exists' \cup data' : Host[n] \in prepared'
      BY <2>4, <3>1 DEF Within
    <3>4. data' \ layout'.mounted \subseteq exists'
      BY <2>3, <3>1 DEF Within
    <3> QED
      BY <3>2, <3>3, <3>4 DEF Within
  <2>7. CASE op \notin {"run", "rm"}
    BY <2>1, <2>4, <2>7, WithinIsKept DEF Effect
  <2> QED
    BY <2>5, <2>6, <2>7
<1> QED
  BY <1>1, <1>2, <1>3, <1>4, <1>5, <1>6, ScriptSteps

\* An install that began on clean machines, or where another was cut short with all it
\* had started still up, has done what it has passed: it passes over only what is there.
InstallSoFar ==
    FromStart =>
        /\ exists = running /\ data \subseteq exists
        /\ Passed("prepare") \subseteq prepared
        /\ layout.imageInFiles => Passed("prepare") \subseteq images
        /\ Passed("run") \subseteq exists /\ Passed("wait") \subseteq serving
        /\ Passed("copy") # {} => copied
        /\ Passed("init") # {} => inited
        /\ Passed("start_proxy") \subseteq proxyUp
        /\ base = "pristine" => exists \subseteq Passed("run")

\* What a step leaves done is what install.sh has passed by then.
LEMMA InstallMoves ==
    ASSUME TypeOK, InScript, InstallSoFar, FromStart, Moves, NEW o \in Op, NEW x \in Thing,
           Passed(o)' = Passed(o) \cup {x}, \A p : p # o => Passed(p)' = Passed(p),
           exists' = running', data' \subseteq data,
           exists \subseteq exists', exists' \subseteq exists \cup (IF o = "run" THEN {x} ELSE {}),
           prepared \subseteq prepared', images \subseteq images',
           serving \subseteq serving', proxyUp \subseteq proxyUp',
           copied => copied', inited => inited',
           o = "prepare" => x \in prepared' /\ (layout.imageInFiles => x \in images'),
           o = "run" => x \in exists', o = "wait" => x \in serving',
           o = "copy" => copied', o = "init" => inited', o = "start_proxy" => x \in proxyUp'
    PROVE  InstallSoFar'
<1> USE DEF InstallSoFar
<1>1. data' \subseteq exists'
  OBVIOUS
<1>2. Passed("prepare")' \subseteq prepared'
  OBVIOUS
<1>3. layout'.imageInFiles => Passed("prepare")' \subseteq images'
  <2>1. layout'.imageInFiles = layout.imageInFiles
    BY DEF Moves
  <2> QED
    BY <2>1
<1>4. Passed("run")' \subseteq exists'
  OBVIOUS
<1>5. Passed("wait")' \subseteq serving'
  OBVIOUS
<1>6. Passed("copy")' # {} => copied'
  OBVIOUS
<1>7. Passed("init")' # {} => inited'
  OBVIOUS
<1>8. Passed("start_proxy")' \subseteq proxyUp'
  OBVIOUS
<1>9. base' = "pristine" => exists' \subseteq Passed("run")'
  BY DEF Moves
<1> QED
  BY <1>1, <1>2, <1>3, <1>4, <1>5, <1>6, <1>7, <1>8, <1>9

LEMMA InstallStep == ASSUME TypeOK, InScript, InstallSoFar, [Next]_vars PROVE InstallSoFar'
<1>1. CASE Issues
  <2>1. PICK a \in Scripts : Issue(a)
    BY <1>1 DEF Issues
  <2>2. \A p : Passed(p)' = {}
    BY <1>1, PassedSteps
  <2>3. /\ base' = "pristine" => exists = {} /\ data = {}
        /\ base' = "resumable" => exists = running /\ data \subseteq exists
    BY <2>1 DEF Issue, Pristine, Resumable
  <2>4. UNCHANGED <<exists, running, data>>
    BY <2>1 DEF Issue, docker
  <2> QED
    BY <2>2, <2>3, <2>4 DEF InstallSoFar, FromStart, TypeOK
<1>2. CASE Ends
  BY <1>2 DEF Ends, InstallSoFar, FromStart
<1>3. CASE Breaks
  BY <1>3 DEF Breaks, InstallSoFar, FromStart
<1>4. CASE Rests
  <2>1. \A p : Passed(p)' = Passed(p)
    BY <1>4, PassedSteps
  <2>2. FromStart' => FromStart
    BY <1>4, Zenon DEF Rests, FromStart
  <2>3. /\ UNCHANGED <<layout, base, exists, running, prepared, images>>
        /\ UNCHANGED <<copied, inited, proxyUp>>
        /\ serving \subseteq serving' /\ data' \subseteq data \cup running
    BY <1>4 DEF Rests, rest
  <2> QED
    BY <2>1, <2>2, <2>3 DEF InstallSoFar
<1>5. ASSUME Moves, UNCHANGED smooth, ~FromStart PROVE InstallSoFar'
  <2>1. ~FromStart'
    BY <1>5, Zenon DEF Moves, FromStart
  <2> QED
    BY <2>1 DEF InstallSoFar
<1>6. CASE Skips /\ FromStart
  <2>1. PICK o \in Op, x \in Thing :
                 /\ Current = C(o, x) /\ Passed(o)' = Passed(o) \cup {x}
                 /\ \A p : p # o => Passed(p)' = Passed(p)
    BY <1>6, PassedSteps DEF Skips
  <2>2. Moves /\ Pending /\ action = "install" /\ ~CanRun(C(o, x)) /\ UNCHANGED <<docker, rest>>
    BY <1>6, <2>1 DEF Skips, Moves, FromStart
  <2>3. UNCHANGED <<prepared, exists, running, serving, data, images, copied, inited, proxyUp>>
    BY <2>2 DEF docker, rest
  <2>4. Belongs("install", o, x)
    BY <2>1, <2>2, PassedIs
  <2>5. /\ o = "run" => Host[x] \in Passed("prepare")
        /\ o \in {"wait", "copy"} => x \in Passed("run")
        /\ o = "init" => ToSet(Nodes) \subseteq Passed("wait") /\ x \in Passed("copy")
        /\ o = "start_proxy" => x \in Passed("prepare")
    BY <2>1, <2>2, InstallNeeds
  <2>6. o # "prepare"
    BY <2>2, CommandIs DEF CanRun
  <2>7. o = "run" => x \in exists
    BY <1>6, <2>2, <2>5, CommandIs DEF CanRun, InstallSoFar
  <2>8. o # "wait" /\ o # "copy"
    BY <1>6, <2>2, <2>5, CommandIs DEF CanRun, InstallSoFar
  <2>9. o = "init" => inited
    <3>1. layout.comps # <<>>
      BY <2>2 DEF InScript
    <3>2. o = "init" => x \in ToSet(Nodes)
      BY <2>4, <3>1, Configured DEF Belongs
    <3> QED
      BY <1>6, <2>2, <2>5, <3>2, CommandIs DEF CanRun, CanInit, InstallSoFar
  <2>10. o = "start_proxy" => x \in proxyUp
    BY <1>6, <2>2, <2>5, CommandIs DEF CanRun, InstallSoFar
  <2>11. exists = running
    BY <1>6 DEF InstallSoFar
  <2> QED
    BY <1>6, <2>1, <2>2, <2>3, <2>6, <2>7, <2>8, <2>9, <2>10, <2>11, InstallMoves
<1>7. ASSUME NEW op \in Op, NEW y \in Thing, Runs(op, y), FromStart PROVE InstallSoFar'
  <2>1. PICK o \in Op, x \in Thing :
                 /\ Current = C(o, x) /\ Passed(o)' = Passed(o) \cup {x}
                 /\ \A p : p # o => Passed(p)' = Passed(p)
    BY <1>7, PassedSteps DEF Runs
  <2>2. o = op /\ x = y
    <3>1. C(o, x) = C(op, y)
      BY <1>7, <2>1 DEF Runs
    <3> QED
      BY <3>1, CommandIs
  <2>3. Moves /\ Pending /\ action = "install" /\ Effect(o, x)
    BY <1>7, <2>2 DEF Runs, Moves, FromStart
  <2>4. o \in {"prepare", "run", "wait", "copy", "init", "start_proxy"}
    <3>1. Belongs("install", o, x)
      BY <2>1, <2>3, PassedIs
    <3> QED
      BY <3>1 DEF Belongs
  <2>5. exists = running
    BY <1>7 DEF InstallSoFar
  <2>6. /\ exists' = IF o = "run" THEN exists \cup {x} ELSE exists
        /\ running' = IF o = "run" THEN running \cup {x} ELSE running
        /\ data' = data /\ serving' = serving
        /\ prepared' = IF o = "prepare" THEN prepared \cup {x} ELSE prepared
        /\ proxyUp' = IF o = "start_proxy" THEN proxyUp \cup {x} ELSE proxyUp
        /\ images \subseteq images' /\ (o = "prepare" /\ layout.imageInFiles => x \in images')
        /\ o = "wait" => x \in serving
    BY <2>3, <2>4 DEF Effect
  <2>7. /\ copied => copied'
        /\ inited => inited'
        /\ o = "copy" => copied'
        /\ o = "init" => inited'
    BY <2>3, <2>4 DEF Effect
  <2> QED
    BY <1>7, <2>1, <2>3, <2>5, <2>6, <2>7, InstallMoves
<1> QED
  BY <1>1, <1>2, <1>3, <1>4, <1>5, <1>6, <1>7, ScriptSteps DEF Skips, Runs

\* start.sh and stop.sh leave a complete installation complete; what the one has
\* passed is up, and what the other has passed is down.
Intact ==
    smooth /\ action \in {"start", "stop"} /\ base = "installed" =>
        /\ Complete
        /\ action = "start" => Passed("start") \subseteq running /\ Passed("start_proxy") \subseteq proxyUp
        /\ action = "stop" => Passed("stop") \cap running = {} /\ Passed("stop_proxy") \cap proxyUp = {}

LEMMA CompleteIsFixed ==
    ASSUME UNCHANGED <<layout, exists, prepared, copied, inited>> PROVE Complete' = Complete
<1>1. UNCHANGED Used
  BY ConfigIsFixed
<1> QED
  BY <1>1 DEF Complete

LEMMA IntactStep == ASSUME TypeOK, InScript, Intact, [Next]_vars PROVE Intact'
<1> DEFINE Relevant == smooth /\ action \in {"start", "stop"} /\ base = "installed"
<1>1. CASE Issues
  <2>1. PICK a \in Scripts : Issue(a)
    BY <1>1 DEF Issues
  <2>2. \A p : Passed(p)' = {}
    BY <1>1, PassedSteps
  <2>3. base' = "installed" => Complete
    BY <2>1 DEF Issue
  <2>4. Complete' = Complete
    BY <2>1, CompleteIsFixed DEF Issue, docker, rest
  <2> QED
    BY <2>2, <2>3, <2>4 DEF Intact
<1>2. CASE Ends
  BY <1>2 DEF Ends, Intact
<1>3. CASE Breaks
  BY <1>3 DEF Breaks, Intact
<1>4. CASE Rests
  <2>1. \A p : Passed(p)' = Passed(p)
    BY <1>4, PassedSteps
  <2>2. Complete' = Complete
    BY <1>4, CompleteIsFixed DEF Rests, rest
  <2>3. UNCHANGED <<action, base, smooth, running, proxyUp>>
    BY <1>4 DEF Rests, rest
  <2> QED
    BY <2>1, <2>2, <2>3 DEF Intact
<1>5. ASSUME Moves, UNCHANGED smooth, ~Relevant PROVE Intact'
  <2>1. ~Relevant'
    BY <1>5, Zenon DEF Moves
  <2> QED
    BY <2>1 DEF Intact
<1>6. CASE Skips /\ Relevant
  <2>1. PICK o \in Op, x \in Thing :
                 /\ Current = C(o, x) /\ Passed(o)' = Passed(o) \cup {x}
                 /\ \A p : p # o => Passed(p)' = Passed(p)
    BY <1>6, PassedSteps DEF Skips
  <2>2. /\ Pending /\ ~CanRun(C(o, x))
        /\ UNCHANGED <<layout, action, base, prepared, exists, running, copied, inited, proxyUp>>
    BY <1>6, <2>1 DEF Skips, Moves, docker, rest
  <2>3. Belongs(action, o, x)
    BY <2>1, <2>2, <1>6, PassedIs
  <2>4. Complete /\ Complete' = Complete
    BY <1>6, <2>2, CompleteIsFixed DEF Intact
  <2>5. o # "start" /\ o # "stop"
    BY <2>2, <2>3, <2>4, CommandIs DEF Belongs, Complete, CanRun
  <2>6. action = "start" /\ o = "start_proxy" => x \in proxyUp
    BY <2>2, <2>3, <2>4, CommandIs DEF Belongs, Complete, CanRun
  <2>7. action = "stop" /\ o = "stop_proxy" => x \notin proxyUp
    BY <2>2, CommandIs DEF CanRun
  <2>8. action = "start" => Passed("start")' \subseteq running' /\ Passed("start_proxy")' \subseteq proxyUp'
    BY <1>6, <2>1, <2>2, <2>5, <2>6 DEF Intact
  <2>9. action = "stop" => Passed("stop")' \cap running' = {} /\ Passed("stop_proxy")' \cap proxyUp' = {}
    BY <1>6, <2>1, <2>2, <2>5, <2>7 DEF Intact
  <2> QED
    BY <2>2, <2>4, <2>8, <2>9 DEF Intact
<1>7. ASSUME NEW op \in Op, NEW y \in Thing, Runs(op, y), Relevant PROVE Intact'
  <2>1. PICK o \in Op, x \in Thing :
                 /\ Current = C(o, x) /\ Passed(o)' = Passed(o) \cup {x}
                 /\ \A p : p # o => Passed(p)' = Passed(p)
    BY <1>7, PassedSteps DEF Runs
  <2>2. o = op /\ x = y
    <3>1. C(o, x) = C(op, y)
      BY <1>7, <2>1 DEF Runs
    <3> QED
      BY <3>1, CommandIs
  <2>3. Pending /\ UNCHANGED <<layout, action, base>> /\ Effect(o, x)
    BY <1>7, <2>2 DEF Runs, Moves
  <2>4. Belongs(action, o, x)
    BY <2>1, <2>3, <1>7, PassedIs
  <2>5. o \in {"start", "wait", "start_proxy", "stop", "stop_proxy"}
    BY <1>7, <2>4 DEF Belongs
  <2>6. UNCHANGED <<prepared, exists, copied, inited>>
    BY <2>3, <2>5 DEF Effect
  <2>7. Complete /\ Complete' = Complete
    BY <1>7, <2>3, <2>6, CompleteIsFixed DEF Intact
  <2>8. /\ running' = CASE o = "start" -> running \cup {x} [] o = "stop" -> running \ {x} [] OTHER -> running
        /\ proxyUp' = CASE o = "start_proxy" -> proxyUp \cup {x} [] o = "stop_proxy" -> proxyUp \ {x}
                        [] OTHER -> proxyUp
    BY <2>3, <2>5 DEF Effect
  <2>9. /\ action = "start" => o \in {"start", "wait", "start_proxy"}
        /\ action = "stop" => o \in {"stop", "stop_proxy"}
    BY <2>4 DEF Belongs
  <2>10. action = "start" => Passed("start")' \subseteq running' /\ Passed("start_proxy")' \subseteq proxyUp'
    <3>1. action = "start" => Passed("start") \subseteq running /\ Passed("start_proxy") \subseteq proxyUp
      BY <1>7 DEF Intact
    <3>2. action = "start" => running \subseteq running' /\ (o = "start" => x \in running')
      BY <2>8, <2>9
    <3>3. action = "start" => proxyUp \subseteq proxyUp' /\ (o = "start_proxy" => x \in proxyUp')
      BY <2>8, <2>9
    <3> QED
      BY <2>1, <3>1, <3>2, <3>3
  <2>11. action = "stop" => Passed("stop")' \cap running' = {} /\ Passed("stop_proxy")' \cap proxyUp' = {}
    <3>1. action = "stop" => Passed("stop") \cap running = {} /\ Passed("stop_proxy") \cap proxyUp = {}
      BY <1>7 DEF Intact
    <3>2. action = "stop" => running' \subseteq running /\ (o = "stop" => x \notin running')
      BY <2>8, <2>9
    <3>3. action = "stop" => proxyUp' \subseteq proxyUp /\ (o = "stop_proxy" => x \notin proxyUp')
      BY <2>8, <2>9
    <3> QED
      BY <2>1, <3>1, <3>2, <3>3
  <2> QED
    BY <2>3, <2>7, <2>10, <2>11 DEF Intact
<1> QED
  BY <1>1, <1>2, <1>3, <1>4, <1>5, <1>6, <1>7, ScriptSteps DEF Skips, Runs

\* What clean.sh has passed is gone; what is left of a container lies in directories
\* that were given, and that clean.sh has yet to remove.
CleanSoFar ==
    smooth /\ action = "clean" =>
        /\ Passed("rm") \cap exists = {} /\ Passed("stop_proxy") \cap proxyUp = {}
        /\ \A n \in Passed("rm") \cap data : n \in layout.mounted /\ n \notin Passed("rm_dirs")

LEMMA CleanStep == ASSUME TypeOK, InScript, Within, CleanSoFar, [Next]_vars PROVE CleanSoFar'
<1> DEFINE Relevant == smooth /\ action = "clean"
<1>1. CASE Issues
  BY <1>1, PassedSteps DEF CleanSoFar
<1>2. CASE Ends
  BY <1>2 DEF Ends, CleanSoFar
<1>3. CASE Breaks
  BY <1>3 DEF Breaks, CleanSoFar
<1>4. CASE Rests
  <2>1. \A p : Passed(p)' = Passed(p)
    BY <1>4, PassedSteps
  <2>2. UNCHANGED <<layout, action, smooth, exists, proxyUp>> /\ data' \subseteq data \cup running
    BY <1>4 DEF Rests, rest
  <2>3. running \subseteq exists
    BY DEF TypeOK
  <2> QED
    BY <2>1, <2>2, <2>3 DEF CleanSoFar
<1>5. ASSUME Moves, UNCHANGED smooth, ~Relevant PROVE CleanSoFar'
  <2>1. ~Relevant'
    BY <1>5, Zenon DEF Moves
  <2> QED
    BY <2>1 DEF CleanSoFar
\* What the command leaves behind.
<1>6. ASSUME Moves, Relevant, NEW o \in Op, NEW x \in Thing, Current = C(o, x),
             Passed(o)' = Passed(o) \cup {x}, \A p : p # o => Passed(p)' = Passed(p),
             exists' \subseteq exists, proxyUp' \subseteq proxyUp, data' \subseteq data,
             o = "rm" => x \notin exists' /\ (x \in data' => x \in layout.mounted),
             o = "rm_dirs" => x \notin data', o = "stop_proxy" => x \notin proxyUp'
      PROVE  CleanSoFar'
  <2>1. /\ Passed("rm") \cap exists = {} /\ Passed("stop_proxy") \cap proxyUp = {}
        /\ \A n \in Passed("rm") \cap data : n \in layout.mounted /\ n \notin Passed("rm_dirs")
    BY <1>6 DEF CleanSoFar
  <2>2. \A n \in Thing : n \in Passed("rm_dirs") => n \in Passed("rm")
    BY <1>6, CleanNeeds
  <2>3. layout'.mounted = layout.mounted
    BY <1>6 DEF Moves
  <2>4. Passed("rm")' \cap exists' = {} /\ Passed("stop_proxy")' \cap proxyUp' = {}
    BY <1>6, <2>1
  <2>5. ASSUME NEW n \in Passed("rm")' \cap data' PROVE n \in layout.mounted /\ n \notin Passed("rm_dirs")'
    <3>1. CASE n \in Passed("rm")
      BY <1>6, <2>1, <2>5, <3>1
    <3>2. CASE n \notin Passed("rm")
      <4>1. o = "rm" /\ n = x /\ n \in layout.mounted
        BY <1>6, <2>5, <3>2
      <4>2. n \notin Passed("rm_dirs") /\ Passed("rm_dirs")' = Passed("rm_dirs")
        BY <1>6, <2>2, <3>2, <4>1
      <4> QED
        BY <4>1, <4>2
    <3> QED
      BY <3>1, <3>2
  <2> QED
    BY <2>3, <2>4, <2>5 DEF CleanSoFar
<1>7. CASE Skips /\ Relevant
  <2>1. PICK o \in Op, x \in Thing :
                 /\ Current = C(o, x) /\ Passed(o)' = Passed(o) \cup {x}
                 /\ \A p : p # o => Passed(p)' = Passed(p)
    BY <1>7, PassedSteps DEF Skips
  <2>2. Moves /\ ~CanRun(C(o, x)) /\ UNCHANGED <<exists, data, proxyUp>>
    BY <1>7, <2>1 DEF Skips, docker, rest
  <2>3. o = "rm" => x \notin exists /\ (x \in data => x \in layout.mounted)
    BY <2>2, CommandIs DEF CanRun, Within
  <2>4. o = "rm_dirs" => x \notin data
    BY <2>2, CommandIs DEF CanRun, Within
  <2>5. o = "stop_proxy" => x \notin proxyUp
    BY <2>2, CommandIs DEF CanRun
  <2> HIDE DEF Relevant
  <2> QED
    BY <1>6, <1>7, <2>1, <2>2, <2>3, <2>4, <2>5
<1>8. ASSUME NEW op \in Op, NEW y \in Thing, Runs(op, y), Relevant PROVE CleanSoFar'
  <2>1. PICK o \in Op, x \in Thing :
                 /\ Current = C(o, x) /\ Passed(o)' = Passed(o) \cup {x}
                 /\ \A p : p # o => Passed(p)' = Passed(p)
    BY <1>8, PassedSteps DEF Runs
  <2>2. o = op /\ x = y
    <3>1. C(o, x) = C(op, y)
      BY <1>8, <2>1 DEF Runs
    <3> QED
      BY <3>1, CommandIs
  <2>3. Moves /\ Pending /\ Effect(o, x)
    BY <1>8, <2>2 DEF Runs, Moves
  <2>4. Belongs("clean", o, x)
    BY <2>1, <2>3, <1>8, PassedIs
  <2>5. o \in {"stop_proxy", "rm", "rm_dirs", "rm_images"}
    BY <2>4 DEF Belongs
  <2>6. /\ exists' = IF o = "rm" THEN exists \ {x} ELSE exists
        /\ proxyUp' = IF o = "stop_proxy" THEN proxyUp \ {x} ELSE proxyUp
        /\ data' = IF o = "rm_dirs" \/ (o = "rm" /\ x \notin layout.mounted) THEN data \ {x} ELSE data
    BY <2>3, <2>5 DEF Effect
  <2> HIDE DEF Relevant
  <2> QED
    BY <1>6, <1>8, <2>1, <2>3, <2>6
<1> QED
  BY <1>1, <1>2, <1>3, <1>4, <1>5, <1>7, <1>8, ScriptSteps DEF Skips, Runs

\* The course of a script, whatever was passed of it.
Course == InScript /\ Within /\ InstallSoFar /\ Intact /\ CleanSoFar
LEMMA CourseHolds == Spec => []Course
<1>1. Init => Course
  <2> SUFFICES ASSUME Init PROVE Course
    OBVIOUS
  <2>1. action = "none" /\ commands = Commands("none") /\ exists = {} /\ data = {}
    BY DEF Init, Commands
  <2> QED
    BY <2>1 DEF Course, InScript, Within, InstallSoFar, FromStart, Intact, CleanSoFar
<1>2. TypeOK /\ TypeOK' /\ Course /\ [Next]_vars => Course'
  BY ScriptPosition, WithinStep, InstallStep, IntactStep, CleanStep DEF Course
<1> QED
  BY <1>1, <1>2, DockerTyping, PTL DEF Spec

-----------------------------------------------------------------------------
(* What install.sh and clean.sh come to.                                   *)

\* Where the last command of a script is done, each of its commands was passed.
LEMMA AllPassed ==
    ASSUME TypeOK, InScript, action # "none", ~Pending
    PROVE  /\ action = "install" =>
                /\ Passed("run") = Used /\ Passed("wait") = ToSet(Nodes)
                /\ Passed("copy") # {} /\ Passed("init") # {} /\ Passed("start_proxy") = layout.proxy
           /\ action = "start" => Passed("start") = Used /\ Passed("start_proxy") = layout.proxy
           /\ action = "stop" => Passed("stop") = Used /\ Passed("stop_proxy") = layout.proxy
           /\ action = "clean" => /\ Passed("rm") = Used /\ Passed("stop_proxy") = layout.proxy
                                  /\ Passed("rm_dirs") = ToSet(Nodes) \cap layout.mounted
<1>1. \A op, x : x \in Passed(op) <=> Belongs(action, op, x)
  BY PassedIs
<1>2. ASSUME action = "install"
      PROVE  /\ Passed("run") = Used /\ Passed("wait") = ToSet(Nodes)
             /\ Passed("copy") # {} /\ Passed("init") # {} /\ Passed("start_proxy") = layout.proxy
  <2>1. \A x : /\ x \in Passed("run") <=> x \in Used
               /\ x \in Passed("wait") <=> x \in ToSet(Nodes)
               /\ x \in Passed("start_proxy") <=> x \in layout.proxy
    BY <1>1, <1>2 DEF Belongs
  <2>2. layout.comps[1] \in Passed("copy") /\ layout.comps[1] \in Passed("init")
    BY <1>1, <1>2 DEF Belongs
  <2> QED
    BY <2>1, <2>2
<1>3. ASSUME action = "start" PROVE Passed("start") = Used /\ Passed("start_proxy") = layout.proxy
  <2>1. \A x : /\ x \in Passed("start") <=> x \in Used
               /\ x \in Passed("start_proxy") <=> x \in layout.proxy
    BY <1>1, <1>3 DEF Belongs
  <2> QED
    BY <2>1
<1>4. ASSUME action = "stop" PROVE Passed("stop") = Used /\ Passed("stop_proxy") = layout.proxy
  <2>1. \A x : /\ x \in Passed("stop") <=> x \in Used
               /\ x \in Passed("stop_proxy") <=> x \in layout.proxy
    BY <1>1, <1>4 DEF Belongs
  <2> QED
    BY <2>1
<1>5. ASSUME action = "clean"
      PROVE  /\ Passed("rm") = Used /\ Passed("stop_proxy") = layout.proxy
             /\ Passed("rm_dirs") = ToSet(Nodes) \cap layout.mounted
  <2>1. \A x : /\ x \in Passed("rm") <=> x \in Used
               /\ x \in Passed("stop_proxy") <=> x \in layout.proxy
               /\ x \in Passed("rm_dirs") <=> x \in ToSet(Nodes) \cap layout.mounted
    BY <1>1, <1>5 DEF Belongs
  <2> QED
    BY <2>1
<1> QED
  BY <1>2, <1>3, <1>4, <1>5

\* An install that nothing disturbed is complete at its end, with all of it up.
LEMMA InstallEnds ==
    ASSUME TypeOK, Course, FromStart, ~Pending
    PROVE  Complete /\ AllUp /\ Nodes # <<>> /\ ToSet(Nodes) \subseteq serving /\ data \subseteq Used
<1> USE DEF Course
<1>1. action = "install" /\ layout.comps # <<>>
  BY DEF FromStart, InScript
<1>2. /\ Passed("run") = Used /\ Passed("wait") = ToSet(Nodes)
      /\ Passed("copy") # {} /\ Passed("init") # {} /\ Passed("start_proxy") = layout.proxy
  BY <1>1, AllPassed
<1>3. /\ exists = running /\ data \subseteq exists /\ Used \subseteq exists
      /\ ToSet(Nodes) \subseteq serving /\ copied /\ inited /\ layout.proxy \subseteq proxyUp
  BY <1>2 DEF InstallSoFar
<1>4. exists = Used /\ running = Used
  BY <1>3 DEF Within
<1>5. proxyUp = layout.proxy /\ layout.proxy \subseteq prepared
  BY <1>3 DEF TypeOK
<1>6. Nodes # <<>>
  <2>1. layout.comps[1] \in ToSet(Nodes)
    BY <1>1, Configured
  <2> QED
    BY <2>1 DEF ToSet
<1> QED
  BY <1>3, <1>4, <1>5, <1>6 DEF Complete, AllUp

\* install.sh run again after an interrupt completes the installation, in every
\* configuration that the generator accepts: all containers are made and run, all
\* servers answer, the cluster is made, and haproxy is up.
THEOREM InterruptedInstallResumes == Spec => []InstallResumes
<1>1. TypeOK /\ Course => InstallResumes
  <2> SUFFICES ASSUME TypeOK, Course, AtEnd("install"), FromStart
               PROVE  Complete /\ AllUp /\ Nodes # <<>> /\ ToSet(Nodes) \subseteq serving
    BY DEF InstallResumes
  <2>1. ~Pending
    <3>1. action = "install" /\ pc > Len(Commands(action))
      BY DEF AtEnd
    <3> QED
      BY <3>1, DidIs DEF Course
  <2> QED
    BY <2>1, InstallEnds
<1> QED
  BY <1>1, CourseHolds, DockerTyping, PTL

\* A replica that is run, or was, comes after its primary answered.
LEMMA ReplicaWaits ==
    ASSUME TypeOK, Course, FromStart, NEW n \in Storage, IsReplica(n), ModeOf(n) = "mgr",
           n \in Passed("run") \/ (Pending /\ Current = C("run", n))
    PROVE  PrimaryOf(n) \in serving
<1> USE DEF Course
<1>1. action = "install" /\ ValidConfig
  BY DEF FromStart, InScript
<1>2. n \in Thing /\ "run" \in Op
  BY DEF Thing, Container, Node, Op
<1>3. n \in ToSet(StorageNodes)
  <2>1. Belongs("install", "run", n)
    BY <1>1, PassedIs
  <2> QED
    BY <2>1, Configured DEF Belongs
<1>4. n \notin RunFirst
  BY DEF RunFirst, IsReplica
<1>5. Primaries \subseteq Passed("wait")
  BY <1>1, <1>2, <1>3, <1>4, InstallNeeds
<1>6. PrimaryOf(n) \in Primaries
  BY <1>1, <1>3, PrimaryIs
<1> QED
  BY <1>5, <1>6 DEF InstallSoFar

\* No replica of a group replication shard gets its container, or becomes ready for
\* the first time, before its primary answers: whatever the configuration, and also
\* in an install that goes on where another was cut short.
THEOREM ReplicasJoinLivePrimary == Spec => JoinsLivePrimary
<1> DEFINE A == FromStart =>
              \A n \in Storage :
                 /\ n \in exists' \ exists \/ (base = "pristine" /\ n \in data' \ data)
                 /\ IsReplica(n) /\ ModeOf(n) = "mgr"
                 => PrimaryOf(n) \in serving
<1>1. TypeOK /\ Course /\ [Next]_vars => [A]_vars
  <2> SUFFICES ASSUME TypeOK, Course, [Next]_vars, FromStart, NEW n \in Storage,
                      n \in exists' \ exists \/ (base = "pristine" /\ n \in data' \ data),
                      IsReplica(n), ModeOf(n) = "mgr"
               PROVE  PrimaryOf(n) \in serving
    OBVIOUS
  <2> USE DEF Course
  <2>1. CASE Issues
    BY <2>1 DEF Issues, Issue, docker
  <2>2. CASE Skips
    BY <2>2 DEF Skips, docker
  <2>3. CASE Ends
    BY <2>3 DEF Ends, docker
  <2>4. CASE Breaks
    BY <2>4 DEF Breaks
  <2>5. CASE Rests
    <3>1. base = "pristine" /\ n \in running
      BY <2>5 DEF Rests
    <3>2. n \in Passed("run")
      BY <3>1 DEF InstallSoFar
    <3> QED
      BY <3>2, ReplicaWaits
  <2>6. ASSUME NEW op \in Op, NEW x \in Thing, Runs(op, x) PROVE PrimaryOf(n) \in serving
    <3>1. op = "run" /\ x = n
      BY <2>6 DEF Runs, Effect
    <3>2. Pending /\ Current = C("run", n)
      BY <2>6, <3>1 DEF Runs, Moves
    <3> QED
      BY <3>2, ReplicaWaits
  <2> QED
    BY <2>1, <2>2, <2>3, <2>4, <2>5, <2>6, ScriptSteps
<1>2. JoinsLivePrimary <=> [][A]_vars
  BY DEF JoinsLivePrimary
<1> HIDE DEF A
<1> QED
  BY <1>1, <1>2, CourseHolds, DockerTyping, PTL DEF Spec

\* clean.sh never passes a container or a haproxy that is still there, unless
\* something fails by itself or a machine crashes.
THEOREM CleanIsThorough == Spec => []CleanSkipsNothing
<1>1. TypeOK /\ Course => CleanSkipsNothing
  <2> SUFFICES ASSUME TypeOK, Course, smooth, action = "clean", NEW i \in 1..(pc - 1)
               PROVE  Gone(CleanScript[i])
    BY DEF CleanSkipsNothing
  <2> USE DEF Course
  <2> DEFINE c == CleanScript[i]
  <2>1. c \in Did
    BY DEF Did, Before, Commands
  <2>2. c \in Command
    BY <2>1, DidIs
  <2>3. c = C(c.op, c.on)
    BY <2>2, CommandIs
  <2> HIDE DEF c
  <2>4. c.on \in Passed(c.op)
    BY <2>1, <2>3, PassedIs
  <2>5. Passed("rm") \cap exists = {} /\ Passed("stop_proxy") \cap proxyUp = {}
    BY DEF CleanSoFar
  <2>6. Gone(c)
    BY <2>4, <2>5 DEF Gone, TypeOK
  <2> QED
    BY <2>6 DEF c
<1> QED
  BY <1>1, CourseHolds, DockerTyping, PTL

-----------------------------------------------------------------------------
(* The scripts against the abstract ones of Lifecycle.                     *)

\* Where the last command is done, the machines are in the state that a script in
\* which nothing went wrong promises.
LEMMA EndsWell ==
    ASSUME TypeOK, Course, action # "none", ~Pending, smooth, BaseName \in Life!MadeFor(action)
    PROVE  Life!Outcome(action)
<1> USE DEF Course
<1>1. action \in {"install", "start", "stop", "clean"} /\ ToSet(Nodes) = Used \cap Node
  BY Configured DEF TypeOK, Scripts
<1>2. CASE action = "install"
  <2>1. base = "pristine"
    BY <1>2 DEF Life!MadeFor, BaseName
  <2>2. FromStart
    BY <1>2, <2>1 DEF FromStart
  <2>3. exists = Used /\ running = Used /\ proxyUp = layout.proxy /\ data \subseteq Used
    BY <2>2, InstallEnds DEF Complete, AllUp
  <2>4. Present = ToSet(Nodes)
    BY <1>1, <2>3 DEF Present, TypeOK
  <2>5. ProcessesUp = Processes
    BY <2>3 DEF ProcessesUp, Processes
  <2> QED
    BY <1>2, <2>4, <2>5 DEF Life!Outcome
<1>3. CASE action \in {"start", "stop"}
  <2>1. base = "installed"
    BY <1>3 DEF Life!MadeFor, BaseName
  <2>2. exists = Used
    BY <1>3, <2>1 DEF Intact, Complete
  <2>3. Present = ToSet(Nodes)
    BY <1>1, <2>2 DEF Present, Within
  <2>4. ASSUME action = "start" PROVE ProcessesUp = Processes
    <3>1. Used \subseteq running /\ layout.proxy \subseteq proxyUp
      BY <2>1, <2>4, AllPassed DEF Intact
    <3>2. running = Used /\ proxyUp = layout.proxy
      BY <2>2, <3>1 DEF TypeOK
    <3> QED
      BY <3>2 DEF ProcessesUp, Processes
  <2>5. ASSUME action = "stop" PROVE ProcessesUp = {}
    <3>1. Used \cap running = {} /\ layout.proxy \cap proxyUp = {}
      BY <2>1, <2>5, AllPassed DEF Intact
    <3>2. running = {} /\ proxyUp = {}
      BY <2>2, <3>1 DEF TypeOK
    <3> QED
      BY <3>2 DEF ProcessesUp
  <2> QED
    BY <1>3, <2>3, <2>4, <2>5 DEF Life!Outcome
<1>4. CASE action = "clean"
  <2>1. /\ Passed("rm") = Used /\ Passed("stop_proxy") = layout.proxy
        /\ Passed("rm_dirs") = ToSet(Nodes) \cap layout.mounted
    BY <1>4, AllPassed
  <2>2. /\ Passed("rm") \cap exists = {} /\ Passed("stop_proxy") \cap proxyUp = {}
        /\ \A n \in Passed("rm") \cap data : n \in layout.mounted /\ n \notin Passed("rm_dirs")
    BY <1>4 DEF CleanSoFar
  <2>3. exists = {} /\ running = {} /\ proxyUp = {}
    BY <2>1, <2>2 DEF Within, TypeOK
  <2>4. data = {}
    BY <1>1, <2>1, <2>2 DEF Within
  <2> QED
    BY <1>4, <2>3, <2>4 DEF Life!Outcome, Present, ProcessesUp
<1> QED
  BY <1>1, <1>2, <1>3, <1>4

LEMMA InitIsLife == Init => Life!Init
  BY DEF Init, Life!Init, Present, ProcessesUp, BaseName

\* The parts and processes are those of the configuration.
LEMMA WithinLimits ==
    ASSUME TypeOK, Within PROVE Present \subseteq ToSet(Nodes) /\ ProcessesUp \subseteq Processes
<1>1. Present \subseteq ToSet(Nodes)
  BY Configured DEF Within, Present
<1>2. running \subseteq Used /\ proxyUp \subseteq layout.proxy
  BY DEF TypeOK, Within
<1> QED
  BY <1>1, <1>2 DEF Processes, ProcessesUp

\* A script begins from what its base says of the machines.
LEMMA IssueBegins ==
    ASSUME TypeOK, Within, NEW a \in Scripts, Issue(a)
    PROVE  Life!Next
<1>1. UNCHANGED <<layout, exists, running, data, proxyUp>>
  BY DEF Issue, docker, rest
<1>2. /\ action = "none" /\ action' = a /\ smooth' = TRUE
      /\ base' = CASE Pristine  -> "pristine"
                   [] Complete  -> "installed"
                   [] ~Pristine /\ ~Complete /\ Resumable -> "resumable"
                   [] OTHER     -> "other"
  BY DEF Issue
<1>3. UNCHANGED <<Present, ProcessesUp, Nodes, Processes>>
  BY <1>1, ConfigIsFixed DEF Present, ProcessesUp
<1>4. Pristine => ~Complete
  BY DEF Used, Pristine, Complete
<1>5. BaseName' \in {"pristine", "installed", "tracked", "other"}
  BY <1>2 DEF BaseName
<1>6. BaseName' = "pristine" => Pristine
  BY <1>2 DEF BaseName
<1>7. BaseName' = "installed" => Complete
  BY <1>2 DEF BaseName
<1>8. Pristine => Present = {} /\ ProcessesUp = {}
  BY DEF Pristine, Present, ProcessesUp, TypeOK
<1>9. Complete => Present = ToSet(Nodes)
  BY Configured DEF Complete, Present, Within
<1>10. Life!Begin(a)
  BY <1>2, <1>3, <1>5, <1>6, <1>7, <1>8, <1>9 DEF Life!Begin, Life!Bases
<1> QED
  BY <1>3, <1>10 DEF Life!Next, Life!configuration, Life!Scripts, Scripts

\* A command that does what its script may do is a step of work.
LEMMA Works ==
    ASSUME TypeOK', Within', action \in Scripts, UNCHANGED <<layout, action, base, smooth>>,
           action = "install" => Present \subseteq Present' /\ ProcessesUp \subseteq ProcessesUp',
           action = "start" => Present' = Present /\ ProcessesUp \subseteq ProcessesUp',
           action = "stop" => Present' = Present /\ ProcessesUp' \subseteq ProcessesUp,
           action = "clean" => Present' \subseteq Present /\ ProcessesUp' \subseteq ProcessesUp
    PROVE  Life!Next
<1>1. (TypeOK /\ Within => Present \subseteq ToSet(Nodes) /\ ProcessesUp \subseteq Processes)'
  BY WithinLimits, PTL
<1>2. UNCHANGED <<Nodes, Processes, BaseName>>
  BY ConfigIsFixed DEF BaseName
<1>3. action \in {"install", "start", "stop", "clean"} /\ action # "none"
  BY DEF Scripts
<1>4. Life!Work
  BY <1>1, <1>2, <1>3 DEF Life!Work
<1> QED
  BY <1>2, <1>4 DEF Life!Next, Life!configuration

\* Each step of the docker scripts is a step of the abstract ones or none.
LEMMA StepIsLife ==
    ASSUME TypeOK, TypeOK', Course, Within', [Next]_vars
    PROVE  [Life!Next]_(Life!vars)
<1> USE DEF Course
<1>1. CASE Issues
  BY <1>1, IssueBegins DEF Issues
\* The data of a container that runs is present already.
<1>2. CASE Rests
  <2>1. UNCHANGED <<layout, action, base, smooth>>
    BY <1>2 DEF Rests
  <2>2. UNCHANGED <<Nodes, Processes, BaseName>>
    BY <2>1, ConfigIsFixed DEF BaseName
  <2>3. Present' = Present
    BY <1>2 DEF Rests, Present, TypeOK
  <2>4. ProcessesUp' = ProcessesUp
    BY <1>2 DEF Rests, ProcessesUp, rest
  <2> QED
    BY <2>1, <2>2, <2>3, <2>4 DEF Life!vars, Life!configuration
<1>3. CASE Skips
  <2>1. UNCHANGED <<layout, action, base, smooth, exists, running, data, proxyUp>>
    BY <1>3 DEF Skips, Moves, docker, rest
  <2>2. action \in Scripts
    BY <1>3, PendingIs DEF Skips, Moves
  <2>3. Present' = Present /\ ProcessesUp' = ProcessesUp
    BY <2>1 DEF Present, ProcessesUp
  <2> QED
    BY <2>1, <2>2, <2>3, Works
<1>4. CASE Ends
  <2>1. /\ action # "none" /\ action' = "none" /\ ~Pending
        /\ UNCHANGED <<layout, base, smooth, exists, running, data, proxyUp>>
    BY <1>4 DEF Ends, docker, rest
  <2>2. UNCHANGED <<Present, ProcessesUp, Nodes, Processes, BaseName>>
    BY <2>1, ConfigIsFixed DEF Present, ProcessesUp, BaseName
  <2>3. smooth /\ BaseName \in Life!MadeFor(action) => Life!Outcome(action)
    BY <2>1, EndsWell
  <2>4. Life!Finish
    BY <2>1, <2>2, <2>3 DEF Life!Finish
  <2> QED
    BY <2>2, <2>4 DEF Life!Next, Life!configuration
\* A failure, an interrupt, or a crash of which the machine brings nothing up again.
<1>5. CASE Breaks
  <2>1. /\ smooth' = FALSE /\ running' \subseteq running /\ proxyUp' \subseteq proxyUp
        /\ UNCHANGED <<layout, base, exists, data>>
    BY <1>5 DEF Breaks
  <2>2. UNCHANGED <<Present, Nodes, Processes, BaseName>>
    BY <2>1, ConfigIsFixed DEF Present, BaseName
  <2>3. CASE action # "none" /\ action' = "none" /\ UNCHANGED <<running, proxyUp>>
    <3>1. ProcessesUp' = ProcessesUp
      BY <2>3 DEF ProcessesUp
    <3>2. Life!Abort
      BY <2>1, <2>2, <2>3, <3>1, WithinLimits DEF Life!Abort
    <3> QED
      BY <2>2, <3>2 DEF Life!Next, Life!configuration
  <2>4. CASE action' = action
    <3>1. ProcessesUp' \subseteq ProcessesUp
      BY <2>1 DEF ProcessesUp
    <3>2. Life!Crash
      BY <2>1, <2>2, <2>4, <3>1 DEF Life!Crash
    <3> QED
      BY <2>2, <3>2 DEF Life!Next, Life!configuration
  <2> QED
    BY <1>5, <2>3, <2>4 DEF Breaks, Moves
<1>6. ASSUME NEW op \in Op, NEW x \in Thing, Runs(op, x) PROVE Life!Next
  <2>1. /\ action \in Scripts /\ Belongs(action, op, x) /\ Effect(op, x)
        /\ UNCHANGED <<layout, action, base, smooth>>
    <3>1. Pending /\ Current = C(op, x)
      BY <1>6 DEF Runs, Moves
    <3> QED
      BY <1>6, <3>1, PendingIs, PassedIs DEF Runs, Moves
  <2>2. /\ action = "install" => /\ exists \subseteq exists' /\ data' = data
                                 /\ running \subseteq running' /\ proxyUp \subseteq proxyUp'
        /\ action = "start" => /\ exists' = exists /\ data' = data
                               /\ running \subseteq running' /\ proxyUp \subseteq proxyUp'
        /\ action = "stop" => /\ exists' = exists /\ data' = data
                              /\ running' \subseteq running /\ proxyUp' \subseteq proxyUp
        /\ action = "clean" => /\ exists' \subseteq exists /\ data' \subseteq data
                               /\ running' \subseteq running /\ proxyUp' \subseteq proxyUp
    BY <2>1 DEF Belongs, Effect
  <2>3. /\ exists \subseteq exists' /\ data' = data => Present \subseteq Present'
        /\ exists' = exists /\ data' = data => Present' = Present
        /\ exists' \subseteq exists /\ data' \subseteq data => Present' \subseteq Present
    BY DEF Present
  <2>4. /\ running \subseteq running' /\ proxyUp \subseteq proxyUp' => ProcessesUp \subseteq ProcessesUp'
        /\ running' \subseteq running /\ proxyUp' \subseteq proxyUp => ProcessesUp' \subseteq ProcessesUp
    BY DEF ProcessesUp
  <2> QED
    BY <2>1, <2>2, <2>3, <2>4, Works
<1> QED
  BY <1>1, <1>2, <1>3, <1>4, <1>5, <1>6, ScriptSteps

\* The docker scripts implement Lifecycle, whatever fails and whichever host restarts:
\* install.sh only adds, start.sh only brings up, stop.sh only takes down, clean.sh
\* only removes, and what goes smoothly from what it is made for ends well.
THEOREM DockerKeepsPromises == Spec => KeepsPromises
<1>1. Init => Life!Init
  BY InitIsLife
<1>2. TypeOK /\ TypeOK' /\ Course /\ Course' /\ [Next]_vars => [Life!Next]_(Life!vars)
  BY StepIsLife DEF Course
<1> QED
  BY <1>1, <1>2, DockerTyping, CourseHolds, PTL DEF Spec, KeepsPromises, Life!Spec
=============================================================================
