--------------------------- MODULE MetaNodesProofs ---------------------------
(***************************************************************************)
(* Theorems about MetaNodes, for every number of nodes and data centres:   *)
(* the nodes replicate along one tree and are installed along it, the      *)
(* pairs for node_map_master are those of the tree, and the primary can    *)
(* wait for as many nodes as it does.                                      *)
(***************************************************************************)
EXTENDS MetaNodes, Inductions

-----------------------------------------------------------------------------
(* The configuration.                                                      *)

Here(d) == {n \in Node : DcOf[n] = d}
Master(d) == InDc(d)[1]

\* The nodes are listed once each, and each data centre has one role.
Layout ==
    /\ multipledc \in BOOLEAN
    /\ nodes \in Seq(Node) /\ IsInjective(nodes) /\ ToSet(nodes) = Node
    /\ dcsecondarylist \in Seq(DC) /\ IsInjective(dcsecondarylist)
    /\ dcstandbylist \in Seq(DC) /\ IsInjective(dcstandbylist)
    /\ multipledc =>
          /\ dcprimary \in DC
          /\ dcprimary \notin ToSet(dcsecondarylist) /\ dcprimary \notin ToSet(dcstandbylist)
          /\ ToSet(dcsecondarylist) \cap ToSet(dcstandbylist) = {}
          /\ DC = {dcprimary} \cup ToSet(dcsecondarylist) \cup ToSet(dcstandbylist)
    /\ ~multipledc => dcsecondarylist = <<>> /\ dcstandbylist = <<>>

LEMMA OrderIs ==
    ASSUME NEW S, IsFiniteSet(S), NEW s \in Orders(S)
    PROVE  s \in Seq(S) /\ IsInjective(s) /\ ToSet(s) = S
<1>1. Cardinality(S) \in Nat
  BY FS_CardinalityType
<1>2. /\ s \in [1..Cardinality(S) -> S] /\ IsInjective(s)
      /\ \A t \in S : \E i \in 1..Cardinality(S) : s[i] = t
  BY DEF Orders, Bijection, Injection, Surjection
<1>3. ToSet(s) = S
  BY <1>2 DEF ToSet
<1> QED
  BY <1>1, <1>2, <1>3

LEMMA NoOrder == <<>> \in Seq(DC) /\ IsInjective(<<>>) /\ ToSet(<<>>) = {}
  BY DEF IsInjective, ToSet

LEMMA InitLayout == Init => Layout
<1> SUFFICES ASSUME Init PROVE Layout
  OBVIOUS
<1>1. multipledc \in BOOLEAN /\ nodes \in Seq(Node) /\ IsInjective(nodes) /\ ToSet(nodes) = Node
  BY MetaAssumption, OrderIs DEF Init
<1>2. CASE ~multipledc
  <2>1. dcsecondarylist = <<>> /\ dcstandbylist = <<>>
    BY <1>2 DEF Init
  <2> QED
    BY <1>1, <1>2, <2>1, NoOrder DEF Layout
<1>3. CASE multipledc
  <2>1. PICK role \in [DC \ {dcprimary} -> DcRoles] :
           /\ dcsecondarylist \in Orders({d \in DOMAIN role : role[d] = "secondary"})
           /\ dcstandbylist \in Orders({d \in DOMAIN role : role[d] = "standby"})
    BY <1>3 DEF Init
  <2> DEFINE A == {d \in DOMAIN role : role[d] = "secondary"}
             B == {d \in DOMAIN role : role[d] = "standby"}
  <2>2. dcprimary \in DC
    BY <1>3 DEF Init
  <2>3. A \subseteq DC \ {dcprimary} /\ B \subseteq DC \ {dcprimary} /\ A \cap B = {}
        /\ DC = {dcprimary} \cup A \cup B
    BY <2>1, <2>2, MetaAssumption
  <2>4. IsFiniteSet(A) /\ IsFiniteSet(B)
    <3> HIDE DEF A, B
    <3> QED
      BY <2>3, MetaAssumption, FS_Subset
  <2>5. dcsecondarylist \in Orders(A) /\ dcstandbylist \in Orders(B)
    BY <2>1
  <2> HIDE DEF A, B
  <2>6. /\ dcsecondarylist \in Seq(A) /\ IsInjective(dcsecondarylist) /\ ToSet(dcsecondarylist) = A
        /\ dcstandbylist \in Seq(B) /\ IsInjective(dcstandbylist) /\ ToSet(dcstandbylist) = B
    BY <2>4, <2>5, OrderIs
  <2>7. dcsecondarylist \in Seq(DC) /\ dcstandbylist \in Seq(DC)
    BY <2>3, <2>6
  <2> QED
    BY <1>1, <1>3, <2>2, <2>3, <2>6, <2>7 DEF Layout
<1> QED
  BY <1>2, <1>3

\* The configuration never changes.
LEMMA ConfigKept == [Next]_vars => UNCHANGED config
  BY DEF Next, vars, config, built, ValidateOneDc, ValidateMultiDc, Reject, SetupOneDc, SetupPrimaryDc,
         SetupSecondaryDc, SecondariesDone, SetupStandbyDc, StandbysDone, InstallNext, Bootstrap

LEMMA LayoutKept == Layout /\ UNCHANGED config => Layout'
  BY DEF Layout, config

LEMMA DcList ==
    ASSUME Layout, NEW d
    PROVE  /\ InDc(d) \in Seq(Node) /\ IsInjective(InDc(d))
           /\ ToSet(InDc(d)) = Here(d)
<1>1. nodes \in Seq(Node) /\ IsInjective(nodes) /\ ToSet(nodes) = Node
  BY DEF Layout
<1>2. /\ InDc(d) \in Seq(Node \cap Here(d)) /\ ToSet(InDc(d)) = Node \cap Here(d)
  <2>1. InDc(d) = Those(nodes, Here(d))
    BY DEF InDc, Here
  <2> QED
    BY <1>1, <2>1, ThoseAre
<1>3. IsInjective(InDc(d))
  BY <1>1, ThoseOnce DEF InDc
<1> QED
  BY <1>2, <1>3 DEF Here

\* Each data centre has two nodes (validate_and_set_config3).
Spacious == multipledc /\ \A d \in DC : Len(InDc(d)) >= 2

LEMMA MasterIs ==
    ASSUME Layout, Spacious, NEW d \in DC
    PROVE  /\ Len(InDc(d)) \in Nat /\ DOMAIN InDc(d) = 1..Len(InDc(d)) /\ 1 \in 1..Len(InDc(d)) /\ 2 \in 1..Len(InDc(d))
           /\ Master(d) \in Node /\ DcOf[Master(d)] = d
           /\ InDc(d)[2] \in Node /\ DcOf[InDc(d)[2]] = d
           /\ \A j \in 1..Len(InDc(d)) : /\ InDc(d)[j] \in Node /\ DcOf[InDc(d)[j]] = d
                                         /\ InDc(d)[j] = Master(d) => j = 1
<1> DEFINE s == InDc(d)
<1>1. s \in Seq(Node) /\ IsInjective(s) /\ ToSet(s) = Here(d) /\ Len(s) >= 2
  BY DcList DEF Spacious
<1> HIDE DEF s
<1>2. Len(s) \in Nat /\ DOMAIN s = 1..Len(s) /\ 1 \in 1..Len(s) /\ 2 \in 1..Len(s)
  BY <1>1
<1>3. ASSUME NEW j \in 1..Len(s) PROVE s[j] \in Here(d)
  BY <1>1, <1>2 DEF ToSet
<1>4. ASSUME NEW j \in 1..Len(s), s[j] = s[1] PROVE j = 1
  BY <1>1, <1>2, <1>4 DEF IsInjective
<1> QED
  BY <1>2, <1>3, <1>4 DEF s, Here, Master

-----------------------------------------------------------------------------
(* Which node replicates from which.                                       *)

\* The node of the first secondary data centre, or else of the primary one, from which
\* the masters of standby data centres replicate.
Relay == IF dcsecondarylist = <<>> THEN InDc(dcprimary)[2] ELSE Master(dcsecondarylist[1])

\* The one primary of a single data centre.
Top == CHOOSE p \in Node : primaries = {p}

Parent(n) ==
    IF ~multipledc THEN Top
    ELSE IF n # Master(DcOf[n]) THEN Master(DcOf[n])
    ELSE IF DcOf[n] \in ToSet(dcstandbylist) THEN Relay ELSE Root

Tree == [n \in Node |-> Parent(n)]

\* The nodes that the primary waits for, and itself.
Near == {n \in Node : /\ multipledc
                      /\ \/ DcOf[n] = dcprimary
                         \/ DcOf[n] \in ToSet(dcsecondarylist) /\ n = Master(DcOf[n])}

LEMMA TreeKept ==
    ASSUME UNCHANGED config, multipledc \/ UNCHANGED primaries
    PROVE  /\ Tree' = Tree /\ Near' = Near /\ Relay' = Relay /\ Root' = Root /\ Spacious' = Spacious
           /\ \A d : InDc(d)' = InDc(d) /\ Master(d)' = Master(d)
<1>1. ASSUME NEW d PROVE InDc(d)' = InDc(d) /\ Master(d)' = Master(d)
  BY DEF InDc, Master, config
<1>2. Relay' = Relay /\ Root' = Root
  BY <1>1 DEF Relay, Root, config
<1>3. Near' = Near
  BY <1>1 DEF Near, config
<1>4. ASSUME NEW n \in Node PROVE Parent(n)' = Parent(n)
  <2>1. multipledc' = multipledc /\ dcstandbylist' = dcstandbylist
    BY DEF config
  <2>2. CASE multipledc
    BY <1>1, <1>2, <2>1, <2>2 DEF Parent
  <2>3. CASE ~multipledc
    <3>1. Top' = Top
      BY <2>3 DEF Top
    <3> QED
      BY <3>1, <2>1, <2>3 DEF Parent
  <2> QED
    BY <2>2, <2>3
<1>5. Tree' = Tree
  BY <1>4 DEF Tree
<1>6. Spacious' = Spacious
  BY <1>1 DEF Spacious, config
<1> QED
  BY <1>1, <1>2, <1>3, <1>5, <1>6

LEMMA Parents ==
    ASSUME Layout, Spacious
    PROVE  /\ Root \in Node /\ DcOf[Root] = dcprimary /\ Root = Master(dcprimary) /\ Tree[Root] = Root
           /\ \A n \in Node : n # Master(DcOf[n]) => Tree[n] = Master(DcOf[n])
           /\ \A d \in ToSet(dcsecondarylist) : Tree[Master(d)] = Root /\ Master(d) # Root
           /\ \A d \in ToSet(dcstandbylist) : Tree[Master(d)] = Relay /\ Master(d) # Relay
           /\ Relay \in Node /\ DcOf[Relay] \in {dcprimary} \cup ToSet(dcsecondarylist)
<1>1. /\ dcprimary \in DC /\ dcprimary \notin ToSet(dcsecondarylist) /\ dcprimary \notin ToSet(dcstandbylist)
      /\ ToSet(dcsecondarylist) \cap ToSet(dcstandbylist) = {} /\ multipledc
      /\ ToSet(dcsecondarylist) \subseteq DC /\ ToSet(dcstandbylist) \subseteq DC
  BY DEF Layout, Spacious
<1>2. Root = Master(dcprimary)
  BY DEF Root, Master
<1>3. \A d \in DC : Master(d) \in Node /\ DcOf[Master(d)] = d
  BY MasterIs
<1>4. Root \in Node /\ DcOf[Root] = dcprimary
  BY <1>1, <1>2, <1>3
<1>5. \A n \in Node : Tree[n] = Parent(n)
  BY DEF Tree
<1>6. Tree[Root] = Root
  BY <1>1, <1>2, <1>4, <1>5 DEF Parent
<1>7. \A n \in Node : n # Master(DcOf[n]) => Tree[n] = Master(DcOf[n])
  BY <1>1, <1>5 DEF Parent
<1>8. ASSUME NEW d \in ToSet(dcsecondarylist) PROVE Tree[Master(d)] = Root /\ Master(d) # Root
  BY <1>1, <1>3, <1>4, <1>5 DEF Parent
<1>9. Relay \in Node /\ DcOf[Relay] \in {dcprimary} \cup ToSet(dcsecondarylist)
  <2>1. CASE dcsecondarylist = <<>>
    BY <2>1, <1>1, MasterIs DEF Relay
  <2>2. CASE dcsecondarylist # <<>>
    <3>1. dcsecondarylist[1] \in ToSet(dcsecondarylist)
      <4>1. dcsecondarylist \in Seq(DC)
        BY DEF Layout
      <4>2. 1 \in DOMAIN dcsecondarylist
        BY <4>1, <2>2
      <4> QED
        BY <4>2 DEF ToSet
    <3> QED
      BY <2>2, <3>1, <1>1, <1>3 DEF Relay
  <2> QED
    BY <2>1, <2>2
<1>10. ASSUME NEW d \in ToSet(dcstandbylist) PROVE Tree[Master(d)] = Relay /\ Master(d) # Relay
  BY <1>1, <1>3, <1>5, <1>9 DEF Parent
<1> QED
  BY <1>2, <1>4, <1>6, <1>7, <1>8, <1>9, <1>10

Line == [node : Node, is_primary : BOOLEAN]
Entry == [node : Node, file : Seq(Line), index : Nat, fullsync : Nat]

LEMMA LineIs ==
    ASSUME NEW n \in Node, NEW P
    PROVE  LET f == [node |-> n, is_primary |-> n \in P] IN
           f \in Line /\ f.node = n /\ (f.is_primary <=> n \in P)
<1> DEFINE b == n \in P
<1>1. b \in BOOLEAN
  OBVIOUS
<1>2. ASSUME NEW c \in BOOLEAN
      PROVE  /\ [node |-> n, is_primary |-> c] \in Line
             /\ [node |-> n, is_primary |-> c].node = n
             /\ [node |-> n, is_primary |-> c].is_primary = c
  BY DEF Line
<1> HIDE DEF b
<1>3. /\ [node |-> n, is_primary |-> b] \in Line
      /\ [node |-> n, is_primary |-> b].node = n
      /\ [node |-> n, is_primary |-> b].is_primary = b
  BY <1>1, <1>2
<1> QED
  BY <1>3 DEF b

LEMMA MarkedLine ==
    ASSUME NEW n \in Node
    PROVE  LET f == [node |-> n, is_primary |-> TRUE] IN f \in Line /\ f.node = n /\ f.is_primary
  BY DEF Line

LEMMA ItemIs ==
    ASSUME NEW n \in Node, NEW f \in Seq(Line), NEW i \in Nat, NEW fs \in Nat
    PROVE  /\ Item(n, f, i, fs) \in Entry
           /\ Item(n, f, i, fs).node = n /\ Item(n, f, i, fs).file = f
           /\ Item(n, f, i, fs).fullsync = fs
  BY DEF Item, Entry

LEMMA SourceIs ==
    ASSUME NEW e, NEW g \in ToSet(e.file), g.is_primary,
           \A f \in ToSet(e.file) : f.is_primary => f = g
    PROVE  Source(e) = g.node
<1>1. (CHOOSE f \in ToSet(e.file) : f.is_primary) = g
  OBVIOUS
<1> QED
  BY <1>1 DEF Source

\* A list in which one node is marked: the others replicate from it.
LEMMA DumpIs ==
    ASSUME NEW s \in Seq(Node), NEW ps, NEW n \in ToSet(s), n \in ps,
           \A m \in ToSet(s) : m \in ps => m = n
    PROVE  /\ Dump(s, ps) \in Seq(Line)
           /\ \A e : e.file = Dump(s, ps) => Source(e) = n
<1>1. /\ DOMAIN s = 1..Len(s) /\ Len(s) \in Nat
      /\ \A i \in 1..Len(s) : s[i] \in Node /\ s[i] \in ToSet(s)
  BY DEF ToSet
<1> DEFINE D == Dump(s, ps)
<1>2. /\ DOMAIN D = 1..Len(s)
      /\ \A i \in 1..Len(s) : D[i] = [node |-> s[i], is_primary |-> s[i] \in ps]
  BY <1>1 DEF Dump
<1>3. ASSUME NEW i \in 1..Len(s)
      PROVE  D[i] \in Line /\ D[i].node = s[i] /\ (D[i].is_primary <=> s[i] \in ps)
  <2>1. D[i] = [node |-> s[i], is_primary |-> s[i] \in ps] /\ s[i] \in Node
    BY <1>1, <1>2
  <2> HIDE DEF D
  <2> QED
    BY <2>1, LineIs
<1>4. D \in Seq(Line)
  <2>1. D = [i \in 1..Len(s) |-> D[i]]
    BY <1>1 DEF Dump
  <2> HIDE DEF D
  <2> QED
    BY <2>1, <1>1, <1>3
<1> DEFINE g == [node |-> n, is_primary |-> TRUE]
<1>5. g \in ToSet(D)
  <2>1. PICK i \in 1..Len(s) : s[i] = n
    BY <1>1 DEF ToSet
  <2>2. D[i] = [node |-> n, is_primary |-> TRUE]
    <3>1. D[i] = [node |-> s[i], is_primary |-> s[i] \in ps]
      BY <1>2
    <3>2. (s[i] \in ps) = TRUE
      BY <2>1
    <3> QED
      BY <3>1, <3>2, <2>1
  <2> HIDE DEF D
  <2> QED
    BY <2>1, <2>2, <1>2 DEF ToSet
<1>6. ASSUME NEW f \in ToSet(D), f.is_primary PROVE f = g
  <2>1. PICK i \in 1..Len(s) : f = D[i]
    <3> HIDE DEF D
    <3> QED
      BY <1>2 DEF ToSet
  <2>2. D[i] = [node |-> s[i], is_primary |-> s[i] \in ps]
    BY <1>2
  <2>3. s[i] \in ps /\ s[i] = n
    <3> HIDE DEF D
    <3> QED
      BY <1>1, <1>3, <1>6, <2>1
  <2>4. (s[i] \in ps) = TRUE
    BY <2>3
  <2> QED
    BY <2>1, <2>2, <2>3, <2>4
<1>7. g.is_primary /\ g.node = n
  OBVIOUS
<1> HIDE DEF D, g
<1>8. ASSUME NEW e, e.file = D PROVE Source(e) = n
  BY <1>5, <1>6, <1>7, <1>8, SourceIs
<1> QED
  BY <1>4, <1>8 DEF D

\* A list of a master and a node that is not marked.
LEMMA TwoLines ==
    ASSUME NEW m \in Node, NEW n \in Node, NEW ps, n \notin ps
    PROVE  LET F == <<[node |-> m, is_primary |-> TRUE], [node |-> n, is_primary |-> n \in ps]>> IN
           F \in Seq(Line) /\ \A e : e.file = F => Source(e) = m
<1> DEFINE g == [node |-> m, is_primary |-> TRUE]
           h == [node |-> n, is_primary |-> n \in ps]
           F == <<g, h>>
<1>1. g \in Line /\ h \in Line /\ g.is_primary /\ g.node = m /\ ~h.is_primary
  BY LineIs, MarkedLine
<1> HIDE DEF g, h
<1>2. F \in Seq(Line) /\ DOMAIN F = {1, 2} /\ F[1] = g /\ F[2] = h
  BY <1>1
<1>3. ToSet(F) = {g, h}
  BY <1>2 DEF ToSet
<1> HIDE DEF F
<1>4. ASSUME NEW e, e.file = F PROVE Source(e) = m
  <2>1. g \in ToSet(e.file) /\ \A f \in ToSet(e.file) : f.is_primary => f = g
    BY <1>1, <1>3, <1>4
  <2> QED
    BY <2>1, <1>1, SourceIs
<1> QED
  BY <1>2, <1>4 DEF F, g, h

-----------------------------------------------------------------------------
(* What is built.                                                          *)

\* The list s has each node of the data centres D once, after the node that it
\* replicates from.
LaidOut(s, D, tree, near) ==
    /\ s \in Seq(Entry)
    /\ \A i \in 1..Len(s) :
          /\ DcOf[s[i].node] \in D
          /\ Source(s[i]) = tree[s[i].node]
          /\ tree[s[i].node] # s[i].node => \E j \in 1..(i - 1) : s[j].node = tree[s[i].node]
          /\ s[i].node \in near => s[i].fullsync = 1
    /\ \A n \in Node : DcOf[n] \in D => \E i \in 1..Len(s) : s[i].node = n
    /\ \A i, j \in 1..Len(s) : s[i].node = s[j].node => i = j

LEMMA NothingLaidOut == ASSUME NEW tree, NEW near PROVE LaidOut(<<>>, {}, tree, near)
  BY DEF LaidOut

\* One more data centre.
LEMMA OneMoreDc ==
    ASSUME NEW s, NEW D, NEW tree, NEW near, LaidOut(s, D, tree, near),
           NEW c \in Seq(Entry), NEW d, d \notin D,
           \A j \in 1..Len(c) :
              /\ DcOf[c[j].node] = d /\ Source(c[j]) = tree[c[j].node]
              /\ \/ tree[c[j].node] = c[j].node
                 \/ \E i \in 1..(j - 1) : c[i].node = tree[c[j].node]
                 \/ \E i \in 1..Len(s) : s[i].node = tree[c[j].node]
              /\ c[j].node \in near => c[j].fullsync = 1,
           \A n \in Node : DcOf[n] = d => \E j \in 1..Len(c) : c[j].node = n,
           \A i, j \in 1..Len(c) : c[i].node = c[j].node => i = j
    PROVE  LaidOut(s \o c, D \cup {d}, tree, near)
<1> DEFINE t == s \o c
           l == Len(s)
<1>1. s \in Seq(Entry)
  BY DEF LaidOut
<1>2. /\ t \in Seq(Entry) /\ l \in Nat /\ Len(c) \in Nat /\ Len(t) = l + Len(c)
      /\ \A i \in 1..l : t[i] = s[i] /\ i \in 1..Len(t)
      /\ \A j \in 1..Len(c) : t[l + j] = c[j] /\ l + j \in 1..Len(t)
  BY <1>1
<1> HIDE DEF t, l
<1>3. ASSUME NEW i \in 1..Len(t)
      PROVE  i \in 1..l \/ (i - l \in 1..Len(c) /\ t[i] = c[i - l] /\ i = l + (i - l))
  <2>1. CASE i \in 1..l
    BY <2>1
  <2>2. CASE i \notin 1..l
    <3>1. i - l \in 1..Len(c) /\ i = l + (i - l)
      BY <2>2, <1>2
    <3> QED
      BY <3>1, <1>2
  <2> QED
    BY <2>1, <2>2
<1> DEFINE Fine(i) ==
              /\ DcOf[t[i].node] \in D \cup {d}
              /\ Source(t[i]) = tree[t[i].node]
              /\ tree[t[i].node] # t[i].node => \E j \in 1..(i - 1) : t[j].node = tree[t[i].node]
              /\ t[i].node \in near => t[i].fullsync = 1
<1>4. ASSUME NEW i \in 1..l
      PROVE  /\ DcOf[t[i].node] \in D
             /\ Source(t[i]) = tree[t[i].node]
             /\ tree[t[i].node] # t[i].node => \E j \in 1..(i - 1) : t[j].node = tree[t[i].node]
             /\ t[i].node \in near => t[i].fullsync = 1
  <2>1. t[i] = s[i] /\ \A j \in 1..(i - 1) : t[j] = s[j]
    BY <1>2
  <2> QED
    BY <2>1 DEF LaidOut, l
<1>5. ASSUME NEW k \in 1..Len(c) PROVE DcOf[t[l + k].node] = d /\ Fine(l + k)
  <2> DEFINE r == l + k
  <2>1. t[r] = c[k]
    BY <1>2
  <2>2. ASSUME NEW i \in 1..(k - 1) PROVE t[l + i] = c[i] /\ l + i \in 1..(r - 1)
    BY <1>2
  <2>3. ASSUME NEW i \in 1..l PROVE t[i] = s[i] /\ i \in 1..(r - 1)
    BY <1>2
  <2> HIDE DEF r
  <2>4. ASSUME tree[c[k].node] # c[k].node PROVE \E j \in 1..(r - 1) : t[j].node = tree[c[k].node]
    <3>1. CASE \E i \in 1..(k - 1) : c[i].node = tree[c[k].node]
      BY <3>1, <2>2
    <3>2. CASE \E i \in 1..Len(s) : s[i].node = tree[c[k].node]
      BY <3>2, <2>3 DEF l
    <3> QED
      BY <2>4, <3>1, <3>2
  <2>5. DcOf[c[k].node] = d /\ Source(c[k]) = tree[c[k].node] /\ (c[k].node \in near => c[k].fullsync = 1)
    OBVIOUS
  <2>6. DcOf[t[r].node] = d /\ Fine(r)
    BY <2>1, <2>4, <2>5
  <2> HIDE DEF Fine
  <2> QED
    BY <2>6 DEF r
<1>6. ASSUME NEW i \in 1..Len(t) PROVE Fine(i)
  <2>1. CASE i \in 1..l
    BY <2>1, <1>4
  <2>2. CASE i - l \in 1..Len(c) /\ i = l + (i - l)
    <3>1. PICK k \in 1..Len(c) : i = l + k
      BY <2>2
    <3>2. Fine(l + k)
      BY <1>5
    <3> HIDE DEF Fine
    <3> QED
      BY <3>1, <3>2
  <2> HIDE DEF Fine
  <2> QED
    BY <2>1, <2>2, <1>3
<1>7. ASSUME NEW n \in Node, DcOf[n] \in D \cup {d} PROVE \E i \in 1..Len(t) : t[i].node = n
  <2>1. CASE DcOf[n] \in D
    <3>1. PICK i \in 1..l : s[i].node = n
      BY <2>1 DEF LaidOut, l
    <3> QED
      BY <3>1, <1>2
  <2>2. CASE DcOf[n] = d
    <3>1. PICK j \in 1..Len(c) : c[j].node = n
      BY <2>2
    <3> QED
      BY <3>1, <1>2
  <2> QED
    BY <1>7, <2>1, <2>2
<1>8. ASSUME NEW i \in 1..Len(t), NEW j \in 1..Len(t), t[i].node = t[j].node PROVE i = j
  <2>1. CASE i \in 1..l /\ j \in 1..l
    BY <2>1, <1>2, <1>8 DEF LaidOut, l
  <2>2. CASE i \notin 1..l /\ j \notin 1..l
    <3>1. i - l = j - l
      BY <2>2, <1>3, <1>8
    <3> QED
      BY <3>1, <1>2
  <2>3. CASE i \in 1..l /\ j \notin 1..l
    <3>1. DcOf[t[i].node] \in D /\ DcOf[t[j].node] = d
      BY <2>3, <1>3, <1>4
    <3> QED
      BY <3>1, <1>8
  <2>4. CASE i \notin 1..l /\ j \in 1..l
    <3>1. DcOf[t[j].node] \in D /\ DcOf[t[i].node] = d
      BY <2>4, <1>3, <1>4
    <3> QED
      BY <3>1, <1>8
  <2> QED
    BY <2>1, <2>2, <2>3, <2>4
<1>9. LaidOut(t, D \cup {d}, tree, near)
  BY <1>2, <1>6, <1>7, <1>8 DEF LaidOut
<1> QED
  BY <1>9 DEF t

\* The entries that Chain makes of a data centre in which nothing is marked yet.
LEMMA ChainIs ==
    ASSUME Layout, Spacious, NEW d \in DC, primaries \cap Here(d) = {}, NEW m \in Node, NEW fs \in Nat
    PROVE  LET c == Chain(InDc(d), m, fs) IN
           /\ c \in Seq(Entry) /\ Len(c) = Len(InDc(d))
           /\ \A j \in 1..Len(c) : c[j].node = InDc(d)[j]
           /\ Source(c[1]) = m /\ c[1].fullsync = fs
           /\ \A j \in 2..Len(c) : Source(c[j]) = Master(d)
<1> DEFINE s == InDc(d)
           L == Len(s)
           two == <<[node |-> m, is_primary |-> TRUE], [node |-> s[1], is_primary |-> s[1] \in primaries]>>
           all == Dump(s, primaries \cup {s[1]})
           head == Item(s[1], two, 2, fs)
           rest == [j \in 1..(L - 1) |-> Item(s[j + 1], all, j + 1, 0)]
           c == <<head>> \o rest
<1>1. Chain(s, m, fs) = c
  BY DEF Chain, Tails
<1>2. /\ s \in Seq(Node) /\ ToSet(s) = Here(d) /\ Master(d) = s[1]
  BY DcList DEF Master
<1>3. /\ L \in Nat /\ L >= 2 /\ DOMAIN s = 1..L /\ s[1] \in Node
      /\ \A j \in 1..L : s[j] \in Node
  BY MasterIs DEF Spacious, Master
<1>4. s[1] \in ToSet(s)
  BY <1>3 DEF ToSet
<1>5. s[1] \notin primaries /\ \A n \in ToSet(s) : n \in primaries \cup {s[1]} => n = s[1]
  BY <1>2, <1>4
<1>6. two \in Seq(Line) /\ \A e : e.file = two => Source(e) = m
  BY <1>3, <1>5, TwoLines
<1>7. all \in Seq(Line) /\ \A e : e.file = all => Source(e) = s[1]
  BY <1>2, <1>4, <1>5, DumpIs
<1> HIDE DEF s, two, all
<1>8. head \in Entry /\ head.node = s[1] /\ head.fullsync = fs /\ Source(head) = m
  <2>1. /\ Item(s[1], two, 2, fs) \in Entry /\ Item(s[1], two, 2, fs).node = s[1]
        /\ Item(s[1], two, 2, fs).file = two /\ Item(s[1], two, 2, fs).fullsync = fs
    BY <1>3, <1>6, ItemIs
  <2> QED
    BY <2>1, <1>6
<1>9. ASSUME NEW j \in 1..(L - 1)
      PROVE  rest[j] \in Entry /\ rest[j].node = s[j + 1] /\ Source(rest[j]) = s[1]
  <2>1. j + 1 \in 1..L /\ j + 1 \in Nat
    BY <1>3
  <2>2. rest[j] = Item(s[j + 1], all, j + 1, 0)
    OBVIOUS
  <2> HIDE DEF rest
  <2>3. /\ Item(s[j + 1], all, j + 1, 0) \in Entry /\ Item(s[j + 1], all, j + 1, 0).node = s[j + 1]
        /\ Item(s[j + 1], all, j + 1, 0).file = all
    <3>1. s[j + 1] \in Node /\ 0 \in Nat
      BY <1>3, <2>1
    <3> QED
      BY <3>1, <2>1, <1>7, ItemIs
  <2> QED
    BY <2>2, <2>3, <1>7
<1>10. rest \in Seq(Entry) /\ Len(rest) = L - 1
  <2>1. rest \in [1..(L - 1) -> Entry]
    BY <1>9
  <2>2. L - 1 \in Nat /\ DOMAIN rest = 1..(L - 1)
    BY <1>3
  <2> HIDE DEF rest
  <2> QED
    BY <2>1, <2>2
<1> HIDE DEF head, rest, L
<1>11. /\ c \in Seq(Entry) /\ Len(c) = L /\ c[1] = head
       /\ \A j \in 2..L : c[j] = rest[j - 1]
  BY <1>3, <1>8, <1>10
<1> HIDE DEF c
<1>12. ASSUME NEW j \in 2..L PROVE c[j].node = s[j] /\ Source(c[j]) = s[1]
  <2>1. j - 1 \in 1..(L - 1) /\ j - 1 + 1 = j
    BY <1>3
  <2>2. c[j] = rest[j - 1]
    BY <1>11
  <2>3. rest[j - 1].node = s[j - 1 + 1] /\ Source(rest[j - 1]) = s[1]
    BY <2>1, <1>9
  <2> QED
    BY <2>1, <2>2, <2>3
<1>13. \A j \in 1..L : j = 1 \/ j \in 2..L
  BY <1>3
<1>14. \A j \in 1..L : c[j].node = s[j]
  BY <1>8, <1>11, <1>12, <1>13
<1>15. Chain(InDc(d), m, fs) = c /\ Len(InDc(d)) = L /\ InDc(d) = s
  BY <1>1 DEF s, L
<1> QED
  BY <1>2, <1>8, <1>11, <1>12, <1>14, <1>15

\* A data centre is added behind its master's source.
LEMMA ChainLaidOut ==
    ASSUME Layout, Spacious, NEW D, LaidOut(metanodes, D, Tree, Near), NEW d \in DC, d \notin D,
           primaries \cap Here(d) = {}, d # dcprimary, NEW fs \in Nat, d \in ToSet(dcsecondarylist) => fs = 1,
           Tree[Master(d)] \in Node, DcOf[Tree[Master(d)]] \in D
    PROVE  LaidOut(metanodes \o Chain(InDc(d), Tree[Master(d)], fs), D \cup {d}, Tree, Near)
<1> DEFINE m == Tree[Master(d)]
           c == Chain(InDc(d), m, fs)
           s == InDc(d)
<1>1. /\ c \in Seq(Entry) /\ Len(c) = Len(s)
      /\ \A j \in 1..Len(c) : c[j].node = s[j]
      /\ Source(c[1]) = m /\ c[1].fullsync = fs
      /\ \A j \in 2..Len(c) : Source(c[j]) = Master(d)
  BY ChainIs
<1>2. /\ s \in Seq(Node) /\ IsInjective(s) /\ ToSet(s) = Here(d) /\ s[1] = Master(d)
  BY DcList DEF Master
<1>3. /\ Len(s) \in Nat /\ Len(s) >= 2 /\ DOMAIN s = 1..Len(s)
      /\ \A j \in 1..Len(s) : s[j] \in Node /\ DcOf[s[j]] = d /\ (s[j] = Master(d) => j = 1)
  BY MasterIs DEF Spacious
<1>4. PICK k \in 1..Len(metanodes) : metanodes[k].node = m
  BY DEF LaidOut
<1> HIDE DEF c, s, m
<1>5. ASSUME NEW j \in 1..Len(c)
      PROVE  /\ DcOf[c[j].node] = d /\ Source(c[j]) = Tree[c[j].node]
             /\ \/ Tree[c[j].node] = c[j].node
                \/ \E i \in 1..(j - 1) : c[i].node = Tree[c[j].node]
                \/ \E i \in 1..Len(metanodes) : metanodes[i].node = Tree[c[j].node]
             /\ c[j].node \in Near => c[j].fullsync = 1
  <2>1. CASE j = 1
    <3>1. c[1].node = Master(d) /\ Source(c[1]) = m /\ c[1].fullsync = fs /\ DcOf[Master(d)] = d
      BY <1>1, <1>2, <1>3
    <3>2. Master(d) \in Near => fs = 1
      BY <3>1 DEF Near
    <3> QED
      BY <2>1, <3>1, <3>2, <1>4 DEF m
  <2>2. CASE j \in 2..Len(c)
    <3>1. c[j].node = s[j] /\ Source(c[j]) = Master(d) /\ s[j] \in Node /\ DcOf[s[j]] = d /\ s[j] # Master(d)
      BY <1>1, <1>3, <2>2
    <3>2. Tree[s[j]] = Master(d)
      BY <3>1, Parents
    <3>3. 1 \in 1..(j - 1) /\ c[1].node = Master(d)
      BY <2>2, <1>1, <1>2, <1>3
    <3>4. s[j] \notin Near
      BY <3>1 DEF Near
    <3> QED
      BY <3>1, <3>2, <3>3, <3>4
  <2> QED
    BY <2>1, <2>2, <1>1, <1>3
<1>6. ASSUME NEW n \in Node, DcOf[n] = d PROVE \E j \in 1..Len(c) : c[j].node = n
  <2>1. n \in ToSet(s)
    BY <1>2, <1>6 DEF Here
  <2>2. PICK j \in 1..Len(s) : s[j] = n
    BY <2>1, <1>3 DEF ToSet
  <2> QED
    BY <2>2, <1>1
<1>7. ASSUME NEW i \in 1..Len(c), NEW j \in 1..Len(c), c[i].node = c[j].node PROVE i = j
  BY <1>1, <1>2, <1>3, <1>7 DEF IsInjective
<1>8. LaidOut(metanodes \o c, D \cup {d}, Tree, Near)
  <2>1. c \in Seq(Entry)
    BY <1>1
  <2> QED
    BY <2>1, <1>5, <1>6, <1>7, OneMoreDc
<1> QED
  BY <1>8 DEF c, m

\* The pairs els give the nodes of the data centres D their sources, but for those that
\* replicate from a node of a data centre in hidden; without such there are no others.
Listed(els, D, tree, hidden) ==
    /\ els \in Seq([host : Node, master : Node])
    /\ \A n \in Node : DcOf[n] \in D /\ tree[n] # n =>
          DcOf[tree[n]] \in hidden \/ Pair(n, tree[n]) \in ToSet(els)
    /\ hidden = {} => \A x \in ToSet(els) :
          \E n \in Node : DcOf[n] \in D /\ tree[n] # n /\ x = Pair(n, tree[n])

LEMMA NothingListed == ASSUME NEW tree, NEW hidden PROVE Listed(<<>>, {}, tree, hidden)
  BY DEF Listed, ToSet

\* One more data centre.
LEMMA OneMoreListed ==
    ASSUME NEW els, NEW D, NEW tree, NEW hidden, Listed(els, D, tree, hidden), NEW d,
           NEW ps \in Seq([host : Node, master : Node]),
           \A n \in Node : DcOf[n] = d /\ tree[n] # n =>
              DcOf[tree[n]] \in hidden \/ Pair(n, tree[n]) \in ToSet(ps),
           hidden = {} => \A x \in ToSet(ps) :
              \E n \in Node : DcOf[n] = d /\ tree[n] # n /\ x = Pair(n, tree[n])
    PROVE  Listed(els \o ps, D \cup {d}, tree, hidden)
<1>1. /\ els \o ps \in Seq([host : Node, master : Node])
      /\ ToSet(els \o ps) = ToSet(els) \cup ToSet(ps)
  <2>1. els \in Seq([host : Node, master : Node])
    BY DEF Listed
  <2> QED
    BY <2>1, ElementsOfConcat
<1>2. ASSUME NEW n \in Node, DcOf[n] \in D \cup {d}, tree[n] # n
      PROVE  DcOf[tree[n]] \in hidden \/ Pair(n, tree[n]) \in ToSet(els \o ps)
  BY <1>1, <1>2 DEF Listed
<1>3. ASSUME hidden = {}, NEW x \in ToSet(els \o ps)
      PROVE  \E n \in Node : DcOf[n] \in D \cup {d} /\ tree[n] # n /\ x = Pair(n, tree[n])
  BY <1>1, <1>3 DEF Listed
<1> QED
  BY <1>1, <1>2, <1>3 DEF Listed

LEMMA PairIs ==
    ASSUME NEW n \in Node, NEW m \in Node
    PROVE  Pair(n, m) \in [host : Node, master : Node]
  BY DEF Pair

\* The pairs of the nodes of a data centre behind its master.
LEMMA TailPairs ==
    ASSUME Layout, Spacious, NEW d \in DC
    PROVE  LET s == InDc(d)
               ps == Tails(s, LAMBDA j : Pair(s[j], s[1])) IN
           /\ ps \in Seq([host : Node, master : Node])
           /\ \A n \in Node : DcOf[n] = d /\ n # Master(d) => Pair(n, Tree[n]) \in ToSet(ps)
           /\ \A x \in ToSet(ps) : \E n \in Node :
                 DcOf[n] = d /\ n # Master(d) /\ x = Pair(n, Tree[n])
<1> DEFINE s == InDc(d)
           L == Len(s)
           ps == [j \in 1..(L - 1) |-> Pair(s[j + 1], s[1])]
<1>1. Tails(s, LAMBDA j : Pair(s[j], s[1])) = ps
  BY DEF Tails
<1>2. /\ ToSet(s) = Here(d) /\ Master(d) = s[1]
  BY DcList DEF Master
<1>3. /\ L \in Nat /\ L >= 2 /\ DOMAIN s = 1..L /\ s[1] \in Node
      /\ \A j \in 1..L : s[j] \in Node /\ DcOf[s[j]] = d /\ (s[j] = Master(d) => j = 1)
  BY MasterIs DEF Spacious, Master
<1>4. \A n \in Node : DcOf[n] = d /\ n # Master(d) => Tree[n] = s[1]
  BY <1>2, Parents
<1> HIDE DEF s, L
<1>5. ASSUME NEW j \in 1..(L - 1)
      PROVE  /\ j + 1 \in 1..L /\ j + 1 # 1
             /\ ps[j] = Pair(s[j + 1], s[1]) /\ ps[j] \in [host : Node, master : Node]
  <2>1. j + 1 \in 1..L /\ j + 1 # 1
    BY <1>3
  <2> QED
    BY <2>1, <1>3, PairIs
<1>6. ps \in Seq([host : Node, master : Node]) /\ DOMAIN ps = 1..(L - 1)
  <2> DEFINE R == [host : Node, master : Node]
  <2>1. ps \in [1..(L - 1) -> R] /\ L - 1 \in Nat /\ DOMAIN ps = 1..(L - 1)
    BY <1>3, <1>5
  <2> HIDE DEF ps, R
  <2>2. ps \in Seq(R) /\ DOMAIN ps = 1..(L - 1)
    BY <2>1
  <2> QED
    BY <2>2 DEF R
<1> HIDE DEF ps
<1>7. ASSUME NEW n \in Node, DcOf[n] = d, n # Master(d) PROVE Pair(n, Tree[n]) \in ToSet(ps)
  <2>1. n \in ToSet(s)
    BY <1>2, <1>7 DEF Here
  <2>2. PICK k \in 1..L : s[k] = n
    BY <2>1, <1>3 DEF ToSet
  <2>3. k - 1 \in 1..(L - 1) /\ k - 1 + 1 = k
    BY <2>2, <1>2, <1>3, <1>7
  <2>4. ps[k - 1] = Pair(n, s[1])
    BY <2>2, <2>3, <1>5
  <2>5. Tree[n] = s[1]
    BY <1>4, <1>7
  <2> QED
    BY <2>3, <2>4, <2>5, <1>6 DEF ToSet
<1>8. ASSUME NEW x \in ToSet(ps)
      PROVE  \E n \in Node : DcOf[n] = d /\ n # Master(d) /\ x = Pair(n, Tree[n])
  <2>1. PICK j \in 1..(L - 1) : x = ps[j]
    BY <1>6 DEF ToSet
  <2> DEFINE k == j + 1
  <2>2. k \in 1..L /\ k # 1 /\ x = Pair(s[k], s[1])
    BY <2>1, <1>5
  <2> HIDE DEF k
  <2>3. s[k] \in Node /\ DcOf[s[k]] = d /\ s[k] # Master(d)
    BY <2>2, <1>3
  <2> QED
    BY <2>2, <2>3, <1>4
<1> QED
  BY <1>1, <1>6, <1>7, <1>8 DEF s

\* A pair in front of these, for the master.
LEMMA AllPairs ==
    ASSUME Layout, Spacious, NEW d \in DC, NEW m \in Node
    PROVE  LET s == InDc(d)
               ps == <<Pair(s[1], m)>> \o Tails(s, LAMBDA j : Pair(s[j], s[1])) IN
           /\ ps \in Seq([host : Node, master : Node])
           /\ ToSet(ps) = {Pair(Master(d), m)}
                             \cup {Pair(n, Tree[n]) : n \in {x \in Node : DcOf[x] = d /\ x # Master(d)}}
<1> DEFINE s == InDc(d)
           ts == Tails(s, LAMBDA j : Pair(s[j], s[1]))
           one == <<Pair(s[1], m)>>
<1>1. /\ ts \in Seq([host : Node, master : Node])
      /\ \A n \in Node : DcOf[n] = d /\ n # Master(d) => Pair(n, Tree[n]) \in ToSet(ts)
      /\ \A x \in ToSet(ts) : \E n \in Node : DcOf[n] = d /\ n # Master(d) /\ x = Pair(n, Tree[n])
  BY TailPairs
<1>2. s[1] = Master(d) /\ Master(d) \in Node
  BY MasterIs DEF Master
<1> HIDE DEF ts, s
<1>3. one \in Seq([host : Node, master : Node]) /\ ToSet(one) = {Pair(Master(d), m)}
  <2>1. Pair(s[1], m) \in [host : Node, master : Node]
    BY <1>2, PairIs
  <2>2. one \in Seq([host : Node, master : Node]) /\ DOMAIN one = {1} /\ one[1] = Pair(s[1], m)
    BY <2>1
  <2> QED
    BY <2>2, <1>2 DEF ToSet
<1> HIDE DEF one
<1>4. /\ one \o ts \in Seq([host : Node, master : Node])
      /\ ToSet(one \o ts) = ToSet(one) \cup ToSet(ts)
  BY <1>1, <1>3, ElementsOfConcat
<1>5. ToSet(ts) = {Pair(n, Tree[n]) : n \in {x \in Node : DcOf[x] = d /\ x # Master(d)}}
  BY <1>1
<1> QED
  BY <1>3, <1>4, <1>5 DEF one, ts, s

-----------------------------------------------------------------------------
(* The inductive invariant.                                                *)

\* The first k elements of a list.
Upto(l, k) == {l[i] : i \in 1..k}

LEMMA NextUp ==
    ASSUME NEW S, NEW l \in Seq(S), IsInjective(l)
    PROVE  /\ Len(l) \in Nat /\ Upto(l, 0) = {} /\ Upto(l, Len(l)) = ToSet(l)
           /\ \A k \in 1..Len(l) : /\ l[k] \in ToSet(l) /\ l[k] \notin Upto(l, k - 1)
                                   /\ Upto(l, k) = Upto(l, k - 1) \cup {l[k]}
                                   /\ Upto(l, k - 1) \subseteq ToSet(l)
<1>1. Len(l) \in Nat /\ DOMAIN l = 1..Len(l)
  OBVIOUS
<1>2. Upto(l, 0) = {} /\ Upto(l, Len(l)) = ToSet(l)
  BY <1>1 DEF Upto, ToSet
<1>3. ASSUME NEW k \in 1..Len(l)
      PROVE  /\ l[k] \in ToSet(l) /\ l[k] \notin Upto(l, k - 1)
             /\ Upto(l, k) = Upto(l, k - 1) \cup {l[k]}
             /\ Upto(l, k - 1) \subseteq ToSet(l)
  <2>1. 1..k = 1..(k - 1) \cup {k} /\ 1..(k - 1) \subseteq 1..Len(l) /\ k \notin 1..(k - 1)
    BY <1>1
  <2>2. l[k] \notin Upto(l, k - 1)
    BY <2>1, <1>1 DEF Upto, IsInjective
  <2>3. Upto(l, k) = Upto(l, k - 1) \cup {l[k]}
    BY <2>1 DEF Upto
  <2> QED
    BY <2>1, <2>2, <2>3, <1>1 DEF Upto, ToSet
<1> QED
  BY <1>1, <1>2, <1>3

\* The lists have the nodes of the data centres D.
Built(D) ==
    /\ LaidOut(metanodes, D, Tree, Near)
    /\ Listed(elements, D, Tree, ToSet(dcstandbylist))

\* The same with several data centres: the master of each of D is marked.
BuiltDcs(D) ==
    /\ Spacious /\ Built(D)
    /\ primaries = {Master(d) : d \in D}
    /\ node \in Node
    /\ fullsyncLevel = Len(InDc(dcprimary)) + Len(dcsecondarylist) - 1

OneMarked == ~multipledc /\ \E n \in Node : primaries = {n}

MetaInv ==
    /\ Layout
    /\ phase \in Phases /\ next \in Nat
    /\ phase \notin {"install", "done"} => installed = <<>>
    /\ phase = "validate" => sdcmaster = Nobody /\ (multipledc \/ primaries \subseteq Node)
    /\ phase = "onedc" => OneMarked
    /\ phase = "primary" => Spacious /\ primaries = {Root} /\ sdcmaster = Nobody
    /\ phase = "secondary" =>
          /\ next \in 1..(Len(dcsecondarylist) + 1)
          /\ BuiltDcs({dcprimary} \cup Upto(dcsecondarylist, next - 1))
          /\ sdcmaster = IF next = 1 THEN Nobody ELSE Relay
    /\ phase = "standby" =>
          /\ next \in 1..(Len(dcstandbylist) + 1)
          /\ BuiltDcs({dcprimary} \cup ToSet(dcsecondarylist) \cup Upto(dcstandbylist, next - 1))
          /\ sdcmaster = Relay
    /\ Ready =>
          /\ Built(DC)
          /\ IF multipledc THEN BuiltDcs(DC) ELSE OneMarked
          /\ installed \in Seq(Entry) /\ Len(installed) <= Len(metanodes)
          /\ \A i \in 1..Len(installed) : installed[i] = InstallOrder[i]
    /\ phase = "done" =>
          /\ Len(installed) = Len(metanodes)
          /\ firstmeta = Head(Those(nodes, primaries))

\* It holds initially, and each action keeps it.
LEMMA InitMetaInv == Init => MetaInv
<1> SUFFICES ASSUME Init PROVE MetaInv
  OBVIOUS
<1>1. phase = "validate" /\ next = 1 /\ installed = <<>> /\ sdcmaster = Nobody
  BY DEF Init
<1>2. multipledc \/ primaries \subseteq Node
  BY DEF Init
<1>3. Layout
  BY InitLayout
<1> QED
  BY <1>1, <1>2, <1>3 DEF MetaInv, Phases, Ready

\* Nothing but the phase and the marks change.
LEMMA RejectKeeps == ASSUME MetaInv, Reject, phase = "validate" PROVE MetaInv'
<1>1. Layout'
  BY LayoutKept DEF MetaInv, Reject
<1>2. phase' = "rejected" /\ next' = next /\ next \in Nat /\ installed' = <<>>
  BY DEF Reject, MetaInv
<1> QED
  BY <1>1, <1>2 DEF MetaInv, Phases, Ready

LEMMA FirstNode ==
    ASSUME Layout
    PROVE  nodes[1] \in Node
<1>1. nodes \in Seq(Node) /\ ToSet(nodes) = Node /\ Node # {}
  BY MetaAssumption DEF Layout
<1>2. 1 \in DOMAIN nodes
  BY <1>1 DEF ToSet
<1> QED
  BY <1>1, <1>2

LEMMA ValidateOneDcKeeps == ASSUME MetaInv, ValidateOneDc PROVE MetaInv'
<1>1. /\ Layout /\ phase = "validate" /\ ~multipledc /\ next \in Nat
      /\ primaries \subseteq Node /\ installed = <<>>
  BY DEF MetaInv, ValidateOneDc
<1>2. CASE Cardinality(primaries) > 1
  <2>1. Reject
    BY <1>2 DEF ValidateOneDc
  <2> QED
    BY <2>1, <1>1, RejectKeeps
<1>3. CASE ~(Cardinality(primaries) > 1)
  <2>1. /\ primaries' = IF primaries = {} THEN {nodes[1]} ELSE primaries
        /\ phase' = "onedc" /\ next' = next /\ installed' = installed /\ UNCHANGED config
    BY <1>3 DEF ValidateOneDc
  <2>2. Layout'
    BY <1>1, <2>1, LayoutKept
  <2>3. \E n \in Node : primaries' = {n}
    <3>1. CASE primaries = {}
      BY <3>1, <2>1, <1>1, FirstNode
    <3>2. CASE primaries # {}
      <4>1. IsFiniteSet(primaries) /\ Cardinality(primaries) \in Nat
        BY <1>1, MetaAssumption, FS_Subset, FS_CardinalityType
      <4>2. Cardinality(primaries) # 0
        BY <4>1, <3>2, FS_EmptySet
      <4>3. Cardinality(primaries) = 1
        BY <4>1, <4>2, <1>3
      <4>4. \E n : primaries = {n}
        BY <4>1, <4>3, FS_Singleton
      <4> QED
        BY <4>4, <3>2, <2>1, <1>1
    <3> QED
      BY <3>1, <3>2
  <2>4. multipledc' = multipledc
    BY <2>1 DEF config
  <2>5. OneMarked'
    BY <1>1, <2>3, <2>4 DEF OneMarked
  <2> QED
    BY <1>1, <2>1, <2>2, <2>5 DEF MetaInv, Phases, Ready
<1> QED
  BY <1>2, <1>3

LEMMA ValidateMultiDcKeeps == ASSUME MetaInv, ValidateMultiDc PROVE MetaInv'
<1>1. /\ Layout /\ phase = "validate" /\ multipledc /\ next \in Nat
      /\ installed = <<>> /\ sdcmaster = Nobody
  BY DEF MetaInv, ValidateMultiDc
<1>2. CASE \E d \in DC : Len(InDc(d)) < 2
  <2>1. Reject
    BY <1>2 DEF ValidateMultiDc
  <2> QED
    BY <2>1, <1>1, RejectKeeps
<1>3. CASE ~\E d \in DC : Len(InDc(d)) < 2
  <2>1. /\ primaries' = {Root} /\ phase' = "primary" /\ next' = next
        /\ installed' = installed /\ sdcmaster' = sdcmaster /\ UNCHANGED config
    BY <1>3 DEF ValidateMultiDc, Root, built
  <2>2. Layout'
    BY <1>1, <2>1, LayoutKept
  <2>3. Spacious
    <3>1. ASSUME NEW d \in DC PROVE Len(InDc(d)) >= 2
      <4>1. Len(InDc(d)) \in Nat
        <5>1. InDc(d) \in Seq(Node)
          BY <1>1, DcList
        <5> QED
          BY <5>1
      <4> QED
        BY <4>1, <1>3
    <3> QED
      BY <3>1, <1>1 DEF Spacious
  <2>4. Spacious' /\ Root' = Root
    BY <2>1, <2>3, <1>1, TreeKept
  <2> QED
    BY <1>1, <2>1, <2>2, <2>4 DEF MetaInv, Phases, Ready
<1> QED
  BY <1>2, <1>3

LEMMA OneDcTree ==
    ASSUME ~multipledc, NEW p \in Node, primaries = {p}
    PROVE  Near = {} /\ \A n \in Node : Tree[n] = p
<1>1. Top = p
  BY DEF Top
<1> QED
  BY <1>1 DEF Near, Tree, Parent

\* The list of all nodes in the order of the configuration.
LEMMA AllItems ==
    ASSUME Layout, NEW p \in Node, primaries = {p}
    PROVE  LET all == [i \in DOMAIN nodes |-> Item(nodes[i], Dump(nodes, primaries), i, 1)] IN
           /\ all \in Seq(Entry) /\ IsInjective(all)
           /\ \A e \in ToSet(all) : e \in Entry /\ e.node \in Node /\ Source(e) = p
           /\ \A n \in Node : \E e \in ToSet(all) : e.node = n
           /\ \A e, f \in ToSet(all) : e.node = f.node => e = f
<1> DEFINE file == Dump(nodes, primaries)
           all == [i \in DOMAIN nodes |-> Item(nodes[i], file, i, 1)]
<1>1. nodes \in Seq(Node) /\ IsInjective(nodes) /\ ToSet(nodes) = Node
  BY DEF Layout
<1>2. DOMAIN nodes = 1..Len(nodes) /\ Len(nodes) \in Nat /\ \A i \in 1..Len(nodes) : nodes[i] \in Node
  BY <1>1
<1>3. file \in Seq(Line) /\ \A e : e.file = file => Source(e) = p
  BY <1>1, DumpIs
<1> HIDE DEF file
<1>4. ASSUME NEW i \in 1..Len(nodes)
      PROVE  /\ all[i] \in Entry /\ all[i].node = nodes[i] /\ Source(all[i]) = p
  <2>1. all[i] = Item(nodes[i], file, i, 1)
    BY <1>2
  <2> HIDE DEF all
  <2>2. i \in Nat /\ 1 \in Nat /\ nodes[i] \in Node
    BY <1>2
  <2>3. /\ Item(nodes[i], file, i, 1) \in Entry /\ Item(nodes[i], file, i, 1).node = nodes[i]
        /\ Item(nodes[i], file, i, 1).file = file
    BY <2>2, <1>3, ItemIs
  <2> QED
    BY <2>1, <2>3, <1>3
<1>5. all \in Seq(Entry) /\ DOMAIN all = 1..Len(nodes)
  <2>1. all \in [1..Len(nodes) -> Entry] /\ DOMAIN all = 1..Len(nodes)
    BY <1>2, <1>4
  <2> HIDE DEF all
  <2> QED
    BY <2>1, <1>2
<1> HIDE DEF all
<1>6. ASSUME NEW i \in 1..Len(nodes), NEW j \in 1..Len(nodes), all[i].node = all[j].node PROVE i = j
  BY <1>1, <1>2, <1>4, <1>6 DEF IsInjective
<1>7. IsInjective(all)
  BY <1>5, <1>6 DEF IsInjective
<1>8. \A e \in ToSet(all) : \E i \in 1..Len(nodes) : e = all[i]
  BY <1>5 DEF ToSet
<1>9. \A e \in ToSet(all) : e \in Entry /\ e.node \in Node /\ Source(e) = p
  BY <1>2, <1>4, <1>8
<1>10. ASSUME NEW n \in Node PROVE \E e \in ToSet(all) : e.node = n
  <2>1. PICK i \in 1..Len(nodes) : nodes[i] = n
    BY <1>1, <1>2 DEF ToSet
  <2> QED
    BY <2>1, <1>4, <1>5 DEF ToSet
<1>11. \A e, f \in ToSet(all) : e.node = f.node => e = f
  BY <1>6, <1>8
<1> QED
  BY <1>5, <1>7, <1>9, <1>10, <1>11 DEF all, file

LEMMA SetupOneDcBuilds ==
    ASSUME Layout, SetupOneDc, NEW p \in Node, primaries = {p}, ~multipledc
    PROVE  LaidOut(metanodes', DC, Tree, Near) /\ Listed(elements', DC, Tree, {})
<1> DEFINE all == [i \in DOMAIN nodes |-> Item(nodes[i], Dump(nodes, primaries), i, 1)]
           marked == {e \in ToSet(all) : e.node \in primaries}
           q == Those(all, marked)
           s == Those(all, ToSet(all) \ marked)
           els == [i \in DOMAIN s |-> Pair(s[i].node, q[1].node)]
<1>1. metanodes' = q \o s /\ elements' = els
  BY DEF SetupOneDc
<1>2. /\ all \in Seq(Entry) /\ IsInjective(all)
      /\ \A e \in ToSet(all) : e \in Entry /\ e.node \in Node /\ Source(e) = p
      /\ \A n \in Node : \E e \in ToSet(all) : e.node = n
      /\ \A e, f \in ToSet(all) : e.node = f.node => e = f
  BY AllItems
<1>3. Near = {} /\ \A n \in Node : Tree[n] = p
  BY OneDcTree
<1>4. \A n \in Node : DcOf[n] \in DC
  BY MetaAssumption
<1> HIDE DEF all
<1>5. /\ q \o s \in Seq(Entry) /\ ToSet(q \o s) = ToSet(all) /\ IsInjective(q \o s)
  BY <1>2, PartsOfList
<1>6. /\ q \in Seq(Entry) /\ ToSet(q) = {e \in ToSet(all) : e.node = p}
      /\ s \in Seq(Entry) /\ ToSet(s) = {e \in ToSet(all) : e.node # p}
  <2>1. /\ q \in Seq(Entry \cap marked) /\ ToSet(q) = ToSet(all) \cap marked
        /\ s \in Seq(Entry \cap (ToSet(all) \ marked)) /\ ToSet(s) = ToSet(all) \cap (ToSet(all) \ marked)
    <3> HIDE DEF marked
    <3> QED
      BY <1>2, ThoseAre
  <2>2. marked = {e \in ToSet(all) : e.node = p}
    OBVIOUS
  <2> HIDE DEF q, s, marked
  <2>3. q \in Seq(Entry) /\ s \in Seq(Entry)
    BY <2>1
  <2> QED
    BY <2>1, <2>2, <2>3
<1> HIDE DEF q, s, marked
<1>7. /\ Len(q) \in Nat /\ DOMAIN q = 1..Len(q) /\ Len(s) \in Nat /\ DOMAIN s = 1..Len(s)
      /\ 1 \in 1..Len(q) /\ q[1].node = p
  <2>1. /\ Len(q) \in Nat /\ DOMAIN q = 1..Len(q) /\ Len(s) \in Nat /\ DOMAIN s = 1..Len(s)
    BY <1>6
  <2>2. PICK e \in ToSet(q) : e.node = p
    BY <1>2, <1>6
  <2>3. 1 \in 1..Len(q)
    BY <2>1, <2>2 DEF ToSet
  <2>4. q[1] \in ToSet(q)
    BY <2>1, <2>3 DEF ToSet
  <2> QED
    BY <2>1, <2>3, <2>4, <1>6
<1> DEFINE t == q \o s
<1>8. /\ t \in Seq(Entry) /\ Len(t) = Len(q) + Len(s) /\ DOMAIN t = 1..Len(t)
      /\ \A i \in 1..Len(q) : t[i] = q[i]
  BY <1>6
<1>9. ToSet(t) = ToSet(all) /\ IsInjective(t)
  BY <1>5
<1> HIDE DEF t
<1>10. ASSUME NEW i \in 1..Len(t)
       PROVE  /\ DcOf[t[i].node] \in DC
              /\ Source(t[i]) = Tree[t[i].node]
              /\ Tree[t[i].node] # t[i].node => \E j \in 1..(i - 1) : t[j].node = Tree[t[i].node]
              /\ t[i].node \in Near => t[i].fullsync = 1
  <2>1. t[i] \in ToSet(all)
    BY <1>8, <1>9 DEF ToSet
  <2>2. t[i].node \in Node /\ Source(t[i]) = p
    BY <2>1, <1>2
  <2>3. ASSUME p # t[i].node PROVE \E j \in 1..(i - 1) : t[j].node = p
    <3>1. i \notin 1..Len(q)
      <4>1. SUFFICES ASSUME i \in 1..Len(q) PROVE FALSE
        OBVIOUS
      <4>2. t[i] \in ToSet(q)
        BY <4>1, <1>7, <1>8 DEF ToSet
      <4> QED
        BY <4>2, <2>3, <1>6
    <3>2. 1 \in 1..(i - 1)
      BY <3>1, <1>7, <1>8
    <3> QED
      BY <3>2, <1>7, <1>8
  <2> QED
    BY <2>2, <2>3, <1>3, <1>4
<1>11. ASSUME NEW n \in Node PROVE \E i \in 1..Len(t) : t[i].node = n
  <2>1. PICK e \in ToSet(t) : e.node = n
    BY <1>2, <1>9
  <2> QED
    BY <2>1, <1>8 DEF ToSet
<1>12. ASSUME NEW i \in 1..Len(t), NEW j \in 1..Len(t), t[i].node = t[j].node PROVE i = j
  <2>1. t[i] \in ToSet(all) /\ t[j] \in ToSet(all)
    BY <1>8, <1>9 DEF ToSet
  <2>2. t[i] = t[j]
    BY <2>1, <1>12, <1>2
  <2> QED
    BY <2>2, <1>8, <1>9 DEF IsInjective
<1>13. LaidOut(t, DC, Tree, Near)
  BY <1>8, <1>10, <1>11, <1>12 DEF LaidOut
<1>14. ASSUME NEW i \in 1..Len(s)
       PROVE  /\ s[i].node \in Node /\ s[i].node # p /\ els[i] = Pair(s[i].node, p)
              /\ els[i] \in [host : Node, master : Node]
  <2>1. s[i] \in ToSet(s)
    BY <1>7 DEF ToSet
  <2>2. s[i].node \in Node /\ s[i].node # p
    BY <2>1, <1>2, <1>6
  <2>3. els[i] = Pair(s[i].node, p)
    BY <1>7
  <2> HIDE DEF els
  <2> QED
    BY <2>2, <2>3, PairIs
<1>15. els \in Seq([host : Node, master : Node]) /\ DOMAIN els = 1..Len(s)
  <2> DEFINE R == [host : Node, master : Node]
  <2>1. els \in [1..Len(s) -> R] /\ DOMAIN els = 1..Len(s)
    BY <1>7, <1>14
  <2> HIDE DEF els, R
  <2>2. els \in Seq(R)
    BY <2>1, <1>7
  <2> QED
    BY <2>1, <2>2 DEF R
<1> HIDE DEF els
<1>16. ASSUME NEW n \in Node, Tree[n] # n PROVE Pair(n, Tree[n]) \in ToSet(els)
  <2>1. PICK e \in ToSet(all) : e.node = n
    BY <1>2
  <2>2. e \in ToSet(s)
    BY <2>1, <1>3, <1>6, <1>16
  <2>3. PICK i \in 1..Len(s) : s[i] = e
    BY <2>2, <1>7 DEF ToSet
  <2>4. els[i] = Pair(n, Tree[n])
    BY <2>1, <2>3, <1>3, <1>14
  <2> QED
    BY <2>4, <1>15 DEF ToSet
<1>17. ASSUME NEW x \in ToSet(els)
       PROVE  \E n \in Node : DcOf[n] \in DC /\ Tree[n] # n /\ x = Pair(n, Tree[n])
  <2>1. PICK i \in 1..Len(s) : x = els[i]
    BY <1>15 DEF ToSet
  <2> QED
    BY <2>1, <1>14, <1>3, <1>4
<1>18. Listed(els, DC, Tree, {})
  BY <1>15, <1>16, <1>17 DEF Listed
<1>19. metanodes' = t /\ elements' = els
  BY <1>1 DEF t, els
<1> QED
  BY <1>13, <1>18, <1>19

LEMMA SetupOneDcKeeps == ASSUME MetaInv, SetupOneDc PROVE MetaInv'
<1>1. /\ Layout /\ phase = "onedc" /\ next \in Nat /\ installed = <<>> /\ OneMarked
  BY DEF MetaInv, SetupOneDc
<1>2. phase' = "install" /\ UNCHANGED <<config, primaries, next, installed>>
  BY DEF SetupOneDc
<1>3. PICK p \in Node : primaries = {p}
  BY <1>1 DEF OneMarked
<1>4. ~multipledc /\ dcstandbylist = <<>> /\ ToSet(dcstandbylist) = {}
  <2>1. ~multipledc /\ dcstandbylist = <<>>
    BY <1>1 DEF OneMarked, Layout
  <2> QED
    BY <2>1, NoOrder
<1>5. LaidOut(metanodes', DC, Tree, Near) /\ Listed(elements', DC, Tree, {})
  BY <1>1, <1>3, <1>4, SetupOneDcBuilds
<1>6. Tree' = Tree /\ Near' = Near
  BY <1>2, TreeKept
<1>7. multipledc' = multipledc /\ dcstandbylist' = dcstandbylist
  BY <1>2 DEF config
<1>8. Built(DC)'
  BY <1>4, <1>5, <1>6, <1>7 DEF Built
<1>9. Layout'
  BY <1>1, <1>2, LayoutKept
<1>10. OneMarked'
  BY <1>1, <1>2, <1>7 DEF OneMarked
<1>11. installed' = <<>> /\ installed' \in Seq(Entry) /\ Len(installed') = 0
  BY <1>1, <1>2
<1>12. Len(installed') <= Len(metanodes')
  <2>1. Len(metanodes') \in Nat
    <3>1. metanodes' \in Seq(Entry)
      BY <1>5 DEF LaidOut
    <3> QED
      BY <3>1
  <2> QED
    BY <2>1, <1>11
<1>13. \A i \in 1..Len(installed') : installed'[i] = InstallOrder'[i]
  BY <1>11
<1> QED
  BY <1>1, <1>2, <1>4, <1>7, <1>8, <1>9, <1>10, <1>11, <1>12, <1>13 DEF MetaInv, Phases, Ready

LEMMA PrimaryItems ==
    ASSUME Layout, Spacious, primaries = {Root}
    PROVE  LET s == InDc(dcprimary)
               c == [j \in DOMAIN s |-> Item(s[j], Dump(s, primaries), j, 1)] IN
           LaidOut(c, {dcprimary}, Tree, Near)
<1> DEFINE s == InDc(dcprimary)
           file == Dump(s, primaries)
           c == [j \in DOMAIN s |-> Item(s[j], file, j, 1)]
<1>1. dcprimary \in DC
  BY DEF Layout, Spacious
<1>2. /\ s \in Seq(Node) /\ IsInjective(s) /\ ToSet(s) = Here(dcprimary) /\ s[1] = Root
      /\ Root = Master(dcprimary)
  BY <1>1, DcList DEF Root, Master
<1>3. /\ Len(s) \in Nat /\ Len(s) >= 2 /\ DOMAIN s = 1..Len(s)
      /\ \A j \in 1..Len(s) : s[j] \in Node /\ DcOf[s[j]] = dcprimary /\ (s[j] = Root => j = 1)
  BY <1>1, <1>2, MasterIs DEF Spacious
<1>4. file \in Seq(Line) /\ \A e : e.file = file => Source(e) = Root
  <2>1. Root \in ToSet(s) /\ Root \in primaries /\ \A m \in ToSet(s) : m \in primaries => m = Root
    BY <1>2, <1>3 DEF ToSet
  <2> QED
    BY <2>1, <1>2, DumpIs
<1>5. Tree[Root] = Root /\ \A n \in Node : DcOf[n] = dcprimary /\ n # Root => Tree[n] = Root
  BY <1>2, Parents
<1> HIDE DEF file, s
<1>6. ASSUME NEW j \in 1..Len(s)
      PROVE  c[j] \in Entry /\ c[j].node = s[j] /\ Source(c[j]) = Root /\ c[j].fullsync = 1
  <2>1. c[j] = Item(s[j], file, j, 1)
    BY <1>3
  <2> HIDE DEF c
  <2>2. j \in Nat /\ 1 \in Nat /\ s[j] \in Node
    BY <1>3
  <2>3. /\ Item(s[j], file, j, 1) \in Entry /\ Item(s[j], file, j, 1).node = s[j]
        /\ Item(s[j], file, j, 1).file = file /\ Item(s[j], file, j, 1).fullsync = 1
    BY <2>2, <1>4, ItemIs
  <2> QED
    BY <2>1, <2>3, <1>4
<1>7. c \in Seq(Entry) /\ Len(c) = Len(s)
  <2>1. c \in [1..Len(s) -> Entry] /\ DOMAIN c = 1..Len(s)
    BY <1>3, <1>6
  <2> HIDE DEF c
  <2> QED
    BY <2>1, <1>3
<1> HIDE DEF c
<1>8. ASSUME NEW j \in 1..Len(c)
      PROVE  /\ DcOf[c[j].node] = dcprimary /\ Source(c[j]) = Tree[c[j].node]
             /\ \/ Tree[c[j].node] = c[j].node
                \/ \E i \in 1..(j - 1) : c[i].node = Tree[c[j].node]
                \/ \E i \in 1..Len(<<>>) : <<>>[i].node = Tree[c[j].node]
             /\ c[j].node \in Near => c[j].fullsync = 1
  <2>1. c[j].node = s[j] /\ Source(c[j]) = Root /\ c[j].fullsync = 1 /\ DcOf[s[j]] = dcprimary /\ s[j] \in Node
    BY <1>3, <1>6, <1>7
  <2>2. Tree[s[j]] = Root
    BY <2>1, <1>5
  <2>3. CASE j = 1
    BY <2>1, <2>2, <2>3, <1>2
  <2>4. CASE j # 1
    <3>1. 1 \in 1..(j - 1) /\ c[1].node = Root
      BY <2>4, <1>2, <1>3, <1>6, <1>7
    <3> QED
      BY <2>1, <2>2, <3>1
  <2> QED
    BY <2>3, <2>4
<1>9. ASSUME NEW n \in Node, DcOf[n] = dcprimary PROVE \E j \in 1..Len(c) : c[j].node = n
  <2>1. n \in ToSet(s)
    BY <1>2, <1>9 DEF Here
  <2>2. PICK j \in 1..Len(s) : s[j] = n
    BY <2>1, <1>3 DEF ToSet
  <2> QED
    BY <2>2, <1>6, <1>7
<1>10. ASSUME NEW i \in 1..Len(c), NEW j \in 1..Len(c), c[i].node = c[j].node PROVE i = j
  BY <1>2, <1>3, <1>6, <1>7, <1>10 DEF IsInjective
<1>11. LaidOut(<<>> \o c, {} \cup {dcprimary}, Tree, Near)
  <2>1. LaidOut(<<>>, {}, Tree, Near) /\ dcprimary \notin {}
    BY NothingLaidOut
  <2> QED
    BY <2>1, <1>7, <1>8, <1>9, <1>10, OneMoreDc
<1>12. <<>> \o c = c /\ {} \cup {dcprimary} = {dcprimary}
  BY <1>7
<1> QED
  BY <1>11, <1>12 DEF c, file, s

LEMMA PrimaryPairs ==
    ASSUME Layout, Spacious, NEW hidden
    PROVE  LET s == InDc(dcprimary)
               ps == Tails(s, LAMBDA j : Pair(s[j], s[1])) IN
           Listed(ps, {dcprimary}, Tree, hidden)
<1> DEFINE s == InDc(dcprimary)
           ps == Tails(s, LAMBDA j : Pair(s[j], s[1]))
<1>1. dcprimary \in DC
  BY DEF Layout, Spacious
<1>2. /\ ps \in Seq([host : Node, master : Node])
      /\ \A n \in Node : DcOf[n] = dcprimary /\ n # Master(dcprimary) => Pair(n, Tree[n]) \in ToSet(ps)
      /\ \A x \in ToSet(ps) : \E n \in Node :
            DcOf[n] = dcprimary /\ n # Master(dcprimary) /\ x = Pair(n, Tree[n])
  BY <1>1, TailPairs
<1>3. /\ Tree[Master(dcprimary)] = Master(dcprimary)
      /\ \A n \in Node : DcOf[n] = dcprimary /\ n # Master(dcprimary) => Tree[n] # n
  BY Parents
<1> HIDE DEF ps
<1>4. Listed(ps, {dcprimary}, Tree, hidden)
  BY <1>2, <1>3 DEF Listed
<1> QED
  BY <1>4 DEF ps, s

LEMMA LastIs == ASSUME Layout, Spacious, NEW d \in DC PROVE Last(InDc(d)) \in Node
<1>1. Len(InDc(d)) \in 1..Len(InDc(d))
  BY MasterIs
<1> QED
  BY <1>1, MasterIs DEF Last

LEMMA SetupPrimaryDcKeeps == ASSUME MetaInv, SetupPrimaryDc PROVE MetaInv'
<1>1. /\ Layout /\ phase = "primary" /\ installed = <<>> /\ sdcmaster = Nobody
      /\ Spacious /\ primaries = {Root}
  BY DEF MetaInv, SetupPrimaryDc
<1> DEFINE s == InDc(dcprimary)
<1>2. /\ fullsyncLevel' = Len(s) + Len(dcsecondarylist) - 1
      /\ metanodes' = [j \in DOMAIN s |-> Item(s[j], Dump(s, primaries), j, 1)]
      /\ elements' = Tails(s, LAMBDA j : Pair(s[j], s[1]))
      /\ node' = Last(s)
      /\ phase' = "secondary" /\ next' = 1
      /\ UNCHANGED <<config, primaries, sdcmaster, installed>>
  BY DEF SetupPrimaryDc
<1>3. LaidOut(metanodes', {dcprimary}, Tree, Near)
  BY <1>1, <1>2, PrimaryItems
<1>4. Listed(elements', {dcprimary}, Tree, ToSet(dcstandbylist))
  BY <1>1, <1>2, PrimaryPairs
<1>5. /\ Tree' = Tree /\ Near' = Near /\ Relay' = Relay /\ Root' = Root /\ Spacious' = Spacious
      /\ \A d : InDc(d)' = InDc(d) /\ Master(d)' = Master(d)
  BY <1>2, TreeKept
<1>6. /\ dcprimary' = dcprimary /\ dcsecondarylist' = dcsecondarylist /\ dcstandbylist' = dcstandbylist
      /\ dcprimary \in DC /\ dcsecondarylist \in Seq(DC) /\ IsInjective(dcsecondarylist)
      /\ Len(dcsecondarylist) \in Nat
  BY <1>1, <1>2 DEF config, Layout, Spacious
<1>7. Upto(dcsecondarylist, 0) = {}
  BY <1>6, NextUp
<1>8. node' \in Node
  BY <1>1, <1>2, <1>6, LastIs
<1>9. fullsyncLevel' = Len(InDc(dcprimary)) + Len(dcsecondarylist) - 1
  BY <1>2
<1> HIDE DEF s
<1>10. primaries' = {Master(d) : d \in {dcprimary}}
  BY <1>1, <1>2 DEF Root, Master
<1>11. BuiltDcs({dcprimary})'
  BY <1>1, <1>3, <1>4, <1>5, <1>6, <1>8, <1>9, <1>10 DEF BuiltDcs, Built
<1>12. {dcprimary'} \cup Upto(dcsecondarylist', next' - 1) = {dcprimary'}
  <2>1. next' - 1 = 0
    BY <1>2
  <2> QED
    BY <2>1, <1>6, <1>7
<1>13. Layout'
  BY <1>1, <1>2, LayoutKept
<1>14. next' \in 1..(Len(dcsecondarylist') + 1) /\ next' \in Nat
  BY <1>2, <1>6
<1> QED
  BY <1>1, <1>2, <1>11, <1>12, <1>13, <1>14 DEF MetaInv, Phases, Ready

\* One more data centre is marked and has its entries.
LEMMA DcAdded ==
    ASSUME Layout, NEW D, D \subseteq DC, BuiltDcs(D), NEW d \in DC, d \notin D, d # dcprimary,
           NEW fs \in Nat, d \in ToSet(dcsecondarylist) => fs = 1,
           Tree[Master(d)] \in Node, DcOf[Tree[Master(d)]] \in D
    PROVE  /\ LaidOut(metanodes \o Chain(InDc(d), Tree[Master(d)], fs), D \cup {d}, Tree, Near)
           /\ primaries \cup {Master(d)} = {Master(x) : x \in D \cup {d}}
<1>1. Spacious /\ primaries = {Master(x) : x \in D} /\ LaidOut(metanodes, D, Tree, Near)
  BY DEF BuiltDcs, Built
<1>2. primaries \cap Here(d) = {}
  BY <1>1, MasterIs DEF Here
<1>3. LaidOut(metanodes \o Chain(InDc(d), Tree[Master(d)], fs), D \cup {d}, Tree, Near)
  BY <1>1, <1>2, ChainLaidOut
<1> QED
  BY <1>1, <1>3

\* The pairs of a secondary data centre.
LEMMA SecondaryPairs ==
    ASSUME Layout, NEW D, BuiltDcs(D), NEW d \in ToSet(dcsecondarylist)
    PROVE  LET s == InDc(d) IN
           Listed(elements \o <<Pair(s[1], Root)>> \o Tails(s, LAMBDA j : Pair(s[j], s[1])),
                  D \cup {d}, Tree, ToSet(dcstandbylist))
<1> DEFINE s == InDc(d)
           R == [host : Node, master : Node]
           one == <<Pair(s[1], Root)>>
           ts == Tails(s, LAMBDA j : Pair(s[j], s[1]))
           hidden == ToSet(dcstandbylist)
<1>1. Spacious /\ Listed(elements, D, Tree, hidden) /\ elements \in Seq(R)
  BY DEF BuiltDcs, Built, Listed
<1>2. d \in DC /\ Root \in Node /\ Tree[Master(d)] = Root /\ Master(d) # Root
  BY <1>1, Parents DEF Layout, Spacious
<1>3. /\ one \o ts \in Seq(R)
      /\ ToSet(one \o ts) = {Pair(Master(d), Root)}
                               \cup {Pair(n, Tree[n]) : n \in {x \in Node : DcOf[x] = d /\ x # Master(d)}}
  BY <1>1, <1>2, AllPairs
<1>4. ts \in Seq(R)
  BY <1>1, <1>2, TailPairs
<1>5. one \in Seq(R)
  <2>1. s[1] \in Node
    BY <1>1, <1>2, MasterIs
  <2>2. Pair(s[1], Root) \in R
    BY <2>1, <1>2, PairIs
  <2> HIDE DEF R, s
  <2> QED
    BY <2>2
<1>6. /\ Master(d) \in Node /\ DcOf[Master(d)] = d
      /\ \A n \in Node : n # Master(DcOf[n]) => Tree[n] = Master(DcOf[n])
  BY <1>1, <1>2, Parents, MasterIs
<1>7. (elements \o one) \o ts = elements \o (one \o ts)
  <2> HIDE DEF one, ts, R
  <2> QED
    BY <1>1, <1>4, <1>5
<1> DEFINE ps == one \o ts
<1> HIDE DEF one, ts, s, hidden
<1>8. \A n \in Node : DcOf[n] = d => Pair(n, Tree[n]) \in ToSet(ps)
  BY <1>2, <1>3
<1>9. ASSUME NEW x \in ToSet(ps)
      PROVE  \E n \in Node : DcOf[n] = d /\ Tree[n] # n /\ x = Pair(n, Tree[n])
  BY <1>2, <1>3, <1>6
<1>10. ps \in Seq(R)
  BY <1>3
<1> HIDE DEF ps
<1>11. Listed(elements \o ps, D \cup {d}, Tree, hidden)
  BY <1>1, <1>8, <1>9, <1>10, OneMoreListed
<1> QED
  BY <1>7, <1>11 DEF ps, one, ts, s, hidden

\* The pairs of a standby data centre: but for the first, they say nothing of it.
LEMMA StandbyPairs ==
    ASSUME Layout, NEW D, BuiltDcs(D), NEW d \in ToSet(dcstandbylist)
    PROVE  LET s == InDc(d) IN
           Listed(elements \o <<Pair(s[1], Relay)>> \o Tails(s, LAMBDA j : Pair(node, s[1])),
                  D \cup {d}, Tree, ToSet(dcstandbylist))
<1> DEFINE s == InDc(d)
           L == Len(s)
           R == [host : Node, master : Node]
           one == <<Pair(s[1], Relay)>>
           ts == [j \in 1..(L - 1) |-> Pair(node, s[1])]
           hidden == ToSet(dcstandbylist)
<1>1. /\ Spacious /\ Listed(elements, D, Tree, hidden) /\ elements \in Seq(R) /\ node \in Node
      /\ Tails(s, LAMBDA j : Pair(node, s[1])) = ts
  BY DEF BuiltDcs, Built, Listed, Tails
<1>2. d \in DC /\ Relay \in Node /\ Tree[Master(d)] = Relay
  BY <1>1, Parents DEF Layout, Spacious
<1>3. /\ Master(d) \in Node /\ DcOf[Master(d)] = d /\ s[1] = Master(d) /\ L \in Nat /\ L >= 2
      /\ \A n \in Node : n # Master(DcOf[n]) => Tree[n] = Master(DcOf[n])
  BY <1>1, <1>2, Parents, MasterIs DEF Master, Spacious
<1> HIDE DEF s, L
<1>4. Pair(s[1], Relay) \in R /\ Pair(node, s[1]) \in R
  BY <1>1, <1>2, <1>3, PairIs
<1> HIDE DEF R, hidden
<1>5. one \in Seq(R) /\ one[1] = Pair(s[1], Relay) /\ DOMAIN one = {1}
  BY <1>4
<1>6. ts \in Seq(R)
  <2>1. ts \in [1..(L - 1) -> R] /\ L - 1 \in Nat
    BY <1>3, <1>4
  <2> HIDE DEF ts
  <2> QED
    BY <2>1
<1>7. Pair(s[1], Relay) \in ToSet(one)
  BY <1>5 DEF ToSet
<1> HIDE DEF one, ts
<1>8. (elements \o one) \o ts = elements \o (one \o ts)
  BY <1>1, <1>5, <1>6
<1>9. one \o ts \in Seq(R) /\ ToSet(one \o ts) = ToSet(one) \cup ToSet(ts)
  BY <1>5, <1>6, ElementsOfConcat
<1> DEFINE ps == one \o ts
<1>10. ASSUME NEW n \in Node, DcOf[n] = d, Tree[n] # n
       PROVE  DcOf[Tree[n]] \in hidden \/ Pair(n, Tree[n]) \in ToSet(ps)
  <2>1. CASE n = Master(d)
    BY <2>1, <1>2, <1>3, <1>7, <1>9
  <2>2. CASE n # Master(d)
    BY <2>2, <1>3, <1>10 DEF hidden
  <2> QED
    BY <2>1, <2>2
<1>11. hidden # {}
  BY DEF hidden
<1>12. ps \in Seq([host : Node, master : Node])
  BY <1>9 DEF R
<1> HIDE DEF ps
<1>13. Listed(elements \o ps, D \cup {d}, Tree, hidden)
  BY <1>1, <1>10, <1>11, <1>12, OneMoreListed
<1> QED
  BY <1>1, <1>8, <1>13 DEF ps, one, ts, s, hidden

LEMMA SetupSecondaryDcKeeps == ASSUME MetaInv, SetupSecondaryDc PROVE MetaInv'
<1> DEFINE d == dcsecondarylist[next]
           D == {dcprimary} \cup Upto(dcsecondarylist, next - 1)
           s == InDc(d)
<1>1. /\ Layout /\ phase = "secondary" /\ installed = <<>> /\ next \in Nat
      /\ next \in 1..(Len(dcsecondarylist) + 1) /\ BuiltDcs(D)
      /\ sdcmaster = IF next = 1 THEN Nobody ELSE Relay
  BY DEF MetaInv, SetupSecondaryDc
<1>2. /\ next <= Len(dcsecondarylist)
      /\ metanodes' = metanodes \o Chain(s, Root, 1)
      /\ elements' = elements \o <<Pair(s[1], Root)>> \o Tails(s, LAMBDA j : Pair(s[j], s[1]))
      /\ primaries' = primaries \cup {s[1]}
      /\ sdcmaster' = IF sdcmaster = Nobody THEN s[1] ELSE sdcmaster
      /\ node' = Last(s) /\ next' = next + 1
      /\ UNCHANGED <<phase, config, fullsyncLevel, installed>>
  BY DEF SetupSecondaryDc, Root
<1>3. /\ dcsecondarylist \in Seq(DC) /\ IsInjective(dcsecondarylist) /\ Len(dcsecondarylist) \in Nat
      /\ next \in 1..Len(dcsecondarylist)
  BY <1>1, <1>2 DEF Layout
<1>4. /\ d \in ToSet(dcsecondarylist) /\ d \notin Upto(dcsecondarylist, next - 1)
      /\ Upto(dcsecondarylist, next) = Upto(dcsecondarylist, next - 1) \cup {d}
      /\ Upto(dcsecondarylist, next - 1) \subseteq ToSet(dcsecondarylist)
  BY <1>3, NextUp
<1>5. /\ d \in DC /\ d \notin D /\ d # dcprimary /\ D \subseteq DC /\ dcprimary \in D
      /\ D \cup {d} = {dcprimary} \cup Upto(dcsecondarylist, next)
  BY <1>1, <1>4 DEF Layout, BuiltDcs, Spacious
<1>6. Spacious /\ s[1] = Master(d) /\ Master(d) \in Node
  BY <1>1, <1>5, MasterIs DEF BuiltDcs, Master
<1>7. Tree[Master(d)] = Root /\ Root \in Node /\ DcOf[Root] \in D /\ Relay \in Node
  BY <1>1, <1>4, <1>5, <1>6, Parents
<1>8. node' \in Node
  BY <1>1, <1>2, <1>5, <1>6, LastIs
<1> HIDE DEF d, D
<1>9. /\ LaidOut(metanodes \o Chain(InDc(d), Tree[Master(d)], 1), D \cup {d}, Tree, Near)
      /\ primaries \cup {Master(d)} = {Master(x) : x \in D \cup {d}}
  BY <1>1, <1>5, <1>7, DcAdded
<1>10. /\ LaidOut(metanodes', D \cup {d}, Tree, Near)
       /\ primaries' = {Master(x) : x \in D \cup {d}}
  BY <1>2, <1>6, <1>7, <1>9
<1>11. Listed(elements', D \cup {d}, Tree, ToSet(dcstandbylist))
  BY <1>1, <1>2, <1>4, SecondaryPairs
<1>12. sdcmaster' = Relay
  <2>1. CASE next = 1
    <3>1. sdcmaster' = Master(d)
      BY <1>1, <1>2, <1>6, <2>1
    <3>2. d = dcsecondarylist[1] /\ dcsecondarylist # <<>>
      BY <2>1, <1>3 DEF d
    <3> QED
      BY <3>1, <3>2 DEF Relay
  <2>2. CASE next # 1
    <3>1. Relay # Nobody
      BY <1>7, MetaAssumption
    <3> QED
      BY <3>1, <2>2, <1>1, <1>2
  <2> QED
    BY <2>1, <2>2
<1> HIDE DEF s
<1>13. /\ Tree' = Tree /\ Near' = Near /\ Relay' = Relay /\ Spacious' = Spacious
       /\ \A x : InDc(x)' = InDc(x) /\ Master(x)' = Master(x)
  <2>1. multipledc
    BY <1>6 DEF Spacious
  <2> QED
    BY <1>2, <2>1, TreeKept
<1>14. /\ dcprimary' = dcprimary /\ dcsecondarylist' = dcsecondarylist /\ dcstandbylist' = dcstandbylist
  BY <1>2 DEF config
<1>15. fullsyncLevel' = Len(InDc(dcprimary)) + Len(dcsecondarylist) - 1
  BY <1>1, <1>2 DEF BuiltDcs
<1>16. {dcprimary'} \cup Upto(dcsecondarylist', next' - 1) = D \cup {d}
  <2>1. next' - 1 = next
    BY <1>1, <1>2
  <2> QED
    BY <2>1, <1>5, <1>14
<1>17. BuiltDcs({dcprimary} \cup Upto(dcsecondarylist, next - 1))'
  BY <1>6, <1>8, <1>10, <1>11, <1>13, <1>14, <1>15, <1>16 DEF BuiltDcs, Built
<1>18. Layout'
  BY <1>1, <1>2, LayoutKept
<1>19. next' \in 1..(Len(dcsecondarylist') + 1) /\ next' \in Nat /\ next' # 1
  BY <1>2, <1>3, <1>14
<1> QED
  BY <1>1, <1>2, <1>12, <1>13, <1>17, <1>18, <1>19 DEF MetaInv, Phases, Ready

LEMMA SecondariesDoneKeeps == ASSUME MetaInv, SecondariesDone PROVE MetaInv'
<1> DEFINE D == {dcprimary} \cup ToSet(dcsecondarylist)
<1>1. /\ Layout /\ phase = "secondary" /\ installed = <<>> /\ next \in Nat
      /\ next \in 1..(Len(dcsecondarylist) + 1)
      /\ BuiltDcs({dcprimary} \cup Upto(dcsecondarylist, next - 1))
      /\ sdcmaster = IF next = 1 THEN Nobody ELSE Relay
  BY DEF MetaInv, SecondariesDone
<1>2. /\ next > Len(dcsecondarylist)
      /\ sdcmaster' = IF sdcmaster = Nobody THEN InDc(dcprimary)[2] ELSE sdcmaster
      /\ phase' = "standby" /\ next' = 1
      /\ UNCHANGED <<config, primaries, metanodes, elements, node, fullsyncLevel, installed>>
  BY DEF SecondariesDone
<1>3. /\ dcsecondarylist \in Seq(DC) /\ IsInjective(dcsecondarylist) /\ Len(dcsecondarylist) \in Nat
      /\ dcstandbylist \in Seq(DC) /\ IsInjective(dcstandbylist) /\ Len(dcstandbylist) \in Nat
      /\ next - 1 = Len(dcsecondarylist)
  BY <1>1, <1>2 DEF Layout
<1>4. Upto(dcsecondarylist, Len(dcsecondarylist)) = ToSet(dcsecondarylist) /\ Upto(dcstandbylist, 0) = {}
  BY <1>3, NextUp
<1>5. BuiltDcs(D)
  BY <1>1, <1>3, <1>4
<1>6. Spacious /\ multipledc
  BY <1>5 DEF BuiltDcs, Spacious
<1>7. /\ Tree' = Tree /\ Near' = Near /\ Relay' = Relay /\ Spacious' = Spacious
      /\ \A x : InDc(x)' = InDc(x) /\ Master(x)' = Master(x)
  BY <1>2, <1>6, TreeKept
<1>8. dcprimary' = dcprimary /\ dcsecondarylist' = dcsecondarylist /\ dcstandbylist' = dcstandbylist
  BY <1>2 DEF config
<1>9. {dcprimary'} \cup ToSet(dcsecondarylist') \cup Upto(dcstandbylist', next' - 1) = D
  <2>1. next' - 1 = 0
    BY <1>2
  <2> QED
    BY <2>1, <1>4, <1>8
<1> HIDE DEF D
<1>10. BuiltDcs({dcprimary} \cup ToSet(dcsecondarylist) \cup Upto(dcstandbylist, next - 1))'
  BY <1>2, <1>5, <1>7, <1>8, <1>9 DEF BuiltDcs, Built
<1>11. sdcmaster' = Relay
  <2>1. CASE next = 1
    <3>1. dcsecondarylist = <<>>
      BY <2>1, <1>3
    <3> QED
      BY <3>1, <2>1, <1>1, <1>2 DEF Relay
  <2>2. CASE next # 1
    <3>1. Relay # Nobody
      BY <1>1, <1>6, Parents, MetaAssumption
    <3> QED
      BY <3>1, <2>2, <1>1, <1>2
  <2> QED
    BY <2>1, <2>2
<1>12. Layout'
  BY <1>1, <1>2, LayoutKept
<1>13. next' \in 1..(Len(dcstandbylist') + 1) /\ next' \in Nat
  BY <1>2, <1>3, <1>8
<1> QED
  BY <1>1, <1>2, <1>7, <1>10, <1>11, <1>12, <1>13 DEF MetaInv, Phases, Ready

LEMMA SetupStandbyDcKeeps == ASSUME MetaInv, SetupStandbyDc PROVE MetaInv'
<1> DEFINE d == dcstandbylist[next]
           D == {dcprimary} \cup ToSet(dcsecondarylist) \cup Upto(dcstandbylist, next - 1)
           s == InDc(d)
<1>1. /\ Layout /\ phase = "standby" /\ installed = <<>> /\ next \in Nat
      /\ next \in 1..(Len(dcstandbylist) + 1) /\ BuiltDcs(D)
      /\ sdcmaster = Relay
  BY DEF MetaInv, SetupStandbyDc
<1>2. /\ next <= Len(dcstandbylist)
      /\ metanodes' = metanodes \o Chain(s, Relay, 0)
      /\ elements' = elements \o <<Pair(s[1], Relay)>> \o Tails(s, LAMBDA j : Pair(node, s[1]))
      /\ primaries' = primaries \cup {s[1]}
      /\ next' = next + 1
      /\ UNCHANGED <<phase, config, sdcmaster, node, fullsyncLevel, installed>>
  BY <1>1 DEF SetupStandbyDc
<1>3. /\ dcstandbylist \in Seq(DC) /\ IsInjective(dcstandbylist) /\ Len(dcstandbylist) \in Nat
      /\ next \in 1..Len(dcstandbylist)
  BY <1>1, <1>2 DEF Layout
<1>4. /\ d \in ToSet(dcstandbylist) /\ d \notin Upto(dcstandbylist, next - 1)
      /\ Upto(dcstandbylist, next) = Upto(dcstandbylist, next - 1) \cup {d}
      /\ Upto(dcstandbylist, next - 1) \subseteq ToSet(dcstandbylist)
  BY <1>3, NextUp
<1>5. /\ d \in DC /\ d \notin D /\ d # dcprimary /\ D \subseteq DC /\ d \notin ToSet(dcsecondarylist)
      /\ {dcprimary} \cup ToSet(dcsecondarylist) \subseteq D
      /\ D \cup {d} = {dcprimary} \cup ToSet(dcsecondarylist) \cup Upto(dcstandbylist, next)
  BY <1>1, <1>4 DEF Layout, BuiltDcs, Spacious
<1>6. Spacious /\ s[1] = Master(d) /\ Master(d) \in Node
  BY <1>1, <1>5, MasterIs DEF BuiltDcs, Master
<1>7. Tree[Master(d)] = Relay /\ Relay \in Node /\ DcOf[Relay] \in D
  BY <1>1, <1>4, <1>5, <1>6, Parents
<1>8. node \in Node
  BY <1>1 DEF BuiltDcs
<1> HIDE DEF d, D
<1>9. /\ LaidOut(metanodes \o Chain(InDc(d), Tree[Master(d)], 0), D \cup {d}, Tree, Near)
      /\ primaries \cup {Master(d)} = {Master(x) : x \in D \cup {d}}
  BY <1>1, <1>5, <1>7, DcAdded
<1>10. /\ LaidOut(metanodes', D \cup {d}, Tree, Near)
       /\ primaries' = {Master(x) : x \in D \cup {d}}
  BY <1>2, <1>6, <1>7, <1>9
<1>11. Listed(elements', D \cup {d}, Tree, ToSet(dcstandbylist))
  BY <1>1, <1>2, <1>4, StandbyPairs
<1> HIDE DEF s
<1>12. /\ Tree' = Tree /\ Near' = Near /\ Relay' = Relay /\ Spacious' = Spacious
       /\ \A x : InDc(x)' = InDc(x) /\ Master(x)' = Master(x)
  <2>1. multipledc
    BY <1>6 DEF Spacious
  <2> QED
    BY <1>2, <2>1, TreeKept
<1>13. /\ dcprimary' = dcprimary /\ dcsecondarylist' = dcsecondarylist /\ dcstandbylist' = dcstandbylist
  BY <1>2 DEF config
<1>14. fullsyncLevel' = Len(InDc(dcprimary)) + Len(dcsecondarylist) - 1
  BY <1>1, <1>2 DEF BuiltDcs
<1>15. {dcprimary'} \cup ToSet(dcsecondarylist') \cup Upto(dcstandbylist', next' - 1) = D \cup {d}
  <2>1. next' - 1 = next
    BY <1>1, <1>2
  <2> QED
    BY <2>1, <1>5, <1>13
<1>16. BuiltDcs({dcprimary} \cup ToSet(dcsecondarylist) \cup Upto(dcstandbylist, next - 1))'
  BY <1>2, <1>6, <1>8, <1>10, <1>11, <1>12, <1>13, <1>14, <1>15 DEF BuiltDcs, Built
<1>17. Layout'
  BY <1>1, <1>2, LayoutKept
<1>18. next' \in 1..(Len(dcstandbylist') + 1) /\ next' \in Nat
  BY <1>2, <1>3, <1>13
<1> QED
  BY <1>1, <1>2, <1>12, <1>16, <1>17, <1>18 DEF MetaInv, Phases, Ready

LEMMA StandbysDoneKeeps == ASSUME MetaInv, StandbysDone PROVE MetaInv'
<1>1. /\ Layout /\ phase = "standby" /\ installed = <<>> /\ next \in Nat
      /\ next \in 1..(Len(dcstandbylist) + 1)
      /\ BuiltDcs({dcprimary} \cup ToSet(dcsecondarylist) \cup Upto(dcstandbylist, next - 1))
  BY DEF MetaInv, StandbysDone
<1>2. /\ next > Len(dcstandbylist) /\ phase' = "install"
      /\ UNCHANGED <<config, primaries, next, built, installed, firstmeta>>
  BY DEF StandbysDone
<1>3. /\ dcstandbylist \in Seq(DC) /\ IsInjective(dcstandbylist) /\ Len(dcstandbylist) \in Nat
      /\ next - 1 = Len(dcstandbylist)
  BY <1>1, <1>2 DEF Layout
<1>4. Upto(dcstandbylist, Len(dcstandbylist)) = ToSet(dcstandbylist)
  BY <1>3, NextUp
<1>5. multipledc
  BY <1>1 DEF BuiltDcs, Spacious
<1>6. BuiltDcs(DC)
  <2>1. DC = {dcprimary} \cup ToSet(dcsecondarylist) \cup Upto(dcstandbylist, next - 1)
    BY <1>1, <1>3, <1>4, <1>5 DEF Layout
  <2> QED
    BY <1>1, <2>1
<1>7. /\ Tree' = Tree /\ Near' = Near /\ Relay' = Relay /\ Spacious' = Spacious
      /\ \A x : InDc(x)' = InDc(x) /\ Master(x)' = Master(x)
  BY <1>2, <1>5, TreeKept
<1>8. /\ dcprimary' = dcprimary /\ dcsecondarylist' = dcsecondarylist /\ dcstandbylist' = dcstandbylist
      /\ multipledc' = multipledc
  BY <1>2 DEF config
<1>9. BuiltDcs(DC)'
  BY <1>2, <1>6, <1>7, <1>8 DEF BuiltDcs, Built, built
<1>10. Built(DC)'
  BY <1>9 DEF BuiltDcs
<1>11. Layout'
  BY <1>1, <1>2, LayoutKept
<1>12. installed' = <<>> /\ installed' \in Seq(Entry) /\ Len(installed') = 0
  BY <1>1, <1>2
<1>13. Len(installed') <= Len(metanodes') /\ \A i \in 1..Len(installed') : installed'[i] = InstallOrder'[i]
  <2>1. metanodes' \in Seq(Entry)
    BY <1>10 DEF Built, LaidOut
  <2>2. Len(metanodes') \in Nat
    BY <2>1
  <2> QED
    BY <2>2, <1>12
<1> QED
  BY <1>1, <1>2, <1>5, <1>8, <1>9, <1>10, <1>11, <1>12, <1>13 DEF MetaInv, Phases, Ready

LEMMA OrderOf ==
    ASSUME Built(DC)
    PROVE  /\ InstallOrder \in Seq(Entry) /\ IsInjective(InstallOrder)
           /\ ToSet(InstallOrder) = ToSet(metanodes) /\ Len(InstallOrder) = Len(metanodes)
           /\ metanodes \in Seq(Entry) /\ IsInjective(metanodes)
<1>1. metanodes \in Seq(Entry)
  BY DEF Built, LaidOut
<1>2. IsInjective(metanodes)
  <2>1. DOMAIN metanodes = 1..Len(metanodes)
    BY <1>1
  <2> QED
    BY <2>1 DEF Built, LaidOut, IsInjective
<1>3. InstallOrder = Those(metanodes, Marked) \o Those(metanodes, ToSet(metanodes) \ Marked)
  BY DEF InstallOrder, NotMarked
<1> QED
  BY <1>1, <1>2, <1>3, PartsOfList

LEMMA InstallingKept ==
    ASSUME MetaInv, Ready, UNCHANGED <<config, primaries, built>>
    PROVE  /\ Layout' /\ Built(DC)' /\ InstallOrder' = InstallOrder
           /\ IF multipledc' THEN BuiltDcs(DC)' ELSE OneMarked'
<1>1. Layout /\ Built(DC) /\ IF multipledc THEN BuiltDcs(DC) ELSE OneMarked
  BY DEF MetaInv
<1>2. /\ Tree' = Tree /\ Near' = Near /\ Relay' = Relay /\ Spacious' = Spacious
      /\ \A x : InDc(x)' = InDc(x) /\ Master(x)' = Master(x)
  BY TreeKept
<1>3. /\ dcprimary' = dcprimary /\ dcsecondarylist' = dcsecondarylist /\ dcstandbylist' = dcstandbylist
      /\ multipledc' = multipledc
  BY DEF config
<1>4. /\ metanodes' = metanodes /\ elements' = elements /\ node' = node
      /\ fullsyncLevel' = fullsyncLevel /\ primaries' = primaries
  BY DEF built
<1>5. Layout'
  BY <1>1, LayoutKept
<1>6. Built(DC)'
  BY <1>1, <1>2, <1>3, <1>4 DEF Built
<1>7. InstallOrder' = InstallOrder
  BY <1>4 DEF InstallOrder, Marked, NotMarked
<1>8. ASSUME multipledc PROVE BuiltDcs(DC)'
  BY <1>1, <1>2, <1>3, <1>4, <1>6, <1>8 DEF BuiltDcs
<1>9. ASSUME ~multipledc PROVE OneMarked'
  BY <1>1, <1>3, <1>4, <1>9 DEF OneMarked
<1> QED
  BY <1>3, <1>5, <1>6, <1>7, <1>8, <1>9

LEMMA InstallNextKeeps == ASSUME MetaInv, InstallNext PROVE MetaInv'
<1>1. /\ phase = "install" /\ phase' = "install" /\ Len(installed) < Len(metanodes)
      /\ installed' = Append(installed, InstallOrder[Len(installed) + 1])
      /\ UNCHANGED <<config, primaries, built>> /\ next' = next
      /\ metanodes' = metanodes
  BY DEF InstallNext, built
<1>2. Ready
  BY <1>1 DEF Ready
<1>3. /\ Built(DC) /\ installed \in Seq(Entry) /\ Len(installed) <= Len(metanodes) /\ next \in Nat
      /\ \A i \in 1..Len(installed) : installed[i] = InstallOrder[i]
  BY <1>2 DEF MetaInv
<1>4. /\ Layout' /\ Built(DC)' /\ InstallOrder' = InstallOrder
      /\ IF multipledc' THEN BuiltDcs(DC)' ELSE OneMarked'
  BY <1>1, <1>2, InstallingKept
<1>5. InstallOrder \in Seq(Entry) /\ Len(InstallOrder) = Len(metanodes) /\ metanodes \in Seq(Entry)
  BY <1>3, OrderOf
<1> DEFINE k == Len(installed) + 1
<1>6. k \in 1..Len(InstallOrder) /\ InstallOrder[k] \in Entry
  BY <1>1, <1>3, <1>5
<1>7. /\ installed' \in Seq(Entry) /\ Len(installed') = k /\ installed'[k] = InstallOrder[k]
      /\ \A i \in 1..Len(installed) : installed'[i] = installed[i]
  BY <1>1, <1>3, <1>6
<1>8. Len(installed') <= Len(metanodes')
  BY <1>1, <1>5, <1>6, <1>7
<1>9. ASSUME NEW i \in 1..Len(installed') PROVE installed'[i] = InstallOrder'[i]
  <2>1. i = k \/ i \in 1..Len(installed)
    BY <1>3, <1>7
  <2> QED
    BY <2>1, <1>3, <1>4, <1>7
<1> HIDE DEF k
<1> QED
  BY <1>1, <1>3, <1>4, <1>7, <1>8, <1>9 DEF MetaInv, Phases, Ready

LEMMA BootstrapKeeps == ASSUME MetaInv, Bootstrap PROVE MetaInv'
<1>1. /\ phase = "install" /\ phase' = "done" /\ Len(installed) = Len(metanodes)
      /\ firstmeta' = Head(Those(nodes, primaries))
      /\ UNCHANGED <<config, primaries, built>> /\ next' = next /\ installed' = installed
      /\ metanodes' = metanodes /\ nodes' = nodes /\ primaries' = primaries
  BY DEF Bootstrap, built, config
<1>2. Ready
  BY <1>1 DEF Ready
<1>3. /\ installed \in Seq(Entry) /\ Len(installed) <= Len(metanodes) /\ next \in Nat
      /\ \A i \in 1..Len(installed) : installed[i] = InstallOrder[i]
  BY <1>2 DEF MetaInv
<1>4. /\ Layout' /\ Built(DC)' /\ InstallOrder' = InstallOrder
      /\ IF multipledc' THEN BuiltDcs(DC)' ELSE OneMarked'
  BY <1>1, <1>2, InstallingKept
<1> QED
  BY <1>1, <1>3, <1>4 DEF MetaInv, Phases, Ready

LEMMA SameMetaInv == ASSUME MetaInv, UNCHANGED vars PROVE MetaInv'
<1>1. /\ phase' = phase /\ UNCHANGED config /\ primaries' = primaries /\ next' = next /\ UNCHANGED built
      /\ installed' = installed /\ firstmeta' = firstmeta
  BY DEF vars
<1>2. /\ multipledc' = multipledc /\ nodes' = nodes /\ dcprimary' = dcprimary
      /\ dcsecondarylist' = dcsecondarylist /\ dcstandbylist' = dcstandbylist
      /\ metanodes' = metanodes /\ elements' = elements /\ sdcmaster' = sdcmaster /\ node' = node
      /\ fullsyncLevel' = fullsyncLevel
  BY <1>1 DEF config, built
<1>3. /\ Tree' = Tree /\ Near' = Near /\ Relay' = Relay /\ Root' = Root /\ Spacious' = Spacious
      /\ \A x : InDc(x)' = InDc(x) /\ Master(x)' = Master(x)
  BY <1>1, TreeKept
<1>4. InstallOrder' = InstallOrder /\ Ready' = Ready /\ OneMarked' = OneMarked /\ Layout' = Layout
  BY <1>1, <1>2 DEF InstallOrder, Marked, NotMarked, Ready, OneMarked, Layout
<1> QED
  BY <1>1, <1>2, <1>3, <1>4 DEF MetaInv, BuiltDcs, Built

LEMMA StepMetaInv == ASSUME MetaInv, [Next]_vars PROVE MetaInv'
<1>1. CASE UNCHANGED vars
  BY <1>1, SameMetaInv
<1>2. CASE ValidateOneDc
  BY <1>2, ValidateOneDcKeeps
<1>3. CASE ValidateMultiDc
  BY <1>3, ValidateMultiDcKeeps
<1>4. CASE SetupOneDc
  BY <1>4, SetupOneDcKeeps
<1>5. CASE SetupPrimaryDc
  BY <1>5, SetupPrimaryDcKeeps
<1>6. CASE SetupSecondaryDc
  BY <1>6, SetupSecondaryDcKeeps
<1>7. CASE SecondariesDone
  BY <1>7, SecondariesDoneKeeps
<1>8. CASE SetupStandbyDc
  BY <1>8, SetupStandbyDcKeeps
<1>9. CASE StandbysDone
  BY <1>9, StandbysDoneKeeps
<1>10. CASE InstallNext
  BY <1>10, InstallNextKeeps
<1>11. CASE Bootstrap
  BY <1>11, BootstrapKeeps
<1> QED
  BY <1>1, <1>2, <1>3, <1>4, <1>5, <1>6, <1>7, <1>8, <1>9, <1>10, <1>11 DEF Next

\* The invariant holds in every behaviour.
LEMMA MetaInvariant == Spec => []MetaInv
<1>1. Init => MetaInv
  BY InitMetaInv
<1>2. MetaInv /\ [Next]_vars => MetaInv'
  BY StepMetaInv
<1> QED
  BY <1>1, <1>2, PTL DEF Spec

-----------------------------------------------------------------------------
(* What follows for the nodes.                                             *)

LEMMA EntriesAre ==
    ASSUME Built(DC)
    PROVE  /\ metanodes \in Seq(Entry) /\ Len(metanodes) \in Nat /\ DOMAIN metanodes = 1..Len(metanodes)
           /\ \A e \in ToSet(metanodes) : e \in Entry /\ e.node \in Node /\ Source(e) = Tree[e.node]
           /\ \A n \in Node : \E e \in ToSet(metanodes) : e.node = n
           /\ \A e, f \in ToSet(metanodes) : e.node = f.node => e = f
<1>1. metanodes \in Seq(Entry) /\ Len(metanodes) \in Nat /\ DOMAIN metanodes = 1..Len(metanodes)
  <2>1. metanodes \in Seq(Entry)
    BY DEF Built, LaidOut
  <2> QED
    BY <2>1
<1>2. \A e \in ToSet(metanodes) : \E i \in 1..Len(metanodes) : e = metanodes[i]
  BY <1>1 DEF ToSet
<1>3. ASSUME NEW e \in ToSet(metanodes) PROVE e \in Entry /\ e.node \in Node /\ Source(e) = Tree[e.node]
  <2>1. PICK i \in 1..Len(metanodes) : e = metanodes[i]
    BY <1>2
  <2>2. e \in Entry
    BY <2>1, <1>1
  <2>3. e.node \in Node
    BY <2>2 DEF Entry
  <2> QED
    BY <2>1, <2>2, <2>3 DEF Built, LaidOut
<1>4. ASSUME NEW n \in Node PROVE \E e \in ToSet(metanodes) : e.node = n
  <2>1. PICK i \in 1..Len(metanodes) : metanodes[i].node = n
    BY MetaAssumption DEF Built, LaidOut
  <2> QED
    BY <2>1, <1>1 DEF ToSet
<1>5. \A e, f \in ToSet(metanodes) : e.node = f.node => e = f
  BY <1>2 DEF Built, LaidOut
<1> QED
  BY <1>1, <1>3, <1>4, <1>5

\* There are as many entries of some nodes as there are nodes.
LEMMA EntriesOf ==
    ASSUME Built(DC), NEW M \in SUBSET Node
    PROVE  LET es == {e \in ToSet(metanodes) : e.node \in M} IN
           IsFiniteSet(es) /\ Cardinality(es) = Cardinality(M)
<1> DEFINE es == {e \in ToSet(metanodes) : e.node \in M}
           f == [n \in M |-> CHOOSE e \in ToSet(metanodes) : e.node = n]
<1>1. /\ \A n \in Node : \E e \in ToSet(metanodes) : e.node = n
      /\ \A e, g \in ToSet(metanodes) : e.node = g.node => e = g
  BY EntriesAre
<1>2. \A n \in M : f[n] \in ToSet(metanodes) /\ f[n].node = n
  BY <1>1
<1>3. f \in [M -> es]
  BY <1>2
<1> HIDE DEF f
<1>4. \A n, m \in M : f[n] = f[m] => n = m
  BY <1>2
<1>5. \A e \in es : e.node \in M /\ f[e.node] = e
  BY <1>1, <1>2
<1> HIDE DEF es
<1>6. f \in Bijection(M, es)
  BY <1>3, <1>4, <1>5 DEF Bijection, Injection, Surjection, IsInjective
<1>7. IsFiniteSet(M)
  BY MetaAssumption, FS_Subset
<1>8. IsFiniteSet(es) /\ Cardinality(es) = Cardinality(M)
  BY <1>6, <1>7, FS_Bijection DEF ExistsBijection
<1> QED
  BY <1>8 DEF es

\* One node replicates from itself.
LEMMA OneRoot ==
    ASSUME MetaInv, Ready
    PROVE  \E r \in Node : /\ Tree[r] = r /\ \A n \in Node : Tree[n] = n => n = r
                           /\ ~multipledc => primaries = {r}
<1>1. Layout /\ IF multipledc THEN BuiltDcs(DC) ELSE OneMarked
  BY DEF MetaInv
<1>2. CASE ~multipledc
  <2>1. PICK p \in Node : primaries = {p}
    BY <1>1, <1>2 DEF OneMarked
  <2>2. \A n \in Node : Tree[n] = p
    BY <2>1, <1>2, OneDcTree
  <2> QED
    BY <2>1, <2>2, <1>2
<1>3. CASE multipledc
  <2>1. Spacious
    BY <1>1, <1>3 DEF BuiltDcs
  <2>2. DC = {dcprimary} \cup ToSet(dcsecondarylist) \cup ToSet(dcstandbylist)
    BY <1>1, <1>3 DEF Layout
  <2>3. ASSUME NEW n \in Node, Tree[n] = n PROVE n = Root
    <3>1. n = Master(DcOf[n]) /\ DcOf[n] \in DC
      BY <1>1, <2>1, <2>3, Parents, MetaAssumption
    <3> QED
      BY <3>1, <1>1, <2>1, <2>2, <2>3, Parents
  <2>4. Root \in Node /\ Tree[Root] = Root
    BY <1>1, <2>1, Parents
  <2> QED
    BY <2>3, <2>4, <1>3
<1> QED
  BY <1>2, <1>3

-----------------------------------------------------------------------------
(* The theorems.                                                           *)

\* What a node replicates from is marked, unless standby data centres have no secondary one
\* to replicate from.
LEMMA SourceMarked ==
    ASSUME MetaInv, Ready, dcstandbylist = <<>> \/ dcsecondarylist # <<>>,
           NEW n \in Node, Tree[n] # n
    PROVE  Tree[n] \in primaries
<1>1. Layout /\ IF multipledc THEN BuiltDcs(DC) ELSE OneMarked
  BY DEF MetaInv
<1>2. CASE ~multipledc
  <2>1. PICK p \in Node : primaries = {p}
    BY <1>1, <1>2 DEF OneMarked
  <2>2. Tree[n] = p
    BY <2>1, <1>2, OneDcTree
  <2> QED
    BY <2>1, <2>2
<1>3. CASE multipledc
  <2>1. Spacious /\ primaries = {Master(d) : d \in DC} /\ DcOf[n] \in DC /\ dcprimary \in DC
    BY <1>1, <1>3, MetaAssumption DEF BuiltDcs, Layout
  <2>2. DC = {dcprimary} \cup ToSet(dcsecondarylist) \cup ToSet(dcstandbylist)
    BY <1>1, <1>3 DEF Layout
  <2>3. CASE n # Master(DcOf[n])
    BY <2>1, <2>3, <1>1, Parents
  <2>4. CASE n = Master(DcOf[n]) /\ DcOf[n] \in ToSet(dcsecondarylist)
    BY <2>1, <2>4, <1>1, Parents
  <2>5. CASE n = Master(DcOf[n]) /\ DcOf[n] \in ToSet(dcstandbylist)
    <3>1. dcstandbylist # <<>>
      BY <2>5 DEF ToSet
    <3>2. dcsecondarylist # <<>> /\ dcsecondarylist \in Seq(DC)
      BY <3>1, <1>1 DEF Layout
    <3>3. dcsecondarylist[1] \in DC
      BY <3>2
    <3>4. Tree[n] = Relay /\ Relay = Master(dcsecondarylist[1])
      BY <2>1, <2>5, <3>2, <1>1, Parents DEF Relay
    <3> QED
      BY <3>3, <3>4, <2>1
  <2>6. CASE n = Master(dcprimary)
    BY <2>1, <2>6, <1>1, Parents
  <2> QED
    BY <2>1, <2>2, <2>3, <2>4, <2>5, <2>6
<1> QED
  BY <1>2, <1>3

\* install.sh installs a node after the node that it replicates from: those that are
\* marked come first, in the order in which setup_metanodes_multidc made them, and every
\* source but the relay of a layout without secondary data centres is marked.
THEOREM SourcesComeFirst == Spec => []SourceFirstNear
<1>1. ASSUME MetaInv PROVE SourceFirstNear
  <2> SUFFICES ASSUME dcstandbylist = <<>> \/ dcsecondarylist # <<>>, NEW i \in DOMAIN installed
               PROVE  LET e == installed[i] IN
                      Source(e) = e.node \/ \E j \in 1..(i - 1) : installed[j].node = Source(e)
    BY DEF SourceFirstNear, SourceFirst
  <2> DEFINE e == installed[i]
             t == Source(e)
             q == Those(metanodes, Marked)
             r == Those(metanodes, ToSet(metanodes) \ Marked)
  <2>1. Ready
    BY <1>1 DEF MetaInv, Ready
  <2>2. /\ Layout /\ Built(DC) /\ installed \in Seq(Entry) /\ Len(installed) <= Len(metanodes)
        /\ \A j \in 1..Len(installed) : installed[j] = InstallOrder[j]
    BY <1>1, <2>1 DEF MetaInv
  <2>3. /\ InstallOrder \in Seq(Entry) /\ Len(InstallOrder) = Len(metanodes)
        /\ ToSet(InstallOrder) = ToSet(metanodes) /\ metanodes \in Seq(Entry)
    BY <2>2, OrderOf
  <2>4. i \in 1..Len(installed) /\ i \in 1..Len(InstallOrder) /\ e = InstallOrder[i] /\ i \in Nat
    BY <2>2, <2>3
  <2>5. e \in ToSet(metanodes)
    <3>1. DOMAIN InstallOrder = 1..Len(InstallOrder)
      BY <2>3
    <3> HIDE DEF e
    <3>2. e \in ToSet(InstallOrder)
      BY <3>1, <2>4 DEF ToSet
    <3> QED
      BY <3>2, <2>3
  <2>6. e.node \in Node /\ t = Tree[e.node]
    BY <2>2, <2>5, EntriesAre
  <2>7. SUFFICES ASSUME t # e.node PROVE \E j \in 1..(i - 1) : InstallOrder[j].node = t
    <3>1. \A j \in 1..(i - 1) : j \in 1..Len(installed)
      BY <2>2, <2>4
    <3> QED
      BY <3>1, <2>2
  <2>8. t \in primaries
    BY <1>1, <2>1, <2>6, <2>7, SourceMarked
  <2>9. /\ q \in Seq(Entry \cap Marked) /\ ToSet(q) = ToSet(metanodes) \cap Marked
        /\ r \in Seq(Entry \cap (ToSet(metanodes) \ Marked))
        /\ ToSet(r) = ToSet(metanodes) \cap (ToSet(metanodes) \ Marked)
    BY <2>3, ThoseAre
  <2>10. /\ Len(q) \in Nat /\ DOMAIN q = 1..Len(q) /\ q \in Seq(Entry)
         /\ Len(r) \in Nat /\ DOMAIN r = 1..Len(r) /\ r \in Seq(Entry)
    BY <2>9
  <2>11. /\ \A x \in 1..Len(q) : \E k \in 1..Len(metanodes) :
               /\ metanodes[k] \in Marked /\ q[x] = metanodes[k]
               /\ \A j \in 1..(k - 1) : metanodes[j] \in Marked => \E y \in 1..(x - 1) : q[y] = metanodes[j]
    <3> HIDE DEF e, t, r
    <3>1. q = Those(metanodes, Marked)
      OBVIOUS
    <3> HIDE DEF q
    <3>2. Selects(q, metanodes, Marked)
      BY <2>3, <3>1, ThoseInOrder
    <3> QED
      BY <3>2 DEF Selects
  <2>12. InstallOrder = q \o r
    BY DEF InstallOrder, NotMarked
  <2> HIDE DEF q, r
  <2>13. /\ Len(InstallOrder) = Len(q) + Len(r)
         /\ \A x \in 1..Len(q) : InstallOrder[x] = q[x]
    BY <2>10, <2>12
  <2> HIDE DEF e, t
  <2>14. PICK k \in 1..Len(metanodes) : metanodes[k].node = t
    <3>1. PICK m \in 1..Len(metanodes) : metanodes[m] = e
      BY <2>2, <2>5, EntriesAre DEF ToSet
    <3>2. PICK j \in 1..(m - 1) : metanodes[j].node = t
      BY <3>1, <2>2, <2>6, <2>7 DEF Built, LaidOut
    <3>3. j \in 1..Len(metanodes)
      BY <2>2, EntriesAre
    <3> QED
      BY <3>2, <3>3
  <2>15. metanodes[k] \in Marked
    BY <2>3, <2>8, <2>14 DEF Marked, ToSet
  <2>16. CASE i \in 1..Len(q)
    <3>1. PICK m \in 1..Len(metanodes) :
             /\ metanodes[m] \in Marked /\ q[i] = metanodes[m]
             /\ \A j \in 1..(m - 1) : metanodes[j] \in Marked => \E y \in 1..(i - 1) : q[y] = metanodes[j]
      BY <2>11, <2>16
    <3>2. metanodes[m] = e
      BY <3>1, <2>4, <2>13, <2>16
    <3>3. PICK j \in 1..(m - 1) : metanodes[j].node = t
      BY <3>2, <2>2, <2>6, <2>7 DEF Built, LaidOut
    <3>4. metanodes[j] \in Marked
      <4>1. j \in DOMAIN metanodes
        BY <2>3
      <4> QED
        BY <4>1, <3>3, <2>8 DEF Marked, ToSet
    <3>5. PICK y \in 1..(i - 1) : q[y] = metanodes[j]
      BY <3>1, <3>4
    <3>6. y \in 1..Len(q)
      BY <2>10, <2>16
    <3> QED
      BY <3>3, <3>5, <3>6, <2>13
  <2>17. CASE i \notin 1..Len(q)
    <3>1. metanodes[k] \in ToSet(q)
      <4>1. metanodes[k] \in ToSet(metanodes)
        BY <2>3 DEF ToSet
      <4> QED
        BY <4>1, <2>9, <2>15
    <3>2. PICK x \in 1..Len(q) : q[x] = metanodes[k]
      BY <3>1, <2>10 DEF ToSet
    <3>3. x \in 1..(i - 1)
      BY <2>4, <2>10, <2>17
    <3> QED
      BY <3>2, <3>3, <2>13, <2>14
  <2> QED
    BY <2>16, <2>17
<1> QED
  BY <1>1, MetaInvariant, PTL

\* The nodes replicate along a tree, in one data centre and over several: all but one
\* have a source, and the first of any replicas in the list has its source outside them.
THEOREM NodesAreATree == Spec => []OneTree
<1>1. ASSUME MetaInv PROVE OneTree
  <2> SUFFICES ASSUME Ready
               PROVE  /\ Cardinality(Replicas) = Cardinality(Node) - 1
                      /\ \A S \in (SUBSET Replicas) \ {{}} :
                            \E e \in S : Source(e) \notin {f.node : f \in S}
    BY DEF OneTree
  <2>1. Built(DC)
    BY <1>1 DEF MetaInv
  <2>2. /\ metanodes \in Seq(Entry) /\ Len(metanodes) \in Nat /\ DOMAIN metanodes = 1..Len(metanodes)
        /\ \A e \in ToSet(metanodes) : e \in Entry /\ e.node \in Node /\ Source(e) = Tree[e.node]
    BY <2>1, EntriesAre
  <2>3. PICK r \in Node : Tree[r] = r /\ \A n \in Node : Tree[n] = n => n = r
    BY <1>1, OneRoot
  <2>4. Cardinality(Replicas) = Cardinality(Node) - 1
    <3> DEFINE M == Node \ {r}
    <3>1. Replicas = {e \in ToSet(metanodes) : e.node \in M}
      BY <2>2, <2>3 DEF Replicas
    <3>2. Cardinality(M) = Cardinality(Node) - 1
      BY MetaAssumption, FS_RemoveElement
    <3>3. M \in SUBSET Node
      OBVIOUS
    <3> HIDE DEF M
    <3> QED
      BY <3>1, <3>2, <3>3, <2>1, EntriesOf
  <2>5. ASSUME NEW S \in (SUBSET Replicas) \ {{}}
        PROVE  \E e \in S : Source(e) \notin {f.node : f \in S}
    <3> DEFINE T == {i \in 1..Len(metanodes) : metanodes[i] \in S}
    <3>1. \A e \in S : e \in ToSet(metanodes) /\ Source(e) # e.node
      BY DEF Replicas
    <3>2. \A e \in S : \E i \in T : metanodes[i] = e
      BY <3>1, <2>2 DEF ToSet
    <3>3. T \in SUBSET Nat /\ T # {}
      BY <3>2
    <3>4. PICK k \in T : \A i \in T : k <= i
      BY <3>3, LeastNumber
    <3> DEFINE e == metanodes[k]
    <3>5. k \in 1..Len(metanodes) /\ e \in S
      BY <3>4
    <3>6. ASSUME NEW f \in S PROVE Source(e) # f.node
      <4>1. Tree[e.node] # e.node /\ Source(e) = Tree[e.node]
        BY <3>1, <3>5, <2>2
      <4>2. PICK j \in 1..(k - 1) : metanodes[j].node = Tree[e.node]
        BY <3>5, <4>1, <2>1 DEF Built, LaidOut
      <4>3. PICK i \in T : metanodes[i] = f
        BY <3>2
      <4>4. j \in 1..Len(metanodes) /\ i \in 1..Len(metanodes) /\ j # i
        <5>1. k <= i
          BY <3>4
        <5> QED
          BY <5>1, <3>5, <2>2
      <4> QED
        BY <4>1, <4>2, <4>3, <4>4, <2>1 DEF Built, LaidOut
    <3> QED
      BY <3>5, <3>6
  <2> QED
    BY <2>4, <2>5
<1> QED
  BY <1>1, MetaInvariant, PTL

\* node_map_master is given the source of each replica, but for those that replicate
\* within a standby data centre; without such it is given nothing else.
THEOREM NodeMapIsTrue == Spec => []NodeMapTrue
<1>1. ASSUME MetaInv PROVE NodeMapTrue
  <2> SUFFICES ASSUME Ready
               PROVE  /\ \A e \in Replicas : DcOf[Source(e)] \in ToSet(dcstandbylist)
                                              \/ Pair(e.node, Source(e)) \in ToSet(elements)
                      /\ dcstandbylist = <<>> =>
                            ToSet(elements) = {Pair(e.node, Source(e)) : e \in Replicas}
    BY DEF NodeMapTrue
  <2>1. Built(DC)
    BY <1>1 DEF MetaInv
  <2>2. /\ \A e \in ToSet(metanodes) : e.node \in Node /\ Source(e) = Tree[e.node]
        /\ \A n \in Node : \E e \in ToSet(metanodes) : e.node = n
    BY <2>1, EntriesAre
  <2>3. \A n \in Node : DcOf[n] \in DC
    BY MetaAssumption
  <2>4. ASSUME NEW e \in Replicas
        PROVE  \/ DcOf[Source(e)] \in ToSet(dcstandbylist)
               \/ Pair(e.node, Source(e)) \in ToSet(elements)
    <3>1. e.node \in Node /\ Source(e) = Tree[e.node] /\ Tree[e.node] # e.node
      BY <2>2 DEF Replicas
    <3> QED
      BY <3>1, <2>1, <2>3 DEF Built, Listed
  <2>5. ASSUME dcstandbylist = <<>>
        PROVE  ToSet(elements) = {Pair(e.node, Source(e)) : e \in Replicas}
    <3>1. ToSet(dcstandbylist) = {}
      BY <2>5, NoOrder
    <3>2. ASSUME NEW e \in Replicas PROVE Pair(e.node, Source(e)) \in ToSet(elements)
      BY <2>4, <3>1, <3>2
    <3>3. ASSUME NEW x \in ToSet(elements) PROVE \E e \in Replicas : x = Pair(e.node, Source(e))
      <4>1. PICK n \in Node : Tree[n] # n /\ x = Pair(n, Tree[n])
        BY <3>1, <2>1 DEF Built, Listed
      <4>2. PICK e \in ToSet(metanodes) : e.node = n
        BY <2>2
      <4>3. Source(e) = Tree[n]
        BY <4>2, <2>2
      <4> QED
        BY <4>1, <4>2, <4>3 DEF Replicas
    <3> QED
      BY <3>2, <3>3
  <2> QED
    BY <2>4, <2>5
<1> QED
  BY <1>1, MetaInvariant, PTL

\* The nodes that the primary waits for are the others of its data centre and one of each
\* secondary one.
LEMMA NearSize ==
    ASSUME Layout, Spacious
    PROVE  LET M == Near \ {Root} IN
           IsFiniteSet(M) /\ Cardinality(M) = Len(InDc(dcprimary)) + Len(dcsecondarylist) - 1
<1> DEFINE M == Near \ {Root}
           A == Here(dcprimary)
           B == {Master(d) : d \in ToSet(dcsecondarylist)}
           f == [d \in ToSet(dcsecondarylist) |-> Master(d)]
<1>1. /\ dcprimary \in DC /\ dcprimary \notin ToSet(dcsecondarylist) /\ multipledc
      /\ dcsecondarylist \in Seq(DC) /\ IsInjective(dcsecondarylist)
      /\ ToSet(dcsecondarylist) \subseteq DC
  BY DEF Layout, Spacious
<1>2. /\ IsFiniteSet(ToSet(dcsecondarylist))
      /\ Cardinality(ToSet(dcsecondarylist)) = Len(dcsecondarylist) /\ Len(dcsecondarylist) \in Nat
  BY <1>1, ListSize
<1>3. \A d \in DC : Master(d) \in Node /\ DcOf[Master(d)] = d
  BY MasterIs
<1>4. f \in Bijection(ToSet(dcsecondarylist), B)
  BY <1>1, <1>3 DEF Bijection, Injection, Surjection, IsInjective
<1>5. IsFiniteSet(B) /\ Cardinality(B) = Len(dcsecondarylist)
  <2> HIDE DEF f, B
  <2> QED
    BY <1>2, <1>4, FS_Bijection DEF ExistsBijection
<1>6. IsFiniteSet(A) /\ Cardinality(A) = Len(InDc(dcprimary)) /\ Len(InDc(dcprimary)) \in Nat
  <2>1. InDc(dcprimary) \in Seq(Node) /\ IsInjective(InDc(dcprimary)) /\ ToSet(InDc(dcprimary)) = A
    BY DcList
  <2> HIDE DEF A
  <2>2. Len(InDc(dcprimary)) \in Nat
    BY <2>1
  <2> QED
    BY <2>1, <2>2, ListSize
<1>7. Root \in A
  BY Parents DEF Here
<1>8. IsFiniteSet(A \ {Root}) /\ Cardinality(A \ {Root}) = Len(InDc(dcprimary)) - 1
  <2> HIDE DEF A
  <2> QED
    BY <1>6, <1>7, FS_RemoveElement
<1>9. M = (A \ {Root}) \cup B /\ (A \ {Root}) \cap B = {}
  <2>1. A \cap B = {}
    BY <1>1, <1>3 DEF Here
  <2>2. Near = A \cup B
    BY <1>1, <1>3 DEF Near, Here
  <2> QED
    BY <2>1, <2>2, <1>7
<1> HIDE DEF M, A, B
<1>10. IsFiniteSet(M) /\ Cardinality(M) = (Len(InDc(dcprimary)) - 1) + Len(dcsecondarylist) - 0
  <2> DEFINE a == A \ {Root}
  <2>1. IsFiniteSet(a) /\ Cardinality(a) = Len(InDc(dcprimary)) - 1 /\ M = a \cup B /\ a \cap B = {}
    BY <1>8, <1>9
  <2> HIDE DEF a
  <2>2. IsFiniteSet(M) /\ Cardinality(M) = Cardinality(a) + Cardinality(B) - Cardinality({})
    BY <2>1, <1>5, FS_Union
  <2> QED
    BY <2>1, <2>2, <1>5, FS_EmptySet
<1>11. IsFiniteSet(M) /\ Cardinality(M) = Len(InDc(dcprimary)) + Len(dcsecondarylist) - 1
  BY <1>2, <1>6, <1>10
<1> QED
  BY <1>11 DEF M

\* fullsync_level never asks for more acknowledgements than there are nodes that replicate
\* from the primary and were installed with fullsync.
THEOREM AcksAreAvailable == Spec => []AcksAvailable
<1>1. ASSUME MetaInv PROVE AcksAvailable
  <2> DEFINE X == {e \in ToSet(metanodes) : e.fullsync = 1 /\ e.node # Root /\ Source(e) = Root}
             M == Near \ {Root}
             Y == {e \in ToSet(metanodes) : e.node \in M}
  <2> SUFFICES ASSUME Ready, multipledc PROVE fullsyncLevel <= Cardinality(X)
    BY DEF AcksAvailable
  <2>1. /\ Layout /\ Built(DC) /\ Spacious
        /\ fullsyncLevel = Len(InDc(dcprimary)) + Len(dcsecondarylist) - 1
    BY <1>1 DEF MetaInv, BuiltDcs
  <2>2. /\ metanodes \in Seq(Entry) /\ Len(metanodes) \in Nat /\ DOMAIN metanodes = 1..Len(metanodes)
        /\ \A e \in ToSet(metanodes) : e \in Entry /\ e.node \in Node /\ Source(e) = Tree[e.node]
    BY <2>1, EntriesAre
  <2>3. IsFiniteSet(M) /\ Cardinality(M) = fullsyncLevel
    BY <2>1, NearSize
  <2>4. M \in SUBSET Node
    BY DEF Near
  <2>5. ASSUME NEW e \in Y PROVE e \in X
    <3>1. e.node \in Near /\ e.node # Root /\ e.node \in Node
      BY <2>4
    <3>2. e.fullsync = 1
      BY <3>1, <2>1, <2>2 DEF Built, LaidOut, ToSet
    <3>3. Tree[e.node] = Root
      BY <3>1, <2>1, Parents DEF Near
    <3> QED
      BY <3>1, <3>2, <3>3, <2>2
  <2>6. IsFiniteSet(Y) /\ Cardinality(Y) = Cardinality(M)
    <3> HIDE DEF M
    <3> QED
      BY <2>1, <2>4, EntriesOf
  <2>7. IsFiniteSet(X)
    <3>1. X \subseteq {e \in ToSet(metanodes) : e.node \in Node}
      BY <2>2
    <3>2. IsFiniteSet({e \in ToSet(metanodes) : e.node \in Node})
      BY <2>1, EntriesOf
    <3> HIDE DEF X
    <3> QED
      BY <3>1, <3>2, FS_Subset
  <2>8. Y \in SUBSET X
    <3> HIDE DEF X, Y
    <3> QED
      BY <2>5
  <2> HIDE DEF X, Y, M
  <2>9. Cardinality(Y) <= Cardinality(X)
    BY <2>7, <2>8, FS_Subset
  <2> QED
    BY <2>3, <2>6, <2>9
<1> QED
  BY <1>1, MetaInvariant, PTL

\* In one data centre bootstrap.py runs on the node that the others replicate from.
THEOREM BootstrapRunsOnSource == Spec => []BootstrapOnSource
<1>1. ASSUME MetaInv PROVE BootstrapOnSource
  <2> SUFFICES ASSUME phase = "done", ~multipledc
               PROVE  \E e \in ToSet(installed) : e.node = firstmeta /\ Source(e) = firstmeta
    BY DEF BootstrapOnSource
  <2>1. Ready
    BY DEF Ready
  <2>2. /\ Layout /\ Built(DC) /\ OneMarked /\ Len(installed) = Len(metanodes)
        /\ installed \in Seq(Entry) /\ \A i \in 1..Len(installed) : installed[i] = InstallOrder[i]
        /\ firstmeta = Head(Those(nodes, primaries))
    BY <1>1, <2>1 DEF MetaInv
  <2>3. PICK p \in Node : primaries = {p}
    BY <2>2 DEF OneMarked
  <2>4. firstmeta = p
    <3> DEFINE s == Those(nodes, primaries)
    <3>1. nodes \in Seq(Node) /\ ToSet(nodes) = Node
      BY <2>2 DEF Layout
    <3>2. s \in Seq(Node \cap primaries) /\ ToSet(s) = Node \cap primaries
      BY <3>1, ThoseAre
    <3> HIDE DEF s
    <3>3. s \in Seq({p}) /\ ToSet(s) = {p}
      BY <2>3, <3>2
    <3>4. 1 \in DOMAIN s
      BY <3>3 DEF ToSet
    <3>5. s[1] = p
      BY <3>3, <3>4
    <3>6. Head(s) = s[1]
      BY <3>3, <3>4
    <3> QED
      BY <2>2, <3>5, <3>6 DEF s
  <2>5. Tree[p] = p
    BY <2>3, OneDcTree
  <2>6. PICK e \in ToSet(metanodes) : e.node = p /\ Source(e) = p
    BY <2>2, <2>5, EntriesAre
  <2>7. /\ InstallOrder \in Seq(Entry) /\ ToSet(InstallOrder) = ToSet(metanodes)
        /\ Len(InstallOrder) = Len(metanodes)
    BY <2>2, OrderOf
  <2>8. PICK i \in 1..Len(installed) : installed[i] = e
    <3>1. DOMAIN InstallOrder = 1..Len(installed)
      BY <2>2, <2>7
    <3> QED
      BY <3>1, <2>2, <2>6, <2>7 DEF ToSet
  <2>9. e \in ToSet(installed)
    <3>1. DOMAIN installed = 1..Len(installed)
      BY <2>2
    <3> QED
      BY <3>1, <2>8 DEF ToSet
  <2> QED
    BY <2>4, <2>6, <2>9
<1> QED
  BY <1>1, MetaInvariant, PTL
==============================================================================
