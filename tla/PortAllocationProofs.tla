------------------------ MODULE PortAllocationProofs ------------------------
(***************************************************************************)
(* Theorems about PortAllocation, for every set of machines and ports.     *)
(***************************************************************************)
EXTENDS PortAllocation, Inductions, TLAPS

\* What the walk keeps besides: every claim is in the port map, and ports
\* come from a counter only on machines that have an entry.
ClaimsRecorded ==
    \A c \in claims :
       /\ c.port \in portmap[c.on]
       /\ c.auto > 0 => c.on \in nodemgrips /\ c.for \in Kinds

Inv == TypeOK /\ ClaimsRecorded /\ PortsDistinct /\ CountersAhead

LEMMA ClaimType ==
    ASSUME TypeOK, NEW m \in Machine, NEW ps \in SUBSET Nat, NEW auto \in 0..2,
           NEW id \in 0..MaxNodes,
           NEW for \in Kinds \cup {"cluster_mgr", "node_mgr", "service"},
           Claim(m, ps, for, id, auto)
    PROVE  portmap' \in [Machine -> SUBSET Nat] /\ claims' \subseteq Claims
<1>1. portmap' \in [Machine -> SUBSET Nat]
  BY DEF TypeOK, Claim
<1>2. ASSUME NEW c \in claims' PROVE c \in Claims
  <2>1. CASE c \in claims
    BY <2>1 DEF TypeOK
  <2>2. CASE c \notin claims
    <3>1. PICK p \in ps : c = [on |-> m, port |-> p, for |-> for, id |-> id, auto |-> auto]
      BY <2>2 DEF Claim
    <3> QED
      BY <3>1 DEF Claims
  <2> QED
    BY <2>1, <2>2
<1> QED
  BY <1>1, <1>2

\* The ports of managers and services.
LEMMA GivenType ==
    ASSUME TypeOK, NEW m \in Machine, NEW ps \in SUBSET Nat,
           NEW for \in {"cluster_mgr", "node_mgr", "service"}, Claim(m, ps, for, 0, 0)
    PROVE  portmap' \in [Machine -> SUBSET Nat] /\ claims' \subseteq Claims
<1>1. 0 \in 0..2 /\ 0 \in 0..MaxNodes
  BY PortAssumption
<1> QED
  BY <1>1, ClaimType

\* Ports that are new on their machine keep the claims distinct.
LEMMA ClaimDistinct ==
    ASSUME TypeOK, ClaimsRecorded, PortsDistinct,
           NEW m \in Machine, NEW ps \in SUBSET Nat, NEW auto, NEW id, NEW for,
           Claim(m, ps, for, id, auto), ps \cap portmap[m] = {}
    PROVE  PortsDistinct'
<1> DEFINE new == {[on |-> m, port |-> p, for |-> for, id |-> id, auto |-> auto] : p \in ps}
<1> SUFFICES ASSUME NEW c \in claims \cup new, NEW d \in claims \cup new,
                    c.on = d.on, c.port = d.port
             PROVE  c = d
  BY DEF PortsDistinct, Claim
<1>1. \A e \in new : \A f \in claims : f.on = e.on => f.port # e.port
  BY DEF ClaimsRecorded
<1>2. CASE c \in claims /\ d \in claims
  BY <1>2 DEF PortsDistinct
<1>3. CASE c \in new /\ d \in new
  BY <1>3
<1> QED
  BY <1>1, <1>2, <1>3

\* The ports of managers and services do not come from a counter.
LEMMA ClaimGiven ==
    ASSUME TypeOK, ClaimsRecorded, CountersAhead,
           NEW m \in Machine, NEW ps \in SUBSET Nat, NEW id, NEW for,
           Claim(m, ps, for, id, 0), nodemgrips \subseteq nodemgrips',
           \A n \in nodemgrips : curport'[n] = curport[n]
    PROVE  ClaimsRecorded' /\ CountersAhead'
<1> SUFFICES ASSUME NEW c \in claims'
             PROVE  /\ c.port \in portmap'[c.on]
                    /\ c.auto > 0 => c.on \in nodemgrips' /\ c.for \in Kinds
                    /\ c.auto > 0 => c.port + c.auto <= curport'[c.on][c.for]
  BY DEF ClaimsRecorded, CountersAhead
<1>1. CASE c \in claims
  BY <1>1 DEF Claim, ClaimsRecorded, CountersAhead, TypeOK, Claims
<1>2. CASE c \notin claims
  BY <1>2 DEF Claim, TypeOK
<1> QED
  BY <1>1, <1>2

\* Nothing is claimed: the counters of machines with an entry stay.
LEMMA NoClaim ==
    ASSUME ClaimsRecorded, PortsDistinct, CountersAhead,
           UNCHANGED <<claims, portmap>>, nodemgrips \subseteq nodemgrips',
           \A n \in nodemgrips : curport'[n] = curport[n]
    PROVE  ClaimsRecorded' /\ PortsDistinct' /\ CountersAhead'
  BY DEF ClaimsRecorded, PortsDistinct, CountersAhead

LEMMA RejectKeeps == ASSUME Inv, Reject PROVE Inv'
<1>1. TypeOK'
  BY DEF Inv, Reject, TypeOK
<1> QED
  BY <1>1, NoClaim DEF Inv, Reject

LEMMA ClusterManagerKeeps ==
    ASSUME Inv, NEW m \in Machine, NEW a \in ManagerPorts, NEW b \in ManagerPorts,
           NEW c \in ManagerPorts, ClusterManager(m, a, b, c)
    PROVE  Inv'
<1>1. CASE Reject
  BY <1>1, RejectKeeps
<1>2. CASE ~Reject
  <2>1. /\ {a, b, c} \cap portmap[m] = {}
        /\ Claim(m, {a, b, c}, "cluster_mgr", 0, 0)
        /\ UNCHANGED <<phase, rejected, nodes, nodemgrips, nodetype,
                       curport, usedports, current>>
        /\ clustermgrips' = clustermgrips \cup {m}
    BY <1>2 DEF ClusterManager
  <2>2. {a, b, c} \in SUBSET Nat
    BY PortAssumption
  <2>3. portmap' \in [Machine -> SUBSET Nat] /\ claims' \subseteq Claims
    BY <2>1, <2>2, GivenType DEF Inv
  <2>7. TypeOK'
    BY <2>1, <2>2, <2>3, PortAssumption DEF TypeOK, Inv
  <2> QED
    BY <2>1, <2>2, <2>7, ClaimDistinct, ClaimGiven DEF Inv
<1> QED
  BY <1>1, <1>2

LEMMA NodeManagerKeeps ==
    ASSUME Inv, NEW m \in Machine, NEW a \in ManagerPorts, NEW b \in ManagerPorts,
           NEW c \in ManagerPorts, NEW type \in NodeTypes \ {"none"},
           NEW s \in StorageCur, NEW v \in ServerCur,
           NodeManager(m, a, b, c, type, s, v)
    PROVE  Inv'
<1>1. CASE Reject
  BY <1>1, RejectKeeps
<1>2. CASE ~Reject
  <2>1. /\ m \notin nodemgrips /\ {a, b, c} \cap portmap[m] = {}
        /\ nodemgrips' = nodemgrips \cup {m}
        /\ nodetype' = [nodetype EXCEPT ![m] = type]
        /\ curport' = [curport EXCEPT ![m] = [storage |-> s, server |-> v]]
        /\ Claim(m, {a, b, c}, "node_mgr", 0, 0)
        /\ UNCHANGED <<phase, rejected, nodes, clustermgrips, usedports, current>>
    BY <1>2 DEF NodeManager
  <2>2. {a, b, c} \in SUBSET Nat /\ [storage |-> s, server |-> v] \in [Kinds -> Nat]
    BY PortAssumption DEF Kinds
  <2>3. portmap' \in [Machine -> SUBSET Nat] /\ claims' \subseteq Claims
    BY <2>1, <2>2, GivenType DEF Inv
  <2>7. TypeOK'
    BY <2>1, <2>2, <2>3, PortAssumption DEF TypeOK, Inv
  <2>4. \A n \in nodemgrips : curport'[n] = curport[n]
    BY <2>1 DEF Inv, TypeOK
  <2> QED
    BY <2>1, <2>2, <2>4, <2>7, ClaimDistinct, ClaimGiven DEF Inv
<1> QED
  BY <1>1, <1>2

LEMMA ServiceKeeps ==
    ASSUME Inv, NEW m \in Machine, NEW p \in Given, Service(m, p)
    PROVE  Inv'
<1>1. CASE Reject
  BY <1>1, RejectKeeps
<1>2. CASE ~Reject
  <2>1. /\ {p} \cap portmap[m] = {} /\ nodes < MaxNodes /\ nodes' = nodes + 1
        /\ Claim(m, {p}, "service", 0, 0)
        /\ UNCHANGED <<phase, rejected, clustermgrips, nodemgrips,
                       nodetype, curport, usedports, current>>
    BY <1>2 DEF Service
  <2>2. {p} \in SUBSET Nat
    BY PortAssumption
  <2>3. portmap' \in [Machine -> SUBSET Nat] /\ claims' \subseteq Claims
    BY <2>1, <2>2, GivenType DEF Inv
  <2>7. TypeOK'
    BY <2>1, <2>2, <2>3, PortAssumption DEF TypeOK, Inv
  <2> QED
    BY <2>1, <2>2, <2>7, ClaimDistinct, ClaimGiven DEF Inv
<1> QED
  BY <1>1, <1>2

LEMMA NewInstanceKeeps ==
    ASSUME Inv, NEW m \in Machine, NEW kind \in Kinds, NEW mgr \in BOOLEAN,
           NewInstance(m, kind, mgr)
    PROVE  Inv'
<1>1. [storage |-> DefStorageCur, server |-> DefServerCur] \in [Kinds -> Nat]
  BY PortAssumption DEF Kinds
<1>2. /\ nodemgrips' = nodemgrips \cup {m}
      /\ nodetype' \in [Machine -> NodeTypes] /\ curport' \in [Machine -> [Kinds -> Nat]]
      /\ \A n \in nodemgrips : curport'[n] = curport[n]
  BY <1>1 DEF NewInstance, DefaultNodemgr, FixNodetype, Inv, TypeOK, Kinds, NodeTypes
<1>3. /\ current' = [on |-> m, kind |-> kind, id |-> nodes + 1,
                     left |-> Increments(kind, mgr)]
      /\ nodes < MaxNodes /\ nodes' = nodes + 1
      /\ UNCHANGED <<phase, rejected, portmap, clustermgrips, usedports, claims>>
  BY DEF NewInstance
<1>4. Increments(kind, mgr) \in {<<1, 2>>, <<2>>, <<2, 1, 1>>}
  BY DEF Increments
<1>5. TypeOK'
  BY <1>2, <1>3, <1>4, PortAssumption DEF Inv, TypeOK
<1> QED
  BY <1>2, <1>3, <1>5, NoClaim DEF Inv

LEMMA NextPortKeeps ==
    ASSUME Inv, NEW given \in Given \cup {NoPort}, NextPort(given)
    PROVE  Inv'
<1> DEFINE m    == current.on
           k    == current.kind
           port == IF given = NoPort THEN curport[m][k] ELSE given
           step == IF given = NoPort THEN Head(current.left) ELSE 0
<1>1. CASE Reject
  BY <1>1, RejectKeeps
<1>2. CASE ~Reject
  <2>1. /\ Busy /\ port \notin portmap[m]
        /\ curport' = [curport EXCEPT ![m][k] = @ + step]
        /\ Claim(m, {port}, k, current.id, step)
        /\ usedports' = [usedports EXCEPT ![m][k] = @ \cup {port}]
        /\ current' = IF Len(current.left) = 1
                      THEN Idle
                      ELSE [current EXCEPT !.left = Tail(@)]
        /\ UNCHANGED <<phase, rejected, nodes, clustermgrips, nodemgrips, nodetype>>
    BY <1>2 DEF NextPort
  <2>2. /\ m \in Machine /\ m \in nodemgrips /\ k \in Kinds
        /\ current \in [on : nodemgrips, kind : Kinds, id : 1..MaxNodes,
                        left : {<<1, 2>>, <<2>>, <<2, 1, 1>>, <<1, 1>>, <<1>>}]
    BY <2>1 DEF Inv, TypeOK, Busy, Idle
  <2>3. step \in 0..2 /\ port \in Nat
    BY <2>2, PortAssumption DEF Inv, TypeOK
  <2>4. curport' \in [Machine -> [Kinds -> Nat]]
    BY <2>1, <2>2, <2>3 DEF Inv, TypeOK
  <2>5. \/ current' = Idle
        \/ current' \in [on : nodemgrips, kind : Kinds, id : 1..MaxNodes,
                         left : {<<2>>, <<1, 1>>, <<1>>}]
    <3>1. CASE Len(current.left) = 1
      BY <3>1, <2>1
    <3>2. CASE current.left = <<1, 2>>
      <4>1. Len(current.left) = 2 /\ Tail(current.left) = <<2>>
        BY <3>2
      <4> QED
        BY <4>1, <2>1, <2>2
    <3>3. CASE current.left = <<2, 1, 1>>
      <4>1. Len(current.left) = 3 /\ Tail(current.left) = <<1, 1>>
        BY <3>3
      <4> QED
        BY <4>1, <2>1, <2>2
    <3>4. CASE current.left = <<1, 1>>
      <4>1. Len(current.left) = 2 /\ Tail(current.left) = <<1>>
        BY <3>4
      <4> QED
        BY <4>1, <2>1, <2>2
    <3> QED
      BY <2>2, <3>1, <3>2, <3>3, <3>4
  <2>7. portmap' \in [Machine -> SUBSET Nat] /\ claims' \subseteq Claims
    <3>1. k \in Kinds \cup {"cluster_mgr", "node_mgr", "service"}
      BY <2>2
    <3>2. {port} \in SUBSET Nat
      BY <2>3
    <3>3. current.id \in 0..MaxNodes
      BY <2>2, PortAssumption
    <3>4. TypeOK
      BY DEF Inv
    <3> HIDE DEF m, k, port, step
    <3> QED
      BY <3>1, <3>2, <3>3, <3>4, <2>1, <2>2, <2>3, ClaimType
  <2>8. usedports' \in [Machine -> [Kinds -> SUBSET Nat]]
    BY <2>1, <2>2, <2>3 DEF Inv, TypeOK
  <2>6. TypeOK'
    BY <2>1, <2>4, <2>5, <2>7, <2>8 DEF Inv, TypeOK
  <2>9. PortsDistinct'
    BY <2>1, <2>2, <2>3, ClaimDistinct DEF Inv
  <2>10. ClaimsRecorded' /\ CountersAhead'
    <3> SUFFICES ASSUME NEW c \in claims'
                 PROVE  /\ c.port \in portmap'[c.on]
                        /\ c.auto > 0 => c.on \in nodemgrips' /\ c.for \in Kinds
                        /\ c.auto > 0 => c.port + c.auto <= curport'[c.on][c.for]
      BY DEF ClaimsRecorded, CountersAhead
    <3>1. CASE c \in claims
      <4>1. c \in Claims /\ c.port \in portmap[c.on] /\ c.port \in portmap'[c.on]
        BY <3>1, <2>1 DEF Inv, TypeOK, ClaimsRecorded, Claim, Claims
      <4>2. ASSUME c.auto > 0 PROVE curport[c.on][c.for] <= curport'[c.on][c.for]
        <5>1. c.on \in Machine /\ c.for \in Kinds
          BY <3>1, <4>1, <4>2 DEF Inv, ClaimsRecorded, Claims
        <5>2. curport \in [Machine -> [Kinds -> Nat]]
          BY DEF Inv, TypeOK
        <5> HIDE DEF m, k, port, step
        <5>3. CASE c.on = m /\ c.for = k
          BY <5>1, <5>2, <5>3, <2>1, <2>2, <2>3
        <5>4. CASE ~(c.on = m /\ c.for = k)
          BY <5>1, <5>2, <5>4, <2>1, <2>2
        <5> QED
          BY <5>3, <5>4
      <4>3. ASSUME c.auto > 0
            PROVE  /\ c.on \in nodemgrips /\ c.for \in Kinds
                   /\ c.port \in Nat /\ c.auto \in Nat /\ c.on \in Machine
                   /\ c.port + c.auto <= curport[c.on][c.for]
        BY <3>1, <4>1, <4>3 DEF Inv, ClaimsRecorded, CountersAhead, Claims
      <4>4. ASSUME c.auto > 0 PROVE c.port + c.auto <= curport'[c.on][c.for]
        <5>1. /\ curport[c.on][c.for] \in Nat /\ curport'[c.on][c.for] \in Nat
          BY <4>3, <4>4, <2>4 DEF Inv, TypeOK
        <5> QED
          BY <5>1, <4>2, <4>3, <4>4
      <4> QED
        BY <4>1, <4>3, <4>4, <2>1
    <3>2. CASE c \notin claims
      <4>1. c = [on |-> m, port |-> port, for |-> k, id |-> current.id, auto |-> step]
        BY <3>2, <2>1 DEF Claim
      <4>2. c.port \in portmap'[c.on]
        BY <4>1, <2>1, <2>2 DEF Claim, Inv, TypeOK
      <4>3. ASSUME c.auto > 0 PROVE c.port + c.auto <= curport'[c.on][c.for]
        BY <4>1, <4>3, <2>1, <2>2, <2>3 DEF Inv, TypeOK
      <4> QED
        BY <4>1, <4>2, <4>3, <2>1, <2>2
    <3> QED
      BY <3>1, <3>2
  <2> QED
    BY <2>6, <2>9, <2>10 DEF Inv
<1> QED
  BY <1>1, <1>2

LEMMA Invariance == Spec => []Inv
<1>1. Init => Inv
  <2> SUFFICES ASSUME Init PROVE Inv
    OBVIOUS
  <2>1. rejected \in BOOLEAN
    BY Zenon DEF Init
  <2>2. [m \in Machine |-> [storage |-> 0, server |-> 0]] \in [Machine -> [Kinds -> Nat]]
    BY DEF Kinds
  <2>3. [m \in Machine |-> [storage |-> {}, server |-> {}]] \in [Machine -> [Kinds -> SUBSET Nat]]
    BY DEF Kinds
  <2>4. TypeOK
    BY <2>1, <2>2, <2>3, PortAssumption DEF Init, TypeOK, Phases, NodeTypes
  <2> QED
    BY <2>4 DEF Init, Inv, ClaimsRecorded, PortsDistinct, CountersAhead
<1>2. Inv /\ [Next]_vars => Inv'
  <2> SUFFICES ASSUME Inv, [Next]_vars PROVE Inv'
    OBVIOUS
  <2>1. CASE NextPhase
    <3>1. phase' \in Phases
      BY <2>1 DEF NextPhase, After, Phases, Inv, TypeOK
    <3>2. TypeOK'
      BY <2>1, <3>1 DEF NextPhase, Inv, TypeOK
    <3> QED
      BY <2>1, <3>2, NoClaim DEF NextPhase, Inv
  <2>2. CASE UNCHANGED vars
    <3>1. TypeOK'
      BY <2>2 DEF vars, Inv, TypeOK
    <3> QED
      BY <2>2, <3>1, NoClaim DEF vars, Inv
  <2> QED
    BY <2>1, <2>2, ClusterManagerKeeps, NodeManagerKeeps, ServiceKeeps,
       NewInstanceKeeps, NextPortKeeps DEF Next
<1> QED
  BY <1>1, <1>2, PTL DEF Spec

\* No port of a machine is given twice, in any configuration.
THEOREM NoPortTwice == Spec => []PortsDistinct
  BY Invariance, PTL DEF Inv

\* The counters are past everything that came from them.
THEOREM CountersGoOn == Spec => []CountersAhead
  BY Invariance, PTL DEF Inv

\* The variables hold values of their types.
THEOREM PortTyping == Spec => []TypeOK
  BY Invariance, PTL DEF Inv

-----------------------------------------------------------------------------
(* What is written to the metadata.                                        *)

\* Registered, taken apart: the used ports are claims, and have an entry.
UsedIsClaimed ==
    \A m \in Machine, k \in Kinds : \A p :
        p \in usedports[m][k] <=> \E c \in claims : c.on = m /\ c.for = k /\ c.port = p
UsedHasEntry ==
    \A m \in Machine, k \in Kinds :
        usedports[m][k] # {} => m \in nodemgrips /\ nodetype[m] \in {k, "both"}
\* An instance gets its ports where the entry has its type already.
TypedFirst == Busy => nodetype[current.on] \in {current.kind, "both"}

RegInv == UsedIsClaimed /\ UsedHasEntry /\ TypedFirst

LEMMA RegisteredParts == UsedIsClaimed /\ UsedHasEntry => Registered
<1> SUFFICES ASSUME UsedIsClaimed, UsedHasEntry, NEW m \in Machine, NEW k \in Kinds
             PROVE  usedports[m][k] = {c.port : c \in {d \in claims : d.on = m /\ d.for = k}}
  BY DEF Registered, UsedHasEntry
<1>1. ASSUME NEW p PROVE p \in usedports[m][k] <=>
                         p \in {c.port : c \in {d \in claims : d.on = m /\ d.for = k}}
  BY DEF UsedIsClaimed
<1> QED
  BY <1>1

\* Claims of managers and services are no used ports.
LEMMA OtherClaims ==
    ASSUME UsedIsClaimed, NEW m, NEW ps, NEW for \in {"cluster_mgr", "node_mgr", "service"},
           Claim(m, ps, for, 0, 0), usedports' = usedports
    PROVE  UsedIsClaimed'
  BY DEF UsedIsClaimed, Claim, Kinds

LEMMA NextPortRegisters ==
    ASSUME Inv, Inv', RegInv, NEW given \in Given \cup {NoPort}, NextPort(given)
    PROVE  RegInv'
<1> DEFINE m    == current.on
           k    == current.kind
           port == IF given = NoPort THEN curport[m][k] ELSE given
           step == IF given = NoPort THEN Head(current.left) ELSE 0
<1>1. CASE Reject
  BY <1>1 DEF Reject, RegInv, UsedIsClaimed, UsedHasEntry, TypedFirst, Busy
<1>2. CASE ~Reject
  <2>1. /\ Busy
        /\ Claim(m, {port}, k, current.id, step)
        /\ usedports' = [usedports EXCEPT ![m][k] = @ \cup {port}]
        /\ current' = IF Len(current.left) = 1
                      THEN Idle
                      ELSE [current EXCEPT !.left = Tail(@)]
        /\ UNCHANGED <<nodemgrips, nodetype>>
    BY <1>2 DEF NextPort
  <2>2. /\ m \in Machine /\ m \in nodemgrips /\ k \in Kinds
        /\ DOMAIN current = {"on", "kind", "id", "left"}
    BY <2>1 DEF Inv, TypeOK, Busy, Idle
  <2>3. usedports \in [Machine -> [Kinds -> SUBSET Nat]]
    BY DEF Inv, TypeOK
  <2>4. ASSUME NEW n \in Machine, NEW j \in Kinds
        PROVE  usedports'[n][j] = IF n = m /\ j = k THEN usedports[n][j] \cup {port}
                                  ELSE usedports[n][j]
    BY <2>1, <2>2, <2>3
  <2>5. \E c : claims' = claims \cup {c} /\ c.on = m /\ c.for = k /\ c.port = port
    <3> DEFINE c == [on |-> m, port |-> port, for |-> k, id |-> current.id, auto |-> step]
    <3>1. claims' = claims \cup {c}
      BY <2>1 DEF Claim
    <3>2. c.on = m /\ c.for = k /\ c.port = port
      OBVIOUS
    <3> HIDE DEF c
    <3> QED
      BY <3>1, <3>2
  <2> HIDE DEF m, k, port, step
  <2>6. UsedIsClaimed'
    <3> SUFFICES ASSUME NEW n \in Machine, NEW j \in Kinds, NEW p
                 PROVE  p \in usedports'[n][j] <=>
                        \E c \in claims' : c.on = n /\ c.for = j /\ c.port = p
      BY DEF UsedIsClaimed
    <3>1. p \in usedports[n][j] <=> \E c \in claims : c.on = n /\ c.for = j /\ c.port = p
      BY DEF RegInv, UsedIsClaimed
    <3>2. (\E c \in claims' : c.on = n /\ c.for = j /\ c.port = p)
             <=> \/ \E c \in claims : c.on = n /\ c.for = j /\ c.port = p
                 \/ n = m /\ j = k /\ p = port
      BY <2>5
    <3> QED
      BY <3>1, <3>2, <2>4
  <2>7. nodetype[m] \in {k, "both"}
    BY <2>1 DEF RegInv, TypedFirst, m, k
  <2>8. UsedHasEntry'
    BY <2>1, <2>2, <2>4, <2>7 DEF RegInv, UsedHasEntry
  <2>9. TypedFirst'
    BY <2>1, <2>2, <2>7 DEF TypedFirst, Busy, Idle, m, k
  <2> QED
    BY <2>6, <2>8, <2>9 DEF RegInv
<1> QED
  BY <1>1, <1>2

LEMMA NewInstanceRegisters ==
    ASSUME Inv, RegInv, NEW m \in Machine, NEW kind \in Kinds, NEW mgr \in BOOLEAN,
           NewInstance(m, kind, mgr)
    PROVE  RegInv'
<1>1. /\ UNCHANGED <<usedports, claims>> /\ nodemgrips' = nodemgrips \cup {m}
      /\ current'.on = m /\ current'.kind = kind
      /\ nodetype' = [nodetype EXCEPT ![m] = IF m \in nodemgrips THEN FixNodetype(@, kind) ELSE kind]
  BY DEF NewInstance, DefaultNodemgr
<1>2. nodetype \in [Machine -> NodeTypes]
  BY DEF Inv, TypeOK
<1>3. nodetype'[m] \in {kind, "both"}
  BY <1>1, <1>2 DEF FixNodetype
<1>4. ASSUME NEW n \in Machine, NEW k \in Kinds, n \in nodemgrips, nodetype[n] \in {k, "both"}
      PROVE  nodetype'[n] \in {k, "both"}
  BY <1>1, <1>2, <1>4 DEF FixNodetype, Kinds
<1>5. UsedHasEntry'
  BY <1>1, <1>4 DEF RegInv, UsedHasEntry
<1> QED
  BY <1>1, <1>3, <1>5 DEF RegInv, UsedIsClaimed, TypedFirst

LEMMA RegInvariance == Spec => []RegInv
<1>1. Init => RegInv
  BY DEF Init, RegInv, UsedIsClaimed, UsedHasEntry, TypedFirst, Busy, Idle, Kinds
<1>2. Inv /\ Inv' /\ RegInv /\ [Next]_vars => RegInv'
  <2> SUFFICES ASSUME Inv, Inv', RegInv, [Next]_vars PROVE RegInv'
    OBVIOUS
  <2> USE DEF RegInv
  <2>1. ASSUME NEW m \in Machine, NEW a, NEW b, NEW c, ClusterManager(m, a, b, c)
        PROVE  RegInv'
    <3>1. CASE Reject
      BY <3>1 DEF Reject, UsedIsClaimed, UsedHasEntry, TypedFirst, Busy
    <3>2. CASE ~Reject
      BY <2>1, <3>2, OtherClaims DEF ClusterManager, UsedHasEntry, TypedFirst, Busy
    <3> QED
      BY <3>1, <3>2
  <2>2. ASSUME NEW m \in Machine, NEW a, NEW b, NEW c, NEW type, NEW s, NEW v,
               NodeManager(m, a, b, c, type, s, v)
        PROVE  RegInv'
    <3>1. CASE Reject
      BY <3>1 DEF Reject, UsedIsClaimed, UsedHasEntry, TypedFirst, Busy
    <3>2. CASE ~Reject
      <4>1. /\ m \notin nodemgrips /\ nodemgrips' = nodemgrips \cup {m}
            /\ nodetype' = [nodetype EXCEPT ![m] = type]
            /\ Claim(m, {a, b, c}, "node_mgr", 0, 0)
            /\ UNCHANGED <<usedports, current>>
        BY <2>2, <3>2 DEF NodeManager
      <4>2. UsedHasEntry'
        BY <4>1 DEF UsedHasEntry, Inv, TypeOK
      <4>3. Busy => current.on \in nodemgrips
        BY DEF Inv, TypeOK, Busy, Idle
      <4>4. nodetype \in [Machine -> NodeTypes] /\ nodemgrips \subseteq Machine
        BY DEF Inv, TypeOK
      <4>5. TypedFirst'
        BY <4>1, <4>3, <4>4 DEF TypedFirst, Busy
      <4> QED
        BY <4>1, <4>2, <4>5, OtherClaims
    <3> QED
      BY <3>1, <3>2
  <2>3. ASSUME NEW m \in Machine, NEW p, Service(m, p) PROVE RegInv'
    <3>1. CASE Reject
      BY <3>1 DEF Reject, UsedIsClaimed, UsedHasEntry, TypedFirst, Busy
    <3>2. CASE ~Reject
      BY <2>3, <3>2, OtherClaims DEF Service, UsedHasEntry, TypedFirst, Busy
    <3> QED
      BY <3>1, <3>2
  <2>4. CASE NextPhase
    BY <2>4 DEF NextPhase, UsedIsClaimed, UsedHasEntry, TypedFirst, Busy
  <2>5. CASE UNCHANGED vars
    BY <2>5 DEF vars, UsedIsClaimed, UsedHasEntry, TypedFirst, Busy
  <2> QED
    BY <2>1, <2>2, <2>3, <2>4, <2>5, NewInstanceRegisters, NextPortRegisters DEF Next
<1> QED
  BY <1>1, <1>2, Invariance, PTL DEF Spec

\* The used ports that go into the metadata are those of the instances, of a
\* machine whose entry says that it has such instances.
THEOREM RegisteredTruly == Spec => []Registered
  BY RegInvariance, RegisteredParts, PTL DEF RegInv
-----------------------------------------------------------------------------
(* The exporters.                                                          *)

\* Two ports of one counter have room between them.
RoomKept ==
    \A c, d \in claims :
        /\ c.auto > 0 /\ d.auto > 0 /\ c.on = d.on /\ c.for = d.for /\ c # d
        => c.port + c.auto <= d.port \/ d.port + d.auto <= c.port

\* The ports of an instance are on one machine, of one kind; an instance that comes
\* later has another number.
OwnNumber ==
    /\ current.id <= nodes
    /\ \A c \in claims : c.id <= nodes
    /\ \A i \in Nat : \A c, d \in PortsOf(i) : c.on = d.on /\ c.for = d.for
    /\ Busy => \A c \in PortsOf(current.id) : c.on = current.on /\ c.for = current.kind

\* The instance that is being given ports, between one port and the next.
UnderWay ==
    Busy =>
        CASE current.kind = "server" ->
               /\ current.left \in {<<1, 2>>, <<2>>}
               /\ current.left = <<2>> => \E d \in PortsOf(current.id) : d.auto \in {0, 1}
          [] OTHER ->
               /\ current.left \in {<<2>>, <<2, 1, 1>>, <<1, 1>>, <<1>>}
               /\ current.left \in {<<1, 1>>, <<1>>} =>
                     \E d \in PortsOf(current.id) : d.auto \in {0, 2}

\* A storage node whose ports come from the counter has left room at its first one.
StorageRoom ==
    \A c \in claims : c.for = "storage" /\ c.auto = 1 =>
        \E d \in PortsOf(c.id) : d.auto = 0 \/ (d.auto = 2 /\ d.port < c.port)

\* A computing node has left it at its second one, which follows the first.
ServerRoom ==
    \A c \in claims : c.for = "server" =>
        /\ c.auto = 1 =>
              \/ Busy /\ current.id = c.id /\ current.left = <<2>>
                   /\ c.port + 1 = curport[c.on]["server"]
              \/ \E d \in PortsOf(c.id) : d.auto = 0 \/ (d.auto = 2 /\ d.port = c.port + 1)
        /\ c.auto = 2 =>
              \E d \in PortsOf(c.id) : d.auto = 0 \/ (d.auto = 1 /\ d.port < c.port)

RoomInv == RoomKept /\ OwnNumber /\ UnderWay /\ StorageRoom /\ ServerRoom

\* Steps that give nothing to an instance.
LEMMA NothingGiven ==
    ASSUME RoomInv, UNCHANGED <<claims, current, nodes, curport>>
    PROVE  RoomInv'
<1>1. \A i : PortsOf(i)' = PortsOf(i)
  BY DEF PortsOf
<1>2. RoomKept' /\ OwnNumber'
  BY <1>1 DEF RoomInv, RoomKept, OwnNumber, Busy
<1>3. UnderWay' /\ StorageRoom' /\ ServerRoom'
  BY <1>1 DEF RoomInv, UnderWay, StorageRoom, ServerRoom, Busy
<1> QED
  BY <1>2, <1>3 DEF RoomInv

\* The ports of managers and services are beside the counters.
LEMMA GivenToOthers ==
    ASSUME Inv, RoomInv, current' = current, nodes' \in {nodes, nodes + 1},
           NEW m, NEW ps, NEW for \in {"cluster_mgr", "node_mgr", "service"},
           Claim(m, ps, for, 0, 0), \A n \in nodemgrips : curport'[n] = curport[n]
    PROVE  RoomInv'
<1>1. nodes \in Nat /\ nodes <= nodes' /\ claims \subseteq Claims
  BY PortAssumption DEF Inv, TypeOK
<1>2. \A c \in claims' : c \notin claims => c.id = 0 /\ c.auto = 0 /\ c.for \notin Kinds
  BY DEF Claim, Kinds
<1>3. claims \subseteq claims'
  BY DEF Claim
<1>4. ASSUME NEW i PROVE PortsOf(i)' = PortsOf(i)
  BY <1>2, <1>3 DEF PortsOf
<1>5. RoomKept'
  BY <1>2 DEF RoomInv, RoomKept
<1>6. OwnNumber'
  <2>1. current'.id <= nodes'
    BY <1>1, PortAssumption DEF RoomInv, OwnNumber, Inv, TypeOK, Idle
  <2>2. \A c \in claims' : c.id <= nodes'
    BY <1>1, <1>2, PortAssumption DEF RoomInv, OwnNumber, Claims
  <2> QED
    BY <1>4, <2>1, <2>2 DEF RoomInv, OwnNumber, Busy
<1>7. UnderWay'
  BY <1>4 DEF RoomInv, UnderWay, Busy
<1>8. StorageRoom'
  BY <1>2, <1>4 DEF RoomInv, StorageRoom
<1>9. ServerRoom'
  <2> SUFFICES ASSUME NEW c \in claims', c.for = "server"
               PROVE  /\ c.auto = 1 =>
                           \/ Busy /\ current.id = c.id /\ current.left = <<2>>
                                /\ c.port + 1 = curport'[c.on]["server"]
                           \/ \E d \in PortsOf(c.id) :
                                d.auto = 0 \/ (d.auto = 2 /\ d.port = c.port + 1)
                      /\ c.auto = 2 => \E d \in PortsOf(c.id) :
                            d.auto = 0 \/ (d.auto = 1 /\ d.port < c.port)
    BY <1>4 DEF ServerRoom, Busy
  <2>1. c \in claims
    BY <1>2 DEF Kinds
  <2>2. c.auto = 1 => curport'[c.on] = curport[c.on]
    BY <2>1 DEF Inv, ClaimsRecorded
  <2> QED
    BY <2>1, <2>2 DEF RoomInv, ServerRoom
<1> QED
  BY <1>5, <1>6, <1>7, <1>8, <1>9 DEF RoomInv

\* An instance begins with a number and no ports.
LEMMA InstanceBegins ==
    ASSUME Inv, RoomInv, NEW m \in Machine, NEW kind \in Kinds, NEW mgr \in BOOLEAN,
           NewInstance(m, kind, mgr)
    PROVE  RoomInv'
<1>1. /\ ~Busy /\ claims' = claims /\ nodes' = nodes + 1
      /\ current' = [on |-> m, kind |-> kind, id |-> nodes + 1, left |-> Increments(kind, mgr)]
  BY DEF NewInstance
<1>2. nodes \in Nat /\ claims \subseteq Claims
  BY PortAssumption DEF Inv, TypeOK
<1>3. \A i : PortsOf(i)' = PortsOf(i)
  BY <1>1 DEF PortsOf
<1>4. \A c \in claims : c.id \in Nat /\ c.id <= nodes
  BY <1>2, PortAssumption DEF RoomInv, OwnNumber, Claims
<1>5. PortsOf(nodes + 1) = {}
  BY <1>2, <1>4 DEF PortsOf
<1>6. RoomKept' /\ StorageRoom'
  BY <1>1, <1>3 DEF RoomInv, RoomKept, StorageRoom
<1>7. OwnNumber'
  BY <1>1, <1>2, <1>3, <1>4, <1>5 DEF RoomInv, OwnNumber
<1>8. UnderWay'
  <2>1. /\ <<1, 2>> # <<2>> /\ <<2>> \notin {<<1, 1>>, <<1>>}
        /\ <<2, 1, 1>> \notin {<<1, 1>>, <<1>>}
    <3>1. /\ Len(<<1, 2>>) = 2 /\ Len(<<2>>) = 1 /\ Len(<<2, 1, 1>>) = 3 /\ Len(<<1, 1>>) = 2
          /\ <<2>>[1] = 2 /\ <<1>>[1] = 1
      OBVIOUS
    <3> QED
      BY <3>1
  <2> QED
    BY <1>1, <2>1 DEF UnderWay, Increments, Kinds
<1>9. ServerRoom'
  BY <1>1, <1>3 DEF RoomInv, ServerRoom
<1> QED
  BY <1>6, <1>7, <1>8, <1>9 DEF RoomInv
\* The next port of an instance, which may come from the counter, comes after all
\* that the counter gave, and the room they left.
LEMMA PortKeepsRoom ==
    ASSUME Inv, RoomInv, NEW given \in Given \cup {NoPort}, NextPort(given)
    PROVE  RoomInv'
<1> DEFINE m    == current.on
           k    == current.kind
           port == IF given = NoPort THEN curport[m][k] ELSE given
           step == IF given = NoPort THEN Head(current.left) ELSE 0
           new  == [on |-> m, port |-> port, for |-> k, id |-> current.id, auto |-> step]
<1>1. CASE Reject
  BY <1>1, NothingGiven DEF Reject
<1>2. CASE ~Reject
  <2>0. PICK id : id = current.id
    OBVIOUS
  <2>1. /\ Busy
        /\ curport' = [curport EXCEPT ![m][k] = @ + step]
        /\ claims' = claims \cup {new}
        /\ current' = IF Len(current.left) = 1
                      THEN Idle
                      ELSE [current EXCEPT !.left = Tail(@)]
        /\ nodes' = nodes
    BY <1>2 DEF NextPort, Claim
  <2>2. /\ m \in nodemgrips /\ m \in Machine /\ k \in Kinds
        /\ current \in [on : nodemgrips, kind : Kinds, id : 1..MaxNodes,
                        left : {<<1, 2>>, <<2>>, <<2, 1, 1>>, <<1, 1>>, <<1>>}]
        /\ curport \in [Machine -> [Kinds -> Nat]] /\ curport[m][k] \in Nat
        /\ claims \subseteq Claims /\ nodes \in Nat
    BY <2>1, PortAssumption DEF Inv, TypeOK, Busy, Idle
  <2>3. /\ given = NoPort => port = curport[m][k] /\ step = Head(current.left)
        /\ given # NoPort => step = 0
        /\ port \in Nat /\ step \in 0..2
    BY <2>2, PortAssumption
  <2>4. /\ new.on = m /\ new.port = port /\ new.for = k /\ new.id = current.id
        /\ new.auto = step
    OBVIOUS
  <2>5. curport'[m][k] = curport[m][k] + step
    BY <2>1, <2>2
  <2>6. step > 0 => port = curport[m][k]
    BY <2>3
  <2> HIDE DEF m, k, port, step, new
  <2>7. ASSUME NEW i
        PROVE  PortsOf(i)' = IF i = id THEN PortsOf(i) \cup {new} ELSE PortsOf(i)
    BY <2>0, <2>1, <2>2, <2>4 DEF PortsOf
  <2>8. PortsOf(id)' = PortsOf(id) \cup {new}
    BY <2>7
  <2>9. \A i, d : d \in PortsOf(i) => d \in PortsOf(i)'
    BY <2>7
  <2>10. ASSUME NEW c \in claims, c.auto > 0, c.on = m, c.for = k
         PROVE  c.port + c.auto <= curport[m][k] /\ c.port \in Nat /\ c.auto \in 0..2
    BY <2>2, <2>10 DEF Inv, CountersAhead, Claims
  <2>11. RoomKept'
    <3> SUFFICES ASSUME NEW c \in claims', NEW d \in claims', c.auto > 0, d.auto > 0,
                        c.on = d.on, c.for = d.for, c # d
                 PROVE  c.port + c.auto <= d.port \/ d.port + d.auto <= c.port
      BY DEF RoomKept
    <3>1. CASE c \in claims /\ d \in claims
      BY <3>1 DEF RoomInv, RoomKept
    <3>2. CASE c \in claims /\ d = new
      BY <3>2, <2>4, <2>6, <2>10
    <3>3. CASE d \in claims /\ c = new
      BY <3>3, <2>4, <2>6, <2>10
    <3> QED
      BY <3>1, <3>2, <3>3, <2>1
  <2>12. \/ current' = Idle
         \/ /\ current'.id = current.id /\ current'.on = m /\ current'.kind = k
            /\ Len(current.left) # 1 /\ current'.left = Tail(current.left)
    BY <2>1, <2>2 DEF m, k
  <2>13. OwnNumber'
    <3>1. current'.id <= nodes' /\ \A c \in claims' : c.id <= nodes'
      BY <2>1, <2>2, <2>4, <2>12 DEF RoomInv, OwnNumber, Idle
    <3>2. \A c \in PortsOf(id)' : c.on = m /\ c.for = k
      BY <2>0, <2>1, <2>4, <2>8 DEF RoomInv, OwnNumber, m, k
    <3>3. ASSUME NEW i \in Nat, NEW c, NEW d, c \in PortsOf(i)', d \in PortsOf(i)'
          PROVE  c.on = d.on /\ c.for = d.for
      <4>1. CASE i = id
        BY <3>2, <3>3, <4>1
      <4>2. CASE i # id
        BY <2>7, <3>3, <4>2 DEF RoomInv, OwnNumber
      <4> QED
        BY <4>1, <4>2
    <3>4. Busy' => \A c \in PortsOf(current.id)' : c.on = current'.on /\ c.for = current'.kind
      <4>1. Busy' => current'.id = id /\ current'.on = m /\ current'.kind = k
        BY <2>0, <2>12 DEF Busy, Idle
      <4> QED
        BY <3>2, <4>1 DEF PortsOf
    <3> QED
      BY <3>1, <3>3, <3>4 DEF OwnNumber, PortsOf
  \* What is left, and the increment that is taken off it.
  <2>14. /\ k = "server" =>
              \/ /\ current.left = <<1, 2>> /\ current.left # <<2>>
                 /\ Head(current.left) = 1 /\ current'.left = <<2>>
                 /\ current'.id = current.id /\ current'.kind = k
              \/ /\ current.left = <<2>> /\ Head(current.left) = 2 /\ current' = Idle
         /\ k = "storage" =>
              \/ /\ current.left \in {<<2>>, <<2, 1, 1>>} /\ Head(current.left) = 2
                 /\ \/ current' = Idle
                    \/ current'.left = <<1, 1>> /\ current'.id = current.id /\ current'.kind = k
              \/ /\ current.left \in {<<1, 1>>, <<1>>} /\ Head(current.left) = 1
                 /\ \/ current' = Idle
                    \/ current'.left = <<1>> /\ current'.id = current.id /\ current'.kind = k
    <3>1. k = "server" => current.left \in {<<1, 2>>, <<2>>}
      BY <2>0, <2>1 DEF RoomInv, UnderWay, k
    <3>2. k = "storage" => current.left \in {<<2>>, <<2, 1, 1>>, <<1, 1>>, <<1>>}
      BY <2>0, <2>1 DEF RoomInv, UnderWay, k
    <3>3. CASE current.left = <<1, 2>>
      <4>1. Len(current.left) = 2 /\ Head(current.left) = 1 /\ Tail(current.left) = <<2>>
        BY <3>3
      <4>2. current'.left = <<2>> /\ current'.id = current.id /\ current'.kind = k
        BY <2>1, <2>2, <4>1 DEF k
      <4>3. k = "server"
        <5>1. Len(<<2, 1, 1>>) = 3 /\ Len(<<2>>) = 1 /\ <<1, 1>>[2] = 1 /\ <<1, 2>>[2] = 2 /\ Len(<<1>>) = 1
          OBVIOUS
        <5> QED
          BY <3>2, <3>3, <4>1, <5>1, <2>2 DEF Kinds
      <4>4. current.left # <<2>>
        <5>1. Len(<<2>>) = 1
          OBVIOUS
        <5> QED
          BY <4>1, <5>1
      <4> QED
        BY <3>3, <4>1, <4>2, <4>3, <4>4
    <3>4. CASE current.left = <<2>>
      <4>1. Len(current.left) = 1 /\ Head(current.left) = 2
        BY <3>4
      <4> QED
        BY <3>4, <4>1, <2>1
    <3>5. CASE current.left = <<2, 1, 1>>
      <4>1. Len(current.left) = 3 /\ Head(current.left) = 2 /\ Tail(current.left) = <<1, 1>>
        BY <3>5
      <4>2. current'.left = <<1, 1>> /\ current'.id = current.id /\ current'.kind = k
        BY <2>1, <2>2, <4>1 DEF k
      <4>3. k # "server"
        <5>1. Len(<<1, 2>>) = 2 /\ Len(<<2>>) = 1
          OBVIOUS
        <5> QED
          BY <3>1, <4>1, <5>1
      <4> QED
        BY <3>5, <4>1, <4>2, <4>3
    <3>6. CASE current.left = <<1, 1>>
      <4>1. Len(current.left) = 2 /\ Head(current.left) = 1 /\ Tail(current.left) = <<1>>
        BY <3>6
      <4>2. current'.left = <<1>> /\ current'.id = current.id /\ current'.kind = k
        BY <2>1, <2>2, <4>1 DEF k
      <4>3. k # "server"
        <5>1. <<1, 1>>[2] = 1 /\ <<1, 2>>[2] = 2 /\ Len(<<2>>) = 1
          OBVIOUS
        <5> QED
          BY <3>1, <3>6, <4>1, <5>1
      <4> QED
        BY <3>6, <4>1, <4>2, <4>3
    <3>7. CASE current.left = <<1>>
      <4>1. Len(current.left) = 1 /\ Head(current.left) = 1
        BY <3>7
      <4>2. k # "server"
        <5>1. Len(<<1, 2>>) = 2 /\ <<2>>[1] = 2 /\ <<1>>[1] = 1
          OBVIOUS
        <5> QED
          BY <3>1, <3>7, <4>1, <5>1
      <4> QED
        BY <3>7, <4>1, <4>2, <2>1
    <3> QED
      BY <2>2, <3>3, <3>4, <3>5, <3>6, <3>7
  <2>15. new \in PortsOf(id)'
    BY <2>0, <2>8
  <2>16. step \in {0, Head(current.left)}
    BY <2>3
  <2>20. current'.id = current.id => PortsOf(current.id)' = PortsOf(id)'
    BY <2>0 DEF PortsOf
  <2>17. UnderWay'
    <3> SUFFICES ASSUME Busy' PROVE UnderWay'
      BY DEF UnderWay
    <3>1. current' # Idle
      BY DEF Busy, Idle
    <3>2. CASE k = "server"
      <4>1. /\ current'.left = <<2>> /\ current'.id = current.id /\ current'.kind = "server"
            /\ Head(current.left) = 1
        BY <3>1, <3>2, <2>14
      <4>2. new.auto \in {0, 1}
        BY <2>4, <2>16, <4>1
      <4> QED
        BY <4>1, <4>2, <2>15, <2>20 DEF UnderWay
    <3>3. CASE k = "storage"
      <4>1. CASE Head(current.left) = 2 /\ current'.left = <<1, 1>> /\ current'.id = current.id
                    /\ current'.kind = k
        <5>1. new.auto \in {0, 2}
          BY <2>4, <2>16, <4>1
        <5> QED
          BY <3>3, <4>1, <5>1, <2>15, <2>20 DEF UnderWay
      <4>2. CASE current.left \in {<<1, 1>>, <<1>>} /\ current'.left = <<1>>
                    /\ current'.id = current.id /\ current'.kind = k
        <5>1. PICK d \in PortsOf(id) : d.auto \in {0, 2}
          BY <3>3, <4>2, <2>0, <2>1 DEF RoomInv, UnderWay, k
        <5>2. d \in PortsOf(id)'
          BY <2>9
        <5> QED
          BY <3>3, <4>2, <5>1, <5>2, <2>20 DEF UnderWay
      <4> QED
        BY <3>1, <3>3, <4>1, <4>2, <2>14
    <3> QED
      BY <3>2, <3>3, <2>2 DEF Kinds
  <2>18. StorageRoom'
    <3> SUFFICES ASSUME NEW c \in claims', c.for = "storage", c.auto = 1
                 PROVE  \E d \in PortsOf(c.id)' : d.auto = 0 \/ (d.auto = 2 /\ d.port < c.port)
      BY DEF StorageRoom, PortsOf
    <3>1. CASE c \in claims
      BY <3>1, <2>9 DEF RoomInv, StorageRoom
    <3>2. CASE c = new
      <4>1. k = "storage" /\ step = 1 /\ c.id = current.id
        BY <3>2, <2>4
      <4>2. current.left \in {<<1, 1>>, <<1>>}
        BY <4>1, <2>14, <2>16
      <4>3. PICK d \in PortsOf(id) : d.auto \in {0, 2}
        BY <4>1, <4>2, <2>0, <2>1 DEF RoomInv, UnderWay, k
      <4>4. d \in claims /\ d.on = m /\ d.for = k
        BY <4>3, <2>0, <2>1 DEF RoomInv, OwnNumber, PortsOf, m, k
      <4>5. d.auto = 2 => d.port < c.port
        BY <3>2, <4>1, <4>4, <2>2, <2>3, <2>4, <2>6, <2>10
      <4> QED
        BY <4>1, <4>3, <4>5, <2>0, <2>9
    <3> QED
      BY <3>1, <3>2, <2>1
  <2>19. ServerRoom'
    <3> SUFFICES ASSUME NEW c \in claims', c.for = "server"
                 PROVE  /\ c.auto = 1 =>
                             \/ Busy' /\ current'.id = c.id /\ current'.left = <<2>>
                                  /\ c.port + 1 = curport'[c.on]["server"]
                             \/ \E d \in PortsOf(c.id)' :
                                  d.auto = 0 \/ (d.auto = 2 /\ d.port = c.port + 1)
                        /\ c.auto = 2 => \E d \in PortsOf(c.id)' :
                              d.auto = 0 \/ (d.auto = 1 /\ d.port < c.port)
      BY DEF ServerRoom, PortsOf
    <3>1. CASE c = new
      <4>1. k = "server" /\ c.id = current.id /\ c.port = port /\ c.auto = step /\ c.on = m
        BY <3>1, <2>4
      <4>2. CASE step = 1
        <5>1. current'.left = <<2>> /\ current'.id = current.id
          BY <4>1, <4>2, <2>14, <2>16
        <5>2. Busy'
          BY <5>1 DEF Busy
        <5>3. port + 1 = curport'[m]["server"]
          BY <4>1, <4>2, <2>5, <2>6
        <5> QED
          BY <4>1, <4>2, <5>1, <5>2, <5>3
      <4>3. CASE step = 2
        <5>1. current.left = <<2>>
          BY <4>1, <4>3, <2>14, <2>16
        <5>2. PICK d \in PortsOf(id) : d.auto \in {0, 1}
          BY <4>1, <5>1, <2>0, <2>1 DEF RoomInv, UnderWay, k
        <5>3. d \in claims /\ d.on = m /\ d.for = k
          BY <5>2, <2>0, <2>1 DEF RoomInv, OwnNumber, PortsOf, m, k
        <5>4. d.auto = 1 => d.port < port
          BY <4>3, <5>3, <2>2, <2>3, <2>6, <2>10
        <5> QED
          BY <4>1, <4>3, <5>2, <5>4, <2>0, <2>9
      <4> QED
        BY <4>1, <4>2, <4>3, <2>3
    <3>2. CASE c \in claims
      <4>1. c.auto = 2 => \E d \in PortsOf(c.id)' : d.auto = 0 \/ (d.auto = 1 /\ d.port < c.port)
        BY <3>2, <2>9 DEF RoomInv, ServerRoom
      <4>2. ASSUME c.auto = 1
            PROVE  \E d \in PortsOf(c.id)' : d.auto = 0 \/ (d.auto = 2 /\ d.port = c.port + 1)
        <5>1. CASE \E d \in PortsOf(c.id) : d.auto = 0 \/ (d.auto = 2 /\ d.port = c.port + 1)
          BY <5>1, <2>9
        <5>2. CASE /\ current.id = c.id /\ current.left = <<2>>
                   /\ c.port + 1 = curport[c.on]["server"]
          <6>1. c \in PortsOf(current.id)
            BY <3>2, <5>2 DEF PortsOf, Kinds
          <6>2. c.on = m /\ k = "server"
            BY <6>1, <2>1 DEF RoomInv, OwnNumber, m, k
          <6>3. Head(current.left) = 2
            BY <5>2
          <6>4. step = 0 \/ (step = 2 /\ port = c.port + 1)
            BY <5>2, <6>2, <6>3, <2>6, <2>16
          <6> QED
            BY <5>2, <6>4, <2>0, <2>4, <2>15
        <5> QED
          BY <3>2, <4>2, <5>1, <5>2 DEF RoomInv, ServerRoom
      <4> QED
        BY <4>1, <4>2
    <3> QED
      BY <3>1, <3>2, <2>1
  <2> QED
    BY <2>11, <2>13, <2>17, <2>18, <2>19 DEF RoomInv
<1> QED
  BY <1>1, <1>2
LEMMA RoomInvariance == Spec => []RoomInv
<1>1. Init => RoomInv
  <2> SUFFICES ASSUME Init PROVE RoomInv
    OBVIOUS
  <2>1. ~Busy /\ current.id = 0 /\ nodes = 0 /\ claims = {}
    BY DEF Init, Busy, Idle
  <2> QED
    BY <2>1 DEF RoomInv, RoomKept, OwnNumber, UnderWay, StorageRoom, ServerRoom, PortsOf
<1>2. Inv /\ RoomInv /\ [Next]_vars => RoomInv'
  <2> SUFFICES ASSUME Inv, RoomInv, [Next]_vars PROVE RoomInv'
    OBVIOUS
  <2>1. ASSUME Reject PROVE RoomInv'
    BY <2>1, NothingGiven DEF Reject
  <2>2. ASSUME NEW m \in Machine, NEW a, NEW b, NEW c, ClusterManager(m, a, b, c)
        PROVE  RoomInv'
    BY <2>1, <2>2, GivenToOthers DEF ClusterManager
  <2>3. ASSUME NEW m \in Machine, NEW a, NEW b, NEW c, NEW type, NEW s, NEW v,
               NodeManager(m, a, b, c, type, s, v)
        PROVE  RoomInv'
    <3>1. CASE ~Reject
      <4>1. /\ m \notin nodemgrips /\ current' = current /\ nodes' = nodes
            /\ Claim(m, {a, b, c}, "node_mgr", 0, 0)
            /\ curport' = [curport EXCEPT ![m] = [storage |-> s, server |-> v]]
        BY <2>3, <3>1 DEF NodeManager
      <4>2. \A n \in nodemgrips : curport'[n] = curport[n]
        BY <4>1 DEF Inv, TypeOK
      <4> QED
        BY <4>1, <4>2, GivenToOthers
    <3> QED
      BY <2>1, <3>1
  <2>4. ASSUME NEW m \in Machine, NEW p, Service(m, p) PROVE RoomInv'
    BY <2>1, <2>4, GivenToOthers DEF Service
  <2>5. CASE NextPhase
    BY <2>5, NothingGiven DEF NextPhase
  <2>6. CASE UNCHANGED vars
    BY <2>6, NothingGiven DEF vars
  <2> QED
    BY <2>2, <2>3, <2>4, <2>5, <2>6, InstanceBegins, PortKeepsRoom DEF Next
<1> QED
  BY <1>1, <1>2, Invariance, PTL DEF Spec

\* Why the room is enough: the exporter of an instance with all its ports listens one
\* above the port that left room, which is the last that the counter gave before it.
LEMMA RoomIsExporters == Inv /\ RoomInv => ExportersFree
<1> SUFFICES ASSUME Inv, RoomInv, NEW i \in Automatic
             PROVE  LET e == ExporterPort(i) IN
                    /\ e.port < curport[e.on][e.for]
                    /\ \A c \in claims : c.auto > 0 /\ c.on = e.on /\ c.for = e.for => c.port # e.port
  BY DEF ExportersFree
<1> DEFINE main == CHOOSE c \in PortsOf(i) : \A d \in PortsOf(i) : c.port <= d.port
           next == main.port + IF main.for = "storage" THEN 1 ELSE 2
<1>1. /\ i \in Nat /\ current.id # i /\ PortsOf(i) # {}
      /\ \A c \in PortsOf(i) : c.auto > 0
  BY DEF Automatic
<1>2. ASSUME NEW c \in PortsOf(i)
      PROVE  /\ c \in claims /\ c.port \in Nat /\ c.auto \in {1, 2} /\ c.id = i
             /\ c.on \in Machine /\ c.for \in {"storage", "server"}
             /\ c.port + c.auto <= curport[c.on][c.for] /\ curport[c.on][c.for] \in Nat
  <2>1. c \in claims /\ c \in Claims /\ c.id = i /\ c.for \in Kinds /\ c.auto > 0
    BY <1>1 DEF PortsOf, Inv, TypeOK
  <2> QED
    BY <2>1 DEF Claims, Kinds, Inv, TypeOK, CountersAhead
<1>3. main \in PortsOf(i) /\ \A d \in PortsOf(i) : main.port <= d.port
  <2>1. {c.port : c \in PortsOf(i)} \in SUBSET Nat
    BY <1>2
  <2>2. PICK x \in {c.port : c \in PortsOf(i)} : \A y \in {c.port : c \in PortsOf(i)} : x <= y
    BY <1>1, <2>1, LeastNumber
  <2>3. \E c \in PortsOf(i) : \A d \in PortsOf(i) : c.port <= d.port
    BY <2>2
  <2> QED
    BY <2>3
<1>4. ExporterPort(i) = [on |-> main.on, for |-> main.for, port |-> next]
  BY DEF ExporterPort
<1> HIDE DEF main, next
\* The port that left the room.
<1>5. \E r \in PortsOf(i) : r.auto = 2 /\ next = r.port + 1
  <2>1. CASE main.for = "storage"
    <3>1. main.auto # 1
      <4>1. ASSUME main.auto = 1 PROVE FALSE
        <5>1. PICK d \in PortsOf(i) : d.auto = 0 \/ (d.auto = 2 /\ d.port < main.port)
          BY <1>2, <1>3, <2>1, <4>1 DEF RoomInv, StorageRoom
        <5> QED
          BY <5>1, <1>2, <1>3
      <4> QED
        BY <4>1
    <3> QED
      BY <1>2, <1>3, <2>1, <3>1 DEF next
  <2>2. CASE main.for = "server"
    <3>1. main.auto # 2
      <4>1. ASSUME main.auto = 2 PROVE FALSE
        <5>1. PICK d \in PortsOf(i) : d.auto = 0 \/ (d.auto = 1 /\ d.port < main.port)
          BY <1>2, <1>3, <2>2, <4>1 DEF RoomInv, ServerRoom
        <5> QED
          BY <5>1, <1>2, <1>3
      <4> QED
        BY <4>1
    <3>2. main.auto = 1 /\ main \in claims /\ main.id = i /\ main.port \in Nat
      BY <1>2, <1>3, <3>1
    <3>3. PICK d \in PortsOf(i) : d.auto = 0 \/ (d.auto = 2 /\ d.port = main.port + 1)
      BY <1>1, <2>2, <3>2 DEF RoomInv, ServerRoom
    <3>4. d.auto = 2 /\ d.port = main.port + 1
      BY <3>3, <1>2
    <3> QED
      BY <2>2, <3>2, <3>4 DEF next
  <2> QED
    BY <1>2, <1>3, <2>1, <2>2
<1>6. PICK r \in PortsOf(i) : r.auto = 2 /\ next = r.port + 1
  BY <1>5
<1>7. main.on = r.on /\ main.for = r.for
  BY <1>1, <1>3 DEF RoomInv, OwnNumber
<1>8. next < curport[main.on][main.for] /\ next \in Nat
  BY <1>2, <1>6, <1>7
<1>9. ASSUME NEW c \in claims, c.auto > 0, c.on = main.on, c.for = main.for PROVE c.port # next
  <2>1. c.port \in Nat /\ c.auto \in {1, 2}
    BY <1>9 DEF Inv, TypeOK, Claims
  <2>2. CASE c = r
    BY <2>2, <1>6, <2>1
  <2>3. CASE c # r
    <3>1. c.port + c.auto <= r.port \/ r.port + r.auto <= c.port
      BY <1>2, <1>6, <1>7, <1>9, <2>3 DEF RoomInv, RoomKept
    <3> QED
      BY <3>1, <1>2, <1>6, <2>1
  <2> QED
    BY <2>2, <2>3
<1> QED
  BY <1>4, <1>8, <1>9

\* The exporter of an instance never meets a port that the same counter gave, nor one
\* that it will give, whatever was given by the configuration in between.
THEOREM ExportersHaveRoom == Spec => []ExportersFree
  BY Invariance, RoomInvariance, RoomIsExporters, PTL
=============================================================================
