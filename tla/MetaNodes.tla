----------------------------- MODULE MetaNodes -----------------------------
(***************************************************************************)
(* The nodes of the metadata shard: which of them is the primary, from     *)
(* which node each one replicates, in which order install.sh installs      *)
(* them, and what node_map_master says of them afterwards                  *)
(* (validate_and_set_config2 and 3, setup_metanodes_onedc,                 *)
(* setup_metanodes_multidc and the meta part of install_with_config).      *)
(*                                                                         *)
(* With --multipledc the nodes are spread over data centres: the primary   *)
(* one, the secondary ones of the same city, the standby ones elsewhere.   *)
(* Every node is installed from a file that lists nodes; the node          *)
(* replicates from the one marked is_primary in that file.                 *)
(***************************************************************************)
EXTENDS Naturals, Sequences, FiniteSets, SequencesExt, Lists

CONSTANTS
    Node,       \* the nodes of meta.nodes
    DC,         \* the data centres, when there are several
    MultipleDcs, \* --multipledc: the values to be explored
    DcOf,       \* DcOf[n]: the data centre of n's node manager
    DcRoles,    \* roles that data centres other than the primary one can have
    Nobody      \* None of the Python code

\* validate_and_set_config2 and 3 refuse a configuration without meta nodes.
ASSUME MetaAssumption ==
    /\ MultipleDcs \subseteq BOOLEAN
    /\ IsFiniteSet(Node) /\ Node # {}
    /\ IsFiniteSet(DC)
    /\ DcOf \in [Node -> DC]
    /\ DcRoles \subseteq {"secondary", "standby"}
    /\ Nobody \notin Node

VARIABLES
    phase,       \* how far the installation has come
    multipledc,  \* --multipledc
    nodes,       \* meta.nodes, in the order of the configuration
    dcprimary, dcsecondarylist, dcstandbylist,
    primaries,   \* the nodes with is_primary
    next,        \* the next data centre of the list that is gone through
    metanodes,   \* what is built: [node, file, index, fullsync]
    elements,    \* the pairs for node_map_master: [host, master]
    sdcmaster,   \* the node that masters of standby data centres replicate from
    node,        \* the loop variable of that name
    fullsyncLevel,
    installed,   \* the entries of metanodes that were installed, in order
    firstmeta    \* the node on which bootstrap.py runs

config == <<multipledc, nodes, dcprimary, dcsecondarylist, dcstandbylist>>
built  == <<metanodes, elements, sdcmaster, node, fullsyncLevel>>
vars   == <<phase, config, primaries, next, built, installed, firstmeta>>

Phases == {"validate", "onedc", "primary", "secondary", "standby", "install",
           "done", "rejected"}

-----------------------------------------------------------------------------
InDc(d) == Those(nodes, {n \in Node : DcOf[n] = d})

\* A list of nodes as json.dump writes it while ps are the primaries.
Dump(s, ps) == [i \in DOMAIN s |-> [node |-> s[i], is_primary |-> s[i] \in ps]]

Item(n, file, index, fullsync) ==
    [node |-> n, file |-> file, index |-> index, fullsync |-> fullsync]

Pair(n, m) == [host |-> n, master |-> m]

Tails(s, F(_)) == [j \in 1..(Len(s) - 1) |-> F(j + 1)]

-----------------------------------------------------------------------------
(* validate_and_set_config2, validate_and_set_config3                      *)

Reject ==
    /\ phase' = "rejected"
    /\ UNCHANGED <<config, primaries, next, built, installed, firstmeta>>

\* At most one node may be marked; without a mark it is the first.
ValidateOneDc ==
    /\ phase = "validate" /\ ~multipledc
    /\ IF Cardinality(primaries) > 1
       THEN Reject
       ELSE /\ primaries' = IF primaries = {} THEN {nodes[1]} ELSE primaries
            /\ phase' = "onedc"
            /\ UNCHANGED <<config, next, built, installed, firstmeta>>

\* Marks are ignored: the first node of the primary data centre is it.
ValidateMultiDc ==
    /\ phase = "validate" /\ multipledc
    /\ IF \E d \in DC : Len(InDc(d)) < 2
       THEN Reject
       ELSE /\ primaries' = {InDc(dcprimary)[1]}
            /\ phase' = "primary"
            /\ UNCHANGED <<config, next, built, installed, firstmeta>>

-----------------------------------------------------------------------------
(* setup_metanodes_onedc                                                   *)

\* The primary, then the others; the file and the index are those of the
\* configuration's own list.
SetupOneDc ==
    /\ phase = "onedc"
    /\ LET all == [i \in DOMAIN nodes |->
                      Item(nodes[i], Dump(nodes, primaries), i, 1)]
           marked == {e \in ToSet(all) : e.node \in primaries}
           p == Those(all, marked)
           s == Those(all, ToSet(all) \ marked)
       IN  /\ metanodes' = p \o s
           /\ elements' = [i \in DOMAIN s |-> Pair(s[i].node, p[1].node)]
    /\ phase' = "install"
    /\ UNCHANGED <<config, primaries, next, sdcmaster, node, fullsyncLevel, installed, firstmeta>>

-----------------------------------------------------------------------------
(* setup_metanodes_multidc                                                 *)

\* Mutant: the secondary data centres are counted with all their nodes.
CountAllSecondaries ==
    /\ phase = "primary"
    /\ LET s == InDc(dcprimary) IN
       /\ fullsyncLevel' = Len(s) + 2 * Len(dcsecondarylist) - 1
       /\ metanodes' = [j \in DOMAIN s |-> Item(s[j], Dump(s, primaries), j, 1)]
       /\ elements' = Tails(s, LAMBDA j : Pair(s[j], s[1]))
       /\ node' = Last(s)
    /\ phase' = "secondary" /\ next' = 1
    /\ UNCHANGED <<config, primaries, sdcmaster, installed, firstmeta>>

SetupPrimaryDc ==
    /\ phase = "primary"
    /\ LET s == InDc(dcprimary) IN
       /\ fullsyncLevel' = Len(s) + Len(dcsecondarylist) - 1
       /\ metanodes' = [j \in DOMAIN s |-> Item(s[j], Dump(s, primaries), j, 1)]
       /\ elements' = Tails(s, LAMBDA j : Pair(s[j], s[1]))
       /\ node' = Last(s)
    /\ phase' = "secondary" /\ next' = 1
    /\ UNCHANGED <<config, primaries, sdcmaster, installed, firstmeta>>

\* Mutant: a data centre is installed from its own list, without the master.
DetachedChain(s, m, fullsync) ==
    [j \in DOMAIN s |-> Item(s[j], Dump(s, primaries \cup {s[1]}), j, fullsync)]

\* Mutant: every node of a data centre replicates from the master itself.
ChainAsStar(s, m, fullsync) ==
    [j \in DOMAIN s |-> Item(s[j], <<[node |-> m, is_primary |-> TRUE],
                                     [node |-> s[j], is_primary |-> FALSE]>>, 2, fullsync)]

\* A master m in front of the first node of a data centre, which is then the
\* primary of the file that the rest of its data centre is installed from.
Chain(s, m, fullsync) ==
    <<Item(s[1], <<[node |-> m, is_primary |-> TRUE],
                   [node |-> s[1], is_primary |-> s[1] \in primaries]>>, 2, fullsync)>>
      \o Tails(s, LAMBDA j : Item(s[j], Dump(s, primaries \cup {s[1]}), j, 0))

SetupSecondaryDc ==
    /\ phase = "secondary" /\ next <= Len(dcsecondarylist)
    /\ LET s == InDc(dcsecondarylist[next])
           pdcmaster == InDc(dcprimary)[1]
       IN  /\ metanodes' = metanodes \o Chain(s, pdcmaster, 1)
           /\ elements' = elements \o <<Pair(s[1], pdcmaster)>>
                                   \o Tails(s, LAMBDA j : Pair(s[j], s[1]))
           /\ primaries' = primaries \cup {s[1]}
           /\ sdcmaster' = IF sdcmaster = Nobody THEN s[1] ELSE sdcmaster
           /\ node' = Last(s)
    /\ next' = next + 1
    /\ UNCHANGED <<phase, config, fullsyncLevel, installed, firstmeta>>

\* Without a secondary data centre: the second node of the primary one.
SecondariesDone ==
    /\ phase = "secondary" /\ next > Len(dcsecondarylist)
    /\ sdcmaster' = IF sdcmaster = Nobody THEN InDc(dcprimary)[2] ELSE sdcmaster
    /\ phase' = "standby" /\ next' = 1
    /\ UNCHANGED <<config, primaries, metanodes, elements, node, fullsyncLevel,
                   installed, firstmeta>>

\* The pairs of the replicas are built from node, which this loop does not
\* set: it is the last node of the loops before.
SetupStandbyDc ==
    /\ phase = "standby" /\ next <= Len(dcstandbylist)
    /\ LET s == InDc(dcstandbylist[next])
       IN  /\ metanodes' = metanodes \o Chain(s, sdcmaster, 0)
           /\ elements' = elements \o <<Pair(s[1], sdcmaster)>>
                                   \o Tails(s, LAMBDA j : Pair(node, s[1]))
           /\ primaries' = primaries \cup {s[1]}
    /\ next' = next + 1
    /\ UNCHANGED <<phase, config, sdcmaster, node, fullsyncLevel, installed, firstmeta>>

StandbysDone ==
    /\ phase = "standby" /\ next > Len(dcstandbylist)
    /\ phase' = "install"
    /\ UNCHANGED <<config, primaries, next, built, installed, firstmeta>>

-----------------------------------------------------------------------------
(* install_with_config                                                     *)

Marked == {e \in ToSet(metanodes) : e.node \in primaries}
NotMarked == ToSet(metanodes) \ Marked

\* Mutant: the commands are taken from the end of the list.
BackwardOrder == Reverse(metanodes)

\* pries, then secs.
InstallOrder == Those(metanodes, Marked) \o Those(metanodes, NotMarked)

InstallNext ==
    /\ phase = "install" /\ Len(installed) < Len(metanodes)
    /\ installed' = Append(installed, InstallOrder[Len(installed) + 1])
    /\ UNCHANGED <<phase, config, primaries, next, built, firstmeta>>

\* Mutant: the first node of the configuration, as the code once had it.
BootstrapOnFirst ==
    /\ phase = "install" /\ Len(installed) = Len(metanodes)
    /\ firstmeta' = nodes[1]
    /\ phase' = "done"
    /\ UNCHANGED <<config, primaries, next, built, installed>>

\* bootstrap.py runs on the first node of the configuration that is marked.
Bootstrap ==
    /\ phase = "install" /\ Len(installed) = Len(metanodes)
    /\ firstmeta' = Head(Those(nodes, primaries))
    /\ phase' = "done"
    /\ UNCHANGED <<config, primaries, next, built, installed>>

-----------------------------------------------------------------------------
Orders(S) == Bijection(1..Cardinality(S), S)

Init ==
    /\ phase = "validate"
    /\ multipledc \in MultipleDcs
    /\ nodes \in Orders(Node)
    /\ IF multipledc
       THEN /\ dcprimary \in DC
            /\ \E role \in [DC \ {dcprimary} -> DcRoles] :
                  /\ dcsecondarylist \in Orders({d \in DOMAIN role : role[d] = "secondary"})
                  /\ dcstandbylist \in Orders({d \in DOMAIN role : role[d] = "standby"})
       ELSE dcprimary = Nobody /\ dcsecondarylist = <<>> /\ dcstandbylist = <<>>
    \* validate_and_set_config3 overwrites the marks.
    /\ primaries \in IF multipledc THEN {{}} ELSE SUBSET Node
    /\ next = 1 /\ metanodes = <<>> /\ elements = <<>>
    /\ sdcmaster = Nobody /\ node = Nobody /\ fullsyncLevel = 1
    /\ installed = <<>> /\ firstmeta = Nobody

Next ==
    \/ ValidateOneDc \/ ValidateMultiDc
    \/ SetupOneDc
    \/ SetupPrimaryDc \/ SetupSecondaryDc \/ SecondariesDone
    \/ SetupStandbyDc \/ StandbysDone
    \/ InstallNext \/ Bootstrap

Spec == Init /\ [][Next]_vars
-----------------------------------------------------------------------------
(* Properties.                                                             *)

\* The node that e replicates from: the primary of its file.
Source(e) == (CHOOSE f \in ToSet(e.file) : f.is_primary).node
Root == InDc(dcprimary)[1]
Ready == phase \in {"install", "done"}

\* install.sh installs a node only after the node that it replicates from:
\* install-mysql.py of a replica connects to it.
SourceFirst ==
    \A i \in DOMAIN installed :
       LET e == installed[i] IN
       Source(e) = e.node \/ \E j \in 1..(i - 1) : installed[j].node = Source(e)

\* The same, where a secondary data centre gives the standby ones their source.
SourceFirstNear == dcstandbylist = <<>> \/ dcsecondarylist # <<>> => SourceFirst

Replicas == {e \in ToSet(metanodes) : Source(e) # e.node}

\* The nodes replicate along a tree: one node has no source, and no others
\* replicate from each other only, across the data centres.
OneTree ==
    Ready =>
       /\ Cardinality(Replicas) = Cardinality(Node) - 1
       /\ \A S \in (SUBSET Replicas) \ {{}} :
             \E e \in S : Source(e) \notin {f.node : f \in S}

\* "insert into node_map_master(cluster_id, node_host, master_host, ...)"
\* (modify_metadata.py): the pairs are the replicas, each with its source, but for
\* those that replicate within a standby data centre.
NodeMapTrue ==
    Ready =>
       /\ \A e \in Replicas : DcOf[Source(e)] \in ToSet(dcstandbylist)
                               \/ Pair(e.node, Source(e)) \in ToSet(elements)
       /\ dcstandbylist = <<>> => ToSet(elements) = {Pair(e.node, Source(e)) : e \in Replicas}

\* The primary can wait for as many acknowledgements as fullsync_level asks for:
\* so many nodes installed with fullsync replicate from it.
AcksAvailable ==
    Ready /\ multipledc =>
       fullsyncLevel <= Cardinality({e \in ToSet(metanodes) :
                            e.fullsync = 1 /\ e.node # Root /\ Source(e) = Root})

\* In one data centre, the system tables and the tables of dba_tools_db.sql are
\* created on the node that all others replicate from.
BootstrapOnSource ==
    phase = "done" /\ ~multipledc =>
       \E e \in ToSet(installed) : e.node = firstmeta /\ Source(e) = firstmeta
=============================================================================
