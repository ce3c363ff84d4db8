--------------------------- MODULE MCMetadataChange ---------------------------
(***************************************************************************)
(* Three configurations for model checking: the first has the metadata     *)
(* shard and sets up two machines, the second adds a cluster on them, one  *)
(* of which has no row for computing nodes, the third is of a machine only.*)
(***************************************************************************)
EXTENDS MetadataChange, TLC

CONSTANTS m1, m2, m3, n0, n1, k1, d1

MCMachine == {m1, m2, m3}
MCNode == {n0, n1}
MCMetaNode == {n0}
MCClusterOf == (n0 :> k1) @@ (n1 :> k1)
MCCluster == {k1}
MCDc == {d1}
MCConfig == {"home", "added", "far"}

Ports(s, c) == ("storage" :> s) @@ ("computer" :> c)
Element(m, skip, nodetype, s, c) ==
    [ip |-> m, skip |-> skip, nodetype |-> nodetype, ports |-> Ports(s, c)]
MCContent ==
    ("home" :> [vars |-> <<>>, dcs |-> <<d1>>,
                nodes |-> <<Element(m1, FALSE, "both", 1, 0), Element(m2, FALSE, "storage", 0, 0)>>,
                pairs |-> <<n0>>, backups |-> <<"hdfs_backup1">>, clusters |-> <<>>,
                external |-> FALSE]) @@
    ("added" :> [vars |-> <<n1>>, dcs |-> <<>>,
                 nodes |-> <<Element(m1, TRUE, "both", 1, 1), Element(m2, TRUE, "server", 0, 1)>>,
                 pairs |-> <<n1>>, backups |-> <<>>, clusters |-> <<k1>>, external |-> TRUE]) @@
    ("far" :> [vars |-> <<>>, dcs |-> <<>>,
               nodes |-> <<Element(m3, FALSE, "storage", 0, 0)>>,
               pairs |-> <<>>, backups |-> <<>>, clusters |-> <<>>, external |-> TRUE])
=============================================================================
