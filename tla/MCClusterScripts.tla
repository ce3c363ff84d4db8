-------------------------- MODULE MCClusterScripts --------------------------
(***************************************************************************)
(* Configurations for model checking the scripts, cut down from the        *)
(* examples beside setup_cluster_manager.py.                               *)
(***************************************************************************)
EXTENDS ClusterScripts

CONSTANTS m1, m2, m3, m4,       \* machines
          p1, p2, p3, s1, s2,   \* storage instances
          c1, c2                \* computing nodes

Machines == {m1, m2}
TwoPrimaries == {p1, s1}
InInstall == {"install"}

\* multi_clusters.json: a meta shard and a cluster on machines with their own
\* managers; m3 was set up before and its node manager is skipped.  The
\* replicas come first in their shards.
ApartMachines == {m1, m2, m3}
ApartStorage == {p1, p2, s1, s2}
FullComp == {c1}
ApartHost == (p1 :> m3) @@ (p2 :> m1) @@ (s1 :> m2) @@ (s2 :> m3) @@ (c1 :> m2)
ApartSkip == {m3}
TwoMgrs == <<m1, m2>>
ApartNodeMgrs == <<m1, m2, m3>>
ApartMeta == <<p2, p1>>
FullClusters == <<[shards |-> <<<<s2, s1>>>>, comps |-> <<c1>>]>>

\* The same with a cluster manager on a skipped machine that has a meta node.
FullMachines == {m1, m2, m3, m4}
FullStorage == ApartStorage \cup {p3}
FullHost == ApartHost @@ (p3 :> m4)
FullSkip == {m3, m4}
FullNodeMgrs == <<m1, m2, m3, m4>>
FullClusterMgrs == <<m2, m4>>
FullMeta == <<p2, p1, p3>>

\* multi_clusters_add.json: clusters added to a metadata shard given by its
\* group_seeds, on machines that another configuration installed.
AddStorage == {p1, p2, s1}
AddComp == {c1, c2}
AddHost == (p1 :> m1) @@ (p2 :> m2) @@ (s1 :> m2) @@ (c1 :> m1) @@ (c2 :> m2)
AddSkip == {m1, m2}
AddClusters == <<[shards |-> <<<<p2, p1>>>>, comps |-> <<c1>>],
                 [shards |-> <<<<s1>>>>, comps |-> <<c2>>]>>
Nothing == <<>>
=============================================================================
