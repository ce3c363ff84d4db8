--------------------------- MODULE MCDockerScripts ---------------------------
(***************************************************************************)
(* Configurations for model checking the docker scripts, after the         *)
(* examples beside generate_scripts.py.                                    *)
(***************************************************************************)
EXTENDS DockerScripts, TLC

CONSTANTS m1, m2,       \* hosts
          p1, p2,       \* the meta shard
          s1, s2,       \* a data shard
          c1, c2, mgr

MCHost ==
    (p1 :> m1) @@ (p2 :> m2) @@ (s1 :> m2) @@ (s2 :> m1) @@ (c1 :> m2) @@ (c2 :> m1) @@ (mgr :> m1)

\* install_docker.json: group replication, directories given for some nodes;
\* the replica comes first in the data shard.
Mgr ==
    [listed |-> {m1}, meta |-> <<p1, p2>>, shards |-> <<<<s2, s1>>>>, comps |-> <<c1>>,
     primary |-> {p1, s1}, ha |-> "", metaHa |-> "", mounted |-> {p1, s2, c1},
     proxy |-> {m2}, imageInFiles |-> TRUE]
\* The same shards in rbr mode, images pulled.
Rbr == [Mgr EXCEPT !.ha = "rbr", !.mounted = {s1}, !.proxy = {}, !.imageInFiles = FALSE]
\* One node in each shard, and haproxy on a machine of its own.
Single ==
    [Mgr EXCEPT !.meta = <<p1>>, !.shards = <<<<s2>>>>, !.comps = <<c2>>, !.primary = {}]
\* Two primaries in a shard.
Twice == [Mgr EXCEPT !.primary = {p1, s1, s2}]

MCMachine == {m1, m2}
MCStorage == {p1, p2, s1, s2}
MCComp == {c1, c2}
MCLayouts == {Mgr, Rbr, Single, Twice}
=============================================================================
