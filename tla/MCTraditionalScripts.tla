------------------------- MODULE MCTraditionalScripts -------------------------
(***************************************************************************)
(* Configurations for model checking the traditional scripts, after        *)
(* install.json and install_norep.json beside generate_scripts.py, and     *)
(* groups128.json for its groups variant.                                  *)
(***************************************************************************)
EXTENDS TraditionalScripts, TLC

CONSTANTS m1, m2,          \* machines
          p1, p2, s1, s2,  \* storage nodes
          c1, mgr, proxy

MCMachine == {m1, m2}
MCStorage == {p1, p2, s1, s2}
MCComp == {c1}
MCClusterMgr == {mgr}
MCHost ==
    (p1 :> m1) @@ (p2 :> m2) @@ (s1 :> m2) @@ (s2 :> m1)
      @@ (c1 :> m2) @@ (mgr :> m1) @@ (proxy :> m2)

\* No replication, nothing started by systemd, no primary marked.
Plain ==
    [groups |-> FALSE, meta |-> <<p1>>, shards |-> <<<<s1>>>>, comps |-> <<c1>>,
     mgrs |-> <<mgr>>, mgrKeys |-> "ip", primary |-> {}, ha |-> "", metaHa |-> "",
     haproxy |-> TRUE, autostart |-> FALSE]
\* Replicas that are configured before their primaries; systemd units.
Auto ==
    [Plain EXCEPT !.meta = <<p2, p1>>, !.shards = <<<<s2, s1>>>>, !.primary = {p1, s1},
                  !.mgrKeys = "nodes", !.autostart = TRUE]
\* Data shards alone, in modes of their own.
GroupsOnly ==
    [Auto EXCEPT !.groups = TRUE, !.meta = <<>>, !.shards = <<<<p1>>, <<s2, s1>>>>,
                 !.comps = <<>>, !.mgrs = <<>>, !.haproxy = FALSE, !.autostart = FALSE]
\* A cluster manager with one ip and ports of its own.
IpWithPorts == [Plain EXCEPT !.mgrKeys = "ip_ports"]
\* A node in two shards.
InTwoShards == [Plain EXCEPT !.shards = <<<<p1>>>>]

MCLayouts == {Plain, Auto, GroupsOnly, IpWithPorts, InTwoShards}
=============================================================================
