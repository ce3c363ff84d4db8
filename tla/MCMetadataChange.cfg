SPECIFICATION Spec
CONSTANTS
    m1 = m1
    m2 = m2
    m3 = m3
    n0 = n0
    n1 = n1
    k1 = k1
    d1 = d1
    MetaShard = MetaShard
    Machine <- MCMachine
    Node <- MCNode
    MetaNode <- MCMetaNode
    ClusterOf <- MCClusterOf
    Cluster <- MCCluster
    Dc <- MCDc
    Config <- MCConfig
    Content <- MCContent
    First = 1
    MaxChanges = 4
    MaxAllocs = 1
    MaxFaults = 1
INVARIANTS
    TypeOK
    RowsOnce
    PortsRecorded
    PortsGivenOnce
    NoUnknownCluster
CHECK_DEADLOCK FALSE
