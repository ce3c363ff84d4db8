SPECIFICATION Spec
CONSTANTS
    m1 = m1
    m2 = m2
    m3 = m3
    m4 = m4
    p1 = p1
    p2 = p2
    p3 = p3
    s1 = s1
    s2 = s2
    c1 = c1
    c2 = c2
    Machine <- FullMachines
    Storage <- FullStorage
    Comp <- FullComp
    Host <- FullHost
    Primary <- TwoPrimaries
    NodeMgrs <- FullNodeMgrs
    Skip <- FullSkip
    ClusterMgrs <- FullClusterMgrs
    MetaNodes <- FullMeta
    Clusters <- FullClusters
    FaultyIn <- Scripts
    MaxFaults = 2
    MaxScripts = 4
INVARIANTS
    TypeOK
    InstallSkipsNothing
    CleanCanRun
PROPERTIES
    ManagersAfterMetadata
    DataOutlivesServer
    ManagerDownFirst
    KeepsPromises
CHECK_DEADLOCK FALSE
