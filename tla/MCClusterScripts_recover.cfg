SPECIFICATION RecoverSpec
CONSTANTS
    m1 = m1
    m2 = m2
    m3 = m3
    m4 = m4
    p1 = p1
    p2 = p2
    p3 = p3
    s1 = s1
    s2 = s2
    c1 = c1
    c2 = c2
    Machine <- ApartMachines
    Storage <- ApartStorage
    Comp <- FullComp
    Host <- ApartHost
    Primary <- TwoPrimaries
    NodeMgrs <- ApartNodeMgrs
    Skip <- ApartSkip
    ClusterMgrs <- TwoMgrs
    MetaNodes <- ApartMeta
    Clusters <- FullClusters
    FaultyIn <- InInstall
    MaxFaults = 2
    MaxScripts = 5
PROPERTIES
    RecoversByClean
CHECK_DEADLOCK FALSE
