SPECIFICATION Spec
CONSTANTS
    m1 = m1
    m2 = m2
    m3 = m3
    m4 = m4
    p1 = p1
    p2 = p2
    p3 = p3
    s1 = s1
    s2 = s2
    c1 = c1
    c2 = c2
    Machine <- Machines
    Storage <- AddStorage
    Comp <- AddComp
    Host <- AddHost
    Primary <- TwoPrimaries
    NodeMgrs <- TwoMgrs
    Skip <- AddSkip
    ClusterMgrs <- Nothing
    MetaNodes <- Nothing
    Clusters <- AddClusters
    FaultyIn <- Scripts
    MaxFaults = 2
    MaxScripts = 4
INVARIANTS
    CommandsCanRun
    ScriptsComplete
CHECK_DEADLOCK FALSE
