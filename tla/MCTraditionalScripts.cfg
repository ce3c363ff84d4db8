SPECIFICATION Spec
CONSTANTS
    m1 = m1
    m2 = m2
    p1 = p1
    p2 = p2
    s1 = s1
    s2 = s2
    c1 = c1
    mgr = mgr
    proxy = proxy
    Haproxy = proxy
    Machine <- MCMachine
    Storage <- MCStorage
    Comp <- MCComp
    ClusterMgr <- MCClusterMgr
    Host <- MCHost
    Layouts <- MCLayouts
    MaxFaults = 1
    MaxReboots = 1
    MaxScripts = 3
INVARIANTS
    TypeOK
    InstallSkipsNothing
    CleanSurvivesReboots
PROPERTIES
    DataOutlivesServer
    KeepsPromises
CHECK_DEADLOCK FALSE
