SPECIFICATION Spec
CONSTANTS
    m1 = m1
    m2 = m2
    p1 = p1
    p2 = p2
    s1 = s1
    s2 = s2
    c1 = c1
    c2 = c2
    mgr = mgr
    Manager = mgr
    Machine <- MCMachine
    Storage <- MCStorage
    Comp <- MCComp
    Host <- MCHost
    Layouts <- MCLayouts
    MaxFaults = 2
    MaxScripts = 3
INVARIANTS
    TypeOK
    InstallResumes
    CleanSkipsNothing
PROPERTIES
    JoinsLivePrimary
    KeepsPromises
    ScriptsEnd
CHECK_DEADLOCK FALSE
