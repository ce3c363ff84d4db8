SPECIFICATION Spec
CONSTANTS
    m1 = m1
    m2 = m2
    noport = noport
    Machine <- Machines
    ManagerPorts <- ManagerPortValues
    Given <- GivenPorts
    StorageCur <- StorageStarts
    ServerCur <- ServerStarts
    DefStorageCur = 10
    DefServerCur = 20
    MetaMgr = TRUE
    MaxNodes = 3
    NoPort = noport
SYMMETRY Symmetry
INVARIANTS
    TypeOK
    PortsDistinct
    CountersAhead
    Registered
    ExportersFree
CHECK_DEADLOCK FALSE
