SPECIFICATION Spec
CONSTANTS
    s1 = s1
    s2 = s2
    Server <- Two
    Modes <- BothModes
    MaxCommits = 3
    MaxRotations = 2
    MaxFailovers = 1
    MaxArchives = 3
    MaxFaults = 1
INVARIANTS
    TypeOK
    ArchivesConnect
    MergeLosesNothing
    RestoresWithoutGap
CHECK_DEADLOCK FALSE
