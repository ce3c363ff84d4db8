SPECIFICATION Spec
CONSTANTS
    s1 = s1
    s2 = s2
    Server <- Two
    Modes <- OnlyRbr
    MaxCommits = 2
    MaxRotations = 1
    MaxFailovers = 0
    MaxArchives = 2
    MaxFaults = 0
INVARIANTS
    GtidIsSaved
CHECK_DEADLOCK FALSE
