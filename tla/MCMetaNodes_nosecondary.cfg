SPECIFICATION Spec
CONSTANTS
    d1 = d1
    d2 = d2
    d3 = d3
    n1 = n1
    n2 = n2
    n3 = n3
    n4 = n4
    n5 = n5
    n6 = n6
    Node <- FourNodes
    DC <- TwoDcs
    MultipleDcs = {TRUE}
    DcOf <- InTwoDcs
    DcRoles <- StandbyOnly
    Nobody = Nobody
INVARIANTS
    SourceFirst
CHECK_DEADLOCK FALSE
