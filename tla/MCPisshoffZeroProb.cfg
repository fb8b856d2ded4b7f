CONSTANTS
    c1 = c1
    c2 = c2
    c3 = c3
    p1 = p1
    p2 = p2
    Conn <- MCConn
    Password <- MCPassword
    NoPassword = NoPassword
    Resolution = 4
    AccessNumerator = 0
    MaxEvents = 2

SYMMETRY MCSymmetry

SPECIFICATION Spec

INVARIANT ZeroProbabilityRejects

CHECK_DEADLOCK FALSE
