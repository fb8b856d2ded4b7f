CONSTANTS
    c1 = c1
    c2 = c2
    c3 = c3
    p1 = p1
    p2 = p2
    Conn <- MCConn3
    Password <- MCPassword1
    NoPassword = NoPassword
    Resolution = 4
    AccessNumerator = 1
    MaxEvents = 2

SYMMETRY MCSymmetry3

SPECIFICATION Spec

INVARIANT ReplayConsistency
INVARIANT AuditBacklogAccounted
PROPERTY CredentialStoreRefined

CHECK_DEADLOCK FALSE
