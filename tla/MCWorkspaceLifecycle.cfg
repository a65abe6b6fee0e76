\* Two delete requests and two mark-deleted requests, in every interleaving.
SPECIFICATION Spec
CONSTANTS
    q1 = q1
    q2 = q2
    m1 = m1
    m2 = m2
    Null = Null
    DeletionRequests <- TwoDeletionRequests
    MarkRequests <- TwoMarkRequests
CHECK_DEADLOCK FALSE
INVARIANTS
    RecordsTellHistory
PROPERTIES
    NeverReactivated
