\* Three queries, one document, two threads: any two may run at once, none fails.
SPECIFICATION Spec
CONSTANTS
    q1 = q1
    q2 = q2
    q3 = q3
    d1 = d1
    s1 = s1
    None = None
    Queries <- ThreeQueries
    Docs <- OneDocument
    Sessions <- OneSession
    Plain = {}
    Faulty = {}
    DailyLimit = 1
    Threads = 2
    MaxCrashes = 0
SYMMETRY Symmetry
CHECK_DEADLOCK FALSE
INVARIANTS
    QueryOvershootBounded
    CitationsAreGrounded
    OnlyRivalsHideEvidence
