\* Three owners' decisions race on one item that has no original value.
SPECIFICATION Spec
CONSTANTS
    i1 = i1
    d1 = d1
    d2 = d2
    d3 = d3
    alice = alice
    bob = bob
    v0 = v0
    v1 = v1
    Null = Null
    Items <- OneItem
    Requests <- ThreeRequests
    Users <- TwoUsers
    Values <- TwoValues
    Comments = {}
    Original <- OriginalNull
SYMMETRY RequestSymmetry
CHECK_DEADLOCK FALSE
INVARIANTS
    ColumnsComeFromEvents
    LoneDecisionIsTheRow
PROPERTIES
    DecisionClosesItem
