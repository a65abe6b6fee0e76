\* Two owners decide the same item.
SPECIFICATION Spec
CONSTANTS
    i1 = i1
    d1 = d1
    d2 = d2
    d3 = d3
    alice = alice
    bob = bob
    v0 = v0
    v1 = v1
    Null = Null
    Items <- OneItem
    Requests <- TwoRequests
    Users <- TwoUsers
    Values <- TwoValues
    Comments = {}
    Original <- OriginalV0
CHECK_DEADLOCK FALSE
INVARIANTS
    DecidedOnce
