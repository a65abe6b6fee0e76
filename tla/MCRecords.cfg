SPECIFICATION Spec
CONSTANTS
    w = w
    v = v
    d1 = d1
    d2 = d2
    r1 = r1
    x1 = x1
    x2 = x2
    i1 = i1
    Workspaces = {w, v}
    Documents = {d1, d2}
    Exchanges = {x1, x2}
    Items = {i1}
    Uploads = {d1}
    Readers = {r1}
    Home <- Homes
    Texts <- SomeTexts
    MaxLate = 3
INVARIANTS
    NothingOldIsMissed
    OnlyOwnRows
    PartsComeWithTheWhole
    
CHECK_DEADLOCK FALSE
