CONSTANTS
    Inner = {MB1}
    Net = {p1}
    Sessions = {s1, s2}
    Campaigns = {c1}
    MaxVars = 2
    MaxLeaks = 1
    None = None
SYMMETRY Symmetry
SPECIFICATION Spec
INVARIANTS
    TypeOK
    RefsMatchHolders
    MetaStaysValid
    OnlyLiveHolders
    NotedOnce
