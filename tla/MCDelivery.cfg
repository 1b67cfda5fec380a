CONSTANTS
    Period = 2
    Horizon = 4
    SkewMax = 2
    Skews <- MCSkews
    NoDate = NoDate
    Values = {0, 1}
    Reach = 3
    MaxOut = 1
    Past = 2
    Lag = 1
    MaxTime = 5
    MaxPub = 3
    t1 = t1
    t2 = t2
    n1 = n1
    n2 = n2
    None = None
    Tabs = {t1, t2}
    Names = {n1, n2}
    Clean <- ToTheSame
    MaxCalls = 2
SYMMETRY Symmetry
SPECIFICATION MCSpec
CONSTRAINT OneReader
INVARIANTS
    JournalFaithful
    DatesSound
    DotTells
PROPERTY UnreadIsKept
CHECK_DEADLOCK FALSE
