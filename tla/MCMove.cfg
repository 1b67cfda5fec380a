CONSTANTS
    t = t
    u = u
    w1 = w1
    w2 = w2
    o1 = o1
    o2 = o2
    o3 = o3
    o4 = o4
    d1 = d1
    d2 = d2
    None = None
    Tiles = {t, u}
    Wins = {w1, w2}
    Opened = {w1}
    Objects = {o1, o2, o3}
    Drags = {d1, d2}
    Limit = 2
SPECIFICATION Spec
CONSTRAINT BeforeAccident
SYMMETRY Symmetry
INVARIANTS
    MovedNotCopied
PROPERTIES
    NeverLost
