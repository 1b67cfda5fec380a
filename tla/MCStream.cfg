CONSTANTS
    a = a
    b = b
    Addrs = {a}
    Writable = {a}
    Ahead <- MCAhead
    Slack = 1
    History = 2
    MaxPoints = 2
    MaxTime = 3
    MaxLives = 2
    MaxRefs = 2
    MaxRequests = 2
    MaxFlight = 1
    MaxCommands = 1
    None = None
SPECIFICATION Spec
CONSTRAINT WritesApart
INVARIANTS
    OneCurve
    ConfirmedWasDone
    JournalFollows
PROPERTIES
    NoFalsePurge
CHECK_DEADLOCK FALSE
