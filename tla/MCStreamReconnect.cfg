CONSTANTS
    a = a
    b = b
    Addrs = {a}
    Writable = {a}
    Ahead <- MCAhead
    Slack = 1
    History = 0
    MaxPoints = 2
    MaxTime = 1
    MaxLives = 2
    MaxRefs = 1
    MaxRequests = 1
    MaxFlight = 1
    MaxCommands = 2
    None = None
SPECIFICATION Spec
PROPERTY Reconnects
CHECK_DEADLOCK FALSE
