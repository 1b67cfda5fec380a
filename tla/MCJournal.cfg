CONSTANTS
    MinPeriod = 1
    MaxPeriod = 2
    Horizon = 3
    CatchUp = 1
    Generated = Generated
    Periods = {0, 3}
    Forced = {f}
    Lag = 1
    MaxTime = 3
    MaxBoots = 2
    None = None
    SimHorizon = 2
    HoldMax = 3
    Slack = 0
    MaxRefs = 2
    MaxClock = 3
SPECIFICATION MCSpec
INVARIANTS
    GridJournaled
    LinesInOrder
    SimulationSound
PROPERTIES
    NeverMixed
