CONSTANTS
    e0 = e0
    e1 = e1
    a = a
    b = b
    s1 = s1
    PageRuns = {r1}
    PageSettings = {s1, s2}
    MaxReadings = 2
    MaxIntervals = 1
    SimIfaces = {e0, e1}
    SimUnknown = eth
    SimWatched = {e0}
    SimRate <- TwiceOnE1
    SimQuotas = {1, 3}
    SimDurations = {0, 1}
    SimMaxClock = 2
    SimMaxRuns = 2
    None = None
    Ifaces = {e0, e1}
    Addrs = {a, b}
    Known = {a}
    Values = {0, 1}
    Quotas = {1, 2}
    Durations = {1}
    Triggers <- AllTriggers
    NoTrigger <- MCNoTrigger
    MaxSec = 1
    MaxRuns = 3
SPECIFICATION MCSpec
INVARIANTS
    DiskInHand
    TriggerSound
    PagesHold
PROPERTIES
    ServiceSound
