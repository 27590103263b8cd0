\* One reader and one writer of a queue that blocks on both sides.
CONSTANTS
    g1 = g1  g2 = g2  p1 = p1  p2 = p2  d1 = d1  d2 = d2
    NoData = NoData  NoTask = NoTask
    Tasks = {g1, p1}
    Getters = {g1}
    Putters = {p1}
    Data = {d1, d2}
    MaxElements = 2
    MinCounts = {0, 3}
    Timeouts = {"NO_WAIT", "TIMED", "FOREVER"}
    CanUnBlock = TRUE
    Flags = {"get", "put"}
SPECIFICATION FairSpec
INVARIANTS TypeOK RingOK NoLostWakeup
PROPERTIES ImplementsFifo ReadyCallEnds UnBlockReleasesSleeper
