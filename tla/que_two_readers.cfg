\* Two readers that block on one queue: the BINARY semaphore loses a wakeup.
CONSTANTS
    g1 = g1  g2 = g2  p1 = p1  p2 = p2  d1 = d1  d2 = d2
    NoData = NoData  NoTask = NoTask
    Tasks = {g1, g2, p1}
    Getters = {g1, g2}
    Putters = {p1}
    Data = {d1}
    MaxElements = 2
    MinCounts = {1}
    Timeouts = {"FOREVER"}
    CanUnBlock = FALSE
    Flags = {"get"}
SPECIFICATION FairSpec
INVARIANTS NoLostWakeup
