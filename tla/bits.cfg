\* With notify, as in multich_encode_decode.c, or polling, as in the other use cases; everything
\* is stopped, deleted and created again while streams are under way.
CONSTANTS
    b1 = b1  b2 = b2  e1 = e1  e2 = e2
    NoBuf = NoBuf
    Bufs = {b1, b2}
    Elems = {e1, e2}
    Configs <- MCConfigs
    MaxPending = 2
    MaxSem = 1
SPECIFICATION FairSpec
INVARIANTS ElemPlaced BufOnce ElemAvailable PollsCounted
PROPERTIES StreamsInOrder BufsComeBack AppStops
CHECK_DEADLOCK FALSE
