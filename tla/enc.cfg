\* Batches, two codecs with a switch, and interlaced channels; stop and delete at any time.
CONSTANTS
    f1 = f1  f2 = f2  f3 = f3  h264 = h264  jpeg = jpeg
    NumCh = 2
    Frames = {f1, f2, f3}
    ChannelOf <- MCChannelOf
    NumReq = 3
    Formats = {h264, jpeg}
    Configs <- MCConfigs
    NumBufs = 2
    BufSize = 2
    FrameSizes = {1, 2}
    MaxStream = 1
    MaxSwitches = 1
SPECIFICATION FairSpec
INVARIANTS NoAssertion BufsKept StreamsKept RoomForStream SwitchPending DeletedIdle
PROPERTIES FramesComeBack SwitchAnswered StopEnds
CHECK_DEADLOCK FALSE
