\* The codec of a channel is switched while another one is encoded.
CONSTANTS
    f1 = f1  f2 = f2  f3 = f3  h264 = h264  jpeg = jpeg
    NumCh = 2
    Frames = {f1, f2, f3}
    ChannelOf <- MCChannelOf
    NumReq = 3
    Formats = {h264, jpeg}
    Configs <- BatchSwitches
    NumBufs = 2
    BufSize = 2
    FrameSizes = {1, 2}
    MaxStream = 1
    MaxSwitches = 1
SPECIFICATION Spec
INVARIANTS NoAssertion
CHECK_DEADLOCK FALSE
