\* Three sources, one merge behind another, two tasks that give lists back.
CONSTANTS
    capture = capture  scaler = scaler  file = file  inner = inner  outer = outer
    f1 = f1  f2 = f2  f3 = f3  t1 = t1  t2 = t2
    NoTask = NoTask  Sink = sink
    Sources = {capture, scaler, file}
    Merges = {inner, outer}
    Root = outer
    InQue <- MCInQue
    Channels <- MCChannels
    Frames = {f1, f2, f3}
    SourceOf <- MCSourceOf
    ChannelOf <- MCChannelOf
    Tasks = {t1, t2}
    MaxList = 2
SPECIFICATION Spec
INVARIANTS BackHome FrameOnce
SYMMETRY Symmetry
