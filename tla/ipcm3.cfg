\* With or without notify; the links are stopped, deleted and created again while frames
\* are under way.
CONSTANTS
    f1 = f1  f2 = f2  e1 = e1  e2 = e2
    NoFrame = NoFrame  NoElem = NoElem
    Frames = {f1, f2}
    Elems = {e1, e2}
    CreateArgs <- MCCreateArgs
    SkipsFrames = TRUE
    Restarts = TRUE
SPECIFICATION FairSpec
INVARIANTS ElemOnce FrameOnce NotifiedAlive
PROPERTIES FramesComeBack
CHECK_DEADLOCK FALSE
