\* The system stops when the NEW_DATA of all frames are lost.
\* The link's task preempts a consumer that outputs a delayed frame.
CONSTANTS
    f1 = f1  f2 = f2  f3 = f3
    Frames = {f1, f2}
    MaxOutQue = 3
    Containers = 3
    Configs <- Preempted
SPECIFICATION Spec
INVARIANTS FrameKept
CHECK_DEADLOCK FALSE
