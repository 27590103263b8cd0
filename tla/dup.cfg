\* The system stops when the NEW_DATA of all frames are lost.
\* No delayed output, or one that a command asks for at any time.
CONSTANTS
    f1 = f1  f2 = f2  f3 = f3
    Frames = {f1, f2}
    MaxOutQue = 3
    Containers = 4
    Configs <- MCConfigs
SPECIFICATION FairSpec
INVARIANTS ReturnedLast FrameKept DelayedWaits ContainersKept
PROPERTIES FramesComeBack
CHECK_DEADLOCK FALSE
