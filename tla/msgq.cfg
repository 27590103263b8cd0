\* Two host threads, a camera task and nested calls on two messages; a reliable system, or one in
\* which calls time out and messages are refused: a caller whose answer is refused holds its
\* lock, and the system may stop.
CONSTANTS
    h1 = h1  h2 = h2  camera = camera  vpss = vpss  video = video
    m1 = m1  m2 = m2  m3 = m3
    create = create  control = control  tiler = tiler  event = event
    Host = host  NoMsg = NoMsg  Nobody = Nobody
    Cores = {host, vpss, video}
    Callers = {h1, h2, camera}
    Home <- MCHome
    Msgs = {m1, m2}
    Keys = {create, control, tiler, event}
    Nested <- MCNested
    Configs <- MCConfigs
SPECIFICATION FairSpec
INVARIANTS MsgOnce OwnAnswer
PROPERTIES CallsReturn
CHECK_DEADLOCK FALSE
