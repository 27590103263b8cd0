\* A call after one that timed out.
CONSTANTS
    h1 = h1  h2 = h2  camera = camera  vpss = vpss  video = video
    m1 = m1  m2 = m2  m3 = m3
    create = create  control = control  tiler = tiler  event = event
    Host = host  NoMsg = NoMsg  Nobody = Nobody
    Cores = {host, vpss, video}
    Callers = {h1}
    Home <- OneHome
    Msgs = {m1, m2, m3}
    Keys = {create, control, tiler, event}
    Nested <- NoNested
    Configs <- OneConfig
SPECIFICATION FairSpec
PROPERTIES AnsweredReturns
CHECK_DEADLOCK FALSE
