\* Two senders, three messages, one acknowledgement queue, one place in the receive queue;
\* the link waits for a command or flushes in a handler; the task is deleted.
CONSTANTS
    b1 = b1  s1 = s1  s2 = s2  m1 = m1  m2 = m2  m3 = m3
    c1 = c1  exit = exit  NoMsg = NoMsg
    Boxes = {b1}
    Senders = {s1, s2}
    Msgs = {m1, m2, m3}
    Cmds = {c1}
    ExitCmd = exit
    WaitCmds = {c1}
    FlushCmds = {c1}
    AckQues = {1}
    AckQueLen = 1
    RecvQueLen = 1
    CanDelete = TRUE
SPECIFICATION FairSpec
INVARIANTS OnePlace OwnAck AckHasRoom
PROPERTIES SendReturns
CHECK_DEADLOCK FALSE
