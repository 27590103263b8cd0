------------------------------ MODULE UtilsMbx ------------------------------
(***************************************************************************)
(* Mailboxes and the tasks behind them (utils_mbx.c, utils_tsk.c) on one   *)
(* BIOS6 core.  Every link is a task whose main loop receives messages     *)
(* from its mailbox.  Whoever sends with an acknowledgement names the one  *)
(* mailbox gSystem_objCommon.mbx as the sender (system_linkApi_local.c),   *)
(* so its few acknowledgement queues are shared by all senders.            *)
(*                                                                         *)
(* The queues are the bounded FIFOs of UtilsQue.  One task gets from a     *)
(* receive queue, and one sender from an acknowledgement queue, so a get   *)
(* that waits forever is there a step enabled when the queue is not empty. *)
(* But several senders wait for the pool's one semaphore and for the one   *)
(* of a receive queue, and UtilsQue shows that such a wait can miss its    *)
(* post: here the check, the wait and the post are steps of their own.     *)
(* The free messages are a set, since nothing depends on their order.      *)
(***************************************************************************)
EXTENDS Integers, Sequences, FiniteSets

CONSTANTS
    Boxes,          \* link tasks, each with its mailbox
    Senders,        \* tasks and interrupt handlers that send
    Msgs,           \* gUtils_mbxMsgPool
    NoMsg,
    Cmds,           \* commands that are sent
    ExitCmd,        \* UTILS_TSK_CMD_EXIT
    WaitCmds,       \* commands a link waits for in the middle of a handler
    FlushCmds,      \* commands a link flushes in the middle of a handler
    AckQues,        \* indices of the acknowledgement queues
    AckQueLen,      \* UTILS_MBX_ACK_QUE_LEN_MAX
    RecvQueLen,     \* UTILS_MBX_RECV_QUE_LEN_MAX
    CanDelete       \* whether tasks are deleted

ASSUME MbxAssumption ==
    /\ Boxes # {}
    /\ AckQues \subseteq Nat /\ 0 \notin AckQues
    /\ AckQueLen \in Nat \ {0} /\ RecvQueLen \in Nat \ {0}
    /\ NoMsg \notin Msgs
    /\ ExitCmd \notin Cmds /\ WaitCmds \subseteq Cmds /\ FlushCmds \subseteq Cmds
    /\ CanDelete \in BOOLEAN

NoAckQue == 0       \* ackQue = NULL: the message has no sender mailbox

VARIABLES
    pool,           \* the free messages
    msg,            \* fields of each message
    recvQue,        \* each mailbox's receive queue
    ackQue, ackQueInUse,
    pc, req, sent, claimed,         \* each sender: place, arguments, locals
    loop, held, awaited,            \* each link task: place, message in hand, WaitCmd's command
    sleep,          \* each sender: awake, about to pend on a semaphore, or asleep in it
    token           \* the binary semaphores that have been posted and not taken

senders == <<pc, req, sent, claimed>>
tasks == <<loop, held, awaited>>
waits == <<sleep, token>>
vars == <<pool, msg, recvQue, ackQue, ackQueInUse, senders, tasks, waits>>

Requests == [to : Boxes, cmd : Cmds \cup {ExitCmd}, from : BOOLEAN, wait : BOOLEAN]
Fields == [cmd : Cmds \cup {ExitCmd}, wait : BOOLEAN, ackQue : AckQues \cup {NoAckQue}]

(* What a free message holds, and a sender that is not in a call, means     *)
(* nothing: it is reset so that it makes no difference.                     *)
Blank == [cmd |-> ExitCmd, wait |-> FALSE, ackQue |-> NoAckQue]
NoRequest == [to |-> CHOOSE b \in Boxes : TRUE, cmd |-> ExitCmd, from |-> FALSE, wait |-> FALSE]

Free(m) == pool' = pool \cup {m} /\ msg' = [msg EXCEPT ![m] = Blank]

(* The semaphores that several senders wait for: semRd of the queue of free *)
(* messages and semWr of each receive queue.  A post releases one of the    *)
(* senders asleep in it, or leaves the token, which is there already if     *)
(* nobody has taken the last one.  The post follows the put or get that it  *)
(* is for without a wait, and is one step with it: a post that comes late   *)
(* finds the senders as one that comes before their next step.              *)
PoolSem == "pool"

Asleep(q) ==
    {s \in Senders : sleep[s] = "asleep" /\ q = (IF pc[s] = "alloc" THEN PoolSem ELSE req[s].to)}

PostedNever(Q) == {}                \* mutant: a put or get posts nobody
Posted(Q) == Q

Post(Q) ==
    /\ token' = token \cup {q \in Posted(Q) : Asleep(q) = {}}
    /\ \E W \in SUBSET UNION {Asleep(q) : q \in Posted(Q)} :
         /\ \A q \in Posted(Q) : Asleep(q) # {} => \E s \in W : Asleep(q) \cap W = {s}
         /\ sleep' = [s \in Senders |-> IF s \in W THEN "awake" ELSE sleep[s]]

Goto(s, place) == pc' = [pc EXCEPT ![s] = place]

Return(s) ==
    /\ Goto(s, "idle")
    /\ req' = [req EXCEPT ![s] = NoRequest]
    /\ sent' = [sent EXCEPT ![s] = NoMsg]
    /\ claimed' = [claimed EXCEPT ![s] = NoAckQue]

-----------------------------------------------------------------------------
(***************************************************************************)
(* Utils_mbxSendMsg.                                                       *)
(***************************************************************************)
SendMsg(s, r) ==
    /\ pc[s] = "idle"
    /\ r.wait => r.from        \* otherwise the call returns -1 at once
    /\ req' = [req EXCEPT ![s] = r]
    /\ Goto(s, IF r.from THEN "claim" ELSE "alloc")
    /\ UNCHANGED <<pool, msg, recvQue, ackQue, ackQueInUse, sent, claimed, tasks, waits>>

FreeAckQues == {i \in AckQues : ~ackQueInUse[i]}

(* Inside Hwi_disable: the lowest free acknowledgement queue, or failure.   *)
MarkedNever(i) == ackQueInUse       \* mutant: the queue is not marked in use
Marked(i) == [ackQueInUse EXCEPT ![i] = TRUE]

ClaimAckQue(s) ==
    /\ pc[s] = "claim"
    /\ IF FreeAckQues = {}
       THEN Return(s) /\ UNCHANGED ackQueInUse
       ELSE \E i \in FreeAckQues :
              /\ \A j \in FreeAckQues : i <= j
              /\ claimed' = [claimed EXCEPT ![s] = i]
              /\ ackQueInUse' = Marked(i)
              /\ Goto(s, "alloc") /\ UNCHANGED <<req, sent>>
    /\ UNCHANGED <<pool, msg, recvQue, ackQue, tasks, waits>>

(* Utils_mbxAllocMsg, and the fields of the new message.                    *)
Alloc(s, c, wait, i) ==
    \E m \in pool :
        /\ pool' = pool \ {m}
        /\ sent' = [sent EXCEPT ![s] = m]
        /\ msg' = [msg EXCEPT ![m] = [cmd |-> c, wait |-> wait, ackQue |-> i]]

AllocMsg(s) ==
    /\ pc[s] = "alloc" /\ sleep[s] = "awake"
    /\ Alloc(s, req[s].cmd, req[s].wait, claimed[s])
    /\ Goto(s, "put")
    /\ UNCHANGED <<recvQue, ackQue, ackQueInUse, req, claimed, tasks, waits>>

HasRoom(b) == Len(recvQue[b]) < RecvQueLen

PutMsg(s) ==
    /\ pc[s] = "put" /\ sleep[s] = "awake" /\ HasRoom(req[s].to)
    /\ recvQue' = [recvQue EXCEPT ![req[s].to] = Append(@, sent[s])]
    /\ \/ req[s].from /\ Goto(s, IF req[s].wait THEN "ack" ELSE "release")
          /\ UNCHANGED <<req, sent, claimed>>
       \/ ~req[s].from /\ Return(s)
    /\ UNCHANGED <<pool, msg, ackQue, ackQueInUse, tasks, waits>>

(* The loop of Utils_queGet and Utils_quePut: a sender that finds no free   *)
(* message or no room goes on to the semaphore, with interrupts enabled     *)
(* again; it takes the token and checks once more, or sleeps.               *)
NotReady(s) ==
    /\ sleep[s] = "awake"
    /\ \/ pc[s] = "alloc" /\ pool = {}
       \/ pc[s] = "put" /\ ~HasRoom(req[s].to)
    /\ sleep' = [sleep EXCEPT ![s] = "pend"]
    /\ UNCHANGED <<pool, msg, recvQue, ackQue, ackQueInUse, senders, tasks, token>>

Pend(s) ==
    /\ sleep[s] = "pend"
    /\ LET q == IF pc[s] = "alloc" THEN PoolSem ELSE req[s].to IN
       /\ sleep' = [sleep EXCEPT ![s] = IF q \in token THEN "awake" ELSE "asleep"]
       /\ token' = token \ {q}
    /\ UNCHANGED <<pool, msg, recvQue, ackQue, ackQueInUse, senders, tasks>>

(* One turn of the loop that waits for the acknowledgement: any message     *)
(* received is freed, and the wait is over when it is the one that was sent.*)
TakeAck(s) ==
    /\ pc[s] = "ack" /\ ackQue[claimed[s]] # << >>
    /\ LET m == Head(ackQue[claimed[s]]) IN
       Free(m) /\ Goto(s, IF m = sent[s] THEN "release" ELSE "ack")
    /\ Post({PoolSem})
    /\ ackQue' = [ackQue EXCEPT ![claimed[s]] = Tail(@)]
    /\ UNCHANGED <<recvQue, ackQueInUse, req, sent, claimed, tasks>>

ReleaseAckQue(s) ==
    /\ pc[s] = "release"
    /\ ackQueInUse' = [ackQueInUse EXCEPT ![claimed[s]] = FALSE]
    /\ Return(s)
    /\ UNCHANGED <<pool, msg, recvQue, ackQue, tasks, waits>>

(***************************************************************************)
(* Utils_mbxSendCmd: nothing in it waits, and an empty pool or a full      *)
(* receive queue makes it fail.                                            *)
(***************************************************************************)
SendCmd(s, b, c) ==
    /\ pc[s] = "idle" /\ pool # {}
    /\ req' = [req EXCEPT ![s] = [to |-> b, cmd |-> c, from |-> FALSE, wait |-> FALSE]]
    /\ Alloc(s, c, FALSE, NoAckQue)
    /\ Goto(s, "putCmd")
    /\ UNCHANGED <<recvQue, ackQue, ackQueInUse, claimed, tasks, waits>>

(* The message goes back to the pool when it cannot be put.                 *)
RefusedKept(m) == UNCHANGED <<pool, msg>>       \* mutant: it is not freed
Refused(m) == Free(m)

PutCmd(s) ==
    /\ pc[s] = "putCmd"
    /\ \/ /\ HasRoom(req[s].to)
          /\ recvQue' = [recvQue EXCEPT ![req[s].to] = Append(@, sent[s])]
          /\ UNCHANGED <<pool, msg, waits>>
       \/ /\ ~HasRoom(req[s].to)
          /\ Refused(sent[s]) /\ Post({PoolSem})
          /\ UNCHANGED recvQue
    /\ Return(s)
    /\ UNCHANGED <<ackQue, ackQueInUse, tasks>>

-----------------------------------------------------------------------------
(***************************************************************************)
(* Utils_mbxAckOrFreeMsg(m, result): back to the sender that waits for it, *)
(* or to the pool.  (The result travels with the message and is not told   *)
(* apart: OwnAck says that it reaches its own sender.)                     *)
(***************************************************************************)
GoesBackNever(m) == FALSE           \* mutant: the flag is ignored
GoesBack(m) == msg[m].wait /\ msg[m].ackQue # NoAckQue

AckOrFree(m) ==
    IF GoesBack(m)
    THEN /\ Len(ackQue[msg[m].ackQue]) < AckQueLen
         /\ ackQue' = [ackQue EXCEPT ![msg[m].ackQue] = Append(@, m)]
         /\ UNCHANGED <<pool, msg>>
    ELSE Free(m) /\ UNCHANGED ackQue

Freed(m) == IF GoesBack(m) THEN {} ELSE {PoolSem}

Dequeue(b) == recvQue' = [recvQue EXCEPT ![b] = Tail(@)]

(* Utils_tskMain: the next message is a command for the link, or the end.   *)
Receive(b) ==
    /\ loop[b] = "recv" /\ recvQue[b] # << >>
    /\ Dequeue(b) /\ Post({b})
    /\ held' = [held EXCEPT ![b] = Head(recvQue[b])]
    /\ loop' = [loop EXCEPT ![b] =
                  IF msg[Head(recvQue[b])].cmd = ExitCmd THEN "exit" ELSE "handle"]
    /\ UNCHANGED <<pool, msg, ackQue, ackQueInUse, senders, awaited>>

(* The link's handler ends, or the task's main function returns.            *)
Finish(b) ==
    /\ loop[b] \in {"handle", "exit"}
    /\ AckOrFree(held[b]) /\ Post(Freed(held[b]))
    /\ held' = [held EXCEPT ![b] = NoMsg]
    /\ loop' = [loop EXCEPT ![b] = IF loop[b] = "exit" THEN "exited" ELSE "recv"]
    /\ UNCHANGED <<recvQue, ackQueInUse, senders, awaited>>

(* Utils_tskFlushMsg inside a handler: messages at the front of the queue   *)
(* whose command is to be flushed are settled one after the other.          *)
Flush(b) ==
    /\ loop[b] = "handle" /\ recvQue[b] # << >>
    /\ LET m == Head(recvQue[b]) IN
       msg[m].cmd \in FlushCmds /\ AckOrFree(m) /\ Post({b} \cup Freed(m))
    /\ Dequeue(b)
    /\ UNCHANGED <<ackQueInUse, senders, tasks>>

(* Utils_mbxWaitCmd inside a handler: every message is settled, until the   *)
(* awaited command has come.                                                *)
WaitCmd(b, c) ==
    /\ loop[b] = "handle"
    /\ loop' = [loop EXCEPT ![b] = "wait"]
    /\ awaited' = [awaited EXCEPT ![b] = c]
    /\ UNCHANGED <<pool, msg, recvQue, ackQue, ackQueInUse, senders, held, waits>>

WaitRecv(b) ==
    /\ loop[b] = "wait" /\ recvQue[b] # << >>
    /\ LET m == Head(recvQue[b]) IN
       /\ AckOrFree(m) /\ Post({b} \cup Freed(m))
       /\ IF msg[m].cmd = awaited[b]
          THEN /\ loop' = [loop EXCEPT ![b] = "handle"]
               /\ awaited' = [awaited EXCEPT ![b] = ExitCmd]
          ELSE UNCHANGED <<loop, awaited>>
    /\ Dequeue(b)
    /\ UNCHANGED <<ackQueInUse, senders, held>>

(* Utils_tskDelete once the task has ended (its EXIT command is a SendCmd): *)
(* the mailbox goes, with whatever it still holds.                          *)
DeleteTask(b) ==
    /\ CanDelete /\ loop[b] = "exited"
    /\ loop' = [loop EXCEPT ![b] = "deleted"]
    /\ UNCHANGED <<pool, msg, recvQue, ackQue, ackQueInUse, senders, held, awaited, waits>>

-----------------------------------------------------------------------------
Init ==
    /\ pool = Msgs
    /\ msg = [m \in Msgs |-> Blank]
    /\ recvQue = [b \in Boxes |-> << >>]
    /\ ackQue = [i \in AckQues |-> << >>]
    /\ ackQueInUse = [i \in AckQues |-> FALSE]
    /\ pc = [s \in Senders |-> "idle"]
    /\ req = [s \in Senders |-> NoRequest]
    /\ sent = [s \in Senders |-> NoMsg]
    /\ claimed = [s \in Senders |-> NoAckQue]
    /\ loop = [b \in Boxes |-> "recv"]
    /\ held = [b \in Boxes |-> NoMsg]
    /\ awaited = [b \in Boxes |-> ExitCmd]
    /\ sleep = [s \in Senders |-> "awake"]
    /\ token = {PoolSem}       \* posted when the pool was filled

(* What a sender does once it has called, and what a link task does.        *)
SenderStep(s) ==
    \/ ClaimAckQue(s) \/ AllocMsg(s) \/ PutMsg(s) \/ NotReady(s) \/ Pend(s)
    \/ TakeAck(s) \/ ReleaseAckQue(s) \/ PutCmd(s)

TaskStep(b) ==
    Receive(b) \/ Finish(b) \/ WaitRecv(b)

(* A box is sent to while its mailbox exists.                               *)
Alive == {b \in Boxes : loop[b] # "deleted"}

(* Somebody calls.                                                          *)
Call(s) ==
    \/ \E r \in {q \in Requests : q.to \in Alive /\ q.cmd \in Cmds} : SendMsg(s, r)
    \/ \E b \in Alive, c \in Cmds \cup (IF CanDelete THEN {ExitCmd} ELSE {}) : SendCmd(s, b, c)

Next ==
    \/ \E s \in Senders : Call(s) \/ SenderStep(s)
    \/ \E b \in Boxes :
         \/ TaskStep(b) \/ Flush(b) \/ DeleteTask(b)
         \/ \E c \in WaitCmds : WaitCmd(b, c)

Spec == Init /\ [][Next]_vars

(* Tasks that can run do run, in every step of a call and of the main loop  *)
(* (a wait ends once its command is there, and a handler waits and flushes  *)
(* a few times, not for ever).  Nothing makes a semaphore or a queue serve  *)
(* the senders in turn: one that has been released may find the message     *)
(* taken, and sleep again.                                                  *)
FairSpec ==
    /\ Spec
    /\ \A s \in Senders : WF_vars(SenderStep(s))
    /\ \A b \in Boxes : WF_vars(TaskStep(b)) /\ SF_vars(Finish(b))

-----------------------------------------------------------------------------
TypeOK ==
    /\ pool \subseteq Msgs
    /\ msg \in [Msgs -> Fields]
    /\ recvQue \in [Boxes -> Seq(Msgs)] /\ \A b \in Boxes : Len(recvQue[b]) <= RecvQueLen
    /\ ackQue \in [AckQues -> Seq(Msgs)] /\ \A i \in AckQues : Len(ackQue[i]) <= AckQueLen
    /\ ackQueInUse \in [AckQues -> BOOLEAN]
    /\ pc \in [Senders -> {"idle", "claim", "alloc", "put", "ack", "release", "putCmd"}]
    /\ req \in [Senders -> Requests]
    /\ sent \in [Senders -> Msgs \cup {NoMsg}]
    /\ claimed \in [Senders -> AckQues \cup {NoAckQue}]
    /\ loop \in [Boxes -> {"recv", "handle", "wait", "exit", "exited", "deleted"}]
    /\ held \in [Boxes -> Msgs \cup {NoMsg}]
    /\ awaited \in [Boxes -> Cmds \cup {ExitCmd}]

(* Nobody sleeps but in Utils_mbxAllocMsg or in the put that follows it.    *)
WaitsOK ==
    /\ sleep \in [Senders -> {"awake", "pend", "asleep"}]
    /\ token \subseteq Boxes \cup {PoolSem}
    /\ \A s \in Senders : sleep[s] # "awake" => pc[s] \in {"alloc", "put"}

(* Every message is in exactly one place: free, in one queue once, in a     *)
(* sender's hands before it is put, or in a task's hands.  So none is lost  *)
(* on an error path and none is freed by both the sender and the receiver.  *)
Places(m) ==
    {<<"pool", 0, 0>> : x \in pool \cap {m}}
    \cup {p \in {"recv"} \X Boxes \X (1 .. RecvQueLen) :
            p[3] <= Len(recvQue[p[2]]) /\ recvQue[p[2]][p[3]] = m}
    \cup {p \in {"ack"} \X AckQues \X (1 .. AckQueLen) :
            p[3] <= Len(ackQue[p[2]]) /\ ackQue[p[2]][p[3]] = m}
    \cup {<<"held", b, 0>> : b \in {x \in Boxes : held[x] = m}}
    \cup {<<"sent", s, 0>> : s \in {x \in Senders : pc[x] \in {"put", "putCmd"} /\ sent[x] = m}}

OnePlace == TypeOK /\ WaitsOK /\ \A m \in Msgs : Cardinality(Places(m)) = 1

(* An acknowledgement queue in use belongs to one sender, and holds nothing *)
(* but the acknowledgement of the message that sender waits for.  So nobody *)
(* gets another sender's result, although all share one sender mailbox.     *)
Claims(i) == {s \in Senders : pc[s] \notin {"idle", "claim"} /\ claimed[s] = i}

OwnAck ==
    \A i \in AckQues :
        /\ Cardinality(Claims(i)) = IF ackQueInUse[i] THEN 1 ELSE 0
        /\ ackQue[i] # << >> =>
              \E s \in Claims(i) : pc[s] = "ack" /\ ackQue[i] = <<sent[s]>>

(* A link never blocks in the middle of acknowledging: whatever message it  *)
(* has, or finds in its mailbox, the queue its acknowledgement goes to has  *)
(* room.                                                                    *)
Unsettled(b) == ({held[b]} \cup {recvQue[b][k] : k \in DOMAIN recvQue[b]}) \ {NoMsg}

AckHasRoom ==
    \A b \in Boxes : \A m \in Unsettled(b) :
        GoesBack(m) => Len(ackQue[msg[m].ackQue]) < AckQueLen

(* A call of Utils_mbxSendMsg is eventually over, whatever posts were lost  *)
(* on the way, if the others do not call again and again: each message that *)
(* is freed or taken out of a queue posts once more, so that a sender that  *)
(* missed a post is released by a later one, which those bring about whose  *)
(* post it missed.  (Callers that keep coming may starve one.)  The call    *)
(* also hangs if the task it sends to ends - Utils_tskMain leaves its loop  *)
(* without settling the messages that are still queued - or if a link waits *)
(* for a command which nobody sends.                                        *)
Ends(b) == loop[b] \in {"exit", "exited", "deleted"}

SendReturns ==
    (\A b \in Boxes : []<>(loop[b] # "wait")) =>
        \A s \in Senders :
            <>[][\A t \in Senders \ {s} : ~Call(t)]_vars =>
                (pc[s] # "idle" ~> pc[s] = "idle" \/ Ends(req[s].to))
=============================================================================
