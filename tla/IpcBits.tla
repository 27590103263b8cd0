------------------------------ MODULE IpcBits ------------------------------
(***************************************************************************)
(* Encoded streams on their way to Linux: the link ipcBitsOut on the video *)
(* core (links_common/ipcBitsOut/ipcBitsOutLink_tsk.c), ipcBitsIn on the   *)
(* host (src_linux/links/ipcBitsIn/ipcBitsInLink_tsk.c) and the thread of  *)
(* the application that takes the streams (ti_mcfw_ipcbits.c).             *)
(* A buffer of the encoder travels in a list element, through the shared   *)
(* list listMPOut; the host hands the element itself to the application,   *)
(* and the element comes back through listMPIn.  Each element says in      *)
(* bufState where it is and whose; both sides assert that.                 *)
(*                                                                         *)
(* Either side is told with a notify, or, in noNotifyMode, polls: Out with *)
(* a timer, In with a thread that sends NEW_DATA to In's task.  That       *)
(* thread and the task have one FIFO priority on a host of one core: it    *)
(* is not preempted by the task between sending and counting.  A command   *)
(* for Out is lost when its mailbox is full; the host's mailbox waits.     *)
(*                                                                         *)
(* To stop, the main thread stops the application's thread, then the       *)
(* links, and deletes Out, In and the encoder (App_stopDemo).              *)
(***************************************************************************)
EXTENDS Integers, Sequences, FiniteSets, SequencesExt

CONSTANTS
    Bufs, NoBuf,            \* the encoder's output buffers
    Elems,                  \* Out's list elements
    Configs,                \* how the pair may be configured, see ConfigType
    MaxPending,             \* IPC_BITS_IN_MAX_PENDING_NEWDATA_CMDS
    MaxSem                  \* MCFW_IPCBITS_MAX_PENDING_RECV_SEM_COUNT

(* noNotifyMode of both links; the buffers the encoder has; a bound on the  *)
(* commands for Out that are lost; whether everything is stopped, deleted   *)
(* and created again.                                                       *)
ConfigType == [noNotifyMode : BOOLEAN, bufs : SUBSET Bufs, maxDrops : Nat, restarts : BOOLEAN]

(* There are more elements (1000) than buffers in any use case.             *)
ASSUME BitsAssumption ==
    /\ NoBuf \notin Bufs /\ IsFiniteSet(Bufs) /\ IsFiniteSet(Elems)
    /\ Cardinality(Elems) >= Cardinality(Bufs)
    /\ Configs \subseteq ConfigType
    /\ {MaxPending, MaxSem} \subseteq Nat \ {0}

VARIABLES
    config, stage,          \* the main thread's progress
    free, inQue,            \* the encoder's queues of free and of full buffers
    elemQue, elem,          \* listElemQue of Out; all elements
    listOut, listIn,        \* listMPOut and listMPIn, in shared memory
    out, todo, freeList,    \* Out's task: place, bufList, freeBitBufList
    cmdOut, clk, clkStarted,        \* commands in its mailbox, its timer
    in, numBufs, outQue,    \* In's task: place, whether it took any, outBitBufQue
    cmdIn, numPendingCmd,   \* its mailbox; NEW_DATA sent by the polling thread
    app, sem, held,         \* the application's thread, its semaphore, the list it took
    eventOut, eventIn,      \* notify events raised and not yet taken
    drops

life == <<config, stage>>
encoder == <<free, inQue>>
elements == <<elemQue, elem>>
lists == <<listOut, listIn>>
outTask == <<out, todo, freeList>>
clock == <<clk, clkStarted>>
inTask == <<in, numBufs, outQue>>
mailIn == <<cmdIn, numPendingCmd>>
application == <<app, sem, held>>
events == <<eventOut, eventIn>>
vars == <<life, encoder, elements, lists, outTask, cmdOut, clock, inTask, mailIn,
          application, events, drops>>

OutUp == stage \in {"run", "exit", "stopped", "outOnly", "creating"}

noNotifyMode == config.noNotifyMode

FreeElem == [bufState |-> "FREE", owner |-> "Out", buf |-> NoBuf]

Init ==
    /\ config \in Configs /\ stage = "run"
    /\ free = SetToSeq(config.bufs) /\ inQue = << >>
    /\ elemQue = SetToSeq(Elems) /\ elem = [e \in Elems |-> FreeElem]
    /\ listOut = << >> /\ listIn = << >>
    /\ out = "idle" /\ todo = << >> /\ freeList = << >>
    /\ cmdOut = {} /\ clk = "off" /\ clkStarted = FALSE
    /\ in = "idle" /\ numBufs = FALSE /\ outQue = << >>
    /\ cmdIn = << >> /\ numPendingCmd = 0
    /\ app = "wait" /\ sem = 0 /\ held = << >>
    /\ eventOut = FALSE /\ eventIn = FALSE /\ drops = 0

----------------------------------------------------------------------------
(* The video core.                                                          *)

(* A command for Out: sent, or lost; nobody looks which.                    *)
SendOut(cmd) ==
    \/ cmdOut' = cmdOut \cup {cmd} /\ UNCHANGED drops
    \/ drops < config.maxDrops /\ drops' = drops + 1 /\ UNCHANGED cmdOut

(* The encoder works until it is stopped, which is after the application.   *)
Finish ==
    /\ stage \in {"run", "exit"} /\ free # << >>
    /\ free' = Tail(free) /\ inQue' = Append(inQue, Head(free))
    /\ SendOut("newData")
    /\ UNCHANGED <<life, elements, lists, outTask, clock, inTask, mailIn, application, events>>

OutReceive(cmd) ==
    /\ OutUp /\ out = "idle" /\ cmd \in cmdOut
    /\ cmdOut' = cmdOut \ {cmd}
    /\ IF cmd = "newData" /\ inQue # << >>
       THEN out' = "process" /\ todo' = inQue /\ inQue' = << >>
       ELSE out' = "release" /\ UNCHANGED <<todo, inQue>>
    /\ UNCHANGED <<life, free, elements, lists, freeList, clock, inTask, mailIn, application, events, drops>>

PutHead(s, e) == <<e>> \o s                               \* mutant: ListMP_putHead
PutTail(s, e) == Append(s, e)

(* The next buffer leaves in an element; if there is none, the task waits.  *)
OutSend ==
    /\ out = "process" /\ todo # << >> /\ elemQue # << >>
    /\ todo' = Tail(todo) /\ elemQue' = Tail(elemQue)
    /\ elem' = [elem EXCEPT ![Head(elemQue)].bufState = "OUTQUE", ![Head(elemQue)].buf = Head(todo)]
    /\ listOut' = PutTail(listOut, Head(elemQue))
    /\ UNCHANGED <<life, encoder, listIn, out, freeList, cmdOut, clock, inTask, mailIn,
                   application, events, drops>>

(* Then In is notified, when it has taken the last notify (waitClear), or   *)
(* the periodic timer started.                                              *)
OutProcessEnd ==
    /\ out = "process" /\ todo = << >>
    /\ out' = "release"
    /\ IF noNotifyMode
       THEN /\ clk' = (IF clkStarted THEN clk ELSE "periodic") /\ clkStarted' = TRUE
            /\ UNCHANGED eventIn
       ELSE ~eventIn /\ eventIn' = TRUE /\ UNCHANGED clock
    /\ UNCHANGED <<life, encoder, elements, lists, todo, freeList, cmdOut, inTask, mailIn,
                   application, eventOut, drops>>

(* Mutants: the element is not put back; its entry in the map is kept.      *)
ForgetElem(e) == elem' = [elem EXCEPT ![e] = FreeElem] /\ UNCHANGED elemQue
KeepBuf(e) ==
    /\ elem' = [elem EXCEPT ![e].bufState = "FREE", ![e].owner = "Out"]
    /\ elemQue' = Append(elemQue, e)
FreeTheElem(e) == elem' = [elem EXCEPT ![e] = FreeElem] /\ elemQue' = Append(elemQue, e)

OutRelease ==
    /\ out = "release" /\ listIn # << >>
    /\ listIn' = Tail(listIn)
    /\ freeList' = Append(freeList, elem[Head(listIn)].buf)
    /\ FreeTheElem(Head(listIn))
    /\ UNCHANGED <<life, encoder, listOut, out, todo, cmdOut, clock, inTask, mailIn,
                   application, events, drops>>

OutReleaseEnd ==
    /\ out = "release" /\ listIn = << >>
    /\ out' = "idle" /\ free' = free \o freeList /\ freeList' = << >>
    /\ UNCHANGED <<life, inQue, elements, lists, todo, cmdOut, clock, inTask, mailIn,
                   application, events, drops>>

NotWound == clk                                           \* mutant: no second try
Wound == "once"                                           \* reconfigPrdObj

OutNotified ==
    /\ eventOut /\ eventOut' = FALSE
    /\ clk' = Wound /\ SendOut("release")
    /\ UNCHANGED <<life, encoder, elements, lists, outTask, clkStarted, inTask, mailIn,
                   application, eventIn>>

OutTimer ==
    /\ clk # "off"
    /\ clk' = (IF clk = "once" THEN "off" ELSE clk)
    /\ SendOut("release")
    /\ UNCHANGED <<life, encoder, elements, lists, outTask, clkStarted, inTask, mailIn,
                   application, events>>

----------------------------------------------------------------------------
(* The host: In's task, whose mailbox is served also when the link is not   *)
(* created, and what sends NEW_DATA to it.                                  *)

(* A NEW_DATA behind another one finds nothing left and is not kept.        *)
InNotified ==
    /\ eventIn /\ eventIn' = FALSE
    /\ cmdIn' = IF cmdIn # << >> /\ Last(cmdIn) = "newData" THEN cmdIn ELSE Append(cmdIn, "newData")
    /\ UNCHANGED <<life, encoder, elements, lists, outTask, cmdOut, clock, inTask, numPendingCmd,
                   application, eventOut, drops>>

AlwaysPolling == noNotifyMode                             \* mutant: the thread outlives the link
Polling == noNotifyMode /\ in # "none"

PeriodicTask ==
    /\ Polling /\ numPendingCmd < MaxPending
    /\ cmdIn' = Append(cmdIn, "newData") /\ numPendingCmd' = numPendingCmd + 1
    /\ UNCHANGED <<life, encoder, elements, lists, outTask, cmdOut, clock, inTask,
                   application, events, drops>>

InReceiveNewData ==
    /\ in \in {"idle", "none"} /\ cmdIn # << >> /\ Head(cmdIn) = "newData"
    /\ cmdIn' = Tail(cmdIn)
    /\ IF in = "idle"
       THEN /\ in' = "process"
            /\ numPendingCmd' = IF noNotifyMode THEN numPendingCmd - 1 ELSE numPendingCmd
       ELSE UNCHANGED <<in, numPendingCmd>>
    /\ UNCHANGED <<life, encoder, elements, lists, outTask, cmdOut, clock, numBufs, outQue,
                   application, events, drops>>

InTake ==
    /\ in = "process" /\ listOut # << >>
    /\ LET e == Head(listOut) IN
        /\ listOut' = Tail(listOut)
        /\ elem' = [elem EXCEPT ![e].bufState = "DEQUEUED", ![e].owner = "In"]
        /\ outQue' = Append(outQue, e)
    /\ numBufs' = TRUE
    /\ UNCHANGED <<life, encoder, elemQue, listIn, outTask, cmdOut, clock, in, mailIn,
                   application, events, drops>>

(* Mutant: the semaphore is a condition variable.                           *)
SignalWaiting(s) == IF s < MaxSem /\ app = "wait" THEN s + 1 ELSE s
Signal(s) == IF s < MaxSem THEN s + 1 ELSE s              \* OSA_semSignal

(* The callback signals the application's semaphore (App_ipcBitsInCbFxn).   *)
InTakeEnd ==
    /\ in = "process" /\ listOut = << >>
    /\ in' = "idle" /\ numBufs' = FALSE
    /\ sem' = IF numBufs THEN Signal(sem) ELSE sem
    /\ UNCHANGED <<life, encoder, elements, lists, outTask, cmdOut, clock, outQue, mailIn,
                   app, held, events, drops>>

(* The application's thread (App_ipcBitsRecvStreamFxn).                     *)
AppWake ==
    /\ app = "wait" /\ sem > 0
    /\ sem' = sem - 1 /\ app' = "get"
    /\ UNCHANGED <<life, encoder, elements, lists, outTask, cmdOut, clock, inTask, mailIn,
                   held, events, drops>>

GetFullBitBufs ==
    /\ app = "get" /\ app' = "put"
    /\ held' = outQue /\ outQue' = << >>
    /\ UNCHANGED <<life, encoder, elements, lists, outTask, cmdOut, clock, in, numBufs, mailIn,
                   sem, events, drops>>

(* putEmptyBitBufs: the buffers one by one, then Out is notified.           *)
PutEmptyBitBuf ==
    /\ app = "put" /\ held # << >>
    /\ elem' = [elem EXCEPT ![Head(held)].bufState = "INQUE"]
    /\ listIn' = Append(listIn, Head(held))
    /\ IF Tail(held) = << >>
       THEN app' = (IF noNotifyMode THEN "loop" ELSE "notify")
       ELSE UNCHANGED app
    /\ held' = Tail(held)
    /\ UNCHANGED <<life, encoder, elemQue, listOut, outTask, cmdOut, clock, inTask, mailIn,
                   sem, events, drops>>

PutNotify ==
    /\ app = "notify" /\ app' = "loop"
    /\ ~eventOut /\ eventOut' = TRUE
    /\ UNCHANGED <<life, encoder, elements, lists, outTask, cmdOut, clock, inTask, mailIn,
                   sem, held, eventIn, drops>>

AppLoop ==
    /\ app = "loop" \/ (app = "put" /\ held = << >>)
    /\ app' = IF stage = "exit" THEN "done" ELSE "wait"
    /\ UNCHANGED <<life, encoder, elements, lists, outTask, cmdOut, clock, inTask, mailIn,
                   sem, held, events, drops>>
----------------------------------------------------------------------------
(* The main thread.                                                         *)

Enter(s) == stage' = s /\ UNCHANGED config

(* App_ipcBitsStop sets exitBitsInThread and waits for the thread.          *)
App_ipcBitsStop ==
    /\ config.restarts /\ stage = "run" /\ Enter("exit")
    /\ UNCHANGED <<encoder, elements, lists, outTask, cmdOut, clock, inTask, mailIn,
                   application, events, drops>>

ThreadDone == app = "done"

Stop ==
    /\ stage = "exit" /\ ThreadDone /\ Enter("stopped")
    /\ UNCHANGED <<encoder, elements, lists, outTask, cmdOut, clock, inTask, mailIn,
                   application, events, drops>>

(* A notify interrupts the core before Out's task, which it serves, ends.   *)
DeleteOut ==
    /\ stage = "stopped" /\ out = "idle" /\ ~eventOut /\ Enter("noOut")
    /\ elemQue' = << >> /\ cmdOut' = {} /\ clk' = "off" /\ clkStarted' = FALSE
    /\ UNCHANGED <<encoder, elem, lists, outTask, inTask, mailIn, application, events, drops>>

(* The commands to In are acknowledged.                                     *)
SendToIn(from, cmd, to) ==
    /\ stage = from /\ Enter(to)
    /\ cmdIn' = Append(cmdIn, cmd)
    /\ UNCHANGED <<encoder, elements, lists, outTask, cmdOut, clock, inTask, numPendingCmd,
                   application, events, drops>>

InDelete ==
    /\ in = "idle" /\ cmdIn # << >> /\ Head(cmdIn) = "delete" /\ Enter("none")
    /\ cmdIn' = Tail(cmdIn) /\ in' = "none" /\ outQue' = << >>
    /\ numPendingCmd' = 0
    /\ UNCHANGED <<encoder, elements, lists, outTask, cmdOut, clock, numBufs,
                   application, events, drops>>

(* System_ipcListMPReset; mutant: what was under way stays in the lists.    *)
KeepLists == UNCHANGED lists
ResetLists == listOut' = << >> /\ listIn' = << >>

(* The encoder has been created again, with all its buffers.                *)
CreateOut ==
    /\ stage = "none" /\ Enter("outOnly")
    /\ free' = SetToSeq(config.bufs) /\ inQue' = << >>
    /\ ResetLists /\ elemQue' = SetToSeq(Elems) /\ elem' = [e \in Elems |-> FreeElem]
    /\ UNCHANGED <<outTask, cmdOut, clock, inTask, mailIn, application, events, drops>>

(* In throws away what it finds in listMPIn; the application has a new      *)
(* thread and a new semaphore (App_ipcBitsInit).                            *)
InCreate ==
    /\ in = "none" /\ cmdIn # << >> /\ Head(cmdIn) = "create" /\ Enter("run")
    /\ cmdIn' = Tail(cmdIn) /\ in' = "idle" /\ numPendingCmd' = 0
    /\ listIn' = << >>
    /\ app' = "wait" /\ sem' = 0
    /\ UNCHANGED <<encoder, elements, listOut, outTask, cmdOut, clock, numBufs, outQue,
                   held, events, drops>>

----------------------------------------------------------------------------
Out == OutSend \/ OutProcessEnd \/ OutRelease \/ OutReleaseEnd
In == InReceiveNewData \/ InTake \/ InTakeEnd
App == AppWake \/ GetFullBitBufs \/ PutEmptyBitBuf \/ PutNotify \/ AppLoop
Main ==
    \/ App_ipcBitsStop \/ Stop \/ DeleteOut \/ CreateOut
    \/ SendToIn("noOut", "delete", "deleting") \/ InDelete
    \/ SendToIn("outOnly", "create", "creating") \/ InCreate

Next ==
    \/ Finish
    \/ \E cmd \in {"newData", "release"} : OutReceive(cmd)
    \/ Out \/ OutNotified \/ OutTimer
    \/ InNotified \/ PeriodicTask \/ In \/ App \/ Main

Spec == Init /\ [][Next]_vars

(* Tasks, threads, interrupts and timers run, and the encoder finishes a    *)
(* stream whenever it has a buffer.  Out's mailbox is a queue, so no        *)
(* command is passed over for ever.                                         *)
FairSpec ==
    /\ Spec
    /\ WF_vars(Finish)
    /\ SF_vars(OutReceive("newData")) /\ WF_vars(Out \/ OutReceive("release"))
    /\ WF_vars(OutNotified) /\ WF_vars(OutTimer)
    /\ WF_vars(InNotified) /\ WF_vars(PeriodicTask) /\ WF_vars(In)
    /\ WF_vars(App) /\ WF_vars(Stop)

----------------------------------------------------------------------------
(* The values of the variables.                                             *)
TypeOK ==
    /\ config \in Configs /\ drops \in 0 .. config.maxDrops
    /\ stage \in {"run", "exit", "stopped", "noOut", "deleting", "none", "outOnly", "creating"}
    /\ {free, inQue, todo, freeList} \subseteq Seq(Bufs)
    /\ elem \in [Elems -> [bufState : {"FREE", "OUTQUE", "DEQUEUED", "INQUE"},
                           owner : {"Out", "In"}, buf : Bufs \cup {NoBuf}]]
    /\ {elemQue, listOut, listIn, outQue, held} \subseteq Seq(Elems)
    /\ out \in {"idle", "process", "release"}
    /\ cmdOut \subseteq {"newData", "release"} /\ clk \in {"off", "once", "periodic"}
    /\ in \in {"none", "idle", "process"} /\ cmdIn \in Seq({"newData", "delete", "create"})
    /\ numPendingCmd \in 0 .. MaxPending /\ sem \in 0 .. MaxSem
    /\ app \in {"wait", "get", "put", "notify", "loop", "done"}
    /\ {clkStarted, numBufs, eventOut, eventIn} \subseteq BOOLEAN

Times(x, s) == Cardinality({i \in DOMAIN s : s[i] = x})

(* What an element says of itself is true: it is in the one place that its  *)
(* state names, owned by the core that has it or put it in a list, and has  *)
(* a buffer unless it is free.  This is what the assertions at 226, 234,    *)
(* 250, 312, 314 and 380 of the two files rely on.                          *)
Placed(e) ==
    /\ Times(e, elemQue \o listOut \o outQue \o held \o listIn) = 1
    /\ CASE e \in ToSet(elemQue) -> elem[e] = FreeElem
         [] e \in ToSet(listOut) -> elem[e].bufState = "OUTQUE" /\ elem[e].owner = "Out"
         [] e \in ToSet(listIn) -> elem[e].bufState = "INQUE" /\ elem[e].owner = "In"
         [] OTHER -> elem[e].bufState = "DEQUEUED" /\ elem[e].owner = "In"
    /\ elem[e].buf = NoBuf <=> e \in ToSet(elemQue)
ElemPlaced == TypeOK /\ (OutUp => \A e \in Elems : Placed(e))

(* A buffer is in one place: free, in the encoder's queue, with Out's task, *)
(* or in one element; none is lost and none is encoded to while it is read. *)
BufOnce == OutUp => \A b \in config.bufs :
    Times(b, free \o inQue \o todo \o freeList)
    + Cardinality({e \in Elems : elem[e].buf = b}) = 1

(* Out's task, the only one that gives elements back, never waits for one:  *)
(* it would wait for ever (Utils_queGet with BIOS_WAIT_FOREVER).            *)
ElemAvailable == out = "process" /\ todo # << >> => elemQue # << >>

(* Nothing of a link's earlier life counts in its next one.  The counter of *)
(* the polls equals the commands in the mailbox, also after the link was    *)
(* deleted and created with polls still in the mailbox: In's task asserts   *)
(* at line 386 that it counts none too many.  And no notify reaches Out     *)
(* after it was deleted: the callback would assert, in interrupt context,   *)
(* that the timer exists (line 121).                                        *)
NotifiedAlive == eventOut => OutUp
PollsCounted ==
    /\ NotifiedAlive
    /\ noNotifyMode /\ in # "none" => numPendingCmd = Times("newData", cmdIn)

(* The application gets the streams in the order in which the encoder       *)
(* finished them, each of them once.                                        *)
BufsOf(s) == [i \in DOMAIN s |-> elem[s[i]].buf]
Streams == BufsOf(outQue) \o BufsOf(listOut) \o todo \o inQue
Running == stage \in {"run", "exit", "stopped"}
InOrder ==
    Running /\ Running' =>
        \/ \E b \in Bufs : Streams' = Append(Streams, b)
        \/ \E n \in 0 .. Len(Streams) :
              /\ Streams' = SubSeq(Streams, n + 1, Len(Streams))
              /\ n > 0 => BufsOf(held)' = SubSeq(Streams, 1, n)
StreamsInOrder == [][InOrder]_vars

(* A finished buffer comes back to the encoder, by notify or by polling,    *)
(* even if a command for Out is lost, unless the application is stopped.    *)
(* Only the encoder's NEW_DATA is never repeated, except by that of its     *)
(* next stream: if it is lost for the last buffer that the encoder has, Out *)
(* is not told of what waits for it.                                        *)
OutTold == inQue # << >> => "newData" \in cmdOut
BufsComeBack ==
    []<>OutTold => \A b \in Bufs : b \in ToSet(inQue) ~> b \in ToSet(free) \/ stage # "run"

(* The application's thread looks at exitBitsInThread only after a          *)
(* callback; as long as streams arrive, App_ipcBitsStop returns.            *)
AppStops == []<>OutTold => (stage = "exit" ~> stage # "exit")
=============================================================================
