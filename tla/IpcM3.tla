------------------------------- MODULE IpcM3 -------------------------------
(***************************************************************************)
(* A pair of IPC links between the two M3 cores: ipcOutM3 on the core of   *)
(* the producer, ipcInM3 on the core of the consumer                       *)
(* (links_common/ipcOutM3/ipcOutM3Link_tsk.c, ipcInM3/ipcInM3Link_tsk.c).  *)
(* A frame crosses in a list element: Out puts the element in the shared   *)
(* list listMPOut, In takes it and remembers in the frame which element it *)
(* came in; to give the frame back, In puts that element in listMPIn, and  *)
(* Out releases it.  Each side tells the other with a notify interrupt,    *)
(* whose callback sends the task a command and winds a timer up that sends *)
(* the same command again; without notify the timers are periodic.  A      *)
(* command is lost when the mailbox is full, NEW_DATA to Out and to the    *)
(* consumer too, which nothing repeats but the next frames.                *)
(*                                                                         *)
(* The pair is created after the links before it and before the consumer;  *)
(* it is deleted after everything was stopped and the consumer deleted,    *)
(* Out first (multich_tristream_fullfeature.c:1552) or In first (line      *)
(* 1611).  A frame list never reaches its maximal length.                  *)
(***************************************************************************)
EXTENDS Integers, Sequences, FiniteSets, SequencesExt

CONSTANTS
    Frames, NoFrame,
    Elems, NoElem,          \* SystemIpcM3_ListElem of the pair
    CreateArgs,             \* how the pair may be configured, see ArgsType
    SkipsFrames,            \* whether the frame rate is reduced (Utils_doSkipFrame)
    Restarts                \* whether the links are stopped, deleted and created again

(* The flags of the create arguments; whether the use case deletes In first,*)
(* how many elements there are, and how many commands may be lost.          *)
ArgsType == [notifyNextLink : BOOLEAN, notifyPrevLink : BOOLEAN, noNotifyMode : BOOLEAN,
             inFirst : BOOLEAN, elems : SUBSET Elems, maxDrops : Nat]

ASSUME IpcAssumption ==
    /\ NoFrame \notin Frames /\ NoElem \notin Elems
    /\ CreateArgs \subseteq ArgsType /\ {SkipsFrames, Restarts} \subseteq BOOLEAN

VARIABLES
    createArgs,             \* Out's notifyNextLink, In's notifyPrevLink, noNotifyMode of both
    stage,                  \* of the life of the links
    free, inQue,            \* the producer's free frames, its full queue
    elemQue, frameOf,       \* Out's free elements; the frame in each element
    listOut, listIn,        \* listMPOut and listMPIn, in shared memory
    out, freeList, todo,    \* Out's task: place, freeFrameList, frames it took
    in, numFrames,          \* In's task: place, whether it moved frames
    outFrameQue, orgElem,   \* In's queue; pOrgListMPElem of each frame
    held, told, owes,       \* consumer: its frames; NEW_DATA sent to it; owes Out a notify
    cmdOut, cmdIn,          \* the commands in each mailbox
    eventOut, eventIn,      \* notify events raised and not yet taken
    clkOut, clkIn, clkStarted,      \* the timers; Out's clkStarted
    drops,
    asserted                \* the links whose callback has asserted

life == <<createArgs, stage>>
producer == <<free, inQue>>
elements == <<elemQue, frameOf>>
outTask == <<out, freeList, todo>>
inTask == <<in, numFrames, outFrameQue, orgElem>>
consumer == <<held, told, owes>>
clocks == <<clkOut, clkIn, clkStarted>>
vars == <<life, producer, elements, listOut, listIn, outTask, inTask, consumer,
          cmdOut, cmdIn, eventOut, eventIn, clocks, drops, asserted>>

OutUp == stage \in {"run", "stopped", "noConsumer", "noIn", "outOnly"}
InUp == stage \in {"run", "stopped", "noConsumer", "noOut"}

(* Periodic release and polling, if there is no notify: In's timer starts   *)
(* when it is created, Out's with the first frames.                         *)
InitialClock == IF createArgs.noNotifyMode THEN "periodic" ELSE "off"

Init ==
    /\ createArgs \in CreateArgs
    /\ stage = "run"
    /\ free = Frames /\ inQue = << >>
    /\ elemQue = createArgs.elems /\ frameOf = [e \in Elems |-> NoFrame]
    /\ listOut = << >> /\ listIn = << >>
    /\ out = "idle" /\ freeList = {} /\ todo = << >>
    /\ in = "idle" /\ numFrames = FALSE /\ outFrameQue = << >>
    /\ orgElem = [f \in Frames |-> NoElem]
    /\ held = {} /\ told = FALSE /\ owes = FALSE
    /\ cmdOut = {} /\ cmdIn = FALSE /\ eventOut = FALSE /\ eventIn = FALSE
    /\ clkOut = "off" /\ clkIn = InitialClock /\ clkStarted = FALSE
    /\ drops = 0 /\ asserted = {}

(* A notify winds the timer up once, even if it was periodic (reconfigPrdObj). *)
NotWound == "off"                                         \* mutant: it does not
Wound == "once"

(* A command for a task: sent, or lost.                                     *)
SendOut(cmd) ==
    \/ cmdOut' = cmdOut \cup {cmd} /\ UNCHANGED drops
    \/ drops < createArgs.maxDrops /\ drops' = drops + 1 /\ UNCHANGED cmdOut

SendIn ==
    \/ cmdIn' = TRUE /\ UNCHANGED drops
    \/ drops < createArgs.maxDrops /\ drops' = drops + 1 /\ UNCHANGED cmdIn

ConsumerUp == stage \in {"run", "stopped"}

TellConsumer ==
    \/ told' = TRUE /\ UNCHANGED drops
    \/ drops < createArgs.maxDrops /\ drops' = drops + 1 /\ UNCHANGED told

----------------------------------------------------------------------------
(* The producer's core.                                                     *)

Produce(f) ==
    /\ stage = "run" /\ f \in free
    /\ free' = free \ {f} /\ inQue' = Append(inQue, f)
    /\ SendOut("newData")
    /\ UNCHANGED <<life, elements, listOut, listIn, outTask, inTask, consumer,
                   cmdIn, eventOut, eventIn, clocks, asserted>>

OutReceive(cmd) ==
    /\ OutUp /\ out = "idle" /\ cmd \in cmdOut
    /\ cmdOut' = cmdOut \ {cmd}
    /\ IF cmd = "newData" /\ inQue # << >>
       THEN out' = "process" /\ todo' = inQue /\ inQue' = << >>
       ELSE out' = "release" /\ UNCHANGED <<todo, inQue>>
    /\ UNCHANGED <<life, free, elements, listOut, listIn, freeList, inTask, consumer,
                   cmdIn, eventOut, eventIn, clocks, drops, asserted>>

(* Mutant: an element is forgotten.                                         *)
ForgetElem(e) == UNCHANGED elemQue

AddFree(f) == freeList' = freeList \cup {f}
Recycle(e) == elemQue' = elemQue \cup {e}

(* The next frame goes in an element to In ...                              *)
OutSend ==
    /\ out = "process" /\ todo # << >>
    /\ todo' = Tail(todo)
    /\ \E e \in elemQue :
        /\ elemQue' = elemQue \ {e}
        /\ frameOf' = [frameOf EXCEPT ![e] = Head(todo)]
        /\ listOut' = Append(listOut, e)
    /\ UNCHANGED <<life, producer, listIn, out, freeList, inTask, consumer,
                   cmdOut, cmdIn, eventOut, eventIn, clocks, drops, asserted>>

(* ... or, skipped or without an element, back to the producer.             *)
OutSkip ==
    /\ out = "process" /\ todo # << >> /\ (SkipsFrames \/ elemQue = {})
    /\ todo' = Tail(todo)
    /\ AddFree(Head(todo))
    /\ UNCHANGED <<life, producer, elements, listOut, listIn, out, inTask, consumer,
                   cmdOut, cmdIn, eventOut, eventIn, clocks, drops, asserted>>

(* A notify is sent when the last one has been taken (waitClear).           *)
OutProcessEnd ==
    /\ out = "process" /\ todo = << >>
    /\ out' = "release"
    /\ free' = free \cup freeList /\ freeList' = {}
    /\ IF createArgs.notifyNextLink THEN ~eventIn /\ eventIn' = TRUE ELSE UNCHANGED eventIn
    /\ IF createArgs.noNotifyMode /\ ~clkStarted
       THEN clkOut' = "periodic" /\ clkStarted' = TRUE
       ELSE UNCHANGED <<clkOut, clkStarted>>
    /\ UNCHANGED <<life, inQue, elements, listOut, listIn, todo, inTask, consumer,
                   cmdOut, cmdIn, eventOut, clkIn, drops, asserted>>

OutRelease ==
    /\ out = "release" /\ listIn # << >>
    /\ LET e == Head(listIn) IN
        /\ listIn' = Tail(listIn)
        /\ AddFree(frameOf[e]) /\ Recycle(e)
        /\ frameOf' = [frameOf EXCEPT ![e] = NoFrame]
    /\ UNCHANGED <<life, producer, listOut, out, todo, inTask, consumer,
                   cmdOut, cmdIn, eventOut, eventIn, clocks, drops, asserted>>

OutReleaseEnd ==
    /\ out = "release" /\ listIn = << >>
    /\ out' = "idle" /\ free' = free \cup freeList /\ freeList' = {}
    /\ UNCHANGED <<life, inQue, elements, listOut, listIn, todo, inTask, consumer,
                   cmdOut, cmdIn, eventOut, eventIn, clocks, drops, asserted>>

(* The notify callback asserts that the timer exists.                       *)
OutNotified ==
    /\ eventOut /\ eventOut' = FALSE
    /\ \/ OutUp /\ clkOut' = Wound /\ SendOut("release") /\ UNCHANGED asserted
       \/ ~OutUp /\ asserted' = asserted \cup {"out"} /\ UNCHANGED <<clkOut, cmdOut, drops>>
    /\ UNCHANGED <<life, producer, elements, listOut, listIn, outTask, inTask, consumer,
                   cmdIn, eventIn, clkIn, clkStarted>>

OutTimer ==
    /\ clkOut # "off"
    /\ clkOut' = IF clkOut = "once" THEN "off" ELSE clkOut
    /\ SendOut("release")
    /\ UNCHANGED <<life, producer, elements, listOut, listIn, outTask, inTask, consumer,
                   cmdIn, eventOut, eventIn, clkIn, clkStarted, asserted>>

----------------------------------------------------------------------------
(* The consumer's core.                                                     *)

InReceive ==
    /\ InUp /\ in = "idle" /\ cmdIn
    /\ cmdIn' = FALSE /\ in' = "process" /\ numFrames' = FALSE
    /\ UNCHANGED <<life, producer, elements, listOut, listIn, outTask, outFrameQue, orgElem,
                   consumer, cmdOut, eventOut, eventIn, clocks, drops, asserted>>

Remember(f, e) == orgElem' = [orgElem EXCEPT ![f] = e]

InTake ==
    /\ in = "process" /\ listOut # << >>
    /\ LET e == Head(listOut)  f == frameOf[e] IN
        /\ listOut' = Tail(listOut)
        /\ Remember(f, e)
        /\ outFrameQue' = Append(outFrameQue, f)
    /\ numFrames' = TRUE
    /\ UNCHANGED <<life, producer, elements, listIn, outTask, in, consumer,
                   cmdOut, cmdIn, eventOut, eventIn, clocks, drops, asserted>>

InTakeEnd ==
    /\ in = "process" /\ listOut = << >>
    /\ in' = "idle" /\ numFrames' = FALSE
    /\ IF numFrames /\ ConsumerUp THEN TellConsumer ELSE UNCHANGED <<told, drops>>
    /\ UNCHANGED <<life, producer, elements, listOut, listIn, outTask, outFrameQue, orgElem,
                   held, owes, cmdOut, cmdIn, eventOut, eventIn, clocks, asserted>>

InNotified ==
    /\ eventIn /\ eventIn' = FALSE
    /\ \/ InUp /\ clkIn' = Wound /\ SendIn /\ UNCHANGED asserted
       \/ ~InUp /\ asserted' = asserted \cup {"in"} /\ UNCHANGED <<clkIn, cmdIn, drops>>
    /\ UNCHANGED <<life, producer, elements, listOut, listIn, outTask, inTask, consumer,
                   cmdOut, eventOut, clkOut, clkStarted>>

InTimer ==
    /\ clkIn # "off"
    /\ clkIn' = IF clkIn = "once" THEN "off" ELSE clkIn
    /\ SendIn
    /\ UNCHANGED <<life, producer, elements, listOut, listIn, outTask, inTask, consumer,
                   cmdOut, eventOut, eventIn, clkOut, clkStarted, asserted>>

GetFullFrames ==
    /\ told /\ told' = FALSE
    /\ held' = held \cup ToSet(outFrameQue) /\ outFrameQue' = << >>
    /\ UNCHANGED <<life, producer, elements, listOut, listIn, outTask, in, numFrames, orgElem,
                   owes, cmdOut, cmdIn, eventOut, eventIn, clocks, drops, asserted>>

(* putEmptyFrames: the elements of the list's frames one by one, then the   *)
(* notify.                                                                  *)
PutEmptyFrame(f) ==
    /\ ConsumerUp /\ f \in held /\ held' = held \ {f}
    /\ listIn' = Append(listIn, orgElem[f])
    /\ owes' = createArgs.notifyPrevLink
    /\ UNCHANGED <<life, producer, elements, listOut, outTask, inTask, told,
                   cmdOut, cmdIn, eventOut, eventIn, clocks, drops, asserted>>

PutNotify ==
    /\ owes /\ owes' = FALSE
    /\ ~eventOut /\ eventOut' = TRUE
    /\ UNCHANGED <<life, producer, elements, listOut, listIn, outTask, inTask, held, told,
                   cmdOut, cmdIn, eventIn, clocks, drops, asserted>>

----------------------------------------------------------------------------
(* The life of the links.  A link's task takes its DELETE when it is idle.  *)
(* The host sends that message after the links before have answered theirs, *)
(* and it comes by an interrupt itself: the core has taken by then what     *)
(* those have raised before.  A notify that is raised later finds the link  *)
(* deleted.                                                                 *)

Stop ==
    /\ Restarts /\ stage = "run"
    /\ stage' = "stopped"
    /\ UNCHANGED <<createArgs, producer, elements, listOut, listIn, outTask, inTask, consumer,
                   cmdOut, cmdIn, eventOut, eventIn, clocks, drops, asserted>>

(* The consumer's task is deleted between two calls, with the frames it has.*)
ConsumerStopped == TRUE                     \* mutant: in the middle of a call
ConsumerDone == ~owes

DeleteConsumer ==
    /\ stage = "stopped" /\ ConsumerDone
    /\ stage' = "noConsumer" /\ told' = FALSE
    /\ UNCHANGED <<createArgs, producer, elements, listOut, listIn, outTask, inTask, held, owes,
                   cmdOut, cmdIn, eventOut, eventIn, clocks, drops, asserted>>

DeleteOut ==
    /\ \/ stage = "noConsumer" /\ ~createArgs.inFirst /\ stage' = "noOut"
       \/ stage = "noIn" /\ stage' = "none"
    /\ out = "idle" /\ ~eventOut
    /\ elemQue' = {} /\ clkOut' = "off" /\ clkStarted' = FALSE /\ cmdOut' = {}
    /\ UNCHANGED <<createArgs, producer, frameOf, listOut, listIn, outTask, inTask, consumer,
                   cmdIn, eventOut, eventIn, clkIn, drops, asserted>>

DeleteIn ==
    /\ \/ stage = "noConsumer" /\ createArgs.inFirst /\ stage' = "noIn"
       \/ stage = "noOut" /\ stage' = "none"
    /\ in = "idle" /\ ~eventIn
    /\ outFrameQue' = << >> /\ clkIn' = "off" /\ cmdIn' = FALSE
    /\ UNCHANGED <<createArgs, producer, elements, listOut, listIn, outTask, in, numFrames, orgElem,
                   consumer, cmdOut, eventOut, eventIn, clkOut, clkStarted, drops, asserted>>

(* System_ipcListMPReset; mutant: elements of the last time stay.           *)
KeepLists == UNCHANGED <<listOut, listIn>>
ResetLists == listOut' = << >> /\ listIn' = << >>

(* All links have been deleted; those before Out are created again, with    *)
(* all their frames, unless a core has stopped in an assertion.             *)
CreateOut ==
    /\ stage = "none" /\ asserted = {} /\ stage' = "outOnly"
    /\ free' = Frames /\ inQue' = << >> /\ held' = {}
    /\ ResetLists
    /\ elemQue' = createArgs.elems /\ frameOf' = [e \in Elems |-> NoFrame]
    /\ UNCHANGED <<createArgs, outTask, inTask, told, owes, cmdOut, cmdIn, eventOut, eventIn,
                   clocks, drops, asserted>>

CreateIn ==
    /\ stage = "outOnly" /\ stage' = "run"
    /\ clkIn' = InitialClock
    /\ UNCHANGED <<createArgs, producer, elements, listOut, listIn, outTask, inTask, consumer,
                   cmdOut, cmdIn, eventOut, eventIn, clkOut, clkStarted, drops, asserted>>

----------------------------------------------------------------------------
Out == OutSend \/ OutSkip \/ OutProcessEnd \/ OutRelease \/ OutReleaseEnd
In == InReceive \/ InTake \/ InTakeEnd
Life == Stop \/ DeleteConsumer \/ DeleteOut \/ DeleteIn \/ CreateOut \/ CreateIn
Consumer == GetFullFrames \/ PutNotify \/ \E f \in Frames : PutEmptyFrame(f)

Next ==
    \/ \E f \in Frames : Produce(f)
    \/ \E cmd \in {"newData", "release"} : OutReceive(cmd)
    \/ Out \/ OutNotified \/ OutTimer
    \/ In \/ InNotified \/ InTimer
    \/ Consumer \/ Life

Spec == Init /\ [][Next]_vars

(* Tasks, interrupts and timers run, and the consumer gives back every      *)
(* frame.  The mailbox is a queue, so no command is passed over for ever.   *)
FairSpec ==
    /\ Spec
    /\ SF_vars(OutReceive("newData")) /\ WF_vars(Out \/ OutReceive("release"))
    /\ WF_vars(OutNotified) /\ WF_vars(OutTimer)
    /\ WF_vars(In) /\ WF_vars(InNotified) /\ WF_vars(InTimer)
    /\ WF_vars(GetFullFrames) /\ WF_vars(PutNotify)
    /\ \A f \in Frames : WF_vars(PutEmptyFrame(f))

----------------------------------------------------------------------------
(* The values of the variables.                                             *)
TypeOK ==
    /\ stage \in {"run", "stopped", "noConsumer", "noOut", "noIn", "none", "outOnly"}
    /\ free \subseteq Frames /\ inQue \in Seq(Frames)
    /\ elemQue \subseteq Elems /\ frameOf \in [Elems -> Frames \cup {NoFrame}]
    /\ listOut \in Seq(Elems) /\ listIn \in Seq(Elems)
    /\ out \in {"idle", "process", "release"} /\ freeList \subseteq Frames /\ todo \in Seq(Frames)
    /\ in \in {"idle", "process"} /\ numFrames \in BOOLEAN
    /\ outFrameQue \in Seq(Frames) /\ orgElem \in [Frames -> Elems \cup {NoElem}]
    /\ held \subseteq Frames /\ told \in BOOLEAN /\ owes \in BOOLEAN
    /\ cmdOut \subseteq {"newData", "release"} /\ cmdIn \in BOOLEAN
    /\ eventOut \in BOOLEAN /\ eventIn \in BOOLEAN
    /\ clkOut \in {"off", "once", "periodic"} /\ clkIn \in {"off", "once", "periodic"}
    /\ clkStarted \in BOOLEAN /\ asserted \subseteq {"out", "in"}
    /\ createArgs \in CreateArgs /\ drops \in 0 .. createArgs.maxDrops

Apart(places) == \A k1, k2 \in DOMAIN places : k1 # k2 => places[k1] \cap places[k2] = {}
Everywhere(places) == UNION Range(places)

(* An element is Out's, in one of the lists, or named by one frame on In's  *)
(* side, and in one of these places only: the lists are linked through the  *)
(* elements.  Once one of the links is deleted there may be elements nobody *)
(* has, until Out is created again.  What In remembers in a frame is the    *)
(* element that holds the frame, so Out releases the frame that the         *)
(* consumer gave back.                                                      *)
Kept == OutUp /\ stage # "noIn"
WithIn == held \cup ToSet(outFrameQue)
ElemsIn == [elemQue |-> elemQue, listOut |-> ToSet(listOut), listIn |-> ToSet(listIn),
            orgElem |-> {orgElem[f] : f \in WithIn}]
OwnElem == \A f \in WithIn : orgElem[f] \in Elems /\ frameOf[orgElem[f]] = f
ElemOnce ==
    /\ TypeOK /\ OwnElem
    /\ IsInjective(listOut) /\ IsInjective(listIn)
    /\ Apart(ElemsIn) /\ Everywhere(ElemsIn) \subseteq createArgs.elems
    /\ Kept => Everywhere(ElemsIn) = createArgs.elems

(* A frame is in one place: with the producer, with Out, in an element that *)
(* is in a list, with In or with the consumer.                              *)
FramesOf(list) == {frameOf[e] : e \in ToSet(list)}
FramesIn == [free |-> free, inQue |-> ToSet(inQue), todo |-> ToSet(todo), freeList |-> freeList,
             listOut |-> FramesOf(listOut), listIn |-> FramesOf(listIn),
             outFrameQue |-> ToSet(outFrameQue), held |-> held]
FrameOnce ==
    /\ \A que \in {inQue, todo, outFrameQue} : IsInjective(que)
    /\ \A list \in {listOut, listIn} : \A e1, e2 \in ToSet(list) : frameOf[e1] = frameOf[e2] => e1 = e2
    /\ Apart(FramesIn)
    /\ Kept => Everywhere(FramesIn) = Frames

(* Deleted and created in either order, Out is never notified while it is   *)
(* not there: its callback would assert, in interrupt context, that the     *)
(* timer exists (ipcOutM3Link_tsk.c:186).  Neither is In when the use case  *)
(* deletes Out first.  (When it deletes In first, frames that are still on  *)
(* their way through Out raise a notify to the deleted In.)                 *)
NotifiedAlive ==
    /\ "out" \notin asserted
    /\ "in" \in asserted => createArgs.inFirst

(* A frame that is handed to Out comes back, as long as the links run: by   *)
(* the notify, or by the timers if a notify's command is lost.  A NEW_DATA  *)
(* of the producer or of In that is lost is not repeated, and its frames    *)
(* stay where they are until there is another one.                          *)
OutTold == inQue # << >> => "newData" \in cmdOut
ConsumerTold == outFrameQue # << >> => told \/ numFrames

FramesComeBack ==
    []<>OutTold /\ []<>ConsumerTold =>
        \A f \in Frames : f \in ToSet(inQue) ~> f \in free \/ stage # "run"
=============================================================================
