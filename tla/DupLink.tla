------------------------------ MODULE DupLink ------------------------------
(***************************************************************************)
(* The dup link (links_common/dup/dupLink_tsk.c): every input frame is     *)
(* given to NumOutQue consumers, each of which takes a copy (a container   *)
(* that points to the original) from its own output queue and gives it     *)
(* back; the last one to do so sends the original back to the producer.    *)
(* One output may be delayed: it gets a frame only after the other         *)
(* outputs, or one chosen output, have given theirs back.                  *)
(*                                                                         *)
(* Two kinds of tasks run this code: the link's own task processes input   *)
(* frames without taking the lock; the consumers' tasks call putEmptyFrames *)
(* and take it.  The containers of one output are alike, so only their     *)
(* number is kept.  A frame list never reaches its maximal length.         *)
(*                                                                         *)
(* NEW_DATA is sent without waiting and nobody looks whether it was: with  *)
(* a full mailbox or pool it is lost, and nothing repeats it (system_      *)
(* linkApi.c:54, utils_mbx.c:138).  A later one makes up for it.           *)
(***************************************************************************)
EXTENDS Integers, FiniteSets, FiniteSetsExt

CONSTANTS
    Frames,         \* the producer's frames
    MaxOutQue,      \* DUP_LINK_MAX_OUT_QUE
    Containers,     \* DUP_LINK_MAX_FRAMES_PER_OUT_QUE
    Configs         \* how the link is created and used

NoQue == MaxOutQue  \* DUP_LINK_DELAYED_OUTPUT_QUE_INVALID_ID
Outs == 0 .. MaxOutQue - 1
Ids == 0 .. MaxOutQue

(* createArgs.numOutQue; the delay commands that are sent, each once; the   *)
(* most frames a consumer gives back in one list; whether the link's task   *)
(* preempts a consumer's.                                                   *)
ConfigType == [numOutQue : 1 .. MaxOutQue, delayCmds : SUBSET [out : Ids, sync : Ids],
               maxReturn : Nat \ {0}, preempts : BOOLEAN]

ASSUME DupAssumption ==
    /\ MaxOutQue \in Nat \ {0} /\ Containers \in Nat
    /\ IsFiniteSet(Frames)
    /\ Configs \subseteq ConfigType

VARIABLES
    config,
    free, inQue, newData,   \* the producer: free frames, full frames; its NEW_DATA to the link
    dupCount,               \* System_FrameInfo.dupCount of each original
    outId, outList,         \* the link's task: place in its output loop; outFrameList
    empty, full, notified,  \* each output: free containers, full queue, NEW_DATA to its consumer
    held, put,              \* each consumer: the copies it has, its putEmptyFrames call
    lock,
    delayedOutputQueId, syncDelayedOutputQueId, received, cmds,
    asserted                \* an assertion has failed: everything stops

producer == <<free, inQue, newData>>
outputs == <<empty, full, notified>>
delay == <<config, delayedOutputQueId, syncDelayedOutputQueId, cmds>>
vars == <<producer, dupCount, outId, outList, outputs, held, put, lock, delay, received, asserted>>

NumOutQue == config.numOutQue
OutQues == 0 .. NumOutQue - 1

(* NEW_DATA: none is on its way, one is, or the last one was lost.  One that *)
(* is lost while another is on its way makes no difference.                 *)
Notice == {"no", "told", "lost"}
Sent(notice) == IF notice = "told" THEN {"told"} ELSE {"told", "lost"}

(* A putEmptyFrames call: the frames to go through and those gone through,   *)
(* the one it hands on to the delayed output, the ones for the producer.    *)
NoPut == [at |-> "none", todo |-> {}, frames |-> {}, last |-> {}, back |-> {}]

Init ==
    /\ config \in Configs
    /\ free = Frames /\ inQue = {} /\ newData = "no"
    /\ dupCount = [f \in Frames |-> 0]
    /\ outId = NumOutQue /\ outList = [o \in Outs |-> {}]
    /\ empty = [o \in Outs |-> Containers]
    /\ full = [o \in Outs |-> {}] /\ notified = [o \in Outs |-> "no"]
    /\ held = [o \in Outs |-> {}] /\ put = [o \in Outs |-> NoPut]
    /\ lock = NoQue
    /\ delayedOutputQueId = NoQue /\ syncDelayedOutputQueId = NoQue
    /\ cmds = config.delayCmds /\ received = FALSE
    /\ asserted = FALSE

(* The producer puts a full frame in its queue and sends NEW_DATA.          *)
Produce(f) ==
    /\ f \in free
    /\ free' = free \ {f} /\ inQue' = inQue \cup {f} /\ newData' \in Sent(newData)
    /\ UNCHANGED <<dupCount, outId, outList, outputs, held, put, lock, delay, received, asserted>>

----------------------------------------------------------------------------
(* The link's task.                                                         *)

InHandler == outId # NumOutQue
MayRun == ~InHandler /\ (config.preempts \/ \A o \in Outs : put[o].at \notin {"forward", "putFull"})

DirectAlways(o) == o < NumOutQue        \* mutant: the delayed output gets its copy at once
Direct(o) == NumOutQue = 1 \/ delayedOutputQueId # o
Copied == {o \in OutQues : Direct(o)}

(* Takes all input frames and fills the lists of the outputs; the lists of  *)
(* all outputs are emptied first, the delayed one's too.                    *)
ProcessFrames ==
    /\ MayRun /\ newData = "told"
    /\ newData' = "no"
    /\ IF inQue = {}
       THEN UNCHANGED <<inQue, received, dupCount, outList, empty, outId, asserted>>
       ELSE /\ inQue' = {} /\ received' = TRUE
            /\ dupCount' = [f \in Frames |-> IF f \in inQue THEN NumOutQue ELSE dupCount[f]]
            /\ outList' = [o \in Outs |-> IF o \in Copied THEN inQue ELSE {}]
            /\ asserted' = \E o \in Copied : empty[o] < Cardinality(inQue)
            /\ empty' = [o \in Outs |-> IF o \in Copied THEN empty[o] - Cardinality(inQue) ELSE empty[o]]
            /\ outId' = 0
    /\ UNCHANGED <<free, full, notified, held, put, lock, delay>>

(* Puts an output's list in its full queue, then notifies its consumer.     *)
PutFullSilently(o, frames) ==           \* mutant: the consumer is not told
    /\ full' = [full EXCEPT ![o] = @ \cup frames]
    /\ notified' = notified

PutFull(o, frames) ==
    /\ full' = [full EXCEPT ![o] = @ \cup frames]
    /\ \E notice \in Sent(notified[o]) : notified' = [notified EXCEPT ![o] = notice]

PutOut ==
    /\ InHandler
    /\ IF Direct(outId)
       THEN PutFull(outId, outList[outId]) /\ outList' = [outList EXCEPT ![outId] = {}]
       ELSE UNCHANGED <<full, notified, outList>>
    /\ outId' = outId + 1
    /\ UNCHANGED <<producer, dupCount, empty, held, put, lock, delay, received, asserted>>

(* The command is valid once, before the first frame; it is refused else.   *)
ValidDelay(d) == d.out < NumOutQue /\ ~received /\ delayedOutputQueId = NoQue /\ NumOutQue > 1

SetDelayOutQue(d) ==
    /\ d \in cmds /\ ~InHandler /\ lock = NoQue
    /\ cmds' = cmds \ {d}
    /\ IF ValidDelay(d)
       THEN delayedOutputQueId' = d.out /\ syncDelayedOutputQueId' = d.sync
       ELSE UNCHANGED <<delayedOutputQueId, syncDelayedOutputQueId>>
    /\ UNCHANGED <<config, producer, dupCount, outId, outList, outputs, held, put, lock, received, asserted>>

----------------------------------------------------------------------------
(* The consumer of output o.                                                *)

GetFull(o) ==
    /\ put[o] = NoPut /\ notified[o] = "told"
    /\ notified' = [notified EXCEPT ![o] = "no"]
    /\ held' = [held EXCEPT ![o] = @ \cup full[o]]
    /\ full' = [full EXCEPT ![o] = {}]
    /\ UNCHANGED <<producer, dupCount, outId, outList, empty, put, lock, delay, received, asserted>>

(* It gives a list of frames back and takes the lock ...                    *)
PutEmpty(o, frames) ==
    /\ put[o] = NoPut /\ lock = NoQue
    /\ lock' = o
    /\ put' = [put EXCEPT ![o] = [NoPut EXCEPT !.at = "each", !.todo = frames]]
    /\ UNCHANGED <<producer, dupCount, outId, outList, outputs, held, delay, received, asserted>>

PutEmptyFrames(o) ==
    \E frames \in SUBSET held[o] :
        frames # {} /\ Cardinality(frames) <= config.maxReturn /\ PutEmpty(o, frames)

FreedEarly(f) == {g \in {f} : dupCount[g] <= 2}     \* mutant: one consumer too early
FreedUncounted(f) == {g \in {f} : dupCount[g] = 0}  \* mutant: tested before the count goes down
Freed(f) == {g \in {f} : dupCount[g] = 1}

(* Whether a frame that output o gives back goes to the delayed output now. *)
Forwards(o, f) ==
    IF syncDelayedOutputQueId # NoQue
    THEN syncDelayedOutputQueId = o
    ELSE dupCount'[f] = 1 /\ delayedOutputQueId < NumOutQue

(* ... then, frame by frame, counts down and hands on.                       *)
CountDown(o, f) ==
    /\ put[o].at = "each" /\ f \in put[o].todo
    /\ held' = [held EXCEPT ![o] = @ \ {f}]
    /\ dupCount' = [dupCount EXCEPT ![f] = @ - 1]
    /\ put' = [put EXCEPT ![o] = [at |-> IF Forwards(o, f) THEN "forward" ELSE "each",
                                  todo |-> put[o].todo \ {f}, frames |-> put[o].frames \cup {f},
                                  last |-> IF Forwards(o, f) THEN {f} ELSE {},
                                  back |-> put[o].back \cup Freed(f)]]
    /\ asserted' = (Forwards(o, f) /\ delayedOutputQueId = NoQue)
    /\ UNCHANGED <<producer, outId, outList, outputs, lock, delay, received>>

(* putFramesInDelayOutQue: a copy for the delayed output, in the list that   *)
(* the link's task empties too ...                                          *)
Forward(o) ==
    LET d == delayedOutputQueId IN
    /\ put[o].at = "forward"
    /\ put' = [put EXCEPT ![o].at = "putFull"]
    /\ outList' = [outList EXCEPT ![d] = put[o].last]
    /\ empty' = [empty EXCEPT ![d] = @ - 1]
    /\ asserted' = \/ empty[d] = 0
                   \/ syncDelayedOutputQueId = NoQue /\ \E f \in put[o].last : dupCount[f] # 1
    /\ UNCHANGED <<producer, dupCount, outId, full, notified, held, lock, delay, received>>

(* ... and what that list then holds goes to the delayed output.            *)
PutDelayed(o) ==
    LET d == delayedOutputQueId IN
    /\ put[o].at = "putFull"
    /\ put' = [put EXCEPT ![o].at = "each", ![o].last = {}]
    /\ PutFull(d, outList[d])
    /\ outList' = [outList EXCEPT ![d] = {}]
    /\ UNCHANGED <<producer, dupCount, outId, empty, held, lock, delay, received, asserted>>

(* The freed originals go to the producer and the lock is given up.         *)
PutBack(o) ==
    /\ put[o].at = "each" /\ put[o].todo = {}
    /\ free' = free \cup put[o].back
    /\ put' = [put EXCEPT ![o] = [NoPut EXCEPT !.at = "containers", !.frames = @ \cup put[o].frames]]
    /\ lock' = NoQue
    /\ UNCHANGED <<inQue, newData, dupCount, outId, outList, outputs, held, delay, received, asserted>>

PutContainers(o) ==
    /\ put[o].at = "containers"
    /\ empty' = [empty EXCEPT ![o] = @ + Cardinality(put[o].frames)]
    /\ put' = [put EXCEPT ![o] = NoPut]
    /\ UNCHANGED <<producer, dupCount, outId, outList, full, notified, held, lock, delay, received, asserted>>

----------------------------------------------------------------------------
Link == ProcessFrames \/ PutOut \/ \E d \in cmds : SetDelayOutQue(d)

InPut(o) == (\E f \in put[o].todo : CountDown(o, f)) \/ Forward(o) \/ PutDelayed(o) \/ PutBack(o) \/ PutContainers(o)
Consumer(o) == GetFull(o) \/ PutEmptyFrames(o) \/ InPut(o)

Next ==
    /\ ~asserted
    /\ \/ \E f \in Frames : Produce(f)
       \/ Link
       \/ \E o \in OutQues : Consumer(o)

Spec == Init /\ [][Next]_vars

(* The tasks run when they can; some consumer takes frames if one can again *)
(* and again, and a frame that can be given back again and again is: who    *)
(* waits for the lock gets it in turn.  The producer owes nothing.          *)
Returns(f) == \E o \in OutQues : \E frames \in SUBSET held[o] :
    f \in frames /\ Cardinality(frames) <= config.maxReturn /\ PutEmpty(o, frames)

FairSpec ==
    /\ Spec
    /\ WF_vars(~asserted /\ (ProcessFrames \/ PutOut))
    /\ \A o \in Outs : WF_vars(~asserted /\ InPut(o))
    /\ SF_vars(~asserted /\ \E o \in OutQues : GetFull(o))
    /\ \A f \in Frames : SF_vars(~asserted /\ Returns(f))

----------------------------------------------------------------------------
(* The values of the variables.                                             *)
TypeOK ==
    /\ free \subseteq Frames /\ inQue \subseteq Frames /\ newData \in Notice
    /\ config \in Configs /\ dupCount \in [Frames -> 0 .. NumOutQue]
    /\ outId \in Ids /\ outList \in [Outs -> SUBSET Frames]
    /\ empty \in [Outs -> Int]
    /\ full \in [Outs -> SUBSET Frames] /\ notified \in [Outs -> Notice]
    /\ held \in [Outs -> SUBSET Frames]
    /\ put \in [Outs -> [at : {"none", "each", "forward", "putFull", "containers"}, todo : SUBSET Frames,
                         frames : SUBSET Frames, last : SUBSET Frames, back : SUBSET Frames]]
    /\ lock \in Ids /\ delayedOutputQueId \in Ids /\ syncDelayedOutputQueId \in Ids
    /\ received \in BOOLEAN /\ cmds \subseteq config.delayCmds /\ asserted \in BOOLEAN

(* The outputs that have a copy of a frame, or are about to get one.        *)
Pending(o) == IF InHandler /\ Direct(o) /\ outId <= o THEN outList[o] ELSE {}
Holders(f) == {o \in OutQues : f \in full[o] \cup held[o] \cup Pending(o)}

(* A frame that is back with its producer is in no queue, with no consumer  *)
(* and on no list: it goes back after its last consumer (line 349), however *)
(* the consumers' calls interleave.                                         *)
ReturnedLast == \A f \in free \cup inQue :
    /\ Holders(f) = {}
    /\ \A o \in Outs : put[o].at \in {"forward", "putFull"} => f \notin put[o].last

(* A frame that is not with its producer has an owner: an output, or the    *)
(* call that is about to hand it on.  Otherwise it never comes back.        *)
FrameKept == \A f \in Frames \ (free \cup inQue) :
    Holders(f) # {} \/ \E o \in Outs : f \in put[o].back \cup put[o].last

(* The delayed output gets a frame only after the output it waits for, or   *)
(* all others, have given theirs back (dupLink.h).                          *)
DelayedWaits == delayedOutputQueId # NoQue =>
    \A f \in full[delayedOutputQueId] \cup held[delayedOutputQueId] :
        IF syncDelayedOutputQueId # NoQue
        THEN syncDelayedOutputQueId \notin Holders(f)
        ELSE Holders(f) = {delayedOutputQueId}

(* No container of an output is lost or used twice, although originals go   *)
(* back to the producer before their containers are put back (lines 372     *)
(* and 378).  So no assertion fails: there always is a container for a copy *)
(* (lines 160 and 271), and the delayed output is the last one (line 156).  *)
ContainersKept ==
    /\ TypeOK /\ ~asserted
    /\ \A o \in Outs :
          empty[o] + Cardinality(full[o]) + Cardinality(held[o]) + Cardinality(put[o].frames)
          + Cardinality(IF o = delayedOutputQueId THEN outList[o] ELSE Pending(o)) = Containers

(* Every frame that the producer hands over comes back to it, if whoever     *)
(* misses a NEW_DATA is told again later: no copy is left behind.           *)
ToldAgain ==
    /\ []<>(newData # "lost")
    /\ \A o \in Outs : []<>(notified[o] # "lost")

FramesComeBack == ToldAgain => \A f \in Frames : f \in inQue ~> f \in free
=============================================================================
