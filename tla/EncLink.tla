------------------------------ MODULE EncLink ------------------------------
(***************************************************************************)
(* The encode link (links_m3video/iva_enc).  Three tasks of the video core *)
(* share its queues: the link's task (the lowest priority) sorts frames by *)
(* channel, pairs each with a request and a bitstream buffer and collects  *)
(* what is done when its clock tells it to; the process task (the highest) *)
(* encodes requests, sleeping while the codec's hardware works; the next   *)
(* link's task takes the streams and gives them back.  The codec writes    *)
(* into a ring buffer (RingBuffer).                                        *)
(*                                                                         *)
(* A lower task runs only while the higher ones sleep, which is what makes *)
(* most of this code safe: it has no lock.  The host disables a channel,   *)
(* switches its codec with a dummy request that travels with the frames,   *)
(* and stops and deletes the link.                                         *)
(*                                                                         *)
(* Requests are alike, and so are the bitstream buffers of the one pool,   *)
(* so only their number is kept.  The channels are of one resolution       *)
(* class, with frames of several sizes.  NEW_DATA and LATE_ACK are sent    *)
(* without waiting: with the receiver's mailbox full they are lost.        *)
(***************************************************************************)
EXTENDS Integers, Sequences, FiniteSets

CONSTANTS
    NumCh,          \* inQueInfo.numCh
    Frames, ChannelOf,      \* the frames of the link before, their channels
    NumReq,         \* ENC_LINK_MAX_REQ
    Formats,
    Configs,        \* configurations the link may be created with, see ConfigType
    NumBufs, BufSize, FrameSizes, MaxStream,    \* the pool and its ring, see RingBuffer
    MaxSwitches     \* how often the host switches codecs

Chs == 0 .. NumCh - 1

(* The format of each channel; frames per request (two fields if singleBuf) *)
(* and requests in a row per channel (two if interlaced); the largest batch *)
(* (for the width of its frames); channels whose codec is switched; whether *)
(* frames are skipped to reduce the frame rate, or for fields in the wrong  *)
(* order; the sizes that each channel's frames may have; the commands that  *)
(* may find a full mailbox; the frames that the link before uses; the       *)
(* formats whose codec may refuse its configuration.                        *)
ConfigType == [format : [Chs -> Formats], numFrames : [Chs -> 1 .. 2],
               perPass : [Chs -> 1 .. 2], maxBatch : Nat \ {0},
               switched : SUBSET Chs, skips : BOOLEAN, sizes : [Chs -> (SUBSET FrameSizes) \ {{}}],
               lost : SUBSET {"newData", "lateAck"}, frames : SUBSET Frames,
               fails : SUBSET Formats]

ASSUME EncAssumption ==
    /\ NumCh \in Nat \ {0} /\ ChannelOf \in [Frames -> Chs] /\ IsFiniteSet(Frames)
    /\ NumReq \in Nat /\ NumReq >= NumBufs      \* the assertion at line 624
    /\ Configs \subseteq ConfigType /\ MaxSwitches \in Nat
    /\ \A c \in Chs : Cardinality({f \in Frames : ChannelOf[f] = c}) <= NumReq

VARIABLES
    config, format,
    progressive,                \* channels that a switch has made progressive
    free, fullQue, newData,     \* the link before: idle frames, its queue; NEW_DATA sent
    inQue, disableChn,          \* of each channel
    freeList,                   \* frames the link is about to give back
    link,                       \* the link's task: place, channel and round in a pass, last status
    reqQue, processQue, processDoneQue,     \* requests: free, to encode, encoded
    tsk,                        \* the process task: place, batch, next request in it
    emptyQue, bitFull, notified,    \* bitstream buffers: empty; full; NEW_DATA sent to the next link
    held, returned,             \* the next link: buffers it has, or has half given back
    host, lateAck, switches,    \* the host's command; LATE_ACK, see TellLink; switches so far
    asserted,                   \* an assertion has failed: everything stops
    wrOfst, rdOfst, region, streams, lastSizes,  \* the ring
    ringLost                    \* whether it is out of step since a codec failed

R == INSTANCE RingBuffer
ASSUME RingSizes == R!RingAssumption

codecs == <<format, progressive>>
source == <<free, fullQue, newData>>
consumer == <<notified, held, returned>>
hosts == <<host, switches>>
ring == <<wrOfst, rdOfst, region, streams, lastSizes, ringLost>>
vars == <<config, codecs, source, inQue, disableChn, freeList, link, reqQue, processQue,
          processDoneQue, tsk, emptyQue, bitFull, consumer, hosts, lateAck, asserted, ring>>

Main == [at |-> "main", ch |-> 0, n |-> 0, ok |-> FALSE]
Idle == [op |-> "none", ch |-> 0, format |-> "none", taken |-> FALSE]
Waiting == [at |-> "get", batch |-> << >>, i |-> 0]

Request(ch, frames) == [dummy |-> FALSE, ch |-> ch, frames |-> frames]
Dummy(ch) == [dummy |-> TRUE, ch |-> ch, frames |-> << >>]

Init ==
    /\ config \in Configs /\ format = config.format /\ progressive = {}
    /\ free = Frames /\ fullQue = << >> /\ newData = FALSE
    /\ inQue = [c \in Chs |-> << >>] /\ disableChn = [c \in Chs |-> FALSE]
    /\ freeList = << >> /\ link = Main
    /\ reqQue = NumReq /\ processQue = << >> /\ processDoneQue = << >>
    /\ tsk = Waiting
    /\ emptyQue = NumBufs /\ bitFull = 0 /\ notified = FALSE
    /\ held = 0 /\ returned = 0
    /\ host = Idle /\ lateAck = "no" /\ switches = 0
    /\ asserted = FALSE
    /\ R!Init /\ ringLost = FALSE

Elems(s) == {s[i] : i \in DOMAIN s}

(* The elements of s that are in S, in their order.                         *)
Only(s, S) ==
    LET I == {i \in DOMAIN s : s[i] \in S}
    IN  [k \in 1 .. Cardinality(I) |-> s[CHOOSE i \in I : Cardinality({j \in I : j <= i}) = k]]

----------------------------------------------------------------------------
(* The link before.                                                         *)

(* System_sendLinkCmd does not wait for room in the mailbox, and nobody     *)
(* looks at what it returns: whether a NEW_DATA is there afterwards.        *)
Sent(there) == IF "newData" \in config.lost THEN {there, TRUE} ELSE {TRUE}

Produce(f) ==
    /\ f \in free \cap config.frames
    /\ free' = free \ {f} /\ fullQue' = Append(fullQue, f) /\ newData' \in Sent(newData)
    /\ UNCHANGED <<config, codecs, inQue, disableChn, freeList, link, reqQue, processQue,
                   processDoneQue, tsk, emptyQue, bitFull, consumer, hosts, lateAck, asserted, ring>>

----------------------------------------------------------------------------
(* EncLink_codecProcessTskFxn.                                              *)

Asleep == tsk.at \in {"encode", "gone"} \/ (tsk.at = "get" /\ processQue = << >>)

(* Frames per request, requests per pass, and the content: a switch of its  *)
(* codec makes a channel progressive, without field merge.                  *)
NumFrames(c) == IF c \in progressive THEN 1 ELSE config.numFrames[c]
PerPass(c) == IF c \in progressive THEN 1 ELSE config.perPass[c]
Interlaced(c) == NumFrames(c) = 2 \/ PerPass(c) = 2

(* EncLink_PrepareBatch: what follows the first request joins it while it   *)
(* is for the same codec and content and for channels that are not in the   *)
(* batch yet.  Whether it is a frame is not looked at.  Mutant: nor is the  *)
(* codec.                                                                   *)
JoinsAnyCodec(n) ==
    /\ n <= config.maxBatch
    /\ \A i \in 2 .. n : \A j \in 1 .. i - 1 : processQue[i].ch # processQue[j].ch
Joins(n) ==
    /\ n <= config.maxBatch
    /\ \A i \in 2 .. n :
        /\ format[processQue[i].ch] = format[processQue[1].ch]
        /\ Interlaced(processQue[i].ch) = Interlaced(processQue[1].ch)
        /\ \A j \in 1 .. i - 1 : processQue[i].ch # processQue[j].ch
BatchSize(n) == Joins(n) /\ \A k \in DOMAIN processQue : Joins(k) => k <= n

GetBatch ==
    /\ tsk.at = "get" /\ processQue # << >> /\ ~Head(processQue).dummy
    /\ \E n \in DOMAIN processQue :
        /\ BatchSize(n)
        /\ tsk' = [at |-> "submit", batch |-> SubSeq(processQue, 1, n), i |-> 1]
        /\ processQue' = SubSeq(processQue, n + 1, Len(processQue))
    /\ UNCHANGED <<config, codecs, source, inQue, disableChn, freeList, link, reqQue,
                   processDoneQue, emptyQue, bitFull, consumer, hosts, lateAck, asserted, ring>>

(* EncLink_codecHandleDummyReqObj: the codec of the channel is deleted and  *)
(* created anew, and the link is told to answer the host.  Only a warning   *)
(* is logged when that fails, or when the codec cannot be created.          *)
NeverToldLink == UNCHANGED lateAck      \* mutant: the link is not told
TellLink == lateAck' \in IF "lateAck" \in config.lost THEN {"sent", "lost"} ELSE {"sent"}

HandleDummy ==
    /\ tsk.at = "get" /\ processQue # << >> /\ Head(processQue).dummy
    /\ processQue' = Tail(processQue)
    /\ format' = [format EXCEPT ![Head(processQue).ch] = host.format]
    /\ progressive' = progressive \cup {Head(processQue).ch}
    /\ TellLink
    /\ UNCHANGED <<config, source, inQue, disableChn, freeList, link, reqQue,
                   processDoneQue, tsk, emptyQue, bitFull, consumer, hosts, asserted, ring>>

(* Enclink_h264EncodeFrameBatch encodes one request after the other.  A     *)
(* dummy in the batch has no frame: a null pointer is read (line 2423), and *)
(* here the codec then fails without a stream.  If the codec refuses its    *)
(* configuration, the rest of the batch is not encoded; its buffers go on   *)
(* with the address and size of an older stream, and from then on what the  *)
(* ring holds is not followed any more.                                     *)
Submit ==
    /\ tsk.at = "submit" /\ tsk.i <= Len(tsk.batch)
    /\ IF tsk.batch[tsk.i].dummy
       THEN tsk' = [tsk EXCEPT !.i = @ + 1] /\ UNCHANGED ring
       ELSE /\ tsk' = [tsk EXCEPT !.at = "encode"]
            /\ IF ringLost THEN UNCHANGED ring
               ELSE /\ \E size \in FrameSizes :
                        size \in config.sizes[tsk.batch[tsk.i].ch] /\ R!Alloc(size)
                    /\ UNCHANGED ringLost
    /\ UNCHANGED <<config, codecs, source, inQue, disableChn, freeList, link, reqQue, processQue,
                   processDoneQue, emptyQue, bitFull, consumer, hosts, lateAck, asserted>>

SubmitFails ==
    /\ tsk.at = "submit" /\ tsk.i <= Len(tsk.batch) /\ ~tsk.batch[tsk.i].dummy
    /\ format[tsk.batch[tsk.i].ch] \in config.fails
    /\ tsk' = [tsk EXCEPT !.i = Len(tsk.batch) + 1]
    /\ wrOfst' = 0 /\ rdOfst' = 0 /\ region' = R!NoRegion
    /\ streams' = << >> /\ lastSizes' = << >> /\ ringLost' = TRUE
    /\ UNCHANGED <<config, codecs, source, inQue, disableChn, freeList, link, reqQue, processQue,
                   processDoneQue, emptyQue, bitFull, consumer, hosts, lateAck, asserted>>

(* The hardware is done.                                                    *)
Encoded(size) ==
    /\ tsk.at = "encode"
    /\ IF ringLost THEN UNCHANGED ring ELSE R!Result(size) /\ UNCHANGED ringLost
    /\ tsk' = [tsk EXCEPT !.at = "submit", !.i = @ + 1]
    /\ UNCHANGED <<config, codecs, source, inQue, disableChn, freeList, link, reqQue, processQue,
                   processDoneQue, emptyQue, bitFull, consumer, hosts, lateAck, asserted>>

BatchDone ==
    /\ tsk.at = "submit" /\ tsk.i > Len(tsk.batch)
    /\ processDoneQue' = processDoneQue \o tsk.batch
    /\ tsk' = Waiting
    /\ UNCHANGED <<config, codecs, source, inQue, disableChn, freeList, link, reqQue, processQue,
                   emptyQue, bitFull, consumer, hosts, lateAck, asserted, ring>>

ProcessTsk ==
    \/ GetBatch \/ HandleDummy \/ Submit \/ SubmitFails \/ BatchDone
    \/ \E size \in 1 .. MaxStream : Encoded(size)

----------------------------------------------------------------------------
(* EncLink_codecProcessData, in the link's task: it runs when the others    *)
(* have nothing to do.                                                      *)

LinkRuns(at) == link.at = at /\ Asleep /\ returned = 0

(* EncLink_codecQueueFramesToChQue: frames of disabled channels, frames     *)
(* that are skipped, and fields of a merged pair that do not follow one of  *)
(* the other parity, are given back.                                        *)
Kept(skipped, f) == f \notin skipped /\ ~disableChn[ChannelOf[f]]
Skippable == IF config.skips THEN SUBSET Elems(fullQue) ELSE {{}}

QueueFramesToChQue ==
    /\ LinkRuns("main") /\ newData
    /\ newData' = FALSE /\ fullQue' = << >>
    /\ \E skipped \in Skippable :
        /\ inQue' = [c \in Chs |->
              inQue[c] \o Only(fullQue, {f \in Frames : ChannelOf[f] = c /\ Kept(skipped, f)})]
        /\ free' = free \cup {f \in Elems(fullQue) : ~Kept(skipped, f)}
    /\ asserted' = \E c \in Chs : Len(inQue'[c]) > NumReq       \* line 1435
    /\ link' = [Main EXCEPT !.at = "submit"]
    /\ UNCHANGED <<config, codecs, disableChn, freeList, reqQue, processQue,
                   processDoneQue, tsk, emptyQue, bitFull, consumer, hosts, lateAck, ring>>

(* EncLink_codecSubmitData: in turn each channel gets as many requests as   *)
(* are meant for it; a switch may change that between two of them.  A frame *)
(* for which there is no buffer is given back.                              *)
NextTry(ok) ==
    IF link.n + 1 < PerPass(link.ch)
    THEN [link EXCEPT !.n = @ + 1, !.ok = ok]
    ELSE [link EXCEPT !.ch = @ + 1, !.n = 0, !.ok = ok]

SubmitFrame ==
    LET c == link.ch
        n == NumFrames(c)
        frames == SubSeq(inQue[c], 1, n)
    IN
    /\ LinkRuns("submit") /\ c \in Chs /\ link.n < PerPass(c)
    /\ IF reqQue = 0
       THEN /\ link' = [link EXCEPT !.ch = @ + 1, !.n = 0, !.ok = FALSE]
            /\ UNCHANGED <<inQue, reqQue, processQue, emptyQue, freeList>>
       ELSE IF Len(inQue[c]) < n
       THEN /\ link' = NextTry(FALSE)
            /\ UNCHANGED <<inQue, reqQue, processQue, emptyQue, freeList>>
       ELSE /\ inQue' = [inQue EXCEPT ![c] = SubSeq(@, n + 1, Len(@))]
            /\ IF Len(processQue) < NumReq /\ emptyQue > 0
               THEN /\ processQue' = Append(processQue, Request(c, frames))
                    /\ reqQue' = reqQue - 1 /\ emptyQue' = emptyQue - 1
                    /\ link' = NextTry(TRUE)
                    /\ UNCHANGED freeList
               ELSE /\ freeList' = freeList \o frames
                    /\ link' = NextTry(FALSE)
                    /\ UNCHANGED <<reqQue, processQue, emptyQue>>
    /\ UNCHANGED <<config, codecs, source, disableChn,
                   processDoneQue, tsk, bitFull, consumer, hosts, lateAck, asserted, ring>>

NextChannel ==
    /\ LinkRuns("submit") /\ link.ch \in Chs /\ link.n >= PerPass(link.ch)
    /\ link' = [link EXCEPT !.ch = @ + 1, !.n = 0]
    /\ UNCHANGED <<config, codecs, source, inQue, disableChn, freeList, reqQue, processQue,
                   processDoneQue, tsk, emptyQue, bitFull, consumer, hosts, lateAck, asserted, ring>>

(* What is rejected goes back; another pass follows if the last channel's   *)
(* last attempt went well (mutant: if it failed).                           *)
AgainOnFailure == ~link.ok
Again == link.ok

EndPass ==
    /\ LinkRuns("submit") /\ link.ch \notin Chs
    /\ free' = free \cup Elems(freeList) /\ freeList' = << >>
    /\ link' = IF Again THEN [Main EXCEPT !.at = "submit"] ELSE Main
    /\ UNCHANGED <<config, codecs, fullQue, newData, inQue, disableChn, reqQue, processQue,
                   processDoneQue, tsk, emptyQue, bitFull, consumer, hosts, lateAck, asserted, ring>>

----------------------------------------------------------------------------
(* EncLink_codecGetProcessedData: the clock asks for it all the time.       *)

FramesOf(reqs) == UNION {Elems(r.frames) : r \in Elems(reqs)}

(* All requests fit in reqQue, or the assertion at line 1705 fails.         *)
Collect ==
    /\ reqQue' = reqQue + Len(processDoneQue)
    /\ asserted' = (reqQue' > NumReq)
    /\ processDoneQue' = << >>
    /\ free' = free \cup FramesOf(processDoneQue)
    /\ bitFull' = bitFull + Len(processDoneQue)
    /\ notified' \in IF processDoneQue = << >> THEN {notified} ELSE Sent(notified)

GetProcessedData ==
    /\ LinkRuns("main") /\ processDoneQue # << >>
    /\ Collect
    /\ UNCHANGED <<config, codecs, fullQue, newData, inQue, disableChn, freeList, link, processQue,
                   tsk, emptyQue, held, returned, hosts, lateAck, ring>>

----------------------------------------------------------------------------
(* The next link.                                                           *)

GetFullBufs ==
    /\ Asleep /\ notified
    /\ notified' = FALSE
    /\ held' = held + bitFull /\ bitFull' = 0
    /\ UNCHANGED <<config, codecs, source, inQue, disableChn, freeList, link, reqQue, processQue,
                   processDoneQue, tsk, emptyQue, returned, hosts, lateAck, asserted, ring>>

(* EncLink_putEmptyBufs: each buffer of the list frees its part of the ring *)
(* before the list is put in the empty queue.                               *)
PutRing ==
    /\ Asleep /\ held > 0
    /\ held' = held - 1 /\ returned' = returned + 1
    /\ IF ringLost THEN UNCHANGED ring ELSE R!GiveBack /\ UNCHANGED ringLost
    /\ UNCHANGED <<config, codecs, source, inQue, disableChn, freeList, link, reqQue, processQue,
                   processDoneQue, tsk, emptyQue, bitFull, notified, hosts, lateAck, asserted>>

PutFirst == 1           \* mutant: only the list's first buffer
PutAll == returned

PutEmptyBufs ==
    /\ Asleep /\ returned > 0
    /\ emptyQue' = emptyQue + PutAll /\ returned' = 0
    /\ UNCHANGED <<config, codecs, source, inQue, disableChn, freeList, link, reqQue, processQue,
                   processDoneQue, tsk, bitFull, notified, held, hosts, lateAck, asserted, ring>>

Consumer == GetFullBufs \/ PutRing \/ PutEmptyBufs
----------------------------------------------------------------------------
(* The host holds the lock of System_linkControl until its command is       *)
(* answered; a switch is wrapped in DISABLE and ENABLE (ti_venc.c).         *)

SwitchCommand(c, new) == [Idle EXCEPT !.op = "disable", !.ch = c, !.format = new]

StartSwitch ==
    /\ host = Idle /\ switches < MaxSwitches
    /\ \E c \in config.switched, new \in Formats :
        new # format[c] /\ host' = SwitchCommand(c, new)
    /\ switches' = switches + 1
    /\ UNCHANGED <<config, codecs, source, inQue, disableChn, freeList, link, reqQue, processQue,
                   processDoneQue, tsk, emptyQue, bitFull, consumer, lateAck, asserted, ring>>

StartStop ==
    /\ host = Idle
    /\ host' = [Idle EXCEPT !.op = "stop"]
    /\ UNCHANGED <<config, codecs, source, inQue, disableChn, freeList, link, reqQue, processQue,
                   processDoneQue, tsk, emptyQue, bitFull, consumer, switches, lateAck, asserted, ring>>

(* DISABLE_CHANNEL is answered at once and SWITCH_CODEC_CHANNEL follows.    *)
DisableChannel ==
    /\ LinkRuns("main") /\ host.op = "disable"
    /\ disableChn' = [disableChn EXCEPT ![host.ch] = TRUE]
    /\ host' = [host EXCEPT !.op = "switch"]
    /\ UNCHANGED <<config, codecs, source, inQue, freeList, link, reqQue, processQue, processDoneQue,
                   tsk, emptyQue, bitFull, consumer, switches, lateAck, asserted, ring>>

(* EncLink_codecSwitchCodec: the message is kept (pMsgTmp; mutant: answered *)
(* at once) ...                                                             *)
AnswerAtOnce == host' = [host EXCEPT !.op = "enable"]
KeepMessage == host' = [host EXCEPT !.taken = TRUE]

SwitchCodec ==
    /\ LinkRuns("main") /\ host.op = "switch" /\ ~host.taken
    /\ processQue' = Append(processQue, Dummy(host.ch))
    /\ KeepMessage
    /\ UNCHANGED <<config, codecs, source, inQue, disableChn, freeList, link, reqQue, processDoneQue,
                   tsk, emptyQue, bitFull, consumer, switches, lateAck, asserted, ring>>

(* ... and acknowledged when the process task says so.                      *)
LateAck ==
    /\ LinkRuns("main") /\ lateAck = "sent"
    /\ lateAck' = "no"
    /\ host' = [host EXCEPT !.op = "enable", !.taken = FALSE]
    /\ UNCHANGED <<config, codecs, source, inQue, disableChn, freeList, link, reqQue, processQue,
                   processDoneQue, tsk, emptyQue, bitFull, consumer, switches, asserted, ring>>

EnableChannel ==
    /\ LinkRuns("main") /\ host.op = "enable"
    /\ disableChn' = [disableChn EXCEPT ![host.ch] = FALSE]
    /\ host' = Idle
    /\ UNCHANGED <<config, codecs, source, inQue, freeList, link, reqQue, processQue, processDoneQue,
                   tsk, emptyQue, bitFull, consumer, switches, lateAck, asserted, ring>>

(* EncLink_codecStop waits for the clock's messages, and drops those it     *)
(* meets on the way, until all requests are back.  Mutant: until nothing is *)
(* left to encode.                                                          *)
NothingQueued == processQue = << >>
MoreBack == reqQue > NumReq
AllBack == reqQue = NumReq

EnterStop ==
    /\ LinkRuns("main") /\ host.op \in {"stop", "delete"}
    /\ link' = [link EXCEPT !.at = "stop"]
    /\ UNCHANGED <<config, codecs, source, inQue, disableChn, freeList, reqQue, processQue,
                   processDoneQue, tsk, emptyQue, bitFull, consumer, hosts, lateAck, asserted, ring>>

WaitRequests ==
    /\ LinkRuns("stop") /\ ~AllBack /\ processDoneQue # << >>
    /\ Collect
    /\ newData' \in {newData, FALSE}
    /\ UNCHANGED <<config, codecs, fullQue, inQue, disableChn, freeList, link, processQue,
                   tsk, emptyQue, held, returned, hosts, lateAck, ring>>

(* EncLink_codecFreeInQueuedBufs, then STOP is answered (and DELETE comes)  *)
(* or the link is deleted.                                                  *)
EndStop ==
    /\ LinkRuns("stop") /\ AllBack
    /\ free' = free \cup Elems(fullQue) /\ fullQue' = << >>
    /\ IF host.op = "stop"
       THEN link' = Main /\ host' = [host EXCEPT !.op = "delete"]
       ELSE link' = [link EXCEPT !.at = "delete"] /\ UNCHANGED host
    /\ UNCHANGED <<config, codecs, newData, inQue, disableChn, freeList, reqQue, processQue,
                   processDoneQue, tsk, emptyQue, bitFull, consumer, switches, lateAck, asserted, ring>>

(* EncLink_codecDelete: the process task, unblocked, finds state STOP and   *)
(* ends; until it has, nothing is deleted.                                  *)
Delete ==
    /\ LinkRuns("delete") /\ tsk.at = "get"
    /\ tsk' = [tsk EXCEPT !.at = "gone"]
    /\ link' = [link EXCEPT !.at = "deleted"] /\ host' = Idle
    /\ UNCHANGED <<config, codecs, source, inQue, disableChn, freeList, reqQue, processQue,
                   processDoneQue, emptyQue, bitFull, consumer, switches, lateAck, asserted, ring>>

Command == DisableChannel \/ SwitchCodec \/ LateAck \/ EnableChannel \/ EnterStop
Link ==
    \/ QueueFramesToChQue \/ SubmitFrame \/ NextChannel \/ EndPass \/ GetProcessedData
    \/ Command \/ WaitRequests \/ EndStop \/ Delete

----------------------------------------------------------------------------
Next ==
    /\ ~asserted /\ link.at # "deleted"
    /\ \/ \E f \in Frames : Produce(f)
       \/ ProcessTsk
       \/ Consumer
       \/ Link
       \/ StartSwitch \/ StartStop

Spec == Init /\ [][Next]_vars

(* The hardware finishes, the clock ticks, tasks run when those above them  *)
(* sleep, and frames that are free are filled again.  The link's mailbox is *)
(* first in, first out: no command waits behind others for ever.            *)
FairSpec ==
    /\ Spec
    /\ \A f \in Frames : WF_vars(~asserted /\ link.at # "deleted" /\ Produce(f))
    /\ WF_vars(~asserted /\ ProcessTsk)
    /\ WF_vars(~asserted /\ link.at # "deleted" /\ Consumer)
    /\ WF_vars(~asserted /\ Link)
    /\ SF_vars(~asserted /\ GetProcessedData)
    /\ SF_vars(~asserted /\ Command)

----------------------------------------------------------------------------
(* The values of the variables.                                             *)
FrameSeqs == Seq(Frames)
Requests == [dummy : BOOLEAN, ch : Chs, frames : FrameSeqs]
Ops == {"none", "disable", "switch", "enable", "stop", "delete"}
TypeOK ==
    /\ config \in Configs /\ format \in [Chs -> Formats] /\ progressive \subseteq Chs
    /\ free \subseteq Frames /\ fullQue \in FrameSeqs /\ newData \in BOOLEAN
    /\ inQue \in [Chs -> FrameSeqs] /\ disableChn \in [Chs -> BOOLEAN] /\ freeList \in FrameSeqs
    /\ link \in [at : {"main", "submit", "stop", "delete", "deleted"},
                 ch : 0 .. NumCh, n : 0 .. 1, ok : BOOLEAN]
    /\ reqQue \in 0 .. NumReq + 1
    /\ processQue \in Seq(Requests) /\ processDoneQue \in Seq(Requests)
    /\ tsk \in [at : {"get", "submit", "encode", "gone"}, batch : Seq(Requests), i : Nat]
    /\ emptyQue \in 0 .. NumBufs /\ bitFull \in 0 .. NumBufs + 1 /\ notified \in BOOLEAN
    /\ held \in 0 .. NumBufs + 1 /\ returned \in 0 .. NumBufs + 1
    /\ host \in [op : Ops, ch : Chs, format : Formats \cup {"none"}, taken : BOOLEAN]
    /\ lateAck \in {"no", "sent", "lost"} /\ switches \in 0 .. MaxSwitches /\ asserted \in BOOLEAN
    /\ R!RingTypeOK /\ ringLost \in BOOLEAN

InUse == processQue \o tsk.batch \o processDoneQue

(* A frame is in one place: nobody gives it back twice, and none is left    *)
(* behind in a list that is used again (the list of rejected frames, the    *)
(* list of a request).                                                      *)
Times(f, s) == Cardinality({i \in DOMAIN s : s[i] = f})
FrameOnce == \A f \in Frames :
    1 = (IF f \in free THEN 1 ELSE 0) + Times(f, fullQue) + Times(f, freeList)
        + Times(f, inQue[ChannelOf[f]])
        + Cardinality({i \in DOMAIN InUse : f \in Elems(InUse[i].frames)})

(* Every frame, bitstream buffer, request and part of the ring is accounted *)
(* for, across all the tasks' queues, on the paths that reject frames and   *)
(* when the codec gives up in the middle of a batch too (the ring is then   *)
(* out of step).                                                            *)
Encodes(s) == Cardinality({i \in DOMAIN s : ~s[i].dummy})
BufsKept ==
    /\ TypeOK /\ FrameOnce
    /\ emptyQue + Encodes(InUse) + bitFull + held + returned = NumBufs
    /\ reqQue + Encodes(InUse) = NumReq
    /\ ~ringLost =>
          Len(streams) = Encodes(SubSeq(tsk.batch, 1, tsk.i - 1)) + Encodes(processDoneQue) + bitFull + held

(* The codec never writes over a stream that somebody still reads, and      *)
(* always has room for a whole one, whatever the tasks do meanwhile, as     *)
(* long as no codec has refused its configuration.                          *)
StreamsKept == ~ringLost => R!StreamsKept
RoomForStream == ~ringLost => R!RoomForStream

(* No assertion of the link fails: a request that comes back has its place  *)
(* in reqQue (line 1705), and a frame its place in its channel's queue.     *)
NoAssertion == ~asserted

(* The link acknowledges a message that it has (line 330 of encLink_tsk.c)  *)
(* and the process task finds the command that its dummy is for.            *)
SwitchPending == lateAck # "no" \/ (\E i \in DOMAIN InUse : InUse[i].dummy) => host.op = "switch" /\ host.taken

(* When the queues are deleted nothing is in them and the process task does *)
(* not use them any more.                                                   *)
DeletedIdle == link.at = "deleted" => InUse = << >> /\ reqQue = NumReq /\ region = R!NoRegion

(* Every frame comes back to the link before, even if it is left in its     *)
(* channel's queue for a later pass, as long as a NEW_DATA arrives again    *)
(* and again: nothing but the next frame repeats a lost one.                *)
FramesComeBack ==
    []<>newData => \A f \in Frames : f \in Elems(fullQue) ~> (f \in free \/ link.at = "deleted")

(* A switch of a channel's codec is answered: the host waits for it with    *)
(* its lock held.  Only a lost LATE_ACK leaves it waiting (line 2945).      *)
SwitchAnswered == host.op = "switch" ~> host.op # "switch" \/ lateAck = "lost"

(* Stop and delete end, although data keeps coming.                         *)
StopEnds == host.op = "stop" ~> link.at = "deleted"
=============================================================================
