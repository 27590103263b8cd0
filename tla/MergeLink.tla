----------------------------- MODULE MergeLink -----------------------------
(***************************************************************************)
(* Merge links (links_common/merge/mergeLink_tsk.c): the frames of several *)
(* input queues leave by one, their channels renumbered; a frame that is   *)
(* given back gets its old channel and goes to the queue it came from.     *)
(*                                                                         *)
(* A merge may feed another one.  The frame is then renumbered twice, and  *)
(* both links keep their number in the same field of the frame             *)
(* (mergeChannelNum).  Frames are given back by several tasks, which run   *)
(* the code of every merge on the way.                                     *)
(***************************************************************************)
EXTENDS Integers, Sequences, FiniteSets, SequencesExt

CONSTANTS
    Sources, Merges,        \* output queues of the links before; merge links
    Root, Sink,             \* the last merge; the link behind it
    InQue,                  \* for each merge: its inputs, a sequence of links
    Channels,               \* for each source: its number of channels
    Frames, SourceOf, ChannelOf,    \* for each frame: where it comes from
    Tasks, NoTask,          \* tasks of the sink that give frames back
    MaxList                 \* frames given back in one call

Links == Sources \cup Merges

(* The link behind a link.                                                  *)
Behind(l) == IF l = Root THEN Sink ELSE CHOOSE m \in Merges : l \in ToSet(InQue[m])

ASSUME MergeAssumption ==
    /\ Sources \cap Merges = {} /\ Root \in Merges /\ Sink \notin Links
    /\ NoTask \notin Tasks /\ MaxList \in Nat \ {0}
    /\ InQue \in [Merges -> Seq(Links \ {Root})]
    /\ \A l \in Links \ {Root} : \E m \in Merges :
          \A k \in Merges : l \in ToSet(InQue[k]) <=> k = m
    /\ \A m \in Merges : IsInjective(InQue[m])
    /\ Channels \in [Sources -> Nat]
    /\ IsFiniteSet(Frames) /\ SourceOf \in [Frames -> Sources]
    /\ ChannelOf \in [Frames -> Nat] /\ \A f \in Frames : ChannelOf[f] < Channels[SourceOf[f]]

VARIABLES
    numCh,                  \* info.queInfo[0].numCh of each link; -1: not created
    outChNum,               \* inQueChNumMap: the output channel of an input's channel
    inChan,                 \* outQueChToInQueMap, outQueChMap: <<input, channel>> of an output channel
    idle, outQue, held,     \* <<source, frame>> that is free; frames in each link's queue, at the sink
    channelNum, mergeChannelNum,    \* fields of the frames
    newData,                \* whether a link has a SYSTEM_CMD_NEW_DATA
    pc, newDataAvailable,   \* merge tasks: the input at which it is, 0: none
    lock, freeFrameList,    \* of each merge
    calls                   \* for each task: its calls of putEmptyFrames, the innermost last

tables == <<numCh, outChNum, inChan>>
tasks == <<newData, pc, newDataAvailable>>
giving == <<lock, freeFrameList, calls>>
vars == <<tables, idle, outQue, held, channelNum, mergeChannelNum, tasks, giving>>

Init ==
    /\ numCh = [l \in Links |-> IF l \in Sources THEN Channels[l] ELSE -1]
    /\ outChNum = [m \in Merges |-> << >>] /\ inChan = [m \in Merges |-> << >>]
    /\ idle = {<<SourceOf[f], f>> : f \in Frames} /\ outQue = [l \in Links |-> << >>] /\ held = {}
    /\ channelNum = ChannelOf /\ mergeChannelNum = [f \in Frames |-> 0]
    /\ newData = [l \in Merges \cup {Sink} |-> FALSE]
    /\ pc = [m \in Merges |-> 0] /\ newDataAvailable = [m \in Merges |-> FALSE]
    /\ lock = [m \in Merges |-> NoTask]
    /\ freeFrameList = [m \in Merges |-> [i \in DOMAIN InQue[m] |-> << >>]]
    /\ calls = [t \in Tasks |-> << >>]

----------------------------------------------------------------------------
(* MergeLink_drvCreate: output channels are given to the inputs in turn.    *)

ChannelsOf(m, i) == {i} \X (0 .. numCh[InQue[m][i]] - 1)
Merged(m) == UNION {ChannelsOf(m, i) : i \in DOMAIN InQue[m]}

(* The order in which they get them; the output number of channel p is how   *)
(* many were before.                                                        *)
Before(p, q) == p[1] < q[1] \/ (p[1] = q[1] /\ p[2] < q[2])
NumberOf(all, p) == Cardinality({q \in all : Before(q, p)})

(* The links before have been created, or the assertion on their number of  *)
(* queues fails.                                                            *)
Create(m) ==
    /\ numCh[m] = -1 /\ \A i \in DOMAIN InQue[m] : numCh[InQue[m][i]] # -1
    /\ LET all == Merged(m) IN
        /\ numCh' = [numCh EXCEPT ![m] = Cardinality(all)]
        /\ inChan' = [inChan EXCEPT ![m] = [k \in 0 .. Cardinality(all) - 1 |->
              CHOOSE p \in all : NumberOf(all, p) = k]]
        /\ outChNum' = [outChNum EXCEPT ![m] = [p \in all |-> NumberOf(all, p)]]
    /\ UNCHANGED <<idle, outQue, held, channelNum, mergeChannelNum, tasks, giving>>

Ready == \A l \in Links : numCh[l] # -1

----------------------------------------------------------------------------
(* The links around.                                                        *)

Produce(f) ==
    /\ Ready /\ <<SourceOf[f], f>> \in idle
    /\ idle' = idle \ {<<SourceOf[f], f>>}
    /\ outQue' = [outQue EXCEPT ![SourceOf[f]] = Append(@, f)]
    /\ newData' = [newData EXCEPT ![Behind(SourceOf[f])] = TRUE]
    /\ UNCHANGED <<tables, held, channelNum, mergeChannelNum, pc, newDataAvailable, giving>>

(* MergeLink_getFullFrames, called by the sink.                             *)
Take ==
    /\ newData[Sink]
    /\ newData' = [newData EXCEPT ![Sink] = FALSE]
    /\ held' = held \cup ToSet(outQue[Root])
    /\ outQue' = [outQue EXCEPT ![Root] = << >>]
    /\ UNCHANGED <<tables, idle, channelNum, mergeChannelNum, pc, newDataAvailable, giving>>

----------------------------------------------------------------------------
(* MergeLink_tskMain, MergeLink_drvProcessFrames.                           *)

Start(m) ==
    /\ newData[m] /\ pc[m] = 0
    /\ newData' = [newData EXCEPT ![m] = FALSE]
    /\ pc' = [pc EXCEPT ![m] = 1]
    /\ newDataAvailable' = [newDataAvailable EXCEPT ![m] = FALSE]
    /\ UNCHANGED <<tables, idle, outQue, held, channelNum, mergeChannelNum, giving>>

Renumber(m, i, fs) ==
    LET new == [f \in Frames |-> IF f \in fs THEN outChNum[m][<<i, channelNum[f]>>]
                                 ELSE channelNum[f]]
    IN  /\ channelNum' = new
        /\ mergeChannelNum' = [f \in Frames |-> IF f \in fs THEN new[f] ELSE mergeChannelNum[f]]

Process(m) ==
    /\ pc[m] \in DOMAIN InQue[m]
    /\ LET l == InQue[m][pc[m]] IN
        /\ outQue' = [outQue EXCEPT ![l] = << >>, ![m] = @ \o outQue[l]]
        /\ Renumber(m, pc[m], ToSet(outQue[l]))
        /\ newDataAvailable' = [newDataAvailable EXCEPT ![m] = @ \/ outQue[l] # << >>]
    /\ pc' = [pc EXCEPT ![m] = @ + 1]
    /\ UNCHANGED <<tables, idle, held, newData, giving>>

Notify(m) ==
    /\ pc[m] > Len(InQue[m])
    /\ newData' = [newData EXCEPT ![Behind(m)] = @ \/ newDataAvailable[m]]
    /\ pc' = [pc EXCEPT ![m] = 0]
    /\ UNCHANGED <<tables, idle, outQue, held, channelNum, mergeChannelNum, newDataAvailable, giving>>

----------------------------------------------------------------------------
(* MergeLink_putEmptyFrames, in the task of whoever gives frames back.  The *)
(* call of another merge is made with the lock held.                        *)

Call(m, frames) == [link |-> m, frames |-> frames, inQue |-> 0]
Top(t) == calls[t][Len(calls[t])]

(* The sink gives a list back to the last merge.                            *)
PutEmpty(t, frames) ==
    /\ calls[t] = << >> /\ frames # {} /\ frames \subseteq held /\ Cardinality(frames) <= MaxList
    /\ held' = held \ frames
    /\ calls' = [calls EXCEPT ![t] = <<Call(Root, SetToSeq(frames))>>]
    /\ UNCHANGED <<tables, idle, outQue, channelNum, mergeChannelNum, tasks, lock, freeFrameList>>

(* Who may go on; mutant: nobody waits.                                     *)
NeverLocked(m) == TRUE
Unlocked(m) == lock[m] = NoTask

Lock(t) ==
    /\ calls[t] # << >> /\ Top(t).inQue = 0 /\ Unlocked(Top(t).link)
    /\ lock' = [lock EXCEPT ![Top(t).link] = t]
    /\ freeFrameList' = [freeFrameList EXCEPT ![Top(t).link] = [i \in DOMAIN @ |-> << >>]]
    /\ calls' = [calls EXCEPT ![t][Len(calls[t])].inQue = 1]
    /\ UNCHANGED <<tables, idle, outQue, held, channelNum, mergeChannelNum, tasks>>

(* The number a frame had before the merge: also what an earlier merge      *)
(* numbered it.  Mutant: that number is not restored.                       *)
KeepMergeNumber(f, c) == UNCHANGED mergeChannelNum
SetMergeNumber(f, c) == mergeChannelNum' = [mergeChannelNum EXCEPT ![f] = c]

(* The frames of the list are sorted by the input they came from.           *)
Sort(t) ==
    /\ calls[t] # << >> /\ Top(t).inQue = 1 /\ Top(t).frames # << >>
    /\ LET m == Top(t).link  f == Head(Top(t).frames)
           from == inChan[m][mergeChannelNum[f]]
       IN  /\ channelNum' = [channelNum EXCEPT ![f] = from[2]]
           /\ SetMergeNumber(f, from[2])
           /\ freeFrameList' = [freeFrameList EXCEPT ![m][from[1]] = Append(@, f)]
    /\ calls' = [calls EXCEPT ![t][Len(calls[t])].frames = Tail(@)]
    /\ UNCHANGED <<tables, idle, outQue, held, tasks, lock>>

(* The frames of an input go to its link: home, or to another merge.        *)
GiveBack(t) ==
    /\ calls[t] # << >> /\ Top(t).frames = << >>
    /\ Top(t).inQue \in DOMAIN InQue[Top(t).link]
    /\ LET m == Top(t).link
           i == Top(t).inQue
           next == [calls[t] EXCEPT ![Len(calls[t])].inQue = i + 1]
       IN  IF InQue[m][i] \in Merges /\ freeFrameList[m][i] # << >>
           THEN /\ calls' = [calls EXCEPT ![t] =
                      Append(next, Call(InQue[m][i], freeFrameList[m][i]))]
                /\ UNCHANGED idle
           ELSE /\ calls' = [calls EXCEPT ![t] = next]
                /\ idle' = idle \cup {<<InQue[m][i], f>> : f \in ToSet(freeFrameList[m][i])}
    /\ UNCHANGED <<tables, outQue, held, channelNum, mergeChannelNum, tasks, lock, freeFrameList>>

(* What the lists still hold means nothing: it is reset.                    *)
Unlock(t) ==
    /\ calls[t] # << >> /\ Top(t).inQue > Len(InQue[Top(t).link])
    /\ lock' = [lock EXCEPT ![Top(t).link] = NoTask]
    /\ calls' = [calls EXCEPT ![t] = Front(@)]
    /\ freeFrameList' = [freeFrameList EXCEPT ![Top(t).link] = [i \in DOMAIN @ |-> << >>]]
    /\ UNCHANGED <<tables, idle, outQue, held, channelNum, mergeChannelNum, tasks>>

----------------------------------------------------------------------------
Merge(m) == Start(m) \/ Process(m) \/ Notify(m)
Giving(t) == Lock(t) \/ Sort(t) \/ GiveBack(t) \/ Unlock(t)

Next ==
    \/ \E m \in Merges : Create(m) \/ Merge(m)
    \/ \E f \in Frames : Produce(f)
    \/ Take
    \/ \E t \in Tasks : Giving(t) \/ \E frames \in SUBSET held : PutEmpty(t, frames)

Spec == Init /\ [][Next]_vars

----------------------------------------------------------------------------
(* Behind the last merge, channels of different inputs are different, and   *)
(* each is one that the merge has announced.                                *)
Visible == held \cup ToSet(outQue[Root])
ChannelsApart == \A f, g \in Visible :
    /\ channelNum[f] \in 0 .. numCh[Root] - 1
    /\ (channelNum[f] = channelNum[g]) = (SourceOf[f] = SourceOf[g] /\ ChannelOf[f] = ChannelOf[g])

(* A frame comes back to the queue it left, under the channel number it had *)
(* there, whatever number of merges and tasks it went through; on the way   *)
(* its number tells where it is from.                                       *)
BackHome ==
    /\ ChannelsApart
    /\ \A p \in idle : p[1] = SourceOf[p[2]] /\ channelNum[p[2]] = ChannelOf[p[2]]

(* No frame is given back twice or by two tasks, and none is lost: it is in *)
(* one place.  A list that has been handed on is not looked at again.       *)
Pending(t) == UNION {ToSet(calls[t][k].frames) : k \in DOMAIN calls[t]}
Sorted(t) == UNION {UNION {ToSet(freeFrameList[calls[t][k].link][i]) :
                              i \in {j \in DOMAIN InQue[calls[t][k].link] :
                                        calls[t][k].inQue # 0 /\ j >= calls[t][k].inQue}}
                      : k \in DOMAIN calls[t]}
Times(f) ==
    Cardinality({p \in idle : p[2] = f}) + (IF f \in held THEN 1 ELSE 0)
    + Cardinality({p \in Links \X (1 .. Cardinality(Frames)) :
                      p[2] \in DOMAIN outQue[p[1]] /\ outQue[p[1]][p[2]] = f})
    + Cardinality({t \in Tasks : f \in Pending(t)}) + Cardinality({t \in Tasks : f \in Sorted(t)})
FrameOnce == \A f \in Frames : Times(f) = 1
=============================================================================
