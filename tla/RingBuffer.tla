----------------------------- MODULE RingBuffer -----------------------------
(***************************************************************************)
(* The ring of memory into which an encoder writes its streams             *)
(* (utils_ringbuffer.c and its use in encLink_h264.c, encLink_jpeg.c and   *)
(* EncLink_putEmptyBufs).  The codec gets all of the contiguous room there *)
(* is; the stream it writes keeps its part until it is given back, and     *)
(* streams are given back in the order they were written.                  *)
(*                                                                         *)
(* The ring cannot tell full from empty: encodedStreamCount is kept, but   *)
(* no decision looks at it, and neither does anybody ask whether there is  *)
(* room (Utils_ringBuffer_Size_Avail_for_MIN is commented out).  All       *)
(* depends on the sizes: NumBufs bitstream buffers, a ring of NumBufs      *)
(* times the largest frame's size, and streams that are smaller than       *)
(* frames.                                                                 *)
(***************************************************************************)
EXTENDS Integers, Sequences

CONSTANTS
    NumBufs,        \* outNumBufs of the pool: bitstream buffers that share the ring
    BufSize,        \* buf_size of the pool: width times height of its resolution class
    FrameSizes,     \* width times height of the frames of the pool's channels
    MaxStream       \* size of the largest stream

(* What the code relies on without saying so, and enforces nowhere: NumBufs *)
(* streams of the largest size fit in NumBufs - 1 buffers (with two of them *)
(* a stream has at most half the bytes of a buffer, with six five sixths),  *)
(* and no stream is larger than the smallest frame of the pool's channels,  *)
(* whose size may be all the room that the next stream gets.                *)
RingAssumption ==
    /\ NumBufs \in Nat /\ NumBufs >= 2
    /\ BufSize \in Nat \ {0}
    /\ MaxStream \in Nat \ {0} /\ MaxStream * NumBufs <= BufSize * (NumBufs - 1)
    /\ FrameSizes \subseteq MaxStream .. BufSize

totalSize == BufSize * NumBufs

VARIABLES
    wrOfst, rdOfst,
    region,         \* what the codec has been given to write into
    streams,        \* the streams that have not been given back, the oldest first
    lastSizes       \* the sizes of the last NumBufs frames, the oldest first

ringVars == <<wrOfst, rdOfst, region, streams, lastSizes>>

NoRegion == [addr |-> totalSize, size |-> 0]     \* nothing
Regions == [addr : 0 .. totalSize, size : 0 .. totalSize]

Init ==
    /\ wrOfst = 0 /\ rdOfst = 0
    /\ region = NoRegion /\ streams = << >> /\ lastSizes = << >>

(* MIN_TERMINATION_SIZE of the buffer's last frame, whose size the buffer   *)
(* keeps: buffers are used in turn, so it is the oldest of the last NumBufs *)
(* frames, and none as long as there are new buffers.                       *)
TerminationSize == IF Len(lastSizes) < NumBufs THEN 0 ELSE Head(lastSizes)

(* The frames whose sizes the buffers keep, after one of that size.         *)
KeepSize(size) ==
    Append(IF Len(lastSizes) < NumBufs THEN lastSizes ELSE Tail(lastSizes), size)

RoomToEnd(wr) == [addr |-> wr, size |-> totalSize - wr]
RoomToRead(wr) == [addr |-> wr, size |-> rdOfst - wr]

(* For a frame of that size the codec is given the room up to the end or,   *)
(* when that is no more than the buffer's last frame, from the start up to  *)
(* the read offset.                                                         *)
Alloc(size) ==
    /\ region = NoRegion /\ Len(streams) < NumBufs
    /\ IF wrOfst < rdOfst
       THEN /\ region' = RoomToRead(wrOfst)
            /\ UNCHANGED wrOfst
       ELSE IF totalSize - wrOfst <= TerminationSize
       THEN /\ wrOfst' = 0
            /\ region' = RoomToRead(0)
       ELSE /\ region' = RoomToEnd(wrOfst)
            /\ UNCHANGED wrOfst
    /\ lastSizes' = KeepSize(size)
    /\ UNCHANGED <<rdOfst, streams>>

(* The codec has written a stream of that size.                             *)
Result(size) ==
    /\ region # NoRegion
    /\ streams' = Append(streams, [addr |-> region.addr, size |-> size])
    /\ wrOfst' = (wrOfst + size) % totalSize
    /\ region' = NoRegion
    /\ UNCHANGED <<rdOfst, lastSizes>>

(* Mutants: the room of all streams is given up with the oldest one's; that *)
(* of a stream only with the next one's.                                    *)
ReadAll(s) == wrOfst
ReadStart(s) == s.addr
ReadOffset(s) == (s.addr + s.size) % totalSize

(* The oldest stream is given back.                                         *)
GiveBack ==
    /\ streams # << >>
    /\ rdOfst' = ReadOffset(Head(streams))
    /\ streams' = Tail(streams)
    /\ UNCHANGED <<wrOfst, region, lastSizes>>

Next == (\E size \in FrameSizes : Alloc(size)) \/ (\E size \in 1 .. MaxStream : Result(size)) \/ GiveBack
Spec == Init /\ [][Next]_ringVars

----------------------------------------------------------------------------
RingTypeOK ==
    /\ wrOfst \in 0 .. totalSize - 1 /\ rdOfst \in 0 .. totalSize - 1
    /\ region \in Regions
    /\ streams \in Seq([addr : 0 .. totalSize - 1, size : 1 .. MaxStream])
    /\ Len(streams) <= NumBufs
    /\ lastSizes \in Seq(FrameSizes) /\ Len(lastSizes) <= NumBufs

Overlap(r, s) == r.addr < s.addr + s.size /\ s.addr < r.addr + r.size

(* The codec never writes over a stream that somebody still reads, although *)
(* equal offsets may mean a full ring or an empty one (line 319 of          *)
(* encLink_h264.c).                                                         *)
StreamsKept ==
    /\ \A i \in DOMAIN streams : ~Overlap(region, streams[i])
    /\ \A i, j \in DOMAIN streams : i # j => ~Overlap(streams[i], streams[j])

(* Whenever the codec is started it has room for the largest stream: none   *)
(* is cut off because the room was taken without a look at its size.        *)
RoomForStream == region # NoRegion => region.size >= MaxStream
=============================================================================
