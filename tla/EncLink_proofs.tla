--------------------------- MODULE EncLink_proofs ---------------------------
(* Proofs about EncLink for any channels, frames, configurations, requests   *)
(* and buffers.                                                              *)
EXTENDS EncLink, SequenceTheorems, FiniteSetTheorems, TLAPS

(***************************************************************************)
(* The inductive invariant of the ring.  The streams lie one behind the     *)
(* other, from the read to the write offset, in the order they were written. *)
(* The ring is flat, or it has wrapped once: then the first k streams lie    *)
(* below top, where the write offset was when it wrapped, and the others at  *)
(* the start.  How far it is from a stream to the write offset is bounded    *)
(* by the number of streams behind it: this is what the sizes are for.       *)
(***************************************************************************)
numStreams == Len(streams)
used == Len(lastSizes)      \* buffers that had a stream before
Far(c) == c * MaxStream     \* the room that c streams take at most
End(i) == streams[i].addr + streams[i].size
InOrder(i, j) == End(i) <= streams[j].addr

Flat ==
    /\ rdOfst <= wrOfst /\ wrOfst - rdOfst <= Far(numStreams)
    /\ \A i \in 1 .. numStreams :
        /\ rdOfst <= streams[i].addr /\ End(i) <= wrOfst
        /\ wrOfst - End(i) <= Far(numStreams - i)
        /\ \A j \in i + 1 .. numStreams : InOrder(i, j)
    /\ numStreams = 0 => rdOfst = wrOfst
    /\ numStreams > 0 => End(numStreams) = wrOfst
    /\ region # R!NoRegion => wrOfst + region.size <= R!totalSize

Wrapped(top, k) ==
    /\ wrOfst <= rdOfst /\ rdOfst <= top
    /\ R!totalSize - BufSize <= top /\ top < R!totalSize
    /\ (top - rdOfst) + wrOfst <= Far(numStreams)
    /\ \A i \in 1 .. k :
        /\ rdOfst <= streams[i].addr /\ End(i) <= top
        /\ (top - End(i)) + wrOfst <= Far(numStreams - i)
        /\ \A j \in i + 1 .. k : InOrder(i, j)
    /\ k = 0 => rdOfst = top
    /\ k > 0 => End(k) = top
    /\ \A i \in k + 1 .. numStreams :
        /\ End(i) <= wrOfst /\ wrOfst - End(i) <= Far(numStreams - i)
        /\ \A j \in i + 1 .. numStreams : InOrder(i, j)
    /\ k < numStreams => End(numStreams) = wrOfst
    /\ region # R!NoRegion => wrOfst + region.size <= rdOfst

(* The codec writes at the write offset, with room for a stream.            *)
Writing ==
    region # R!NoRegion =>
        /\ region.addr = wrOfst /\ region.size >= MaxStream
        /\ wrOfst + MaxStream < R!totalSize /\ numStreams < NumBufs

(* As long as there are new buffers, all streams ever written fit.          *)
Starting ==
    used < NumBufs =>
        /\ Flat
        /\ wrOfst + (IF region = R!NoRegion THEN 0 ELSE MaxStream) <= Far(used)

RingInv ==
    /\ R!RingTypeOK /\ Writing /\ Starting
    /\ Flat \/ \E top \in 0 .. R!totalSize, k \in 0 .. numStreams : Wrapped(top, k)

(***************************************************************************)
(* The arithmetic of the sizes.                                             *)
(***************************************************************************)
LEMMA FarStep ==
  ASSUME MaxStream \in Nat, NEW c \in Int
  PROVE  Far(c) \in Int /\ Far(c + 1) = Far(c) + MaxStream /\ Far(0) = 0
  BY SMT DEF Far

LEMMA TimesNat == ASSUME NEW a \in Nat, NEW b \in Nat PROVE a * b \in Nat
  BY SMT

LEMMA FarGrows ==
  ASSUME MaxStream \in Nat, NEW c \in Int, NEW d \in Int, c <= d
  PROVE  Far(c) <= Far(d)
  <1>1. (d - c) * MaxStream \in Nat
    BY TimesNat
  <1>2. (d - c) * MaxStream = d * MaxStream - c * MaxStream
    BY SMT
  <1>3. c * MaxStream \in Int /\ d * MaxStream \in Int
    OBVIOUS
  <1> QED BY <1>1, <1>2, <1>3 DEF Far

(* All streams fit in the ring with a frame to spare; one is smaller than a  *)
(* frame.                                                                    *)
LEMMA RingSizesOK ==
  ASSUME R!RingAssumption
  PROVE  /\ NumBufs \in Nat /\ NumBufs >= 2 /\ BufSize \in Nat /\ BufSize >= 1
         /\ MaxStream \in Nat /\ MaxStream >= 1 /\ R!totalSize \in Nat
         /\ Far(NumBufs) <= R!totalSize - BufSize /\ Far(NumBufs - 1) + MaxStream = Far(NumBufs)
         /\ Far(NumBufs) \in Int /\ Far(NumBufs - 1) \in Int /\ Far(NumBufs - 1) >= 0
         /\ MaxStream < BufSize /\ BufSize <= R!totalSize
         /\ FrameSizes \subseteq MaxStream .. BufSize
  <1>1. NumBufs \in Nat /\ NumBufs >= 2 /\ BufSize \in Nat /\ BufSize >= 1
        /\ MaxStream \in Nat /\ MaxStream >= 1
    BY DEF R!RingAssumption
  <1>2. R!totalSize \in Nat
    BY <1>1, TimesNat DEF R!totalSize
  <1>3. BufSize * (NumBufs - 1) = R!totalSize - BufSize
    BY <1>1 DEF R!totalSize
  <1>4. MaxStream * NumBufs = Far(NumBufs)
    BY <1>1 DEF Far
  <1>5. MaxStream * NumBufs <= BufSize * (NumBufs - 1)
    BY DEF R!RingAssumption
  <1>6. Far(NumBufs - 1) \in Int /\ Far((NumBufs - 1) + 1) = Far(NumBufs - 1) + MaxStream
    BY <1>1, FarStep
  <1>7. (NumBufs - 1) + 1 = NumBufs
    BY <1>1
  <1>8. MaxStream < BufSize
    <2> SUFFICES ASSUME BufSize <= MaxStream PROVE FALSE
      BY <1>1
    <2>1. (MaxStream - BufSize) * NumBufs \in Nat
      BY <1>1, TimesNat
    <2>2. (MaxStream - BufSize) * NumBufs = MaxStream * NumBufs - R!totalSize
      BY <1>1 DEF R!totalSize
    <2>3. MaxStream * NumBufs \in Int
      BY <1>1
    <2> QED BY <1>1, <1>2, <1>3, <1>5, <2>1, <2>2, <2>3
  <1>9. Far(NumBufs) \in Int /\ Far(NumBufs - 1) >= 0
    <2>1. 0 \in Int /\ NumBufs - 1 \in Int /\ 0 <= NumBufs - 1 /\ NumBufs \in Int
      BY <1>1
    <2> QED BY <1>1, <2>1, FarStep, FarGrows
  <1>10. BufSize <= R!totalSize
    <2>1. BufSize * (NumBufs - 1) \in Nat
      BY <1>1, TimesNat
    <2> QED BY <1>1, <1>2, <1>3, <2>1
  <1>11. FrameSizes \subseteq MaxStream .. BufSize
    BY DEF R!RingAssumption
  <1> QED BY <1>1, <1>2, <1>3, <1>4, <1>5, <1>6, <1>7, <1>8, <1>9, <1>10, <1>11

LEMMA ModSmall ==
  ASSUME NEW m \in Nat, NEW i \in Nat, i < m
  PROVE  i % m = i
  BY SMT

LEMMA RingTypes ==
  ASSUME R!RingAssumption, R!RingTypeOK
  PROVE  /\ numStreams \in Nat /\ numStreams <= NumBufs /\ wrOfst \in Nat /\ rdOfst \in Nat
         /\ wrOfst < R!totalSize /\ rdOfst < R!totalSize /\ used \in Nat /\ used <= NumBufs
         /\ region.addr \in Nat /\ region.size \in Nat
         /\ \A i \in 1 .. numStreams :
               /\ streams[i] \in [addr : 0 .. R!totalSize - 1, size : 1 .. MaxStream]
               /\ streams[i].addr \in Nat /\ streams[i].size \in Nat
               /\ 1 <= streams[i].size /\ streams[i].size <= MaxStream
               /\ End(i) \in Nat
         /\ Far(numStreams) \in Int /\ Far(used) \in Int
  <1>1. Len(streams) \in Nat
    BY LenProperties DEF R!RingTypeOK
  <1>2. \A i \in 1 .. numStreams :
           streams[i] \in [addr : 0 .. R!totalSize - 1, size : 1 .. MaxStream]
    BY ElementOfSeq DEF R!RingTypeOK, numStreams
  <1>3. used \in Nat /\ numStreams \in Int
    BY <1>1, LenProperties DEF R!RingTypeOK, numStreams, used
  <1>4. Far(numStreams) \in Int /\ Far(used) \in Int
    BY <1>3, RingSizesOK, FarStep
  <1>5. /\ wrOfst \in Nat /\ rdOfst \in Nat /\ wrOfst < R!totalSize /\ rdOfst < R!totalSize
        /\ used \in Nat /\ used <= NumBufs /\ region.addr \in Nat /\ region.size \in Nat
        /\ numStreams \in Nat /\ numStreams <= NumBufs
    <2>1. /\ wrOfst \in 0 .. R!totalSize - 1 /\ rdOfst \in 0 .. R!totalSize - 1
          /\ used \in 0 .. NumBufs /\ R!totalSize \in Nat /\ NumBufs \in Nat
      BY <1>3, RingSizesOK DEF R!RingTypeOK, used
    <2>2. region.addr \in 0 .. R!totalSize /\ region.size \in 0 .. R!totalSize
      BY DEF R!RingTypeOK, R!Regions
    <2>3. numStreams \in Nat /\ numStreams <= NumBufs
      BY <1>1 DEF R!RingTypeOK, numStreams
    <2> QED BY <2>1, <2>2, <2>3
  <1>6. ASSUME NEW i \in 1 .. numStreams
        PROVE  /\ streams[i].addr \in Nat /\ streams[i].size \in Nat
               /\ 1 <= streams[i].size /\ streams[i].size <= MaxStream /\ End(i) \in Nat
    <2>1. streams[i].addr \in 0 .. R!totalSize - 1 /\ streams[i].size \in 1 .. MaxStream
      BY <1>2
    <2> QED BY <2>1, RingSizesOK DEF End
  <1> QED BY <1>2, <1>4, <1>5, <1>6

LEMMA RingInvInit == ASSUME R!RingAssumption, R!Init PROVE RingInv
  <1>1. R!RingTypeOK
    <2>1. << >> \in Seq([addr : 0 .. R!totalSize - 1, size : 1 .. MaxStream]) /\ Len(<< >>) = 0
      OBVIOUS
    <2>2. R!NoRegion \in R!Regions
      BY RingSizesOK DEF R!NoRegion, R!Regions
    <2>3. << >> \in Seq(FrameSizes)
      OBVIOUS
    <2> QED BY <2>1, <2>2, <2>3, RingSizesOK DEF R!Init, R!RingTypeOK
  <1>2. numStreams = 0
    BY DEF R!Init, numStreams
  <1>3. Far(0) = 0
    BY RingSizesOK, FarStep
  <1>4. Flat
    BY <1>2, <1>3, RingSizesOK DEF R!Init, Flat
  <1>5. Writing /\ Starting
    BY <1>3, <1>4, RingSizesOK DEF R!Init, Writing, Starting, used
  <1> QED BY <1>1, <1>4, <1>5 DEF RingInv

(***************************************************************************)
(* The steps.                                                               *)
(***************************************************************************)
LEMMA RoomWhenFlat ==
  ASSUME R!RingAssumption, RingInv, Flat, numStreams < NumBufs
  PROVE  wrOfst - rdOfst <= Far(NumBufs - 1)
  <1>1. numStreams \in Int /\ NumBufs - 1 \in Int /\ numStreams <= NumBufs - 1
    BY RingTypes, RingSizesOK DEF RingInv
  <1>2. Far(numStreams) <= Far(NumBufs - 1)
    BY <1>1, RingSizesOK, FarGrows
  <1> QED BY <1>2, RingTypes, RingSizesOK DEF RingInv, Flat

(* What ends the ring is no more than a buffer, and room for a stream once   *)
(* all buffers have been used.                                              *)
LEMMA TerminationOK ==
  ASSUME R!RingAssumption, R!RingTypeOK
  PROVE  /\ R!TerminationSize \in Nat /\ R!TerminationSize <= BufSize
         /\ used < NumBufs => R!TerminationSize = 0
         /\ ~(used < NumBufs) => MaxStream <= R!TerminationSize
  <1>1. lastSizes \in Seq(FrameSizes) /\ FrameSizes \subseteq MaxStream .. BufSize
    BY RingSizesOK DEF R!RingTypeOK
  <1>2. CASE used < NumBufs
    BY <1>2, RingSizesOK DEF R!TerminationSize, used
  <1>3. CASE ~(used < NumBufs)
    <2>1. used \in Nat /\ used > 0
      BY <1>3, RingTypes, RingSizesOK
    <2>2. lastSizes # << >>
      BY <1>1, <2>1, EmptySeq DEF used
    <2>3. Head(lastSizes) \in MaxStream .. BufSize
      BY <1>1, <2>2, HeadTailProperties
    <2> QED BY <1>3, <2>3, RingSizesOK DEF R!TerminationSize, used
  <1> QED BY <1>2, <1>3

(* The buffers' sizes after one more frame.                                  *)
LEMMA KeepSizeOK ==
  ASSUME R!RingAssumption, R!RingTypeOK, NEW size \in FrameSizes
  PROVE  /\ R!KeepSize(size) \in Seq(FrameSizes)
         /\ Len(R!KeepSize(size)) = IF used < NumBufs THEN used + 1 ELSE used
  <1>1. lastSizes \in Seq(FrameSizes) /\ used \in Nat
    BY RingTypes DEF R!RingTypeOK
  <1>2. CASE used < NumBufs
    <2>1. R!KeepSize(size) = Append(lastSizes, size)
      BY <1>2 DEF R!KeepSize, used
    <2>2. Append(lastSizes, size) \in Seq(FrameSizes) /\ Len(Append(lastSizes, size)) = used + 1
      BY <1>1, AppendProperties DEF used
    <2> QED BY <1>2, <2>1, <2>2
  <1>3. CASE ~(used < NumBufs)
    <2>1. lastSizes # << >>
      BY <1>1, <1>3, RingTypes, RingSizesOK, EmptySeq DEF used
    <2>2. Tail(lastSizes) \in Seq(FrameSizes) /\ Len(Tail(lastSizes)) = used - 1
      BY <1>1, <2>1, HeadTailProperties DEF used
    <2>3. R!KeepSize(size) = Append(Tail(lastSizes), size)
      BY <1>3 DEF R!KeepSize, used
    <2>4. /\ Append(Tail(lastSizes), size) \in Seq(FrameSizes)
          /\ Len(Append(Tail(lastSizes), size)) = (used - 1) + 1
      BY <2>2, AppendProperties
    <2> QED BY <1>1, <1>3, <2>3, <2>4
  <1> QED BY <1>2, <1>3

LEMMA AllocKeepsRing ==
  ASSUME R!RingAssumption, RingInv, NEW size \in FrameSizes, R!Alloc(size) PROVE RingInv'
  <1>0. /\ region = R!NoRegion /\ numStreams < NumBufs /\ numStreams' = numStreams
        /\ streams' = streams /\ rdOfst' = rdOfst
        /\ used' = IF used < NumBufs THEN used + 1 ELSE used
        /\ \A i : End(i)' = End(i)
    BY KeepSizeOK DEF R!Alloc, RingInv, numStreams, End, used
  <1>1. lastSizes' \in Seq(FrameSizes) /\ used' \in 0 .. NumBufs
    <2>1. lastSizes' = R!KeepSize(size)
      BY DEF R!Alloc
    <2>2. lastSizes' \in Seq(FrameSizes)
      BY <2>1, KeepSizeOK DEF RingInv
    <2>3. used \in Nat /\ used <= NumBufs /\ NumBufs \in Nat
      BY RingTypes, RingSizesOK DEF RingInv
    <2> QED BY <1>0, <2>2, <2>3
  <1>2. ASSUME NEW r \in R!Regions, region' = r, wrOfst' \in 0 .. R!totalSize - 1
        PROVE  R!RingTypeOK'
    BY <1>0, <1>1, <1>2 DEF RingInv, R!RingTypeOK, used
  <1>3. CASE Flat /\ R!TerminationSize < R!totalSize - wrOfst /\ wrOfst' = wrOfst
             /\ region' = R!RoomToEnd(wrOfst)
    <2>1. /\ region'.addr = wrOfst /\ region'.size = R!totalSize - wrOfst /\ region' \in R!Regions
      BY <1>3, RingTypes, RingSizesOK DEF R!RoomToEnd, RingInv, R!Regions
    <2>2. R!RingTypeOK'
      BY <1>2, <1>3, <2>1 DEF RingInv, R!RingTypeOK
    <2>3. Flat'
      BY <1>0, <1>3, <2>1, RingTypes, RingSizesOK DEF Flat, InOrder, RingInv
    <2>4. wrOfst + MaxStream < R!totalSize
      <3>1. CASE used < NumBufs
        <4>1. wrOfst <= Far(used)
          BY <1>0, <3>1, RingTypes DEF RingInv, Starting
        <4>2. used \in Int /\ NumBufs - 1 \in Int /\ used <= NumBufs - 1
          BY <3>1, RingTypes, RingSizesOK DEF RingInv
        <4>3. Far(used) <= Far(NumBufs - 1)
          BY <4>2, RingSizesOK, FarGrows
        <4> QED BY <4>1, <4>3, RingTypes, RingSizesOK DEF RingInv
      <3>2. CASE ~(used < NumBufs)
        BY <1>3, <3>2, TerminationOK, RingTypes, RingSizesOK DEF RingInv
      <3> QED BY <3>1, <3>2
    <2>5. Writing'
      BY <1>0, <1>3, <2>1, <2>4, RingTypes, RingSizesOK DEF Writing, RingInv
    <2>6. Starting'
      <3> SUFFICES ASSUME used' < NumBufs
                   PROVE  wrOfst + (IF region' = R!NoRegion THEN 0 ELSE MaxStream) <= Far(used')
        BY <1>3, <2>3 DEF Starting
      <3>1. used < NumBufs /\ used' = used + 1
        BY <1>0, RingTypes, RingSizesOK DEF RingInv
      <3>2. wrOfst <= Far(used)
        BY <1>0, <3>1, RingTypes DEF RingInv, Starting
      <3>3. used \in Int
        BY RingTypes DEF RingInv
      <3>4. Far(used + 1) = Far(used) + MaxStream /\ Far(used) \in Int
        BY <3>3, RingSizesOK, FarStep
      <3> QED BY <3>1, <3>2, <3>4, RingTypes, RingSizesOK DEF RingInv
    <2> QED BY <2>2, <2>3, <2>5, <2>6 DEF RingInv
  <1>4. CASE Flat /\ R!totalSize - wrOfst <= R!TerminationSize /\ wrOfst' = 0
             /\ region' = R!RoomToRead(0)
    <2>1. ~(used < NumBufs) /\ R!totalSize - wrOfst <= BufSize
      BY <1>4, TerminationOK, RingTypes, RingSizesOK DEF RingInv
    <2>2. wrOfst - rdOfst <= Far(NumBufs - 1)
      BY <1>0, <1>4, RoomWhenFlat
    <2>3. rdOfst >= MaxStream
      BY <2>1, <2>2, RingTypes, RingSizesOK DEF RingInv
    <2>4. region'.addr = 0 /\ region'.size = rdOfst /\ region' \in R!Regions
      BY <1>4, RingTypes, RingSizesOK DEF R!RoomToRead, RingInv, R!Regions
    <2>5. R!RingTypeOK'
      BY <1>2, <1>4, <2>4, RingSizesOK
    <2>6. Writing'
      BY <1>0, <1>4, <2>3, <2>4, RingSizesOK DEF Writing
    <2>7. Starting'
      BY <1>0, <2>1 DEF Starting
    <2>8. PICK top \in 0 .. R!totalSize, k \in 0 .. numStreams : top = wrOfst /\ k = numStreams
      <3>1. wrOfst \in 0 .. R!totalSize /\ numStreams \in 0 .. numStreams
        BY RingTypes, RingSizesOK DEF RingInv
      <3> QED BY <3>1
    <2>9. Wrapped(top, k)'
      <3>1. /\ wrOfst \in Nat /\ rdOfst \in Nat /\ numStreams \in Nat
            /\ \A i \in 1 .. numStreams : End(i) \in Nat
            /\ wrOfst < R!totalSize
        BY RingTypes DEF RingInv
      <3>2. k + 1 .. numStreams = {}
        BY <2>8, <3>1
      <3>3. /\ wrOfst' = 0 /\ numStreams' = numStreams /\ rdOfst' = rdOfst /\ streams' = streams
            /\ region'.size = rdOfst /\ Flat
        BY <1>0, <1>4, <2>4
      <3>4. \A i \in 1 .. k :
              /\ rdOfst <= streams[i].addr /\ End(i) <= top
              /\ (top - End(i)) + 0 <= Far(numStreams - i)
              /\ \A j \in i + 1 .. k : InOrder(i, j)
        BY <2>8, <3>1, <3>3, RingTypes, RingSizesOK DEF Flat, RingInv
      <3> QED BY <1>0, <2>1, <2>8, <3>1, <3>2, <3>3, <3>4, RingSizesOK DEF Flat, Wrapped, InOrder, End
    <2> QED BY <2>5, <2>6, <2>7, <2>8, <2>9, <1>0 DEF RingInv
  <1>5. ASSUME NEW top \in 0 .. R!totalSize, NEW k \in 0 .. numStreams, Wrapped(top, k),
               UNCHANGED wrOfst, region' = R!RoomToRead(wrOfst)
        PROVE  RingInv'
    <2>1. rdOfst - wrOfst >= MaxStream
      <3>1. numStreams \in Int /\ NumBufs - 1 \in Int /\ numStreams <= NumBufs - 1
        BY <1>0, RingTypes, RingSizesOK DEF RingInv
      <3>2. Far(numStreams) <= Far(NumBufs - 1)
        BY <3>1, RingSizesOK, FarGrows
      <3> QED BY <1>5, <3>2, RingTypes, RingSizesOK DEF RingInv, Wrapped
    <2>2. region'.addr = wrOfst /\ region'.size = rdOfst - wrOfst /\ region' \in R!Regions
      BY <1>5, <2>1, RingTypes, RingSizesOK DEF R!RoomToRead, RingInv, R!Regions
    <2>3. R!RingTypeOK'
      BY <1>2, <1>5, <2>2 DEF RingInv, R!RingTypeOK
    <2>4. Writing'
      BY <1>0, <1>5, <2>1, <2>2, RingTypes, RingSizesOK DEF Writing, RingInv, Wrapped
    <2>5. Wrapped(top, k)'
      BY <1>0, <1>5, <2>2, RingTypes, RingSizesOK DEF RingInv, Wrapped, InOrder
    <2>6. ~(used < NumBufs)
      <3>1. ~Flat
        BY <1>5, <2>1, RingTypes, RingSizesOK DEF RingInv, Flat
      <3> QED BY <3>1 DEF RingInv, Starting
    <2>7. Starting'
      BY <1>0, <2>6 DEF Starting
    <2> QED BY <1>0, <2>3, <2>4, <2>5, <2>7 DEF RingInv
  <1>6. CASE Flat
    <2>1. ~(wrOfst < rdOfst)
      BY <1>6, RingTypes DEF Flat, RingInv
    <2>2. \/ R!totalSize - wrOfst <= R!TerminationSize
          \/ R!TerminationSize < R!totalSize - wrOfst
      BY TerminationOK, RingTypes, RingSizesOK DEF RingInv
    <2> QED BY <1>3, <1>4, <1>6, <2>1, <2>2 DEF R!Alloc
  <1>7. ASSUME NEW top \in 0 .. R!totalSize, NEW k \in 0 .. numStreams, Wrapped(top, k)
        PROVE  RingInv'
    <2>1. wrOfst < rdOfst
      <3>1. numStreams \in Int /\ NumBufs - 1 \in Int /\ numStreams <= NumBufs - 1
        BY <1>0, RingTypes, RingSizesOK DEF RingInv
      <3>2. Far(numStreams) <= Far(NumBufs - 1)
        BY <3>1, RingSizesOK, FarGrows
      <3> QED BY <1>7, <3>2, RingTypes, RingSizesOK DEF RingInv, Wrapped
    <2> QED BY <1>5, <1>7, <2>1 DEF R!Alloc
  <1> QED BY <1>6, <1>7 DEF RingInv

LEMMA ResultKeepsRing ==
  ASSUME R!RingAssumption, RingInv, NEW size \in 1 .. MaxStream, R!Result(size) PROVE RingInv'
  <1> DEFINE new == [addr |-> wrOfst, size |-> size]
             StreamType == [addr : 0 .. R!totalSize - 1, size : 1 .. MaxStream]
  <1>00. PICK m \in Nat : m = numStreams
    BY RingTypes DEF RingInv
  <1>0. /\ size \in Nat /\ 1 <= size /\ size <= MaxStream
        /\ region # R!NoRegion /\ region.addr = wrOfst /\ region.size >= MaxStream
        /\ wrOfst + MaxStream < R!totalSize /\ m < NumBufs
    BY <1>00, RingSizesOK DEF R!Result, RingInv, Writing
  <1>1. /\ streams \in Seq(StreamType) /\ new \in StreamType
        /\ streams' = Append(streams, new) /\ region' = R!NoRegion
        /\ rdOfst' = rdOfst /\ lastSizes' = lastSizes /\ used' = used
    BY <1>00, <1>0, RingTypes DEF R!Result, RingInv, R!RingTypeOK, used
  <1>2. wrOfst' = wrOfst + size
    <2>1. wrOfst + size \in Nat /\ wrOfst + size < R!totalSize /\ R!totalSize \in Nat
      BY <1>00, <1>0, RingTypes, RingSizesOK DEF RingInv
    <2> QED BY <1>00, <2>1, ModSmall DEF R!Result
  <1> HIDE DEF StreamType
  <1>3. /\ numStreams' = m + 1 /\ streams' \in Seq(StreamType)
        /\ \A i \in 1 .. m : streams'[i] = streams[i]
        /\ streams'[m + 1] = new
    BY <1>00, <1>1, AppendProperties DEF numStreams
  <1>4. R!RingTypeOK'
    <2>1. wrOfst' \in 0 .. R!totalSize - 1
      BY <1>00, <1>0, <1>2, RingTypes, RingSizesOK DEF RingInv
    <2>2. R!NoRegion \in R!Regions
      BY <1>00, RingSizesOK DEF R!NoRegion, R!Regions
    <2>3. Len(streams') <= NumBufs
      <3>1. Len(streams') = m + 1
        BY <1>3 DEF numStreams
      <3>2. m \in Nat /\ m < NumBufs /\ NumBufs \in Nat
        BY <1>00, <1>0, RingSizesOK
      <3> QED BY <3>1, <3>2
    <2> QED BY <1>00, <1>1, <1>3, <2>1, <2>2, <2>3 DEF RingInv, R!RingTypeOK, StreamType
  <1>5. Writing'
    BY <1>00, <1>1 DEF Writing
  <1>6. /\ \A i \in 1 .. m : End(i)' = End(i)
        /\ End(m + 1)' = wrOfst + size
    BY <1>00, <1>3 DEF End
  <1>7. ASSUME NEW i \in 1 .. m
        PROVE  /\ Far((m + 1) - i) = Far(m - i) + MaxStream /\ Far(m - i) \in Int
               /\ streams[i].addr \in Nat /\ End(i) \in Nat
    <2>1. m - i \in Int /\ (m - i) + 1 = (m + 1) - i
      BY <1>00, RingTypes DEF RingInv
    <2>2. Far((m - i) + 1) = Far(m - i) + MaxStream /\ Far(m - i) \in Int
      BY <1>00, <2>1, RingSizesOK, FarStep
    <2> QED BY <1>00, <2>1, <2>2, RingTypes DEF RingInv
  <1>8. /\ Far(m + 1) = Far(m) + MaxStream /\ Far((m + 1) - (m + 1)) = 0
        /\ Far(m) \in Int /\ m \in Nat
    <2>1. m \in Int /\ (m + 1) - (m + 1) = 0
      BY <1>00, RingTypes DEF RingInv
    <2> QED BY <1>00, <2>1, RingSizesOK, FarStep, RingTypes DEF RingInv
  <1>9. CASE Flat
    <2>1. Flat'
      <3>1. /\ rdOfst <= wrOfst + size /\ (wrOfst + size) - rdOfst <= Far(m + 1)
        BY <1>00, <1>0, <1>8, <1>9, RingTypes, RingSizesOK DEF RingInv, Flat
      <3>2. ASSUME NEW i \in 1 .. m + 1
            PROVE  /\ rdOfst <= streams'[i].addr /\ End(i)' <= wrOfst + size
                   /\ (wrOfst + size) - End(i)' <= Far((m + 1) - i)
        <4>1. CASE i = m + 1
          <5>1. streams'[i].addr = wrOfst /\ End(i)' = wrOfst + size
            BY <1>3, <1>6, <4>1
          <5>2. Far((m + 1) - i) = 0
            BY <1>8, <4>1
          <5>3. rdOfst <= wrOfst /\ wrOfst \in Nat /\ rdOfst \in Nat /\ size \in Nat
            BY <1>0, <1>9, RingTypes DEF RingInv, Flat
          <5> QED BY <5>1, <5>2, <5>3
        <4>2. CASE i # m + 1
          <5>1. i \in 1 .. m
            BY <1>00, <1>8, <4>2
          <5>2. /\ rdOfst <= streams[i].addr /\ End(i) <= wrOfst
                /\ wrOfst - End(i) <= Far(m - i)
            BY <1>00, <1>9, <5>1 DEF Flat
          <5>3. wrOfst \in Nat
            BY RingTypes DEF RingInv
          <5>4. End(i) \in Nat /\ Far(m - i) \in Int /\ MaxStream \in Nat
                /\ Far((m + 1) - i) = Far(m - i) + MaxStream
            BY <1>7, <5>1, RingSizesOK
          <5>5. End(i) <= wrOfst + size /\ (wrOfst + size) - End(i) <= Far((m + 1) - i)
            BY <1>0, <5>2, <5>3, <5>4
          <5> QED BY <1>3, <1>6, <5>1, <5>2, <5>5
        <4> QED BY <1>00, <4>1, <4>2
      <3>3. ASSUME NEW i \in 1 .. m + 1, NEW j \in i + 1 .. m + 1 PROVE InOrder(i, j)'
        <4>1. i \in 1 .. m
          BY <1>00, <1>8
        <4>2. CASE j = m + 1
          BY <1>00, <1>3, <1>6, <1>9, <4>1, <4>2 DEF Flat, InOrder
        <4>3. CASE j # m + 1
          <5>1. j \in i + 1 .. m /\ j \in 1 .. m
            BY <1>00, <1>8, <4>1, <4>3
          <5> QED BY <1>00, <1>3, <1>6, <1>9, <4>1, <5>1 DEF Flat, InOrder
        <4> QED BY <1>00, <4>2, <4>3
      <3>4. m + 1 # 0 /\ End(m + 1)' = wrOfst'
        BY <1>00, <1>2, <1>6, <1>8
      <3> QED BY <1>00, <1>1, <1>2, <1>3, <3>1, <3>2, <3>3, <3>4 DEF Flat
    <2>2. Starting'
      <3>1. wrOfst \in Nat /\ Far(used) \in Int /\ MaxStream \in Nat
        BY RingTypes, RingSizesOK DEF RingInv
      <3>2. used < NumBufs => wrOfst + MaxStream <= Far(used)
        BY <1>0 DEF RingInv, Starting
      <3>3. used < NumBufs => wrOfst + size <= Far(used)
        BY <1>0, <3>1, <3>2
      <3>4. used < NumBufs => wrOfst' + 0 <= Far(used')
        BY <1>0, <1>1, <1>2, <3>1, <3>3
      <3> QED BY <1>1, <2>1, <3>4 DEF Starting
    <2> QED BY <1>00, <1>4, <1>5, <2>1, <2>2 DEF RingInv
  <1>10. ASSUME NEW top \in 0 .. R!totalSize, NEW k \in 0 .. numStreams, Wrapped(top, k)
         PROVE  RingInv'
    <2>0. wrOfst + size <= rdOfst
      BY <1>00, <1>0, <1>10, RingTypes, RingSizesOK DEF Wrapped, RingInv
    <2>1. Wrapped(top, k)'
      <3>1. (top - rdOfst) + (wrOfst + size) <= Far(m + 1)
        BY <1>00, <1>0, <1>8, <1>10, RingTypes, RingSizesOK DEF RingInv, Wrapped
      <3>2. ASSUME NEW i \in 1 .. k
            PROVE  /\ rdOfst <= streams'[i].addr /\ End(i)' <= top
                   /\ (top - End(i)') + (wrOfst + size) <= Far((m + 1) - i)
                   /\ \A j \in i + 1 .. k : InOrder(i, j)'
        <4>1. i \in 1 .. m /\ \A j \in i + 1 .. k : j \in 1 .. m
          BY <1>00, <1>8
        <4>2. /\ rdOfst <= streams[i].addr /\ End(i) <= top
              /\ (top - End(i)) + wrOfst <= Far(m - i)
              /\ \A j \in i + 1 .. k : InOrder(i, j)
          BY <1>00, <1>10 DEF Wrapped
        <4>3. (top - End(i)) + (wrOfst + size) <= Far((m + 1) - i)
          BY <1>00, <1>0, <1>7, <4>1, <4>2, RingTypes, RingSizesOK DEF RingInv
        <4> QED BY <1>00, <1>3, <1>6, <4>1, <4>2, <4>3 DEF InOrder
      <3>3. ASSUME NEW i \in k + 1 .. m + 1
            PROVE  /\ End(i)' <= wrOfst + size /\ (wrOfst + size) - End(i)' <= Far((m + 1) - i)
                   /\ \A j \in i + 1 .. m + 1 : InOrder(i, j)'
        <4>1. CASE i = m + 1
          BY <1>00, <1>6, <1>8, <4>1, <1>0, RingTypes DEF RingInv
        <4>2. CASE i # m + 1
          <5>1. i \in k + 1 .. m /\ i \in 1 .. m
            BY <1>00, <1>8, <4>2
          <5>2. /\ End(i) <= wrOfst /\ wrOfst - End(i) <= Far(m - i)
                /\ \A j \in i + 1 .. m : InOrder(i, j)
            BY <1>00, <1>10, <5>1 DEF Wrapped
          <5>3. /\ End(i)' <= wrOfst + size /\ (wrOfst + size) - End(i)' <= Far((m + 1) - i)
            BY <1>00, <1>0, <1>6, <1>7, <5>1, <5>2, RingTypes, RingSizesOK DEF RingInv
          <5>4. ASSUME NEW j \in i + 1 .. m + 1 PROVE InOrder(i, j)'
            <6>1. CASE j = m + 1
              BY <1>00, <1>3, <1>6, <5>1, <5>2, <6>1 DEF InOrder
            <6>2. CASE j # m + 1
              <7>1. j \in i + 1 .. m /\ j \in 1 .. m
                BY <1>00, <1>8, <5>1, <6>2
              <7> QED BY <1>00, <1>3, <1>6, <5>1, <5>2, <7>1 DEF InOrder
            <6> QED BY <1>00, <6>1, <6>2
          <5> QED BY <1>00, <5>3, <5>4
        <4> QED BY <1>00, <4>1, <4>2
      <3>4. /\ k > 0 => End(k)' = top
            /\ k < m + 1 => End(m + 1)' = wrOfst'
        <4>1. k > 0 => k \in 1 .. m
          BY <1>00, <1>8
        <4> QED BY <1>00, <1>2, <1>6, <1>10, <4>1 DEF Wrapped
      <3>5. /\ rdOfst <= top /\ R!totalSize - BufSize <= top /\ top < R!totalSize
            /\ k = 0 => rdOfst = top
        BY <1>00, <1>10 DEF Wrapped
      <3> QED BY <1>00, <1>1, <1>2, <1>3, <2>0, <3>1, <3>2, <3>3, <3>4, <3>5 DEF Wrapped
    <2>2. k \in 0 .. numStreams'
      BY <1>00, <1>3, <1>8
    <2>3. Starting'
      <3>1. wrOfst # rdOfst
        BY <1>00, <1>0, <2>0, RingTypes DEF RingInv
      <3>2. ~Flat
        BY <1>00, <1>0, <2>0, RingTypes DEF RingInv, Flat
      <3> QED BY <1>00, <1>1, <3>2 DEF RingInv, Starting
    <2> QED BY <1>00, <1>4, <1>5, <2>1, <2>2, <2>3 DEF RingInv
  <1> QED BY <1>00, <1>9, <1>10 DEF RingInv

(* The oldest stream goes; the others move up by one.                        *)
LEMMA GiveBackKeepsRing ==
  ASSUME R!RingAssumption, RingInv, R!GiveBack PROVE RingInv'
  <1> DEFINE StreamType == [addr : 0 .. R!totalSize - 1, size : 1 .. MaxStream]
  <1>0. PICK m \in Nat : m = numStreams
    BY RingTypes DEF RingInv
  <1>1. /\ streams \in Seq(StreamType) /\ streams # << >> /\ streams' = Tail(streams)
        /\ wrOfst' = wrOfst /\ region' = region
        /\ lastSizes' = lastSizes /\ used' = used
    BY DEF R!GiveBack, RingInv, R!RingTypeOK, used
  <1> HIDE DEF StreamType
  <1>2. /\ streams' \in Seq(StreamType) /\ numStreams' = m - 1 /\ m > 0 /\ Head(streams) = streams[1]
        /\ \A i \in 1 .. m - 1 : streams'[i] = streams[i + 1]
    BY <1>0, <1>1, HeadTailProperties, EmptySeq, LenProperties DEF numStreams
  <1>3. \A i \in 1 .. m - 1 : End(i)' = End(i + 1) /\ i + 1 \in 1 .. m
    BY <1>2 DEF End
  <1>4. /\ m <= NumBufs /\ End(1) \in Nat /\ End(1) < R!totalSize
        /\ \A i \in 1 .. m : End(i) \in Nat /\ streams[i].addr \in Nat
    <2>1. 1 \in 1 .. m
      BY <1>2
    <2>2. /\ m <= NumBufs /\ wrOfst < R!totalSize /\ wrOfst \in Nat /\ R!totalSize \in Nat
          /\ \A i \in 1 .. m : End(i) \in Nat /\ streams[i].addr \in Nat
      BY <1>0, RingTypes, RingSizesOK DEF RingInv
    <2>3. CASE Flat
      BY <1>0, <2>1, <2>2, <2>3 DEF Flat
    <2>4. ASSUME NEW top \in 0 .. R!totalSize, NEW k \in 0 .. m, Wrapped(top, k)
          PROVE  End(1) < R!totalSize
      <3>1. CASE k = 0
        <4>1. 1 \in k + 1 .. m
          BY <1>2, <3>1
        <4>2. End(1) <= wrOfst
          BY <1>0, <2>4, <4>1 DEF Wrapped
        <4> QED BY <2>1, <2>2, <4>2
      <3>2. CASE k # 0
        <4>1. 1 \in 1 .. k
          BY <3>2
        <4>2. End(1) <= top /\ top < R!totalSize
          BY <2>4, <4>1 DEF Wrapped
        <4> QED BY <2>1, <2>2, <4>2
      <3> QED BY <3>1, <3>2
    <2> QED BY <1>0, <2>1, <2>2, <2>3, <2>4 DEF RingInv
  <1>5. rdOfst' = End(1)
    <2>1. R!totalSize \in Nat
      BY RingSizesOK
    <2> QED BY <1>2, <1>4, <2>1, ModSmall DEF R!GiveBack, R!ReadOffset, End
  <1>6. R!RingTypeOK'
    <2>1. rdOfst' \in 0 .. R!totalSize - 1
      BY <1>4, <1>5, RingSizesOK
    <2>2. Len(streams') <= NumBufs
      BY <1>0, <1>2, <1>4, RingSizesOK DEF numStreams
    <2> QED BY <1>1, <1>2, <2>1, <2>2 DEF RingInv, R!RingTypeOK, StreamType
  <1>7. Writing'
    BY <1>0, <1>1, <1>2, RingSizesOK DEF RingInv, Writing
  <1>8. wrOfst \in Nat /\ wrOfst < R!totalSize /\ R!totalSize \in Nat
    BY RingTypes, RingSizesOK DEF RingInv
  <1>9. ASSUME \A i \in 1 .. m :
                  /\ End(i) <= wrOfst /\ wrOfst - End(i) <= Far(m - i)
                  /\ \A j \in i + 1 .. m : InOrder(i, j),
               End(m) = wrOfst,
               region # R!NoRegion => wrOfst + region.size <= R!totalSize
        PROVE  RingInv'
    <2>1. End(1) <= wrOfst /\ wrOfst - End(1) <= Far(m - 1)
      BY <1>2, <1>9
    <2>2. ASSUME NEW i \in 1 .. m - 1
          PROVE  /\ End(1) <= streams'[i].addr /\ End(i)' <= wrOfst
                 /\ wrOfst - End(i)' <= Far((m - 1) - i)
                 /\ \A j \in i + 1 .. m - 1 : InOrder(i, j)'
      <3>1. i + 1 \in 1 .. m /\ m - (i + 1) = (m - 1) - i /\ i + 1 \in 1 + 1 .. m /\ 1 \in 1 .. m
        BY <1>2
      <3>2. End(1) <= streams[i + 1].addr
        BY <1>9, <3>1 DEF InOrder
      <3>3. ASSUME NEW j \in i + 1 .. m - 1 PROVE InOrder(i, j)'
        <4>1. j \in 1 .. m - 1 /\ j + 1 \in (i + 1) + 1 .. m
          BY <3>1
        <4>2. InOrder(i + 1, j + 1)
          BY <1>9, <3>1, <4>1
        <4> QED BY <1>2, <1>3, <4>1, <4>2 DEF InOrder
      <3> QED BY <1>2, <1>3, <1>9, <3>1, <3>2, <3>3
    <2>3. /\ m - 1 = 0 => End(1) = wrOfst
          /\ m - 1 > 0 => End(m - 1)' = wrOfst
      <3>2. CASE m - 1 = 0
        BY <1>9, <3>2
      <3>3. CASE m - 1 > 0
        <4>1. m - 1 \in 1 .. m - 1 /\ (m - 1) + 1 = m
          BY <3>3
        <4> QED BY <1>3, <1>9, <3>3, <4>1
      <3> QED BY <3>2, <3>3, <1>2
    <2>4. Flat'
      BY <1>1, <1>2, <1>5, <2>1, <2>2, <2>3, <1>9 DEF Flat
    <2>5. Starting'
      <3>1. used < NumBufs => wrOfst + (IF region = R!NoRegion THEN 0 ELSE MaxStream) <= Far(used)
        BY DEF RingInv, Starting
      <3> QED BY <1>1, <2>4, <3>1 DEF Starting
    <2> QED BY <1>6, <1>7, <2>4, <2>5 DEF RingInv
  <1>10. CASE Flat
    BY <1>0, <1>2, <1>9, <1>10 DEF Flat
  <1>11. ASSUME NEW top \in 0 .. R!totalSize, Wrapped(top, 0) PROVE RingInv'
    <2>1. region # R!NoRegion => wrOfst + region.size <= R!totalSize
      <3>1. /\ region # R!NoRegion => wrOfst + region.size <= rdOfst
            /\ rdOfst < R!totalSize /\ rdOfst \in Nat /\ region.size \in Nat
        BY <1>11, RingTypes DEF Wrapped, RingInv
      <3> QED BY <1>8, <3>1
    <2>2. /\ \A i \in 0 + 1 .. m :
                /\ End(i) <= wrOfst /\ wrOfst - End(i) <= Far(m - i)
                /\ \A j \in i + 1 .. m : InOrder(i, j)
          /\ 0 < m => End(m) = wrOfst
      BY <1>0, <1>11 DEF Wrapped
    <2>3. 0 + 1 = 1 /\ 0 < m
      BY <1>2
    <2> QED BY <1>9, <2>1, <2>2, <2>3
  <1>12. ASSUME NEW top \in 0 .. R!totalSize, NEW k \in 1 .. m, Wrapped(top, k), ~Flat
         PROVE  RingInv'
    <2>0. 1 \in 1 .. k /\ k - 1 \in 0 .. m - 1 /\ top \in Nat /\ k \in Nat
      BY <1>8
    <2>1. ASSUME NEW i \in 1 .. k
          PROVE  /\ rdOfst <= streams[i].addr /\ End(i) <= top
                 /\ (top - End(i)) + wrOfst <= Far(m - i)
                 /\ \A j \in i + 1 .. k : InOrder(i, j)
      BY <1>0, <1>12, <2>1 DEF Wrapped
    <2>2. ASSUME NEW i \in k + 1 .. m
          PROVE  /\ End(i) <= wrOfst /\ wrOfst - End(i) <= Far(m - i)
                 /\ \A j \in i + 1 .. m : InOrder(i, j)
      BY <1>0, <1>12, <2>2 DEF Wrapped
    <2>3. rdOfst <= End(1) /\ End(1) <= top /\ (top - End(1)) + wrOfst <= Far(m - 1)
      <3>1. rdOfst <= streams[1].addr /\ streams[1].addr <= End(1) /\ rdOfst \in Nat
            /\ streams[1].addr \in Nat
        <4>1. 1 \in 1 .. numStreams
          BY <1>0, <1>2
        <4>2. streams[1].addr \in Nat /\ streams[1].size \in Nat /\ rdOfst \in Nat
          BY <4>1, RingTypes DEF RingInv
        <4> QED BY <2>0, <2>1, <4>2 DEF End
      <3> QED BY <1>4, <2>0, <2>1, <3>1
    <2>4. ASSUME NEW i \in 1 .. k - 1
          PROVE  /\ End(1) <= streams'[i].addr /\ End(i)' <= top
                 /\ (top - End(i)') + wrOfst <= Far((m - 1) - i)
                 /\ \A j \in i + 1 .. k - 1 : InOrder(i, j)'
      <3>1. /\ i + 1 \in 1 .. k /\ m - (i + 1) = (m - 1) - i /\ i + 1 \in 1 + 1 .. k
            /\ i \in 1 .. m - 1
        BY <1>2, <2>0
      <3>2. End(1) <= streams[i + 1].addr
        BY <2>0, <2>1, <3>1 DEF InOrder
      <3>3. ASSUME NEW j \in i + 1 .. k - 1 PROVE InOrder(i, j)'
        <4>1. j \in 1 .. m - 1 /\ j + 1 \in (i + 1) + 1 .. k
          BY <2>0, <3>1
        <4>2. InOrder(i + 1, j + 1)
          BY <2>1, <3>1, <4>1
        <4> QED BY <1>2, <1>3, <3>1, <4>1, <4>2 DEF InOrder
      <3> QED BY <1>2, <1>3, <2>1, <3>1, <3>2, <3>3
    <2>5. ASSUME NEW i \in (k - 1) + 1 .. m - 1
          PROVE  /\ End(i)' <= wrOfst /\ wrOfst - End(i)' <= Far((m - 1) - i)
                 /\ \A j \in i + 1 .. m - 1 : InOrder(i, j)'
      <3>1. i + 1 \in k + 1 .. m /\ m - (i + 1) = (m - 1) - i /\ i \in 1 .. m - 1
        BY <1>2, <2>0
      <3>2. ASSUME NEW j \in i + 1 .. m - 1 PROVE InOrder(i, j)'
        <4>1. j \in 1 .. m - 1 /\ j + 1 \in (i + 1) + 1 .. m
          BY <2>0, <3>1
        <4>2. InOrder(i + 1, j + 1)
          BY <2>2, <3>1, <4>1
        <4> QED BY <1>2, <1>3, <3>1, <4>1, <4>2 DEF InOrder
      <3> QED BY <1>3, <2>2, <3>1, <3>2
    <2>6. /\ k - 1 = 0 => End(1) = top
          /\ k - 1 > 0 => End(k - 1)' = top
          /\ k - 1 < m - 1 => End(m - 1)' = wrOfst
      <3>1. End(k) = top /\ (k < m => End(m) = wrOfst)
        BY <1>0, <1>12, <2>0 DEF Wrapped
      <3>2. k - 1 = 0 => End(1) = top
        BY <2>0, <3>1
      <3>3. ASSUME k - 1 > 0 PROVE End(k - 1)' = top
        <4>1. k - 1 \in 1 .. m - 1 /\ (k - 1) + 1 = k
          BY <2>0, <3>3
        <4> QED BY <1>3, <3>1, <4>1
      <3>4. ASSUME k - 1 < m - 1 PROVE End(m - 1)' = wrOfst
        <4>1. m - 1 \in 1 .. m - 1 /\ (m - 1) + 1 = m /\ k < m
          BY <2>0, <3>4
        <4> QED BY <1>3, <3>1, <4>1
      <3> QED BY <3>2, <3>3, <3>4
    <2>7. /\ wrOfst <= rdOfst /\ R!totalSize - BufSize <= top /\ top < R!totalSize
          /\ region # R!NoRegion => wrOfst + region.size <= rdOfst
          /\ rdOfst \in Nat /\ region.size \in Nat
      BY <1>12, RingTypes DEF Wrapped, RingInv
    <2>8. /\ wrOfst <= End(1)
          /\ region # R!NoRegion => wrOfst + region.size <= End(1)
      BY <1>4, <1>8, <2>3, <2>7
    <2>9. Wrapped(top, k - 1)'
      BY <1>1, <1>2, <1>5, <2>3, <2>4, <2>5, <2>6, <2>7, <2>8 DEF Wrapped
    <2>10. Starting'
      BY <1>1, <1>12 DEF RingInv, Starting
    <2> QED BY <1>2, <1>6, <1>7, <2>0, <2>9, <2>10 DEF RingInv
  <1>13. ASSUME NEW top \in 0 .. R!totalSize, NEW k \in 0 .. numStreams, Wrapped(top, k), ~Flat
         PROVE  RingInv'
    BY <1>0, <1>11, <1>12, <1>13
  <1> QED BY <1>10, <1>13 DEF RingInv

LEMMA RingInvNext ==
  ASSUME R!RingAssumption, RingInv, [R!Next]_(R!ringVars) PROVE RingInv'
  <1>1. CASE UNCHANGED R!ringVars
    BY <1>1 DEF R!ringVars, RingInv, R!RingTypeOK, Writing, Starting, Flat, Wrapped, numStreams,
                End, InOrder, used
  <1> QED BY <1>1, AllocKeepsRing, ResultKeepsRing, GiveBackKeepsRing DEF R!Next

(***************************************************************************)
(* What follows from the invariant.                                         *)
(***************************************************************************)
LEMMA RingInvRoomForStream == ASSUME RingInv PROVE R!RoomForStream
  BY DEF RingInv, Writing, R!RoomForStream

LEMMA RingInvStreamsKept == ASSUME R!RingAssumption, RingInv PROVE R!StreamsKept
  <1>0. /\ numStreams \in Nat /\ DOMAIN streams = 1 .. numStreams
        /\ wrOfst \in Nat /\ rdOfst \in Nat /\ wrOfst < R!totalSize /\ rdOfst < R!totalSize
        /\ R!totalSize \in Nat /\ region.addr \in Nat /\ region.size \in Nat
        /\ \A i \in 1 .. numStreams :
              streams[i].addr \in Nat /\ streams[i].size \in Nat /\ End(i) \in Nat
    <2>1. DOMAIN streams = 1 .. numStreams
      BY LenProperties DEF RingInv, R!RingTypeOK, numStreams
    <2> QED BY <2>1, RingTypes, RingSizesOK DEF RingInv
  <1>1. ASSUME NEW i \in 1 .. numStreams, NEW j \in 1 .. numStreams,
               End(i) <= streams[j].addr \/ End(j) <= streams[i].addr
        PROVE  ~R!Overlap(streams[i], streams[j])
    <2>1. PICK a, b, c, d \in Nat : /\ a = streams[i].addr /\ b = End(i)
                                    /\ c = streams[j].addr /\ d = End(j)
      BY <1>0
    <2>2. R!Overlap(streams[i], streams[j]) <=> a < d /\ c < b
      BY <2>1 DEF R!Overlap, End
    <2> QED BY <1>1, <2>1, <2>2
  <1>2. ASSUME NEW i \in 1 .. numStreams,
               \/ End(i) <= region.addr
               \/ region.addr + region.size <= streams[i].addr
        PROVE  ~R!Overlap(region, streams[i])
    BY <1>0, <1>2 DEF R!Overlap, End
  <1>3. CASE Flat
    <2>1. ASSUME NEW i \in 1 .. numStreams PROVE ~R!Overlap(region, streams[i])
      <3>1. End(i) <= wrOfst
        BY <1>3 DEF Flat
      <3>2. wrOfst <= region.addr
        BY <1>0 DEF RingInv, Writing, R!NoRegion
      <3> QED BY <1>0, <1>2, <3>1, <3>2
    <2>2. ASSUME NEW i \in 1 .. numStreams, NEW j \in 1 .. numStreams, i < j
          PROVE  End(i) <= streams[j].addr
      <3>1. j \in i + 1 .. numStreams
        BY <1>0, <2>2
      <3> QED BY <1>3, <3>1 DEF Flat, InOrder
    <2>3. ASSUME NEW i \in 1 .. numStreams, NEW j \in 1 .. numStreams, i # j
          PROVE  ~R!Overlap(streams[i], streams[j])
      <3>1. i < j \/ j < i
        BY <2>3
      <3> QED BY <1>1, <2>2, <3>1
    <2> QED BY <1>0, <2>1, <2>3 DEF R!StreamsKept
  <1>4. ASSUME NEW top \in 0 .. R!totalSize, NEW k \in 0 .. numStreams, Wrapped(top, k)
        PROVE  R!StreamsKept
    <2>0. \A i \in 1 .. numStreams : i \in 1 .. k \/ i \in k + 1 .. numStreams
      BY <1>0
    <2>1. ASSUME NEW i \in 1 .. numStreams PROVE ~R!Overlap(region, streams[i])
      <3>1. CASE i \in 1 .. k
        <4>1. rdOfst <= streams[i].addr /\ End(i) <= top /\ top < R!totalSize
          BY <1>4, <3>1 DEF Wrapped
        <4>2. CASE region = R!NoRegion
          <5>1. End(i) <= region.addr
            BY <1>0, <4>1, <4>2 DEF R!NoRegion
          <5> QED BY <1>2, <5>1
        <4>3. CASE region # R!NoRegion
          <5>1. region.addr + region.size <= streams[i].addr
            <6>1. region.addr = wrOfst /\ wrOfst + region.size <= rdOfst
              BY <1>4, <4>3 DEF Wrapped, RingInv, Writing
            <6> QED BY <1>0, <4>1, <6>1
          <5> QED BY <1>2, <5>1
        <4> QED BY <4>2, <4>3
      <3>2. CASE i \in k + 1 .. numStreams
        <4>1. End(i) <= wrOfst
          BY <1>4, <3>2 DEF Wrapped
        <4>2. wrOfst <= region.addr
          BY <1>0 DEF RingInv, Writing, R!NoRegion
        <4>3. End(i) <= region.addr
          BY <1>0, <4>1, <4>2
        <4> QED BY <1>2, <4>3
      <3> QED BY <2>0, <3>1, <3>2
    <2>2. ASSUME NEW i \in 1 .. numStreams, NEW j \in 1 .. numStreams, i < j
          PROVE  End(i) <= streams[j].addr \/ End(j) <= streams[i].addr
      <3>1. CASE i \in 1 .. k /\ j \in 1 .. k
        <4>1. j \in i + 1 .. k
          BY <2>2, <3>1
        <4> QED BY <1>4, <3>1, <4>1 DEF Wrapped, InOrder
      <3>2. CASE i \in k + 1 .. numStreams
        <4>1. j \in i + 1 .. numStreams
          BY <1>0, <2>2
        <4> QED BY <1>4, <3>2, <4>1 DEF Wrapped, InOrder
      <3>3. CASE i \in 1 .. k /\ j \in k + 1 .. numStreams
        <4>1. rdOfst <= streams[i].addr /\ End(j) <= wrOfst /\ wrOfst <= rdOfst
          BY <1>4, <3>3 DEF Wrapped
        <4> QED BY <1>0, <4>1
      <3> QED BY <2>0, <3>1, <3>2, <3>3
    <2>3. ASSUME NEW i \in 1 .. numStreams, NEW j \in 1 .. numStreams, i # j
          PROVE  ~R!Overlap(streams[i], streams[j])
      <3>1. i < j \/ j < i
        BY <2>3
      <3> QED BY <1>1, <2>2, <3>1
    <2> QED BY <1>0, <2>1, <2>3 DEF R!StreamsKept
  <1> QED BY <1>3, <1>4 DEF RingInv

(***************************************************************************)
(* The ring inside the link: whatever the tasks do, they do to the ring one  *)
(* of its three operations, or nothing, until a codec fails.                 *)
(***************************************************************************)
LEMMA RingStep == [Next]_vars => [R!Next]_(R!ringVars) \/ R!Init'
  <1> SUFFICES ASSUME [Next]_vars, ~UNCHANGED R!ringVars PROVE R!Next \/ R!Init'
    OBVIOUS
  <1>1. ~UNCHANGED ring /\ Next
    BY DEF vars, ring, R!ringVars
  <1>2. SubmitFails \/ R!GiveBack \/ (\E size \in FrameSizes : R!Alloc(size))
        \/ \E size \in 1 .. MaxStream : R!Result(size)
    BY <1>1 DEF Next, Produce, ProcessTsk, GetBatch, HandleDummy, Submit, BatchDone, Encoded,
           Consumer, GetFullBufs, PutRing, PutEmptyBufs, Link, QueueFramesToChQue, SubmitFrame,
           NextChannel, EndPass, GetProcessedData, Command, DisableChannel, SwitchCodec, LateAck,
           EnableChannel, EnterStop, WaitRequests, EndStop, Delete, StartSwitch, StartStop
  <1>3. SubmitFails => R!Init'
    BY DEF SubmitFails, R!Init, R!NoRegion, R!totalSize
  <1> QED BY <1>2, <1>3 DEF R!Next

THEOREM RingInvariant == Spec => []RingInv
  <1>1. R!RingAssumption
    BY RingSizes
  <1>2. R!Init => RingInv
    BY <1>1, RingInvInit
  <1>3. RingInv /\ [R!Next]_(R!ringVars) => RingInv'
    BY <1>1, RingInvNext
  <1>4. Init => R!Init
    BY DEF Init
  <1> QED BY <1>2, <1>3, <1>4, RingStep, PTL DEF Spec

(* The codec never writes over a stream that somebody still reads, for any   *)
(* number of buffers and any sizes.                                          *)
THEOREM StreamsKeptAlways == Spec => []StreamsKept
  <1>1. RingInv => StreamsKept
    BY RingSizes, RingInvStreamsKept DEF StreamsKept
  <1> QED BY <1>1, RingInvariant, PTL

(* The codec always has room for a whole stream.                             *)
THEOREM RoomForStreamAlways == Spec => []RoomForStream
  <1>1. RingInv => RoomForStream
    BY RingInvRoomForStream DEF RoomForStream
  <1> QED BY <1>1, RingInvariant, PTL

(***************************************************************************)
(* Requests and the switch of a codec.  A dummy is a request more than there *)
(* are: with it, the free requests and those in the queues of the tasks are  *)
(* NumReq + 1, and that is so only while the host waits for its switch.      *)
(* Whether the dummy is taken for a frame (as in enc_switch) does not        *)
(* matter: then the sum stays, and so does the command.                      *)
(***************************************************************************)
IsQue(q) == \E S : q \in Seq(S)
NoDummy(q) == \A k \in 1 .. Len(q) : ~q[k].dummy
OneDummy(q) == \A j, k \in 1 .. Len(q) : q[j].dummy /\ q[k].dummy => j = k

(* At most one dummy in two queues together, and in the three of the tasks.  *)
OneOfTwo(p, q) == OneDummy(p) /\ OneDummy(q) /\ (NoDummy(p) \/ NoDummy(q))
OneInUse ==
    /\ OneOfTwo(processQue, tsk.batch)
    /\ OneOfTwo(processQue, processDoneQue)
    /\ OneOfTwo(tsk.batch, processDoneQue)
NoneInUse == NoDummy(processQue) /\ NoDummy(tsk.batch) /\ NoDummy(processDoneQue)

Sum == reqQue + Len(processQue) + Len(tsk.batch) + Len(processDoneQue)

Switching == host.op = "switch" /\ host.taken

Types ==
    /\ config \in Configs
    /\ reqQue \in Nat /\ IsQue(processQue) /\ IsQue(tsk.batch) /\ IsQue(processDoneQue)
    /\ link \in [at : {"main", "submit", "stop", "delete", "deleted"},
                 ch : Nat, n : Nat, ok : BOOLEAN]
    /\ tsk = [at |-> tsk.at, batch |-> tsk.batch, i |-> tsk.i]
    /\ tsk.at \in {"get", "submit", "encode", "gone"}
    /\ host \in [op : Ops, ch : Chs, format : Formats \cup {"none"}, taken : BOOLEAN]
    /\ lateAck \in {"no", "sent", "lost"}

Dummies ==
    /\ OneInUse
    /\ \/ Sum = NumReq /\ NoneInUse
       \/ Sum = NumReq + 1 /\ Switching /\ lateAck = "no"
    /\ lateAck # "no" \/ host.taken => Switching

Life ==
    /\ tsk.at \in {"get", "gone"} => tsk.batch = << >>
    /\ link.at = "stop" => host.op \in {"stop", "delete"}
    /\ link.at = "delete" => host.op = "delete" /\ reqQue = NumReq
    /\ link.at = "deleted" => tsk.at = "gone" /\ reqQue = NumReq /\ Sum = NumReq
    /\ region # R!NoRegion => tsk.at = "encode" /\ ~ringLost

SwitchInv == Types /\ Dummies /\ Life

(* What the operations on queues do to their dummies.                        *)
LEMMA QueLen == ASSUME NEW q, IsQue(q) PROVE Len(q) \in Nat /\ (q = << >> <=> Len(q) = 0)
  BY LenProperties, EmptySeq DEF IsQue

LEMMA TypesLen ==
  Types => /\ reqQue \in Nat /\ Len(processQue) \in Nat
           /\ Len(tsk.batch) \in Nat /\ Len(processDoneQue) \in Nat
  BY QueLen DEF Types

LEMMA QueNone == IsQue(<< >>) /\ Len(<< >>) = 0 /\ NoDummy(<< >>) /\ OneDummy(<< >>)
  <1>1. << >> \in Seq({})
    OBVIOUS
  <1> QED BY <1>1 DEF IsQue, NoDummy, OneDummy

LEMMA NoneIsOne == ASSUME NEW q, NoDummy(q) PROVE OneDummy(q)
  BY DEF NoDummy, OneDummy

LEMMA QuePut ==
  ASSUME NEW q, IsQue(q), NEW x
  PROVE  /\ IsQue(Append(q, x)) /\ Len(Append(q, x)) = Len(q) + 1
         /\ NoDummy(q) => OneDummy(Append(q, x))
         /\ OneDummy(q) /\ ~x.dummy => OneDummy(Append(q, x))
         /\ NoDummy(q) /\ ~x.dummy => NoDummy(Append(q, x))
  <1>1. PICK S : q \in Seq(S)
    BY DEF IsQue
  <1>2. q \in Seq(S \cup {x}) /\ x \in S \cup {x}
    BY <1>1, SeqMonotonic
  <1>3. /\ Append(q, x) \in Seq(S \cup {x}) /\ Len(Append(q, x)) = Len(q) + 1
        /\ \A k \in 1 .. Len(q) : Append(q, x)[k] = q[k]
        /\ Append(q, x)[Len(q) + 1] = x /\ Len(q) \in Nat
    BY <1>2, AppendProperties, LenProperties
  <1>4. 1 .. Len(q) + 1 = (1 .. Len(q)) \cup {Len(q) + 1}
    BY <1>3
  <1> QED BY <1>3, <1>4 DEF IsQue, NoDummy, OneDummy

LEMMA QueGet ==
  ASSUME NEW q, IsQue(q), q # << >>
  PROVE  /\ IsQue(Tail(q)) /\ Len(Tail(q)) = Len(q) - 1
         /\ OneDummy(q) /\ Head(q).dummy => NoDummy(Tail(q)) /\ ~NoDummy(q)
  <1>1. PICK S : q \in Seq(S)
    BY DEF IsQue
  <1>2. /\ Tail(q) \in Seq(S) /\ Len(Tail(q)) = Len(q) - 1
        /\ \A k \in 1 .. Len(q) - 1 : Tail(q)[k] = q[k + 1]
        /\ Head(q) = q[1] /\ Len(q) \in Nat /\ Len(q) >= 1
    BY <1>1, HeadTailProperties, LenProperties, EmptySeq
  <1>3. \A k \in 1 .. Len(q) - 1 : k + 1 \in 1 .. Len(q) /\ k + 1 # 1
    BY <1>2
  <1> QED BY <1>2, <1>3 DEF IsQue, NoDummy, OneDummy

LEMMA QueSplit ==
  ASSUME NEW q, IsQue(q), NEW n \in 1 .. Len(q)
  PROVE  LET b == SubSeq(q, 1, n)
             r == SubSeq(q, n + 1, Len(q))
         IN  /\ IsQue(b) /\ IsQue(r) /\ Len(b) + Len(r) = Len(q)
             /\ OneDummy(q) => OneOfTwo(r, b)
             /\ NoDummy(q) => NoDummy(b) /\ NoDummy(r)
  <1> DEFINE b == SubSeq(q, 1, n)  r == SubSeq(q, n + 1, Len(q))
  <1>1. PICK S : q \in Seq(S)
    BY DEF IsQue
  <1>2. Len(q) \in Nat /\ \A k \in 1 .. Len(q) : q[k] \in S
    BY <1>1, LenProperties, ElementOfSeq
  <1>3. b \in Seq(S) /\ Len(b) = n /\ \A k \in 1 .. n : b[k] = q[k]
    BY <1>1, <1>2
  <1>4. r \in Seq(S) /\ Len(r) = Len(q) - n /\ \A k \in 1 .. Len(q) - n : r[k] = q[n + k]
    BY <1>1, <1>2
  <1>5. /\ \A k \in 1 .. n : k \in 1 .. Len(q)
        /\ \A k \in 1 .. Len(q) - n : n + k \in 1 .. Len(q)
        /\ \A j \in 1 .. n, k \in 1 .. Len(q) - n : j # n + k
        /\ \A j, k \in 1 .. Len(q) - n : n + j = n + k => j = k
    BY <1>2
  <1>6. OneDummy(q) => OneDummy(b) /\ OneDummy(r) /\ (NoDummy(r) \/ NoDummy(b))
    BY <1>3, <1>4, <1>5 DEF OneDummy, NoDummy
  <1>7. NoDummy(q) => NoDummy(b) /\ NoDummy(r)
    BY <1>3, <1>4, <1>5 DEF NoDummy
  <1>8. Len(b) + Len(r) = Len(q)
    BY <1>2, <1>3, <1>4
  <1> QED BY <1>3, <1>4, <1>6, <1>7, <1>8 DEF IsQue, OneOfTwo

LEMMA QueJoin ==
  ASSUME NEW p, IsQue(p), NEW q, IsQue(q)
  PROVE  /\ IsQue(p \o q) /\ Len(p \o q) = Len(p) + Len(q)
         /\ OneOfTwo(q, p) => OneDummy(p \o q)
         /\ NoDummy(p \o q) <=> NoDummy(p) /\ NoDummy(q)
  <1>1. PICK S : p \in Seq(S)
    BY DEF IsQue
  <1>2. PICK T : q \in Seq(T)
    BY DEF IsQue
  <1>3. p \in Seq(S \cup T) /\ q \in Seq(S \cup T)
    BY <1>1, <1>2, SeqMonotonic
  <1>4. /\ p \o q \in Seq(S \cup T) /\ Len(p \o q) = Len(p) + Len(q)
        /\ \A k \in 1 .. Len(p) + Len(q) :
              (p \o q)[k] = IF k <= Len(p) THEN p[k] ELSE q[k - Len(p)]
        /\ Len(p) \in Nat /\ Len(q) \in Nat
    BY <1>3, ConcatProperties, LenProperties
  <1> DEFINE m == Len(p)  n == Len(q)  pq == p \o q
  <1>5. /\ \A k \in 1 .. m : k \in 1 .. m + n /\ pq[k] = p[k]
        /\ \A k \in 1 .. n : m + k \in 1 .. m + n /\ pq[m + k] = q[k]
    BY <1>4
  <1>6. \A k \in 1 .. m + n : k \in 1 .. m \/ (\E i \in 1 .. n : k = m + i)
    <2> SUFFICES ASSUME NEW k \in 1 .. m + n, k \notin 1 .. m
                 PROVE  k - m \in 1 .. n /\ k = m + (k - m)
      OBVIOUS
    <2> QED BY <1>4
  <1>7. NoDummy(pq) <=> NoDummy(p) /\ NoDummy(q)
    <2>1. NoDummy(p) /\ NoDummy(q) => NoDummy(pq)
      <3> SUFFICES ASSUME NoDummy(p), NoDummy(q), NEW k \in 1 .. m + n PROVE ~pq[k].dummy
        BY <1>4 DEF NoDummy
      <3>1. CASE k \in 1 .. m
        BY <3>1, <1>5 DEF NoDummy
      <3>2. CASE k \notin 1 .. m
        <4>1. PICK i \in 1 .. n : k = m + i
          BY <3>2, <1>6
        <4> QED BY <4>1, <1>5 DEF NoDummy
      <3> QED BY <3>1, <3>2
    <2>2. NoDummy(pq) => NoDummy(p) /\ NoDummy(q)
      BY <1>4, <1>5 DEF NoDummy
    <2> QED BY <2>1, <2>2
  <1>8. OneOfTwo(q, p) => OneDummy(pq)
    <2> SUFFICES ASSUME OneOfTwo(q, p), NEW j \in 1 .. m + n, NEW k \in 1 .. m + n,
                        pq[j].dummy, pq[k].dummy
                 PROVE  j = k
      BY <1>4 DEF OneDummy
    <2>1. CASE j \in 1 .. m /\ k \in 1 .. m
      BY <2>1, <1>5 DEF OneOfTwo, OneDummy
    <2>2. CASE j \in 1 .. m /\ k \notin 1 .. m
      BY <2>2, <1>5, <1>6 DEF OneOfTwo, NoDummy
    <2>3. CASE j \notin 1 .. m /\ k \in 1 .. m
      BY <2>3, <1>5, <1>6 DEF OneOfTwo, NoDummy
    <2>4. CASE j \notin 1 .. m /\ k \notin 1 .. m
      <3>1. PICK i \in 1 .. n : j = m + i
        BY <2>4, <1>6
      <3>2. PICK l \in 1 .. n : k = m + l
        BY <2>4, <1>6
      <3>3. q[i].dummy /\ q[l].dummy
        BY <3>1, <3>2, <1>5
      <3> QED BY <3>1, <3>2, <3>3 DEF OneOfTwo, OneDummy
    <2> QED BY <2>1, <2>2, <2>3, <2>4
  <1> QED BY <1>4, <1>7, <1>8 DEF IsQue

(* What the invariant is about.                                              *)
counted == <<config, reqQue, processQue, processDoneQue, tsk, host, lateAck, link, region, ringLost>>

LEMMA Unmoved == SwitchInv /\ UNCHANGED counted => SwitchInv'
  BY DEF SwitchInv, Types, Dummies, Life, OneInUse, NoneInUse, Sum, Switching, counted,
     R!NoRegion, R!totalSize

LEMMA InitSwitchInv == Init => SwitchInv
  <1> SUFFICES ASSUME Init PROVE SwitchInv
    OBVIOUS
  <1>1. Types
    <2>1. 0 \in Chs /\ NumReq \in Nat
      BY EncAssumption DEF Chs
    <2>2. host \in [op : Ops, ch : Chs, format : Formats \cup {"none"}, taken : BOOLEAN]
      BY <2>1 DEF Init, Idle, Ops
    <2>3. tsk.batch = << >> /\ tsk.at = "get" /\ tsk = [at |-> tsk.at, batch |-> tsk.batch, i |-> tsk.i]
      BY DEF Init, Waiting
    <2>4. link \in [at : {"main", "submit", "stop", "delete", "deleted"},
                   ch : Nat, n : Nat, ok : BOOLEAN]
      BY DEF Init, Main
    <2> QED BY <2>1, <2>2, <2>3, <2>4, QueNone DEF Init, Types
  <1>2. Dummies
    BY QueNone, EncAssumption
       DEF Init, Dummies, OneInUse, OneOfTwo, NoneInUse, Sum, Switching, Waiting, Idle
  <1>3. Life
    BY DEF Init, Life, Main, Waiting, R!Init
  <1> QED BY <1>1, <1>2, <1>3 DEF SwitchInv

(* The process task.                                                         *)
LEMMA GetBatchInv == SwitchInv /\ GetBatch => SwitchInv'
  <1> SUFFICES ASSUME SwitchInv, GetBatch PROVE SwitchInv'
    OBVIOUS
  <1>1. /\ Types /\ Dummies /\ Life /\ tsk.at = "get" /\ tsk.batch = << >>
        /\ UNCHANGED <<config, reqQue, processDoneQue, host, lateAck, link, region, ringLost>>
    BY DEF SwitchInv, Life, GetBatch, ring, hosts
  <1>2. Len(processQue) \in Nat /\ DOMAIN processQue = 1 .. Len(processQue)
    BY <1>1, QueLen DEF Types, IsQue
  <1>3. PICK n \in 1 .. Len(processQue) :
          /\ tsk' = [at |-> "submit", batch |-> SubSeq(processQue, 1, n), i |-> 1]
          /\ processQue' = SubSeq(processQue, n + 1, Len(processQue))
    BY <1>2 DEF GetBatch
  <1>4. /\ tsk'.batch = SubSeq(processQue, 1, n) /\ tsk'.at = "submit"
        /\ tsk' = [at |-> tsk'.at, batch |-> tsk'.batch, i |-> tsk'.i]
    BY <1>3
  <1>5. PICK b, r : b = tsk'.batch /\ r = processQue'
    OBVIOUS
  <1>6. /\ IsQue(b) /\ IsQue(r) /\ Len(b) + Len(r) = Len(processQue)
        /\ OneDummy(processQue) => OneOfTwo(r, b)
        /\ NoDummy(processQue) => NoDummy(b) /\ NoDummy(r)
        /\ Len(b) \in Nat /\ Len(r) \in Nat
    <2>1. /\ b = SubSeq(processQue, 1, n) /\ r = SubSeq(processQue, n + 1, Len(processQue))
          /\ IsQue(processQue)
      BY <1>1, <1>3, <1>4, <1>5 DEF Types
    <2>2. /\ IsQue(b) /\ IsQue(r) /\ Len(b) + Len(r) = Len(processQue)
          /\ OneDummy(processQue) => OneOfTwo(r, b)
          /\ NoDummy(processQue) => NoDummy(b) /\ NoDummy(r)
      BY <2>1, QueSplit
    <2> QED BY <2>2, QueLen
  <1>7. Types'
    BY <1>1, <1>4, <1>5, <1>6 DEF Types
  <1>8. OneInUse' /\ (NoneInUse => NoneInUse') /\ Sum' = Sum
    <2>1. /\ OneDummy(processDoneQue)
          /\ NoDummy(processDoneQue) \/ (NoDummy(b) /\ NoDummy(r))
          /\ OneOfTwo(r, b)
      BY <1>1, <1>6 DEF Dummies, OneInUse, OneOfTwo
    <2>2. OneInUse'
      BY <1>1, <1>5, <2>1 DEF OneInUse, OneOfTwo
    <2>3. NoneInUse => NoneInUse'
      BY <1>1, <1>5, <1>6 DEF NoneInUse
    <2>4. Sum' = Sum
      <3>1. /\ reqQue' = reqQue /\ Len(processQue') = Len(r) /\ Len(tsk'.batch) = Len(b)
            /\ Len(processDoneQue') = Len(processDoneQue) /\ Len(tsk.batch) = 0
            /\ reqQue \in Nat /\ Len(processQue) \in Nat /\ Len(processDoneQue) \in Nat
        BY <1>1, <1>5, QueNone, TypesLen
      <3> QED BY <3>1, <1>6 DEF Sum
    <2> QED BY <2>2, <2>3, <2>4
  <1>9. Dummies'
    BY <1>1, <1>8 DEF Dummies, Switching
  <1>10. Life'
    BY <1>1, <1>4, <1>8 DEF Life, R!NoRegion, R!totalSize
  <1> QED BY <1>7, <1>9, <1>10 DEF SwitchInv

LEMMA HandleDummyInv == SwitchInv /\ HandleDummy => SwitchInv'
  <1> SUFFICES ASSUME SwitchInv, HandleDummy PROVE SwitchInv'
    OBVIOUS
  <1>1. /\ Types /\ Dummies /\ Life /\ processQue # << >> /\ Head(processQue).dummy
        /\ processQue' = Tail(processQue) /\ lateAck' \in {"sent", "lost"}
        /\ UNCHANGED <<config, reqQue, processDoneQue, tsk, host, link, region, ringLost>>
    BY DEF SwitchInv, HandleDummy, TellLink, ring, hosts
  <1>2. PICK r : r = processQue'
    OBVIOUS
  <1>3. /\ IsQue(r) /\ Len(r) = Len(processQue) - 1 /\ NoDummy(r) /\ ~NoDummy(processQue)
        /\ Len(r) \in Nat
    BY <1>1, <1>2, QueGet, QueLen DEF Types, Dummies, OneInUse, OneOfTwo
  <1>4. Types'
    BY <1>1, <1>2, <1>3 DEF Types
  <1>5. Sum = NumReq + 1 /\ Switching
    BY <1>1, <1>3 DEF Dummies, NoneInUse
  <1>6. Sum' = NumReq
    <2>0. PICK n \in Nat : n = Len(tsk.batch)
      BY <1>1, TypesLen
    <2>1. /\ reqQue' = reqQue /\ Len(processQue') = Len(processQue) - 1
          /\ n \in Nat /\ Len(tsk.batch) = n /\ Len(tsk'.batch) = n
          /\ Len(processDoneQue') = Len(processDoneQue)
          /\ reqQue \in Nat /\ Len(processQue) \in Nat
          /\ Len(tsk.batch) \in Nat /\ Len(processDoneQue) \in Nat
      BY <2>0, <1>1, <1>2, <1>3, TypesLen
    <2> QED BY <2>1, <1>5, EncAssumption DEF Sum
  <1>7. NoneInUse' /\ OneInUse'
    BY <1>1, <1>2, <1>3, NoneIsOne DEF Dummies, NoneInUse, OneInUse, OneOfTwo
  <1>8. Dummies'
    BY <1>1, <1>5, <1>6, <1>7 DEF Dummies, Switching
  <1>9. Life'
    BY <1>1, <1>5, <1>6 DEF Life, R!NoRegion, R!totalSize, Switching
  <1> QED BY <1>4, <1>8, <1>9 DEF SwitchInv

LEMMA SubmitInv == SwitchInv /\ Submit => SwitchInv'
  <1> SUFFICES ASSUME SwitchInv, Submit PROVE SwitchInv'
    OBVIOUS
  <1>1. /\ Types /\ Dummies /\ Life /\ tsk.at = "submit"
        /\ UNCHANGED <<config, reqQue, processQue, processDoneQue, host, lateAck, link>>
    BY DEF SwitchInv, Submit, hosts
  <1>2. /\ tsk'.batch = tsk.batch
        /\ tsk' = [at |-> tsk'.at, batch |-> tsk'.batch, i |-> tsk'.i]
        /\ UNCHANGED ringLost
        /\ (tsk'.at = "encode" /\ ~ringLost) \/ (tsk'.at \in {"encode", "submit"} /\ UNCHANGED region)
    BY <1>1 DEF Types, Submit, ring
  <1> QED BY <1>1, <1>2 DEF SwitchInv, Types, Dummies, Life, OneInUse, NoneInUse, Sum, Switching,
             R!NoRegion, R!totalSize

LEMMA SubmitFailsInv == SwitchInv /\ SubmitFails => SwitchInv'
  <1> SUFFICES ASSUME SwitchInv, SubmitFails PROVE SwitchInv'
    OBVIOUS
  <1>1. /\ Types /\ Dummies /\ Life
        /\ UNCHANGED <<config, reqQue, processQue, processDoneQue, host, lateAck, link>>
        /\ tsk'.batch = tsk.batch /\ tsk'.at = "submit" /\ tsk.at = "submit"
        /\ tsk' = [at |-> tsk'.at, batch |-> tsk'.batch, i |-> tsk'.i]
    BY DEF SwitchInv, SubmitFails, hosts, Types
  <1>2. region' = R!NoRegion'
    BY DEF SubmitFails, R!NoRegion, R!totalSize
  <1> QED BY <1>1, <1>2 DEF SwitchInv, Types, Dummies, Life, OneInUse, NoneInUse, Sum, Switching

LEMMA EncodedInv == ASSUME NEW size \in 1 .. MaxStream PROVE SwitchInv /\ Encoded(size) => SwitchInv'
  <1> SUFFICES ASSUME SwitchInv, Encoded(size) PROVE SwitchInv'
    OBVIOUS
  <1>1. /\ Types /\ Dummies /\ Life
        /\ UNCHANGED <<config, reqQue, processQue, processDoneQue, host, lateAck, link>>
        /\ tsk'.batch = tsk.batch /\ tsk'.at = "submit"
        /\ tsk' = [at |-> tsk'.at, batch |-> tsk'.batch, i |-> tsk'.i]
    BY DEF SwitchInv, Encoded, hosts, Types
  <1>2. region' = R!NoRegion' /\ tsk.at = "encode"
    BY <1>1 DEF Encoded, R!Result, R!NoRegion, R!totalSize, Life, ring
  <1> QED BY <1>1, <1>2 DEF SwitchInv, Types, Dummies, Life, OneInUse, NoneInUse, Sum, Switching

LEMMA BatchDoneInv == SwitchInv /\ BatchDone => SwitchInv'
  <1> SUFFICES ASSUME SwitchInv, BatchDone PROVE SwitchInv'
    OBVIOUS
  <1>1. /\ Types /\ Dummies /\ Life
        /\ tsk' = Waiting /\ processDoneQue' = processDoneQue \o tsk.batch
        /\ UNCHANGED <<config, reqQue, processQue, host, lateAck, link, region, ringLost>>
        /\ tsk.at = "submit"
    BY DEF SwitchInv, BatchDone, ring, hosts
  <1>2. /\ tsk'.batch = << >> /\ tsk'.at = "get"
        /\ tsk' = [at |-> tsk'.at, batch |-> tsk'.batch, i |-> tsk'.i]
    BY <1>1 DEF Waiting
  <1>3. PICK b, d : b = tsk.batch /\ d = processDoneQue'
    OBVIOUS
  <1>4. /\ IsQue(d) /\ Len(d) = Len(processDoneQue) + Len(b)
        /\ OneDummy(d)
        /\ NoDummy(d) <=> NoDummy(processDoneQue) /\ NoDummy(b)
        /\ Len(b) \in Nat /\ Len(processDoneQue) \in Nat
    BY <1>1, <1>3, QueJoin, QueLen DEF Types, Dummies, OneInUse
  <1>5. Types'
    BY <1>1, <1>2, <1>3, <1>4, QueNone DEF Types
  <1>6. OneInUse' /\ (NoneInUse => NoneInUse')
    BY <1>1, <1>2, <1>3, <1>4, QueNone DEF Dummies, OneInUse, OneOfTwo, NoneInUse
  <1>7. Sum' = Sum
    <2>1. /\ reqQue' = reqQue /\ Len(processQue') = Len(processQue) /\ Len(tsk'.batch) = 0
          /\ Len(tsk.batch) = Len(b) /\ Len(processDoneQue') = Len(d)
          /\ reqQue \in Nat /\ Len(processQue) \in Nat
      BY <1>1, <1>2, <1>3, QueNone, TypesLen
    <2> QED BY <2>1, <1>4 DEF Sum
  <1>8. Dummies'
    BY <1>1, <1>6, <1>7 DEF Dummies, Switching
  <1>9. Life'
    BY <1>1, <1>2, <1>7 DEF Life, R!NoRegion, R!totalSize
  <1> QED BY <1>5, <1>8, <1>9 DEF SwitchInv

(* The link's task.                                                          *)
LinkType == [at : {"main", "submit", "stop", "delete", "deleted"}, ch : Nat, n : Nat, ok : BOOLEAN]

LEMMA LinkMoves ==
  ASSUME link \in LinkType, NEW ok \in BOOLEAN
  PROVE  /\ [link EXCEPT !.n = @ + 1, !.ok = ok] \in LinkType
         /\ [link EXCEPT !.n = @ + 1, !.ok = ok].at = link.at
         /\ [link EXCEPT !.ch = @ + 1, !.n = 0, !.ok = ok] \in LinkType
         /\ [link EXCEPT !.ch = @ + 1, !.n = 0, !.ok = ok].at = link.at
         /\ [link EXCEPT !.ch = @ + 1, !.n = 0] \in LinkType
         /\ [link EXCEPT !.ch = @ + 1, !.n = 0].at = link.at
  <1>1. PICK a, b : a = [link EXCEPT !.n = @ + 1] /\ b = [link EXCEPT !.ch = @ + 1]
    OBVIOUS
  <1>2. a \in LinkType /\ b \in LinkType /\ a.at = link.at /\ b.at = link.at
    BY <1>1 DEF LinkType
  <1>3. PICK c : c = [b EXCEPT !.n = 0]
    OBVIOUS
  <1>4. c \in LinkType /\ c.at = link.at
    BY <1>2, <1>3 DEF LinkType
  <1>5. \A l \in LinkType : [l EXCEPT !.ok = ok] \in LinkType /\ [l EXCEPT !.ok = ok].at = l.at
    BY DEF LinkType
  <1>6. [link EXCEPT !.n = @ + 1, !.ok = ok] = [a EXCEPT !.ok = ok]
    BY <1>1
  <1>7. [link EXCEPT !.ch = @ + 1, !.n = 0, !.ok = ok] = [c EXCEPT !.ok = ok]
    BY <1>1, <1>3
  <1>8. [link EXCEPT !.ch = @ + 1, !.n = 0] = c
    BY <1>1, <1>3
  <1> QED BY <1>2, <1>4, <1>5, <1>6, <1>7, <1>8

LEMMA SubmitFrameInv == SwitchInv /\ SubmitFrame => SwitchInv'
  <1> SUFFICES ASSUME SwitchInv, SubmitFrame PROVE SwitchInv'
    OBVIOUS
  <1>1. /\ Types /\ Dummies /\ Life /\ link.at = "submit" /\ link.ch \in Chs
        /\ UNCHANGED <<config, processDoneQue, tsk, host, lateAck, region, ringLost>>
    BY DEF SwitchInv, SubmitFrame, LinkRuns, ring, hosts
  <1>2. \/ UNCHANGED <<reqQue, processQue>>
        \/ \E x : /\ processQue' = Append(processQue, x) /\ ~x.dummy
                  /\ reqQue' = reqQue - 1 /\ reqQue # 0
    <2> DEFINE x == Request(link.ch, SubSeq(inQue[link.ch], 1, NumFrames(link.ch)))
    <2>1. ~x.dummy
      BY DEF Request
    <2>2. \/ UNCHANGED <<reqQue, processQue>>
          \/ processQue' = Append(processQue, x) /\ reqQue' = reqQue - 1 /\ reqQue # 0
      BY DEF SubmitFrame
    <2> QED BY <2>1, <2>2
  <1>3. link' \in LinkType /\ link'.at = "submit"
    <2>1. link \in LinkType
      BY <1>1 DEF Types, LinkType
    <2>2. \/ \E ok \in BOOLEAN : link' = NextTry(ok)
          \/ link' = [link EXCEPT !.ch = @ + 1, !.n = 0, !.ok = FALSE]
      BY DEF SubmitFrame
    <2>3. \A ok \in BOOLEAN : \/ NextTry(ok) = [link EXCEPT !.n = @ + 1, !.ok = ok]
                              \/ NextTry(ok) = [link EXCEPT !.ch = @ + 1, !.n = 0, !.ok = ok]
      BY DEF NextTry
    <2>4. PICK ok \in BOOLEAN : \/ link' = [link EXCEPT !.n = @ + 1, !.ok = ok]
                                \/ link' = [link EXCEPT !.ch = @ + 1, !.n = 0, !.ok = ok]
      BY <2>2, <2>3
    <2> QED BY <1>1, <2>1, <2>4, LinkMoves
  <1>4. CASE UNCHANGED <<reqQue, processQue>>
    BY <1>1, <1>3, <1>4 DEF SwitchInv, Types, LinkType, Dummies, Life, OneInUse, NoneInUse, Sum,
       Switching, R!NoRegion, R!totalSize
  <1>5. CASE \E x : /\ processQue' = Append(processQue, x) /\ ~x.dummy
                    /\ reqQue' = reqQue - 1 /\ reqQue # 0
    <2>1. PICK x, q : ~x.dummy /\ q = processQue' /\ q = Append(processQue, x)
      BY <1>5
    <2>2. /\ IsQue(q) /\ Len(q) = Len(processQue) + 1 /\ Len(processQue) \in Nat
          /\ OneDummy(q) /\ (NoDummy(processQue) => NoDummy(q))
      <3>1. IsQue(processQue) /\ OneDummy(processQue)
        BY <1>1 DEF Types, Dummies, OneInUse, OneOfTwo
      <3>2. /\ IsQue(Append(processQue, x)) /\ Len(Append(processQue, x)) = Len(processQue) + 1
            /\ OneDummy(processQue) /\ ~x.dummy => OneDummy(Append(processQue, x))
            /\ NoDummy(processQue) /\ ~x.dummy => NoDummy(Append(processQue, x))
        BY <3>1, QuePut
      <3> QED BY <2>1, <3>1, <3>2, QueLen
    <2>3. Types'
      BY <1>1, <1>3, <1>5, <2>1, <2>2 DEF Types, LinkType
    <2>4. OneInUse' /\ (NoneInUse => NoneInUse')
      BY <1>1, <2>1, <2>2 DEF Dummies, OneInUse, OneOfTwo, NoneInUse
    <2>5. Sum' = Sum
      <3>0. PICK n \in Nat : n = Len(tsk.batch)
        BY <1>1, TypesLen
      <3>1. /\ reqQue' = reqQue - 1 /\ Len(processQue') = Len(processQue) + 1
            /\ n \in Nat /\ Len(tsk.batch) = n /\ Len(tsk'.batch) = n
            /\ Len(processDoneQue') = Len(processDoneQue)
            /\ reqQue \in Nat /\ Len(tsk.batch) \in Nat /\ Len(processDoneQue) \in Nat
        BY <3>0, <1>1, <1>5, <2>1, <2>2, TypesLen
      <3> QED BY <3>1, <2>2 DEF Sum
    <2>6. Dummies'
      BY <1>1, <2>4, <2>5 DEF Dummies, Switching
    <2>7. Life'
      BY <1>1, <1>3 DEF Life, R!NoRegion, R!totalSize
    <2> QED BY <2>3, <2>6, <2>7 DEF SwitchInv
  <1> QED BY <1>2, <1>4, <1>5

(* What the clock collects, in a pass or while the link stops.               *)
LEMMA CollectInv ==
  /\ SwitchInv /\ Collect /\ link.at \in {"main", "stop"}
  /\ UNCHANGED <<config, processQue, tsk, host, lateAck, link, region, ringLost>>
  => SwitchInv'
  <1> SUFFICES ASSUME SwitchInv, Collect, link.at \in {"main", "stop"},
                      UNCHANGED <<config, processQue, tsk, host, lateAck, link, region, ringLost>>
               PROVE  SwitchInv'
    OBVIOUS
  <1>1. /\ Types /\ Dummies /\ Life /\ processDoneQue' = << >>
        /\ reqQue' = reqQue + Len(processDoneQue)
    BY DEF SwitchInv, Collect
  <1>2. Len(processDoneQue) \in Nat /\ Len(processQue) \in Nat /\ Len(tsk.batch) \in Nat
    BY <1>1, QueLen DEF Types
  <1>3. Types'
    BY <1>1, <1>2, QueNone DEF Types
  <1>4. OneInUse' /\ (NoneInUse => NoneInUse')
    BY <1>1, QueNone DEF Dummies, OneInUse, OneOfTwo, NoneInUse
  <1>5. Sum' = Sum
    <2>0. PICK n \in Nat : n = Len(tsk.batch)
      BY <1>1, TypesLen
    <2>1. /\ Len(processQue') = Len(processQue) /\ n \in Nat /\ Len(tsk.batch) = n /\ Len(tsk'.batch) = n
          /\ Len(processDoneQue') = 0 /\ reqQue \in Nat
      BY <2>0, <1>1, QueNone, TypesLen
    <2> QED BY <2>1, <1>1, <1>2 DEF Sum
  <1>6. Dummies'
    BY <1>1, <1>4, <1>5 DEF Dummies, Switching
  <1>7. Life'
    BY <1>1 DEF Life, R!NoRegion, R!totalSize
  <1> QED BY <1>3, <1>6, <1>7 DEF SwitchInv

(* The host's commands.                                                      *)
LEMMA SwitchCodecInv == SwitchInv /\ SwitchCodec => SwitchInv'
  <1> SUFFICES ASSUME SwitchInv, SwitchCodec PROVE SwitchInv'
    OBVIOUS
  <1>1. /\ Types /\ Dummies /\ Life /\ link.at = "main"
        /\ processQue' = Append(processQue, Dummy(host.ch))
        /\ host' = [host EXCEPT !.taken = TRUE]
        /\ host.op = "switch" /\ ~host.taken
        /\ UNCHANGED <<config, reqQue, processDoneQue, tsk, lateAck, link, region, ringLost>>
    BY DEF SwitchInv, SwitchCodec, KeepMessage, LinkRuns, ring
  <1>2. PICK q, x : q = processQue' /\ q = Append(processQue, x)
    BY <1>1
  <1>3. NoneInUse /\ Sum = NumReq /\ lateAck = "no"
    BY <1>1 DEF Dummies, Switching
  <1>4. IsQue(q) /\ Len(q) = Len(processQue) + 1 /\ Len(processQue) \in Nat /\ OneDummy(q)
    <2>1. IsQue(processQue) /\ NoDummy(processQue)
      BY <1>1, <1>3 DEF Types, NoneInUse
    <2>2. /\ IsQue(Append(processQue, x)) /\ Len(Append(processQue, x)) = Len(processQue) + 1
          /\ NoDummy(processQue) => OneDummy(Append(processQue, x))
      BY <2>1, QuePut
    <2> QED BY <1>2, <2>1, <2>2, QueLen
  <1>5. /\ host' \in [op : Ops, ch : Chs, format : Formats \cup {"none"}, taken : BOOLEAN]
        /\ Switching'
    BY <1>1 DEF Types, Switching
  <1>6. Types'
    BY <1>1, <1>2, <1>4, <1>5 DEF Types
  <1>7. OneInUse'
    BY <1>1, <1>2, <1>3, <1>4 DEF Dummies, OneInUse, OneOfTwo, NoneInUse
  <1>8. Sum' = NumReq + 1
    <2>0. PICK n \in Nat : n = Len(tsk.batch)
      BY <1>1, TypesLen
    <2>1. /\ reqQue' = reqQue /\ Len(processQue') = Len(processQue) + 1
          /\ n \in Nat /\ Len(tsk.batch) = n /\ Len(tsk'.batch) = n
          /\ Len(processDoneQue') = Len(processDoneQue)
          /\ Len(tsk.batch) \in Nat /\ Len(processDoneQue) \in Nat
          /\ NumReq \in Nat /\ reqQue \in Nat
      BY <2>0, <1>1, <1>2, <1>4, TypesLen, EncAssumption
    <2> QED BY <2>1, <1>3, <1>4 DEF Sum
  <1>9. Dummies'
    BY <1>1, <1>3, <1>5, <1>7, <1>8 DEF Dummies
  <1>10. Life'
    BY <1>1 DEF Life, R!NoRegion, R!totalSize
  <1> QED BY <1>6, <1>9, <1>10 DEF SwitchInv

LEMMA LateAckInv == SwitchInv /\ LateAck => SwitchInv'
  <1> SUFFICES ASSUME SwitchInv, LateAck PROVE SwitchInv'
    OBVIOUS
  <1>1. /\ Types /\ Dummies /\ Life /\ link.at = "main" /\ lateAck = "sent" /\ lateAck' = "no"
        /\ host' = [host EXCEPT !.op = "enable", !.taken = FALSE]
        /\ UNCHANGED <<config, reqQue, processQue, processDoneQue, tsk, link, region, ringLost>>
    BY DEF SwitchInv, LateAck, LinkRuns, ring
  <1>2. /\ host' \in [op : Ops, ch : Chs, format : Formats \cup {"none"}, taken : BOOLEAN]
        /\ ~host'.taken
    BY <1>1 DEF Types, Ops
  <1>3. Types'
    BY <1>1, <1>2 DEF Types
  <1>4. Dummies'
    BY <1>1, <1>2 DEF Dummies, OneInUse, NoneInUse, Sum, Switching
  <1>5. Life'
    BY <1>1 DEF Life, R!NoRegion, R!totalSize
  <1> QED BY <1>3, <1>4, <1>5 DEF SwitchInv

(* A command that neither ends nor begins a switch leaves the requests alone. *)
LEMMA HostInv ==
  ASSUME SwitchInv, ~Switching,
         host' \in [op : Ops, ch : Chs, format : Formats \cup {"none"}, taken : BOOLEAN],
         ~host'.taken, link.at = "stop" => host'.op \in {"stop", "delete"}, link.at # "delete",
         UNCHANGED <<config, reqQue, processQue, processDoneQue, tsk, lateAck, link, region, ringLost>>
  PROVE  SwitchInv'
  BY DEF SwitchInv, Types, Dummies, Life, OneInUse, NoneInUse, Sum, Switching,
         R!NoRegion, R!totalSize

LEMMA LinkInv ==
  ASSUME SwitchInv, link' \in LinkType, link'.at \in {"main", "submit", "stop"},
         link'.at = "stop" => host.op \in {"stop", "delete"},
         UNCHANGED <<config, reqQue, processQue, processDoneQue, tsk, host, lateAck, region, ringLost>>
  PROVE  SwitchInv'
  BY DEF SwitchInv, Types, LinkType, Dummies, Life, OneInUse, NoneInUse, Sum, Switching,
         R!NoRegion, R!totalSize

LEMMA CommandInv == SwitchInv /\ Command => SwitchInv'
  <1> SUFFICES ASSUME SwitchInv, Command PROVE SwitchInv'
    OBVIOUS
  <1>1. CASE DisableChannel
    <2>1. ~Switching /\ ~host.taken /\ link.at = "main"
      BY <1>1 DEF DisableChannel, LinkRuns, SwitchInv, Dummies, Switching
    <2>2. /\ host' \in [op : Ops, ch : Chs, format : Formats \cup {"none"}, taken : BOOLEAN]
          /\ ~host'.taken
      BY <1>1, <2>1 DEF DisableChannel, SwitchInv, Types, Ops
    <2> QED BY <1>1, <2>1, <2>2, HostInv DEF DisableChannel, ring
  <1>2. CASE EnableChannel
    <2>1. ~Switching /\ link.at = "main" /\ 0 \in Chs
      BY <1>2, EncAssumption DEF EnableChannel, LinkRuns, Switching, Chs
    <2>2. /\ host' \in [op : Ops, ch : Chs, format : Formats \cup {"none"}, taken : BOOLEAN]
          /\ ~host'.taken
      BY <1>2, <2>1 DEF EnableChannel, Idle, Ops
    <2> QED BY <1>2, <2>1, <2>2, HostInv DEF EnableChannel, ring
  <1>3. CASE EnterStop
    <2>1. link' \in LinkType /\ link'.at = "stop" /\ host.op \in {"stop", "delete"}
      BY <1>3 DEF EnterStop, LinkType, SwitchInv, Types
    <2> QED BY <1>3, <2>1, LinkInv DEF EnterStop, ring, hosts
  <1> QED BY <1>1, <1>2, <1>3, SwitchCodecInv, LateAckInv DEF Command

LEMMA EndStopInv == SwitchInv /\ EndStop => SwitchInv'
  <1> SUFFICES ASSUME SwitchInv, EndStop PROVE SwitchInv'
    OBVIOUS
  <1>1. /\ Types /\ Dummies /\ Life /\ link.at = "stop" /\ reqQue = NumReq
        /\ host.op \in {"stop", "delete"} /\ ~host.taken
        /\ UNCHANGED <<config, reqQue, processQue, processDoneQue, tsk, lateAck, region, ringLost>>
    BY DEF SwitchInv, Life, EndStop, LinkRuns, AllBack, ring, Dummies, Switching
  <1>2. CASE host.op = "stop"
    <2>1. /\ host' = [host EXCEPT !.op = "delete"] /\ link' = Main
      BY <1>2 DEF EndStop
    <2>2. /\ host' \in [op : Ops, ch : Chs, format : Formats \cup {"none"}, taken : BOOLEAN]
          /\ host'.taken = host.taken /\ host'.op = "delete"
      BY <1>1, <2>1 DEF Types, Ops
    <2>3. link' \in LinkType /\ link'.at = "main"
      BY <2>1 DEF LinkType, Main
    <2> QED BY <1>1, <1>2, <2>2, <2>3 DEF SwitchInv, Types, LinkType, Dummies, Life, OneInUse,
       NoneInUse,
               Sum, Switching, R!NoRegion, R!totalSize
  <1>3. CASE host.op # "stop"
    <2>1. /\ host' = host /\ host.op = "delete" /\ link' = [link EXCEPT !.at = "delete"]
      BY <1>1, <1>3 DEF EndStop
    <2>2. link' \in LinkType /\ link'.at = "delete"
      BY <1>1, <2>1 DEF Types, LinkType
    <2> QED BY <1>1, <2>1, <2>2 DEF SwitchInv, Types, LinkType, Dummies, Life, OneInUse, NoneInUse,
               Sum, Switching, R!NoRegion, R!totalSize
  <1> QED BY <1>2, <1>3

LEMMA DeleteInv == SwitchInv /\ Delete => SwitchInv'
  <1> SUFFICES ASSUME SwitchInv, Delete PROVE SwitchInv'
    OBVIOUS
  <1>1. /\ Types /\ Dummies /\ Life /\ link.at = "delete" /\ reqQue = NumReq /\ tsk.at = "get"
        /\ ~Switching /\ Sum = NumReq /\ ~host.taken
        /\ UNCHANGED <<config, reqQue, processQue, processDoneQue, lateAck, region, ringLost>>
        /\ tsk' = [tsk EXCEPT !.at = "gone"] /\ link' = [link EXCEPT !.at = "deleted"] /\ host' = Idle
    BY DEF SwitchInv, Life, Delete, LinkRuns, ring, Dummies, Switching
  <1>2. /\ tsk'.at = "gone" /\ tsk'.batch = tsk.batch /\ tsk.batch = << >>
        /\ tsk' = [at |-> tsk'.at, batch |-> tsk'.batch, i |-> tsk'.i]
    BY <1>1 DEF Types, Life
  <1>3. link' \in LinkType /\ link'.at = "deleted"
    BY <1>1 DEF Types, LinkType
  <1>4. host' \in [op : Ops, ch : Chs, format : Formats \cup {"none"}, taken : BOOLEAN] /\ ~host'.taken
    <2>1. 0 \in Chs
      BY EncAssumption DEF Chs
    <2> QED BY <1>1, <2>1 DEF Idle, Ops
  <1>5. Types'
    BY <1>1, <1>2, <1>3, <1>4 DEF Types, LinkType
  <1>6. Sum' = NumReq
    BY <1>1, <1>2 DEF Sum
  <1>7. Dummies'
    BY <1>1, <1>2, <1>4, <1>6 DEF Dummies, OneInUse, NoneInUse, Switching
  <1>8. Life'
    BY <1>1, <1>2, <1>3, <1>6 DEF Life, R!NoRegion, R!totalSize
  <1> QED BY <1>5, <1>7, <1>8 DEF SwitchInv

LEMMA HostStartInv == SwitchInv /\ (StartSwitch \/ StartStop) /\ link.at # "deleted" => SwitchInv'
  <1> SUFFICES ASSUME SwitchInv, StartSwitch \/ StartStop, link.at # "deleted" PROVE SwitchInv'
    OBVIOUS
  <1>1. Types /\ Life /\ host = Idle /\ ~Switching /\ ~host.taken /\ link.at \notin {"stop", "delete"}
    BY DEF SwitchInv, Life, StartSwitch, StartStop, Idle, Switching
  <1>2. UNCHANGED <<config, reqQue, processQue, processDoneQue, tsk, lateAck, link, region, ringLost>>
    BY DEF StartSwitch, StartStop, ring
  <1>3. host' \in [op : Ops, ch : Chs, format : Formats \cup {"none"}, taken : BOOLEAN] /\ ~host'.taken
    <2>1. CASE StartStop
      BY <1>1, <2>1 DEF StartStop, Types, Ops
    <2>2. CASE StartSwitch
      <3>1. PICK c \in config.switched, new \in Formats :
               host' = [op |-> "disable", ch |-> c, format |-> new, taken |-> FALSE]
        BY <2>2 DEF StartSwitch, SwitchCommand, Idle
      <3>2. config \in ConfigType
        BY <1>1, EncAssumption DEF Types
      <3>3. c \in Chs
        BY <3>1, <3>2 DEF ConfigType
      <3> QED BY <3>1, <3>3 DEF Ops
    <2> QED BY <2>1, <2>2
  <1> QED BY <1>1, <1>2, <1>3, HostInv

LEMMA NextSwitchInv == SwitchInv /\ [Next]_vars => SwitchInv'
  <1> SUFFICES ASSUME SwitchInv, [Next]_vars PROVE SwitchInv'
    OBVIOUS
  <1>1. CASE UNCHANGED vars
    BY <1>1, Unmoved DEF vars, counted, ring, hosts
  <1>2. CASE (\E f \in Frames : Produce(f)) \/ Consumer
    <2>1. UNCHANGED counted
      BY <1>2 DEF Produce, Consumer, GetFullBufs, PutRing, PutEmptyBufs, R!GiveBack,
                  counted, ring, hosts
    <2> QED BY <2>1, Unmoved
  <1>3. CASE ProcessTsk
    BY <1>3, GetBatchInv, HandleDummyInv, SubmitInv, SubmitFailsInv, BatchDoneInv, EncodedInv DEF ProcessTsk
  <1>4. CASE QueueFramesToChQue \/ EndPass
    <2>1. link' \in LinkType /\ link'.at \in {"main", "submit"}
      <3>1. Main \in LinkType /\ Main.at = "main"
        BY DEF Main, LinkType
      <3>2. [Main EXCEPT !.at = "submit"] \in LinkType /\ [Main EXCEPT !.at = "submit"].at = "submit"
        BY <3>1 DEF LinkType
      <3>3. link' = Main \/ link' = [Main EXCEPT !.at = "submit"]
        BY <1>4 DEF QueueFramesToChQue, EndPass
      <3> QED BY <3>1, <3>2, <3>3
    <2> QED BY <1>4, <2>1, LinkInv DEF QueueFramesToChQue, EndPass, ring, hosts
  <1>5. CASE GetProcessedData \/ WaitRequests
    BY <1>5, CollectInv DEF GetProcessedData, WaitRequests, LinkRuns, ring, hosts
  <1>6. CASE StartSwitch \/ StartStop
    BY <1>6, HostStartInv, <1>1 DEF Next
  <1>7. CASE NextChannel
    <2>1. link \in LinkType /\ TRUE \in BOOLEAN
      BY DEF SwitchInv, Types, LinkType
    <2>2. link' = [link EXCEPT !.ch = @ + 1, !.n = 0] /\ link.at = "submit"
      BY <1>7 DEF NextChannel, LinkRuns
    <2>3. link' \in LinkType /\ link'.at = "submit"
      BY <2>1, <2>2, LinkMoves
    <2> QED BY <1>7, <2>3, LinkInv DEF NextChannel, ring, hosts
  <1> QED BY <1>1, <1>2, <1>3, <1>4, <1>5, <1>6, <1>7, SubmitFrameInv, CommandInv, EndStopInv, DeleteInv
          DEF Next, Link

THEOREM SwitchInvariant == Spec => []SwitchInv
  BY InitSwitchInv, NextSwitchInv, PTL DEF Spec

(* What has three parts has a dummy if one of them does.                     *)
LEMMA InUseParts ==
  ASSUME Types
  PROVE  /\ Len(InUse) = Len(processQue) + Len(tsk.batch) + Len(processDoneQue)
         /\ DOMAIN InUse = 1 .. Len(InUse) /\ IsQue(InUse)
         /\ NoDummy(InUse) <=> NoneInUse
  <1>1. PICK p, b, d : /\ p = processQue /\ b = tsk.batch /\ d = processDoneQue
                       /\ IsQue(p) /\ IsQue(b) /\ IsQue(d)
    BY DEF Types
  <1>2. InUse = (p \o b) \o d
    BY <1>1 DEF InUse
  <1>3. /\ IsQue(p \o b) /\ Len(p \o b) = Len(p) + Len(b)
        /\ NoDummy(p \o b) <=> NoDummy(p) /\ NoDummy(b)
    BY <1>1, QueJoin
  <1>4. /\ IsQue((p \o b) \o d) /\ Len((p \o b) \o d) = Len(p \o b) + Len(d)
        /\ NoDummy((p \o b) \o d) <=> NoDummy(p \o b) /\ NoDummy(d)
    BY <1>1, <1>3, QueJoin
  <1>5. DOMAIN InUse = 1 .. Len(InUse)
    BY <1>2, <1>4 DEF IsQue
  <1> QED BY <1>1, <1>2, <1>3, <1>4, <1>5 DEF NoneInUse

(* While a dummy is on its way, and until the link has acknowledged, the     *)
(* host waits for the switch: the message that is acknowledged is there, for *)
(* any number of channels, requests and switches.                            *)
THEOREM SwitchPendingAlways == Spec => []SwitchPending
  <1>1. SwitchInv => SwitchPending
    <2> SUFFICES ASSUME SwitchInv PROVE SwitchPending
      OBVIOUS
    <2>1. Types /\ Dummies
      BY DEF SwitchInv
    <2>2. (\E i \in DOMAIN InUse : InUse[i].dummy) => ~NoneInUse
      BY <2>1, InUseParts DEF NoDummy
    <2> QED BY <2>1, <2>2 DEF Dummies, Switching, SwitchPending
  <1> QED BY <1>1, SwitchInvariant, PTL

(* When the link's queues are deleted they are empty, all requests are back, *)
(* the process task has ended and the codec writes nothing.                  *)
THEOREM DeletedIdleAlways == Spec => []DeletedIdle
  <1>1. SwitchInv => DeletedIdle
    <2> SUFFICES ASSUME SwitchInv, link.at = "deleted"
                 PROVE  InUse = << >> /\ reqQue = NumReq /\ region = R!NoRegion
      BY DEF DeletedIdle
    <2>1. Types /\ Life /\ tsk.at = "gone" /\ reqQue = NumReq /\ Sum = NumReq
      BY DEF SwitchInv, Life
    <2>2. /\ Len(processQue) \in Nat /\ Len(tsk.batch) \in Nat /\ Len(processDoneQue) \in Nat
          /\ NumReq \in Nat
      BY <2>1, QueLen, EncAssumption DEF Types
    <2>3. Len(processQue) = 0 /\ Len(tsk.batch) = 0 /\ Len(processDoneQue) = 0
      <3>1. PICK l, m, n \in Nat :
              l = Len(processQue) /\ m = Len(tsk.batch) /\ n = Len(processDoneQue)
        BY <2>2
      <3>2. NumReq + l + m + n = NumReq
        BY <2>1, <3>1 DEF Sum
      <3>3. \A r \in Nat : r + l + m + n = r => l = 0 /\ m = 0 /\ n = 0
        OBVIOUS
      <3>4. l = 0 /\ m = 0 /\ n = 0
        BY <2>2, <3>2, <3>3
      <3> QED BY <3>1, <3>4
    <2>4. InUse = << >>
      BY <2>1, <2>3, InUseParts, QueLen
    <2> QED BY <2>1, <2>4 DEF Life
  <1> QED BY <1>1, SwitchInvariant, PTL

(***************************************************************************)
(* Counting the elements of a queue.                                        *)
(***************************************************************************)
Cnt(s, S) == Cardinality({i \in DOMAIN s : s[i] \in S})

LEMMA SameSize ==
  ASSUME NEW A, IsFiniteSet(A), NEW B, NEW f \in [A -> B],
         \A x, y \in A : f[x] = f[y] => x = y, \A y \in B : \E x \in A : f[x] = y
  PROVE  IsFiniteSet(B) /\ Cardinality(B) = Cardinality(A)
  <1>1. f \in Bijection(A, B)
    BY DEF Bijection, Injection, Surjection, IsInjective
  <1> QED BY <1>1, FS_Bijection DEF ExistsBijection

LEMMA IntervalSize == \A n \in Nat : IsFiniteSet(1 .. n) /\ Cardinality(1 .. n) = n
  <1> SUFFICES ASSUME NEW n \in Nat PROVE IsFiniteSet(1 .. n) /\ Cardinality(1 .. n) = n
    OBVIOUS
  <1>1. IsFiniteSet(1 .. n) /\ Cardinality(1 .. n) = IF 1 > n THEN 0 ELSE n - 1 + 1
    BY FS_Interval
  <1> QED BY <1>1

LEMMA QueDomain ==
  ASSUME NEW s, IsQue(s)
  PROVE  /\ Len(s) \in Nat /\ DOMAIN s = 1 .. Len(s)
         /\ IsFiniteSet(DOMAIN s) /\ Cardinality(DOMAIN s) = Len(s)
  <1>1. Len(s) \in Nat /\ DOMAIN s = 1 .. Len(s)
    BY LenProperties DEF IsQue
  <1> QED BY <1>1, IntervalSize

LEMMA CntProperties ==
  ASSUME NEW s, IsQue(s), NEW S
  PROVE  /\ IsFiniteSet({i \in DOMAIN s : s[i] \in S})
         /\ Cnt(s, S) \in Nat /\ Cnt(s, S) <= Len(s)
         /\ Cnt(s, S) = 0 <=> \A i \in DOMAIN s : s[i] \notin S
         /\ (\A i \in DOMAIN s : s[i] \in S) => Cnt(s, S) = Len(s)
  <1> DEFINE A == {i \in DOMAIN s : s[i] \in S}
  <1>1. IsFiniteSet(DOMAIN s) /\ Cardinality(DOMAIN s) = Len(s) /\ A \in SUBSET DOMAIN s
    BY QueDomain
  <1>2. IsFiniteSet(A) /\ Cardinality(A) <= Len(s) /\ Cardinality(A) \in Nat
    BY <1>1, FS_Subset, FS_CardinalityType
  <1>3. Cardinality(A) = 0 <=> A = {}
    BY <1>2, FS_EmptySet
  <1>4. (\A i \in DOMAIN s : s[i] \in S) => A = DOMAIN s
    OBVIOUS
  <1>5. A = {} <=> \A i \in DOMAIN s : s[i] \notin S
    OBVIOUS
  <1>6. Cnt(s, S) = Cardinality(A)
    BY DEF Cnt
  <1> HIDE DEF A
  <1>7. (\A i \in DOMAIN s : s[i] \in S) => Cardinality(A) = Len(s)
    BY <1>1, <1>4
  <1> QED BY <1>2, <1>3, <1>5, <1>6, <1>7 DEF A

(* A queue of members of F that has none of them twice is no longer than F. *)
LEMMA OnceEach ==
  ASSUME NEW s, IsQue(s), NEW F, IsFiniteSet(F), \A i \in DOMAIN s : s[i] \in F,
         \A f \in F : Cnt(s, {f}) <= 1
  PROVE  Len(s) <= Cardinality(F)
  <1>1. IsFiniteSet(DOMAIN s) /\ Cardinality(DOMAIN s) = Len(s)
    BY QueDomain
  <1>2. ASSUME NEW i \in DOMAIN s, NEW j \in DOMAIN s, s[i] = s[j] PROVE i = j
    <2> DEFINE A == {k \in DOMAIN s : s[k] \in {s[i]}}
    <2>1. IsFiniteSet(A) /\ Cardinality(A) <= 1 /\ Cardinality(A) \in Nat
      BY CntProperties, FS_CardinalityType DEF Cnt
    <2>2. {i} \in SUBSET A /\ j \in A /\ Cardinality({i}) = 1
      BY <1>2, FS_Singleton
    <2> HIDE DEF A
    <2>3. Cardinality({i}) <= Cardinality(A) /\ (Cardinality(A) = Cardinality({i}) => A = {i})
      BY <2>1, <2>2, FS_Subset
    <2>4. Cardinality(A) = Cardinality({i})
      BY <2>1, <2>2, <2>3
    <2> QED BY <2>2, <2>3, <2>4
  <1>3. PICK g : g = [i \in DOMAIN s |-> s[i]]
    OBVIOUS
  <1>4. g \in Injection(DOMAIN s, F)
    BY <1>2, <1>3 DEF Injection, IsInjective
  <1>5. Cardinality(DOMAIN s) <= Cardinality(F)
    BY <1>4, FS_Injection
  <1> QED BY <1>1, <1>5

LEMMA CntNone == ASSUME NEW S PROVE Cnt(<< >>, S) = 0
  <1>1. IsQue(<< >>) /\ DOMAIN << >> = {}
    BY QueNone
  <1> QED BY <1>1, CntProperties

LEMMA CntConcat ==
  ASSUME NEW s, IsQue(s), NEW t, IsQue(t), NEW S
  PROVE  Cnt(s \o t, S) = Cnt(s, S) + Cnt(t, S)
  <1>1. PICK T1 : s \in Seq(T1)
    BY DEF IsQue
  <1>2. PICK T2 : t \in Seq(T2)
    BY DEF IsQue
  <1>3. s \in Seq(T1 \cup T2) /\ t \in Seq(T1 \cup T2)
    BY <1>1, <1>2, SeqMonotonic
  <1> DEFINE m == Len(s)  n == Len(t)  u == s \o t
             A == {i \in DOMAIN s : s[i] \in S}
             B == {i \in DOMAIN t : t[i] \in S}
             C == {i \in DOMAIN u : u[i] \in S}
             D == {m + i : i \in B}
  <1>4. /\ m \in Nat /\ n \in Nat /\ DOMAIN s = 1 .. m /\ DOMAIN t = 1 .. n
        /\ DOMAIN u = 1 .. m + n
        /\ \A i \in 1 .. m + n : u[i] = IF i <= m THEN s[i] ELSE t[i - m]
    BY <1>3, ConcatProperties, LenProperties
  <1>5. C = A \cup D /\ A \cap D = {}
    <2>1. ASSUME NEW i \in C PROVE i \in A \cup D
      <3>1. i \in 1 .. m + n /\ u[i] \in S
        BY <1>4
      <3>2. CASE i <= m
        <4>1. i \in 1 .. m /\ s[i] \in S
          BY <3>1, <3>2, <1>4
        <4> QED BY <4>1, <1>4
      <3>3. CASE ~(i <= m)
        <4>1. i - m \in 1 .. n /\ t[i - m] \in S /\ i = m + (i - m)
          BY <3>1, <3>3, <1>4
        <4>2. i - m \in B
          BY <4>1, <1>4
        <4> QED BY <4>1, <4>2
      <3> QED BY <3>2, <3>3
    <2>2. ASSUME NEW i \in A PROVE i \in C
      <3>1. i \in 1 .. m /\ i \in 1 .. m + n /\ i <= m /\ s[i] \in S
        BY <1>4
      <3> QED BY <3>1, <1>4
    <2>3. ASSUME NEW i \in B PROVE m + i \in C /\ m + i \notin A
      <3>1. i \in 1 .. n /\ t[i] \in S
        BY <1>4
      <3>2. m + i \in 1 .. m + n /\ ~(m + i <= m) /\ (m + i) - m = i
        BY <3>1, <1>4
      <3>3. u[m + i] = t[i]
        BY <3>2, <1>4
      <3> QED BY <3>1, <3>2, <3>3, <1>4
    <2> QED BY <2>1, <2>2, <2>3
  <1>6. IsFiniteSet(A) /\ IsFiniteSet(B)
    BY CntProperties
  <1>7. IsFiniteSet(D) /\ Cardinality(D) = Cardinality(B)
    <2> DEFINE f == [i \in B |-> m + i]
    <2>1. f \in [B -> D] /\ \A y \in D : \E x \in B : f[x] = y
      OBVIOUS
    <2>2. \A x, y \in B : f[x] = f[y] => x = y
      BY <1>4
    <2> QED BY <1>6, <2>1, <2>2, SameSize
  <1>8. Cardinality(A \cup D) = Cardinality(A) + Cardinality(D) - Cardinality(A \cap D)
    BY <1>6, <1>7, FS_Union
  <1>9. Cardinality({}) = 0 /\ Cardinality(A) \in Nat /\ Cardinality(D) \in Nat
    BY <1>6, <1>7, FS_EmptySet, FS_CardinalityType
  <1>10. Cnt(u, S) = Cardinality(C) /\ Cnt(s, S) = Cardinality(A) /\ Cnt(t, S) = Cardinality(B)
    BY DEF Cnt
  <1> HIDE DEF A, B, C, D
  <1>11. PICK a, d \in Nat : a = Cardinality(A) /\ d = Cardinality(D)
    BY <1>9
  <1>12. Cardinality(C) = a + d
    <2>1. Cardinality(A \cap D) = 0 /\ Cardinality(C) = Cardinality(A \cup D)
      BY <1>5, <1>9
    <2>2. Cardinality(C) = a + d - 0
      BY <1>8, <1>11, <2>1
    <2> QED BY <2>2
  <1> QED BY <1>7, <1>10, <1>11, <1>12

LEMMA CntOne ==
  ASSUME NEW x, NEW S
  PROVE  IsQue(<<x>>) /\ Cnt(<<x>>, S) = IF x \in S THEN 1 ELSE 0
  <1>1. <<x>> \in Seq({x}) /\ Len(<<x>>) = 1 /\ DOMAIN <<x>> = {1} /\ <<x>>[1] = x
    OBVIOUS
  <1>2. IsQue(<<x>>)
    BY <1>1 DEF IsQue
  <1>3. x \in S => \A i \in DOMAIN <<x>> : <<x>>[i] \in S
    BY <1>1
  <1>4. x \notin S => \A i \in DOMAIN <<x>> : <<x>>[i] \notin S
    BY <1>1
  <1> QED BY <1>1, <1>2, <1>3, <1>4, CntProperties

LEMMA CntAppend ==
  ASSUME NEW s, IsQue(s), NEW x, NEW S
  PROVE  Cnt(Append(s, x), S) = Cnt(s, S) + (IF x \in S THEN 1 ELSE 0)
  <1>1. PICK T : s \in Seq(T)
    BY DEF IsQue
  <1>2. s \in Seq(T \cup {x})
    BY <1>1, SeqMonotonic
  <1>3. Append(s, x) = s \o <<x>>
    BY <1>2, AppendIsConcat
  <1> QED BY <1>3, CntOne, CntConcat

LEMMA CntSplit ==
  ASSUME NEW s, IsQue(s), NEW n \in 0 .. Len(s), NEW S
  PROVE  LET b == SubSeq(s, 1, n)
             r == SubSeq(s, n + 1, Len(s))
         IN  /\ IsQue(b) /\ IsQue(r) /\ Len(b) = n /\ Len(r) = Len(s) - n
             /\ \A i \in 1 .. n : b[i] = s[i]
             /\ Cnt(s, S) = Cnt(b, S) + Cnt(r, S)
  <1> DEFINE b == SubSeq(s, 1, n)  r == SubSeq(s, n + 1, Len(s))
  <1>1. PICK T : s \in Seq(T)
    BY DEF IsQue
  <1>2. Len(s) \in Nat /\ \A i \in 1 .. Len(s) : s[i] \in T
    BY <1>1, LenProperties, ElementOfSeq
  <1>3. b \in Seq(T) /\ Len(b) = n /\ \A i \in 1 .. n : b[i] = s[i]
    BY <1>2, SubSeqProperties
  <1>4. r \in Seq(T) /\ Len(r) = Len(s) - n
    BY <1>2, SubSeqProperties
  <1>5. b \o r = s
    <2>1. 1 \in 1 .. Len(s) + 1 /\ n \in 1 - 1 .. Len(s) /\ Len(s) \in n .. Len(s)
      BY <1>2
    <2>2. SubSeq(s, 1, n) \o SubSeq(s, n + 1, Len(s)) = SubSeq(s, 1, Len(s))
      BY <1>1, <2>1, ConcatAdjacentSubSeq
    <2>3. SubSeq(s, 1, Len(s)) = s
      BY <1>1, SubSeqFull
    <2> QED BY <2>2, <2>3
  <1>6. IsQue(b) /\ IsQue(r)
    BY <1>3, <1>4 DEF IsQue
  <1> HIDE DEF b, r
  <1>7. Cnt(b \o r, S) = Cnt(b, S) + Cnt(r, S)
    BY <1>6, CntConcat
  <1> QED BY <1>3, <1>4, <1>5, <1>6, <1>7 DEF b, r

LEMMA CntTail ==
  ASSUME NEW s, IsQue(s), s # << >>, NEW S
  PROVE  Cnt(Tail(s), S) = Cnt(s, S) - (IF Head(s) \in S THEN 1 ELSE 0)
  <1>1. PICK T : s \in Seq(T)
    BY DEF IsQue
  <1>2. s = <<Head(s)>> \o Tail(s) /\ Tail(s) \in Seq(T)
    BY <1>1
  <1>3. IsQue(Tail(s)) /\ IsQue(<<Head(s)>>)
    BY <1>2, CntOne DEF IsQue
  <1>4. Cnt(s, S) = Cnt(<<Head(s)>>, S) + Cnt(Tail(s), S)
    <2>1. PICK h, t : h = <<Head(s)>> /\ t = Tail(s)
      OBVIOUS
    <2>2. IsQue(h) /\ IsQue(t) /\ s = h \o t
      BY <1>2, <1>3, <2>1
    <2>3. Cnt(h \o t, S) = Cnt(h, S) + Cnt(t, S)
      BY <2>2, CntConcat
    <2> QED BY <2>1, <2>2, <2>3
  <1>5. PICK c \in Nat : c = Cnt(Tail(s), S)
    BY <1>3, CntProperties
  <1> QED BY <1>4, <1>5, CntOne

(* What Only keeps, and in what order: the k-th element it keeps is the one *)
(* with k - 1 before it.                                                    *)
LEMMA OnlyProperties ==
  ASSUME NEW T, NEW s \in Seq(T), NEW S
  PROVE  /\ Only(s, S) \in Seq(S \cap T)
         /\ \A U : Cnt(Only(s, S), U) = Cnt(s, S \cap U)
  <1> DEFINE I == {i \in DOMAIN s : s[i] \in S}
             n == Cardinality(I)
             Below(i) == {j \in I : j <= i}
             rank == [i \in I |-> Cardinality(Below(i))]
             at(k) == CHOOSE i \in I : Cardinality(Below(i)) = k
             q == Only(s, S)
  <1>1. /\ IsQue(s) /\ Len(s) \in Nat /\ DOMAIN s = 1 .. Len(s)
        /\ \A i \in I : i \in Nat /\ s[i] \in S /\ s[i] \in T
    BY LenProperties, ElementOfSeq DEF IsQue
  <1>2. IsFiniteSet(I) /\ n \in Nat
    BY <1>1, CntProperties, FS_CardinalityType
  <1>3. \A i \in I : /\ IsFiniteSet(Below(i)) /\ Cardinality(Below(i)) \in 1 .. n
    <2> SUFFICES ASSUME NEW i \in I
                 PROVE  IsFiniteSet(Below(i)) /\ Cardinality(Below(i)) \in 1 .. n
      OBVIOUS
    <2>1. Below(i) \in SUBSET I /\ i \in Below(i)
      BY <1>1
    <2>2. IsFiniteSet(Below(i)) /\ Cardinality(Below(i)) <= n
      BY <1>2, <2>1, FS_Subset
    <2>3. Cardinality(Below(i)) \in Nat /\ Cardinality(Below(i)) # 0
      BY <2>1, <2>2, FS_CardinalityType, FS_EmptySet
    <2> QED BY <1>2, <2>2, <2>3
  <1>4. ASSUME NEW i \in I, NEW j \in I, i < j PROVE rank[i] # rank[j]
    <2>1. Below(i) \in SUBSET Below(j) /\ j \in Below(j) /\ j \notin Below(i)
      BY <1>1, <1>4
    <2>2. Cardinality(Below(i)) # Cardinality(Below(j))
      BY <1>3, <2>1, FS_Subset
    <2> QED BY <2>2
  <1>5. rank \in Injection(I, 1 .. n)
    <2>1. rank \in [I -> 1 .. n]
      BY <1>3
    <2>2. ASSUME NEW i \in I, NEW j \in I, i # j PROVE rank[i] # rank[j]
      <3>1. i < j \/ j < i
        BY <1>1, <2>2
      <3> HIDE DEF rank
      <3> QED BY <3>1, <1>4
    <2> QED BY <2>1, <2>2 DEF Injection, IsInjective
  <1>6. IsFiniteSet(1 .. n) /\ Cardinality(1 .. n) = n
    BY <1>2, IntervalSize
  <1>7. rank \in Surjection(I, 1 .. n)
    BY <1>5, <1>6, FS_Injection
  <1>8. \A k \in 1 .. n : at(k) \in I /\ rank[at(k)] = k
    <2> SUFFICES ASSUME NEW k \in 1 .. n PROVE at(k) \in I /\ rank[at(k)] = k
      OBVIOUS
    <2>1. \E i \in I : Cardinality(Below(i)) = k
      BY <1>7 DEF Surjection
    <2>2. at(k) \in I /\ Cardinality(Below(at(k))) = k
      BY <2>1
    <2> QED BY <2>2
  <1>9. q = [k \in 1 .. n |-> s[at(k)]]
    BY DEF Only
  <1>10. q \in Seq(S \cap T) /\ Len(q) = n /\ DOMAIN q = 1 .. n
    <2> HIDE DEF at, q, n
    <2>1. \A k \in 1 .. n : s[at(k)] \in S \cap T
      BY <1>1, <1>8
    <2>2. q \in [1 .. n -> S \cap T]
      BY <1>9, <2>1
    <2> QED BY <1>2, <2>2
  <1>11. ASSUME NEW U PROVE Cnt(q, U) = Cnt(s, S \cap U)
    <2> DEFINE A == {k \in DOMAIN q : q[k] \in U}
               B == {i \in DOMAIN s : s[i] \in S \cap U}
               f == [k \in A |-> at(k)]
    <2> HIDE DEF rank, at, q
    <2>1. IsFiniteSet(A)
      <3>1. IsQue(q)
        BY <1>10 DEF IsQue
      <3> QED BY <3>1, CntProperties
    <2>2. \A k \in A : k \in 1 .. n /\ at(k) \in I /\ rank[at(k)] = k /\ s[at(k)] \in U
      BY <1>8, <1>9, <1>10
    <2>3. f \in [A -> B]
      BY <2>2
    <2>4. \A x, y \in A : f[x] = f[y] => x = y
      BY <2>2
    <2>5. ASSUME NEW i \in B PROVE \E k \in A : f[k] = i
      <3>1. i \in I /\ s[i] \in U
        OBVIOUS
      <3>2. rank[i] \in 1 .. n
        BY <3>1, <1>5 DEF Injection
      <3>3. at(rank[i]) = i
        BY <3>1, <3>2, <1>5, <1>8 DEF Injection, IsInjective
      <3>4. rank[i] \in A
        BY <3>1, <3>2, <3>3, <1>9, <1>10
      <3> QED BY <3>3, <3>4
    <2>6. Cardinality(B) = Cardinality(A)
      BY <2>1, <2>3, <2>4, <2>5, SameSize
    <2> QED BY <2>6 DEF Cnt
  <1> QED BY <1>10, <1>11

LEMMA OnlyCounts ==
  ASSUME NEW s, IsQue(s), NEW S, NEW U
  PROVE  Cnt(Only(s, S), U) = Cnt(s, S \cap U)
  <1>1. PICK T : s \in Seq(T)
    BY DEF IsQue
  <1>2. /\ Only(s, S) \in Seq(S \cap T)
        /\ \A V : Cnt(Only(s, S), V) = Cnt(s, S \cap V)
    BY <1>1, OnlyProperties
  <1> QED BY <1>2

(***************************************************************************)
(* Where the frames and the buffers are.  No dummy is in a batch as long as *)
(* a channel that is switched can not be in one batch with another: a batch *)
(* is one request, or the others are interlaced and stay so, and the        *)
(* switched one is not.  (In enc_switch it is not so.)  Then the requests   *)
(* and the bitstream buffers in use are the requests with frames that are   *)
(* in the tasks' queues.                                                    *)
(***************************************************************************)
SwitchedApart ==
    \A g \in Configs : \A c \in g.switched :
        \/ g.maxBatch = 1
        \/ /\ g.numFrames[c] = 1 /\ g.perPass[c] = 1
           /\ \A d \in Chs \ {c} : d \notin g.switched /\ (g.numFrames[d] = 2 \/ g.perPass[d] = 2)

Real == {r \in Requests : ~r.dummy}
With(f) == {r \in Requests : f \in Elems(r.frames)}

(* How many streams of the batch are written.                               *)
Written == IF tsk.at \in {"get", "gone"} THEN 0 ELSE tsk.i - 1

DataTypes ==
    /\ config \in Configs /\ format \in [Chs -> Formats] /\ progressive \subseteq config.switched
    /\ free \subseteq Frames /\ fullQue \in FrameSeqs /\ newData \in BOOLEAN
    /\ inQue \in [Chs -> FrameSeqs] /\ disableChn \in [Chs -> BOOLEAN] /\ freeList \in FrameSeqs
    /\ switches \in 0 .. MaxSwitches /\ notified \in BOOLEAN /\ asserted = FALSE
    /\ ringLost \in BOOLEAN
QueTypes ==
    /\ processQue \in Seq(Requests) /\ processDoneQue \in Seq(Requests)
    /\ tsk \in [at : {"get", "submit", "encode", "gone"}, batch : Seq(Requests), i : Nat]
    /\ reqQue \in Nat /\ emptyQue \in Nat /\ bitFull \in Nat /\ held \in Nat /\ returned \in Nat
PassTypes ==
    link \in [at : {"main", "submit", "stop", "delete", "deleted"},
              ch : 0 .. NumCh, n : 0 .. 1, ok : BOOLEAN]
KeptTypes == DataTypes /\ QueTypes /\ PassTypes

DummyOK(r) == r.dummy => r.ch \in config.switched /\ r.frames = << >>

Sorted ==
    /\ NoDummy(tsk.batch) /\ NoDummy(processDoneQue)
    /\ \A k \in 1 .. Len(processQue) : DummyOK(processQue[k])
    /\ host.op \in {"disable", "switch", "enable"} =>
          host.ch \in config.switched /\ host.format \in Formats
    /\ tsk.at \in {"get", "gone"} => tsk.i = 0
    /\ tsk.at \in {"submit", "encode"} => tsk.i \in 1 .. Len(tsk.batch) + 1
    /\ tsk.at = "encode" => tsk.i <= Len(tsk.batch)
    /\ \A c \in Chs : \A i \in DOMAIN inQue[c] : ChannelOf[inQue[c][i]] = c

Queued == Cnt(processQue, Real) + Len(tsk.batch) + Len(processDoneQue)
Counted ==
    /\ reqQue + Queued = NumReq
    /\ emptyQue + Queued + bitFull + held + returned = NumBufs
    /\ ~ringLost => Len(streams) = Written + Len(processDoneQue) + bitFull + held

Place(f) ==
    (IF f \in free THEN 1 ELSE 0) + Cnt(fullQue, {f}) + Cnt(freeList, {f})
    + Cnt(inQue[ChannelOf[f]], {f})
    + Cnt(processQue, With(f)) + Cnt(tsk.batch, With(f)) + Cnt(processDoneQue, With(f))
Placed == \A f \in Frames : Place(f) = 1

KeptInv == KeptTypes /\ Sorted /\ Counted /\ Placed

(* What the queues are, for the lemmas on counting.                         *)
LEMMA KeptQues ==
  ASSUME KeptTypes
  PROVE  /\ IsQue(fullQue) /\ IsQue(freeList) /\ \A c \in Chs : IsQue(inQue[c])
         /\ IsQue(processQue) /\ IsQue(tsk.batch) /\ IsQue(processDoneQue)
  BY DEF KeptTypes, DataTypes, codecs, QueTypes, IsQue, FrameSeqs

LEMMA PlaceNat ==
  ASSUME KeptTypes, NEW f \in Frames
  PROVE  /\ Cnt(fullQue, {f}) \in Nat /\ Cnt(freeList, {f}) \in Nat
         /\ Cnt(inQue[ChannelOf[f]], {f}) \in Nat /\ ChannelOf[f] \in Chs
         /\ Cnt(processQue, With(f)) \in Nat /\ Cnt(tsk.batch, With(f)) \in Nat
         /\ Cnt(processDoneQue, With(f)) \in Nat
  BY KeptQues, CntProperties, EncAssumption

LEMMA QueuedNat ==
  ASSUME KeptTypes
  PROVE  /\ Cnt(processQue, Real) \in Nat /\ Len(processQue) \in Nat
         /\ Len(tsk.batch) \in Nat /\ Len(processDoneQue) \in Nat
         /\ NumReq \in Nat /\ NumBufs \in Nat
  <1>1. NumReq \in Nat /\ NumBufs \in Nat
    BY EncAssumption, RingSizes DEF R!RingAssumption
  <1> QED BY <1>1, KeptQues, CntProperties, QueDomain

LEMMA ElemsOf == ASSUME NEW T, NEW s \in Seq(T) PROVE Elems(s) \subseteq T
  <1>1. DOMAIN s = 1 .. Len(s) /\ \A i \in 1 .. Len(s) : s[i] \in T
    BY LenProperties, ElementOfSeq
  <1> QED BY <1>1 DEF Elems

(* An element of a list, and a frame of a list of requests, are counted.    *)
LEMMA CountedElem ==
  ASSUME NEW s, IsQue(s), NEW f
  PROVE  f \in Elems(s) <=> Cnt(s, {f}) # 0
  BY CntProperties DEF Elems

LEMMA CountedFrame ==
  ASSUME NEW s \in Seq(Requests), NEW f
  PROVE  f \in FramesOf(s) <=> Cnt(s, With(f)) # 0
  <1>1. IsQue(s) /\ DOMAIN s = 1 .. Len(s) /\ \A i \in DOMAIN s : s[i] \in Requests
    BY LenProperties, ElementOfSeq DEF IsQue
  <1>2. f \in FramesOf(s) <=> \E i \in DOMAIN s : f \in Elems(s[i].frames)
    BY DEF FramesOf, Elems
  <1>3. f \in FramesOf(s) <=> \E i \in DOMAIN s : s[i] \in With(f)
    BY <1>1, <1>2 DEF With
  <1> QED BY <1>1, <1>3, CntProperties

(* The places of the link's task.                                            *)
LEMMA SubmitStarts ==
  /\ Main \in [at : {"main", "submit", "stop", "delete", "deleted"},
               ch : 0 .. NumCh, n : 0 .. 1, ok : BOOLEAN]
  /\ [Main EXCEPT !.at = "submit"] \in [at : {"main", "submit", "stop", "delete", "deleted"},
               ch : 0 .. NumCh, n : 0 .. 1, ok : BOOLEAN]
  <1>1. 0 \in 0 .. NumCh
    BY EncAssumption
  <1>2. Main \in [at : {"main", "submit", "stop", "delete", "deleted"},
               ch : 0 .. NumCh, n : 0 .. 1, ok : BOOLEAN]
    BY <1>1 DEF Main
  <1> QED BY <1>2

(* What a part of the invariant does not depend on.                         *)
LEMMA CountStay ==
  ASSUME Counted,
         UNCHANGED <<reqQue, emptyQue, processQue, processDoneQue, tsk, bitFull, held, returned,
                     streams, ringLost>>
  PROVE  Counted'
  BY DEF Counted, Queued, Written, Cnt

LEMMA PlaceStay ==
  ASSUME Placed,
         UNCHANGED <<free, fullQue, freeList, inQue, processQue, tsk.batch, processDoneQue>>
  PROVE  Placed'
  BY DEF Placed, Place, Cnt

LEMMA SortedStay ==
  ASSUME Sorted, UNCHANGED <<config, tsk, processQue, processDoneQue, host, inQue>>
  PROVE  Sorted'
  BY DEF Sorted, DummyOK, NoDummy

LEMMA InitKeptInv == Init => KeptInv
  <1> SUFFICES ASSUME Init PROVE KeptInv
    OBVIOUS
  <1>1. KeptTypes
    <2>1. /\ config \in ConfigType /\ NumBufs \in Nat /\ NumReq \in Nat
          /\ NumCh \in Nat /\ MaxSwitches \in Nat
      BY EncAssumption, RingSizes DEF Init, R!RingAssumption
    <2>2. DataTypes
      <3>1. format \in [Chs -> Formats]
        BY <2>1 DEF Init, ConfigType
      <3>2. inQue \in [Chs -> FrameSeqs] /\ fullQue \in FrameSeqs /\ freeList \in FrameSeqs
        BY DEF Init, FrameSeqs
      <3>3. disableChn \in [Chs -> BOOLEAN] /\ switches \in 0 .. MaxSwitches
        BY <2>1 DEF Init
      <3> QED BY <3>1, <3>2, <3>3 DEF Init, DataTypes, codecs
    <2>3. QueTypes
      BY <2>1 DEF Init, QueTypes, Waiting
    <2>4. PassTypes
      BY <2>1 DEF Init, PassTypes, Main
    <2> QED BY <2>2, <2>3, <2>4 DEF KeptTypes
  <1>2. Sorted
    <2>1. /\ tsk.batch = << >> /\ tsk.at = "get" /\ tsk.i = 0
          /\ processDoneQue = << >> /\ processQue = << >>
          /\ host.op = "none" /\ inQue = [c \in Chs |-> << >>] /\ Len(processQue) = 0
      BY DEF Init, Waiting, Idle
    <2>2. DOMAIN << >> = {}
      OBVIOUS
    <2> QED BY <2>1, <2>2, QueNone DEF Sorted
  <1>3. Counted
    <2>1. Cnt(processQue, Real) = 0 /\ Len(tsk.batch) = 0 /\ Len(processDoneQue) = 0
      BY CntNone DEF Init, Waiting
    <2>2. Written = 0 /\ Len(streams) = 0 /\ bitFull = 0 /\ held = 0 /\ returned = 0
          /\ emptyQue = NumBufs /\ reqQue = NumReq
      BY DEF Init, Waiting, Written, R!Init
    <2> QED BY <2>1, <2>2, <1>1, QueuedNat DEF Counted, Queued
  <1>4. ASSUME NEW f \in Frames PROVE Place(f) = 1
    <2>1. /\ f \in free /\ fullQue = << >> /\ freeList = << >> /\ inQue[ChannelOf[f]] = << >>
          /\ processQue = << >> /\ tsk.batch = << >> /\ processDoneQue = << >>
      BY EncAssumption DEF Init, Waiting
    <2> QED BY <2>1, CntNone DEF Place
  <1> QED BY <1>1, <1>2, <1>3, <1>4 DEF KeptInv, Placed

LEMMA ProduceKept == ASSUME KeptInv, NEW f \in Frames, Produce(f) PROVE KeptInv'
  <1>1. /\ f \in free /\ free' = free \ {f} /\ fullQue' = Append(fullQue, f) /\ newData' \in Sent(newData)
        /\ UNCHANGED <<config, codecs, inQue, disableChn, freeList, link, reqQue, processQue,
                       processDoneQue, tsk, emptyQue, bitFull, consumer, hosts, asserted, streams, ringLost>>
    BY DEF Produce, ring
  <1>2. KeptTypes /\ Sorted /\ Counted /\ Placed
    BY DEF KeptInv
  <1>3. KeptTypes'
    <2>1. newData' \in BOOLEAN
      BY <1>1, <1>2 DEF KeptTypes, DataTypes, Sent
    <2> QED BY <1>1, <1>2, <2>1
            DEF KeptTypes, DataTypes, codecs, QueTypes, PassTypes, FrameSeqs, consumer, hosts
  <1>4. Sorted' /\ Counted'
    BY <1>1, <1>2, SortedStay, CountStay DEF hosts, consumer
  <1>5. ASSUME NEW g \in Frames PROVE Place(g)' = 1
    <2>1. Cnt(fullQue', {g}) = Cnt(fullQue, {g}) + (IF f \in {g} THEN 1 ELSE 0)
      BY <1>1, <1>2, KeptQues, CntAppend
    <2>2. Place(g) = 1
      BY <1>2 DEF Placed
    <2> QED BY <1>1, <1>2, <2>1, <2>2, PlaceNat DEF Place
  <1> QED BY <1>3, <1>4, <1>5 DEF KeptInv, Placed

(* The process task.                                                         *)
LEMMA BatchReal ==
  ASSUME SwitchedApart, KeptInv, ~Head(processQue).dummy, NEW n \in 1 .. Len(processQue), Joins(n),
         NEW k \in 1 .. n
  PROVE  ~processQue[k].dummy
  <1>1. /\ KeptTypes /\ processQue \in Seq(Requests) /\ Len(processQue) \in Nat
        /\ \A i \in 1 .. Len(processQue) : processQue[i] \in Requests
        /\ config \in Configs /\ config \in ConfigType
    BY EncAssumption, LenProperties, ElementOfSeq DEF KeptInv, KeptTypes, DataTypes, codecs, QueTypes
  <1>2. CASE k = 1
    BY <1>2
  <1>3. CASE k # 1
    <2> SUFFICES ASSUME processQue[k].dummy PROVE FALSE
      OBVIOUS
    <2>1. k \in 2 .. n /\ k \in 1 .. Len(processQue) /\ 1 \in 1 .. Len(processQue) /\ 1 \in 1 .. k - 1
      BY <1>1, <1>3
    <2> DEFINE c == processQue[k].ch  d == processQue[1].ch
    <2>2. /\ n <= config.maxBatch /\ Interlaced(c) = Interlaced(d) /\ c # d
          /\ c \in Chs /\ d \in Chs
      BY <1>1, <2>1 DEF Joins, Requests
    <2>3. c \in config.switched
      BY <2>1 DEF KeptInv, Sorted, DummyOK
    <2>4. config.maxBatch \in Nat /\ config.maxBatch # 1
      BY <1>1, <2>1, <2>2 DEF ConfigType
    <2>5. /\ config.numFrames[c] = 1 /\ config.perPass[c] = 1
          /\ d \notin config.switched /\ (config.numFrames[d] = 2 \/ config.perPass[d] = 2)
      BY <1>1, <2>2, <2>3, <2>4 DEF SwitchedApart
    <2>6. ~Interlaced(c)
      BY <2>5 DEF Interlaced, NumFrames, PerPass
    <2>7. d \notin progressive
      BY <1>1, <2>5 DEF KeptTypes, DataTypes
    <2>8. Interlaced(d)
      BY <2>5, <2>7 DEF Interlaced, NumFrames, PerPass
    <2> QED BY <2>2, <2>6, <2>8
  <1> QED BY <1>2, <1>3

LEMMA AllReal ==
  ASSUME NEW s \in Seq(Requests), NoDummy(s)
  PROVE  Cnt(s, Real) = Len(s)
  <1>1. IsQue(s) /\ DOMAIN s = 1 .. Len(s) /\ \A i \in DOMAIN s : s[i] \in Requests
    BY LenProperties, ElementOfSeq DEF IsQue
  <1>2. \A i \in DOMAIN s : s[i] \in Real
    BY <1>1 DEF NoDummy, Real
  <1> QED BY <1>1, <1>2, CntProperties

LEMMA GetBatchKept == ASSUME SwitchedApart, SwitchInv, KeptInv, GetBatch PROVE KeptInv'
  <1>1. /\ tsk.at = "get" /\ ~Head(processQue).dummy
        /\ UNCHANGED <<config, codecs, source, inQue, disableChn, freeList, link, reqQue,
                       processDoneQue, emptyQue, bitFull, consumer, hosts, asserted, streams, ringLost>>
    BY DEF GetBatch, ring
  <1>2. KeptTypes /\ Sorted /\ Counted /\ Placed
    BY DEF KeptInv
  <1>3. /\ processQue \in Seq(Requests) /\ IsQue(processQue) /\ Len(processQue) \in Nat
        /\ DOMAIN processQue = 1 .. Len(processQue)
        /\ \A i \in 1 .. Len(processQue) : processQue[i] \in Requests
    BY <1>2, LenProperties, ElementOfSeq DEF KeptTypes, QueTypes, IsQue
  <1>4. PICK n \in 1 .. Len(processQue) :
          /\ Joins(n)
          /\ tsk' = [at |-> "submit", batch |-> SubSeq(processQue, 1, n), i |-> 1]
          /\ processQue' = SubSeq(processQue, n + 1, Len(processQue))
    BY <1>3 DEF GetBatch, BatchSize
  <1>5. PICK b, r : b = SubSeq(processQue, 1, n) /\ r = SubSeq(processQue, n + 1, Len(processQue))
    OBVIOUS
  <1>6. /\ b \in Seq(Requests) /\ Len(b) = n /\ \A k \in 1 .. n : b[k] = processQue[k]
        /\ r \in Seq(Requests) /\ Len(r) = Len(processQue) - n
        /\ \A k \in 1 .. Len(processQue) - n : r[k] = processQue[n + k]
    BY <1>3, <1>5
  <1>7. ASSUME NEW S PROVE Cnt(processQue, S) = Cnt(b, S) + Cnt(r, S)
    <2>1. IsQue(processQue) /\ n \in 0 .. Len(processQue)
      BY <1>3
    <2>2. Cnt(processQue, S) = Cnt(SubSeq(processQue, 1, n), S)
                               + Cnt(SubSeq(processQue, n + 1, Len(processQue)), S)
      BY <2>1, CntSplit
    <2> QED BY <1>5, <2>2
  <1>8. /\ tsk'.batch = b /\ processQue' = r /\ tsk'.i = 1 /\ tsk'.at = "submit"
        /\ tsk' \in [at : {"get", "submit", "encode", "gone"}, batch : Seq(Requests), i : Nat]
    BY <1>4, <1>5, <1>6
  <1>9. NoDummy(b)
    BY <1>1, <1>4, <1>6, BatchReal DEF NoDummy
  <1>10. tsk.batch = << >>
    BY <1>1 DEF SwitchInv, Life
  <1>11. KeptTypes'
    BY <1>1, <1>2, <1>6, <1>8 DEF KeptTypes, DataTypes, codecs, QueTypes, PassTypes, source, consumer, hosts
  <1>12. Sorted'
    <2>1. ASSUME NEW k \in 1 .. Len(r) PROVE DummyOK(r[k])
      <3>1. /\ n \in Nat /\ n <= Len(processQue) /\ Len(processQue) \in Nat
            /\ Len(r) = Len(processQue) - n /\ k \in Int /\ 1 <= k /\ k <= Len(r)
        BY <1>3, <1>6, <2>1
      <3>2. n + k \in 1 .. Len(processQue)
        BY <3>1
      <3>3. r[k] = processQue[n + k]
        BY <1>6, <2>1
      <3> QED BY <1>2, <2>1, <3>2, <3>3 DEF Sorted
    <2>2. 1 \in 1 .. Len(b) + 1
      BY <1>6
    <2> QED BY <1>1, <1>2, <1>8, <1>9, <2>1, <2>2 DEF Sorted, DummyOK, NoDummy, hosts
  <1>13. Counted'
    <2>1. Cnt(b, Real) = Len(b) /\ Cnt(processQue, Real) = Cnt(b, Real) + Cnt(r, Real)
      BY <1>6, <1>7, <1>9, AllReal
    <2>2. Cnt(r, Real) \in Nat /\ Len(b) \in Nat
      <3>1. IsQue(r)
        BY <1>6 DEF IsQue
      <3>2. Cnt(r, Real) \in Nat
        BY <3>1, CntProperties
      <3> QED BY <1>3, <1>6, <3>2
    <2>3. Queued' = Queued
      BY <1>1, <1>2, <1>8, <1>10, <2>1, <2>2, QueNone, QueuedNat DEF Queued
    <2>4. Written' = Written
      BY <1>1, <1>8 DEF Written
    <2> QED BY <1>1, <1>2, <2>3, <2>4 DEF Counted, consumer
  <1>14. ASSUME NEW g \in Frames PROVE Place(g)' = 1
    <2>1. Cnt(b, With(g)) \in Nat /\ Cnt(r, With(g)) \in Nat
      BY <1>6, CntProperties DEF IsQue
    <2>2. Cnt(tsk.batch, With(g)) = 0 /\ Cnt(processQue, With(g)) = Cnt(b, With(g)) + Cnt(r, With(g))
      BY <1>7, <1>10, CntNone
    <2>3. Place(g) = 1
      BY <1>2 DEF Placed
    <2>4. PICK u, v, w \in Nat : /\ u = Cnt(fullQue, {g}) /\ v = Cnt(freeList, {g})
                                 /\ w = Cnt(inQue[ChannelOf[g]], {g})
      BY <1>2, PlaceNat
    <2>5. PICK x, y, z \in Nat : /\ x = Cnt(b, With(g)) /\ y = Cnt(r, With(g))
                                 /\ z = Cnt(processDoneQue, With(g))
      BY <1>2, <2>1, PlaceNat
    <2>6. PICK e \in Nat : e = IF g \in free THEN 1 ELSE 0
      OBVIOUS
    <2>7. e + u + v + w + (x + y) + 0 + z = 1
      BY <2>2, <2>3, <2>4, <2>5, <2>6 DEF Place
    <2>8. Place(g)' = e + u + v + w + y + x + z
      BY <1>1, <1>8, <2>4, <2>5, <2>6 DEF Place, source
    <2> QED BY <2>7, <2>8
  <1> QED BY <1>11, <1>12, <1>13, <1>14 DEF KeptInv, Placed

LEMMA HandleDummyKept == ASSUME SwitchInv, KeptInv, HandleDummy PROVE KeptInv'
  <1>1. /\ tsk.at = "get" /\ processQue # << >> /\ Head(processQue).dummy
        /\ processQue' = Tail(processQue)
        /\ format' = [format EXCEPT ![Head(processQue).ch] = host.format]
        /\ progressive' = progressive \cup {Head(processQue).ch}
        /\ UNCHANGED <<config, source, inQue, disableChn, freeList, link, reqQue,
                       processDoneQue, tsk, emptyQue, bitFull, consumer, hosts, asserted, streams, ringLost>>
    BY DEF HandleDummy, ring
  <1>2. KeptTypes /\ Sorted /\ Counted /\ Placed
    BY DEF KeptInv
  <1>3. /\ processQue \in Seq(Requests) /\ IsQue(processQue) /\ Len(processQue) \in Nat
        /\ DOMAIN processQue = 1 .. Len(processQue)
        /\ \A i \in 1 .. Len(processQue) : processQue[i] \in Requests
    BY <1>2, LenProperties, ElementOfSeq DEF KeptTypes, QueTypes, IsQue
  <1>4. PICK h, r : h = Head(processQue) /\ r = Tail(processQue)
    OBVIOUS
  <1>5. /\ r \in Seq(Requests) /\ Len(r) = Len(processQue) - 1
        /\ \A k \in 1 .. Len(r) : r[k] = processQue[k + 1]
        /\ h \in Requests /\ h = processQue[1] /\ Len(processQue) >= 1
    BY <1>1, <1>3, <1>4, HeadTailProperties, EmptySeq
  <1>6. \A S : Cnt(r, S) = Cnt(processQue, S) - (IF h \in S THEN 1 ELSE 0)
    BY <1>1, <1>3, <1>4, CntTail
  <1>7. ~NoneInUse
    BY <1>1, <1>3, <1>4, <1>5 DEF NoneInUse, NoDummy
  <1>8. host.format \in Formats /\ h.ch \in Chs
    BY <1>2, <1>5, <1>7 DEF SwitchInv, Dummies, Switching, Sorted, Requests
  <1>9. KeptTypes'
    <2>1. format' \in [Chs -> Formats]
      BY <1>1, <1>2, <1>8 DEF KeptTypes, DataTypes, codecs
    <2>2. h.ch \in config.switched
      BY <1>1, <1>2, <1>3, <1>4, <1>5 DEF Sorted, DummyOK
    <2>3. progressive' \subseteq config'.switched
      BY <1>1, <1>2, <1>4, <2>2 DEF KeptTypes, DataTypes
    <2> QED BY <1>1, <1>2, <1>4, <1>5, <2>1, <2>3
          DEF KeptTypes, DataTypes, QueTypes, PassTypes, source, consumer, hosts
  <1>10. Sorted'
    <2>1. ASSUME NEW k \in 1 .. Len(r) PROVE DummyOK(r[k])
      <3>1. k + 1 \in 1 .. Len(processQue) /\ r[k] = processQue[k + 1]
        BY <1>3, <1>5
      <3> QED BY <1>2, <2>1, <3>1 DEF Sorted
    <2> QED BY <1>1, <1>2, <1>4, <2>1 DEF Sorted, DummyOK, NoDummy, hosts
  <1>11. Counted'
    <2>1. h \notin Real
      BY <1>1, <1>4 DEF Real
    <2>2. Cnt(r, Real) = Cnt(processQue, Real)
      BY <1>2, <1>6, <2>1, QueuedNat
    <2> QED BY <1>1, <1>2, <1>4, <2>2 DEF Counted, Queued, Written, consumer
  <1>12. ASSUME NEW g \in Frames PROVE Place(g)' = 1
    <2>1. Place(g) = 1
      BY <1>2 DEF Placed
    <2>2. h \notin With(g)
      <3>1. 1 \in 1 .. Len(processQue) /\ h.dummy
        BY <1>1, <1>3, <1>4, <1>5
      <3>2. h.frames = << >> /\ DOMAIN << >> = {}
        BY <1>2, <1>5, <3>1 DEF Sorted, DummyOK
      <3> QED BY <3>2 DEF With, Elems
    <2>3. Cnt(r, With(g)) = Cnt(processQue, With(g))
      <3>1. Cnt(r, With(g)) = Cnt(processQue, With(g)) - (IF h \in With(g) THEN 1 ELSE 0)
        BY <1>6
      <3>2. PICK a \in Nat : a = Cnt(processQue, With(g))
        BY <1>2, PlaceNat
      <3> QED BY <2>2, <3>1, <3>2
    <2> QED BY <1>1, <1>2, <1>4, <2>1, <2>3 DEF Place, source
  <1> QED BY <1>9, <1>10, <1>11, <1>12 DEF KeptInv, Placed

LEMMA SubmitKept == ASSUME SwitchInv, KeptInv, Submit PROVE KeptInv'
  <1>1. /\ tsk.at = "submit" /\ tsk.i <= Len(tsk.batch)
        /\ UNCHANGED <<config, codecs, source, inQue, disableChn, freeList, link, reqQue, processQue,
                       processDoneQue, emptyQue, bitFull, consumer, hosts, asserted>>
    BY DEF Submit
  <1>2. KeptTypes /\ Sorted /\ Counted /\ Placed
    BY DEF KeptInv
  <1>3. /\ tsk \in [at : {"get", "submit", "encode", "gone"}, batch : Seq(Requests), i : Nat]
        /\ Len(tsk.batch) \in Nat /\ tsk.i \in 1 .. Len(tsk.batch) + 1
    BY <1>1, <1>2, LenProperties DEF KeptTypes, QueTypes, Sorted
  <1>4. ~tsk.batch[tsk.i].dummy
    BY <1>1, <1>2, <1>3 DEF Sorted, NoDummy
  <1>5. tsk' = [tsk EXCEPT !.at = "encode"] /\ UNCHANGED <<streams, ringLost>>
    BY <1>4 DEF Submit, R!Alloc, ring
  <1>6. /\ tsk'.at = "encode" /\ tsk'.batch = tsk.batch /\ tsk'.i = tsk.i
        /\ tsk' \in [at : {"get", "submit", "encode", "gone"}, batch : Seq(Requests), i : Nat]
    BY <1>3, <1>5
  <1>7. KeptTypes'
    BY <1>1, <1>2, <1>5, <1>6 DEF KeptTypes, DataTypes, codecs, QueTypes, PassTypes, source, consumer, hosts
  <1>8. Sorted'
    BY <1>1, <1>2, <1>3, <1>6 DEF Sorted, DummyOK, NoDummy, hosts
  <1>9. Counted'
    BY <1>1, <1>2, <1>5, <1>6 DEF Counted, Queued, Written, Cnt, consumer
  <1>10. Placed'
    BY <1>1, <1>2, <1>6, PlaceStay DEF source
  <1> QED BY <1>7, <1>8, <1>9, <1>10 DEF KeptInv

LEMMA SubmitFailsKept == ASSUME SwitchInv, KeptInv, SubmitFails PROVE KeptInv'
  <1>1. /\ tsk.at = "submit" /\ ringLost' = TRUE
        /\ tsk' = [tsk EXCEPT !.i = Len(tsk.batch) + 1]
        /\ UNCHANGED <<config, codecs, source, inQue, disableChn, freeList, link, reqQue, processQue,
                       processDoneQue, emptyQue, bitFull, consumer, hosts, asserted>>
    BY DEF SubmitFails
  <1>2. KeptTypes /\ Sorted /\ Counted /\ Placed
    BY DEF KeptInv
  <1>3. /\ tsk \in [at : {"get", "submit", "encode", "gone"}, batch : Seq(Requests), i : Nat]
        /\ Len(tsk.batch) \in Nat
    BY <1>2, LenProperties DEF KeptTypes, QueTypes
  <1>4. /\ tsk'.at = "submit" /\ tsk'.batch = tsk.batch /\ tsk'.i = Len(tsk.batch) + 1
        /\ tsk' \in [at : {"get", "submit", "encode", "gone"}, batch : Seq(Requests), i : Nat]
    <2>1. Len(tsk.batch) + 1 \in Nat
      BY <1>3
    <2> QED BY <1>1, <1>3, <2>1
  <1>5. KeptTypes'
    BY <1>1, <1>2, <1>4 DEF KeptTypes, DataTypes, codecs, QueTypes, PassTypes, source, consumer, hosts
  <1>6. Sorted'
    <2>1. tsk'.i \in 1 .. Len(tsk'.batch) + 1
      BY <1>3, <1>4
    <2> QED BY <1>1, <1>2, <1>4, <2>1 DEF Sorted, DummyOK, NoDummy, hosts
  <1>7. Counted'
    BY <1>1, <1>2, <1>4 DEF Counted, Queued, Cnt, consumer
  <1>8. Placed'
    BY <1>1, <1>2, <1>4, PlaceStay DEF source
  <1> QED BY <1>5, <1>6, <1>7, <1>8 DEF KeptInv

LEMMA EncodedKept ==
  ASSUME SwitchInv, KeptInv, RingInv, NEW size \in 1 .. MaxStream, Encoded(size) PROVE KeptInv'
  <1>1. /\ tsk.at = "encode" /\ (ringLost \/ R!Result(size)) /\ UNCHANGED ringLost
        /\ tsk' = [tsk EXCEPT !.at = "submit", !.i = @ + 1]
        /\ UNCHANGED <<config, codecs, source, inQue, disableChn, freeList, link, reqQue, processQue,
                       processDoneQue, emptyQue, bitFull, consumer, hosts, asserted>>
    BY DEF Encoded, ring
  <1>2. KeptTypes /\ Sorted /\ Counted /\ Placed
    BY DEF KeptInv
  <1>3. /\ tsk \in [at : {"get", "submit", "encode", "gone"}, batch : Seq(Requests), i : Nat]
        /\ Len(tsk.batch) \in Nat /\ tsk.i \in 1 .. Len(tsk.batch)
    BY <1>1, <1>2, LenProperties DEF KeptTypes, QueTypes, Sorted
  <1>4. ASSUME ~ringLost PROVE Len(streams') = Len(streams) + 1 /\ Len(streams) \in Nat
    <2>1. PICK T : streams \in Seq(T)
      BY DEF RingInv, R!RingTypeOK
    <2>2. PICK x : streams' = Append(streams, x)
      BY <1>1, <1>4 DEF R!Result
    <2>3. streams \in Seq(T \cup {x})
      BY <2>1, SeqMonotonic
    <2> QED BY <2>2, <2>3, AppendProperties, LenProperties
  <1>5. /\ tsk'.at = "submit" /\ tsk'.batch = tsk.batch /\ tsk'.i = tsk.i + 1
        /\ tsk' \in [at : {"get", "submit", "encode", "gone"}, batch : Seq(Requests), i : Nat]
    <2>1. tsk.i + 1 \in Nat
      BY <1>3
    <2>2. PICK a : a = [tsk EXCEPT !.at = "submit"]
      OBVIOUS
    <2>3. /\ a \in [at : {"get", "submit", "encode", "gone"}, batch : Seq(Requests), i : Nat]
          /\ a.at = "submit" /\ a.batch = tsk.batch /\ a.i = tsk.i
      BY <1>3, <2>2
    <2>4. tsk' = [a EXCEPT !.i = tsk.i + 1]
      BY <1>1, <2>2
    <2> QED BY <2>1, <2>3, <2>4
  <1>6. KeptTypes'
    BY <1>1, <1>2, <1>5 DEF KeptTypes, DataTypes, codecs, QueTypes, PassTypes, source, consumer, hosts
  <1>7. Sorted'
    <2>1. tsk'.i \in 1 .. Len(tsk'.batch) + 1
      BY <1>3, <1>5
    <2> QED BY <1>1, <1>2, <1>5, <2>1 DEF Sorted, DummyOK, NoDummy, hosts
  <1>8. Counted'
    <2>1. Written' = Written + 1 /\ Written \in Nat
      BY <1>1, <1>3, <1>5 DEF Written
    <2>2. Queued' = Queued
      BY <1>1, <1>5 DEF Queued, Cnt
    <2>3. bitFull \in Nat /\ held \in Nat /\ Len(processDoneQue) \in Nat
      BY <1>2, QueuedNat DEF KeptTypes, QueTypes
    <2>4. /\ reqQue' = reqQue /\ emptyQue' = emptyQue /\ bitFull' = bitFull /\ held' = held
          /\ returned' = returned /\ processDoneQue' = processDoneQue /\ ringLost' = ringLost
      BY <1>1 DEF consumer
    <2>5. /\ reqQue + Queued = NumReq /\ emptyQue + Queued + bitFull + held + returned = NumBufs
          /\ ~ringLost => Len(streams) = Written + Len(processDoneQue) + bitFull + held
      BY <1>2 DEF Counted
    <2>6. ~ringLost => Len(streams') = Written' + Len(processDoneQue) + bitFull + held
      BY <1>4, <2>1, <2>3, <2>5
    <2> QED BY <2>2, <2>4, <2>5, <2>6 DEF Counted
  <1>9. Placed'
    BY <1>1, <1>2, <1>5, PlaceStay DEF source
  <1> QED BY <1>6, <1>7, <1>8, <1>9 DEF KeptInv

LEMMA BatchDoneKept == ASSUME SwitchInv, KeptInv, BatchDone PROVE KeptInv'
  <1>1. /\ tsk.at = "submit" /\ tsk.i > Len(tsk.batch)
        /\ processDoneQue' = processDoneQue \o tsk.batch /\ tsk' = Waiting
        /\ UNCHANGED <<config, codecs, source, inQue, disableChn, freeList, link, reqQue, processQue,
                       emptyQue, bitFull, consumer, hosts, asserted, streams, ringLost>>
    BY DEF BatchDone, ring
  <1>2. KeptTypes /\ Sorted /\ Counted /\ Placed
    BY DEF KeptInv
  <1>3. PICK b, d : b = tsk.batch /\ d = processDoneQue
    OBVIOUS
  <1>4. /\ b \in Seq(Requests) /\ d \in Seq(Requests) /\ IsQue(b) /\ IsQue(d)
        /\ Len(b) \in Nat /\ Len(d) \in Nat /\ NoDummy(b) /\ NoDummy(d)
    BY <1>2, <1>3, LenProperties DEF KeptTypes, QueTypes, IsQue, Sorted
  <1>5. /\ d \o b \in Seq(Requests) /\ Len(d \o b) = Len(d) + Len(b) /\ NoDummy(d \o b)
        /\ \A S : Cnt(d \o b, S) = Cnt(d, S) + Cnt(b, S)
    BY <1>4, ConcatProperties, QueJoin, CntConcat
  <1>6. /\ tsk'.at = "get" /\ tsk'.batch = << >> /\ tsk'.i = 0 /\ processDoneQue' = d \o b
        /\ tsk' \in [at : {"get", "submit", "encode", "gone"}, batch : Seq(Requests), i : Nat]
    BY <1>1, <1>3 DEF Waiting
  <1>7. KeptTypes'
    BY <1>1, <1>2, <1>5, <1>6 DEF KeptTypes, DataTypes, codecs, QueTypes, PassTypes, source, consumer, hosts
  <1>8. Sorted'
    BY <1>1, <1>2, <1>5, <1>6, QueNone DEF Sorted, DummyOK, NoDummy, hosts
  <1>9. Counted'
    <2>1. Written = Len(b) /\ Written' = 0
      BY <1>1, <1>2, <1>3, <1>4, <1>6 DEF Written, Sorted
    <2>2. Len(tsk'.batch) = 0 /\ Len(processDoneQue') = Len(d) + Len(b)
      BY <1>5, <1>6
    <2>3. Queued' = Queued
      BY <1>1, <1>2, <1>3, <1>4, <2>2, QueuedNat DEF Queued
    <2>4. bitFull \in Nat /\ held \in Nat
      BY <1>2 DEF KeptTypes, QueTypes
    <2> QED BY <1>1, <1>2, <1>3, <1>4, <2>1, <2>2, <2>3, <2>4 DEF Counted, consumer
  <1>10. ASSUME NEW g \in Frames PROVE Place(g)' = 1
    <2>1. /\ Cnt(tsk'.batch, With(g)) = 0
          /\ Cnt(processDoneQue', With(g)) = Cnt(processDoneQue, With(g)) + Cnt(tsk.batch, With(g))
      BY <1>3, <1>5, <1>6, CntNone
    <2>2. Place(g) = 1
      BY <1>2 DEF Placed
    <2> QED BY <1>1, <1>2, <2>1, <2>2, PlaceNat DEF Place, source
  <1> QED BY <1>7, <1>8, <1>9, <1>10 DEF KeptInv, Placed

(* The link's task.                                                          *)
LEMMA QueueFramesKept == ASSUME KeptInv, QueueFramesToChQue PROVE KeptInv'
  <1> DEFINE Going(c, skipped) == {f \in Frames : ChannelOf[f] = c /\ Kept(skipped, f)}
  <1>1. /\ newData' = FALSE /\ fullQue' = << >> /\ link' = [Main EXCEPT !.at = "submit"]
        /\ asserted' = \E c \in Chs : Len(inQue'[c]) > NumReq
        /\ UNCHANGED <<config, codecs, disableChn, freeList, reqQue, processQue,
                       processDoneQue, tsk, emptyQue, bitFull, consumer, hosts, streams, ringLost>>
    BY DEF QueueFramesToChQue, ring
  <1>2. KeptTypes /\ Sorted /\ Counted /\ Placed
    BY DEF KeptInv
  <1>3. PICK skipped :
          /\ inQue' = [c \in Chs |-> inQue[c] \o Only(fullQue, Going(c, skipped))]
          /\ free' = free \cup {f \in Elems(fullQue) : ~Kept(skipped, f)}
    BY DEF QueueFramesToChQue
  <1>4. /\ fullQue \in Seq(Frames) /\ IsQue(fullQue) /\ inQue \in [Chs -> Seq(Frames)]
        /\ \A c \in Chs : IsQue(inQue[c])
        /\ free \subseteq Frames /\ Elems(fullQue) \subseteq Frames
    <2>1. fullQue \in Seq(Frames) /\ inQue \in [Chs -> Seq(Frames)] /\ free \subseteq Frames
      BY <1>2 DEF KeptTypes, DataTypes, codecs, FrameSeqs
    <2>2. Elems(fullQue) \subseteq Frames
      BY <2>1, ElemsOf
    <2> QED BY <1>2, <2>1, <2>2, KeptQues
  <1> HIDE DEF Going
  <1>5. ASSUME NEW c \in Chs
        PROVE  /\ inQue'[c] = inQue[c] \o Only(fullQue, Going(c, skipped))
               /\ Only(fullQue, Going(c, skipped)) \in Seq(Going(c, skipped) \cap Frames)
               /\ Only(fullQue, Going(c, skipped)) \in Seq(Frames)
               /\ IsQue(Only(fullQue, Going(c, skipped)))
    <2>1. Only(fullQue, Going(c, skipped)) \in Seq(Going(c, skipped) \cap Frames)
      BY <1>4, OnlyProperties
    <2>2. Only(fullQue, Going(c, skipped)) \in Seq(Frames)
      BY <2>1, SeqMonotonic
    <2> QED BY <1>3, <2>1, <2>2 DEF IsQue
  <1>6. /\ inQue' \in [Chs -> FrameSeqs] /\ free' \subseteq Frames /\ fullQue' \in FrameSeqs
        /\ PassTypes'
    <2>1. \A c \in Chs : inQue[c] \o Only(fullQue, Going(c, skipped)) \in Seq(Frames)
      BY <1>4, <1>5, ConcatProperties
    <2>2. inQue' \in [Chs -> FrameSeqs] /\ free' \subseteq Frames /\ fullQue' \in FrameSeqs
      BY <1>1, <1>3, <1>4, <2>1 DEF FrameSeqs
    <2> QED BY <1>1, <2>2, SubmitStarts DEF PassTypes
  <1>7. Sorted'
    <2>1. ASSUME NEW c \in Chs, NEW i \in DOMAIN inQue'[c] PROVE ChannelOf[inQue'[c][i]] = c
      <3>1. PICK p, q : p = inQue[c] /\ q = Only(fullQue, Going(c, skipped))
        OBVIOUS
      <3>2. /\ p \in Seq(Frames) /\ q \in Seq(Frames) /\ Len(p) \in Nat /\ Len(q) \in Nat
            /\ DOMAIN p = 1 .. Len(p) /\ q \in Seq(Going(c, skipped) \cap Frames)
        BY <1>4, <1>5, <3>1, LenProperties
      <3>3. /\ inQue'[c] = p \o q /\ i \in 1 .. Len(p) + Len(q)
            /\ inQue'[c][i] = IF i <= Len(p) THEN p[i] ELSE q[i - Len(p)]
        <4>1. /\ p \o q \in Seq(Frames) /\ Len(p \o q) = Len(p) + Len(q)
              /\ \A k \in 1 .. Len(p) + Len(q) : (p \o q)[k] = IF k <= Len(p) THEN p[k] ELSE q[k - Len(p)]
          BY <3>2, ConcatProperties
        <4>2. inQue'[c] = p \o q
          BY <1>5, <3>1
        <4>3. DOMAIN (p \o q) = 1 .. Len(p) + Len(q)
          BY <4>1, LenProperties
        <4> QED BY <4>1, <4>2, <4>3
      <3>4. CASE i <= Len(p)
        <4>1. i \in DOMAIN inQue[c] /\ inQue'[c][i] = inQue[c][i]
          BY <3>1, <3>2, <3>3, <3>4
        <4> QED BY <1>2, <4>1 DEF Sorted
      <3>5. CASE ~(i <= Len(p))
        <4>1. i - Len(p) \in 1 .. Len(q) /\ inQue'[c][i] = q[i - Len(p)]
          BY <3>2, <3>3, <3>5
        <4>2. q[i - Len(p)] \in Going(c, skipped)
          BY <3>2, <4>1, ElementOfSeq
        <4> QED BY <4>1, <4>2 DEF Going
      <3> QED BY <3>4, <3>5
    <2> QED BY <1>1, <1>2, <2>1 DEF Sorted, DummyOK, NoDummy, hosts
  <1>8. Counted'
    BY <1>1, <1>2, CountStay DEF consumer
  <1>9. ASSUME NEW g \in Frames PROVE Place(g)' = 1
    <2>1. PICK c \in Chs : c = ChannelOf[g]
      BY EncAssumption
    <2>2. /\ Cnt(inQue'[c], {g}) = Cnt(inQue[c], {g}) + Cnt(Only(fullQue, Going(c, skipped)), {g})
          /\ Cnt(Only(fullQue, Going(c, skipped)), {g}) = Cnt(fullQue, Going(c, skipped) \cap {g})
      <3>1. IsQue(inQue[c]) /\ IsQue(Only(fullQue, Going(c, skipped)))
        BY <1>4, <1>5
      <3>2. Cnt(inQue[c] \o Only(fullQue, Going(c, skipped)), {g})
            = Cnt(inQue[c], {g}) + Cnt(Only(fullQue, Going(c, skipped)), {g})
        BY <3>1, CntConcat
      <3>3. Cnt(Only(fullQue, Going(c, skipped)), {g}) = Cnt(fullQue, Going(c, skipped) \cap {g})
        BY <1>4, OnlyCounts
      <3> QED BY <1>5, <3>2, <3>3
    <2>3. Kept(skipped, g) => Going(c, skipped) \cap {g} = {g}
      BY <2>1 DEF Going
    <2>4. ~Kept(skipped, g) => Going(c, skipped) \cap {g} = {}
      BY DEF Going
    <2>5. Cnt(fullQue, {}) = 0
      BY <1>4, CntProperties
    <2>6. Cnt(fullQue', {g}) = 0
      BY <1>1, CntNone
    <2>7. g \in Elems(fullQue) <=> Cnt(fullQue, {g}) # 0
      BY <1>4, CountedElem
    <2>8. Place(g) = 1
      BY <1>2 DEF Placed
    <2>9. PICK a, b, e \in Nat : /\ a = Cnt(inQue[c], {g}) /\ b = Cnt(fullQue, {g})
                                 /\ e = Cnt(freeList, {g})
      BY <1>2, <2>1, PlaceNat
    <2>10. PICK x, y, z \in Nat : /\ x = Cnt(processQue, With(g)) /\ y = Cnt(tsk.batch, With(g))
                                  /\ z = Cnt(processDoneQue, With(g))
      BY <1>2, PlaceNat
    <2>11. (IF g \in free THEN 1 ELSE 0) + b + e + a + x + y + z = 1
      BY <2>1, <2>8, <2>9, <2>10 DEF Place
    <2>12. Place(g)' = (IF g \in free' THEN 1 ELSE 0) + 0 + e + Cnt(inQue'[c], {g}) + x + y + z
      BY <1>1, <2>1, <2>6, <2>9, <2>10 DEF Place
    <2>13. CASE Kept(skipped, g)
      <3>1. Cnt(inQue'[c], {g}) = a + b
        BY <2>2, <2>3, <2>9, <2>13
      <3>2. g \in free' <=> g \in free
        BY <1>3, <2>13
      <3> QED BY <2>11, <2>12, <3>1, <3>2
    <2>14. CASE ~Kept(skipped, g)
      <3>1. Cnt(inQue'[c], {g}) = a
        BY <2>2, <2>4, <2>5, <2>9, <2>14
      <3>2. g \in free' <=> g \in free \/ b # 0
        BY <1>3, <2>7, <2>9, <2>14
      <3> QED BY <2>11, <2>12, <3>1, <3>2
    <2> QED BY <2>13, <2>14
  <1>10. ASSUME NEW c \in Chs PROVE ~(Len(inQue'[c]) > NumReq)
    <2>1. PICK s, F : s = inQue'[c] /\ F = {f \in Frames : ChannelOf[f] = c}
      OBVIOUS
    <2>2. s \in Seq(Frames) /\ IsQue(s) /\ Len(s) \in Nat
      BY <1>6, <2>1, LenProperties DEF FrameSeqs, IsQue
    <2>3. \A k \in DOMAIN s : s[k] \in F
      <3>1. \A k \in DOMAIN s : s[k] \in Frames
        BY <2>2, LenProperties, ElementOfSeq
      <3>2. \A k \in DOMAIN s : ChannelOf[s[k]] = c
        BY <1>7, <2>1 DEF Sorted
      <3> QED BY <2>1, <3>1, <3>2
    <2>4. ASSUME NEW g \in F PROVE Cnt(s, {g}) <= 1
      <3>1. g \in Frames /\ ChannelOf[g] = c /\ Place(g)' = 1
        BY <1>9, <2>1
      <3>2. PICK a, b \in Nat : a = Cnt(fullQue', {g}) /\ b = Cnt(freeList, {g})
        BY <1>1, <1>2, <3>1, CntNone, PlaceNat
      <3>3. PICK x, y, z \in Nat : /\ x = Cnt(processQue, With(g)) /\ y = Cnt(tsk.batch, With(g))
                                   /\ z = Cnt(processDoneQue, With(g))
        BY <1>2, <3>1, PlaceNat
      <3>4. PICK w \in Nat : w = Cnt(s, {g})
        BY <2>2, CntProperties
      <3>5. (IF g \in free' THEN 1 ELSE 0) + a + b + w + x + y + z = 1
        BY <1>1, <2>1, <3>1, <3>2, <3>3, <3>4 DEF Place
      <3> QED BY <3>4, <3>5
    <2>5. IsFiniteSet(F) /\ Cardinality(F) <= NumReq /\ Cardinality(F) \in Nat /\ NumReq \in Nat
      <3>1. F \in SUBSET Frames /\ IsFiniteSet(Frames)
        BY <2>1, EncAssumption
      <3>2. Cardinality(F) <= NumReq /\ NumReq \in Nat
        BY <2>1, EncAssumption
      <3> QED BY <3>1, <3>2, FS_Subset, FS_CardinalityType
    <2>6. Len(s) <= Cardinality(F)
      BY <2>2, <2>3, <2>4, <2>5, OnceEach
    <2> QED BY <2>1, <2>2, <2>5, <2>6
  <1>11. KeptTypes'
    <2>1. asserted' = FALSE
      BY <1>1, <1>10
    <2> QED BY <1>1, <1>2, <1>6, <2>1 DEF KeptTypes, DataTypes, codecs, QueTypes, consumer, hosts
  <1> QED BY <1>7, <1>8, <1>9, <1>11 DEF KeptInv, Placed

LEMMA PassMoves ==
  ASSUME PassTypes, config \in ConfigType, link.ch \in Chs, NEW ok \in BOOLEAN, link' = NextTry(ok)
         \/ link' = [link EXCEPT !.ch = @ + 1, !.n = 0, !.ok = FALSE]
  PROVE  PassTypes'
  <1> DEFINE T == [at : {"main", "submit", "stop", "delete", "deleted"},
                   ch : 0 .. NumCh, n : 0 .. 1, ok : BOOLEAN]
  <1>1. NumCh \in Nat /\ Chs = 0 .. NumCh - 1 /\ link \in T
    BY EncAssumption DEF Chs, PassTypes
  <1>2. link.ch + 1 \in 0 .. NumCh /\ link.ch \in 0 .. NumCh /\ link.n \in 0 .. 1 /\ link.at \in
          {"main", "submit", "stop", "delete", "deleted"}
    BY <1>1
  <1>3. link.n + 1 < PerPass(link.ch) => link.n + 1 \in 0 .. 1
    <2>1. PerPass(link.ch) \in 1 .. 2
      BY DEF PerPass, ConfigType
    <2> QED BY <1>2, <2>1
  <1>4. \/ link' = [at |-> link.at, ch |-> link.ch, n |-> link.n + 1, ok |-> ok]
           /\ link.n + 1 < PerPass(link.ch)
        \/ \E o \in BOOLEAN : link' = [at |-> link.at, ch |-> link.ch + 1, n |-> 0, ok |-> o]
    <2>1. link = [at |-> link.at, ch |-> link.ch, n |-> link.n, ok |-> link.ok]
      BY <1>1
    <2> QED BY <2>1 DEF NextTry
  <1> QED BY <1>2, <1>3, <1>4 DEF PassTypes

LEMMA SubmitFrameKept == ASSUME KeptInv, SubmitFrame PROVE KeptInv'
  <1> DEFINE c == link.ch
             n == NumFrames(c)
             frames == SubSeq(inQue[c], 1, n)
             rest == SubSeq(inQue[c], n + 1, Len(inQue[c]))
  <1>1. /\ c \in Chs
        /\ UNCHANGED <<config, codecs, source, disableChn,
                       processDoneQue, tsk, bitFull, consumer, hosts, asserted, streams, ringLost>>
    BY DEF SubmitFrame, ring
  <1>2. KeptTypes /\ Sorted /\ Counted /\ Placed /\ config \in ConfigType
    BY EncAssumption DEF KeptInv, KeptTypes, DataTypes, codecs
  <1>3. PassTypes'
    <2>1. \/ \E ok \in BOOLEAN : link' = NextTry(ok)
          \/ link' = [link EXCEPT !.ch = @ + 1, !.n = 0, !.ok = FALSE]
      BY DEF SubmitFrame
    <2> QED BY <1>1, <1>2, <2>1, PassMoves DEF KeptTypes
  <1>4. CASE UNCHANGED <<inQue, reqQue, processQue, emptyQue, freeList>>
    <2>1. KeptTypes'
      BY <1>1, <1>2, <1>3, <1>4 DEF KeptTypes, DataTypes, codecs, QueTypes, source, consumer, hosts
    <2>2. Sorted' /\ Counted' /\ Placed'
      BY <1>1, <1>2, <1>4, SortedStay, CountStay, PlaceStay DEF source, consumer, hosts
    <2> QED BY <2>1, <2>2 DEF KeptInv
  <1>5. CASE ~UNCHANGED <<inQue, reqQue, processQue, emptyQue, freeList>>
    <2>1. /\ reqQue # 0 /\ ~(Len(inQue[c]) < n) /\ inQue' = [inQue EXCEPT ![c] = rest]
          /\ \/ /\ emptyQue > 0 /\ processQue' = Append(processQue, Request(c, frames))
                /\ reqQue' = reqQue - 1 /\ emptyQue' = emptyQue - 1 /\ UNCHANGED freeList
             \/ freeList' = freeList \o frames /\ UNCHANGED <<reqQue, processQue, emptyQue>>
      BY <1>5 DEF SubmitFrame
    <2>2. PICK l, r, m, q : l = frames /\ r = rest /\ m = n /\ q = inQue[c]
      OBVIOUS
    <2>3. /\ m \in 1 .. 2 /\ inQue \in [Chs -> Seq(Frames)] /\ q \in Seq(Frames)
          /\ IsQue(q) /\ Len(q) \in Nat /\ m \in 0 .. Len(q) /\ DOMAIN q = 1 .. Len(q)
          /\ reqQue \in Nat /\ emptyQue \in Nat /\ IsQue(freeList) /\ freeList \in Seq(Frames)
          /\ processQue \in Seq(Requests) /\ IsQue(processQue)
      <3>1. m \in 1 .. 2
        BY <1>1, <1>2, <2>2 DEF NumFrames, ConfigType
      <3>2. /\ inQue \in [Chs -> Seq(Frames)] /\ q \in Seq(Frames) /\ freeList \in Seq(Frames)
            /\ reqQue \in Nat /\ emptyQue \in Nat /\ processQue \in Seq(Requests)
        BY <1>1, <1>2, <2>2 DEF KeptTypes, DataTypes, codecs, QueTypes, FrameSeqs
      <3>3. Len(q) \in Nat /\ DOMAIN q = 1 .. Len(q)
        BY <3>2, LenProperties
      <3>4. m \in 0 .. Len(q)
        BY <2>1, <2>2, <3>1, <3>3
      <3> QED BY <3>1, <3>2, <3>3, <3>4 DEF IsQue
    <2>4. /\ l \in Seq(Frames) /\ r \in Seq(Frames) /\ IsQue(l) /\ IsQue(r)
          /\ \A k \in 1 .. m : l[k] = q[k] /\ k \in 1 .. Len(q)
          /\ \A k \in 1 .. Len(q) - m : r[k] = q[m + k] /\ m + k \in 1 .. Len(q)
          /\ DOMAIN l = 1 .. m /\ DOMAIN r = 1 .. Len(q) - m
      <3>1. l = SubSeq(q, 1, m) /\ r = SubSeq(q, m + 1, Len(q))
        BY <2>2
      <3>2. \A k \in 1 .. Len(q) : q[k] \in Frames
        BY <2>3, ElementOfSeq
      <3>3. l \in Seq(Frames) /\ DOMAIN l = 1 .. m /\ \A k \in 1 .. m : l[k] = q[k]
        BY <2>3, <3>1, <3>2
      <3>4. /\ r \in Seq(Frames) /\ DOMAIN r = 1 .. Len(q) - m
            /\ \A k \in 1 .. Len(q) - m : r[k] = q[m + k]
        BY <2>3, <3>1, <3>2
      <3>5. /\ \A k \in 1 .. m : k \in 1 .. Len(q)
            /\ \A k \in 1 .. Len(q) - m : m + k \in 1 .. Len(q)
        BY <2>3
      <3> QED BY <3>3, <3>4, <3>5 DEF IsQue
    <2>5. \A S : Cnt(q, S) = Cnt(l, S) + Cnt(r, S)
      <3>1. l = SubSeq(q, 1, m) /\ r = SubSeq(q, m + 1, Len(q))
        BY <2>2
      <3>2. ASSUME NEW S
            PROVE  Cnt(q, S) = Cnt(SubSeq(q, 1, m), S) + Cnt(SubSeq(q, m + 1, Len(q)), S)
        BY <2>3, CntSplit
      <3> QED BY <3>1, <3>2
    <2> HIDE DEF c, n, frames, rest
    <2>6. inQue' \in [Chs -> Seq(Frames)] /\ inQue'[c] = r /\ \A d \in Chs \ {c} : inQue'[d] = inQue[d]
      BY <1>1, <2>1, <2>2, <2>3, <2>4
    <2>7. \A k \in 1 .. Len(q) : ChannelOf[q[k]] = c
      BY <1>1, <1>2, <2>2, <2>3 DEF Sorted
    <2>8. \A c2 \in Chs : \A i \in DOMAIN inQue'[c2] : ChannelOf[inQue'[c2][i]] = c2
      <3> SUFFICES ASSUME NEW d \in Chs, NEW i \in DOMAIN inQue'[d] PROVE ChannelOf[inQue'[d][i]] = d
        OBVIOUS
      <3>1. CASE d = c
        <4>1. i \in 1 .. Len(q) - m /\ inQue'[d][i] = q[m + i] /\ m + i \in 1 .. Len(q)
          BY <2>4, <2>6, <3>1
        <4> QED BY <2>7, <3>1, <4>1
      <3>2. CASE d # c
        BY <1>2, <2>6, <3>2 DEF Sorted
      <3> QED BY <3>1, <3>2
    <2>9. \A f \in Elems(l) : f \in Frames /\ ChannelOf[f] = c
      BY <2>3, <2>4, <2>7, ElemsOf, LenProperties DEF Elems
    <2>10. CASE freeList' = freeList \o frames /\ UNCHANGED <<reqQue, processQue, emptyQue>>
      <3>1. KeptTypes'
        <4>1. freeList' \in Seq(Frames)
          BY <2>2, <2>3, <2>4, <2>10, ConcatProperties
        <4> QED BY <1>1, <1>2, <1>3, <2>6, <2>10, <4>1
              DEF KeptTypes, DataTypes, codecs, QueTypes, FrameSeqs, source, consumer, hosts
      <3>2. Sorted'
        BY <1>1, <1>2, <2>8, <2>10 DEF Sorted, DummyOK, NoDummy, hosts
      <3>3. Counted'
        BY <1>1, <1>2, <2>10, CountStay DEF consumer
      <3>4. ASSUME NEW g \in Frames PROVE Place(g)' = 1
        <4>1. Cnt(freeList', {g}) = Cnt(freeList, {g}) + Cnt(l, {g}) /\ Cnt(l, {g}) \in Nat
          <5>1. freeList' = freeList \o l
            BY <2>2, <2>10
          <5>2. Cnt(freeList \o l, {g}) = Cnt(freeList, {g}) + Cnt(l, {g})
            BY <2>3, <2>4, CntConcat
          <5>3. Cnt(l, {g}) \in Nat
            BY <2>4, CntProperties
          <5> QED BY <5>1, <5>2, <5>3
        <4>2. Cnt(inQue'[ChannelOf[g]], {g}) = Cnt(inQue[ChannelOf[g]], {g}) - Cnt(l, {g})
          <5>1. CASE ChannelOf[g] = c
            <6>1. PICK a, b \in Nat : a = Cnt(l, {g}) /\ b = Cnt(r, {g})
              BY <2>4, CntProperties
            <6> QED BY <2>2, <2>5, <2>6, <5>1, <6>1
          <5>2. CASE ChannelOf[g] # c
            <6>1. Cnt(l, {g}) = 0
              BY <2>4, <2>9, <5>2, CountedElem
            <6>2. inQue'[ChannelOf[g]] = inQue[ChannelOf[g]]
              BY <1>2, <2>6, <5>2, PlaceNat
            <6> QED BY <1>2, <6>1, <6>2, PlaceNat
          <5> QED BY <5>1, <5>2
        <4>3. Place(g) = 1
          BY <1>2 DEF Placed
        <4> QED BY <1>1, <1>2, <2>10, <4>1, <4>2, <4>3, PlaceNat DEF Place, source
      <3> QED BY <3>1, <3>2, <3>3, <3>4 DEF KeptInv, Placed
    <2>11. CASE /\ emptyQue > 0 /\ processQue' = Append(processQue, Request(c, frames))
                /\ reqQue' = reqQue - 1 /\ emptyQue' = emptyQue - 1 /\ UNCHANGED freeList
      <3>1. PICK x : x = Request(c, l)
        OBVIOUS
      <3>2. /\ processQue' = Append(processQue, x) /\ x \in Requests /\ ~x.dummy /\ x.frames = l
            /\ reqQue' = reqQue - 1 /\ emptyQue' = emptyQue - 1 /\ UNCHANGED freeList
            /\ reqQue - 1 \in Nat /\ emptyQue - 1 \in Nat
        BY <1>1, <2>1, <2>2, <2>3, <2>4, <2>11, <3>1 DEF Request, Requests, FrameSeqs
      <3>3. /\ processQue' \in Seq(Requests) /\ Len(processQue') = Len(processQue) + 1
            /\ \A i \in 1 .. Len(processQue) : processQue'[i] = processQue[i]
            /\ processQue'[Len(processQue) + 1] = x /\ Len(processQue) \in Nat
        BY <2>3, <3>2, AppendProperties, LenProperties
      <3>4. KeptTypes'
        BY <1>1, <1>2, <1>3, <2>6, <3>2, <3>3
           DEF KeptTypes, DataTypes, codecs, QueTypes, FrameSeqs, source, consumer, hosts
      <3>5. Sorted'
        <4>1. \A k \in 1 .. Len(processQue') : DummyOK(processQue'[k])
          BY <1>2, <3>2, <3>3 DEF Sorted, DummyOK
        <4> QED BY <1>1, <1>2, <2>8, <4>1 DEF Sorted, DummyOK, NoDummy, hosts
      <3>6. Counted'
        <4>1. Cnt(processQue', Real) = Cnt(processQue, Real) + 1
          BY <2>3, <3>2, CntAppend DEF Real
        <4>2. Queued' = Queued + 1 /\ Queued \in Nat
          <5>1. PICK a, b, d \in Nat : /\ a = Cnt(processQue, Real) /\ b = Len(tsk.batch)
                                       /\ d = Len(processDoneQue)
            BY <1>2, QueuedNat
          <5>2. Queued = a + b + d /\ Queued' = a + 1 + b + d
            BY <1>1, <4>1, <5>1 DEF Queued
          <5>3. a + 1 + b + d = (a + b + d) + 1 /\ a + b + d \in Nat
            OBVIOUS
          <5> QED BY <5>2, <5>3
        <4>3. Written' = Written
          BY <1>1 DEF Written
        <4>4. bitFull \in Nat /\ held \in Nat /\ returned \in Nat
          BY <1>2 DEF KeptTypes, QueTypes
        <4> QED BY <1>1, <1>2, <2>3, <3>2, <4>2, <4>3, <4>4 DEF Counted, consumer
      <3>7. ASSUME NEW g \in Frames PROVE Place(g)' = 1
        <4>1. Cnt(processQue', With(g)) = Cnt(processQue, With(g)) + (IF g \in Elems(l) THEN 1 ELSE 0)
          BY <2>3, <3>2, CntAppend DEF With
        <4>2. PICK a, b \in Nat : a = Cnt(l, {g}) /\ b = Cnt(r, {g})
          BY <2>4, CntProperties
        <4>3. g \in Elems(l) <=> a # 0
          BY <2>4, <4>2, CountedElem
        <4>4. Place(g) = 1
          BY <1>2 DEF Placed
        <4>5. CASE ChannelOf[g] = c
          <5>1. Cnt(inQue[ChannelOf[g]], {g}) = a + b /\ Cnt(inQue'[ChannelOf[g]], {g}) = b
            BY <2>2, <2>5, <2>6, <4>2, <4>5
          <5>2. PICK u, v \in Nat : u = Cnt(fullQue, {g}) /\ v = Cnt(freeList, {g})
            BY <1>2, PlaceNat
          <5>3. PICK y, z, w \in Nat : /\ y = Cnt(processQue, With(g)) /\ z = Cnt(tsk.batch, With(g))
                                       /\ w = Cnt(processDoneQue, With(g))
            BY <1>2, PlaceNat
          <5>4. (IF g \in free THEN 1 ELSE 0) + u + v + (a + b) + y + z + w = 1
            BY <4>4, <5>1, <5>2, <5>3 DEF Place
          <5>5. Cnt(processQue', With(g)) = y + a
            BY <4>1, <4>3, <5>3, <5>4
          <5>6. Place(g)' = (IF g \in free THEN 1 ELSE 0) + u + v + b + (y + a) + z + w
            BY <1>1, <3>2, <5>1, <5>2, <5>3, <5>5 DEF Place, source
          <5> QED BY <5>4, <5>6
        <4>6. CASE ChannelOf[g] # c
          <5>1. g \notin Elems(l)
            BY <2>9, <4>6
          <5>2. inQue'[ChannelOf[g]] = inQue[ChannelOf[g]]
            BY <1>2, <2>6, <4>6, PlaceNat
          <5> QED BY <1>1, <1>2, <3>2, <4>1, <4>4, <5>1, <5>2, PlaceNat DEF Place, source
        <4> QED BY <4>5, <4>6
      <3> QED BY <3>4, <3>5, <3>6, <3>7 DEF KeptInv, Placed
    <2> QED BY <2>1, <2>10, <2>11
  <1> QED BY <1>4, <1>5

LEMMA NextChannelKept == ASSUME KeptInv, NextChannel PROVE KeptInv'
  <1>1. /\ link.ch \in Chs /\ link' = [link EXCEPT !.ch = @ + 1, !.n = 0]
        /\ UNCHANGED <<config, codecs, source, inQue, disableChn, freeList, reqQue, processQue,
                       processDoneQue, tsk, emptyQue, bitFull, consumer, hosts, asserted, streams, ringLost>>
    BY DEF NextChannel, ring
  <1>2. KeptTypes /\ Sorted /\ Counted /\ Placed
    BY DEF KeptInv
  <1>3. PassTypes'
    <2>1. /\ NumCh \in Nat /\ link.ch + 1 \in 0 .. NumCh /\ 0 \in 0 .. 1
          /\ link \in [at : {"main", "submit", "stop", "delete", "deleted"},
                       ch : 0 .. NumCh, n : 0 .. 1, ok : BOOLEAN]
      BY <1>1, <1>2, EncAssumption DEF KeptTypes, PassTypes, Chs
    <2> QED BY <1>1, <2>1 DEF PassTypes
  <1>4. KeptTypes'
    BY <1>1, <1>2, <1>3 DEF KeptTypes, DataTypes, codecs, QueTypes, source, consumer, hosts
  <1>5. Sorted' /\ Counted' /\ Placed'
    BY <1>1, <1>2, SortedStay, CountStay, PlaceStay DEF source, consumer, hosts
  <1> QED BY <1>4, <1>5 DEF KeptInv

LEMMA EndPassKept == ASSUME KeptInv, EndPass PROVE KeptInv'
  <1>1. /\ free' = free \cup Elems(freeList) /\ freeList' = << >>
        /\ link' = Main \/ link' = [Main EXCEPT !.at = "submit"]
        /\ UNCHANGED <<config, codecs, fullQue, newData, inQue, disableChn, reqQue, processQue,
                       processDoneQue, tsk, emptyQue, bitFull, consumer, hosts, asserted, streams, ringLost>>
    BY DEF EndPass, ring
  <1>2. KeptTypes /\ Sorted /\ Counted /\ Placed
    BY DEF KeptInv
  <1>3. Elems(freeList) \subseteq Frames /\ IsQue(freeList)
    BY <1>2, ElemsOf, KeptQues DEF KeptTypes, DataTypes, codecs, FrameSeqs
  <1>4. KeptTypes'
    <2>1. PassTypes'
      BY <1>1, SubmitStarts DEF PassTypes
    <2>2. freeList' \in FrameSeqs
      BY <1>1 DEF FrameSeqs
    <2> QED BY <1>1, <1>2, <1>3, <2>1, <2>2 DEF KeptTypes, DataTypes, codecs, QueTypes, consumer, hosts
  <1>5. Sorted' /\ Counted'
    BY <1>1, <1>2, SortedStay, CountStay DEF consumer, hosts
  <1>6. ASSUME NEW g \in Frames PROVE Place(g)' = 1
    <2>1. Cnt(freeList', {g}) = 0 /\ (g \in Elems(freeList) <=> Cnt(freeList, {g}) # 0)
      BY <1>1, <1>3, CntNone, CountedElem
    <2>2. g \in free' <=> g \in free \/ Cnt(freeList, {g}) # 0
      BY <1>1, <2>1
    <2>3. Place(g) = 1
      BY <1>2 DEF Placed
    <2>4. PICK u, v, w \in Nat : /\ u = Cnt(fullQue, {g}) /\ v = Cnt(freeList, {g})
                                 /\ w = Cnt(inQue[ChannelOf[g]], {g})
      BY <1>2, PlaceNat
    <2>5. PICK x, y, z \in Nat : /\ x = Cnt(processQue, With(g)) /\ y = Cnt(tsk.batch, With(g))
                                 /\ z = Cnt(processDoneQue, With(g))
      BY <1>2, PlaceNat
    <2>6. (IF g \in free THEN 1 ELSE 0) + u + v + w + x + y + z = 1
      BY <2>3, <2>4, <2>5 DEF Place
    <2>7. Place(g)' = (IF g \in free' THEN 1 ELSE 0) + u + 0 + w + x + y + z
      BY <1>1, <2>1, <2>4, <2>5 DEF Place
    <2> QED BY <2>2, <2>4, <2>6, <2>7
  <1> QED BY <1>4, <1>5, <1>6 DEF KeptInv, Placed

(* What the clock collects; nothing is asserted since the requests that come *)
(* back are among those that are missing.                                    *)
LEMMA CollectKept ==
  ASSUME KeptInv, Collect, newData' \in BOOLEAN,
         UNCHANGED <<config, codecs, fullQue, inQue, disableChn, freeList, link, processQue,
                     tsk, emptyQue, held, returned, hosts, streams, ringLost>>
  PROVE  KeptInv'
  <1>1. /\ reqQue' = reqQue + Len(processDoneQue) /\ asserted' = (reqQue' > NumReq)
        /\ processDoneQue' = << >> /\ free' = free \cup FramesOf(processDoneQue)
        /\ bitFull' = bitFull + Len(processDoneQue)
        /\ notified' \in {notified, TRUE}
    BY DEF Collect, Sent
  <1>2. KeptTypes /\ Sorted /\ Counted /\ Placed
    BY DEF KeptInv
  <1>3. /\ reqQue \in Nat /\ emptyQue \in Nat /\ bitFull \in Nat /\ held \in Nat /\ returned \in Nat
        /\ processDoneQue \in Seq(Requests)
    BY <1>2 DEF KeptTypes, QueTypes
  <1>4. PICK a, b, d \in Nat : /\ a = Cnt(processQue, Real) /\ b = Len(tsk.batch)
                               /\ d = Len(processDoneQue)
    BY <1>2, QueuedNat
  <1>5. /\ a = Cnt(processQue', Real) /\ b = Len(tsk'.batch) /\ 0 = Len(processDoneQue')
        /\ NumReq \in Nat /\ NumBufs \in Nat
    BY <1>1, <1>2, <1>4, QueNone, QueuedNat
  <1>6. /\ reqQue + (a + b + d) = NumReq
        /\ emptyQue + (a + b + d) + bitFull + held + returned = NumBufs
        /\ ~ringLost => Len(streams) = Written + d + bitFull + held
    BY <1>2, <1>4 DEF Counted, Queued
  <1>7. Counted'
    <2>1. Queued' = a + b + 0 /\ Written' = Written
      BY <1>5 DEF Queued, Written
    <2>2. /\ reqQue' = reqQue + d /\ bitFull' = bitFull + d
          /\ UNCHANGED <<emptyQue, held, returned, streams, ringLost>>
      BY <1>1, <1>4
    <2>3. reqQue' + Queued' = NumReq
      BY <1>3, <1>6, <2>1, <2>2
    <2>4. emptyQue' + Queued' + bitFull' + held' + returned' = NumBufs
      BY <1>3, <1>6, <2>1, <2>2
    <2>5. Written \in Int
      BY <1>2 DEF Written, KeptTypes, QueTypes
    <2>6. ~ringLost' => Len(streams') = Written' + Len(processDoneQue') + bitFull' + held'
      BY <1>3, <1>5, <1>6, <2>1, <2>2, <2>5
    <2> QED BY <2>3, <2>4, <2>6 DEF Counted
  <1>8. asserted' = FALSE
    <2>1. \A r \in Nat : r + (a + b + d) = NumReq => (r + d > NumReq) = FALSE
      BY <1>5
    <2>2. (reqQue + d > NumReq) = FALSE
      BY <1>3, <1>6, <2>1
    <2>3. reqQue' = reqQue + d
      BY <1>1, <1>4
    <2> QED BY <1>1, <2>2, <2>3
  <1>9. FramesOf(processDoneQue) \subseteq Frames
    <2>1. \A r \in Elems(processDoneQue) : Elems(r.frames) \subseteq Frames
      <3> SUFFICES ASSUME NEW r \in Elems(processDoneQue) PROVE Elems(r.frames) \subseteq Frames
        OBVIOUS
      <3>1. r \in Requests
        BY <1>3, ElemsOf
      <3>2. r.frames \in Seq(Frames)
        BY <3>1 DEF Requests, FrameSeqs
      <3> QED BY <3>2, ElemsOf
    <2> QED BY <2>1 DEF FramesOf
  <1>10. KeptTypes'
    <2>1. reqQue' \in Nat /\ bitFull' \in Nat
      BY <1>1, <1>3, <1>4
    <2>2. DataTypes'
      BY <1>1, <1>2, <1>8, <1>9 DEF KeptTypes, DataTypes, codecs, hosts
    <2>3. QueTypes'
      BY <1>1, <1>2, <2>1 DEF KeptTypes, QueTypes
    <2> QED BY <1>2, <2>2, <2>3 DEF KeptTypes, PassTypes
  <1>11. Sorted'
    BY <1>1, <1>2, QueNone DEF Sorted, DummyOK, NoDummy, hosts
  <1>12. ASSUME NEW g \in Frames PROVE Place(g)' = 1
    <2>1. /\ Cnt(processDoneQue', With(g)) = 0
          /\ g \in FramesOf(processDoneQue) <=> Cnt(processDoneQue, With(g)) # 0
      BY <1>1, <1>3, CntNone, CountedFrame
    <2>2. g \in free' <=> g \in free \/ Cnt(processDoneQue, With(g)) # 0
      BY <1>1, <2>1
    <2>3. Place(g) = 1
      BY <1>2 DEF Placed
    <2> QED BY <1>2, <2>1, <2>2, <2>3, PlaceNat DEF Place
  <1> QED BY <1>7, <1>10, <1>11, <1>12 DEF KeptInv, Placed

(* The next link.                                                            *)
LEMMA ConsumerKept == ASSUME KeptInv, RingInv, Consumer PROVE KeptInv'
  <1>1. UNCHANGED <<config, codecs, source, inQue, disableChn, freeList, link, reqQue, processQue,
                    processDoneQue, tsk, hosts, asserted, ringLost>>
    BY DEF Consumer, GetFullBufs, PutRing, PutEmptyBufs, ring
  <1>2. KeptTypes /\ Sorted /\ Counted /\ Placed
    BY DEF KeptInv
  <1>3. Sorted' /\ Placed'
    BY <1>1, <1>2, SortedStay, PlaceStay DEF hosts, source
  <1>4. PICK q, w, d : /\ q = Queued /\ w = Written /\ d = Len(processDoneQue)
                       /\ q = Queued' /\ w = Written' /\ d = Len(processDoneQue')
    BY <1>1 DEF Queued, Written, Cnt
  <1>5. /\ q \in Nat /\ w \in Int /\ d \in Nat
        /\ reqQue \in Nat /\ emptyQue \in Nat /\ bitFull \in Nat /\ held \in Nat /\ returned \in Nat
    <2>1. q \in Nat /\ d \in Nat
      BY <1>2, <1>4, QueuedNat DEF Queued
    <2>2. w \in Int
      BY <1>2, <1>4 DEF Written, KeptTypes, QueTypes
    <2> QED BY <1>2, <2>1, <2>2 DEF KeptTypes, QueTypes
  <1>6. /\ reqQue + q = NumReq /\ emptyQue + q + bitFull + held + returned = NumBufs
        /\ ~ringLost => Len(streams) = w + d + bitFull + held
    BY <1>2, <1>4 DEF Counted
  <1>7. CASE GetFullBufs
    <2>1. /\ notified' = FALSE /\ held' = held + bitFull /\ bitFull' = 0
          /\ UNCHANGED <<emptyQue, returned, streams, ringLost>>
      BY <1>7 DEF GetFullBufs, ring
    <2>2. KeptTypes'
      <3>1. emptyQue' \in Nat /\ bitFull' \in Nat /\ held' \in Nat /\ returned' \in Nat
        BY <1>5, <2>1
      <3>2. notified' \in BOOLEAN
        BY <1>2, <2>1 DEF KeptTypes, DataTypes, codecs
      <3> QED BY <1>1, <1>2, <3>1, <3>2 DEF KeptTypes, DataTypes, codecs, QueTypes, PassTypes, source, hosts
    <2>3. Counted'
      <3>1. reqQue' + q = NumReq
        BY <1>1, <1>6
      <3>2. emptyQue' + q + bitFull' + held' + returned' = NumBufs
        BY <1>5, <1>6, <2>1
      <3>3. ~ringLost' => Len(streams') = w + d + bitFull' + held'
        BY <1>5, <1>6, <2>1
      <3> QED BY <1>4, <3>1, <3>2, <3>3 DEF Counted
    <2> QED BY <1>3, <2>2, <2>3 DEF KeptInv
  <1>8. CASE PutRing
    <2>1. /\ held > 0 /\ held' = held - 1 /\ returned' = returned + 1
          /\ ringLost \/ (streams # << >> /\ streams' = Tail(streams))
          /\ UNCHANGED <<emptyQue, bitFull, notified, ringLost>>
      BY <1>8 DEF PutRing, R!GiveBack, ring
    <2>2. ASSUME ~ringLost PROVE Len(streams') = Len(streams) - 1 /\ Len(streams) \in Nat
      <3>1. PICK T : streams \in Seq(T)
        BY DEF RingInv, R!RingTypeOK
      <3> QED BY <2>1, <2>2, <3>1, HeadTailProperties, LenProperties
    <2>3. KeptTypes'
      <3>1. emptyQue' \in Nat /\ bitFull' \in Nat /\ held' \in Nat /\ returned' \in Nat
        BY <1>5, <2>1
      <3>2. notified' \in BOOLEAN
        BY <1>2, <2>1 DEF KeptTypes, DataTypes, codecs
      <3> QED BY <1>1, <1>2, <3>1, <3>2 DEF KeptTypes, DataTypes, codecs, QueTypes, PassTypes, source, hosts
    <2>4. Counted'
      <3>1. reqQue' + q = NumReq
        BY <1>1, <1>6
      <3>2. emptyQue' + q + bitFull' + held' + returned' = NumBufs
        BY <1>5, <1>6, <2>1
      <3>3. ~ringLost' => Len(streams') = w + d + bitFull' + held'
        BY <1>5, <1>6, <2>1, <2>2
      <3> QED BY <1>4, <3>1, <3>2, <3>3 DEF Counted
    <2> QED BY <1>3, <2>3, <2>4 DEF KeptInv
  <1>9. CASE PutEmptyBufs
    <2>1. /\ emptyQue' = emptyQue + returned /\ returned' = 0
          /\ UNCHANGED <<bitFull, notified, held, streams, ringLost>>
      BY <1>9 DEF PutEmptyBufs, PutAll, ring
    <2>2. KeptTypes'
      <3>1. emptyQue' \in Nat /\ bitFull' \in Nat /\ held' \in Nat /\ returned' \in Nat
        BY <1>5, <2>1
      <3>2. notified' \in BOOLEAN
        BY <1>2, <2>1 DEF KeptTypes, DataTypes, codecs
      <3> QED BY <1>1, <1>2, <3>1, <3>2 DEF KeptTypes, DataTypes, codecs, QueTypes, PassTypes, source, hosts
    <2>3. Counted'
      <3>1. reqQue' + q = NumReq
        BY <1>1, <1>6
      <3>2. emptyQue' + q + bitFull' + held' + returned' = NumBufs
        BY <1>5, <1>6, <2>1
      <3>3. ~ringLost' => Len(streams') = w + d + bitFull' + held'
        BY <1>5, <1>6, <2>1
      <3> QED BY <1>4, <3>1, <3>2, <3>3 DEF Counted
    <2> QED BY <1>3, <2>2, <2>3 DEF KeptInv
  <1> QED BY <1>7, <1>8, <1>9 DEF Consumer

(* The host's commands.                                                      *)
LEMMA HostKept ==
  ASSUME KeptInv, disableChn' \in [Chs -> BOOLEAN], PassTypes', switches' \in 0 .. MaxSwitches,
         host'.op \in {"disable", "switch", "enable"} =>
            host'.ch \in config.switched /\ host'.format \in Formats,
         UNCHANGED <<config, codecs, source, inQue, freeList, reqQue, processQue, processDoneQue,
                     tsk, emptyQue, bitFull, consumer, asserted, streams, ringLost>>
  PROVE  KeptInv'
  <1>1. KeptTypes /\ Sorted /\ Counted /\ Placed
    BY DEF KeptInv
  <1>2. KeptTypes'
    BY <1>1 DEF KeptTypes, DataTypes, codecs, QueTypes, source, consumer
  <1>3. Sorted'
    BY <1>1 DEF Sorted, DummyOK, NoDummy
  <1>4. Counted' /\ Placed'
    BY <1>1, CountStay, PlaceStay DEF source, consumer
  <1> QED BY <1>2, <1>3, <1>4 DEF KeptInv

LEMMA SwitchCodecKept == ASSUME SwitchInv, KeptInv, SwitchCodec PROVE KeptInv'
  <1>1. /\ processQue' = Append(processQue, Dummy(host.ch))
        /\ host' = [host EXCEPT !.taken = TRUE] /\ host.op = "switch"
        /\ UNCHANGED <<config, codecs, source, inQue, disableChn, freeList, link, reqQue, processDoneQue,
                       tsk, emptyQue, bitFull, consumer, switches, asserted, streams, ringLost>>
    BY DEF SwitchCodec, KeepMessage, ring
  <1>2. KeptTypes /\ Sorted /\ Counted /\ Placed
    BY DEF KeptInv
  <1>3. PICK x : x = Dummy(host.ch)
    OBVIOUS
  <1>4. /\ x \in Requests /\ x.dummy /\ x.frames = << >> /\ x.ch = host.ch
        /\ host.ch \in config.switched /\ host.format \in Formats
    <2>1. host.ch \in config.switched /\ host.format \in Formats /\ host.ch \in Chs
      BY <1>1, <1>2 DEF Sorted, SwitchInv, Types
    <2>2. << >> \in FrameSeqs
      BY DEF FrameSeqs
    <2> QED BY <1>3, <2>1, <2>2 DEF Dummy, Requests
  <1>5. host'.op = host.op /\ host'.ch = host.ch /\ host'.format = host.format
    BY <1>1 DEF SwitchInv, Types
  <1>6. /\ processQue \in Seq(Requests) /\ IsQue(processQue) /\ Len(processQue) \in Nat
        /\ processQue' = Append(processQue, x)
        /\ processQue' \in Seq(Requests) /\ Len(processQue') = Len(processQue) + 1
        /\ \A i \in 1 .. Len(processQue) : processQue'[i] = processQue[i]
        /\ processQue'[Len(processQue) + 1] = x
    <2>1. processQue \in Seq(Requests) /\ processQue' = Append(processQue, x)
      BY <1>1, <1>2, <1>3 DEF KeptTypes, QueTypes
    <2> QED BY <1>4, <2>1, AppendProperties, LenProperties DEF IsQue
  <1>7. KeptTypes'
    BY <1>1, <1>2, <1>6 DEF KeptTypes, DataTypes, codecs, QueTypes, PassTypes, source, consumer
  <1>8. Sorted'
    <2>1. \A k \in 1 .. Len(processQue') : DummyOK(processQue'[k])
      BY <1>2, <1>4, <1>6 DEF Sorted, DummyOK
    <2> QED BY <1>1, <1>2, <1>4, <1>5, <2>1 DEF Sorted, DummyOK, NoDummy
  <1>9. Counted'
    <2>1. Cnt(processQue', Real) = Cnt(processQue, Real)
      <3>1. Cnt(Append(processQue, x), Real) = Cnt(processQue, Real) + (IF x \in Real THEN 1 ELSE 0)
        BY <1>6, CntAppend
      <3>2. PICK a \in Nat : a = Cnt(processQue, Real)
        BY <1>2, QueuedNat
      <3>3. x \notin Real
        BY <1>4 DEF Real
      <3> QED BY <1>6, <3>1, <3>2, <3>3
    <2> QED BY <1>1, <1>2, <2>1 DEF Counted, Queued, Written, consumer
  <1>10. ASSUME NEW g \in Frames PROVE Place(g)' = 1
    <2>1. x \notin With(g)
      <3>1. DOMAIN << >> = {}
        OBVIOUS
      <3> QED BY <1>4, <3>1 DEF With, Elems
    <2>2. Cnt(processQue', With(g)) = Cnt(processQue, With(g))
      <3>1. Cnt(Append(processQue, x), With(g))
            = Cnt(processQue, With(g)) + (IF x \in With(g) THEN 1 ELSE 0)
        BY <1>6, CntAppend
      <3>2. PICK a \in Nat : a = Cnt(processQue, With(g))
        BY <1>2, PlaceNat
      <3> QED BY <1>6, <2>1, <3>1, <3>2
    <2>3. Place(g) = 1
      BY <1>2 DEF Placed
    <2> QED BY <1>1, <2>2, <2>3 DEF Place, source
  <1> QED BY <1>7, <1>8, <1>9, <1>10 DEF KeptInv, Placed

LEMMA CommandKept == ASSUME SwitchInv, KeptInv, Command PROVE KeptInv'
  <1>1. /\ KeptTypes /\ Sorted /\ PassTypes /\ disableChn \in [Chs -> BOOLEAN]
        /\ switches \in 0 .. MaxSwitches
        /\ host \in [op : Ops, ch : Chs, format : Formats \cup {"none"}, taken : BOOLEAN]
    BY DEF KeptInv, KeptTypes, DataTypes, codecs, SwitchInv, Types
  <1>2. CASE DisableChannel
    <2>1. /\ disableChn' \in [Chs -> BOOLEAN] /\ host.op = "disable"
          /\ host'.ch = host.ch /\ host'.format = host.format
      BY <1>1, <1>2 DEF DisableChannel
    <2>2. host'.ch \in config.switched /\ host'.format \in Formats
      BY <1>1, <2>1 DEF Sorted
    <2> QED BY <1>1, <1>2, <2>1, <2>2, HostKept DEF DisableChannel, PassTypes, ring
  <1>3. CASE LateAck
    <2>1. host'.ch = host.ch /\ host'.format = host.format /\ host.op = "switch"
      <3>1. Switching
        BY <1>3 DEF LateAck, SwitchInv, Dummies
      <3> QED BY <1>1, <1>3, <3>1 DEF LateAck, Switching
    <2>2. host'.ch \in config.switched /\ host'.format \in Formats
      BY <1>1, <2>1 DEF Sorted
    <2> QED BY <1>1, <1>3, <2>2, HostKept DEF LateAck, PassTypes, ring
  <1>4. CASE EnableChannel
    <2>1. disableChn' \in [Chs -> BOOLEAN] /\ host'.op = "none"
      BY <1>1, <1>4 DEF EnableChannel, Idle
    <2> QED BY <1>1, <1>4, <2>1, HostKept DEF EnableChannel, PassTypes, ring
  <1>5. CASE EnterStop
    <2>1. PassTypes' /\ UNCHANGED <<host, switches>>
      BY <1>1, <1>5 DEF EnterStop, PassTypes, hosts
    <2> QED BY <1>1, <1>5, <2>1, HostKept DEF EnterStop, Sorted, ring
  <1> QED BY <1>2, <1>3, <1>4, <1>5, SwitchCodecKept DEF Command

LEMMA StartKept == ASSUME SwitchInv, KeptInv, StartSwitch \/ StartStop PROVE KeptInv'
  <1>1. /\ disableChn \in [Chs -> BOOLEAN] /\ PassTypes /\ switches \in 0 .. MaxSwitches
        /\ MaxSwitches \in Nat
        /\ host \in [op : Ops, ch : Chs, format : Formats \cup {"none"}, taken : BOOLEAN]
    BY EncAssumption DEF KeptInv, KeptTypes, DataTypes, codecs, SwitchInv, Types
  <1>2. CASE StartSwitch
    <2>1. PICK c \in config.switched, new \in Formats :
             host' = [op |-> "disable", ch |-> c, format |-> new, taken |-> FALSE]
      BY <1>2 DEF StartSwitch, SwitchCommand, Idle
    <2>2. switches' \in 0 .. MaxSwitches
      BY <1>1, <1>2 DEF StartSwitch
    <2> QED BY <1>1, <1>2, <2>1, <2>2, HostKept DEF StartSwitch, PassTypes, ring
  <1>3. CASE StartStop
    <2>1. host'.op = "stop"
      BY <1>3 DEF StartStop, Idle
    <2> QED BY <1>1, <1>3, <2>1, HostKept DEF StartStop, PassTypes, ring
  <1> QED BY <1>2, <1>3

LEMMA EndStopKept == ASSUME SwitchInv, KeptInv, EndStop PROVE KeptInv'
  <1>1. /\ free' = free \cup Elems(fullQue) /\ fullQue' = << >>
        /\ UNCHANGED <<config, codecs, newData, inQue, disableChn, freeList, reqQue, processQue,
                       processDoneQue, tsk, emptyQue, bitFull, consumer, switches, asserted, streams, ringLost>>
    BY DEF EndStop, ring
  <1>2. KeptTypes /\ Sorted /\ Counted /\ Placed
    BY DEF KeptInv
  <1>3. Elems(fullQue) \subseteq Frames /\ IsQue(fullQue)
    BY <1>2, ElemsOf, KeptQues DEF KeptTypes, DataTypes, codecs, FrameSeqs
  <1>4. PassTypes'
    <2>1. \/ link' = Main
          \/ link' = [link EXCEPT !.at = "delete"]
      BY DEF EndStop
    <2>2. link \in [at : {"main", "submit", "stop", "delete", "deleted"},
                   ch : 0 .. NumCh, n : 0 .. 1, ok : BOOLEAN]
      BY <1>2 DEF KeptTypes, PassTypes
    <2>3. CASE link' = Main
      BY <2>3, SubmitStarts DEF PassTypes
    <2>4. CASE link' = [link EXCEPT !.at = "delete"]
      BY <2>2, <2>4 DEF PassTypes
    <2> QED BY <2>1, <2>3, <2>4
  <1>5. KeptTypes'
    <2>1. fullQue' \in FrameSeqs
      BY <1>1 DEF FrameSeqs
    <2> QED BY <1>1, <1>2, <1>3, <1>4, <2>1 DEF KeptTypes, DataTypes, codecs, QueTypes, consumer
  <1>6. host'.op \notin {"disable", "switch", "enable"}
    <2>1. /\ host.op \in {"stop", "delete"}
          /\ host \in [op : Ops, ch : Chs, format : Formats \cup {"none"}, taken : BOOLEAN]
      BY DEF SwitchInv, Life, Types, EndStop, LinkRuns
    <2>2. host' = host \/ host' = [host EXCEPT !.op = "delete"]
      BY DEF EndStop
    <2> QED BY <2>1, <2>2
  <1>7. Sorted'
    BY <1>1, <1>2, <1>6 DEF Sorted, DummyOK, NoDummy
  <1>8. Counted'
    BY <1>1, <1>2, CountStay DEF consumer
  <1>9. ASSUME NEW g \in Frames PROVE Place(g)' = 1
    <2>1. Cnt(fullQue', {g}) = 0 /\ (g \in Elems(fullQue) <=> Cnt(fullQue, {g}) # 0)
      BY <1>1, <1>3, CntNone, CountedElem
    <2>2. g \in free' <=> g \in free \/ Cnt(fullQue, {g}) # 0
      BY <1>1, <2>1
    <2>3. Place(g) = 1
      BY <1>2 DEF Placed
    <2>4. PICK u, v, w \in Nat : /\ u = Cnt(fullQue, {g}) /\ v = Cnt(freeList, {g})
                                 /\ w = Cnt(inQue[ChannelOf[g]], {g})
      BY <1>2, PlaceNat
    <2>5. PICK x, y, z \in Nat : /\ x = Cnt(processQue, With(g)) /\ y = Cnt(tsk.batch, With(g))
                                 /\ z = Cnt(processDoneQue, With(g))
      BY <1>2, PlaceNat
    <2>6. (IF g \in free THEN 1 ELSE 0) + u + v + w + x + y + z = 1
      BY <2>3, <2>4, <2>5 DEF Place
    <2>7. Place(g)' = (IF g \in free' THEN 1 ELSE 0) + 0 + v + w + x + y + z
      BY <1>1, <2>1, <2>4, <2>5 DEF Place
    <2>8. (IF g \in free' THEN 1 ELSE 0) = (IF g \in free THEN 1 ELSE 0) + u
      <3>1. CASE g \in free
        <4>1. 1 + u + v + w + x + y + z = 1
          BY <2>6, <3>1
        <4>2. PICK n \in Nat : n = v + w + x + y + z
          BY <2>4, <2>5
        <4>3. u \in Nat /\ 1 + u + n = 1
          <5>1. 1 + u + v + w + x + y + z = 1 + u + (v + w + x + y + z)
            BY <2>4, <2>5, Z3
          <5> QED BY <2>4, <4>1, <4>2, <5>1
        <4>4. \A a, b \in Nat : 1 + a + b = 1 => a = 0
          OBVIOUS
        <4>5. u = 0
          BY <4>3, <4>4
        <4> QED BY <2>2, <3>1, <4>5
      <3>2. CASE g \notin free
        <4>1. u = 0 \/ u = 1
          BY <2>4, <2>5, <2>6, <3>2
        <4> QED BY <2>2, <2>4, <3>2, <4>1
      <3> QED BY <3>1, <3>2
    <2> QED BY <2>4, <2>5, <2>6, <2>7, <2>8
  <1> QED BY <1>5, <1>7, <1>8, <1>9 DEF KeptInv, Placed

LEMMA DeleteKept == ASSUME KeptInv, Delete PROVE KeptInv'
  <1>1. /\ tsk.at = "get" /\ tsk' = [tsk EXCEPT !.at = "gone"]
        /\ link' = [link EXCEPT !.at = "deleted"] /\ host' = Idle
        /\ UNCHANGED <<config, codecs, source, inQue, disableChn, freeList, reqQue, processQue,
                       processDoneQue, emptyQue, bitFull, consumer, switches, asserted, streams, ringLost>>
    BY DEF Delete, ring
  <1>2. KeptTypes /\ Sorted /\ Counted /\ Placed
    BY DEF KeptInv
  <1>3. /\ tsk' \in [at : {"get", "submit", "encode", "gone"}, batch : Seq(Requests), i : Nat]
        /\ tsk'.at = "gone" /\ tsk'.batch = tsk.batch /\ tsk'.i = tsk.i
    BY <1>1, <1>2 DEF KeptTypes, QueTypes
  <1>4. KeptTypes'
    BY <1>1, <1>2, <1>3 DEF KeptTypes, DataTypes, codecs, QueTypes, PassTypes, source, consumer
  <1>5. Sorted'
    BY <1>1, <1>2, <1>3 DEF Sorted, DummyOK, NoDummy, Idle
  <1>6. Counted'
    BY <1>1, <1>2, <1>3 DEF Counted, Queued, Written, Cnt, consumer
  <1>7. Placed'
    BY <1>1, <1>2, <1>3, PlaceStay DEF source
  <1> QED BY <1>4, <1>5, <1>6, <1>7 DEF KeptInv

LEMMA NextKept ==
  ASSUME SwitchedApart, SwitchInv, RingInv, KeptInv, [Next]_vars
  PROVE  KeptInv'
  <1>1. CASE UNCHANGED vars
    <2>1. /\ UNCHANGED <<config, codecs, source, inQue, disableChn, freeList, link, reqQue, processQue,
                         processDoneQue, tsk, emptyQue, bitFull, consumer, host, switches, asserted,
                         streams, ringLost>>
      BY <1>1 DEF vars, ring, hosts
    <2> QED BY <2>1, HostKept DEF KeptInv, KeptTypes, DataTypes, codecs, PassTypes, Sorted
  <1>2. CASE \E f \in Frames : Produce(f)
    BY <1>2, ProduceKept
  <1>3. CASE ProcessTsk
    BY <1>3, GetBatchKept, HandleDummyKept, SubmitKept, SubmitFailsKept, BatchDoneKept, EncodedKept
       DEF ProcessTsk
  <1>4. CASE GetProcessedData \/ WaitRequests
    <2>1. /\ Collect /\ newData' \in BOOLEAN
          /\ UNCHANGED <<config, codecs, fullQue, inQue, disableChn, freeList, link, processQue,
                         tsk, emptyQue, held, returned, hosts, streams, ringLost>>
      BY <1>4 DEF GetProcessedData, WaitRequests, KeptInv, KeptTypes, DataTypes, codecs, ring
    <2> QED BY <2>1, CollectKept
  <1> QED BY <1>1, <1>2, <1>3, <1>4, QueueFramesKept, SubmitFrameKept, NextChannelKept,
             EndPassKept, ConsumerKept, CommandKept, EndStopKept, DeleteKept, StartKept
          DEF Next, Link

THEOREM KeptInvariant == SwitchedApart => (Spec => []KeptInv)
  <1> SUFFICES ASSUME SwitchedApart PROVE Spec => []KeptInv
    OBVIOUS
  <1>1. SwitchInv /\ RingInv /\ KeptInv /\ [Next]_vars => KeptInv'
    BY NextKept
  <1> QED BY <1>1, InitKeptInv, SwitchInvariant, RingInvariant, PTL DEF Spec

(* No assertion of the link fails, for any number of channels, frames,       *)
(* requests and buffers, if the switched channels are apart.                 *)
THEOREM NoAssertionAlways == SwitchedApart => (Spec => []NoAssertion)
  <1> SUFFICES ASSUME SwitchedApart PROVE Spec => []NoAssertion
    OBVIOUS
  <1>1. KeptInv => NoAssertion
    BY DEF KeptInv, KeptTypes, DataTypes, codecs, NoAssertion
  <1>2. Spec => []KeptInv
    BY KeptInvariant
  <1> QED BY <1>1, <1>2, PTL

LEMMA InUseCounts ==
  ASSUME KeptTypes, NEW S
  PROVE  /\ IsQue(InUse)
         /\ Cnt(InUse, S) = Cnt(processQue, S) + Cnt(tsk.batch, S) + Cnt(processDoneQue, S)
  <1>1. PICK p, b, d : /\ p = processQue /\ b = tsk.batch /\ d = processDoneQue
                       /\ IsQue(p) /\ IsQue(b) /\ IsQue(d)
    BY KeptQues
  <1>2. InUse = (p \o b) \o d
    BY <1>1 DEF InUse
  <1>3. IsQue(p \o b) /\ Cnt(p \o b, S) = Cnt(p, S) + Cnt(b, S)
    BY <1>1, QueJoin, CntConcat
  <1>4. IsQue((p \o b) \o d) /\ Cnt((p \o b) \o d, S) = Cnt(p \o b, S) + Cnt(d, S)
    BY <1>1, <1>3, QueJoin, CntConcat
  <1> QED BY <1>1, <1>2, <1>3, <1>4

LEMMA EncodesReal == ASSUME NEW s \in Seq(Requests) PROVE Encodes(s) = Cnt(s, Real)
  <1>1. \A i \in DOMAIN s : s[i] \in Requests
    BY LenProperties, ElementOfSeq
  <1>2. {i \in DOMAIN s : ~s[i].dummy} = {i \in DOMAIN s : s[i] \in Real}
    BY <1>1 DEF Real
  <1> QED BY <1>2 DEF Encodes, Cnt

(* Every frame is in one place, and every bitstream buffer, request and      *)
(* part of the ring is accounted for, if the switched channels are apart.    *)
THEOREM BufsKeptAlways == SwitchedApart => (Spec => []BufsKept)
  <1> SUFFICES ASSUME SwitchedApart PROVE Spec => []BufsKept
    OBVIOUS
  <1>1. KeptInv /\ SwitchInv /\ RingInv => BufsKept
    <2> SUFFICES ASSUME KeptInv, SwitchInv, RingInv PROVE BufsKept
      OBVIOUS
    <2>1. KeptTypes /\ Sorted /\ Counted /\ Placed
      BY DEF KeptInv
    <2>2. /\ processQue \in Seq(Requests) /\ processDoneQue \in Seq(Requests)
          /\ tsk \in [at : {"get", "submit", "encode", "gone"}, batch : Seq(Requests), i : Nat]
          /\ reqQue \in Nat /\ emptyQue \in Nat /\ bitFull \in Nat /\ held \in Nat /\ returned \in Nat
      BY <2>1 DEF KeptTypes, QueTypes
    <2>3. PICK b : b = tsk.batch /\ b \in Seq(Requests) /\ IsQue(b) /\ NoDummy(b) /\ Len(b) \in Nat
      BY <2>1, <2>2, LenProperties DEF Sorted, IsQue
    <2>4. InUse \in Seq(Requests)
      BY <2>2, <2>3, ConcatProperties DEF InUse
    <2>5. Encodes(InUse) = Queued
      <3>1. /\ Encodes(InUse) = Cnt(processQue, Real) + Cnt(tsk.batch, Real) + Cnt(processDoneQue, Real)
            /\ Cnt(tsk.batch, Real) = Len(tsk.batch)
            /\ Cnt(processDoneQue, Real) = Len(processDoneQue)
        BY <2>1, <2>2, <2>3, <2>4, InUseCounts, EncodesReal, AllReal DEF Sorted
      <3> QED BY <3>1 DEF Queued
    <2>6. Encodes(processDoneQue) = Len(processDoneQue)
      BY <2>1, <2>2, EncodesReal, AllReal DEF Sorted
    <2>7. Encodes(SubSeq(tsk.batch, 1, tsk.i - 1)) = Written
      <3>1. CASE tsk.at \in {"get", "gone"}
        <4>1. tsk.i - 1 = -1 /\ Written = 0
          BY <2>1, <3>1 DEF Sorted, Written
        <4>2. SubSeq(b, 1, -1) = << >>
          BY SubSeqEmpty
        <4>3. Encodes(<< >>) = 0
          <5>1. << >> \in Seq(Requests)
            OBVIOUS
          <5> QED BY <5>1, EncodesReal, CntNone
        <4> QED BY <2>3, <4>1, <4>2, <4>3
      <3>2. CASE tsk.at \in {"submit", "encode"}
        <4>1. PICK m : m = tsk.i - 1 /\ m \in 0 .. Len(b) /\ Written = m
          BY <2>1, <2>2, <2>3, <3>2 DEF Sorted, Written
        <4>2. PICK a : a = SubSeq(b, 1, m)
          OBVIOUS
        <4>3. /\ a \in Seq(Requests) /\ Len(a) = m
              /\ \A k \in 1 .. m : a[k] = b[k] /\ k \in 1 .. Len(b)
          <5>1. \A k \in 1 .. Len(b) : b[k] \in Requests
            BY <2>3, ElementOfSeq
          <5> QED BY <2>3, <4>1, <4>2, <5>1
        <4>4. NoDummy(a)
          BY <2>3, <4>3 DEF NoDummy
        <4>5. Encodes(a) = m
          BY <4>3, <4>4, EncodesReal, AllReal
        <4> QED BY <2>3, <4>1, <4>2, <4>5
      <3> QED BY <2>2, <3>1, <3>2
    <2>8. FrameOnce
      <3> SUFFICES ASSUME NEW f \in Frames
            PROVE 1 = (IF f \in free THEN 1 ELSE 0) + Times(f, fullQue) + Times(f, freeList)
                      + Times(f, inQue[ChannelOf[f]])
                      + Cardinality({i \in DOMAIN InUse : f \in Elems(InUse[i].frames)})
        BY DEF FrameOnce
      <3>1. \A s : Times(f, s) = Cnt(s, {f})
        BY DEF Times, Cnt
      <3>2. Cardinality({i \in DOMAIN InUse : f \in Elems(InUse[i].frames)}) = Cnt(InUse, With(f))
        <4>1. \A i \in DOMAIN InUse : InUse[i] \in Requests
          BY <2>4, LenProperties, ElementOfSeq
        <4>2. {i \in DOMAIN InUse : f \in Elems(InUse[i].frames)}
              = {i \in DOMAIN InUse : InUse[i] \in With(f)}
          BY <4>1 DEF With
        <4> QED BY <4>2 DEF Cnt
      <3>3. Cnt(InUse, With(f)) = Cnt(processQue, With(f)) + Cnt(tsk.batch, With(f))
                                  + Cnt(processDoneQue, With(f))
        BY <2>1, InUseCounts
      <3>4. PICK u, v, w \in Nat : /\ u = Cnt(fullQue, {f}) /\ v = Cnt(freeList, {f})
                                   /\ w = Cnt(inQue[ChannelOf[f]], {f})
        BY <2>1, PlaceNat
      <3>5. PICK x, y, z \in Nat : /\ x = Cnt(processQue, With(f)) /\ y = Cnt(tsk.batch, With(f))
                                   /\ z = Cnt(processDoneQue, With(f))
        BY <2>1, PlaceNat
      <3>6. (IF f \in free THEN 1 ELSE 0) + u + v + w + x + y + z = 1
        BY <2>1, <3>4, <3>5 DEF Placed, Place
      <3>7. 1 = (IF f \in free THEN 1 ELSE 0) + u + v + w + (x + y + z)
        BY <3>6
      <3> QED BY <3>1, <3>2, <3>3, <3>4, <3>5, <3>7
    <2>9. TypeOK
      <3>1. /\ Queued \in Nat /\ NumReq \in Nat /\ NumBufs \in Nat
            /\ reqQue + Queued = NumReq /\ emptyQue + Queued + bitFull + held + returned = NumBufs
        BY <2>1, QueuedNat DEF Counted, Queued
      <3>2. /\ reqQue \in 0 .. NumReq + 1 /\ emptyQue \in 0 .. NumBufs /\ bitFull \in 0 .. NumBufs + 1
            /\ held \in 0 .. NumBufs + 1 /\ returned \in 0 .. NumBufs + 1
        BY <2>2, <3>1
      <3>3. R!RingTypeOK
        BY DEF RingInv, R!RingTypeOK, R!totalSize, R!Regions
      <3>4. progressive \subseteq Chs
        BY <2>1, EncAssumption DEF KeptTypes, DataTypes, ConfigType
      <3> QED BY <2>1, <2>2, <3>2, <3>3, <3>4
              DEF TypeOK, KeptTypes, DataTypes, PassTypes, SwitchInv, Types
    <2> QED BY <2>1, <2>5, <2>6, <2>7, <2>8, <2>9 DEF BufsKept, Counted
  <1>2. Spec => []KeptInv
    BY KeptInvariant
  <1> QED BY <1>1, <1>2, SwitchInvariant, RingInvariant, PTL
=============================================================================
