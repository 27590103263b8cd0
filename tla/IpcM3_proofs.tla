---------------------------- MODULE IpcM3_proofs ----------------------------
(* Proofs about IpcM3 for any frames, elements and create arguments.         *)
EXTENDS IpcM3, SequenceTheorems, FiniteSetTheorems, TLAPS

(***************************************************************************)
(* Sequences used as queues.                                               *)
(***************************************************************************)
(* What a queue holds, and that it holds nothing twice.                     *)
Entries(q) == {q[k] : k \in 1 .. Len(q)}
NoDup(q) == \A j, k \in 1 .. Len(q) : q[j] = q[k] => j = k

LEMMA EmptyQueue ==
  ASSUME NEW S
  PROVE  << >> \in Seq(S) /\ Len(<< >>) = 0 /\ Entries(<< >>) = {} /\ NoDup(<< >>)
  BY DEF Entries, NoDup

LEMMA SomeElem ==
  ASSUME NEW S, NEW q \in Seq(S)
  PROVE  /\ q = << >> <=> Entries(q) = {}
         /\ Entries(q) \subseteq S
         /\ q # << >> => Head(q) \in Entries(q) /\ Head(q) = q[1] /\ Len(q) >= 1
  BY EmptySeq DEF Entries

(* A put adds its element at the end.                                       *)
LEMMA PutElem ==
  ASSUME NEW S, NEW q \in Seq(S), NEW x \in S
  PROVE  /\ Append(q, x) \in Seq(S) /\ Len(Append(q, x)) = Len(q) + 1
         /\ Append(q, x) # << >>
         /\ Entries(Append(q, x)) = Entries(q) \cup {x}
         /\ NoDup(q) /\ x \notin Entries(q) => NoDup(Append(q, x))
  <1>1. /\ Append(q, x) \in Seq(S) /\ Len(Append(q, x)) = Len(q) + 1
        /\ \A k \in 1 .. Len(q) : Append(q, x)[k] = q[k]
        /\ Append(q, x)[Len(q) + 1] = x
        /\ Len(q) \in Nat
    BY AppendProperties, LenProperties
  <1>2. 1 .. Len(q) + 1 = (1 .. Len(q)) \cup {Len(q) + 1}
    BY <1>1
  <1>3. Entries(Append(q, x)) = Entries(q) \cup {x}
    BY <1>1, <1>2 DEF Entries
  <1>4. NoDup(q) /\ x \notin Entries(q) => NoDup(Append(q, x))
    BY <1>1, <1>2 DEF Entries, NoDup
  <1>5. Append(q, x) # << >>
    BY <1>1, EmptySeq
  <1> QED BY <1>1, <1>3, <1>4, <1>5

(* A get takes the first element away.                                      *)
LEMMA GetElem ==
  ASSUME NEW S, NEW q \in Seq(S), q # << >>
  PROVE  /\ Tail(q) \in Seq(S) /\ Len(Tail(q)) = Len(q) - 1
         /\ Head(q) \in S
         /\ Entries(q) = Entries(Tail(q)) \cup {Head(q)}
         /\ NoDup(q) => NoDup(Tail(q)) /\ Head(q) \notin Entries(Tail(q))
  <1>1. /\ Tail(q) \in Seq(S) /\ Len(Tail(q)) = Len(q) - 1
        /\ \A k \in 1 .. Len(q) - 1 : Tail(q)[k] = q[k + 1]
        /\ Head(q) = q[1] /\ Len(q) \in Nat /\ Len(q) >= 1
        /\ Head(q) \in S
    BY HeadTailProperties, LenProperties, EmptySeq
  <1>2. /\ \A k \in 1 .. Len(q) - 1 : k + 1 \in 1 .. Len(q)
        /\ \A k \in 1 .. Len(q) : k = 1 \/ (k - 1 \in 1 .. Len(q) - 1 /\ (k - 1) + 1 = k)
        /\ 1 \in 1 .. Len(q)
    BY <1>1
  <1>3. Entries(q) = Entries(Tail(q)) \cup {Head(q)}
    <2>1. ASSUME NEW k \in 1 .. Len(q) PROVE q[k] \in Entries(Tail(q)) \cup {Head(q)}
      <3>1. CASE k = 1
        BY <1>1, <3>1
      <3>2. CASE k # 1
        <4>1. k - 1 \in 1 .. Len(q) - 1 /\ (k - 1) + 1 = k
          BY <1>2, <3>2
        <4>2. Tail(q)[k - 1] = q[k] /\ k - 1 \in 1 .. Len(Tail(q))
          BY <1>1, <4>1
        <4> QED BY <4>2 DEF Entries
      <3> QED BY <3>1, <3>2
    <2>2. ASSUME NEW k \in 1 .. Len(q) - 1 PROVE Tail(q)[k] \in Entries(q)
      <3>1. Tail(q)[k] = q[k + 1] /\ k + 1 \in 1 .. Len(q)
        BY <1>1, <1>2
      <3> QED BY <3>1 DEF Entries
    <2> QED BY <1>1, <1>2, <2>1, <2>2 DEF Entries
  <1>4. NoDup(q) => NoDup(Tail(q)) /\ Head(q) \notin Entries(Tail(q))
    <2> SUFFICES ASSUME NoDup(q) PROVE NoDup(Tail(q)) /\ Head(q) \notin Entries(Tail(q))
      OBVIOUS
    <2>1. ASSUME NEW j \in 1 .. Len(q) - 1, NEW k \in 1 .. Len(q) - 1, Tail(q)[j] = Tail(q)[k]
          PROVE  j = k
      BY <1>1, <1>2, <2>1 DEF NoDup
    <2>2. ASSUME NEW k \in 1 .. Len(q) - 1 PROVE Tail(q)[k] # Head(q)
      BY <1>1, <1>2 DEF NoDup
    <2> QED BY <1>1, <2>1, <2>2 DEF NoDup, Entries
  <1> QED BY <1>1, <1>3, <1>4

(***************************************************************************)
(* Places: a record of sets.                                                *)
(***************************************************************************)

(* What leaves one place enters another.                                    *)
LEMMA Shift ==
  ASSUME NEW A, NEW B, DOMAIN B = DOMAIN A,
         NEW i \in DOMAIN A, NEW j \in DOMAIN A, i # j,
         Apart(A),
         \A k \in DOMAIN A : k = i \/ k = j \/ B[k] = A[k],
         B[i] \subseteq A[i], B[j] = A[j] \cup (A[i] \ B[i])
  PROVE  Apart(B) /\ Everywhere(B) = Everywhere(A)
  <1>1. Apart(B)
    BY DEF Apart
  <1>2. ASSUME NEW x PROVE x \in Everywhere(B) <=> x \in Everywhere(A)
    <2>1. x \in Everywhere(B) <=> \E k \in DOMAIN A : x \in B[k]
      BY DEF Everywhere, Range
    <2>2. x \in Everywhere(A) <=> \E k \in DOMAIN A : x \in A[k]
      BY DEF Everywhere, Range
    <2> QED BY <2>1, <2>2
  <1> QED BY <1>1, <1>2

(* What leaves a place may be gone.                                         *)
LEMMA Shrink ==
  ASSUME NEW A, NEW B, DOMAIN B = DOMAIN A, Apart(A), \A k \in DOMAIN A : B[k] \subseteq A[k]
  PROVE  Apart(B) /\ Everywhere(B) \subseteq Everywhere(A)
  <1>1. Apart(B)
    BY DEF Apart
  <1>2. ASSUME NEW x \in Everywhere(B) PROVE x \in Everywhere(A)
    <2>1. PICK k \in DOMAIN B : x \in B[k]
      BY DEF Everywhere, Range
    <2> QED BY <2>1 DEF Everywhere, Range
  <1> QED BY <1>1, <1>2

LEMMA QueueSet ==
  ASSUME NEW S, NEW q \in Seq(S)
  PROVE  ToSet(q) = Entries(q) /\ (IsInjective(q) <=> NoDup(q))
  BY LenProperties DEF ToSet, Entries, IsInjective, NoDup

LEMMA Empty ==
  ASSUME NEW S
  PROVE  << >> \in Seq(S) /\ ToSet(<< >>) = {} /\ IsInjective(<< >>)
  BY EmptyQueue, QueueSet

LEMMA Put ==
  ASSUME NEW S, NEW q \in Seq(S), NEW x \in S
  PROVE  /\ Append(q, x) \in Seq(S)
         /\ ToSet(Append(q, x)) = ToSet(q) \cup {x}
         /\ IsInjective(q) /\ x \notin ToSet(q) => IsInjective(Append(q, x))
  <1>1. /\ Append(q, x) \in Seq(S)
        /\ Entries(Append(q, x)) = Entries(q) \cup {x}
        /\ NoDup(q) /\ x \notin Entries(q) => NoDup(Append(q, x))
    BY PutElem
  <1>2. ToSet(Append(q, x)) = Entries(Append(q, x)) /\ (IsInjective(Append(q, x)) <=> NoDup(Append(q, x)))
    BY <1>1, QueueSet
  <1>3. ToSet(q) = Entries(q) /\ (IsInjective(q) <=> NoDup(q))
    BY QueueSet
  <1> QED BY <1>1, <1>2, <1>3

LEMMA Get ==
  ASSUME NEW S, NEW q \in Seq(S), q # << >>
  PROVE  /\ Tail(q) \in Seq(S) /\ Head(q) \in S
         /\ Head(q) \in ToSet(q) /\ ToSet(q) = ToSet(Tail(q)) \cup {Head(q)}
         /\ IsInjective(q) => IsInjective(Tail(q)) /\ Head(q) \notin ToSet(Tail(q))
  <1>1. /\ Tail(q) \in Seq(S) /\ Head(q) \in S
        /\ Entries(q) = Entries(Tail(q)) \cup {Head(q)}
        /\ NoDup(q) => NoDup(Tail(q)) /\ Head(q) \notin Entries(Tail(q))
    BY GetElem
  <1>2. ToSet(Tail(q)) = Entries(Tail(q)) /\ (IsInjective(Tail(q)) <=> NoDup(Tail(q)))
    BY <1>1, QueueSet
  <1>3. ToSet(q) = Entries(q) /\ (IsInjective(q) <=> NoDup(q))
    BY QueueSet
  <1> QED BY <1>1, <1>2, <1>3

LEMMA Members == ASSUME NEW S, NEW q \in Seq(S) PROVE ToSet(q) \subseteq S
  BY SomeElem, QueueSet

(***************************************************************************)
(* The inductive invariant: what the properties say, and what a stage in    *)
(* the life of the links says about the tasks and the interrupts.           *)
(***************************************************************************)
LifeOK ==
    /\ out # "idle" => OutUp
    /\ out = "process" => InUp \/ stage = "noIn"
    /\ out # "process" => todo = << >>
    /\ out = "idle" => freeList = {}
    /\ in # "idle" => InUp
    /\ ~ConsumerUp => ~told /\ ~owes
    /\ stage = "noOut" => ~createArgs.inFirst
    /\ stage = "noIn" => createArgs.inFirst
    /\ stage = "outOnly" => inQue = << >>
    /\ ~InUp => outFrameQue = << >>
    /\ eventOut => OutUp
    /\ eventIn => InUp \/ createArgs.inFirst

(* An element in a list has a frame.                                        *)
Filled == \A e \in ToSet(listOut) \cup ToSet(listIn) : frameOf[e] \in Frames

IInv == ElemOnce /\ FrameOnce /\ Filled /\ NotifiedAlive /\ LifeOK

LEMMA ElemSets ==
  /\ DOMAIN ElemsIn = {"elemQue", "listOut", "listIn", "orgElem"}
  /\ ElemsIn["elemQue"] = elemQue
  /\ ElemsIn["listOut"] = ToSet(listOut)
  /\ ElemsIn["listIn"] = ToSet(listIn)
  /\ ElemsIn["orgElem"] = {orgElem[f] : f \in WithIn}
  BY DEF ElemsIn

LEMMA FrameSets ==
  /\ DOMAIN FramesIn = {"free", "inQue", "todo", "freeList", "listOut", "listIn", "outFrameQue", "held"}
  /\ FramesIn["free"] = free
  /\ FramesIn["inQue"] = ToSet(inQue)
  /\ FramesIn["todo"] = ToSet(todo)
  /\ FramesIn["freeList"] = freeList
  /\ FramesIn["listOut"] = FramesOf(listOut)
  /\ FramesIn["listIn"] = FramesOf(listIn)
  /\ FramesIn["outFrameQue"] = ToSet(outFrameQue)
  /\ FramesIn["held"] = held
  BY DEF FramesIn

LEMMA ElemSetsNext ==
  /\ DOMAIN ElemsIn' = {"elemQue", "listOut", "listIn", "orgElem"}
  /\ ElemsIn'["elemQue"] = elemQue'
  /\ ElemsIn'["listOut"] = ToSet(listOut')
  /\ ElemsIn'["listIn"] = ToSet(listIn')
  /\ ElemsIn'["orgElem"] = {orgElem'[f] : f \in WithIn'}
  BY DEF ElemsIn

LEMMA FrameSetsNext ==
  /\ DOMAIN FramesIn' = {"free", "inQue", "todo", "freeList", "listOut", "listIn", "outFrameQue", "held"}
  /\ FramesIn'["free"] = free'
  /\ FramesIn'["inQue"] = ToSet(inQue')
  /\ FramesIn'["todo"] = ToSet(todo')
  /\ FramesIn'["freeList"] = freeList'
  /\ FramesIn'["listOut"] = {frameOf'[e] : e \in ToSet(listOut')}
  /\ FramesIn'["listIn"] = {frameOf'[e] : e \in ToSet(listIn')}
  /\ FramesIn'["outFrameQue"] = ToSet(outFrameQue')
  /\ FramesIn'["held"] = held'
  BY DEF FramesIn, FramesOf

(***************************************************************************)
(* What elements and frames depend on.                                      *)
(***************************************************************************)
ElemVars == <<createArgs, elemQue, listOut, listIn, held, outFrameQue, orgElem, frameOf>>
FrameVars == <<free, inQue, todo, freeList, listOut, listIn, frameOf, outFrameQue, held>>

ElemsOK ==
    /\ OwnElem
    /\ IsInjective(listOut) /\ IsInjective(listIn)
    /\ Apart(ElemsIn) /\ Everywhere(ElemsIn) \subseteq createArgs.elems
    /\ Kept => Everywhere(ElemsIn) = createArgs.elems

LEMMA Parts == IInv <=> TypeOK /\ ElemsOK /\ FrameOnce /\ Filled /\ NotifiedAlive /\ LifeOK
  BY DEF IInv, ElemOnce, ElemsOK

LEMMA ElemsStay == ASSUME ElemsOK, UNCHANGED ElemVars, Kept' => Kept PROVE ElemsOK'
  BY DEF ElemsOK, ElemVars, OwnElem, ElemsIn, WithIn

LEMMA FramesStay ==
  ASSUME FrameOnce, Filled, UNCHANGED FrameVars, Kept' => Kept
  PROVE  FrameOnce' /\ Filled'
  BY DEF FrameOnce, Filled, FrameVars, FramesIn, FramesOf

LEMMA InitIInv == Init => IInv
  <1> SUFFICES ASSUME Init PROVE IInv
    OBVIOUS
  <1> USE DEF Init
  <1>1. TypeOK
    <2>1. createArgs \in ArgsType
      BY IpcAssumption
    <2>2. createArgs.elems \subseteq Elems /\ 0 \in 0 .. createArgs.maxDrops
      BY <2>1 DEF ArgsType
    <2> QED BY <2>2, Empty DEF TypeOK, InitialClock
  <1>2. LifeOK /\ NotifiedAlive
    BY DEF LifeOK, NotifiedAlive, OutUp, InUp, ConsumerUp
  <1>3. /\ ToSet(listOut) = {} /\ ToSet(listIn) = {} /\ ToSet(inQue) = {} /\ ToSet(todo) = {}
        /\ ToSet(outFrameQue) = {} /\ WithIn = {}
        /\ IsInjective(listOut) /\ IsInjective(listIn)
        /\ IsInjective(inQue) /\ IsInjective(todo) /\ IsInjective(outFrameQue)
    BY Empty DEF WithIn
  <1>4. Filled /\ OwnElem
    BY <1>3 DEF Filled, OwnElem
  <1>5. Apart(ElemsIn) /\ Everywhere(ElemsIn) = createArgs.elems
    <2>1. \A k \in DOMAIN ElemsIn : k # "elemQue" => ElemsIn[k] = {}
      BY <1>3, ElemSets
    <2> QED BY <2>1, ElemSets DEF Apart, Everywhere, Range
  <1>6. Apart(FramesIn) /\ Everywhere(FramesIn) = Frames
    <2>1. FramesOf(listOut) = {} /\ FramesOf(listIn) = {}
      BY <1>3 DEF FramesOf
    <2>2. \A k \in DOMAIN FramesIn : k # "free" => FramesIn[k] = {}
      BY <1>3, <2>1, FrameSets
    <2> QED BY <2>2, FrameSets DEF Apart, Everywhere, Range
  <1>7. FrameOnce
    BY <1>3, <1>6 DEF FrameOnce
  <1>8. ElemsOK
    BY <1>3, <1>4, <1>5 DEF ElemsOK
  <1> QED BY <1>1, <1>2, <1>4, <1>7, <1>8, Parts

(* The type invariant in three parts.                                       *)
Flags ==
    /\ numFrames \in BOOLEAN /\ told \in BOOLEAN /\ owes \in BOOLEAN
    /\ cmdIn \in BOOLEAN /\ eventOut \in BOOLEAN /\ eventIn \in BOOLEAN
    /\ clkStarted \in BOOLEAN /\ asserted \subseteq {"out", "in"}
Signals ==
    /\ cmdOut \subseteq {"newData", "release"}
    /\ clkOut \in {"off", "once", "periodic"} /\ clkIn \in {"off", "once", "periodic"}
    /\ createArgs \in CreateArgs /\ drops \in 0 .. createArgs.maxDrops
Data ==
    /\ stage \in {"run", "stopped", "noConsumer", "noOut", "noIn", "none", "outOnly"}
    /\ free \subseteq Frames /\ inQue \in Seq(Frames)
    /\ elemQue \subseteq Elems /\ frameOf \in [Elems -> Frames \cup {NoFrame}]
    /\ listOut \in Seq(Elems) /\ listIn \in Seq(Elems)
    /\ out \in {"idle", "process", "release"} /\ freeList \subseteq Frames /\ todo \in Seq(Frames)
    /\ in \in {"idle", "process"}
    /\ outFrameQue \in Seq(Frames) /\ orgElem \in [Frames -> Elems \cup {NoElem}]
    /\ held \subseteq Frames

LEMMA Types == TypeOK <=> Flags /\ Signals /\ Data
  BY DEF TypeOK, Flags, Signals, Data

LEMMA TypesNext == TypeOK' <=> Flags' /\ Signals' /\ Data'
  BY DEF TypeOK, Flags, Signals, Data

(***************************************************************************)
(* The steps in which no element and no frame moves.                        *)
(***************************************************************************)
LEMMA Quiet ==
  ASSUME IInv, UNCHANGED ElemVars, UNCHANGED FrameVars, Kept' => Kept,
         TypeOK', LifeOK', NotifiedAlive'
  PROVE  IInv'
  <1>1. ElemsOK' /\ FrameOnce' /\ Filled'
    BY ElemsStay, FramesStay, Parts
  <1>2. IInv' <=> TypeOK' /\ ElemsOK' /\ FrameOnce' /\ Filled' /\ NotifiedAlive' /\ LifeOK'
    BY DEF IInv, ElemOnce, ElemsOK
  <1> QED BY <1>1, <1>2

LEMMA Args ==
  ASSUME TypeOK
  PROVE  /\ createArgs.maxDrops \in Nat /\ createArgs.elems \subseteq Elems
         /\ createArgs.notifyPrevLink \in BOOLEAN
  BY IpcAssumption DEF TypeOK, ArgsType

LEMMA SendOutTypes ==
  ASSUME Signals, createArgs.maxDrops \in Nat, NEW cmd \in {"newData", "release"}, SendOut(cmd)
  PROVE  cmdOut' \subseteq {"newData", "release"} /\ drops' \in 0 .. createArgs.maxDrops
  <1>1. cmdOut \subseteq {"newData", "release"}
    BY DEF Signals
  <1>2. cmdOut' = cmdOut \/ cmdOut' = cmdOut \cup {cmd}
    BY DEF SendOut
  <1>3. drops' \in 0 .. createArgs.maxDrops
    BY DEF Signals, SendOut
  <1> QED BY <1>1, <1>2, <1>3

LEMMA SignalIInv ==
  ASSUME IInv, OutNotified \/ OutTimer \/ InNotified \/ InTimer
  PROVE  IInv'
  <1> USE DEF life, producer, elements, outTask, inTask, consumer, clocks, SendOut, SendIn, Wound
  <1>0. Flags /\ Signals /\ Data /\ createArgs.maxDrops \in Nat
    BY Parts, Types, Args
  <1>1. LifeOK /\ NotifiedAlive
    BY Parts
  <1>2. UNCHANGED ElemVars /\ UNCHANGED FrameVars /\ UNCHANGED <<stage, out, todo, freeList, in, told, owes, inQue>>
    BY DEF OutNotified, OutTimer, InNotified, InTimer, ElemVars, FrameVars
  <1>3. TypeOK'
    <2>1. CASE OutNotified
      <3>1. Flags'
        BY <1>0, <2>1 DEF Flags, OutNotified
      <3>0. cmdOut' \subseteq {"newData", "release"} /\ drops' \in 0 .. createArgs.maxDrops
        <4>1. SendOut("release") \/ UNCHANGED <<cmdOut, drops>>
          BY <2>1 DEF OutNotified
        <4>2. CASE UNCHANGED <<cmdOut, drops>>
          BY <1>0, <2>1, <4>2 DEF Signals, OutNotified
        <4>3. CASE SendOut("release")
          <5> HIDE DEF SendOut
          <5> QED BY <1>0, <4>3, SendOutTypes
        <4> QED BY <4>1, <4>2, <4>3
      <3>2. Signals'
        BY <1>0, <2>1, <3>0 DEF Signals, OutNotified
      <3>3. Data'
        BY <1>0, <2>1 DEF Data, OutNotified
      <3> QED BY <3>1, <3>2, <3>3, TypesNext
    <2>2. CASE OutTimer
      <3>1. Flags'
        BY <1>0, <2>2 DEF Flags, OutTimer
      <3>0. cmdOut' \subseteq {"newData", "release"} /\ drops' \in 0 .. createArgs.maxDrops
        <4>1. SendOut("release")
          BY <2>2 DEF OutTimer
        <4> HIDE DEF SendOut
        <4> QED BY <1>0, <4>1, SendOutTypes
      <3>2. Signals'
        BY <1>0, <2>2, <3>0 DEF Signals, OutTimer
      <3>3. Data'
        BY <1>0, <2>2 DEF Data, OutTimer
      <3> QED BY <3>1, <3>2, <3>3, TypesNext
    <2>3. CASE InNotified
      <3>1. Flags'
        BY <1>0, <2>3 DEF Flags, InNotified
      <3>2. Signals'
        BY <1>0, <2>3 DEF Signals, InNotified
      <3>3. Data'
        BY <1>0, <2>3 DEF Data, InNotified
      <3> QED BY <3>1, <3>2, <3>3, TypesNext
    <2>4. CASE InTimer
      <3>1. Flags'
        BY <1>0, <2>4 DEF Flags, InTimer
      <3>2. Signals'
        BY <1>0, <2>4 DEF Signals, InTimer
      <3>3. Data'
        BY <1>0, <2>4 DEF Data, InTimer
      <3> QED BY <3>1, <3>2, <3>3, TypesNext
    <2> QED BY <2>1, <2>2, <2>3, <2>4
  <1>4. /\ eventOut' => eventOut
        /\ eventIn' => eventIn
    BY <1>1 DEF TypeOK, OutNotified, OutTimer, InNotified, InTimer
  <1>5. LifeOK'
    BY <1>1, <1>2, <1>4 DEF LifeOK, OutUp, InUp, ConsumerUp, ElemVars
  <1>6. NotifiedAlive'
    <2>1. CASE OutNotified
      BY <1>1, <2>1 DEF LifeOK, NotifiedAlive, OutNotified
    <2>2. CASE InNotified
      BY <1>1, <2>2 DEF LifeOK, NotifiedAlive, InNotified
    <2>3. CASE OutTimer \/ InTimer
      BY <1>1, <2>3 DEF NotifiedAlive, OutTimer, InTimer
    <2> QED BY <2>1, <2>2, <2>3
  <1> QED BY <1>2, <1>3, <1>5, <1>6, Quiet DEF Kept, OutUp

LEMMA TellIInv ==
  ASSUME IInv, InReceive \/ InTakeEnd \/ PutNotify
  PROVE  IInv'
  <1> USE DEF life, producer, elements, outTask, inTask, consumer, clocks
  <1>0. Flags /\ Signals /\ Data /\ createArgs.maxDrops \in Nat
    BY Parts, Types, Args
  <1>1. LifeOK /\ NotifiedAlive
    BY Parts
  <1>2. UNCHANGED ElemVars /\ UNCHANGED FrameVars /\ UNCHANGED <<stage, out, todo, freeList, inQue, asserted>>
    BY DEF InReceive, InTakeEnd, PutNotify, ElemVars, FrameVars
  <1>3. TypeOK'
    <2>1. CASE InReceive
      <3>1. Flags'
        BY <1>0, <2>1 DEF Flags, InReceive
      <3>2. Signals'
        BY <1>0, <2>1 DEF Signals, InReceive
      <3>3. Data'
        BY <1>0, <2>1 DEF Data, InReceive
      <3> QED BY <3>1, <3>2, <3>3, TypesNext
    <2>2. CASE InTakeEnd
      <3>1. Flags'
        BY <1>0, <2>2 DEF Flags, InTakeEnd, TellConsumer
      <3>2. Signals'
        BY <1>0, <2>2 DEF Signals, InTakeEnd, TellConsumer
      <3>3. Data'
        BY <1>0, <2>2 DEF Data, InTakeEnd
      <3> QED BY <3>1, <3>2, <3>3, TypesNext
    <2>3. CASE PutNotify
      <3>1. Flags'
        BY <1>0, <2>3 DEF Flags, PutNotify
      <3>2. Signals'
        BY <1>0, <2>3 DEF Signals, PutNotify
      <3>3. Data'
        BY <1>0, <2>3 DEF Data, PutNotify
      <3> QED BY <3>1, <3>2, <3>3, TypesNext
    <2> QED BY <2>1, <2>2, <2>3
  <1>4. LifeOK'
    <2>1. CASE InReceive
      BY <1>1, <2>1 DEF LifeOK, OutUp, InUp, ConsumerUp, InReceive
    <2>2. CASE InTakeEnd
      BY <1>1, <2>2 DEF LifeOK, OutUp, InUp, ConsumerUp, InTakeEnd, TellConsumer
    <2>3. CASE PutNotify
      BY <1>1, <2>3 DEF LifeOK, OutUp, InUp, ConsumerUp, PutNotify
    <2> QED BY <2>1, <2>2, <2>3
  <1>5. NotifiedAlive'
    BY <1>1, <1>2 DEF NotifiedAlive, ElemVars
  <1> QED BY <1>2, <1>3, <1>4, <1>5, Quiet DEF Kept, OutUp

LEMMA LifeIInv ==
  ASSUME IInv, Stop \/ DeleteConsumer \/ CreateIn
  PROVE  IInv'
  <1> USE DEF producer, elements, outTask, inTask, consumer, clocks
  <1>0. Flags /\ Signals /\ Data /\ createArgs.maxDrops \in Nat
    BY Parts, Types, Args
  <1>1. LifeOK /\ NotifiedAlive
    BY Parts
  <1>2. UNCHANGED ElemVars /\ UNCHANGED FrameVars /\ UNCHANGED <<out, todo, freeList, inQue, asserted>>
    BY DEF Stop, DeleteConsumer, CreateIn, ElemVars, FrameVars
  <1>3. TypeOK'
    <2>1. CASE Stop
      <3>1. Flags'
        BY <1>0, <2>1 DEF Flags, Stop
      <3>2. Signals'
        BY <1>0, <2>1 DEF Signals, Stop, InitialClock
      <3>3. Data'
        BY <1>0, <2>1 DEF Data, Stop
      <3> QED BY <3>1, <3>2, <3>3, TypesNext
    <2>2. CASE DeleteConsumer
      <3>1. Flags'
        BY <1>0, <2>2 DEF Flags, DeleteConsumer
      <3>2. Signals'
        BY <1>0, <2>2 DEF Signals, DeleteConsumer, InitialClock
      <3>3. Data'
        BY <1>0, <2>2 DEF Data, DeleteConsumer
      <3> QED BY <3>1, <3>2, <3>3, TypesNext
    <2>3. CASE CreateIn
      <3>1. Flags'
        BY <1>0, <2>3 DEF Flags, CreateIn
      <3>2. Signals'
        BY <1>0, <2>3 DEF Signals, CreateIn, InitialClock
      <3>3. Data'
        BY <1>0, <2>3 DEF Data, CreateIn
      <3> QED BY <3>1, <3>2, <3>3, TypesNext
    <2> QED BY <2>1, <2>2, <2>3
  <1>4. LifeOK'
    BY <1>1 DEF LifeOK, OutUp, InUp, ConsumerUp, Stop, DeleteConsumer, CreateIn, ConsumerDone, ElemVars
  <1>5. NotifiedAlive'
    BY <1>1, <1>2 DEF NotifiedAlive, ElemVars
  <1>6. Kept' => Kept
    BY DEF Kept, OutUp, Stop, DeleteConsumer, CreateIn
  <1> QED BY <1>2, <1>3, <1>4, <1>5, <1>6, Quiet

(***************************************************************************)
(* The steps in which frames move without an element.                       *)
(***************************************************************************)
LEMMA Now ==
  ASSUME IInv
  PROVE  /\ Flags /\ Signals /\ Data /\ createArgs.maxDrops \in Nat /\ createArgs.elems \subseteq Elems
         /\ LifeOK /\ NotifiedAlive /\ ElemsOK /\ FrameOnce /\ Filled
  BY Parts, Types, Args

LEMMA Next1 ==
  ASSUME Flags', Signals', Data', LifeOK', NotifiedAlive', ElemsOK', FrameOnce', Filled'
  PROVE  IInv'
  <1>1. IInv' <=> TypeOK' /\ ElemsOK' /\ FrameOnce' /\ Filled' /\ NotifiedAlive' /\ LifeOK'
    BY DEF IInv, ElemOnce, ElemsOK
  <1> QED BY <1>1, TypesNext

FrameKinds == {"free", "inQue", "todo", "freeList", "listOut", "listIn", "outFrameQue", "held"}

LEMMA FrameMove ==
  ASSUME FrameOnce, Kept' => Kept,
         NEW i \in FrameKinds, NEW j \in FrameKinds, i # j,
         \A k \in FrameKinds : k = i \/ k = j \/ FramesIn'[k] = FramesIn[k],
         FramesIn'[i] \subseteq FramesIn[i],
         FramesIn'[j] = FramesIn[j] \cup (FramesIn[i] \ FramesIn'[i]),
         IsInjective(inQue') /\ IsInjective(todo') /\ IsInjective(outFrameQue'),
         \A e1, e2 \in ToSet(listOut') : frameOf'[e1] = frameOf'[e2] => e1 = e2,
         \A e1, e2 \in ToSet(listIn') : frameOf'[e1] = frameOf'[e2] => e1 = e2
  PROVE  FrameOnce'
  <1>1. DOMAIN FramesIn' = DOMAIN FramesIn /\ DOMAIN FramesIn = FrameKinds
    BY FrameSets, FrameSetsNext DEF FrameKinds
  <1>2. Apart(FramesIn) /\ (Kept => Everywhere(FramesIn) = Frames)
    BY DEF FrameOnce
  <1>3. Apart(FramesIn') /\ Everywhere(FramesIn') = Everywhere(FramesIn)
    BY <1>1, <1>2, Shift
  <1> QED BY <1>2, <1>3 DEF FrameOnce, FramesOf

(* What does not change stays where it is.                                  *)
LEMMA Unmoved ==
  /\ UNCHANGED free => FramesIn'["free"] = FramesIn["free"]
  /\ UNCHANGED inQue => FramesIn'["inQue"] = FramesIn["inQue"]
  /\ UNCHANGED todo => FramesIn'["todo"] = FramesIn["todo"]
  /\ UNCHANGED freeList => FramesIn'["freeList"] = FramesIn["freeList"]
  /\ UNCHANGED <<listOut, frameOf>> => FramesIn'["listOut"] = FramesIn["listOut"]
  /\ UNCHANGED <<listIn, frameOf>> => FramesIn'["listIn"] = FramesIn["listIn"]
  /\ UNCHANGED outFrameQue => FramesIn'["outFrameQue"] = FramesIn["outFrameQue"]
  /\ UNCHANGED held => FramesIn'["held"] = FramesIn["held"]
  BY FrameSets, FrameSetsNext DEF FramesOf

LEMMA ProduceIInv == ASSUME IInv, NEW f \in Frames, Produce(f) PROVE IInv'
  <1> USE DEF life, elements, outTask, inTask, consumer, clocks
  <1>0. /\ Flags /\ Signals /\ Data /\ createArgs.maxDrops \in Nat
        /\ LifeOK /\ NotifiedAlive /\ ElemsOK /\ FrameOnce /\ Filled
    BY Now
  <1>1. /\ f \in free /\ free' = free \ {f} /\ inQue' = Append(inQue, f) /\ stage = "run"
        /\ UNCHANGED ElemVars
        /\ UNCHANGED <<todo, freeList, stage, out, in, told, owes, eventOut, eventIn, asserted>>
    BY DEF Produce, ElemVars
  <1>2. /\ inQue' \in Seq(Frames) /\ ToSet(inQue') = ToSet(inQue) \cup {f}
        /\ IsInjective(inQue) /\ f \notin ToSet(inQue) => IsInjective(inQue')
    BY <1>0, <1>1, Put DEF Data
  <1>3. f \notin ToSet(inQue) /\ IsInjective(inQue) /\ IsInjective(todo) /\ IsInjective(outFrameQue)
    BY <1>0, <1>1, FrameSets DEF FrameOnce, Apart
  <1>4. FrameOnce'
    <2>1. \A k \in FrameKinds : k = "free" \/ k = "inQue" \/ FramesIn'[k] = FramesIn[k]
      BY <1>1, Unmoved DEF FrameKinds, ElemVars
    <2>2. FramesIn'["free"] \subseteq FramesIn["free"]
      BY <1>1, FrameSets, FrameSetsNext
    <2>3. FramesIn'["inQue"] = FramesIn["inQue"] \cup (FramesIn["free"] \ FramesIn'["free"])
      BY <1>1, <1>2, FrameSets, FrameSetsNext
    <2>4. /\ \A e1, e2 \in ToSet(listOut') : frameOf'[e1] = frameOf'[e2] => e1 = e2
          /\ \A e1, e2 \in ToSet(listIn') : frameOf'[e1] = frameOf'[e2] => e1 = e2
      BY <1>0, <1>1 DEF FrameOnce, ElemVars
    <2>5. IsInjective(inQue') /\ IsInjective(todo') /\ IsInjective(outFrameQue')
      BY <1>1, <1>2, <1>3 DEF ElemVars
    <2>6. "free" \in FrameKinds /\ "inQue" \in FrameKinds /\ "free" # "inQue" /\ (Kept' => Kept)
      BY <1>1 DEF FrameKinds, Kept, OutUp
    <2> QED BY <1>0, <2>1, <2>2, <2>3, <2>4, <2>5, <2>6, FrameMove
  <1>5. Flags'
    BY <1>0 DEF Flags, Produce
  <1>6. Signals'
    <2>1. SendOut("newData") /\ UNCHANGED <<clkOut, clkIn, createArgs>>
      BY DEF Produce
    <2>2. cmdOut' \subseteq {"newData", "release"} /\ drops' \in 0 .. createArgs.maxDrops
      BY <1>0, <2>1, SendOutTypes
    <2> QED BY <1>0, <2>1, <2>2 DEF Signals
  <1>7. Data'
    BY <1>0, <1>1, <1>2 DEF Data, Produce
  <1>8. LifeOK'
    BY <1>0, <1>1 DEF LifeOK, OutUp, InUp, ConsumerUp, ElemVars
  <1>9. NotifiedAlive' /\ ElemsOK' /\ Filled'
    BY <1>0, <1>1, ElemsStay DEF NotifiedAlive, Filled, ElemVars, Kept, OutUp
  <1> QED BY <1>4, <1>5, <1>6, <1>7, <1>8, <1>9, Next1

LEMMA OutTakeIInv ==
  ASSUME IInv, NEW cmd \in {"newData", "release"}, OutReceive(cmd), cmd = "newData" /\ inQue # << >>
  PROVE  IInv'
  <1> USE DEF life, producer, elements, outTask, inTask, consumer, clocks
  <1>0. /\ Flags /\ Signals /\ Data /\ createArgs.maxDrops \in Nat
        /\ LifeOK /\ NotifiedAlive /\ ElemsOK /\ FrameOnce /\ Filled
    BY Now
  <1>1. /\ out = "idle" /\ out' = "process" /\ OutUp /\ inQue # << >> /\ todo' = inQue /\ inQue' = << >>
        /\ UNCHANGED <<free, freeList, stage, in, told, owes, eventOut, eventIn, asserted>>
        /\ UNCHANGED ElemVars
    BY DEF OutReceive, ElemVars
  <1>2. /\ todo = << >> /\ ToSet(todo) = {} /\ inQue' \in Seq(Frames) /\ ToSet(inQue') = {} /\ IsInjective(inQue')
    BY <1>0, <1>1, Empty DEF LifeOK
  <1>3. IsInjective(inQue) /\ IsInjective(todo) /\ IsInjective(outFrameQue)
    BY <1>0, <1>1, <1>2, FrameSets DEF FrameOnce
  <1>4. FrameOnce'
    <2>1. \A k \in FrameKinds : k = "inQue" \/ k = "todo" \/ FramesIn'[k] = FramesIn[k]
      BY <1>1, Unmoved DEF FrameKinds, ElemVars
    <2>2. FramesIn'["inQue"] \subseteq FramesIn["inQue"]
      BY <1>1, <1>2, FrameSets, FrameSetsNext
    <2>3. FramesIn'["todo"] = FramesIn["todo"] \cup (FramesIn["inQue"] \ FramesIn'["inQue"])
      BY <1>1, <1>2, <1>3, FrameSets, FrameSetsNext
    <2>4. /\ \A e1, e2 \in ToSet(listOut') : frameOf'[e1] = frameOf'[e2] => e1 = e2
          /\ \A e1, e2 \in ToSet(listIn') : frameOf'[e1] = frameOf'[e2] => e1 = e2
      BY <1>0, <1>1 DEF FrameOnce, ElemVars
    <2>5. IsInjective(inQue') /\ IsInjective(todo') /\ IsInjective(outFrameQue')
      BY <1>1, <1>2, <1>3 DEF ElemVars
    <2>6. "inQue" \in FrameKinds /\ "todo" \in FrameKinds /\ "inQue" # "todo" /\ (Kept' => Kept)
      BY <1>1 DEF FrameKinds, Kept, OutUp
    <2> QED BY <1>0, <2>1, <2>2, <2>3, <2>4, <2>5, <2>6, FrameMove
  <1>5. Flags'
    BY <1>0 DEF Flags, OutReceive
  <1>6. Signals'
    BY <1>0 DEF Signals, OutReceive
  <1>7. Data'
    BY <1>0, <1>1, <1>2 DEF Data, ElemVars
  <1>8. LifeOK'
    BY <1>0, <1>1, <1>2 DEF LifeOK, OutUp, InUp, ConsumerUp, ElemVars
  <1>9. NotifiedAlive' /\ ElemsOK' /\ Filled'
    BY <1>0, <1>1, ElemsStay DEF NotifiedAlive, Filled, ElemVars, Kept, OutUp
  <1> QED BY <1>4, <1>5, <1>6, <1>7, <1>8, <1>9, Next1

LEMMA OutSkipIInv == ASSUME IInv, OutSkip PROVE IInv'
  <1> USE DEF life, producer, elements, outTask, inTask, consumer, clocks
  <1>0. /\ Flags /\ Signals /\ Data /\ createArgs.maxDrops \in Nat
        /\ LifeOK /\ NotifiedAlive /\ ElemsOK /\ FrameOnce /\ Filled
    BY Now
  <1>1. /\ out = "process" /\ todo # << >> /\ todo' = Tail(todo) /\ freeList' = freeList \cup {Head(todo)}
        /\ UNCHANGED <<free, inQue, out, stage, in, told, owes, eventOut, eventIn, asserted>>
        /\ UNCHANGED ElemVars
    BY DEF OutSkip, AddFree, ElemVars
  <1>2. /\ todo' \in Seq(Frames) /\ Head(todo) \in Frames /\ ToSet(todo) = ToSet(todo') \cup {Head(todo)}
        /\ IsInjective(todo) => IsInjective(todo') /\ Head(todo) \notin ToSet(todo')
    BY <1>0, <1>1, Get DEF Data
  <1>3. IsInjective(inQue) /\ IsInjective(todo) /\ IsInjective(outFrameQue)
    BY <1>0, <1>1, <1>2, FrameSets DEF FrameOnce
  <1>4. FrameOnce'
    <2>1. \A k \in FrameKinds : k = "todo" \/ k = "freeList" \/ FramesIn'[k] = FramesIn[k]
      BY <1>1, Unmoved DEF FrameKinds, ElemVars
    <2>2. FramesIn'["todo"] \subseteq FramesIn["todo"]
      BY <1>1, <1>2, FrameSets, FrameSetsNext
    <2>3. FramesIn'["freeList"] = FramesIn["freeList"] \cup (FramesIn["todo"] \ FramesIn'["todo"])
      BY <1>1, <1>2, <1>3, FrameSets, FrameSetsNext
    <2>4. /\ \A e1, e2 \in ToSet(listOut') : frameOf'[e1] = frameOf'[e2] => e1 = e2
          /\ \A e1, e2 \in ToSet(listIn') : frameOf'[e1] = frameOf'[e2] => e1 = e2
      BY <1>0, <1>1 DEF FrameOnce, ElemVars
    <2>5. IsInjective(inQue') /\ IsInjective(todo') /\ IsInjective(outFrameQue')
      BY <1>1, <1>2, <1>3 DEF ElemVars
    <2>6. "todo" \in FrameKinds /\ "freeList" \in FrameKinds /\ "todo" # "freeList" /\ (Kept' => Kept)
      BY <1>1 DEF FrameKinds, Kept, OutUp
    <2> QED BY <1>0, <2>1, <2>2, <2>3, <2>4, <2>5, <2>6, FrameMove
  <1>5. Flags'
    BY <1>0 DEF Flags, OutSkip, AddFree
  <1>6. Signals'
    BY <1>0 DEF Signals, OutSkip, AddFree
  <1>7. Data'
    BY <1>0, <1>1, <1>2 DEF Data, ElemVars
  <1>8. LifeOK'
    BY <1>0, <1>1, <1>2 DEF LifeOK, OutUp, InUp, ConsumerUp, ElemVars
  <1>9. NotifiedAlive' /\ ElemsOK' /\ Filled'
    BY <1>0, <1>1, ElemsStay DEF NotifiedAlive, Filled, ElemVars, Kept, OutUp
  <1> QED BY <1>4, <1>5, <1>6, <1>7, <1>8, <1>9, Next1

LEMMA OutEndIInv == ASSUME IInv, OutProcessEnd \/ OutReleaseEnd PROVE IInv'
  <1> USE DEF life, producer, elements, outTask, inTask, consumer, clocks
  <1>0. /\ Flags /\ Signals /\ Data /\ createArgs.maxDrops \in Nat
        /\ LifeOK /\ NotifiedAlive /\ ElemsOK /\ FrameOnce /\ Filled
    BY Now
  <1>1. /\ free' = free \cup freeList /\ freeList' = {} /\ todo = << >> /\ out # "idle"
        /\ (out = "process" /\ out' = "release") \/ (out' = "idle" /\ eventIn' = eventIn)
        /\ UNCHANGED <<inQue, todo, stage, in, told, owes, eventOut, asserted>>
        /\ UNCHANGED ElemVars
    <2>1. CASE OutProcessEnd
      BY <2>1 DEF OutProcessEnd, ElemVars
    <2>2. CASE OutReleaseEnd
      BY <1>0, <2>2 DEF OutReleaseEnd, ElemVars, LifeOK
    <2> QED BY <2>1, <2>2
  <1>2. InUp \/ createArgs.inFirst \/ eventIn' = eventIn
    BY <1>0, <1>1 DEF LifeOK
  <1>3. IsInjective(inQue) /\ IsInjective(todo) /\ IsInjective(outFrameQue)
    BY <1>0, <1>1, <1>2, FrameSets DEF FrameOnce
  <1>4. FrameOnce'
    <2>1. \A k \in FrameKinds : k = "freeList" \/ k = "free" \/ FramesIn'[k] = FramesIn[k]
      BY <1>1, Unmoved DEF FrameKinds, ElemVars
    <2>2. FramesIn'["freeList"] \subseteq FramesIn["freeList"]
      BY <1>1, <1>2, FrameSets, FrameSetsNext
    <2>3. FramesIn'["free"] = FramesIn["free"] \cup (FramesIn["freeList"] \ FramesIn'["freeList"])
      BY <1>1, <1>2, <1>3, FrameSets, FrameSetsNext
    <2>4. /\ \A e1, e2 \in ToSet(listOut') : frameOf'[e1] = frameOf'[e2] => e1 = e2
          /\ \A e1, e2 \in ToSet(listIn') : frameOf'[e1] = frameOf'[e2] => e1 = e2
      BY <1>0, <1>1 DEF FrameOnce, ElemVars
    <2>5. IsInjective(inQue') /\ IsInjective(todo') /\ IsInjective(outFrameQue')
      BY <1>1, <1>2, <1>3 DEF ElemVars
    <2>6. "freeList" \in FrameKinds /\ "free" \in FrameKinds /\ "freeList" # "free" /\ (Kept' => Kept)
      BY <1>1 DEF FrameKinds, Kept, OutUp
    <2> QED BY <1>0, <2>1, <2>2, <2>3, <2>4, <2>5, <2>6, FrameMove
  <1>5. Flags'
    BY <1>0 DEF Flags, OutProcessEnd, OutReleaseEnd
  <1>6. Signals'
    BY <1>0 DEF Signals, OutProcessEnd, OutReleaseEnd
  <1>7. Data'
    BY <1>0, <1>1, <1>2 DEF Data, ElemVars
  <1>8. LifeOK'
    BY <1>0, <1>1, <1>2 DEF LifeOK, OutUp, InUp, ConsumerUp, ElemVars
  <1>9. NotifiedAlive' /\ ElemsOK' /\ Filled'
    BY <1>0, <1>1, ElemsStay DEF NotifiedAlive, Filled, ElemVars, Kept, OutUp
  <1> QED BY <1>4, <1>5, <1>6, <1>7, <1>8, <1>9, Next1

LEMMA OutReceiveIInv ==
  ASSUME IInv, NEW cmd \in {"newData", "release"}, OutReceive(cmd)
  PROVE  IInv'
  <1>1. CASE cmd = "newData" /\ inQue # << >>
    BY <1>1, OutTakeIInv
  <1>2. CASE ~(cmd = "newData" /\ inQue # << >>)
    <2> USE DEF life, producer, elements, outTask, inTask, consumer, clocks
    <2>0. Flags /\ Signals /\ Data /\ LifeOK /\ NotifiedAlive
      BY Now
    <2>1. /\ out' = "release" /\ OutUp
          /\ UNCHANGED ElemVars /\ UNCHANGED FrameVars
          /\ UNCHANGED <<stage, freeList, in, told, owes, eventOut, eventIn, asserted>>
      BY <1>2 DEF OutReceive, ElemVars, FrameVars
    <2>2. Flags'
      BY <2>0 DEF Flags, OutReceive
    <2>3. Signals'
      BY <2>0 DEF Signals, OutReceive
    <2>4. Data'
      BY <2>0, <2>1 DEF Data, ElemVars, FrameVars
    <2>5. LifeOK'
      BY <2>0, <2>1 DEF LifeOK, OutUp, InUp, ConsumerUp, ElemVars, FrameVars, OutReceive
    <2>6. NotifiedAlive' /\ (Kept' => Kept)
      BY <2>0, <2>1 DEF NotifiedAlive, ElemVars, Kept, OutUp
    <2> QED BY <2>1, <2>2, <2>3, <2>4, <2>5, <2>6, TypesNext, Quiet
  <1> QED BY <1>1, <1>2

(***************************************************************************)
(* The steps in which an element moves, with its frame.                     *)
(***************************************************************************)
ElemKinds == {"elemQue", "listOut", "listIn", "orgElem"}

LEMMA ElemMove ==
  ASSUME ElemsOK, createArgs' = createArgs, Kept' => Kept,
         NEW i \in ElemKinds, NEW j \in ElemKinds, i # j,
         \A k \in ElemKinds : k = i \/ k = j \/ ElemsIn'[k] = ElemsIn[k],
         ElemsIn'[i] \subseteq ElemsIn[i],
         ElemsIn'[j] = ElemsIn[j] \cup (ElemsIn[i] \ ElemsIn'[i]),
         OwnElem', IsInjective(listOut'), IsInjective(listIn')
  PROVE  ElemsOK'
  <1>1. DOMAIN ElemsIn' = DOMAIN ElemsIn /\ DOMAIN ElemsIn = ElemKinds
    BY ElemSets, ElemSetsNext DEF ElemKinds
  <1>2. /\ Apart(ElemsIn) /\ (Kept => Everywhere(ElemsIn) = createArgs.elems)
        /\ Everywhere(ElemsIn) \subseteq createArgs.elems
    BY DEF ElemsOK
  <1>3. Apart(ElemsIn') /\ Everywhere(ElemsIn') = Everywhere(ElemsIn)
    BY <1>1, <1>2, Shift
  <1> QED BY <1>2, <1>3 DEF ElemsOK

(* Where elements and frames are not.                                       *)
LEMMA OnePlaceOnly ==
  ASSUME IInv
  PROVE  /\ \A e \in elemQue : e \notin ToSet(listOut) /\ e \notin ToSet(listIn)
         /\ \A e \in ToSet(listOut) : e \notin ToSet(listIn)
         /\ \A f \in WithIn : /\ orgElem[f] \in Elems /\ frameOf[orgElem[f]] = f
                              /\ orgElem[f] \notin elemQue
                              /\ orgElem[f] \notin ToSet(listOut) /\ orgElem[f] \notin ToSet(listIn)
         /\ \A f \in held : f \notin ToSet(outFrameQue)
         /\ \A e \in ToSet(listOut) \cup ToSet(listIn) :
               frameOf[e] \in Frames /\ frameOf[e] \notin WithIn /\ frameOf[e] \notin ToSet(todo)
               /\ frameOf[e] \notin freeList
         /\ \A e \in ToSet(listOut), d \in ToSet(listIn) : frameOf[e] # frameOf[d]
  <1>1. ElemsOK /\ FrameOnce /\ Filled
    BY Parts
  <1>2. \A k1, k2 \in DOMAIN ElemsIn : k1 # k2 => ElemsIn[k1] \cap ElemsIn[k2] = {}
    BY <1>1 DEF ElemsOK, Apart
  <1>3. \A k1, k2 \in DOMAIN FramesIn : k1 # k2 => FramesIn[k1] \cap FramesIn[k2] = {}
    BY <1>1 DEF FrameOnce, Apart
  <1>4. /\ elemQue \cap ToSet(listOut) = {} /\ elemQue \cap ToSet(listIn) = {}
        /\ ToSet(listOut) \cap ToSet(listIn) = {}
    BY <1>2, ElemSets
  <1>5. \A f \in WithIn : /\ orgElem[f] \in Elems /\ frameOf[orgElem[f]] = f
                          /\ orgElem[f] \notin elemQue
                          /\ orgElem[f] \notin ToSet(listOut) /\ orgElem[f] \notin ToSet(listIn)
    <2>1. \A f \in WithIn : orgElem[f] \in ElemsIn["orgElem"]
      BY ElemSets
    <2> QED BY <1>1, <1>2, <2>1, ElemSets DEF ElemsOK, OwnElem
  <1>6. \A f \in held : f \notin ToSet(outFrameQue)
    BY <1>3, FrameSets
  <1>7. \A e \in ToSet(listOut) : frameOf[e] \in FramesIn["listOut"]
    BY FrameSets DEF FramesOf
  <1>8. \A e \in ToSet(listIn) : frameOf[e] \in FramesIn["listIn"]
    BY FrameSets DEF FramesOf
  <1>9. \A e \in ToSet(listOut) \cup ToSet(listIn) :
               frameOf[e] \in Frames /\ frameOf[e] \notin WithIn /\ frameOf[e] \notin ToSet(todo)
               /\ frameOf[e] \notin freeList
    BY <1>1, <1>3, <1>7, <1>8, FrameSets DEF Filled, WithIn
  <1>10. \A e \in ToSet(listOut), d \in ToSet(listIn) : frameOf[e] # frameOf[d]
    BY <1>3, <1>7, <1>8, FrameSets
  <1> QED BY <1>4, <1>5, <1>6, <1>9, <1>10

LEMMA OutSendIInv == ASSUME IInv, OutSend PROVE IInv'
  <1> USE DEF life, producer, inTask, consumer, clocks
  <1>0. /\ Flags /\ Signals /\ Data
        /\ LifeOK /\ NotifiedAlive /\ ElemsOK /\ FrameOnce /\ Filled
    BY Now
  <1>1. PICK e \in elemQue :
        /\ elemQue' = elemQue \ {e}
        /\ frameOf' = [frameOf EXCEPT ![e] = Head(todo)]
        /\ listOut' = Append(listOut, e)
    BY DEF OutSend
  <1>2. /\ out = "process" /\ todo # << >> /\ todo' = Tail(todo)
        /\ UNCHANGED <<createArgs, stage, free, inQue, listIn, out, freeList, in, outFrameQue, orgElem,
                       held, told, owes, eventOut, eventIn, asserted>>
    BY DEF OutSend
  <1>3. PICK f \in Frames : f = Head(todo)
    BY <1>0, <1>2, Get DEF Data
  <1>4. /\ todo' \in Seq(Frames) /\ ToSet(todo) = ToSet(todo') \cup {f}
        /\ IsInjective(todo) => IsInjective(todo') /\ f \notin ToSet(todo')
    BY <1>0, <1>2, <1>3, Get DEF Data
  <1>5. e \in Elems /\ e \notin ToSet(listOut) /\ e \notin ToSet(listIn)
    BY <1>0, OnePlaceOnly DEF Data
  <1>6. /\ listOut' \in Seq(Elems) /\ ToSet(listOut') = ToSet(listOut) \cup {e}
        /\ IsInjective(listOut')
    BY <1>0, <1>1, <1>5, Put DEF Data, ElemsOK
  <1>7. frameOf' \in [Elems -> Frames \cup {NoFrame}] /\ frameOf'[e] = f
        /\ \A x \in Elems : x # e => frameOf'[x] = frameOf[x]
    BY <1>0, <1>1, <1>3, <1>5 DEF Data
  <1>8. ToSet(listOut) \subseteq Elems /\ ToSet(listIn) \subseteq Elems
    BY <1>0, Members DEF Data
  <1>9. OwnElem' /\ WithIn' = WithIn
    <2>1. WithIn' = WithIn
      BY <1>2 DEF WithIn
    <2>2. ASSUME NEW x \in WithIn PROVE orgElem'[x] \in Elems /\ frameOf'[orgElem'[x]] = x
      BY <1>1, <1>2, <1>7, OnePlaceOnly
    <2> QED BY <2>1, <2>2 DEF OwnElem
  <1>10. ElemsOK'
    <2>1. /\ ElemsIn'["elemQue"] = ElemsIn["elemQue"] \ {e}
          /\ ElemsIn'["listOut"] = ElemsIn["listOut"] \cup {e}
          /\ ElemsIn'["listIn"] = ElemsIn["listIn"]
          /\ ElemsIn'["orgElem"] = ElemsIn["orgElem"]
      BY <1>1, <1>2, <1>6, <1>9, ElemSets, ElemSetsNext
    <2>2. e \in ElemsIn["elemQue"] /\ "elemQue" \in ElemKinds /\ "listOut" \in ElemKinds
      BY <1>1, ElemSets DEF ElemKinds
    <2>3. IsInjective(listIn') /\ (Kept' => Kept)
      BY <1>0, <1>2 DEF ElemsOK, Kept, OutUp
    <2> QED BY <1>0, <1>2, <1>6, <1>9, <2>1, <2>2, <2>3, ElemMove DEF ElemKinds
  <1>11. FrameOnce'
    <2>1. /\ FramesIn'["listOut"] = FramesIn["listOut"] \cup {f}
          /\ FramesIn'["listIn"] = FramesIn["listIn"]
      <3>1. {frameOf'[x] : x \in ToSet(listOut) \cup {e}} = {frameOf[x] : x \in ToSet(listOut)} \cup {f}
        BY <1>5, <1>7, <1>8
      <3>2. {frameOf'[x] : x \in ToSet(listIn)} = {frameOf[x] : x \in ToSet(listIn)}
        BY <1>5, <1>7, <1>8
      <3> QED BY <1>2, <1>6, <3>1, <3>2, FrameSets, FrameSetsNext DEF FramesOf
    <2>2. FramesIn'["todo"] = FramesIn["todo"] \ {f} /\ f \in FramesIn["todo"]
      BY <1>0, <1>4, FrameSets, FrameSetsNext DEF FrameOnce
    <2>3. \A k \in FrameKinds : k = "todo" \/ k = "listOut" \/ FramesIn'[k] = FramesIn[k]
      BY <1>2, <2>1, Unmoved DEF FrameKinds
    <2>4. \A e1, e2 \in ToSet(listOut') : frameOf'[e1] = frameOf'[e2] => e1 = e2
      <3>1. \A x \in ToSet(listOut) : frameOf[x] # f
        BY <1>4, OnePlaceOnly
      <3>2. \A x, y \in ToSet(listOut) : frameOf[x] = frameOf[y] => x = y
        BY <1>0 DEF FrameOnce
      <3> QED BY <1>5, <1>6, <1>7, <1>8, <3>1, <3>2
    <2>5. \A e1, e2 \in ToSet(listIn') : frameOf'[e1] = frameOf'[e2] => e1 = e2
      <3>1. \A x, y \in ToSet(listIn) : frameOf[x] = frameOf[y] => x = y
        BY <1>0 DEF FrameOnce
      <3> QED BY <1>2, <1>5, <1>7, <1>8, <3>1
    <2>6. IsInjective(inQue') /\ IsInjective(todo') /\ IsInjective(outFrameQue')
      BY <1>0, <1>2, <1>4 DEF FrameOnce
    <2>7. "todo" \in FrameKinds /\ "listOut" \in FrameKinds /\ (Kept' => Kept)
      BY <1>2 DEF FrameKinds, Kept, OutUp
    <2> QED BY <1>0, <2>1, <2>2, <2>3, <2>4, <2>5, <2>6, <2>7, FrameMove
  <1>12. Filled'
    BY <1>0, <1>2, <1>5, <1>6, <1>7, <1>8 DEF Filled
  <1>13. Flags' /\ Signals'
    <2>1. Flags'
      BY <1>0 DEF Flags, OutSend
    <2>2. Signals'
      BY <1>0 DEF Signals, OutSend
    <2> QED BY <2>1, <2>2
  <1>14. Data'
    BY <1>0, <1>1, <1>2, <1>4, <1>6, <1>7 DEF Data
  <1>15. LifeOK' /\ NotifiedAlive'
    BY <1>0, <1>2 DEF LifeOK, OutUp, InUp, ConsumerUp, NotifiedAlive
  <1> QED BY <1>10, <1>11, <1>12, <1>13, <1>14, <1>15, Next1

LEMMA OutReleaseIInv == ASSUME IInv, OutRelease PROVE IInv'
  <1> USE DEF life, producer, inTask, consumer, clocks
  <1>0. /\ Flags /\ Signals /\ Data
        /\ LifeOK /\ NotifiedAlive /\ ElemsOK /\ FrameOnce /\ Filled
    BY Now
  <1>1. PICK e : e = Head(listIn)
    OBVIOUS
  <1>2. PICK f : f = frameOf[e]
    OBVIOUS
  <1>3. /\ listIn # << >> /\ listIn' = Tail(listIn) /\ freeList' = freeList \cup {f}
        /\ elemQue' = elemQue \cup {e} /\ frameOf' = [frameOf EXCEPT ![e] = NoFrame]
        /\ out = "release"
        /\ UNCHANGED <<createArgs, stage, free, inQue, todo, listOut, out, in, outFrameQue, orgElem,
                       held, told, owes, eventOut, eventIn, asserted>>
    BY <1>1, <1>2 DEF OutRelease, AddFree, Recycle
  <1>4. /\ listIn' \in Seq(Elems) /\ ToSet(listIn) = ToSet(listIn') \cup {e} /\ e \in ToSet(listIn)
        /\ IsInjective(listIn') /\ e \notin ToSet(listIn') /\ e \in Elems
    BY <1>0, <1>1, <1>3, Get DEF Data, ElemsOK
  <1>5. /\ f \in Frames /\ e \notin ToSet(listOut) /\ e \notin elemQue
        /\ \A x \in WithIn : orgElem[x] # e
    BY <1>2, <1>4, OnePlaceOnly
  <1>6. /\ frameOf' \in [Elems -> Frames \cup {NoFrame}]
        /\ \A x \in Elems : x # e => frameOf'[x] = frameOf[x]
    BY <1>0, <1>3, <1>4 DEF Data
  <1>7. ToSet(listOut) \subseteq Elems /\ ToSet(listIn) \subseteq Elems
    BY <1>0, Members DEF Data
  <1>8. OwnElem' /\ WithIn' = WithIn
    <2>1. WithIn' = WithIn
      BY <1>3 DEF WithIn
    <2>2. ASSUME NEW x \in WithIn PROVE orgElem'[x] \in Elems /\ frameOf'[orgElem'[x]] = x
      BY <1>3, <1>5, <1>6, OnePlaceOnly
    <2> QED BY <2>1, <2>2 DEF OwnElem
  <1>9. ElemsOK'
    <2>1. /\ ElemsIn'["elemQue"] = ElemsIn["elemQue"] \cup {e}
          /\ ElemsIn'["listIn"] = ElemsIn["listIn"] \ {e}
          /\ ElemsIn'["listOut"] = ElemsIn["listOut"]
          /\ ElemsIn'["orgElem"] = ElemsIn["orgElem"]
      BY <1>3, <1>4, <1>8, ElemSets, ElemSetsNext
    <2>2. e \in ElemsIn["listIn"] /\ "elemQue" \in ElemKinds /\ "listIn" \in ElemKinds
      BY <1>4, ElemSets DEF ElemKinds
    <2>3. IsInjective(listOut') /\ (Kept' => Kept)
      BY <1>0, <1>3 DEF ElemsOK, Kept, OutUp
    <2> QED BY <1>0, <1>3, <1>4, <1>8, <2>1, <2>2, <2>3, ElemMove DEF ElemKinds
  <1>10. \A x, y \in ToSet(listIn) : frameOf[x] = frameOf[y] => x = y
    BY <1>0 DEF FrameOnce
  <1>11. FrameOnce'
    <2>1. /\ FramesIn'["listIn"] = FramesIn["listIn"] \ {f} /\ f \in FramesIn["listIn"]
          /\ FramesIn'["listOut"] = FramesIn["listOut"]
      <3>1. {frameOf'[x] : x \in ToSet(listIn')} = {frameOf[x] : x \in ToSet(listIn)} \ {f}
        BY <1>2, <1>4, <1>6, <1>7, <1>10
      <3>2. {frameOf'[x] : x \in ToSet(listOut)} = {frameOf[x] : x \in ToSet(listOut)}
        BY <1>5, <1>6, <1>7
      <3>3. f \in {frameOf[x] : x \in ToSet(listIn)}
        BY <1>2, <1>4
      <3> QED BY <1>3, <3>1, <3>2, <3>3, FrameSets, FrameSetsNext DEF FramesOf
    <2>2. FramesIn'["freeList"] = FramesIn["freeList"] \cup {f}
      BY <1>3, FrameSets, FrameSetsNext
    <2>3. \A k \in FrameKinds : k = "listIn" \/ k = "freeList" \/ FramesIn'[k] = FramesIn[k]
      BY <1>3, <2>1, Unmoved DEF FrameKinds
    <2>4. \A e1, e2 \in ToSet(listIn') : frameOf'[e1] = frameOf'[e2] => e1 = e2
      BY <1>4, <1>6, <1>7, <1>10
    <2>5. \A e1, e2 \in ToSet(listOut') : frameOf'[e1] = frameOf'[e2] => e1 = e2
      <3>1. \A x, y \in ToSet(listOut) : frameOf[x] = frameOf[y] => x = y
        BY <1>0 DEF FrameOnce
      <3> QED BY <1>3, <1>5, <1>6, <1>7, <3>1
    <2>6. IsInjective(inQue') /\ IsInjective(todo') /\ IsInjective(outFrameQue')
      BY <1>0, <1>3 DEF FrameOnce
    <2>7. "listIn" \in FrameKinds /\ "freeList" \in FrameKinds /\ (Kept' => Kept)
      BY <1>3 DEF FrameKinds, Kept, OutUp
    <2> QED BY <1>0, <2>1, <2>2, <2>3, <2>4, <2>5, <2>6, <2>7, FrameMove
  <1>12. Filled'
    BY <1>0, <1>3, <1>4, <1>5, <1>6, <1>7 DEF Filled
  <1>13. Flags' /\ Signals'
    <2>1. Flags'
      BY <1>0 DEF Flags, OutRelease
    <2>2. Signals'
      BY <1>0 DEF Signals, OutRelease
    <2> QED BY <2>1, <2>2
  <1>14. Data'
    BY <1>0, <1>3, <1>4, <1>5, <1>6 DEF Data
  <1>15. LifeOK' /\ NotifiedAlive'
    BY <1>0, <1>3 DEF LifeOK, OutUp, InUp, ConsumerUp, NotifiedAlive
  <1> QED BY <1>9, <1>11, <1>12, <1>13, <1>14, <1>15, Next1

LEMMA InTakeIInv == ASSUME IInv, InTake PROVE IInv'
  <1> USE DEF life, producer, elements, outTask, consumer, clocks
  <1>0. /\ Flags /\ Signals /\ Data
        /\ LifeOK /\ NotifiedAlive /\ ElemsOK /\ FrameOnce /\ Filled
    BY Now
  <1>1. PICK e : e = Head(listOut)
    OBVIOUS
  <1>2. PICK f : f = frameOf[e]
    OBVIOUS
  <1>3. /\ listOut # << >> /\ listOut' = Tail(listOut) /\ in = "process" /\ numFrames' = TRUE
        /\ orgElem' = [orgElem EXCEPT ![f] = e] /\ outFrameQue' = Append(outFrameQue, f)
        /\ UNCHANGED <<createArgs, stage, free, inQue, todo, listIn, out, freeList, in, elemQue, frameOf,
                       held, told, owes, eventOut, eventIn, asserted>>
    BY <1>1, <1>2 DEF InTake, Remember
  <1>4. /\ listOut' \in Seq(Elems) /\ ToSet(listOut) = ToSet(listOut') \cup {e} /\ e \in ToSet(listOut)
        /\ IsInjective(listOut') /\ e \notin ToSet(listOut') /\ e \in Elems
    BY <1>0, <1>1, <1>3, Get DEF Data, ElemsOK
  <1>5. f \in Frames /\ f \notin WithIn
    BY <1>2, <1>4, OnePlaceOnly
  <1>6. /\ outFrameQue' \in Seq(Frames) /\ ToSet(outFrameQue') = ToSet(outFrameQue) \cup {f}
        /\ IsInjective(outFrameQue')
    BY <1>0, <1>3, <1>5, Put DEF Data, FrameOnce, WithIn
  <1>7. /\ orgElem' \in [Frames -> Elems \cup {NoElem}] /\ orgElem'[f] = e
        /\ \A x \in Frames : x # f => orgElem'[x] = orgElem[x]
    BY <1>0, <1>3, <1>4, <1>5 DEF Data
  <1>8. WithIn \subseteq Frames /\ WithIn' = WithIn \cup {f}
    BY <1>0, <1>3, <1>6, Members DEF Data, WithIn
  <1>9. OwnElem'
    <2>1. ASSUME NEW x \in WithIn PROVE orgElem'[x] \in Elems /\ frameOf[orgElem'[x]] = x
      BY <1>5, <1>7, <1>8, OnePlaceOnly
    <2> QED BY <1>2, <1>3, <1>4, <1>7, <1>8, <2>1 DEF OwnElem
  <1>10. ElemsOK'
    <2>1. {orgElem'[x] : x \in WithIn \cup {f}} = {orgElem[x] : x \in WithIn} \cup {e}
      BY <1>5, <1>7, <1>8
    <2>2. /\ ElemsIn'["listOut"] = ElemsIn["listOut"] \ {e}
          /\ ElemsIn'["orgElem"] = ElemsIn["orgElem"] \cup {e}
          /\ ElemsIn'["listIn"] = ElemsIn["listIn"]
          /\ ElemsIn'["elemQue"] = ElemsIn["elemQue"]
      <3>1. ElemsIn'["orgElem"] = {orgElem'[x] : x \in WithIn \cup {f}}
        BY <1>8, ElemSetsNext
      <3>2. ElemsIn["orgElem"] = {orgElem[x] : x \in WithIn}
        BY ElemSets
      <3>3. ElemsIn'["listOut"] = ElemsIn["listOut"] \ {e}
        BY <1>4, ElemSets, ElemSetsNext
      <3> QED BY <1>3, <2>1, <3>1, <3>2, <3>3, ElemSets, ElemSetsNext
    <2>3. e \in ElemsIn["listOut"] /\ "listOut" \in ElemKinds /\ "orgElem" \in ElemKinds
      BY <1>4, ElemSets DEF ElemKinds
    <2>4. IsInjective(listIn') /\ (Kept' => Kept)
      BY <1>0, <1>3 DEF ElemsOK, Kept, OutUp
    <2> QED BY <1>0, <1>3, <1>4, <1>9, <2>2, <2>3, <2>4, ElemMove DEF ElemKinds
  <1>11. \A x, y \in ToSet(listOut) : frameOf[x] = frameOf[y] => x = y
    BY <1>0 DEF FrameOnce
  <1>12. FrameOnce'
    <2>1. FramesIn'["listOut"] = FramesIn["listOut"] \ {f} /\ f \in FramesIn["listOut"]
      <3>1. {frameOf'[x] : x \in ToSet(listOut')} = {frameOf[x] : x \in ToSet(listOut)} \ {f}
        BY <1>2, <1>3, <1>4, <1>11
      <3>2. f \in {frameOf[x] : x \in ToSet(listOut)}
        BY <1>2, <1>4
      <3> QED BY <3>1, <3>2, FrameSets, FrameSetsNext DEF FramesOf
    <2>2. FramesIn'["outFrameQue"] = FramesIn["outFrameQue"] \cup {f}
      BY <1>6, FrameSets, FrameSetsNext
    <2>3. \A k \in FrameKinds : k = "listOut" \/ k = "outFrameQue" \/ FramesIn'[k] = FramesIn[k]
      BY <1>3, Unmoved DEF FrameKinds
    <2>4. /\ \A e1, e2 \in ToSet(listOut') : frameOf'[e1] = frameOf'[e2] => e1 = e2
          /\ \A e1, e2 \in ToSet(listIn') : frameOf'[e1] = frameOf'[e2] => e1 = e2
      BY <1>0, <1>3, <1>4, <1>11 DEF FrameOnce
    <2>5. IsInjective(inQue') /\ IsInjective(todo') /\ IsInjective(outFrameQue')
      BY <1>0, <1>3, <1>6 DEF FrameOnce
    <2>6. "listOut" \in FrameKinds /\ "outFrameQue" \in FrameKinds /\ (Kept' => Kept)
      BY <1>3 DEF FrameKinds, Kept, OutUp
    <2> QED BY <1>0, <2>1, <2>2, <2>3, <2>4, <2>5, <2>6, FrameMove
  <1>13. Filled'
    BY <1>0, <1>3, <1>4 DEF Filled
  <1>14. Flags' /\ Signals'
    <2>1. Flags'
      BY <1>0 DEF Flags, InTake
    <2>2. Signals'
      BY <1>0 DEF Signals, InTake
    <2> QED BY <2>1, <2>2
  <1>15. Data'
    BY <1>0, <1>3, <1>4, <1>6, <1>7 DEF Data
  <1>16. LifeOK' /\ NotifiedAlive'
    BY <1>0, <1>3 DEF LifeOK, OutUp, InUp, ConsumerUp, NotifiedAlive
  <1> QED BY <1>10, <1>12, <1>13, <1>14, <1>15, <1>16, Next1

LEMMA PutEmptyFrameIInv == ASSUME IInv, NEW f \in Frames, PutEmptyFrame(f) PROVE IInv'
  <1> USE DEF life, producer, elements, outTask, clocks
  <1>0. /\ Flags /\ Signals /\ Data /\ createArgs.notifyPrevLink \in BOOLEAN
        /\ LifeOK /\ NotifiedAlive /\ ElemsOK /\ FrameOnce /\ Filled
    BY Now, Parts, Args
  <1>1. PICK e : e = orgElem[f]
    OBVIOUS
  <1>2. /\ f \in held /\ held' = held \ {f} /\ listIn' = Append(listIn, e)
        /\ orgElem' = orgElem /\ owes' = createArgs.notifyPrevLink /\ ConsumerUp
        /\ UNCHANGED <<createArgs, stage, free, inQue, todo, listOut, out, freeList, in, elemQue, frameOf,
                       outFrameQue, told, eventOut, eventIn, asserted>>
    BY <1>1 DEF PutEmptyFrame, inTask
  <1>3. /\ f \in WithIn /\ f \notin ToSet(outFrameQue)
        /\ e \in Elems /\ frameOf[e] = f /\ e \notin ToSet(listIn) /\ e \notin ToSet(listOut)
    BY <1>1, <1>2, OnePlaceOnly DEF WithIn
  <1>4. /\ listIn' \in Seq(Elems) /\ ToSet(listIn') = ToSet(listIn) \cup {e} /\ IsInjective(listIn')
    BY <1>0, <1>2, <1>3, Put DEF Data, ElemsOK
  <1>5. WithIn \subseteq Frames /\ WithIn' = WithIn \ {f}
    BY <1>0, <1>2, <1>3, Members DEF Data, WithIn
  <1>6. /\ orgElem' \in [Frames -> Elems \cup {NoElem}]
        /\ \A x \in Frames : x # f => orgElem'[x] = orgElem[x]
    BY <1>0, <1>2, <1>3 DEF Data
  <1>7. \A x \in WithIn : orgElem[x] \in Elems /\ frameOf[orgElem[x]] = x
    BY OnePlaceOnly
  <1>8. OwnElem'
    BY <1>2, <1>5, <1>6, <1>7 DEF OwnElem
  <1>9. ElemsOK'
    <2>1. {orgElem'[x] : x \in WithIn \ {f}} = {orgElem[x] : x \in WithIn} \ {e}
      BY <1>1, <1>3, <1>5, <1>6, <1>7
    <2>2. e \in {orgElem[x] : x \in WithIn}
      BY <1>1, <1>3
    <2>3. ElemsIn'["orgElem"] = ElemsIn["orgElem"] \ {e} /\ e \in ElemsIn["orgElem"]
      <3>1. ElemsIn'["orgElem"] = {orgElem'[x] : x \in WithIn \ {f}}
        BY <1>5, ElemSetsNext
      <3>2. ElemsIn["orgElem"] = {orgElem[x] : x \in WithIn}
        BY ElemSets
      <3> QED BY <2>1, <2>2, <3>1, <3>2
    <2>4. /\ ElemsIn'["listIn"] = ElemsIn["listIn"] \cup {e}
          /\ ElemsIn'["listOut"] = ElemsIn["listOut"]
          /\ ElemsIn'["elemQue"] = ElemsIn["elemQue"]
      BY <1>2, <1>4, ElemSets, ElemSetsNext
    <2>5. /\ "listIn" \in ElemKinds /\ "orgElem" \in ElemKinds
          /\ IsInjective(listOut') /\ (Kept' => Kept)
      BY <1>0, <1>2 DEF ElemsOK, Kept, OutUp, ElemKinds
    <2> QED BY <1>0, <1>2, <1>4, <1>8, <2>3, <2>4, <2>5, ElemMove DEF ElemKinds
  <1>10. FrameOnce'
    <2>1. FramesIn'["listIn"] = FramesIn["listIn"] \cup {f}
      <3>1. {frameOf'[x] : x \in ToSet(listIn')} = {frameOf[x] : x \in ToSet(listIn)} \cup {f}
        BY <1>2, <1>3, <1>4
      <3> QED BY <3>1, FrameSets, FrameSetsNext DEF FramesOf
    <2>2. FramesIn'["held"] = FramesIn["held"] \ {f} /\ f \in FramesIn["held"]
      BY <1>2, FrameSets, FrameSetsNext
    <2>3. \A k \in FrameKinds : k = "held" \/ k = "listIn" \/ FramesIn'[k] = FramesIn[k]
      BY <1>2, Unmoved DEF FrameKinds
    <2>4. \A e1, e2 \in ToSet(listIn') : frameOf'[e1] = frameOf'[e2] => e1 = e2
      <3>1. \A x \in ToSet(listIn) : frameOf[x] # f
        BY <1>3, OnePlaceOnly
      <3>2. \A x, y \in ToSet(listIn) : frameOf[x] = frameOf[y] => x = y
        BY <1>0 DEF FrameOnce
      <3> QED BY <1>2, <1>3, <1>4, <3>1, <3>2
    <2>5. \A e1, e2 \in ToSet(listOut') : frameOf'[e1] = frameOf'[e2] => e1 = e2
      BY <1>0, <1>2 DEF FrameOnce
    <2>6. IsInjective(inQue') /\ IsInjective(todo') /\ IsInjective(outFrameQue')
      BY <1>0, <1>2 DEF FrameOnce
    <2>7. "held" \in FrameKinds /\ "listIn" \in FrameKinds /\ (Kept' => Kept)
      BY <1>2 DEF FrameKinds, Kept, OutUp
    <2> QED BY <1>0, <2>1, <2>2, <2>3, <2>4, <2>5, <2>6, <2>7, FrameMove
  <1>11. Filled'
    BY <1>0, <1>2, <1>3, <1>4 DEF Filled
  <1>12. Flags' /\ Signals'
    <2>1. Flags'
      BY <1>0, <1>2 DEF Flags, PutEmptyFrame, inTask
    <2>2. Signals'
      BY <1>0 DEF Signals, PutEmptyFrame
    <2> QED BY <2>1, <2>2
  <1>13. Data'
    BY <1>0, <1>2, <1>4, <1>6 DEF Data
  <1>14. LifeOK' /\ NotifiedAlive'
    <2>1. stage \in {"run", "stopped"}
      BY <1>2 DEF ConsumerUp
    <2> QED BY <1>0, <1>2, <2>1 DEF LifeOK, OutUp, InUp, ConsumerUp, NotifiedAlive
  <1> QED BY <1>9, <1>10, <1>11, <1>12, <1>13, <1>14, Next1

LEMMA GetFullFramesIInv == ASSUME IInv, GetFullFrames PROVE IInv'
  <1> USE DEF life, producer, elements, outTask, clocks
  <1>0. /\ Flags /\ Signals /\ Data
        /\ LifeOK /\ NotifiedAlive /\ ElemsOK /\ FrameOnce /\ Filled
    BY Now
  <1>1. /\ told /\ told' = FALSE /\ held' = held \cup ToSet(outFrameQue) /\ outFrameQue' = << >>
        /\ UNCHANGED <<createArgs, stage, free, inQue, todo, listOut, listIn, out, freeList, in, elemQue,
                       frameOf, orgElem, owes, eventOut, eventIn, asserted>>
    BY DEF GetFullFrames
  <1>2. /\ ToSet(outFrameQue) \subseteq Frames /\ outFrameQue' \in Seq(Frames)
        /\ ToSet(outFrameQue') = {} /\ IsInjective(outFrameQue')
    BY <1>0, <1>1, Members, Empty DEF Data
  <1>3. WithIn' = WithIn
    BY <1>1, <1>2 DEF WithIn
  <1>4. ElemsOK'
    <2>1. ElemsIn' = ElemsIn
      BY <1>1, <1>3 DEF ElemsIn
    <2> QED BY <1>0, <1>1, <1>3, <2>1 DEF ElemsOK, OwnElem, Kept, OutUp
  <1>5. FrameOnce'
    <2>1. /\ FramesIn'["outFrameQue"] = {}
          /\ FramesIn'["held"] = FramesIn["held"] \cup FramesIn["outFrameQue"]
      BY <1>1, <1>2, FrameSets, FrameSetsNext
    <2>2. \A k \in FrameKinds : k = "outFrameQue" \/ k = "held" \/ FramesIn'[k] = FramesIn[k]
      BY <1>1, Unmoved DEF FrameKinds
    <2>3. /\ \A e1, e2 \in ToSet(listOut') : frameOf'[e1] = frameOf'[e2] => e1 = e2
          /\ \A e1, e2 \in ToSet(listIn') : frameOf'[e1] = frameOf'[e2] => e1 = e2
      BY <1>0, <1>1 DEF FrameOnce
    <2>4. IsInjective(inQue') /\ IsInjective(todo') /\ IsInjective(outFrameQue')
      BY <1>0, <1>1, <1>2 DEF FrameOnce
    <2>5. "held" \in FrameKinds /\ "outFrameQue" \in FrameKinds /\ (Kept' => Kept)
      BY <1>1 DEF FrameKinds, Kept, OutUp
    <2> QED BY <1>0, <2>1, <2>2, <2>3, <2>4, <2>5, FrameMove
  <1>6. Filled'
    BY <1>0, <1>1 DEF Filled
  <1>7. Flags' /\ Signals'
    <2>1. Flags'
      BY <1>0, <1>1 DEF Flags, GetFullFrames
    <2>2. Signals'
      BY <1>0 DEF Signals, GetFullFrames
    <2> QED BY <2>1, <2>2
  <1>8. Data'
    BY <1>0, <1>1, <1>2 DEF Data
  <1>9. LifeOK' /\ NotifiedAlive'
    BY <1>0, <1>1 DEF LifeOK, OutUp, InUp, ConsumerUp, NotifiedAlive
  <1> QED BY <1>4, <1>5, <1>6, <1>7, <1>8, <1>9, Next1

(***************************************************************************)
(* The steps that take the links down and create Out again.                 *)
(***************************************************************************)
LEMMA DeleteOutIInv == ASSUME IInv, DeleteOut PROVE IInv'
  <1> USE DEF producer, outTask, inTask, consumer
  <1>0. /\ Flags /\ Signals /\ Data
        /\ LifeOK /\ NotifiedAlive /\ ElemsOK /\ FrameOnce /\ Filled
    BY Now
  <1>1. /\ \/ stage = "noConsumer" /\ ~createArgs.inFirst /\ stage' = "noOut"
           \/ stage = "noIn" /\ stage' = "none"
        /\ out = "idle" /\ ~eventOut /\ elemQue' = {}
        /\ UNCHANGED <<createArgs, frameOf, listOut, listIn, out, freeList, todo, in, free, inQue,
                       outFrameQue, orgElem, held, told, owes, eventOut, eventIn, asserted>>
    BY DEF DeleteOut
  <1>2. ~Kept' /\ ~OutUp' /\ ~ConsumerUp /\ ~ConsumerUp' /\ (InUp' <=> InUp) /\ WithIn' = WithIn
    BY <1>1 DEF Kept, OutUp, InUp, ConsumerUp, WithIn
  <1>3. ElemsOK'
    <2>1. \A k \in DOMAIN ElemsIn : ElemsIn'[k] \subseteq ElemsIn[k]
      BY <1>1, <1>2, ElemSets, ElemSetsNext
    <2>2. DOMAIN ElemsIn' = DOMAIN ElemsIn
      BY ElemSets, ElemSetsNext
    <2>3. Apart(ElemsIn') /\ Everywhere(ElemsIn') \subseteq Everywhere(ElemsIn)
      BY <1>0, <2>1, <2>2, Shrink DEF ElemsOK
    <2> QED BY <1>0, <1>1, <1>2, <2>3 DEF ElemsOK, OwnElem
  <1>4. FrameOnce' /\ Filled'
    BY <1>0, <1>1, <1>2, FramesStay DEF FrameVars
  <1>5. Flags'
    BY <1>0 DEF Flags, DeleteOut
  <1>6. Signals'
    BY <1>0 DEF Signals, DeleteOut
  <1>7. Data'
    BY <1>0, <1>1 DEF Data
  <1>8. LifeOK' /\ NotifiedAlive'
    BY <1>0, <1>1, <1>2 DEF LifeOK, NotifiedAlive
  <1> QED BY <1>3, <1>4, <1>5, <1>6, <1>7, <1>8, Next1

LEMMA DeleteInIInv == ASSUME IInv, DeleteIn PROVE IInv'
  <1> USE DEF producer, elements, outTask, consumer
  <1>0. /\ Flags /\ Signals /\ Data
        /\ LifeOK /\ NotifiedAlive /\ ElemsOK /\ FrameOnce /\ Filled
    BY Now
  <1>1. /\ \/ stage = "noConsumer" /\ createArgs.inFirst /\ stage' = "noIn"
           \/ stage = "noOut" /\ stage' = "none"
        /\ in = "idle" /\ ~eventIn /\ outFrameQue' = << >>
        /\ UNCHANGED <<createArgs, frameOf, listOut, listIn, out, freeList, todo, in, free, inQue, orgElem,
                       elemQue, held, told, owes, eventOut, eventIn, asserted>>
    BY DEF DeleteIn
  <1>2. ~Kept' /\ ~InUp' /\ ~ConsumerUp /\ ~ConsumerUp' /\ (OutUp' <=> OutUp)
    BY <1>1 DEF Kept, OutUp, InUp, ConsumerUp
  <1>3. /\ outFrameQue' \in Seq(Frames) /\ ToSet(outFrameQue') = {} /\ IsInjective(outFrameQue')
    BY <1>1, Empty
  <1>4. WithIn' \subseteq WithIn
    BY <1>1, <1>3 DEF WithIn
  <1>5. ElemsOK'
    <2>1. \A k \in DOMAIN ElemsIn : ElemsIn'[k] \subseteq ElemsIn[k]
      BY <1>1, <1>4, ElemSets, ElemSetsNext
    <2>2. DOMAIN ElemsIn' = DOMAIN ElemsIn
      BY ElemSets, ElemSetsNext
    <2>3. Apart(ElemsIn') /\ Everywhere(ElemsIn') \subseteq Everywhere(ElemsIn)
      BY <1>0, <2>1, <2>2, Shrink DEF ElemsOK
    <2> QED BY <1>0, <1>1, <1>2, <1>4, <2>3 DEF ElemsOK, OwnElem
  <1>6. FrameOnce'
    <2>1. \A k \in DOMAIN FramesIn : FramesIn'[k] \subseteq FramesIn[k]
      <3>1. FramesIn'["outFrameQue"] = {}
        BY <1>3, FrameSetsNext
      <3>2. \A k \in FrameKinds : k = "outFrameQue" \/ FramesIn'[k] = FramesIn[k]
        BY <1>1, Unmoved DEF FrameKinds
      <3> QED BY <3>1, <3>2, FrameSets DEF FrameKinds
    <2>2. DOMAIN FramesIn' = DOMAIN FramesIn
      BY FrameSets, FrameSetsNext
    <2>3. Apart(FramesIn')
      BY <1>0, <2>1, <2>2, Shrink DEF FrameOnce
    <2> QED BY <1>0, <1>1, <1>2, <1>3, <2>3 DEF FrameOnce
  <1>7. Filled'
    BY <1>0, <1>1 DEF Filled
  <1>8. Flags'
    BY <1>0 DEF Flags, DeleteIn
  <1>9. Signals'
    BY <1>0 DEF Signals, DeleteIn
  <1>10. Data'
    BY <1>0, <1>1, <1>3 DEF Data
  <1>11. LifeOK' /\ NotifiedAlive'
    <2>1. out = "process" => InUp \/ stage = "noIn"
      BY <1>0 DEF LifeOK
    <2> QED BY <1>0, <1>1, <1>2, <2>1 DEF LifeOK, NotifiedAlive, InUp, OutUp
  <1> QED BY <1>5, <1>6, <1>7, <1>8, <1>9, <1>10, <1>11, Next1

LEMMA CreateOutIInv == ASSUME IInv, CreateOut PROVE IInv'
  <1> USE DEF outTask, inTask, consumer, clocks
  <1>0. /\ Flags /\ Signals /\ Data /\ createArgs.elems \subseteq Elems
        /\ LifeOK /\ NotifiedAlive /\ ElemsOK /\ FrameOnce /\ Filled
    BY Now
  <1>1. /\ stage = "none" /\ stage' = "outOnly" /\ free' = Frames /\ inQue' = << >> /\ held' = {}
        /\ listOut' = << >> /\ listIn' = << >>
        /\ elemQue' = createArgs.elems /\ frameOf' = [e \in Elems |-> NoFrame]
        /\ UNCHANGED <<createArgs, out, freeList, todo, in, outFrameQue, orgElem, told, owes,
                       eventOut, eventIn, asserted>>
    BY DEF CreateOut, ResetLists
  <1>2. /\ OutUp' /\ ~InUp' /\ ~ConsumerUp' /\ ~told /\ ~owes /\ out = "idle" /\ in = "idle"
        /\ todo = << >> /\ freeList = {} /\ outFrameQue = << >> /\ ~eventOut
        /\ eventIn => createArgs.inFirst
    BY <1>0, <1>1 DEF LifeOK, OutUp, InUp, ConsumerUp
  <1>3. /\ << >> \in Seq(Frames) /\ << >> \in Seq(Elems) /\ ToSet(<< >>) = {} /\ IsInjective(<< >>)
    BY Empty
  <1>4. WithIn' = {}
    BY <1>1, <1>2, <1>3 DEF WithIn
  <1>5. ElemsOK'
    <2>1. ElemsIn'["elemQue"] = createArgs'.elems /\ DOMAIN ElemsIn' = ElemKinds
      BY <1>1, ElemSetsNext DEF ElemKinds
    <2>2. \A k \in ElemKinds : k # "elemQue" => ElemsIn'[k] = {}
      BY <1>1, <1>3, <1>4, ElemSetsNext DEF ElemKinds
    <2>3. Apart(ElemsIn') /\ Everywhere(ElemsIn') = createArgs'.elems
      BY <2>1, <2>2 DEF Apart, Everywhere, Range, ElemKinds
    <2> QED BY <1>1, <1>3, <1>4, <2>3 DEF ElemsOK, OwnElem
  <1>6. FrameOnce'
    <2>1. FramesIn'["free"] = Frames /\ DOMAIN FramesIn' = FrameKinds
      BY <1>1, FrameSetsNext DEF FrameKinds
    <2>2. \A k \in FrameKinds : k # "free" => FramesIn'[k] = {}
      <3>1. {frameOf'[e] : e \in ToSet(listOut')} = {} /\ {frameOf'[e] : e \in ToSet(listIn')} = {}
        BY <1>1, <1>3
      <3> QED BY <1>1, <1>2, <1>3, <3>1, FrameSetsNext DEF FrameKinds
    <2>3. Apart(FramesIn') /\ Everywhere(FramesIn') = Frames
      BY <2>1, <2>2 DEF Apart, Everywhere, Range, FrameKinds
    <2> QED BY <1>1, <1>2, <1>3, <2>3 DEF FrameOnce
  <1>7. Filled'
    BY <1>1, <1>3 DEF Filled
  <1>8. Flags'
    BY <1>0 DEF Flags, CreateOut
  <1>9. Signals'
    BY <1>0 DEF Signals, CreateOut
  <1>10. Data'
    BY <1>0, <1>1, <1>3 DEF Data
  <1>11. LifeOK' /\ NotifiedAlive'
    BY <1>0, <1>1, <1>2 DEF LifeOK, NotifiedAlive
  <1> QED BY <1>5, <1>6, <1>7, <1>8, <1>9, <1>10, <1>11, Next1

(***************************************************************************)
(* The invariant, and what the run checks.                                  *)
(***************************************************************************)
LEMMA NextIInv == IInv /\ [Next]_vars => IInv'
  <1> SUFFICES ASSUME IInv, [Next]_vars PROVE IInv'
    OBVIOUS
  <1>1. ASSUME NEW f \in Frames, Produce(f) PROVE IInv'
    BY <1>1, ProduceIInv
  <1>2. ASSUME NEW cmd \in {"newData", "release"}, OutReceive(cmd) PROVE IInv'
    BY <1>2, OutReceiveIInv
  <1>3. CASE Out
    BY <1>3, OutSendIInv, OutSkipIInv, OutEndIInv, OutReleaseIInv DEF Out
  <1>4. CASE OutNotified \/ OutTimer \/ InNotified \/ InTimer
    BY <1>4, SignalIInv
  <1>5. CASE In
    BY <1>5, TellIInv, InTakeIInv DEF In
  <1>6. CASE Consumer
    BY <1>6, GetFullFramesIInv, TellIInv, PutEmptyFrameIInv DEF Consumer
  <1>7. CASE Life
    BY <1>7, LifeIInv, DeleteOutIInv, DeleteInIInv, CreateOutIInv DEF Life
  <1>8. CASE UNCHANGED vars
    <2>1. UNCHANGED ElemVars /\ UNCHANGED FrameVars /\ (Kept' => Kept)
      BY <1>8 DEF vars, life, producer, elements, outTask, inTask, consumer, ElemVars, FrameVars,
         Kept, OutUp
    <2>2. LifeOK' /\ NotifiedAlive'
      BY <1>8, Now DEF vars, life, producer, outTask, inTask, consumer, LifeOK, OutUp, InUp, ConsumerUp,
         NotifiedAlive
    <2>3. Flags'
      BY <1>8, Now DEF vars, inTask, consumer, clocks, Flags
    <2>4. Signals'
      BY <1>8, Now DEF vars, life, clocks, Signals
    <2>5. Data'
      BY <1>8, Now DEF vars, life, producer, elements, outTask, inTask, consumer, Data
    <2> QED BY <2>1, <2>2, <2>3, <2>4, <2>5, TypesNext, Quiet
  <1> QED BY <1>1, <1>2, <1>3, <1>4, <1>5, <1>6, <1>7, <1>8 DEF Next

THEOREM Invariant == Spec => []IInv
  BY InitIInv, NextIInv, PTL DEF Spec

(* Elements of the lists are never lost, never in two places, and each      *)
(* comes back with the frame that was sent in it; for any number of frames  *)
(* and elements, through loss of commands, stop, deletion and creation.     *)
THEOREM ElemOnceAlways == Spec => []ElemOnce
  <1>1. IInv => ElemOnce
    BY DEF IInv
  <1> QED BY <1>1, Invariant, PTL

(* No frame is lost or in two places.                                       *)
THEOREM FrameOnceAlways == Spec => []FrameOnce
  <1>1. IInv => FrameOnce
    BY DEF IInv
  <1> QED BY <1>1, Invariant, PTL

(* Whichever link is deleted first, no notify reaches Out while it is not   *)
(* there, and none reaches In unless the use case deletes In first.         *)
THEOREM NotifiedAliveAlways == Spec => []NotifiedAlive
  <1>1. IInv => NotifiedAlive
    BY DEF IInv
  <1> QED BY <1>1, Invariant, PTL
=============================================================================
