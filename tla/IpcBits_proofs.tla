-------------------------- MODULE IpcBits_proofs --------------------------
(* Proofs about IpcBits for any buffers, elements and configurations.        *)
EXTENDS IpcBits, SequenceTheorems, FiniteSetTheorems, TLAPS

(***************************************************************************)
(* How often a queue holds something.                                       *)
(***************************************************************************)
At(x, s) == {i \in 1 .. Len(s) : s[i] = x}

LEMMA TimesAt ==
  ASSUME NEW S, NEW s \in Seq(S), NEW x
  PROVE  /\ Times(x, s) = Cardinality(At(x, s)) /\ IsFiniteSet(At(x, s)) /\ Times(x, s) \in Nat
         /\ Times(x, s) = 0 <=> \A i \in 1 .. Len(s) : s[i] # x
         /\ x \in ToSet(s) <=> Times(x, s) # 0
  <1>1. DOMAIN s = 1 .. Len(s) /\ Len(s) \in Nat
    BY LenProperties
  <1>2. IsFiniteSet(1 .. Len(s)) /\ At(x, s) \in SUBSET (1 .. Len(s))
    BY <1>1, FS_Interval DEF At
  <1>3. IsFiniteSet(At(x, s)) /\ Cardinality(At(x, s)) \in Nat
    BY <1>2, FS_Subset, FS_CardinalityType
  <1>4. Times(x, s) = Cardinality(At(x, s))
    BY <1>1 DEF Times, At
  <1>5. Cardinality(At(x, s)) = 0 <=> At(x, s) = {}
    BY <1>3, FS_EmptySet
  <1>6. x \in ToSet(s) <=> At(x, s) # {}
    BY <1>1 DEF ToSet, At
  <1>7. At(x, s) = {} <=> \A i \in 1 .. Len(s) : s[i] # x
    BY DEF At
  <1> QED BY <1>3, <1>4, <1>5, <1>6, <1>7

LEMMA TimesNone ==
  /\ \A x : Times(x, << >>) = 0
  /\ \A S : << >> \in Seq(S)
  <1>1. << >> \in Seq({}) /\ Len(<< >>) = 0
    OBVIOUS
  <1>2. ASSUME NEW x PROVE Times(x, << >>) = 0
    <2>1. /\ Times(x, << >>) = Cardinality(At(x, << >>))
      BY <1>1, TimesAt
    <2>2. At(x, << >>) = {}
      BY <1>1 DEF At
    <2> QED BY <2>1, <2>2, FS_EmptySet
  <1> QED BY <1>2

(* The places of a concatenation are those of the first sequence and, moved, *)
(* those of the second.                                                      *)
LEMMA Moved ==
  ASSUME NEW T \in SUBSET Nat, IsFiniteSet(T), NEW n \in Nat
  PROVE  IsFiniteSet({i + n : i \in T}) /\ Cardinality({i + n : i \in T}) = Cardinality(T)
  <1> DEFINE U == {i + n : i \in T}
             f == [i \in T |-> i + n]
  <1>1. f \in Bijection(T, U)
    BY DEF Bijection, Injection, Surjection, IsInjective
  <1>2. ExistsBijection(T, U)
    BY <1>1 DEF ExistsBijection
  <1>3. IsFiniteSet(U) /\ Cardinality(U) = Cardinality(T)
    <2> HIDE DEF U
    <2> QED BY <1>2, FS_Bijection
  <1> QED BY <1>3

LEMMA TimesJoin ==
  ASSUME NEW S, NEW p \in Seq(S), NEW q \in Seq(S), NEW x
  PROVE  p \o q \in Seq(S) /\ Times(x, p \o q) = Times(x, p) + Times(x, q)
  <1> DEFINE n == Len(p)
             U == {i + n : i \in At(x, q)}
  <1>1. /\ p \o q \in Seq(S) /\ Len(p \o q) = n + Len(q) /\ n \in Nat /\ Len(q) \in Nat
        /\ \A i \in 1 .. n + Len(q) : (p \o q)[i] = IF i <= n THEN p[i] ELSE q[i - n]
    BY ConcatProperties, LenProperties
  <1>2. /\ Times(x, p \o q) = Cardinality(At(x, p \o q))
        /\ Times(x, p) = Cardinality(At(x, p)) /\ IsFiniteSet(At(x, p)) /\ Times(x, p) \in Nat
        /\ Times(x, q) = Cardinality(At(x, q)) /\ IsFiniteSet(At(x, q)) /\ Times(x, q) \in Nat
    BY <1>1, TimesAt
  <1>3. At(x, q) \in SUBSET Nat
    BY <1>1 DEF At
  <1>4. IsFiniteSet(U) /\ Cardinality(U) = Cardinality(At(x, q))
    BY <1>1, <1>2, <1>3, Moved
  <1>5. At(x, p \o q) = At(x, p) \cup U
    <2>1. ASSUME NEW i \in At(x, p \o q) PROVE i \in At(x, p) \cup U
      <3>1. i \in 1 .. n + Len(q) /\ (p \o q)[i] = x
        BY <1>1 DEF At
      <3>2. CASE i <= n
        BY <1>1, <3>1, <3>2 DEF At
      <3>3. CASE ~(i <= n)
        <4>1. i - n \in 1 .. Len(q) /\ q[i - n] = x /\ i = (i - n) + n
          BY <1>1, <3>1, <3>3
        <4> QED BY <4>1 DEF At
      <3> QED BY <3>2, <3>3
    <2>2. ASSUME NEW i \in At(x, p) PROVE i \in At(x, p \o q)
      BY <1>1 DEF At
    <2>3. ASSUME NEW j \in At(x, q) PROVE j + n \in At(x, p \o q)
      <3>1. j \in 1 .. Len(q) /\ q[j] = x
        BY DEF At
      <3>2. j + n \in 1 .. n + Len(q) /\ ~(j + n <= n) /\ (j + n) - n = j
        BY <1>1, <3>1
      <3> QED BY <1>1, <3>1, <3>2 DEF At
    <2> QED BY <2>1, <2>2, <2>3
  <1>6. At(x, p) \cap U = {}
    BY <1>1 DEF At
  <1>7. Cardinality(At(x, p) \cup U) = Cardinality(At(x, p)) + Cardinality(U)
    <2>1. Cardinality(At(x, p) \cap U) = 0
      BY <1>6, FS_EmptySet
    <2> HIDE DEF U
    <2>2. Cardinality(At(x, p) \cup U) = Cardinality(At(x, p)) + Cardinality(U) - 0
      BY <1>2, <1>4, <2>1, FS_Union
    <2> QED BY <1>2, <1>4, <2>2
  <1> QED BY <1>1, <1>2, <1>4, <1>5, <1>7

Here(x, y) == IF x = y THEN 1 ELSE 0

LEMMA TimesPut ==
  ASSUME NEW S, NEW s \in Seq(S), NEW y \in S
  PROVE  /\ Append(s, y) \in Seq(S)
         /\ \A x : Times(x, Append(s, y)) = Times(x, s) + Here(x, y)
  <1>1. Append(s, y) = s \o <<y>> /\ Append(s, y) \in Seq(S) /\ <<y>> \in Seq(S)
    BY AppendIsConcat, AppendProperties
  <1>2. ASSUME NEW x PROVE Times(x, <<y>>) = Here(x, y)
    <2>1. At(x, <<y>>) = IF x = y THEN {1} ELSE {}
      BY DEF At
    <2>2. Cardinality({1}) = 1 /\ Cardinality({}) = 0
      BY FS_Singleton, FS_EmptySet
    <2>3. Times(x, <<y>>) = Cardinality(At(x, <<y>>))
      BY <1>1, TimesAt
    <2> QED BY <2>1, <2>2, <2>3 DEF Here
  <1>3. ASSUME NEW x PROVE Times(x, Append(s, y)) = Times(x, s) + Here(x, y)
    <2>1. PICK u : u = <<y>>
      OBVIOUS
    <2>2. u \in Seq(S)
      BY <1>1, <2>1
    <2>3. Times(x, s \o u) = Times(x, s) + Times(x, u)
      BY <2>2, TimesJoin
    <2> QED BY <1>1, <1>2, <2>1, <2>3
  <1> QED BY <1>1, <1>3

LEMMA TimesGet ==
  ASSUME NEW S, NEW s \in Seq(S), s # << >>
  PROVE  /\ Head(s) \in S /\ Tail(s) \in Seq(S) /\ s = <<Head(s)>> \o Tail(s)
         /\ \A x : Times(x, s) = Here(x, Head(s)) + Times(x, Tail(s))
  <1>1. Head(s) \in S /\ Tail(s) \in Seq(S) /\ <<Head(s)>> \in Seq(S)
    BY HeadTailProperties
  <1>2. s = <<Head(s)>> \o Tail(s)
    <2>1. Len(s) \in Nat /\ Len(s) >= 1 /\ Len(Tail(s)) = Len(s) - 1 /\ Head(s) = s[1]
          /\ \A i \in 1 .. Len(Tail(s)) : Tail(s)[i] = s[i + 1]
      BY HeadTailProperties, LenProperties, EmptySeq
    <2>2. /\ <<Head(s)>> \o Tail(s) \in Seq(S) /\ Len(<<Head(s)>> \o Tail(s)) = Len(s)
          /\ \A i \in 1 .. Len(s) :
                (<<Head(s)>> \o Tail(s))[i] = IF i <= 1 THEN s[1] ELSE Tail(s)[i - 1]
      BY <1>1, <2>1, ConcatProperties
    <2>3. ASSUME NEW i \in 1 .. Len(s) PROVE (<<Head(s)>> \o Tail(s))[i] = s[i]
      <3>1. CASE i <= 1
        BY <2>1, <2>2, <3>1
      <3>2. CASE ~(i <= 1)
        <4>1. i - 1 \in 1 .. Len(Tail(s)) /\ (i - 1) + 1 = i
          BY <2>1, <3>2
        <4> QED BY <2>1, <2>2, <3>2, <4>1
      <3> QED BY <3>1, <3>2
    <2> QED BY <2>2, <2>3, SeqEqual
  <1>3. ASSUME NEW x PROVE Times(x, <<Head(s)>>) = Here(x, Head(s))
    <2>1. << >> \in Seq(S) /\ Times(x, << >>) = 0
      BY TimesNone
    <2>2. Append(<< >>, Head(s)) = <<Head(s)>>
      BY <1>1
    <2>3. Times(x, Append(<< >>, Head(s))) = Times(x, << >>) + Here(x, Head(s))
      BY <1>1, <2>1, TimesPut
    <2> QED BY <2>1, <2>2, <2>3 DEF Here
  <1>4. ASSUME NEW x PROVE Times(x, s) = Here(x, Head(s)) + Times(x, Tail(s))
    <2>1. Times(x, <<Head(s)>> \o Tail(s)) = Times(x, <<Head(s)>>) + Times(x, Tail(s))
      BY <1>1, TimesJoin
    <2> QED BY <1>2, <1>3, <2>1
  <1> QED BY <1>1, <1>2, <1>4

(* Init and CreateOut fill a queue with each member of a set once.          *)
LEMMA TimesAll ==
  ASSUME NEW S, IsFiniteSet(S)
  PROVE  /\ SetToSeq(S) \in Seq(S)
         /\ \A x : Times(x, SetToSeq(S)) = IF x \in S THEN 1 ELSE 0
  <1> DEFINE n == Cardinality(S)
             f == SetToSeq(S)
  <1>1. n \in Nat /\ ExistsBijection(1 .. n, S)
    BY FS_CardinalityType
  <1>2. \E g \in [1 .. n -> S] : IsInjective(g)
    BY <1>1 DEF ExistsBijection, Bijection, Injection
  <1>3. f \in [1 .. n -> S] /\ IsInjective(f)
    BY <1>2 DEF SetToSeq
  <1>4. f \in Seq(S) /\ Len(f) = n
    BY <1>1, <1>3
  <1>5. IsFiniteSet(1 .. n) /\ Cardinality(1 .. n) = n
    BY <1>1, FS_Interval
  <1>6. f \in Surjection(1 .. n, S)
    <2>1. f \in Injection(1 .. n, S)
      BY <1>3 DEF Injection
    <2> QED BY <1>5, <2>1, FS_Injection
  <1> HIDE DEF f
  <1>7. ASSUME NEW x PROVE Times(x, f) = IF x \in S THEN 1 ELSE 0
    <2>1. CASE x \in S
      <3>1. PICK i \in 1 .. n : f[i] = x
        BY <1>6, <2>1 DEF Surjection
      <3>2. At(x, f) = {i}
        BY <1>3, <1>4, <3>1 DEF At, IsInjective
      <3>3. Times(x, f) = Cardinality(At(x, f))
        BY <1>4, TimesAt
      <3> QED BY <2>1, <3>2, <3>3, FS_Singleton
    <2>2. CASE x \notin S
      BY <1>3, <1>4, <2>2, TimesAt
    <2> QED BY <2>1, <2>2
  <1> QED BY <1>4, <1>7 DEF f

(***************************************************************************)
(* The invariant, in parts.                                                 *)
(***************************************************************************)
Stages == {"run", "exit", "stopped", "noOut", "deleting", "none", "outOnly", "creating"}

(* The values of what is no queue.                                          *)
Control ==
    /\ config \in Configs /\ drops \in 0 .. config.maxDrops /\ stage \in Stages
    /\ out \in {"idle", "process", "release"}
    /\ cmdOut \subseteq {"newData", "release"} /\ clk \in {"off", "once", "periodic"}
    /\ in \in {"none", "idle", "process"} /\ sem \in 0 .. MaxSem
    /\ app \in {"wait", "get", "put", "notify", "loop", "done"}
    /\ clkStarted \in BOOLEAN /\ numBufs \in BOOLEAN /\ eventOut \in BOOLEAN /\ eventIn \in BOOLEAN

ElemType == [bufState : {"FREE", "OUTQUE", "DEQUEUED", "INQUE"},
             owner : {"Out", "In"}, buf : Bufs \cup {NoBuf}]

(* The values of the queues.                                                *)
Queues ==
    /\ free \in Seq(Bufs) /\ inQue \in Seq(Bufs) /\ todo \in Seq(Bufs) /\ freeList \in Seq(Bufs)
    /\ elemQue \in Seq(Elems) /\ listOut \in Seq(Elems) /\ listIn \in Seq(Elems)
    /\ outQue \in Seq(Elems) /\ held \in Seq(Elems)
    /\ elem \in [Elems -> ElemType]

(* A task has a list only at the place where it works on it; what the main  *)
(* thread has stopped or deleted has none.  A notify finds Out alive.       *)
Life ==
    /\ out # "idle" => OutUp
    /\ out # "process" => todo = << >>
    /\ out # "release" => freeList = << >>
    /\ stage \notin {"run", "exit"} => app = "done"
    /\ app # "put" => held = << >>
    /\ eventOut => OutUp
    /\ in = "none" <=> stage \in {"none", "outOnly", "creating"}
    /\ in = "none" => outQue = << >>
    /\ stage \in {"outOnly", "creating"} => listIn = << >>

(* In's mailbox.  The main thread waits for its one command; when the link  *)
(* is created again nothing is behind the command, as nobody polls.         *)
Mail ==
    /\ cmdIn \in Seq({"newData", "delete", "create"}) /\ numPendingCmd \in 0 .. MaxPending
    /\ noNotifyMode => ~eventIn
    /\ Times("delete", cmdIn) + Times("create", cmdIn) <= 1
    /\ Times("delete", cmdIn) # 0 => stage = "deleting"
    /\ Times("create", cmdIn) # 0 => stage = "creating"
    /\ noNotifyMode /\ stage = "creating" => cmdIn # << >> /\ Last(cmdIn) = "create"
    /\ noNotifyMode /\ in # "none" => numPendingCmd = Times("newData", cmdIn)

(* Each element is in one place, the one its state names.                   *)
Located(e) ==
    /\ Times(e, elemQue) + Times(e, listOut) + Times(e, outQue) + Times(e, held)
       + Times(e, listIn) = 1
    /\ elem[e].bufState = "FREE" => Times(e, elemQue) = 1 /\ elem[e] = FreeElem
    /\ elem[e].bufState # "FREE" => elem[e].buf # NoBuf
    /\ elem[e].bufState = "OUTQUE" => Times(e, listOut) = 1 /\ elem[e].owner = "Out"
    /\ elem[e].bufState = "INQUE" => Times(e, listIn) = 1 /\ elem[e].owner = "In"
    /\ elem[e].bufState = "DEQUEUED" =>
          Times(e, outQue) + Times(e, held) = 1 /\ elem[e].owner = "In"

(* Each of the encoder's buffers is in one queue or in one element, and no  *)
(* other is anywhere.                                                       *)
Carrying(b) == {e \in Elems : elem[e].buf = b}
Buffer(b) ==
    Times(b, free) + Times(b, inQue) + Times(b, todo) + Times(b, freeList)
    + Cardinality(Carrying(b)) = IF b \in config.bufs THEN 1 ELSE 0

BitsInv ==
    /\ Control /\ Queues /\ Life /\ Mail
    /\ OutUp => (\A e \in Elems : Located(e)) /\ (\A b \in Bufs : Buffer(b))

LEMMA HeadIsIn ==
  ASSUME NEW S, NEW s \in Seq(S), s # << >> PROVE Times(Head(s), s) # 0
  <1>1. Times(Head(s), s) = Here(Head(s), Head(s)) + Times(Head(s), Tail(s)) /\ Tail(s) \in Seq(S)
    BY TimesGet
  <1> QED BY <1>1, TimesAt DEF Here

(* The commands that the main thread sends to In come one at a time.        *)
LEMMA OneCommand ==
  ASSUME Mail, cmdIn # << >>
  PROVE  /\ Head(cmdIn) = "delete" => stage = "deleting"
         /\ Head(cmdIn) = "create" => stage = "creating"
  BY HeadIsIn DEF Mail

LEMMA Sent ==
  ASSUME Control, config' = config, NEW cmd \in {"newData", "release"}, SendOut(cmd)
  PROVE  cmdOut' \subseteq {"newData", "release"} /\ drops' \in 0 .. config'.maxDrops
  <1>1. config.maxDrops \in Nat
    BY BitsAssumption DEF Control, ConfigType
  <1>2. CASE cmdOut' = cmdOut \cup {cmd} /\ drops' = drops
    BY <1>2 DEF Control
  <1>3. CASE drops < config.maxDrops /\ drops' = drops + 1 /\ cmdOut' = cmdOut
    <2>1. drops' \in 0 .. config.maxDrops
      BY <1>1, <1>3 DEF Control
    <2> QED BY <1>3, <2>1 DEF Control
  <1> QED BY <1>2, <1>3 DEF SendOut

LEMMA ControlStep == BitsInv /\ Next => Control'
  <1> SUFFICES ASSUME BitsInv, Next PROVE Control'
    OBVIOUS
  <1>0. Control /\ Life /\ Mail /\ config.maxDrops \in Nat /\ MaxSem \in Nat
    BY BitsAssumption DEF BitsInv, Control, ConfigType
  <1> USE DEF Stages
  <1>1. CASE Finish
    <2>1. SendOut("newData") /\ config' = config
      BY <1>1 DEF Finish, life
    <2> QED BY <1>0, <1>1, <2>1, Sent DEF Finish, life, outTask, clock, inTask, application, events,
       Control
  <1>2. ASSUME NEW cmd \in {"newData", "release"}, OutReceive(cmd) PROVE Control'
    BY <1>0, <1>2 DEF OutReceive, life, clock, inTask, application, events, Control
  <1>3. CASE OutSend
    BY <1>0, <1>3 DEF OutSend, PutTail, life, clock, inTask, application, events, Control
  <1>4. CASE OutProcessEnd
    <2>1. UNCHANGED <<config, drops, stage, cmdOut, in, sem, app, numBufs, eventOut>>
      BY <1>4 DEF OutProcessEnd, life, inTask, application
    <2>2. out' = "release" /\ clk' \in {"off", "once", "periodic"}
      BY <1>0, <1>4 DEF OutProcessEnd, clock, Control
    <2>3. clkStarted' \in BOOLEAN
      BY <1>0, <1>4 DEF OutProcessEnd, clock, Control
    <2>4. eventIn' \in BOOLEAN
      BY <1>0, <1>4 DEF OutProcessEnd, Control
    <2> QED BY <1>0, <2>1, <2>2, <2>3, <2>4 DEF Control
  <1>5. CASE OutRelease
    BY <1>0, <1>5 DEF OutRelease, FreeTheElem, life, clock, inTask, application, events, Control
  <1>6. CASE OutReleaseEnd
    BY <1>0, <1>6 DEF OutReleaseEnd, life, clock, inTask, application, events, Control
  <1>7. CASE OutNotified
    <2>1. SendOut("release") /\ config' = config
      BY <1>7 DEF OutNotified, life
    <2>2. cmdOut' \subseteq {"newData", "release"} /\ drops' \in 0 .. config'.maxDrops
      BY <1>0, <2>1, Sent
    <2>3. UNCHANGED <<config, stage, out, in, sem, app, clkStarted, numBufs, eventIn>>
      BY <1>7 DEF OutNotified, life, outTask, inTask, application
    <2>4. clk' = "once" /\ eventOut' \in BOOLEAN
      BY <1>7 DEF OutNotified, Wound
    <2> QED BY <1>0, <2>2, <2>3, <2>4 DEF Control
  <1>8. CASE OutTimer
    <2>1. SendOut("release") /\ config' = config
      BY <1>8 DEF OutTimer, life
    <2> QED BY <1>0, <1>8, <2>1, Sent DEF OutTimer, life, outTask, inTask, application, events,
       Control
  <1>9. CASE InNotified
    <2>1. UNCHANGED <<config, drops, stage, out, cmdOut, clk, in, sem, app, clkStarted, numBufs, eventOut>>
      BY <1>9 DEF InNotified, life, outTask, clock, inTask, application
    <2>2. eventIn' \in BOOLEAN
      BY <1>9 DEF InNotified
    <2> QED BY <1>0, <2>1, <2>2 DEF Control
  <1>10. CASE PeriodicTask
    BY <1>0, <1>10 DEF PeriodicTask, Polling, life, outTask, clock, inTask, application, events,
       Control
  <1>11. CASE InReceiveNewData
    BY <1>0, <1>11 DEF InReceiveNewData, life, outTask, clock, application, events, Control
  <1>12. CASE InTake
    BY <1>0, <1>12 DEF InTake, life, outTask, clock, application, events, Control
  <1>13. CASE InTakeEnd
    <2>1. sem' = sem \/ (sem < MaxSem /\ sem' = sem + 1)
      BY <1>13 DEF InTakeEnd, Signal
    <2>2. sem' \in 0 .. MaxSem
      BY <1>0, <2>1 DEF Control
    <2>3. UNCHANGED <<config, drops, stage, out, cmdOut, clk, app, clkStarted, eventOut, eventIn>>
      BY <1>13 DEF InTakeEnd, life, outTask, clock, events
    <2>4. in' = "idle" /\ numBufs' \in BOOLEAN
      BY <1>13 DEF InTakeEnd
    <2> QED BY <1>0, <2>2, <2>3, <2>4 DEF Control
  <1>14. CASE AppWake
    BY <1>0, <1>14 DEF AppWake, life, outTask, clock, inTask, events, Control
  <1>15. CASE GetFullBitBufs
    BY <1>0, <1>15 DEF GetFullBitBufs, life, outTask, clock, events, Control
  <1>16. CASE PutEmptyBitBuf
    BY <1>0, <1>16 DEF PutEmptyBitBuf, life, outTask, clock, inTask, events, Control
  <1>17. CASE PutNotify
    BY <1>0, <1>17 DEF PutNotify, life, outTask, clock, inTask, Control
  <1>18. CASE AppLoop
    BY <1>0, <1>18 DEF AppLoop, life, outTask, clock, inTask, events, Control
  <1>19. CASE App_ipcBitsStop
    BY <1>0, <1>19 DEF App_ipcBitsStop, Enter, outTask, clock, inTask, application, events, Control
  <1>20. CASE Stop
    BY <1>0, <1>20 DEF Stop, Enter, ThreadDone, outTask, clock, inTask, application, events, Control
  <1>21. CASE DeleteOut
    BY <1>0, <1>21 DEF DeleteOut, Enter, outTask, inTask, application, events, Control
  <1>22. CASE SendToIn("noOut", "delete", "deleting")
    BY <1>0, <1>22 DEF SendToIn, Enter, outTask, clock, inTask, application, events, Control
  <1>23. CASE SendToIn("outOnly", "create", "creating")
    BY <1>0, <1>23 DEF SendToIn, Enter, outTask, clock, inTask, application, events, Control
  <1>24. CASE InDelete
    BY <1>0, <1>24 DEF InDelete, Enter, outTask, clock, application, events, Control
  <1>25. CASE CreateOut
    BY <1>0, <1>25 DEF CreateOut, Enter, ResetLists, outTask, clock, inTask, application, events,
       Control
  <1>26. CASE InCreate
    BY <1>0, <1>26 DEF InCreate, Enter, outTask, clock, events, Control
  <1> QED
    BY <1>1, <1>2, <1>3, <1>4, <1>5, <1>6, <1>7, <1>8, <1>9, <1>10, <1>11, <1>12, <1>13,
       <1>14, <1>15, <1>16, <1>17, <1>18, <1>19, <1>20, <1>21, <1>22, <1>23, <1>24, <1>25, <1>26
    DEF Next, Out, In, App, Main

LEMMA LifeStep == BitsInv /\ Next => Life'
  <1> SUFFICES ASSUME BitsInv, Next PROVE Life'
    OBVIOUS
  <1>0. Control /\ Life /\ Mail
    BY DEF BitsInv
  <1>1. CASE Finish
    BY <1>0, <1>1 DEF Finish, SendOut, life, lists, outTask, inTask, application, events, Life,
       OutUp
  <1>2. ASSUME NEW cmd \in {"newData", "release"}, OutReceive(cmd) PROVE Life'
    BY <1>0, <1>2 DEF OutReceive, life, lists, inTask, application, events, Life, OutUp
  <1>3. CASE OutSend
    BY <1>0, <1>3 DEF OutSend, PutTail, life, inTask, application, events, Life, OutUp
  <1>4. CASE OutProcessEnd
    BY <1>0, <1>4 DEF OutProcessEnd, life, lists, inTask, application, Life, OutUp
  <1>5. CASE OutRelease
    BY <1>0, <1>5 DEF OutRelease, FreeTheElem, life, inTask, application, events, Life, OutUp
  <1>6. CASE OutReleaseEnd
    BY <1>0, <1>6 DEF OutReleaseEnd, life, lists, inTask, application, events, Life, OutUp
  <1>7. CASE OutNotified
    BY <1>0, <1>7 DEF OutNotified, SendOut, Wound, life, lists, outTask, inTask, application,
       Life, OutUp
  <1>8. CASE OutTimer
    BY <1>0, <1>8 DEF OutTimer, SendOut, life, lists, outTask, inTask, application, events, Life,
       OutUp
  <1>9. CASE InNotified
    BY <1>0, <1>9 DEF InNotified, life, lists, outTask, inTask, application, Life, OutUp
  <1>10. CASE PeriodicTask
    BY <1>0, <1>10 DEF PeriodicTask, Polling, life, lists, outTask, inTask, application, events,
       Life, OutUp
  <1>11. CASE InReceiveNewData
    BY <1>0, <1>11 DEF InReceiveNewData, life, lists, outTask, application, events, Life, OutUp
  <1>12. CASE InTake
    BY <1>0, <1>12 DEF InTake, life, outTask, application, events, Life, OutUp
  <1>13. CASE InTakeEnd
    BY <1>0, <1>13 DEF InTakeEnd, Signal, life, lists, outTask, events, Life, OutUp
  <1>14. CASE AppWake
    BY <1>0, <1>14 DEF AppWake, life, lists, outTask, inTask, events, Life, OutUp
  <1>15. CASE GetFullBitBufs
    BY <1>0, <1>15 DEF GetFullBitBufs, life, lists, outTask, events, Life, OutUp
  <1>16. CASE PutEmptyBitBuf
    BY <1>0, <1>16 DEF PutEmptyBitBuf, life, outTask, inTask, events, Life, OutUp
  <1>17. CASE PutNotify
    BY <1>0, <1>17 DEF PutNotify, life, lists, outTask, inTask, Life, OutUp
  <1>18. CASE AppLoop
    BY <1>0, <1>18 DEF AppLoop, life, lists, outTask, inTask, events, Life, OutUp
  <1>19. CASE App_ipcBitsStop
    BY <1>0, <1>19 DEF App_ipcBitsStop, Enter, lists, outTask, inTask, application, events, Life,
       OutUp
  <1>20. CASE Stop
    BY <1>0, <1>20 DEF Stop, Enter, ThreadDone, lists, outTask, inTask, application, events, Life,
       OutUp
  <1>21. CASE DeleteOut
    BY <1>0, <1>21 DEF DeleteOut, Enter, lists, outTask, inTask, application, events, Life, OutUp
  <1>22. CASE SendToIn("noOut", "delete", "deleting")
    BY <1>0, <1>22 DEF SendToIn, Enter, lists, outTask, inTask, application, events, Life, OutUp
  <1>23. CASE SendToIn("outOnly", "create", "creating")
    BY <1>0, <1>23 DEF SendToIn, Enter, lists, outTask, inTask, application, events, Life, OutUp
  <1>24. CASE InDelete
    <2>1. stage = "deleting"
      BY <1>0, <1>24, OneCommand DEF InDelete
    <2> QED BY <1>0, <1>24, <2>1 DEF InDelete, Enter, lists, outTask, application, events, Life,
       OutUp
  <1>25. CASE CreateOut
    BY <1>0, <1>25 DEF CreateOut, Enter, ResetLists, outTask, inTask, application, events, Life,
       OutUp
  <1>26. CASE InCreate
    <2>1. stage = "creating"
      BY <1>0, <1>26, OneCommand DEF InCreate
    <2> QED BY <1>0, <1>26, <2>1 DEF InCreate, Enter, outTask, events, Life, OutUp, Control
  <1> QED
    BY <1>1, <1>2, <1>3, <1>4, <1>5, <1>6, <1>7, <1>8, <1>9, <1>10, <1>11, <1>12, <1>13,
       <1>14, <1>15, <1>16, <1>17, <1>18, <1>19, <1>20, <1>21, <1>22, <1>23, <1>24, <1>25, <1>26
    DEF Next, Out, In, App, Main

(***************************************************************************)
(* In's mailbox.                                                            *)
(***************************************************************************)
Commands == {"newData", "delete", "create"}

LEMMA MailTimes ==
  ASSUME Mail
  PROVE  cmdIn \in Seq(Commands) /\ \A x : Times(x, cmdIn) \in Nat
  BY TimesAt DEF Mail, Commands

LEMMA MailKept ==
  ASSUME Mail, UNCHANGED <<config, cmdIn, numPendingCmd>>,
         eventIn' = eventIn \/ ~noNotifyMode, in' = "none" <=> in = "none",
         stage' = stage \/ {stage, stage'} \cap {"deleting", "creating"} = {}
  PROVE  Mail'
  <1>1. noNotifyMode' <=> noNotifyMode
    BY DEF noNotifyMode
  <1>2. noNotifyMode => ~eventIn'
    BY DEF Mail
  <1>3. /\ Times("delete", cmdIn') = Times("delete", cmdIn)
        /\ Times("create", cmdIn') = Times("create", cmdIn)
        /\ Times("newData", cmdIn') = Times("newData", cmdIn)
        /\ Last(cmdIn') = Last(cmdIn)
    OBVIOUS
  <1> QED BY <1>1, <1>2, <1>3 DEF Mail

(* A notify or a poll adds a NEW_DATA.                                      *)
LEMMA MailNewData ==
  ASSUME Mail, UNCHANGED <<config, stage, in>>, stage = "creating" => ~noNotifyMode,
         cmdIn' = Append(cmdIn, "newData"), eventIn' \in BOOLEAN,
         noNotifyMode => /\ eventIn' = eventIn /\ numPendingCmd' = numPendingCmd + 1
                         /\ numPendingCmd < MaxPending,
         ~noNotifyMode => numPendingCmd' = numPendingCmd
  PROVE  Mail'
  <1>1. /\ cmdIn' \in Seq(Commands)
        /\ \A x : Times(x, cmdIn') = Times(x, cmdIn) + Here(x, "newData")
    BY MailTimes, TimesPut DEF Commands
  <1>2. /\ Times("delete", cmdIn') = Times("delete", cmdIn)
        /\ Times("create", cmdIn') = Times("create", cmdIn)
        /\ Times("newData", cmdIn') = Times("newData", cmdIn) + 1
    BY <1>1, MailTimes DEF Here
  <1>3. numPendingCmd' \in 0 .. MaxPending
    BY BitsAssumption DEF Mail
  <1>4. noNotifyMode' <=> noNotifyMode
    BY DEF noNotifyMode
  <1> QED BY <1>1, <1>2, <1>3, <1>4 DEF Mail, Commands

LEMMA LastStays ==
  ASSUME NEW S, NEW s \in Seq(S), s # << >>
  PROVE  /\ Tail(s) # << >> => Last(Tail(s)) = Last(s)
         /\ Tail(s) = << >> => Last(s) = Head(s)
         /\ Times(Last(s), s) # 0
  <1>1. /\ Len(s) \in Nat /\ Len(s) >= 1 /\ Tail(s) \in Seq(S) /\ Len(Tail(s)) = Len(s) - 1
        /\ \A i \in 1 .. Len(Tail(s)) : Tail(s)[i] = s[i + 1]
        /\ Head(s) = s[1]
    BY HeadTailProperties, EmptySeq, LenProperties
  <1>2. Tail(s) = << >> <=> Len(s) = 1
    <2>1. Tail(s) = << >> <=> Len(Tail(s)) = 0
      BY <1>1, EmptySeq
    <2> QED BY <1>1, <2>1
  <1>3. Times(Last(s), s) # 0
    <2>1. Len(s) \in 1 .. Len(s) /\ s[Len(s)] = Last(s)
      BY <1>1 DEF Last
    <2> QED BY <2>1, TimesAt
  <1>4. ASSUME Len(s) # 1 PROVE Last(Tail(s)) = Last(s)
    <2>1. Len(s) - 1 \in 1 .. Len(Tail(s)) /\ (Len(s) - 1) + 1 = Len(s)
      BY <1>1, <1>4
    <2> QED BY <1>1, <2>1 DEF Last
  <1> QED BY <1>1, <1>2, <1>3, <1>4 DEF Last

LEMMA MailReceive == BitsInv /\ InReceiveNewData => Mail'
  <1> SUFFICES ASSUME BitsInv, InReceiveNewData PROVE Mail'
    OBVIOUS
  <1>1. /\ Mail /\ Life /\ cmdIn # << >> /\ Head(cmdIn) = "newData" /\ cmdIn' = Tail(cmdIn)
        /\ UNCHANGED <<config, stage, eventIn>> /\ in \in {"idle", "none"}
        /\ in = "idle" => /\ in' = "process"
                          /\ numPendingCmd' = IF noNotifyMode THEN numPendingCmd - 1 ELSE numPendingCmd
        /\ in = "none" => UNCHANGED <<in, numPendingCmd>>
    BY DEF BitsInv, InReceiveNewData, life, events
  <1>2. /\ cmdIn' \in Seq(Commands)
        /\ \A x : Times(x, cmdIn) = Here(x, "newData") + Times(x, cmdIn') /\ Times(x, cmdIn') \in Nat
    <2>1. cmdIn' \in Seq(Commands) /\ \A x : Times(x, cmdIn) = Here(x, Head(cmdIn)) + Times(x, cmdIn')
      BY <1>1, MailTimes, TimesGet
    <2> QED BY <1>1, <2>1, TimesAt
  <1>3. /\ Times("delete", cmdIn') = Times("delete", cmdIn)
        /\ Times("create", cmdIn') = Times("create", cmdIn)
        /\ Times("newData", cmdIn) = 1 + Times("newData", cmdIn')
    BY <1>2 DEF Here
  <1>4. noNotifyMode' <=> noNotifyMode
    BY <1>1 DEF noNotifyMode
  <1>5. /\ numPendingCmd' \in 0 .. MaxPending
        /\ noNotifyMode /\ in' # "none" => numPendingCmd' = Times("newData", cmdIn')
    <2>1. CASE in = "idle" /\ noNotifyMode
      <3>1. numPendingCmd = Times("newData", cmdIn) /\ numPendingCmd \in 0 .. MaxPending
            /\ numPendingCmd' = numPendingCmd - 1 /\ MaxPending \in Nat
        BY <1>1, <2>1, BitsAssumption DEF Mail
      <3> QED BY <1>2, <1>3, <3>1
    <2>2. CASE ~(in = "idle" /\ noNotifyMode)
      BY <1>1, <2>2 DEF Mail
    <2> QED BY <2>1, <2>2
  <1>6. noNotifyMode /\ stage = "creating" => cmdIn' # << >> /\ Last(cmdIn') = "create"
    <2> SUFFICES ASSUME noNotifyMode, stage = "creating" PROVE cmdIn' # << >> /\ Last(cmdIn') = "create"
      OBVIOUS
    <2>1. Last(cmdIn) = "create"
      BY <1>1 DEF Mail
    <2>2. /\ Tail(cmdIn) # << >> => Last(Tail(cmdIn)) = Last(cmdIn)
          /\ Tail(cmdIn) = << >> => Last(cmdIn) = Head(cmdIn)
      BY <1>1, MailTimes, LastStays
    <2> QED BY <1>1, <2>1, <2>2
  <1> QED BY <1>1, <1>2, <1>3, <1>4, <1>5, <1>6 DEF Mail, Commands

LEMMA MailCommand ==
  ASSUME BitsInv, NEW from, NEW cmd \in {"delete", "create"}, NEW to, SendToIn(from, cmd, to),
         \/ from = "noOut" /\ cmd = "delete" /\ to = "deleting"
         \/ from = "outOnly" /\ cmd = "create" /\ to = "creating"
  PROVE  Mail'
  <1>1. /\ Mail /\ Life /\ stage = from /\ stage' = to /\ cmdIn' = Append(cmdIn, cmd)
        /\ UNCHANGED <<config, in, numPendingCmd, eventIn>>
    BY DEF BitsInv, SendToIn, Enter, inTask, events
  <1>2. /\ cmdIn' \in Seq(Commands) /\ cmdIn' # << >> /\ Last(cmdIn') = cmd
        /\ \A x : Times(x, cmdIn') = Times(x, cmdIn) + Here(x, cmd)
    <2>1. cmd \in Commands /\ cmdIn \in Seq(Commands)
      BY MailTimes, <1>1 DEF Commands
    <2>2. /\ Append(cmdIn, cmd) \in Seq(Commands) /\ Append(cmdIn, cmd) # << >>
          /\ Append(cmdIn, cmd)[Len(cmdIn) + 1] = cmd /\ Len(Append(cmdIn, cmd)) = Len(cmdIn) + 1
      BY <2>1, AppendProperties
    <2> QED BY <1>1, <2>1, <2>2, TimesPut DEF Last
  <1>3. Times("delete", cmdIn) = 0 /\ Times("create", cmdIn) = 0
    BY <1>1 DEF Mail
  <1>4. /\ Times("delete", cmdIn') = Here("delete", cmd) /\ Times("create", cmdIn') = Here("create", cmd)
        /\ Times("newData", cmdIn') = Times("newData", cmdIn)
    BY <1>1, <1>2, <1>3, MailTimes DEF Here
  <1>5. /\ Times("delete", cmdIn') + Times("create", cmdIn') <= 1
        /\ Times("delete", cmdIn') # 0 => stage' = "deleting"
        /\ Times("create", cmdIn') # 0 => stage' = "creating"
    BY <1>1, <1>4 DEF Here
  <1>6. /\ noNotifyMode' <=> noNotifyMode
        /\ stage' = "creating" => cmd = "create"
    BY <1>1 DEF noNotifyMode
  <1> QED BY <1>1, <1>2, <1>4, <1>5, <1>6 DEF Mail, Commands

(* The two commands are taken; nothing is left behind the second.           *)
LEMMA MailTaken ==
  ASSUME BitsInv, NEW cmd \in {"delete", "create"}, cmdIn # << >>, Head(cmdIn) = cmd,
         cmdIn' = Tail(cmdIn), numPendingCmd' = 0, UNCHANGED <<config, eventIn>>,
         \/ cmd = "delete" /\ stage' = "none" /\ in' = "none"
         \/ cmd = "create" /\ stage' = "run"
  PROVE  Mail'
  <1>1. Mail
    BY DEF BitsInv
  <1>2. /\ cmdIn' \in Seq(Commands)
        /\ \A x : Times(x, cmdIn) = Here(x, cmd) + Times(x, cmdIn') /\ Times(x, cmdIn') \in Nat
    <2>1. cmdIn' \in Seq(Commands) /\ \A x : Times(x, cmdIn) = Here(x, Head(cmdIn)) + Times(x, cmdIn')
      BY <1>1, MailTimes, TimesGet
    <2> QED BY <2>1, TimesAt
  <1>3. Times("delete", cmdIn') = 0 /\ Times("create", cmdIn') = 0
    <2>1. Times("delete", cmdIn) + Times("create", cmdIn) <= 1
      BY <1>1 DEF Mail
    <2> QED BY <1>2, <2>1 DEF Here
  <1>4. ASSUME noNotifyMode, cmd = "create" PROVE Times("newData", cmdIn') = 0
    <2>1. stage = "creating" /\ Last(cmdIn) = "create"
      BY <1>1, <1>4, OneCommand DEF Mail
    <2>2. Tail(cmdIn) = << >>
      <3>1. SUFFICES ASSUME Tail(cmdIn) # << >> PROVE FALSE
        OBVIOUS
      <3>2. Last(cmdIn') = "create"
        BY <1>1, <2>1, <3>1, MailTimes, LastStays
      <3>3. Times(Last(cmdIn'), cmdIn') # 0
        BY <1>2, <3>1, LastStays
      <3> QED BY <1>3, <3>2, <3>3
    <2> QED BY <2>2, TimesNone
  <1>5. noNotifyMode' <=> noNotifyMode
    BY DEF noNotifyMode
  <1>6. 0 \in 0 .. MaxPending
    BY BitsAssumption
  <1> QED BY <1>1, <1>2, <1>3, <1>4, <1>5, <1>6 DEF Mail, Commands

LEMMA MailStep == BitsInv /\ Next => Mail'
  <1> SUFFICES ASSUME BitsInv, Next PROVE Mail'
    OBVIOUS
  <1>0. Mail /\ Life
    BY DEF BitsInv
  <1>1. CASE Finish
    BY <1>0, <1>1, MailKept DEF Finish, life, inTask, mailIn, events
  <1>2. ASSUME NEW cmd \in {"newData", "release"}, OutReceive(cmd) PROVE Mail'
    BY <1>0, <1>2, MailKept DEF OutReceive, life, inTask, mailIn, events
  <1>3. CASE OutSend
    BY <1>0, <1>3, MailKept DEF OutSend, life, inTask, mailIn, events
  <1>4. CASE OutProcessEnd
    <2>1. UNCHANGED <<config, cmdIn, numPendingCmd, in, stage>>
      BY <1>4 DEF OutProcessEnd, life, inTask, mailIn
    <2>2. eventIn' = eventIn \/ ~noNotifyMode
      BY <1>4 DEF OutProcessEnd
    <2> QED BY <1>0, <2>1, <2>2, MailKept
  <1>5. CASE OutRelease
    BY <1>0, <1>5, MailKept DEF OutRelease, life, inTask, mailIn, events
  <1>6. CASE OutReleaseEnd
    BY <1>0, <1>6, MailKept DEF OutReleaseEnd, life, inTask, mailIn, events
  <1>7. CASE OutNotified
    BY <1>0, <1>7, MailKept DEF OutNotified, Wound, life, inTask, mailIn
  <1>8. CASE OutTimer
    BY <1>0, <1>8, MailKept DEF OutTimer, life, inTask, mailIn, events
  <1>9. CASE InNotified
    <2>1. eventIn /\ eventIn' = FALSE /\ UNCHANGED <<config, stage, in, numPendingCmd>>
      BY <1>9 DEF InNotified, life, inTask
    <2>2. ~noNotifyMode
      BY <1>0, <2>1 DEF Mail
    <2>3. CASE cmdIn' = cmdIn
      BY <1>0, <2>1, <2>2, <2>3, MailKept
    <2>4. CASE cmdIn' = Append(cmdIn, "newData")
      BY <1>0, <2>1, <2>2, <2>4, MailNewData
    <2> QED BY <1>9, <2>3, <2>4 DEF InNotified
  <1>10. CASE PeriodicTask
    <2>1. /\ noNotifyMode /\ in # "none" /\ numPendingCmd < MaxPending
          /\ cmdIn' = Append(cmdIn, "newData") /\ numPendingCmd' = numPendingCmd + 1
          /\ UNCHANGED <<config, stage, in, eventIn>>
      BY <1>10 DEF PeriodicTask, Polling, life, inTask, events
    <2>2. stage # "creating"
      BY <1>0, <2>1 DEF Life
    <2>3. eventIn' \in BOOLEAN
      BY <2>1 DEF BitsInv, Control
    <2> QED BY <1>0, <2>1, <2>2, <2>3, MailNewData
  <1>11. CASE InReceiveNewData
    BY <1>11, MailReceive
  <1>12. CASE InTake
    BY <1>0, <1>12, MailKept DEF InTake, life, mailIn, events
  <1>13. CASE InTakeEnd
    BY <1>0, <1>13, MailKept DEF InTakeEnd, life, mailIn, events
  <1>14. CASE AppWake
    BY <1>0, <1>14, MailKept DEF AppWake, life, inTask, mailIn, events
  <1>15. CASE GetFullBitBufs
    BY <1>0, <1>15, MailKept DEF GetFullBitBufs, life, mailIn, events
  <1>16. CASE PutEmptyBitBuf
    BY <1>0, <1>16, MailKept DEF PutEmptyBitBuf, life, inTask, mailIn, events
  <1>17. CASE PutNotify
    BY <1>0, <1>17, MailKept DEF PutNotify, life, inTask, mailIn
  <1>18. CASE AppLoop
    BY <1>0, <1>18, MailKept DEF AppLoop, life, inTask, mailIn, events
  <1>19. CASE App_ipcBitsStop
    BY <1>0, <1>19, MailKept DEF App_ipcBitsStop, Enter, inTask, mailIn, events
  <1>20. CASE Stop
    BY <1>0, <1>20, MailKept DEF Stop, Enter, inTask, mailIn, events
  <1>21. CASE DeleteOut
    BY <1>0, <1>21, MailKept DEF DeleteOut, Enter, inTask, mailIn, events
  <1>22. CASE SendToIn("noOut", "delete", "deleting")
    BY <1>22, MailCommand
  <1>23. CASE SendToIn("outOnly", "create", "creating")
    BY <1>23, MailCommand
  <1>24. CASE InDelete
    BY <1>24, MailTaken DEF InDelete, Enter, events
  <1>25. CASE CreateOut
    BY <1>0, <1>25, MailKept DEF CreateOut, Enter, inTask, mailIn, events
  <1>26. CASE InCreate
    BY <1>26, MailTaken DEF InCreate, Enter, events
  <1> QED
    BY <1>1, <1>2, <1>3, <1>4, <1>5, <1>6, <1>7, <1>8, <1>9, <1>10, <1>11, <1>12, <1>13,
       <1>14, <1>15, <1>16, <1>17, <1>18, <1>19, <1>20, <1>21, <1>22, <1>23, <1>24, <1>25, <1>26
    DEF Next, Out, In, App, Main

(***************************************************************************)
(* Elements on their way.  What an action does to the element that it moves *)
(* and that it leaves the others alone.                                     *)
(***************************************************************************)
Moves(h, state, owner, buf) ==
    /\ elem' \in [Elems -> ElemType]
    /\ \A e \in Elems : e # h => elem'[e] = elem[e]
    /\ elem'[h] = [bufState |-> state, owner |-> owner, buf |-> buf]

LEMMA Sending ==
  ASSUME Queues, OutSend
  PROVE  /\ Head(elemQue) \in Elems /\ Head(todo) \in Bufs
         /\ Moves(Head(elemQue), "OUTQUE", elem[Head(elemQue)].owner, Head(todo))
  <1>1. PICK h, b, a : h = Head(elemQue) /\ b = Head(todo) /\ a = [elem EXCEPT ![h].bufState = "OUTQUE"]
    OBVIOUS
  <1>2. h \in Elems /\ b \in Bufs /\ elem \in [Elems -> ElemType] /\ elem[h] \in ElemType
    BY <1>1, TimesGet DEF OutSend, Queues
  <1>3. a \in [Elems -> ElemType] /\ a[h] = [elem[h] EXCEPT !.bufState = "OUTQUE"]
    BY <1>1, <1>2 DEF ElemType
  <1>4. PICK r : r = [a[h] EXCEPT !.buf = b]
    OBVIOUS
  <1>5. r \in ElemType /\ r = [bufState |-> "OUTQUE", owner |-> elem[h].owner, buf |-> b]
    BY <1>2, <1>3, <1>4 DEF ElemType
  <1>6. elem' = [a EXCEPT ![h] = r]
    BY <1>1, <1>2, <1>4 DEF OutSend
  <1>7. \A e \in Elems : e # h => elem'[e] = elem[e]
    BY <1>1, <1>2, <1>3, <1>6
  <1>8. elem'[h] = r /\ elem' \in [Elems -> ElemType]
    BY <1>2, <1>3, <1>5, <1>6
  <1> QED BY <1>1, <1>2, <1>5, <1>7, <1>8 DEF Moves

LEMMA Taking ==
  ASSUME Queues, listOut # << >>,
         elem' = [elem EXCEPT ![Head(listOut)].bufState = "DEQUEUED", ![Head(listOut)].owner = "In"]
  PROVE  Head(listOut) \in Elems /\ Moves(Head(listOut), "DEQUEUED", "In", elem[Head(listOut)].buf)
  <1>1. PICK h, a : h = Head(listOut) /\ a = [elem EXCEPT ![h].bufState = "DEQUEUED"]
    OBVIOUS
  <1>2. h \in Elems /\ elem \in [Elems -> ElemType] /\ elem[h] \in ElemType
    BY <1>1, TimesGet DEF Queues
  <1>3. a \in [Elems -> ElemType] /\ a[h] = [elem[h] EXCEPT !.bufState = "DEQUEUED"]
    BY <1>1, <1>2 DEF ElemType
  <1>4. PICK r : r = [a[h] EXCEPT !.owner = "In"]
    OBVIOUS
  <1>5. r \in ElemType /\ r = [bufState |-> "DEQUEUED", owner |-> "In", buf |-> elem[h].buf]
    BY <1>2, <1>3, <1>4 DEF ElemType
  <1>6. elem' = [a EXCEPT ![h] = r]
    BY <1>1, <1>2, <1>4
  <1>7. \A e \in Elems : e # h => elem'[e] = elem[e]
    BY <1>1, <1>2, <1>3, <1>6
  <1>8. elem'[h] = r /\ elem' \in [Elems -> ElemType]
    BY <1>2, <1>3, <1>5, <1>6
  <1> QED BY <1>1, <1>2, <1>5, <1>7, <1>8 DEF Moves

LEMMA Putting ==
  ASSUME Queues, PutEmptyBitBuf
  PROVE  /\ Head(held) \in Elems
         /\ Moves(Head(held), "INQUE", elem[Head(held)].owner, elem[Head(held)].buf)
  <1>1. PICK h : h = Head(held)
    OBVIOUS
  <1>2. h \in Elems /\ elem \in [Elems -> ElemType] /\ elem[h] \in ElemType
    BY <1>1, TimesGet DEF PutEmptyBitBuf, Queues
  <1>3. PICK r : r = [elem[h] EXCEPT !.bufState = "INQUE"]
    OBVIOUS
  <1>4. r \in ElemType /\ r = [bufState |-> "INQUE", owner |-> elem[h].owner, buf |-> elem[h].buf]
    BY <1>2, <1>3 DEF ElemType
  <1>5. elem' = [elem EXCEPT ![h] = r]
    BY <1>1, <1>2, <1>3 DEF PutEmptyBitBuf
  <1> QED BY <1>1, <1>2, <1>4, <1>5 DEF Moves

LEMMA Freeing ==
  ASSUME Queues, OutRelease
  PROVE  Head(listIn) \in Elems /\ Moves(Head(listIn), "FREE", "Out", NoBuf)
  <1>1. PICK h : h = Head(listIn)
    OBVIOUS
  <1>2. h \in Elems /\ elem \in [Elems -> ElemType]
    BY <1>1, TimesGet DEF OutRelease, Queues
  <1>3. elem' = [elem EXCEPT ![h] = FreeElem]
    BY <1>1 DEF OutRelease, FreeTheElem
  <1> QED BY <1>1, <1>2, <1>3 DEF Moves, FreeElem, ElemType

(* The elements in listIn have a buffer.                                    *)
LEMMA ReleasedBuf ==
  ASSUME BitsInv, OutRelease
  PROVE  elem[Head(listIn)].buf \in Bufs /\ elem[Head(listIn)].bufState = "INQUE"
  <1>1. Queues /\ OutUp /\ listIn # << >>
    BY DEF BitsInv, Life, OutRelease
  <1>2. PICK h \in Elems : h = Head(listIn)
    BY <1>1, TimesGet DEF Queues
  <1>3. Located(h) /\ elem[h] \in ElemType
    BY <1>1 DEF BitsInv, Queues
  <1>4. Times(h, listIn) # 0
    BY <1>1, <1>2, HeadIsIn DEF Queues
  <1>5. /\ Times(h, elemQue) \in Nat /\ Times(h, listOut) \in Nat /\ Times(h, outQue) \in Nat
        /\ Times(h, held) \in Nat /\ Times(h, listIn) \in Nat
    BY <1>1, TimesAt DEF Queues
  <1>6. elem[h].bufState = "INQUE" /\ elem[h].buf # NoBuf
    BY <1>3, <1>4, <1>5 DEF Located, ElemType
  <1> QED BY <1>2, <1>3, <1>6 DEF ElemType

LEMMA Full ==
  ASSUME config \in Configs
  PROVE  /\ SetToSeq(config.bufs) \in Seq(Bufs) /\ SetToSeq(Elems) \in Seq(Elems)
         /\ \A b : Times(b, SetToSeq(config.bufs)) = IF b \in config.bufs THEN 1 ELSE 0
         /\ \A e : Times(e, SetToSeq(Elems)) = IF e \in Elems THEN 1 ELSE 0
  <1>1. config.bufs \in SUBSET Bufs /\ IsFiniteSet(Bufs) /\ IsFiniteSet(Elems)
    BY BitsAssumption DEF ConfigType
  <1>2. IsFiniteSet(config.bufs)
    BY <1>1, FS_Subset
  <1>3. SetToSeq(config.bufs) \in Seq(config.bufs)
        /\ \A b : Times(b, SetToSeq(config.bufs)) = IF b \in config.bufs THEN 1 ELSE 0
    BY <1>2, TimesAll
  <1>4. SetToSeq(config.bufs) \in Seq(Bufs)
    BY <1>1, <1>3, SeqMonotonic
  <1> QED BY <1>1, <1>3, <1>4, TimesAll

(***************************************************************************)
(* The values of the queues.                                                *)
(***************************************************************************)
LEMMA QueuesKept == Queues /\ UNCHANGED <<encoder, elements, lists, todo, freeList, outQue, held>> => Queues'
  BY DEF Queues, encoder, elements, lists

LEMMA QueueGet == ASSUME NEW S, NEW s \in Seq(S), s # << >> PROVE Head(s) \in S /\ Tail(s) \in Seq(S)
  BY TimesGet

LEMMA QueuesStep == BitsInv /\ Next => Queues'
  <1> SUFFICES ASSUME BitsInv, Next PROVE Queues'
    OBVIOUS
  <1>0. Queues /\ Control /\ Life
    BY DEF BitsInv
  <1>1. CASE Finish
    <2>1. Head(free) \in Bufs /\ Tail(free) \in Seq(Bufs)
      BY <1>0, <1>1, QueueGet DEF Finish, Queues
    <2>2. Append(inQue, Head(free)) \in Seq(Bufs)
      BY <1>0, <2>1, TimesPut DEF Queues
    <2> QED BY <1>0, <1>1, <2>1, <2>2 DEF Finish, Queues, elements, lists, outTask, inTask,
       application
  <1>2. ASSUME NEW cmd \in {"newData", "release"}, OutReceive(cmd) PROVE Queues'
    BY <1>0, <1>2, TimesNone DEF OutReceive, Queues, elements, lists, inTask, application
  <1>3. CASE OutSend
    <2>1. /\ Head(todo) \in Bufs /\ Tail(todo) \in Seq(Bufs)
          /\ Head(elemQue) \in Elems /\ Tail(elemQue) \in Seq(Elems)
      BY <1>0, <1>3, QueueGet DEF OutSend, Queues
    <2>2. Append(listOut, Head(elemQue)) \in Seq(Elems)
      BY <1>0, <2>1, TimesPut DEF Queues
    <2>3. elem' \in [Elems -> ElemType]
      BY <1>0, <1>3, <2>1, Sending DEF Moves
    <2> QED BY <1>0, <1>3, <2>1, <2>2, <2>3 DEF OutSend, PutTail, Queues, encoder, inTask,
       application
  <1>4. CASE OutProcessEnd
    BY <1>0, <1>4, QueuesKept DEF OutProcessEnd, inTask, application
  <1>5. CASE OutRelease
    <2>1. /\ Head(listIn) \in Elems /\ Tail(listIn) \in Seq(Elems) /\ elem[Head(listIn)] \in ElemType
      BY <1>0, <1>5, QueueGet DEF OutRelease, Queues
    <2>2. Append(elemQue, Head(listIn)) \in Seq(Elems)
      BY <1>0, <2>1, TimesPut DEF Queues
    <2>3. elem[Head(listIn)].buf \in Bufs
      BY <1>0, <1>5, ReleasedBuf
    <2>4. Append(freeList, elem[Head(listIn)].buf) \in Seq(Bufs)
      BY <1>0, <2>3, TimesPut DEF Queues
    <2>5. elem' \in [Elems -> ElemType]
      BY <1>0, <1>5, <2>1 DEF OutRelease, FreeTheElem, FreeElem, ElemType, Queues
    <2> QED BY <1>0, <1>5, <2>1, <2>2, <2>4, <2>5
        DEF OutRelease, FreeTheElem, Queues, encoder, inTask, application
  <1>6. CASE OutReleaseEnd
    <2>1. free \o freeList \in Seq(Bufs)
      BY <1>0, TimesJoin DEF Queues
    <2> QED BY <1>0, <1>6, <2>1, TimesNone DEF OutReleaseEnd, Queues, elements, lists, inTask,
       application
  <1>7. CASE InTake
    <2>1. Head(listOut) \in Elems /\ Tail(listOut) \in Seq(Elems)
      BY <1>0, <1>7, QueueGet DEF InTake, Queues
    <2>2. Append(outQue, Head(listOut)) \in Seq(Elems)
      BY <1>0, <2>1, TimesPut DEF Queues
    <2>3. elem' \in [Elems -> ElemType]
      BY <1>0, <1>7, <2>1, Taking DEF InTake, Moves
    <2> QED BY <1>0, <1>7, <2>1, <2>2, <2>3 DEF InTake, Queues, encoder, outTask, application
  <1>8. CASE GetFullBitBufs
    BY <1>0, <1>8, TimesNone DEF GetFullBitBufs, Queues, encoder, elements, lists, outTask
  <1>9. CASE PutEmptyBitBuf
    <2>1. Head(held) \in Elems /\ Tail(held) \in Seq(Elems)
      BY <1>0, <1>9, QueueGet DEF PutEmptyBitBuf, Queues
    <2>2. Append(listIn, Head(held)) \in Seq(Elems)
      BY <1>0, <2>1, TimesPut DEF Queues
    <2>3. elem' \in [Elems -> ElemType]
      BY <1>0, <1>9, <2>1, Putting DEF Moves
    <2> QED BY <1>0, <1>9, <2>1, <2>2, <2>3 DEF PutEmptyBitBuf, Queues, encoder, outTask, inTask
  <1>10. CASE DeleteOut
    BY <1>0, <1>10, TimesNone DEF DeleteOut, Queues, encoder, lists, outTask, inTask, application
  <1>11. CASE InDelete
    BY <1>0, <1>11, TimesNone DEF InDelete, Queues, encoder, elements, lists, outTask, application
  <1>12. CASE CreateOut
    <2>1. elem' \in [Elems -> ElemType]
      BY <1>12 DEF CreateOut, FreeElem, ElemType
    <2>2. SetToSeq(config.bufs) \in Seq(Bufs) /\ SetToSeq(Elems) \in Seq(Elems)
      BY <1>0, Full DEF Control
    <2> QED BY <1>0, <1>12, <2>1, <2>2, TimesNone
        DEF CreateOut, ResetLists, Queues, outTask, inTask, application
  <1>13. CASE InCreate
    BY <1>0, <1>13, TimesNone DEF InCreate, Queues, encoder, elements, outTask
  <1>14. CASE \/ OutNotified \/ OutTimer \/ InNotified \/ PeriodicTask \/ InReceiveNewData \/ InTakeEnd
    BY <1>0, <1>14, QueuesKept DEF OutNotified, OutTimer, InNotified, PeriodicTask,
       InReceiveNewData,
       InTakeEnd, outTask, inTask, application
  <1>15. CASE AppWake \/ PutNotify \/ AppLoop
    BY <1>0, <1>15, QueuesKept DEF AppWake, PutNotify, AppLoop, outTask, inTask
  <1>16. CASE \/ App_ipcBitsStop \/ Stop \/ SendToIn("noOut", "delete", "deleting")
              \/ SendToIn("outOnly", "create", "creating")
    BY <1>0, <1>16, QueuesKept DEF App_ipcBitsStop, Stop, SendToIn, outTask, inTask, application
  <1> QED
    BY <1>1, <1>2, <1>3, <1>4, <1>5, <1>6, <1>7, <1>8, <1>9, <1>10, <1>11, <1>12, <1>13, <1>14,
       <1>15, <1>16
    DEF Next, Out, In, App, Main

(***************************************************************************)
(* Where the elements are.                                                  *)
(***************************************************************************)
LEMMA Place ==
  ASSUME Queues, NEW e \in Elems, Located(e)
  PROVE  /\ Times(e, elemQue) \in Nat /\ Times(e, listOut) \in Nat /\ Times(e, outQue) \in Nat
         /\ Times(e, held) \in Nat /\ Times(e, listIn) \in Nat
         /\ elem[e] \in ElemType
         /\ Times(e, elemQue) # 0 <=> elem[e].bufState = "FREE"
         /\ Times(e, listOut) # 0 <=> elem[e].bufState = "OUTQUE"
         /\ Times(e, listIn) # 0 <=> elem[e].bufState = "INQUE"
         /\ Times(e, outQue) + Times(e, held) # 0 <=> elem[e].bufState = "DEQUEUED"
  <1>1. /\ Times(e, elemQue) \in Nat /\ Times(e, listOut) \in Nat /\ Times(e, outQue) \in Nat
        /\ Times(e, held) \in Nat /\ Times(e, listIn) \in Nat
    BY TimesAt DEF Queues
  <1>2. elem[e] \in ElemType
    BY DEF Queues
  <1>3. elem[e].bufState \in {"FREE", "OUTQUE", "DEQUEUED", "INQUE"}
    BY <1>2 DEF ElemType
  <1>4. Times(e, elemQue) + Times(e, listOut) + Times(e, outQue) + Times(e, held)
        + Times(e, listIn) = 1
    BY DEF Located
  <1>5. CASE elem[e].bufState = "FREE"
    <2>1. Times(e, elemQue) = 1
      BY <1>5 DEF Located
    <2> QED BY <1>1, <1>2, <1>4, <1>5, <2>1
  <1>6. CASE elem[e].bufState = "OUTQUE"
    <2>1. Times(e, listOut) = 1
      BY <1>6 DEF Located
    <2> QED BY <1>1, <1>2, <1>4, <1>6, <2>1
  <1>7. CASE elem[e].bufState = "INQUE"
    <2>1. Times(e, listIn) = 1
      BY <1>7 DEF Located
    <2> QED BY <1>1, <1>2, <1>4, <1>7, <2>1
  <1>8. CASE elem[e].bufState = "DEQUEUED"
    <2>1. Times(e, outQue) + Times(e, held) = 1
      BY <1>8 DEF Located
    <2> QED BY <1>1, <1>2, <1>4, <1>8, <2>1
  <1> QED BY <1>3, <1>5, <1>6, <1>7, <1>8

LEMMA OneOfFive ==
  ASSUME NEW a \in Nat, NEW b \in Nat, NEW c \in Nat, NEW d \in Nat, NEW x \in Nat,
         a + b + c + d + x = 1
  PROVE  /\ a = 1 => b = 0 /\ c = 0 /\ d = 0 /\ x = 0
         /\ b = 1 => a = 0 /\ c = 0 /\ d = 0 /\ x = 0
         /\ c = 1 => a = 0 /\ b = 0 /\ d = 0 /\ x = 0
         /\ d = 1 => a = 0 /\ b = 0 /\ c = 0 /\ x = 0
         /\ x = 1 => a = 0 /\ b = 0 /\ c = 0 /\ d = 0
  OBVIOUS

LEMMA OnePlaceOnly ==
  ASSUME Queues, NEW e \in Elems, Located(e)
  PROVE  /\ Times(e, elemQue) = 1 => /\ Times(e, listOut) = 0 /\ Times(e, outQue) = 0
                                     /\ Times(e, held) = 0 /\ Times(e, listIn) = 0
         /\ Times(e, listOut) = 1 => /\ Times(e, elemQue) = 0 /\ Times(e, outQue) = 0
                                     /\ Times(e, held) = 0 /\ Times(e, listIn) = 0
         /\ Times(e, held) = 1 => /\ Times(e, elemQue) = 0 /\ Times(e, listOut) = 0
                                  /\ Times(e, outQue) = 0 /\ Times(e, listIn) = 0
         /\ Times(e, listIn) = 1 => /\ Times(e, elemQue) = 0 /\ Times(e, listOut) = 0
                                    /\ Times(e, outQue) = 0 /\ Times(e, held) = 0
  <1>1. PICK a \in Nat, b \in Nat, c \in Nat, d \in Nat, x \in Nat :
           /\ Times(e, elemQue) = a /\ Times(e, listOut) = b /\ Times(e, outQue) = c
           /\ Times(e, held) = d /\ Times(e, listIn) = x
    BY Place
  <1>2. a + b + c + d + x = 1
    BY <1>1 DEF Located
  <1> QED BY <1>1, <1>2, OneOfFive

LEMMA LocatedKept ==
  ASSUME NEW e \in Elems, Located(e), UNCHANGED <<elements, lists, outQue, held>>
  PROVE  Located(e)'
  BY DEF Located, elements, lists, FreeElem

LEMMA LocatedSend ==
  ASSUME BitsInv, OutSend, NEW e \in Elems PROVE Located(e)'
  <1>1. PICK h, b : h = Head(elemQue) /\ b = Head(todo)
    OBVIOUS
  <1>2. /\ Queues /\ OutUp /\ elemQue # << >> /\ elemQue' = Tail(elemQue) /\ listOut' = Append(listOut, h)
        /\ UNCHANGED <<outQue, held, listIn>>
    BY <1>1 DEF BitsInv, Life, OutSend, PutTail, inTask, application
  <1>3. /\ h \in Elems /\ b \in Bufs /\ b # NoBuf
        /\ Moves(h, "OUTQUE", elem[h].owner, b)
    BY <1>1, <1>2, Sending, BitsAssumption
  <1>4. /\ Times(e, elemQue) = Here(e, h) + Times(e, elemQue')
        /\ Times(e, listOut') = Times(e, listOut) + Here(e, h)
        /\ Times(e, outQue') = Times(e, outQue) /\ Times(e, held') = Times(e, held)
        /\ Times(e, listIn') = Times(e, listIn) /\ Times(e, elemQue') \in Nat
    <2>1. /\ Times(e, elemQue) = Here(e, h) + Times(e, elemQue') /\ elemQue' \in Seq(Elems)
      BY <1>1, <1>2, TimesGet DEF Queues
    <2>2. Times(e, listOut') = Times(e, listOut) + Here(e, h)
      BY <1>2, <1>3, TimesPut DEF Queues
    <2> QED BY <1>2, <2>1, <2>2, TimesAt
  <1>5. Located(e)
    BY <1>2 DEF BitsInv
  <1>6. CASE e # h
    <2>1. elem'[e] = elem[e] /\ Here(e, h) = 0
      BY <1>3, <1>6 DEF Moves, Here
    <2> QED BY <1>2, <1>4, <1>5, <2>1, Place DEF Located, FreeElem
  <1>7. CASE e = h
    <2>1. elem'[e] = [bufState |-> "OUTQUE", owner |-> elem[e].owner, buf |-> b] /\ Here(e, h) = 1
      BY <1>3, <1>7 DEF Moves, Here
    <2>2. elem[e].bufState = "FREE" /\ Times(e, elemQue) = 1
      BY <1>2, <1>4, <1>5, <2>1, Place DEF Located
    <2>3. elem[e].owner = "Out"
      BY <1>5, <2>2 DEF Located, FreeElem
    <2>4. /\ Times(e, elemQue') = 0 /\ Times(e, listOut') = 1 /\ Times(e, outQue') = 0
          /\ Times(e, held') = 0 /\ Times(e, listIn') = 0
      BY <1>2, <1>4, <1>5, <2>1, <2>2, OnePlaceOnly
    <2> QED BY <1>3, <2>1, <2>3, <2>4 DEF Located
  <1> QED BY <1>6, <1>7

LEMMA LocatedTake ==
  ASSUME BitsInv, InTake, OutUp, NEW e \in Elems PROVE Located(e)'
  <1>1. PICK h : h = Head(listOut)
    OBVIOUS
  <1>2. /\ Queues /\ listOut # << >> /\ listOut' = Tail(listOut) /\ outQue' = Append(outQue, h)
        /\ UNCHANGED <<elemQue, held, listIn>>
    BY <1>1 DEF BitsInv, InTake, application
  <1>3. h \in Elems /\ Moves(h, "DEQUEUED", "In", elem[h].buf)
    BY <1>1, <1>2, Taking DEF InTake
  <1>4. /\ Times(e, listOut) = Here(e, h) + Times(e, listOut')
        /\ Times(e, outQue') = Times(e, outQue) + Here(e, h)
        /\ Times(e, elemQue') = Times(e, elemQue) /\ Times(e, held') = Times(e, held)
        /\ Times(e, listIn') = Times(e, listIn) /\ Times(e, listOut') \in Nat
    <2>1. /\ Times(e, listOut) = Here(e, h) + Times(e, listOut') /\ listOut' \in Seq(Elems)
      BY <1>1, <1>2, TimesGet DEF Queues
    <2>2. Times(e, outQue') = Times(e, outQue) + Here(e, h)
      BY <1>2, <1>3, TimesPut DEF Queues
    <2> QED BY <1>2, <2>1, <2>2, TimesAt
  <1>5. Located(e)
    BY DEF BitsInv
  <1>6. CASE e # h
    <2>1. elem'[e] = elem[e] /\ Here(e, h) = 0
      BY <1>3, <1>6 DEF Moves, Here
    <2> QED BY <1>2, <1>4, <1>5, <2>1, Place DEF Located, FreeElem
  <1>7. CASE e = h
    <2>1. elem'[e] = [bufState |-> "DEQUEUED", owner |-> "In", buf |-> elem[e].buf] /\ Here(e, h) = 1
      BY <1>3, <1>7 DEF Moves, Here
    <2>2. elem[e].bufState = "OUTQUE" /\ Times(e, listOut) = 1
      BY <1>2, <1>4, <1>5, <2>1, Place DEF Located
    <2>3. elem[e].buf # NoBuf
      BY <1>5, <2>2 DEF Located
    <2>4. /\ Times(e, elemQue') = 0 /\ Times(e, listOut') = 0 /\ Times(e, outQue') = 1
          /\ Times(e, held') = 0 /\ Times(e, listIn') = 0
      BY <1>2, <1>4, <1>5, <2>1, <2>2, OnePlaceOnly
    <2> QED BY <2>1, <2>3, <2>4 DEF Located
  <1> QED BY <1>6, <1>7

LEMMA LocatedPut ==
  ASSUME BitsInv, PutEmptyBitBuf, OutUp, NEW e \in Elems PROVE Located(e)'
  <1>1. PICK h : h = Head(held)
    OBVIOUS
  <1>2. /\ Queues /\ held # << >> /\ held' = Tail(held) /\ listIn' = Append(listIn, h)
        /\ UNCHANGED <<elemQue, listOut, outQue>>
    BY <1>1 DEF BitsInv, PutEmptyBitBuf, inTask
  <1>3. h \in Elems /\ Moves(h, "INQUE", elem[h].owner, elem[h].buf)
    BY <1>1, <1>2, Putting
  <1>4. /\ Times(e, held) = Here(e, h) + Times(e, held')
        /\ Times(e, listIn') = Times(e, listIn) + Here(e, h)
        /\ Times(e, elemQue') = Times(e, elemQue) /\ Times(e, listOut') = Times(e, listOut)
        /\ Times(e, outQue') = Times(e, outQue) /\ Times(e, held') \in Nat
    <2>1. /\ Times(e, held) = Here(e, h) + Times(e, held') /\ held' \in Seq(Elems)
      BY <1>1, <1>2, TimesGet DEF Queues
    <2>2. Times(e, listIn') = Times(e, listIn) + Here(e, h)
      BY <1>2, <1>3, TimesPut DEF Queues
    <2> QED BY <1>2, <2>1, <2>2, TimesAt
  <1>5. Located(e)
    BY DEF BitsInv
  <1>6. CASE e # h
    <2>1. elem'[e] = elem[e] /\ Here(e, h) = 0
      BY <1>3, <1>6 DEF Moves, Here
    <2> QED BY <1>2, <1>4, <1>5, <2>1, Place DEF Located, FreeElem
  <1>7. CASE e = h
    <2>1. elem'[e] = [bufState |-> "INQUE", owner |-> elem[e].owner, buf |-> elem[e].buf] /\ Here(e, h) = 1
      BY <1>3, <1>7 DEF Moves, Here
    <2>2. elem[e].bufState = "DEQUEUED" /\ Times(e, held) = 1
      BY <1>2, <1>4, <1>5, <2>1, Place DEF Located
    <2>3. elem[e].buf # NoBuf /\ elem[e].owner = "In"
      BY <1>5, <2>2 DEF Located
    <2>4. /\ Times(e, elemQue') = 0 /\ Times(e, listOut') = 0 /\ Times(e, outQue') = 0
          /\ Times(e, held') = 0 /\ Times(e, listIn') = 1
      BY <1>2, <1>4, <1>5, <2>1, <2>2, OnePlaceOnly
    <2> QED BY <2>1, <2>3, <2>4 DEF Located
  <1> QED BY <1>6, <1>7

LEMMA LocatedRelease ==
  ASSUME BitsInv, OutRelease, NEW e \in Elems PROVE Located(e)'
  <1>1. PICK h : h = Head(listIn)
    OBVIOUS
  <1>2. /\ Queues /\ OutUp /\ listIn # << >> /\ listIn' = Tail(listIn) /\ elemQue' = Append(elemQue, h)
        /\ UNCHANGED <<listOut, outQue, held>>
    BY <1>1 DEF BitsInv, Life, OutRelease, FreeTheElem, inTask, application
  <1>3. h \in Elems /\ Moves(h, "FREE", "Out", NoBuf)
    BY <1>1, <1>2, Freeing
  <1>4. /\ Times(e, listIn) = Here(e, h) + Times(e, listIn')
        /\ Times(e, elemQue') = Times(e, elemQue) + Here(e, h)
        /\ Times(e, outQue') = Times(e, outQue) /\ Times(e, held') = Times(e, held)
        /\ Times(e, listOut') = Times(e, listOut) /\ Times(e, listIn') \in Nat
    <2>1. /\ Times(e, listIn) = Here(e, h) + Times(e, listIn') /\ listIn' \in Seq(Elems)
      BY <1>1, <1>2, TimesGet DEF Queues
    <2>2. Times(e, elemQue') = Times(e, elemQue) + Here(e, h)
      BY <1>2, <1>3, TimesPut DEF Queues
    <2> QED BY <1>2, <2>1, <2>2, TimesAt
  <1>5. Located(e)
    BY <1>2 DEF BitsInv
  <1>6. CASE e # h
    <2>1. elem'[e] = elem[e] /\ Here(e, h) = 0
      BY <1>3, <1>6 DEF Moves, Here
    <2> QED BY <1>2, <1>4, <1>5, <2>1, Place DEF Located, FreeElem
  <1>7. CASE e = h
    <2>1. elem'[e] = FreeElem' /\ elem'[e].bufState = "FREE" /\ Here(e, h) = 1
      BY <1>3, <1>7 DEF Moves, Here, FreeElem
    <2>2. Times(e, listIn) = 1
      BY <1>2, <1>4, <1>5, <2>1, Place DEF Located
    <2>3. /\ Times(e, elemQue') = 1 /\ Times(e, listOut') = 0 /\ Times(e, outQue') = 0
          /\ Times(e, held') = 0 /\ Times(e, listIn') = 0
      BY <1>2, <1>4, <1>5, <2>1, <2>2, OnePlaceOnly
    <2> QED BY <2>1, <2>3 DEF Located
  <1> QED BY <1>6, <1>7

LEMMA LocatedGet ==
  ASSUME BitsInv, GetFullBitBufs, OutUp, NEW e \in Elems PROVE Located(e)'
  <1>1. /\ Queues /\ held = << >> /\ held' = outQue /\ outQue' = << >>
        /\ UNCHANGED <<elem, elemQue, listOut, listIn>>
    BY DEF BitsInv, Life, GetFullBitBufs, elements, lists
  <1>2. Times(e, held) = 0 /\ Times(e, held') = Times(e, outQue) /\ Times(e, outQue') = 0
        /\ Times(e, outQue) \in Nat
    BY <1>1, TimesNone, TimesAt DEF Queues
  <1>3. Located(e)
    BY DEF BitsInv
  <1> QED BY <1>1, <1>2, <1>3, Place DEF Located, FreeElem

LEMMA LocatedNew ==
  ASSUME BitsInv, CreateOut, NEW e \in Elems PROVE Located(e)'
  <1>1. /\ config \in Configs /\ outQue = << >> /\ held = << >> /\ UNCHANGED <<outQue, held>>
        /\ elemQue' = SetToSeq(Elems) /\ elem'[e] = FreeElem /\ listOut' = << >> /\ listIn' = << >>
    BY DEF BitsInv, Control, Life, CreateOut, ResetLists, inTask, application
  <1>2. /\ Times(e, elemQue') = 1 /\ Times(e, outQue') = 0 /\ Times(e, held') = 0
        /\ Times(e, listOut') = 0 /\ Times(e, listIn') = 0
    BY <1>1, Full, TimesNone
  <1>3. elem'[e] = FreeElem' /\ elem'[e].bufState = "FREE"
    BY <1>1 DEF FreeElem
  <1> QED BY <1>2, <1>3 DEF Located

LEMMA ElementsStep == ASSUME BitsInv, Next, OutUp', NEW e \in Elems PROVE Located(e)'
  <1>0. Life
    BY DEF BitsInv
  <1>1. CASE OutSend
    BY <1>1, LocatedSend
  <1>2. CASE OutRelease
    BY <1>2, LocatedRelease
  <1>3. CASE InTake
    <2>1. OutUp
      BY <1>3 DEF InTake, life, OutUp
    <2> QED BY <1>3, <2>1, LocatedTake
  <1>4. CASE GetFullBitBufs
    <2>1. OutUp
      BY <1>4 DEF GetFullBitBufs, life, OutUp
    <2> QED BY <1>4, <2>1, LocatedGet
  <1>5. CASE PutEmptyBitBuf
    <2>1. OutUp
      BY <1>5 DEF PutEmptyBitBuf, life, OutUp
    <2> QED BY <1>5, <2>1, LocatedPut
  <1>6. CASE CreateOut
    BY <1>6, LocatedNew
  <1>7. CASE InCreate
    <2>1. stage = "creating"
      BY <1>7, OneCommand DEF InCreate, BitsInv
    <2>2. Located(e)
      BY <2>1 DEF BitsInv, OutUp
    <2>3. UNCHANGED <<elements, lists, outQue, held>>
      BY <1>0, <1>7, <2>1 DEF InCreate, Life, lists
    <2> QED BY <2>2, <2>3, LocatedKept
  <1>8. CASE DeleteOut \/ SendToIn("noOut", "delete", "deleting") \/ InDelete
    BY <1>8 DEF DeleteOut, SendToIn, InDelete, Enter, OutUp
  <1>9. CASE \/ Finish \/ (\E cmd \in {"newData", "release"} : OutReceive(cmd)) \/ OutProcessEnd
             \/ OutReleaseEnd \/ OutNotified \/ OutTimer
    <2>1. OutUp
      BY <1>9 DEF Finish, OutReceive, OutProcessEnd, OutReleaseEnd, OutNotified, OutTimer, life,
         OutUp
    <2>2. UNCHANGED <<elements, lists, outQue, held>>
      BY <1>9 DEF Finish, OutReceive, OutProcessEnd, OutReleaseEnd, OutNotified, OutTimer,
         inTask, application
    <2> QED BY <2>1, <2>2, LocatedKept DEF BitsInv
  <1>10. CASE \/ InNotified \/ PeriodicTask \/ InReceiveNewData \/ InTakeEnd \/ AppWake \/ PutNotify
              \/ AppLoop
    <2>1. OutUp
      BY <1>10 DEF InNotified, PeriodicTask, InReceiveNewData, InTakeEnd, AppWake, PutNotify,
         AppLoop, life, OutUp
    <2>2. UNCHANGED <<elements, lists, outQue, held>>
      BY <1>10 DEF InNotified, PeriodicTask, InReceiveNewData, InTakeEnd, AppWake, PutNotify,
         AppLoop, inTask, application
    <2> QED BY <2>1, <2>2, LocatedKept DEF BitsInv
  <1>11. CASE App_ipcBitsStop \/ Stop \/ SendToIn("outOnly", "create", "creating")
    <2>1. OutUp
      BY <1>11 DEF App_ipcBitsStop, Stop, SendToIn, OutUp
    <2>2. UNCHANGED <<elements, lists, outQue, held>>
      BY <1>11 DEF App_ipcBitsStop, Stop, SendToIn, inTask, application
    <2> QED BY <2>1, <2>2, LocatedKept DEF BitsInv
  <1> QED
    BY <1>1, <1>2, <1>3, <1>4, <1>5, <1>6, <1>7, <1>8, <1>9, <1>10, <1>11
    DEF Next, Out, In, App, Main

(***************************************************************************)
(* Where the encoder's buffers are.                                         *)
(***************************************************************************)
LEMMA CarryingSize == \A b : IsFiniteSet(Carrying(b)) /\ Cardinality(Carrying(b)) \in Nat
  <1>1. \A b : Carrying(b) \in SUBSET Elems
    BY DEF Carrying
  <1>2. IsFiniteSet(Elems)
    BY BitsAssumption
  <1> QED BY <1>1, <1>2, FS_Subset, FS_CardinalityType

(* An element that moves may take a buffer or give one back.                *)
LEMMA CarryingMoves ==
  ASSUME NEW h \in Elems, NEW state, NEW owner, NEW new, Moves(h, state, owner, new), NEW b
  PROVE  Cardinality(Carrying(b))' = Cardinality(Carrying(b)) - Here(b, elem[h].buf) + Here(b, new)
  <1>1. PICK C, D : C = Carrying(b) /\ D = Carrying(b)'
    OBVIOUS
  <1>2. IsFiniteSet(C) /\ Cardinality(C) \in Nat
    BY <1>1, CarryingSize
  <1>3. /\ h \in C <=> elem[h].buf = b
        /\ h \in D <=> new = b
        /\ D \ {h} = C \ {h}
    BY <1>1 DEF Carrying, Moves
  <1>4. /\ IsFiniteSet(C \ {h}) /\ Cardinality(C \ {h}) \in Nat
        /\ Cardinality(C \ {h}) = Cardinality(C) - Here(b, elem[h].buf)
    BY <1>2, <1>3, FS_RemoveElement, FS_CardinalityType DEF Here
  <1>5. Cardinality(D) = Cardinality(C \ {h}) + Here(b, new)
    <2>1. CASE new = b
      <3>1. D = (C \ {h}) \cup {h} /\ h \notin C \ {h}
        BY <1>3, <2>1
      <3>2. Cardinality((C \ {h}) \cup {h}) = Cardinality(C \ {h}) + 1
        BY <1>4, <3>1, FS_AddElement
      <3> QED BY <2>1, <3>1, <3>2 DEF Here
    <2>2. CASE new # b
      <3>1. D = C \ {h}
        BY <1>3, <2>2
      <3> QED BY <1>4, <2>2, <3>1 DEF Here
    <2> QED BY <2>1, <2>2
  <1> QED BY <1>1, <1>4, <1>5

(* The parts of Buffer(b) are numbers.                                      *)
LEMMA BufferTypes ==
  ASSUME Queues, NEW b
  PROVE  /\ Times(b, free) \in Nat /\ Times(b, inQue) \in Nat /\ Times(b, todo) \in Nat
         /\ Times(b, freeList) \in Nat /\ Cardinality(Carrying(b)) \in Nat
  BY TimesAt, CarryingSize DEF Queues

LEMMA BufferKept ==
  ASSUME NEW b, Buffer(b), UNCHANGED <<config, free, inQue, todo, freeList>>,
         Cardinality(Carrying(b))' = Cardinality(Carrying(b))
  PROVE  Buffer(b)'
  BY DEF Buffer

LEMMA BufferStays ==
  ASSUME NEW b, Buffer(b), UNCHANGED <<config, free, inQue, todo, freeList, elem>>
  PROVE  Buffer(b)'
  BY DEF Buffer, Carrying

LEMMA BufferFinish ==
  ASSUME BitsInv, Finish, NEW b \in Bufs, Buffer(b) PROVE Buffer(b)'
  <1>1. /\ Queues /\ free # << >> /\ free' = Tail(free) /\ inQue' = Append(inQue, Head(free))
        /\ UNCHANGED <<config, todo, freeList, elem>>
    BY DEF BitsInv, Finish, life, elements, outTask
  <1>2. /\ Head(free) \in Bufs /\ free' \in Seq(Bufs)
        /\ Times(b, free) = Here(b, Head(free)) + Times(b, free')
    BY <1>1, TimesGet DEF Queues
  <1>3. Times(b, inQue') = Times(b, inQue) + Here(b, Head(free))
    BY <1>1, <1>2, TimesPut DEF Queues
  <1>4. /\ Times(b, free') \in Nat /\ Here(b, Head(free)) \in Nat
        /\ Times(b, free) \in Nat /\ Times(b, inQue) \in Nat /\ Times(b, todo) \in Nat
        /\ Times(b, freeList) \in Nat /\ Cardinality(Carrying(b)) \in Nat
    BY <1>1, <1>2, TimesAt, BufferTypes DEF Here
  <1>5. /\ Times(b, todo') = Times(b, todo) /\ Times(b, freeList') = Times(b, freeList)
        /\ Cardinality(Carrying(b))' = Cardinality(Carrying(b)) /\ config' = config
    BY <1>1 DEF Carrying
  <1> QED BY <1>2, <1>3, <1>4, <1>5 DEF Buffer

LEMMA BufferReceive ==
  ASSUME BitsInv, NEW cmd, OutReceive(cmd), NEW b \in Bufs, Buffer(b) PROVE Buffer(b)'
  <1>1. /\ Queues /\ todo = << >> /\ UNCHANGED <<config, free, freeList, elem>>
        /\ UNCHANGED <<todo, inQue>> \/ (todo' = inQue /\ inQue' = << >>)
    BY DEF BitsInv, Life, OutReceive, life, elements
  <1>2. CASE UNCHANGED <<todo, inQue>>
    BY <1>1, <1>2, BufferStays
  <1>3. CASE todo' = inQue /\ inQue' = << >>
    <2>1. /\ Times(b, todo) = 0 /\ Times(b, todo') = Times(b, inQue) /\ Times(b, inQue') = 0
          /\ Times(b, free') = Times(b, free) /\ Times(b, freeList') = Times(b, freeList)
          /\ Cardinality(Carrying(b))' = Cardinality(Carrying(b)) /\ config' = config
      BY <1>1, <1>3, TimesNone DEF Carrying
    <2>2. /\ Times(b, free) \in Nat /\ Times(b, inQue) \in Nat
          /\ Times(b, freeList) \in Nat /\ Cardinality(Carrying(b)) \in Nat
      BY <1>1, BufferTypes
    <2> QED BY <2>1, <2>2 DEF Buffer
  <1> QED BY <1>1, <1>2, <1>3

LEMMA BufferSend ==
  ASSUME BitsInv, OutSend, NEW b \in Bufs, Buffer(b) PROVE Buffer(b)'
  <1>1. /\ Queues /\ OutUp /\ todo # << >> /\ todo' = Tail(todo) /\ elemQue # << >>
        /\ UNCHANGED <<config, free, inQue, freeList>>
    BY DEF BitsInv, Life, OutSend, life, encoder
  <1>2. PICK h, x : h = Head(elemQue) /\ x = Head(todo)
    OBVIOUS
  <1>3. h \in Elems /\ x \in Bufs /\ Moves(h, "OUTQUE", elem[h].owner, x)
    BY <1>1, <1>2, Sending
  <1>4. elem[h].buf = NoBuf
    <2>1. Located(h) /\ Times(h, elemQue) # 0
      BY <1>1, <1>2, <1>3, HeadIsIn DEF BitsInv, Queues
    <2>2. elem[h].bufState = "FREE"
      BY <1>1, <1>3, <2>1, Place
    <2> QED BY <2>1, <2>2 DEF Located, FreeElem
  <1>5. /\ Cardinality(Carrying(b))' = Cardinality(Carrying(b)) + Here(b, x)
        /\ Cardinality(Carrying(b)) \in Nat /\ Here(b, x) \in Nat
    <2>1. Cardinality(Carrying(b))' = Cardinality(Carrying(b)) - Here(b, elem[h].buf) + Here(b, x)
      BY <1>3, CarryingMoves
    <2>2. Here(b, elem[h].buf) = 0 /\ Here(b, x) \in Nat
      BY <1>4, BitsAssumption DEF Here
    <2> QED BY <2>1, <2>2, CarryingSize
  <1>6. /\ Times(b, todo) = Here(b, x) + Times(b, todo') /\ Times(b, todo') \in Nat
    <2>1. todo' \in Seq(Bufs) /\ Times(b, todo) = Here(b, x) + Times(b, todo')
      BY <1>1, <1>2, TimesGet DEF Queues
    <2> QED BY <2>1, TimesAt
  <1>7. /\ Times(b, free) \in Nat /\ Times(b, inQue) \in Nat /\ Times(b, freeList) \in Nat
        /\ Times(b, free') = Times(b, free) /\ Times(b, inQue') = Times(b, inQue)
        /\ Times(b, freeList') = Times(b, freeList) /\ config' = config
    BY <1>1, BufferTypes
  <1> QED BY <1>5, <1>6, <1>7 DEF Buffer

LEMMA BufferRelease ==
  ASSUME BitsInv, OutRelease, NEW b \in Bufs, Buffer(b) PROVE Buffer(b)'
  <1>1. /\ Queues /\ freeList' = Append(freeList, elem[Head(listIn)].buf)
        /\ UNCHANGED <<config, free, inQue, todo>>
    BY DEF BitsInv, OutRelease, life, encoder
  <1>2. PICK h, x : h = Head(listIn) /\ x = elem[h].buf
    OBVIOUS
  <1>3. h \in Elems /\ x \in Bufs /\ Moves(h, "FREE", "Out", NoBuf)
    BY <1>1, <1>2, Freeing, ReleasedBuf
  <1>4. /\ Cardinality(Carrying(b))' = Cardinality(Carrying(b)) - Here(b, x)
        /\ Cardinality(Carrying(b)) \in Nat /\ Here(b, x) \in Nat
    <2>1. Cardinality(Carrying(b))' = Cardinality(Carrying(b)) - Here(b, x) + Here(b, NoBuf)
      BY <1>2, <1>3, CarryingMoves
    <2>2. Here(b, NoBuf) = 0 /\ Here(b, x) \in Nat
      BY BitsAssumption DEF Here
    <2> QED BY <2>1, <2>2, CarryingSize
  <1>5. Times(b, freeList') = Times(b, freeList) + Here(b, x)
    BY <1>1, <1>2, <1>3, TimesPut DEF Queues
  <1>6. /\ Times(b, free) \in Nat /\ Times(b, inQue) \in Nat /\ Times(b, todo) \in Nat
        /\ Times(b, freeList) \in Nat
        /\ Times(b, free') = Times(b, free) /\ Times(b, inQue') = Times(b, inQue)
        /\ Times(b, todo') = Times(b, todo) /\ config' = config
    BY <1>1, BufferTypes
  <1> QED BY <1>4, <1>5, <1>6 DEF Buffer

LEMMA BufferReleaseEnd ==
  ASSUME BitsInv, OutReleaseEnd, NEW b \in Bufs, Buffer(b) PROVE Buffer(b)'
  <1>1. /\ Queues /\ free' = free \o freeList /\ freeList' = << >>
        /\ UNCHANGED <<config, inQue, todo, elem>>
    BY DEF BitsInv, OutReleaseEnd, life, elements
  <1>2. /\ Times(b, free') = Times(b, free) + Times(b, freeList) /\ Times(b, freeList') = 0
        /\ Times(b, inQue') = Times(b, inQue) /\ Times(b, todo') = Times(b, todo)
        /\ Cardinality(Carrying(b))' = Cardinality(Carrying(b)) /\ config' = config
    BY <1>1, TimesNone, TimesJoin DEF Carrying, Queues
  <1>3. /\ Times(b, free) \in Nat /\ Times(b, inQue) \in Nat /\ Times(b, todo) \in Nat
        /\ Times(b, freeList) \in Nat /\ Cardinality(Carrying(b)) \in Nat
    BY <1>1, BufferTypes
  <1> QED BY <1>2, <1>3 DEF Buffer

LEMMA BufferNew ==
  ASSUME BitsInv, CreateOut, NEW b \in Bufs PROVE Buffer(b)'
  <1>1. /\ config \in Configs /\ config' = config /\ todo' = << >> /\ freeList' = << >>
        /\ inQue' = << >> /\ free' = SetToSeq(config.bufs) /\ elem' = [e \in Elems |-> FreeElem]
    BY DEF BitsInv, Control, Life, CreateOut, Enter, outTask, OutUp
  <1>2. Carrying(b)' = {}
    BY <1>1, BitsAssumption DEF Carrying, FreeElem
  <1>3. /\ Times(b, free') = IF b \in config.bufs THEN 1 ELSE 0
        /\ Times(b, inQue') = 0 /\ Times(b, todo') = 0 /\ Times(b, freeList') = 0
        /\ Cardinality(Carrying(b))' = 0
    BY <1>1, <1>2, Full, TimesNone, FS_EmptySet
  <1> QED BY <1>1, <1>3 DEF Buffer

LEMMA BufferMoves ==
  ASSUME BitsInv, InTake \/ PutEmptyBitBuf, NEW b \in Bufs, Buffer(b) PROVE Buffer(b)'
  <1>1. Queues /\ UNCHANGED <<config, free, inQue, todo, freeList>>
    BY DEF BitsInv, InTake, PutEmptyBitBuf, life, encoder, outTask
  <1>2. \E h, state, owner : h \in Elems /\ Moves(h, state, owner, elem[h].buf)
    <2>1. CASE InTake
      BY <1>1, <2>1, Taking DEF InTake
    <2>2. CASE PutEmptyBitBuf
      BY <1>1, <2>2, Putting
    <2> QED BY <2>1, <2>2
  <1>3. PICK h, state, owner : h \in Elems /\ Moves(h, state, owner, elem[h].buf)
    BY <1>2
  <1>4. PICK x : x = elem[h].buf
    OBVIOUS
  <1>5. Cardinality(Carrying(b))' = Cardinality(Carrying(b)) - Here(b, x) + Here(b, x)
    BY <1>3, <1>4, CarryingMoves
  <1>6. Cardinality(Carrying(b)) \in Nat /\ Here(b, x) \in Nat
    BY CarryingSize DEF Here
  <1>7. Cardinality(Carrying(b))' = Cardinality(Carrying(b))
    BY <1>5, <1>6
  <1> QED BY <1>1, <1>7, BufferKept

LEMMA BuffersStep == ASSUME BitsInv, Next, OutUp', NEW b \in Bufs PROVE Buffer(b)'
  <1>1. CASE CreateOut
    BY <1>1, BufferNew
  <1>2. CASE DeleteOut \/ SendToIn("noOut", "delete", "deleting") \/ InDelete
    BY <1>2 DEF DeleteOut, SendToIn, InDelete, Enter, OutUp
  <1>3. CASE InCreate
    <2>1. stage = "creating"
      BY <1>3, OneCommand DEF InCreate, BitsInv
    <2>2. Buffer(b) /\ UNCHANGED <<config, free, inQue, todo, freeList, elem>>
      BY <1>3, <2>1 DEF BitsInv, OutUp, InCreate, Enter, encoder, elements, outTask
    <2> QED BY <2>2, BufferStays
  <1>4. CASE App_ipcBitsStop \/ Stop \/ SendToIn("outOnly", "create", "creating")
    <2>1. OutUp
      BY <1>4 DEF App_ipcBitsStop, Stop, SendToIn, OutUp
    <2>2. Buffer(b) /\ UNCHANGED <<config, free, inQue, todo, freeList, elem>>
      BY <1>4, <2>1 DEF BitsInv, App_ipcBitsStop, Stop, SendToIn, Enter, encoder, elements, outTask
    <2> QED BY <2>2, BufferStays
  <1>5. ASSUME OutUp, Buffer(b),
               \/ Finish \/ (\E cmd \in {"newData", "release"} : OutReceive(cmd)) \/ OutSend
               \/ OutRelease \/ OutReleaseEnd \/ InTake \/ PutEmptyBitBuf
        PROVE  Buffer(b)'
    BY <1>5, BufferFinish, BufferReceive, BufferSend, BufferRelease, BufferReleaseEnd, BufferMoves
  <1>6. CASE \/ Finish \/ (\E cmd \in {"newData", "release"} : OutReceive(cmd)) \/ OutSend
             \/ OutRelease \/ OutReleaseEnd \/ InTake \/ PutEmptyBitBuf
    <2>1. UNCHANGED stage
      BY <1>6 DEF Finish, OutReceive, OutSend, OutRelease, OutReleaseEnd, InTake, PutEmptyBitBuf,
         life
    <2> QED BY <1>5, <1>6, <2>1 DEF OutUp, BitsInv
  <1>7. CASE \/ OutProcessEnd \/ OutNotified \/ OutTimer \/ InNotified \/ PeriodicTask
    <2>1. UNCHANGED <<config, stage, free, inQue, todo, freeList, elem>>
      BY <1>7 DEF OutProcessEnd, OutNotified, OutTimer, InNotified, PeriodicTask, life, encoder,
         elements, outTask
    <2> QED BY <2>1, BufferStays DEF BitsInv, OutUp
  <1>8. CASE \/ InReceiveNewData \/ InTakeEnd \/ AppWake \/ GetFullBitBufs \/ PutNotify \/ AppLoop
    <2>1. UNCHANGED <<config, stage, free, inQue, todo, freeList, elem>>
      BY <1>8 DEF InReceiveNewData, InTakeEnd, AppWake, GetFullBitBufs, PutNotify, AppLoop, life,
         encoder, elements, outTask
    <2> QED BY <2>1, BufferStays DEF BitsInv, OutUp
  <1> QED
    BY <1>1, <1>2, <1>3, <1>4, <1>6, <1>7, <1>8 DEF Next, Out, In, App, Main

(***************************************************************************)
(* The invariant holds.                                                     *)
(***************************************************************************)
LEMMA InitBitsInv == Init => BitsInv
  <1> SUFFICES ASSUME Init PROVE BitsInv
    OBVIOUS
  <1>1. config \in Configs /\ config.maxDrops \in Nat /\ MaxPending \in Nat /\ MaxSem \in Nat
    BY BitsAssumption DEF Init, ConfigType
  <1>2. Control
    <2>1. 0 \in 0 .. MaxSem /\ 0 \in 0 .. config.maxDrops
      BY <1>1
    <2>2. /\ config \in Configs /\ drops = 0 /\ stage = "run" /\ out = "idle" /\ cmdOut = {}
          /\ clk = "off" /\ in = "idle" /\ sem = 0 /\ app = "wait"
          /\ clkStarted = FALSE /\ numBufs = FALSE /\ eventOut = FALSE /\ eventIn = FALSE
      BY DEF Init
    <2> QED BY <2>1, <2>2 DEF Control, Stages
  <1>3. Queues
    <2>1. elem \in [Elems -> ElemType]
      BY DEF Init, FreeElem, ElemType
    <2> QED BY <1>1, <2>1, Full, TimesNone DEF Init, Queues
  <1>4. Life
    BY DEF Init, Life
  <1>5. Mail
    BY <1>1, TimesNone DEF Init, Mail
  <1>6. ASSUME NEW e \in Elems PROVE Located(e)
    <2>1. /\ Times(e, elemQue) = 1 /\ Times(e, listOut) = 0 /\ Times(e, outQue) = 0
          /\ Times(e, held) = 0 /\ Times(e, listIn) = 0
      BY <1>1, Full, TimesNone DEF Init
    <2>2. elem[e] = FreeElem /\ elem[e].bufState = "FREE"
      BY DEF Init, FreeElem
    <2> QED BY <2>1, <2>2 DEF Located
  <1>7. ASSUME NEW b \in Bufs PROVE Buffer(b)
    <2>1. Carrying(b) = {}
      BY BitsAssumption DEF Init, Carrying, FreeElem
    <2>2. /\ Times(b, free) = IF b \in config.bufs THEN 1 ELSE 0
          /\ Times(b, inQue) = 0 /\ Times(b, todo) = 0 /\ Times(b, freeList) = 0
          /\ Cardinality(Carrying(b)) = 0
      BY <1>1, <2>1, Full, TimesNone, FS_EmptySet DEF Init
    <2> QED BY <2>2 DEF Buffer
  <1> QED BY <1>2, <1>3, <1>4, <1>5, <1>6, <1>7 DEF BitsInv

LEMMA StepBitsInv == BitsInv /\ [Next]_vars => BitsInv'
  <1>1. ASSUME BitsInv, Next PROVE BitsInv'
    <2>1. Control' /\ Queues' /\ Life' /\ Mail'
      BY <1>1, ControlStep, QueuesStep, LifeStep, MailStep
    <2>2. OutUp' => (\A e \in Elems : Located(e)') /\ (\A b \in Bufs : Buffer(b)')
      BY <1>1, ElementsStep, BuffersStep
    <2> QED BY <2>1, <2>2 DEF BitsInv
  <1>2. ASSUME BitsInv, UNCHANGED vars PROVE BitsInv'
    <2>1. Control' /\ Queues' /\ Life'
      BY <1>2 DEF vars, life, encoder, elements, lists, outTask, clock, inTask, mailIn, application,
         events, BitsInv, Control, Queues, Life, OutUp
    <2>2. Mail'
      BY <1>2, MailKept DEF vars, life, inTask, mailIn, events, BitsInv
    <2>3. ASSUME OutUp' PROVE (\A e \in Elems : Located(e)') /\ (\A b \in Bufs : Buffer(b)')
      <3>1. OutUp
        BY <1>2, <2>3 DEF vars, life, OutUp
      <3>2. UNCHANGED <<elements, lists, outQue, held>>
            /\ UNCHANGED <<config, free, inQue, todo, freeList, elem>>
        BY <1>2 DEF vars, life, encoder, elements, lists, outTask, inTask, application
      <3> QED BY <1>2, <3>1, <3>2, LocatedKept, BufferStays DEF BitsInv
    <2> QED BY <2>1, <2>2, <2>3 DEF BitsInv
  <1> QED BY <1>1, <1>2

(* In every reachable state, whatever the two cores, the application, the   *)
(* notifies and the restarts do, the invariant's parts hold together.       *)
THEOREM BitsInvariant == Spec => []BitsInv
  <1> QED BY InitBitsInv, StepBitsInv, PTL DEF Spec

(***************************************************************************)
(* What the runs check.                                                     *)
(***************************************************************************)
LEMMA BitsTypes == BitsInv => TypeOK
  BY DEF BitsInv, Control, Queues, Mail, Stages, ElemType, TypeOK

(* A list element is in one place, the one that its state names, so that    *)
(* the assertions on bufState hold (ipcBitsOutLink_tsk.c, ipcBitsInLink_    *)
(* tsk.c), for any number of buffers and elements.                          *)
THEOREM ElemPlacedAlways == Spec => []ElemPlaced
  <1>1. ASSUME BitsInv, OutUp, NEW e \in Elems PROVE Placed(e)
    <2>1. Queues /\ Located(e)
      BY <1>1 DEF BitsInv
    <2>2. Times(e, elemQue \o listOut \o outQue \o held \o listIn) = 1
      <3>1. PICK p : p = elemQue \o listOut
        OBVIOUS
      <3>2. p \in Seq(Elems) /\ Times(e, p) = Times(e, elemQue) + Times(e, listOut)
        BY <2>1, <3>1, TimesJoin DEF Queues
      <3>3. PICK q : q = p \o outQue
        OBVIOUS
      <3>4. q \in Seq(Elems) /\ Times(e, q) = Times(e, p) + Times(e, outQue)
        BY <2>1, <3>2, <3>3, TimesJoin DEF Queues
      <3>5. PICK r : r = q \o held
        OBVIOUS
      <3>6. r \in Seq(Elems) /\ Times(e, r) = Times(e, q) + Times(e, held)
        BY <2>1, <3>4, <3>5, TimesJoin DEF Queues
      <3>7. Times(e, r \o listIn) = Times(e, r) + Times(e, listIn)
        BY <2>1, <3>6, TimesJoin DEF Queues
      <3>8. Times(e, r \o listIn) = 1
        BY <2>1, <3>2, <3>4, <3>6, <3>7 DEF Located
      <3> QED BY <3>1, <3>3, <3>5, <3>8
    <2>3. /\ e \in ToSet(elemQue) <=> elem[e].bufState = "FREE"
          /\ e \in ToSet(listOut) <=> elem[e].bufState = "OUTQUE"
          /\ e \in ToSet(listIn) <=> elem[e].bufState = "INQUE"
      <3>1. /\ e \in ToSet(elemQue) <=> Times(e, elemQue) # 0
            /\ e \in ToSet(listOut) <=> Times(e, listOut) # 0
            /\ e \in ToSet(listIn) <=> Times(e, listIn) # 0
        BY <2>1, TimesAt DEF Queues
      <3> QED BY <2>1, <3>1, Place
    <2>4. elem[e].bufState \in {"FREE", "OUTQUE", "DEQUEUED", "INQUE"}
      BY <2>1, Place DEF ElemType
    <2>5. elem[e].buf = NoBuf <=> elem[e].bufState = "FREE"
      BY <2>1 DEF Located, FreeElem
    <2> QED BY <2>1, <2>2, <2>3, <2>4, <2>5 DEF Placed, Located
  <1>2. BitsInv => ElemPlaced
    BY <1>1, BitsTypes DEF ElemPlaced
  <1> QED BY <1>2, BitsInvariant, PTL

(* No buffer of the encoder is lost between the two links, and none is      *)
(* encoded to while the host reads it.                                      *)
THEOREM BufOnceAlways == Spec => []BufOnce
  <1>1. ASSUME BitsInv, OutUp, NEW b \in config.bufs
        PROVE  Times(b, free \o inQue \o todo \o freeList)
               + Cardinality({e \in Elems : elem[e].buf = b}) = 1
    <2>1. Queues /\ Buffer(b) /\ b \in Bufs
      BY <1>1, BitsAssumption DEF BitsInv, Control, ConfigType
    <2>2. PICK p : p = free \o inQue
      OBVIOUS
    <2>3. p \in Seq(Bufs) /\ Times(b, p) = Times(b, free) + Times(b, inQue)
      BY <2>1, <2>2, TimesJoin DEF Queues
    <2>4. PICK q : q = p \o todo
      OBVIOUS
    <2>5. q \in Seq(Bufs) /\ Times(b, q) = Times(b, p) + Times(b, todo)
      BY <2>1, <2>3, <2>4, TimesJoin DEF Queues
    <2>6. Times(b, q \o freeList) = Times(b, q) + Times(b, freeList)
      BY <2>1, <2>5, TimesJoin DEF Queues
    <2>7. Times(b, q \o freeList) + Cardinality(Carrying(b)) = 1
      BY <1>1, <2>1, <2>3, <2>5, <2>6, BufferTypes DEF Buffer
    <2> QED BY <2>2, <2>4, <2>7 DEF Carrying
  <1>2. BitsInv => BufOnce
    BY <1>1 DEF BufOnce
  <1> QED BY <1>2, BitsInvariant, PTL

(* As there are no fewer elements than buffers, Out's task, the only one    *)
(* that gives elements back, never waits for one for ever.                  *)
THEOREM ElemAvailableAlways == Spec => []ElemAvailable
  <1>1. ASSUME BitsInv, out = "process", todo # << >>, elemQue = << >> PROVE FALSE
    <2>1. Queues /\ OutUp
      BY <1>1 DEF BitsInv, Life
    <2>2. PICK x : x = Head(todo)
      OBVIOUS
    <2>3. x \in Bufs /\ Times(x, todo) # 0
      BY <1>1, <2>1, <2>2, TimesGet, HeadIsIn DEF Queues
    <2>4. ASSUME NEW e \in Elems PROVE elem[e].buf \in Bufs \ {x}
      <3>1. Located(e) /\ Times(e, elemQue) = 0
        BY <1>1, <2>1, TimesNone DEF BitsInv
      <3>2. elem[e].bufState # "FREE" /\ elem[e] \in ElemType
        BY <2>1, <3>1, Place
      <3>3. elem[e].buf \in Bufs
        BY <3>1, <3>2 DEF Located, ElemType
      <3>4. ASSUME elem[e].buf = x PROVE FALSE
        <4>1. Cardinality(Carrying(x)) # 0
          BY <3>4, CarryingSize, FS_EmptySet DEF Carrying
        <4>2. Buffer(x)
          BY <1>1, <2>1, <2>3 DEF BitsInv
        <4> QED BY <2>1, <2>3, <4>1, <4>2, BufferTypes DEF Buffer
      <3> QED BY <3>3, <3>4
    <2>5. ASSUME NEW e \in Elems, NEW d \in Elems, e # d, elem[e].buf = elem[d].buf PROVE FALSE
      <3>1. PICK b \in Bufs : b = elem[e].buf
        BY <2>4
      <3>2. Carrying(b) \in SUBSET Elems /\ {e, d} \in SUBSET Carrying(b)
        BY <2>5, <3>1 DEF Carrying
      <3>3. Cardinality({e, d}) = 2
        <4>1. {e, d} = {e} \cup {d} /\ d \notin {e}
          BY <2>5
        <4>2. IsFiniteSet({e}) /\ Cardinality({e}) = 1
          BY FS_Singleton
        <4>3. Cardinality({e} \cup {d}) = Cardinality({e}) + 1
          BY <4>1, <4>2, FS_AddElement
        <4> QED BY <4>1, <4>2, <4>3
      <3>4. Cardinality(Carrying(b)) >= 2
        BY <3>2, <3>3, CarryingSize, FS_Subset
      <3>5. Buffer(b)
        BY <1>1, <2>1 DEF BitsInv
      <3> QED BY <2>1, <3>4, <3>5, BufferTypes DEF Buffer
    <2>6. PICK f : f = [e \in Elems |-> elem[e].buf]
      OBVIOUS
    <2>7. f \in [Elems -> Bufs \ {x}]
      BY <2>4, <2>6
    <2>8. /\ IsFiniteSet(Bufs \ {x}) /\ IsFiniteSet(Elems)
          /\ Cardinality(Bufs \ {x}) < Cardinality(Elems)
      <3>1. /\ IsFiniteSet(Bufs \ {x}) /\ Cardinality(Bufs \ {x}) = Cardinality(Bufs) - 1
            /\ Cardinality(Bufs) \in Nat /\ Cardinality(Elems) \in Nat
        BY <2>3, BitsAssumption, FS_RemoveElement, FS_CardinalityType
      <3> QED BY <3>1, BitsAssumption
    <2>9. \E e, d \in Elems : e # d /\ f[e] = f[d]
      BY <2>7, <2>8, FS_PigeonHole
    <2> QED BY <2>5, <2>6, <2>9
  <1>2. BitsInv => ElemAvailable
    BY <1>1 DEF ElemAvailable
  <1> QED BY <1>2, BitsInvariant, PTL

(* The counter of the polls is the number of polls in In's mailbox, and no  *)
(* notify reaches Out once deleted, over any number of restarts.            *)
THEOREM PollsCountedAlways == Spec => []PollsCounted
  <1>1. BitsInv => PollsCounted
    BY DEF BitsInv, Mail, Life, PollsCounted, NotifiedAlive
  <1> QED BY <1>1, BitsInvariant, PTL

(***************************************************************************)
(* The order of the streams.                                                *)
(***************************************************************************)
AnyBuf == Bufs \cup {NoBuf}
Carried(s, f) == [i \in DOMAIN s |-> f[s[i]].buf]

(* Names for operations on sequences, whose definitions the proofs about    *)
(* the line of streams do not need.                                         *)
None == << >>
Cat(p, q) == p \o q
Add(p, x) == Append(p, x)
Before(x, q) == <<x>> \o q
Line(p, q, r, t) == Cat(Cat(Cat(p, q), r), t)

LEMMA CarriedType ==
  ASSUME NEW s \in Seq(Elems), NEW f \in [Elems -> ElemType]
  PROVE  /\ Carried(s, f) \in Seq(AnyBuf) /\ Len(Carried(s, f)) = Len(s)
         /\ DOMAIN Carried(s, f) = 1 .. Len(s) /\ Len(s) \in Nat
         /\ \A i \in 1 .. Len(s) : s[i] \in Elems /\ Carried(s, f)[i] = f[s[i]].buf
  <1>1. DOMAIN s = 1 .. Len(s) /\ Len(s) \in Nat
    BY LenProperties
  <1>2. \A i \in 1 .. Len(s) : s[i] \in Elems /\ f[s[i]].buf \in AnyBuf
    BY <1>1 DEF ElemType, AnyBuf
  <1>3. PICK c : c = [i \in 1 .. Len(s) |-> f[s[i]].buf]
    OBVIOUS
  <1>4. c \in [1 .. Len(s) -> AnyBuf]
    BY <1>2, <1>3
  <1>5. c \in Seq(AnyBuf) /\ Len(c) = Len(s) /\ DOMAIN c = 1 .. Len(s)
    BY <1>1, <1>4, IsASeq, LenProperties
  <1>6. Carried(s, f) = c
    BY <1>1, <1>3 DEF Carried
  <1> QED BY <1>1, <1>2, <1>3, <1>5, <1>6

LEMMA CarriedNone == \A f : Carried(<< >>, f) = << >>
  BY DEF Carried

LEMMA CarriedPut ==
  ASSUME NEW s \in Seq(Elems), NEW f \in [Elems -> ElemType], NEW e \in Elems
  PROVE  Carried(Append(s, e), f) = Append(Carried(s, f), f[e].buf) /\ f[e].buf \in AnyBuf
  <1>1. /\ Append(s, e) \in Seq(Elems) /\ Len(Append(s, e)) = Len(s) + 1 /\ Len(s) \in Nat
        /\ \A i \in 1 .. Len(s) : Append(s, e)[i] = s[i]
        /\ Append(s, e)[Len(s) + 1] = e
    BY AppendProperties, LenProperties
  <1>2. f[e].buf \in AnyBuf
    BY DEF ElemType, AnyBuf
  <1>3. PICK c, d : c = Carried(Append(s, e), f) /\ d = Carried(s, f)
    OBVIOUS
  <1>4. /\ c \in Seq(AnyBuf) /\ Len(c) = Len(s) + 1 /\ d \in Seq(AnyBuf) /\ Len(d) = Len(s)
        /\ \A i \in 1 .. Len(s) + 1 : c[i] = f[Append(s, e)[i]].buf
        /\ \A i \in 1 .. Len(s) : d[i] = f[s[i]].buf
    BY <1>1, <1>3, CarriedType
  <1>5. PICK a : a = Append(d, f[e].buf)
    OBVIOUS
  <1>6. /\ a \in Seq(AnyBuf) /\ Len(a) = Len(s) + 1
        /\ \A i \in 1 .. Len(s) : a[i] = d[i]
        /\ a[Len(s) + 1] = f[e].buf
    BY <1>2, <1>4, <1>5, AppendProperties
  <1>7. ASSUME NEW i \in 1 .. Len(s) + 1 PROVE c[i] = a[i]
    <2>1. CASE i = Len(s) + 1
      BY <1>1, <1>4, <1>6, <2>1
    <2>2. CASE i \in 1 .. Len(s)
      BY <1>1, <1>4, <1>6, <2>2
    <2> QED BY <1>1, <2>1, <2>2
  <1>8. c = a
    BY <1>1, <1>4, <1>6, <1>7, SeqEqual
  <1> QED BY <1>2, <1>3, <1>5, <1>8

LEMMA CarriedGet ==
  ASSUME NEW s \in Seq(Elems), NEW f \in [Elems -> ElemType], s # << >>
  PROVE  /\ Carried(s, f) = <<f[Head(s)].buf>> \o Carried(Tail(s), f)
         /\ f[Head(s)].buf \in AnyBuf
  <1>1. /\ Tail(s) \in Seq(Elems) /\ Len(Tail(s)) = Len(s) - 1 /\ Len(s) \in Nat /\ Len(s) >= 1
        /\ \A i \in 1 .. Len(s) - 1 : Tail(s)[i] = s[i + 1]
        /\ Head(s) = s[1] /\ Head(s) \in Elems
    BY HeadTailProperties, LenProperties, EmptySeq
  <1>2. PICK x, c, d : x = f[Head(s)].buf /\ c = Carried(s, f) /\ d = Carried(Tail(s), f)
    OBVIOUS
  <1>3. x \in AnyBuf
    BY <1>1, <1>2 DEF ElemType, AnyBuf
  <1>4. /\ c \in Seq(AnyBuf) /\ Len(c) = Len(s) /\ d \in Seq(AnyBuf) /\ Len(d) = Len(s) - 1
        /\ \A i \in 1 .. Len(s) : c[i] = f[s[i]].buf
        /\ \A i \in 1 .. Len(s) - 1 : d[i] = f[Tail(s)[i]].buf
    BY <1>1, <1>2, CarriedType
  <1>5. c # << >> /\ Head(c) = x
    BY <1>1, <1>2, <1>4, EmptySeq, HeadTailProperties
  <1>6. /\ Tail(c) \in Seq(AnyBuf) /\ Len(Tail(c)) = Len(s) - 1
        /\ \A i \in 1 .. Len(s) - 1 : Tail(c)[i] = c[i + 1]
    BY <1>4, <1>5, HeadTailProperties
  <1>7. ASSUME NEW i \in 1 .. Len(s) - 1 PROVE Tail(c)[i] = d[i]
    <2>1. i + 1 \in 1 .. Len(s)
      BY <1>1
    <2> QED BY <1>1, <1>4, <1>6, <2>1
  <1>8. Tail(c) = d
    BY <1>4, <1>6, <1>7, SeqEqual
  <1>9. c = <<x>> \o d
    BY <1>4, <1>5, <1>8, ConcatProperties, HeadTailProperties
  <1> QED BY <1>2, <1>3, <1>9

(* What a list carries changes only with its own elements.                  *)
LEMMA CarriedSame ==
  ASSUME NEW s \in Seq(Elems), NEW f \in [Elems -> ElemType], NEW g \in [Elems -> ElemType],
         \A e \in Elems : Times(e, s) # 0 => g[e].buf = f[e].buf
  PROVE  Carried(s, g) = Carried(s, f)
  <1>1. /\ DOMAIN s = 1 .. Len(s)
        /\ \A i \in 1 .. Len(s) : s[i] \in Elems
    BY LenProperties, CarriedType
  <1>2. ASSUME NEW i \in 1 .. Len(s) PROVE g[s[i]].buf = f[s[i]].buf
    <2>1. Times(s[i], s) # 0 /\ s[i] \in Elems
      BY <1>1, TimesAt
    <2> QED BY <2>1
  <1> QED BY <1>1, <1>2 DEF Carried

LEMMA FrontAndRest ==
  ASSUME NEW S, NEW p \in Seq(S), NEW q \in Seq(S)
  PROVE  /\ SubSeq(p \o q, 1, Len(p)) = p
         /\ SubSeq(p \o q, Len(p) + 1, Len(p \o q)) = q
         /\ Len(p) \in 0 .. Len(p \o q)
  <1>1. PICK c, m, n : c = p \o q /\ m = Len(p) /\ n = Len(q)
    OBVIOUS
  <1>2. /\ c \in Seq(S) /\ Len(c) = m + n /\ m \in Nat /\ n \in Nat
        /\ \A i \in 1 .. m + n : c[i] = IF i <= m THEN p[i] ELSE q[i - m]
    BY <1>1, ConcatProperties, LenProperties
  <1>3. \A i \in 1 .. m + n : c[i] \in S
    BY <1>2, ElementOfSeq
  <1>4. PICK x, y : x = SubSeq(c, 1, m) /\ y = SubSeq(c, m + 1, m + n)
    OBVIOUS
  <1>5. x \in Seq(S) /\ Len(x) = m /\ \A i \in 1 .. m : x[i] = c[i]
    <2>1. \A i \in 1 .. m : c[i] \in S
      BY <1>2, <1>3
    <2> QED BY <1>2, <1>4, <2>1, SubSeqProperties
  <1>6. y \in Seq(S) /\ Len(y) = n /\ \A i \in 1 .. n : y[i] = c[i + m]
    <2>1. \A i \in m + 1 .. m + n : c[i] \in S
      BY <1>2, <1>3
    <2>2. /\ y \in Seq(S) /\ Len(y) = IF m + 1 <= m + n THEN m + n - (m + 1) + 1 ELSE 0
          /\ \A i \in 1 .. m + n - (m + 1) + 1 : y[i] = c[m + 1 + i - 1]
      BY <1>2, <1>4, <2>1, SubSeqProperties
    <2>3. \A i \in 1 .. n : m + 1 + i - 1 = i + m /\ i \in 1 .. m + n - (m + 1) + 1
      BY <1>2
    <2> QED BY <1>2, <2>2, <2>3
  <1>7. x = p
    BY <1>1, <1>2, <1>5, SeqEqual
  <1>8. y = q
    <2>1. ASSUME NEW i \in 1 .. n PROVE y[i] = q[i]
      <3>1. i + m \in 1 .. m + n /\ ~(i + m <= m) /\ i + m - m = i
        BY <1>2
      <3> QED BY <1>2, <1>6, <3>1
    <2> QED BY <1>1, <1>6, <2>1, SeqEqual
  <1>9. SubSeq(c, m + 1, Len(c)) = q /\ m \in 0 .. Len(c) /\ SubSeq(c, 1, m) = p
    BY <1>2, <1>4, <1>7, <1>8
  <1> QED BY <1>1, <1>9

LEMMA CatFacts ==
  ASSUME NEW S, NEW p \in Seq(S), NEW q \in Seq(S)
  PROVE  /\ None \in Seq(S) /\ Cat(p, q) \in Seq(S)
         /\ Cat(p, None) = p /\ Cat(None, p) = p
  BY EmptySeq, ConcatProperties, ConcatEmptySeq DEF None, Cat

LEMMA CatTwice ==
  ASSUME NEW S, NEW p \in Seq(S), NEW q \in Seq(S), NEW r \in Seq(S)
  PROVE  Cat(Cat(p, q), r) = Cat(p, Cat(q, r))
  BY ConcatAssociative DEF Cat

LEMMA CatAdd ==
  ASSUME NEW S, NEW p \in Seq(S), NEW q \in Seq(S), NEW x \in S
  PROVE  /\ Cat(p, Add(q, x)) = Add(Cat(p, q), x)
         /\ Cat(Add(p, x), q) = Cat(p, Before(x, q))
         /\ Add(p, x) \in Seq(S) /\ Before(x, q) \in Seq(S)
  <1>1. PICK u : u = <<x>>
    OBVIOUS
  <1>2. /\ u \in Seq(S) /\ Add(p, x) = Cat(p, u) /\ Add(q, x) = Cat(q, u)
        /\ Before(x, q) = Cat(u, q)
    BY <1>1, AppendIsConcat DEF Add, Cat, Before
  <1>3. PICK c : c = Cat(p, q)
    OBVIOUS
  <1>4. c \in Seq(S)
    BY <1>3, CatFacts
  <1>5. Add(c, x) = Cat(c, u)
    BY <1>1, <1>4, AppendIsConcat DEF Add, Cat
  <1> QED BY <1>2, <1>3, <1>5, CatTwice, CatFacts

(* The streams under way form one line, whatever the queue each is in.      *)
LEMMA LineFacts ==
  ASSUME NEW S, NEW p \in Seq(S), NEW q \in Seq(S), NEW r \in Seq(S), NEW t \in Seq(S)
  PROVE  /\ Line(p, q, r, t) \in Seq(S)
         /\ Line(p, q, t, None) = Line(p, q, None, t)
         /\ Line(p, q, r, t) = Cat(p, Line(None, q, r, t))
  <1>1. PICK c, k : c = Cat(p, q) /\ k = Cat(q, r)
    OBVIOUS
  <1>2. c \in Seq(S) /\ k \in Seq(S)
    BY <1>1, CatFacts
  <1>3. Line(p, q, r, t) \in Seq(S)
    <2>1. Cat(c, r) \in Seq(S)
      BY <1>2, CatFacts
    <2> QED BY <1>1, <2>1, CatFacts DEF Line
  <1>4. Line(p, q, t, None) = Line(p, q, None, t)
    <2>1. Cat(c, t) \in Seq(S) /\ Cat(c, None) = c
      BY <1>2, CatFacts
    <2>2. Cat(Cat(c, t), None) = Cat(c, t)
      BY <2>1, CatFacts
    <2> QED BY <1>1, <2>1, <2>2 DEF Line
  <1>5. Line(p, q, r, t) = Cat(p, Line(None, q, r, t))
    <2>1. Cat(None, q) = q
      BY CatFacts
    <2>2. Line(None, q, r, t) = Cat(k, t)
      BY <1>1, <2>1 DEF Line
    <2>3. Cat(c, r) = Cat(p, k)
      BY <1>1, CatTwice
    <2>4. Cat(Cat(p, k), t) = Cat(p, Cat(k, t))
      BY <1>2, CatTwice
    <2> QED BY <1>1, <2>2, <2>3, <2>4 DEF Line
  <1> QED BY <1>3, <1>4, <1>5

LEMMA LineMoves ==
  ASSUME NEW S, NEW p \in Seq(S), NEW q \in Seq(S), NEW r \in Seq(S), NEW t \in Seq(S), NEW x \in S
  PROVE  /\ Line(p, q, r, Add(t, x)) = Add(Line(p, q, r, t), x)
         /\ Line(p, Add(q, x), r, t) = Line(p, q, Before(x, r), t)
         /\ Line(Add(p, x), q, r, t) = Line(p, Before(x, q), r, t)
  <1>1. PICK c, d : c = Cat(p, q) /\ d = Cat(c, r)
    OBVIOUS
  <1>2. c \in Seq(S) /\ d \in Seq(S)
    BY <1>1, CatFacts
  <1>3. Cat(d, Add(t, x)) = Add(Cat(d, t), x)
    BY <1>2, CatAdd
  <1>4. Cat(p, Add(q, x)) = Add(c, x)
    BY <1>1, CatAdd
  <1>5. Cat(Add(c, x), r) = Cat(c, Before(x, r))
    BY <1>2, CatAdd
  <1>6. Cat(Add(p, x), q) = Cat(p, Before(x, q))
    BY CatAdd
  <1> QED BY <1>1, <1>3, <1>4, <1>5, <1>6 DEF Line

LEMMA StreamsLine ==
  ASSUME Queues
  PROVE  /\ Streams = Line(Carried(outQue, elem), Carried(listOut, elem), todo, inQue)
         /\ Carried(outQue, elem) \in Seq(AnyBuf) /\ Carried(listOut, elem) \in Seq(AnyBuf)
         /\ todo \in Seq(AnyBuf) /\ inQue \in Seq(AnyBuf) /\ Streams \in Seq(AnyBuf)
  <1>1. Carried(outQue, elem) \in Seq(AnyBuf) /\ Carried(listOut, elem) \in Seq(AnyBuf)
    BY CarriedType DEF Queues
  <1>2. todo \in Seq(AnyBuf) /\ inQue \in Seq(AnyBuf)
    BY SeqMonotonic DEF Queues, AnyBuf
  <1>3. Streams = Line(Carried(outQue, elem), Carried(listOut, elem), todo, inQue)
    BY DEF Streams, BufsOf, Carried, Line, Cat
  <1>4. Line(Carried(outQue, elem), Carried(listOut, elem), todo, inQue) \in Seq(AnyBuf)
    BY <1>1, <1>2, LineFacts
  <1> QED BY <1>1, <1>2, <1>3, <1>4

LEMMA StreamsLineAfter ==
  Streams' = Line(Carried(outQue', elem'), Carried(listOut', elem'), todo', inQue')
  BY DEF Streams, BufsOf, Carried, Line, Cat

(* A step that only moves streams along the line keeps their order.         *)
LEMMA SameStreams == ASSUME Queues, Streams' = Streams PROVE InOrder
  <1>1. Streams \in Seq(AnyBuf)
    BY StreamsLine
  <1>2. SubSeq(Streams, 1, Len(Streams)) = Streams /\ Len(Streams) \in Nat
    BY <1>1, SubSeqFull, LenProperties
  <1>3. 0 \in 0 .. Len(Streams) /\ 0 + 1 = 1 /\ ~(0 > 0)
    BY <1>2
  <1> QED BY <1>2, <1>3 DEF InOrder

LEMMA UntouchedStreams ==
  ASSUME Queues, UNCHANGED <<outQue, listOut, todo, inQue, elem>> PROVE InOrder
  BY StreamsLine, StreamsLineAfter, SameStreams

LEMMA OrderFinish == ASSUME Queues, Queues', Finish PROVE InOrder
  <1>1. PICK b : b = Head(free)
    OBVIOUS
  <1>2. /\ b \in Bufs /\ inQue' = Append(inQue, b)
        /\ UNCHANGED <<outQue, listOut, todo, elem>>
    BY <1>1, QueueGet DEF Finish, Queues, elements, lists, outTask, inTask
  <1>3. PICK p, q, r, t : /\ p = Carried(outQue, elem) /\ q = Carried(listOut, elem)
                          /\ r = todo /\ t = inQue
    OBVIOUS
  <1>4. /\ p \in Seq(AnyBuf) /\ q \in Seq(AnyBuf) /\ r \in Seq(AnyBuf) /\ t \in Seq(AnyBuf)
        /\ Streams = Line(p, q, r, t) /\ b \in AnyBuf
    BY <1>2, <1>3, StreamsLine DEF AnyBuf
  <1>5. Streams' = Line(p, q, r, Add(t, b))
    BY <1>2, <1>3, StreamsLineAfter DEF Add
  <1>6. Streams' = Append(Streams, b)
    <2>1. Line(p, q, r, Add(t, b)) = Add(Line(p, q, r, t), b)
      BY <1>4, LineMoves
    <2> QED BY <1>4, <1>5, <2>1 DEF Add
  <1> QED BY <1>2, <1>6 DEF InOrder

LEMMA OrderReceive ==
  ASSUME Queues, Life, NEW cmd, OutReceive(cmd) PROVE InOrder
  <1>1. UNCHANGED <<outQue, listOut, elem>> /\ todo = << >>
    BY DEF Life, OutReceive, elements, lists, inTask
  <1>2. CASE todo' = inQue /\ inQue' = << >>
    <2>1. PICK p, q, t : p = Carried(outQue, elem) /\ q = Carried(listOut, elem) /\ t = inQue
      OBVIOUS
    <2>2. /\ p \in Seq(AnyBuf) /\ q \in Seq(AnyBuf) /\ t \in Seq(AnyBuf)
          /\ Streams = Line(p, q, None, t)
      BY <1>1, <2>1, StreamsLine DEF None
    <2>3. Streams' = Line(p, q, t, None)
      BY <1>1, <1>2, <2>1, StreamsLineAfter DEF None
    <2>4. Streams' = Streams
      BY <2>2, <2>3, LineFacts
    <2> QED BY <2>4, SameStreams
  <1>3. CASE UNCHANGED <<todo, inQue>>
    BY <1>1, <1>3, UntouchedStreams
  <1> QED BY <1>2, <1>3 DEF OutReceive

LEMMA OrderSend == ASSUME BitsInv, Queues', OutSend PROVE InOrder
  <1>1. PICK h, b : h = Head(elemQue) /\ b = Head(todo)
    OBVIOUS
  <1>2. /\ Queues /\ OutUp /\ todo # << >> /\ elemQue # << >>
        /\ todo' = Tail(todo) /\ listOut' = Append(listOut, h)
        /\ UNCHANGED <<outQue, inQue>>
    BY <1>1 DEF BitsInv, Life, OutSend, PutTail, inTask, encoder
  <1>3. h \in Elems /\ b \in Bufs /\ Moves(h, "OUTQUE", elem[h].owner, b)
    BY <1>1, <1>2, Sending
  <1>4. Times(h, outQue) = 0 /\ Times(h, listOut) = 0
    <2>1. Times(h, elemQue) # 0
      BY <1>1, <1>2, HeadIsIn DEF Queues
    <2>2. Located(h)
      BY <1>2, <1>3 DEF BitsInv
    <2>3. Times(h, elemQue) = 1
      BY <1>2, <1>3, <2>1, <2>2, Place DEF Located
    <2> QED BY <1>2, <1>3, <2>2, <2>3, OnePlaceOnly
  <1>5. /\ Carried(outQue, elem') = Carried(outQue, elem)
        /\ Carried(listOut, elem') = Carried(listOut, elem)
    <2>1. elem \in [Elems -> ElemType] /\ elem' \in [Elems -> ElemType]
      BY <1>2, <1>3 DEF Queues, Moves
    <2>2. \A e \in Elems : e # h => elem'[e] = elem[e]
      BY <1>3 DEF Moves
    <2>3. \A e \in Elems : Times(e, outQue) # 0 => elem'[e].buf = elem[e].buf
      BY <1>4, <2>2
    <2>4. \A e \in Elems : Times(e, listOut) # 0 => elem'[e].buf = elem[e].buf
      BY <1>4, <2>2
    <2> QED BY <1>2, <2>1, <2>3, <2>4, CarriedSame DEF Queues
  <1>6. Carried(listOut', elem') = Add(Carried(listOut, elem), b)
    <2>1. elem'[h].buf = b /\ elem' \in [Elems -> ElemType]
      BY <1>3 DEF Moves
    <2>2. Carried(Append(listOut, h), elem') = Append(Carried(listOut, elem'), elem'[h].buf)
      BY <1>2, <1>3, <2>1, CarriedPut DEF Queues
    <2> QED BY <1>2, <1>5, <2>1, <2>2 DEF Add
  <1>7. todo = Before(b, todo')
    <2>1. PICK c : c = todo
      OBVIOUS
    <2>2. c \in Seq(Bufs) /\ c # << >> /\ b = Head(c) /\ todo' = Tail(c)
      BY <1>1, <1>2, <2>1 DEF Queues
    <2>3. c = <<Head(c)>> \o Tail(c)
      BY <2>2, ConcatProperties, HeadTailProperties
    <2> QED BY <2>1, <2>2, <2>3 DEF Before
  <1>8. PICK p, q, r, t : /\ p = Carried(outQue, elem) /\ q = Carried(listOut, elem)
                          /\ r = todo' /\ t = inQue
    OBVIOUS
  <1>9. /\ p \in Seq(AnyBuf) /\ q \in Seq(AnyBuf) /\ t \in Seq(AnyBuf)
        /\ Streams = Line(p, q, todo, t)
    BY <1>2, <1>8, StreamsLine
  <1>10. r \in Seq(AnyBuf) /\ b \in AnyBuf
    BY <1>3, <1>8, SeqMonotonic DEF Queues, AnyBuf
  <1>11. Streams = Line(p, q, Before(b, r), t)
    BY <1>7, <1>8, <1>9
  <1>12. Streams' = Line(p, Add(q, b), r, t)
    BY <1>2, <1>5, <1>6, <1>8, StreamsLineAfter
  <1>13. Streams' = Streams
    BY <1>9, <1>10, <1>11, <1>12, LineMoves
  <1> QED BY <1>2, <1>13, SameStreams

LEMMA OrderTake == ASSUME Queues, Queues', InTake PROVE InOrder
  <1>1. PICK h : h = Head(listOut)
    OBVIOUS
  <1>2. /\ listOut # << >> /\ listOut' = Tail(listOut) /\ outQue' = Append(outQue, h)
        /\ UNCHANGED <<todo, inQue>>
    BY <1>1 DEF InTake, outTask, encoder
  <1>3. h \in Elems /\ Moves(h, "DEQUEUED", "In", elem[h].buf)
    BY <1>1, <1>2, Taking DEF InTake
  <1>4. PICK b : b = elem[h].buf
    OBVIOUS
  <1>5. /\ elem \in [Elems -> ElemType] /\ elem' \in [Elems -> ElemType]
        /\ \A e \in Elems : elem'[e].buf = elem[e].buf
    <2>1. \A e \in Elems : e # h => elem'[e] = elem[e]
      BY <1>3 DEF Moves
    <2>2. elem'[h] = [bufState |-> "DEQUEUED", owner |-> "In", buf |-> elem[h].buf]
      BY <1>3 DEF Moves
    <2>3. elem'[h].buf = elem[h].buf
      BY <2>2
    <2> QED BY <1>3, <2>1, <2>3 DEF Queues, Moves
  <1>6. /\ Carried(outQue, elem') = Carried(outQue, elem)
        /\ Carried(listOut', elem') = Carried(listOut', elem)
    <2>1. outQue \in Seq(Elems) /\ listOut' \in Seq(Elems)
      BY DEF Queues
    <2>2. Carried(outQue, elem') = Carried(outQue, elem)
      BY <1>5, <2>1, CarriedSame
    <2>3. Carried(listOut', elem') = Carried(listOut', elem)
      BY <1>5, <2>1, CarriedSame
    <2> QED BY <2>2, <2>3
  <1>7. Carried(outQue', elem') = Add(Carried(outQue, elem), b) /\ b \in AnyBuf
    <2>1. /\ Carried(Append(outQue, h), elem') = Append(Carried(outQue, elem'), elem'[h].buf)
          /\ elem'[h].buf \in AnyBuf
      BY <1>3, <1>5, CarriedPut DEF Queues
    <2>2. elem'[h].buf = b
      BY <1>3, <1>4, <1>5
    <2> QED BY <1>2, <1>6, <2>1, <2>2 DEF Add
  <1>8. Carried(listOut, elem) = Before(b, Carried(listOut', elem))
    BY <1>1, <1>2, <1>4, <1>5, CarriedGet DEF Queues, Before
  <1>9. PICK p, q, r, t : /\ p = Carried(outQue, elem) /\ q = Carried(listOut', elem)
                          /\ r = todo /\ t = inQue
    OBVIOUS
  <1>10. /\ p \in Seq(AnyBuf) /\ r \in Seq(AnyBuf) /\ t \in Seq(AnyBuf)
         /\ Streams = Line(p, Carried(listOut, elem), r, t)
    BY <1>9, StreamsLine
  <1>11. q \in Seq(AnyBuf)
    BY <1>5, <1>9, CarriedType DEF Queues
  <1>12. Streams = Line(p, Before(b, q), r, t)
    BY <1>8, <1>9, <1>10
  <1>13. Streams' = Line(Add(p, b), q, r, t)
    BY <1>2, <1>6, <1>7, <1>9, StreamsLineAfter
  <1>14. Streams' = Streams
    BY <1>7, <1>10, <1>11, <1>12, <1>13, LineMoves
  <1> QED BY <1>14, SameStreams

(* The application takes all that In has, from the front of the line.       *)
LEMMA OrderGet == ASSUME Queues, GetFullBitBufs PROVE InOrder
  <1>1. held' = outQue /\ outQue' = << >> /\ UNCHANGED <<listOut, todo, inQue, elem>>
    BY DEF GetFullBitBufs, encoder, elements, lists, outTask
  <1>2. PICK p, q, r, t : /\ p = Carried(outQue, elem) /\ q = Carried(listOut, elem)
                          /\ r = todo /\ t = inQue
    OBVIOUS
  <1>3. /\ p \in Seq(AnyBuf) /\ q \in Seq(AnyBuf) /\ r \in Seq(AnyBuf) /\ t \in Seq(AnyBuf)
        /\ Streams = Line(p, q, r, t)
    BY <1>2, StreamsLine
  <1>4. BufsOf(held)' = p
    BY <1>1, <1>2 DEF BufsOf, Carried
  <1>5. PICK l : l = Line(None, q, r, t)
    OBVIOUS
  <1>6. None \in Seq(AnyBuf)
    BY <1>3, CatFacts
  <1>7. Streams' = l
    BY <1>1, <1>2, <1>5, StreamsLineAfter, CarriedNone DEF None
  <1>8. Streams = p \o l /\ l \in Seq(AnyBuf)
    <2>1. l \in Seq(AnyBuf)
      BY <1>3, <1>5, <1>6, LineFacts
    <2>2. Line(p, q, r, t) = Cat(p, l)
      BY <1>3, <1>5, LineFacts
    <2> QED BY <1>3, <2>1, <2>2 DEF Cat
  <1>9. PICK n : n = Len(p)
    OBVIOUS
  <1>10. /\ SubSeq(p \o l, 1, n) = p /\ n \in 0 .. Len(p \o l)
         /\ SubSeq(p \o l, n + 1, Len(p \o l)) = l
    BY <1>3, <1>8, <1>9, FrontAndRest
  <1>11. /\ SubSeq(Streams, 1, n) = BufsOf(held)' /\ n \in 0 .. Len(Streams)
         /\ Streams' = SubSeq(Streams, n + 1, Len(Streams))
    BY <1>4, <1>7, <1>8, <1>10
  <1> QED BY <1>11 DEF InOrder

(* An element that Out frees is in no list of the line.                     *)
LEMMA OrderElsewhere == ASSUME BitsInv, Queues', OutRelease \/ PutEmptyBitBuf PROVE InOrder
  <1>1. UNCHANGED <<outQue, listOut, todo, inQue>> /\ Queues
    BY DEF BitsInv, OutRelease, PutEmptyBitBuf, encoder, inTask, outTask
  <1>2. /\ elem \in [Elems -> ElemType] /\ elem' \in [Elems -> ElemType]
        /\ outQue \in Seq(Elems) /\ listOut \in Seq(Elems)
    BY <1>1 DEF Queues
  <1>3. \A e \in Elems : Times(e, outQue) # 0 \/ Times(e, listOut) # 0 => elem'[e].buf = elem[e].buf
    <2>1. CASE OutRelease
      <3>1. PICK h : h = Head(listIn)
        OBVIOUS
      <3>2. h \in Elems /\ Moves(h, "FREE", "Out", NoBuf) /\ listIn # << >> /\ OutUp
        BY <1>1, <2>1, <3>1, Freeing DEF BitsInv, Life, OutRelease
      <3>3. Located(h)
        BY <3>2 DEF BitsInv
      <3>4. Times(h, listIn) # 0
        BY <1>1, <3>1, <3>2, HeadIsIn DEF Queues
      <3>5. Times(h, listIn) = 1
        BY <1>1, <3>2, <3>3, <3>4, Place DEF Located
      <3>6. Times(h, outQue) = 0 /\ Times(h, listOut) = 0
        BY <1>1, <3>2, <3>3, <3>5, OnePlaceOnly
      <3> QED BY <3>2, <3>6 DEF Moves
    <2>2. CASE PutEmptyBitBuf
      <3>1. PICK h : h = Head(held)
        OBVIOUS
      <3>2. Moves(h, "INQUE", elem[h].owner, elem[h].buf)
        BY <1>1, <2>2, <3>1, Putting
      <3> QED BY <3>2 DEF Moves
    <2> QED BY <2>1, <2>2
  <1>4. /\ Carried(outQue, elem') = Carried(outQue, elem)
        /\ Carried(listOut, elem') = Carried(listOut, elem)
    BY <1>2, <1>3, CarriedSame
  <1>5. Streams' = Streams
    BY <1>1, <1>4, StreamsLine, StreamsLineAfter
  <1> QED BY <1>1, <1>5, SameStreams

(* The application gets the streams in the order in which the encoder       *)
(* finished them, each of them once: through ipcBitsOut's bufList, the      *)
(* shared list and In's queue, whatever both sides and the notifies do.     *)
THEOREM StreamsInOrderAlways == Spec => StreamsInOrder
  <1>1. ASSUME BitsInv, BitsInv', Next PROVE InOrder
    <2>0. Queues /\ Life /\ Mail /\ Queues'
      BY <1>1 DEF BitsInv
    <2>1. CASE Finish \/ OutSend \/ InTake \/ GetFullBitBufs \/ OutRelease \/ PutEmptyBitBuf
      BY <1>1, <2>0, <2>1, OrderFinish, OrderSend, OrderTake, OrderGet, OrderElsewhere
    <2>2. ASSUME NEW cmd \in {"newData", "release"}, OutReceive(cmd) PROVE InOrder
      BY <2>0, <2>2, OrderReceive
    <2>3. CASE \/ OutProcessEnd \/ OutReleaseEnd \/ OutNotified \/ OutTimer \/ InNotified
               \/ PeriodicTask
      <3>1. UNCHANGED <<outQue, listOut, todo, inQue, elem>>
        BY <2>3 DEF OutProcessEnd, OutReleaseEnd, OutNotified, OutTimer, InNotified, PeriodicTask,
           encoder, elements, lists, outTask, inTask
      <3> QED BY <2>0, <3>1, UntouchedStreams
    <2>4. CASE InReceiveNewData \/ InTakeEnd \/ AppWake \/ PutNotify \/ AppLoop
      <3>1. UNCHANGED <<outQue, listOut, todo, inQue, elem>>
        BY <2>4 DEF InReceiveNewData, InTakeEnd, AppWake, PutNotify, AppLoop,
           encoder, elements, lists, outTask, inTask
      <3> QED BY <2>0, <3>1, UntouchedStreams
    <2>5. CASE App_ipcBitsStop \/ Stop
      <3>1. UNCHANGED <<outQue, listOut, todo, inQue, elem>>
        BY <2>5 DEF App_ipcBitsStop, Stop, encoder, elements, lists, outTask, inTask
      <3> QED BY <2>0, <3>1, UntouchedStreams
    <2>6. CASE \/ DeleteOut \/ CreateOut \/ SendToIn("noOut", "delete", "deleting")
               \/ SendToIn("outOnly", "create", "creating")
      BY <2>6 DEF DeleteOut, CreateOut, SendToIn, Enter, InOrder, Running
    <2>7. CASE InDelete \/ InCreate
      <3>1. stage = "deleting" \/ stage = "creating"
        BY <2>0, <2>7, OneCommand DEF InDelete, InCreate
      <3> QED BY <3>1 DEF InOrder, Running
    <2> QED BY <1>1, <2>1, <2>2, <2>3, <2>4, <2>5, <2>6, <2>7 DEF Next, Out, In, App, Main
  <1>2. BitsInv /\ BitsInv' /\ [Next]_vars => [InOrder]_vars
    BY <1>1
  <1>3. BitsInv /\ [Next]_vars => BitsInv'
    BY StepBitsInv
  <1> QED BY InitBitsInv, <1>2, <1>3, PTL DEF Spec, StreamsInOrder
=============================================================================
