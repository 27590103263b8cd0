--------------------------- MODULE IpcMsgQ_proofs ---------------------------
(* Proofs about IpcMsgQ for any cores, callers, messages, requests and       *)
(* transport.                                                                *)
EXTENDS IpcMsgQ, SequenceTheorems, FiniteSetTheorems, TLAPS

(***************************************************************************)
(* Sequences used as queues, and sets with one element.                    *)
(***************************************************************************)
(* What a queue holds, and that it holds nothing twice.                     *)
Entries(q) == {q[k] : k \in 1 .. Len(q)}
NoDup(q) == \A j, k \in 1 .. Len(q) : q[j] = q[k] => j = k

LEMMA EmptyQueue ==
  ASSUME NEW S
  PROVE  << >> \in Seq(S) /\ Len(<< >>) = 0 /\ Entries(<< >>) = {} /\ NoDup(<< >>)
  BY DEF Entries, NoDup

LEMMA SomeElem ==
  ASSUME NEW S, NEW q \in Seq(S)
  PROVE  /\ q = << >> <=> Entries(q) = {}
         /\ Entries(q) \subseteq S
         /\ q # << >> => Head(q) \in Entries(q) /\ Head(q) = q[1] /\ Len(q) >= 1
  BY EmptySeq DEF Entries

(* A put adds its element at the end.                                       *)
LEMMA PutElem ==
  ASSUME NEW S, NEW q \in Seq(S), NEW x \in S
  PROVE  /\ Append(q, x) \in Seq(S) /\ Len(Append(q, x)) = Len(q) + 1
         /\ Append(q, x) # << >>
         /\ Entries(Append(q, x)) = Entries(q) \cup {x}
         /\ NoDup(q) /\ x \notin Entries(q) => NoDup(Append(q, x))
  <1>1. /\ Append(q, x) \in Seq(S) /\ Len(Append(q, x)) = Len(q) + 1
        /\ \A k \in 1 .. Len(q) : Append(q, x)[k] = q[k]
        /\ Append(q, x)[Len(q) + 1] = x
        /\ Len(q) \in Nat
    BY AppendProperties, LenProperties
  <1>2. 1 .. Len(q) + 1 = (1 .. Len(q)) \cup {Len(q) + 1}
    BY <1>1
  <1>3. Entries(Append(q, x)) = Entries(q) \cup {x}
    BY <1>1, <1>2 DEF Entries
  <1>4. NoDup(q) /\ x \notin Entries(q) => NoDup(Append(q, x))
    BY <1>1, <1>2 DEF Entries, NoDup
  <1>5. Append(q, x) # << >>
    BY <1>1, EmptySeq
  <1> QED BY <1>1, <1>3, <1>4, <1>5

(* A get takes the first element away.                                      *)
LEMMA GetElem ==
  ASSUME NEW S, NEW q \in Seq(S), q # << >>
  PROVE  /\ Tail(q) \in Seq(S) /\ Len(Tail(q)) = Len(q) - 1
         /\ Head(q) \in S
         /\ Entries(q) = Entries(Tail(q)) \cup {Head(q)}
         /\ NoDup(q) => NoDup(Tail(q)) /\ Head(q) \notin Entries(Tail(q))
  <1>1. /\ Tail(q) \in Seq(S) /\ Len(Tail(q)) = Len(q) - 1
        /\ \A k \in 1 .. Len(q) - 1 : Tail(q)[k] = q[k + 1]
        /\ Head(q) = q[1] /\ Len(q) \in Nat /\ Len(q) >= 1
        /\ Head(q) \in S
    BY HeadTailProperties, LenProperties, EmptySeq
  <1>2. /\ \A k \in 1 .. Len(q) - 1 : k + 1 \in 1 .. Len(q)
        /\ \A k \in 1 .. Len(q) : k = 1 \/ (k - 1 \in 1 .. Len(q) - 1 /\ (k - 1) + 1 = k)
        /\ 1 \in 1 .. Len(q)
    BY <1>1
  <1>3. Entries(q) = Entries(Tail(q)) \cup {Head(q)}
    <2>1. ASSUME NEW k \in 1 .. Len(q) PROVE q[k] \in Entries(Tail(q)) \cup {Head(q)}
      <3>1. CASE k = 1
        BY <1>1, <3>1
      <3>2. CASE k # 1
        <4>1. k - 1 \in 1 .. Len(q) - 1 /\ (k - 1) + 1 = k
          BY <1>2, <3>2
        <4>2. Tail(q)[k - 1] = q[k] /\ k - 1 \in 1 .. Len(Tail(q))
          BY <1>1, <4>1
        <4> QED BY <4>2 DEF Entries
      <3> QED BY <3>1, <3>2
    <2>2. ASSUME NEW k \in 1 .. Len(q) - 1 PROVE Tail(q)[k] \in Entries(q)
      <3>1. Tail(q)[k] = q[k + 1] /\ k + 1 \in 1 .. Len(q)
        BY <1>1, <1>2
      <3> QED BY <3>1 DEF Entries
    <2> QED BY <1>1, <1>2, <2>1, <2>2 DEF Entries
  <1>4. NoDup(q) => NoDup(Tail(q)) /\ Head(q) \notin Entries(Tail(q))
    <2> SUFFICES ASSUME NoDup(q) PROVE NoDup(Tail(q)) /\ Head(q) \notin Entries(Tail(q))
      OBVIOUS
    <2>1. ASSUME NEW j \in 1 .. Len(q) - 1, NEW k \in 1 .. Len(q) - 1, Tail(q)[j] = Tail(q)[k]
          PROVE  j = k
      BY <1>1, <1>2, <2>1 DEF NoDup
    <2>2. ASSUME NEW k \in 1 .. Len(q) - 1 PROVE Tail(q)[k] # Head(q)
      BY <1>1, <1>2 DEF NoDup
    <2> QED BY <1>1, <2>1, <2>2 DEF NoDup, Entries
  <1> QED BY <1>1, <1>3, <1>4

(* A set has one element if it has one that is the only one.                *)
LEMMA OneElem ==
  ASSUME NEW S, NEW x \in S, \A y \in S : y = x
  PROVE  Cardinality(S) = 1 /\ IsFiniteSet(S)
  <1>1. S = {x}
    OBVIOUS
  <1> QED BY <1>1, FS_Singleton

LEMMA NoneInSet == ASSUME NEW S, S = {} PROVE Cardinality(S) = 0
  BY FS_EmptySet

(***************************************************************************)
(* Where a message is, as a relation: w is the core or the caller that has *)
(* the message m in the kind of place k.                                   *)
(***************************************************************************)
ToSend(c) == pc[c] \in {"lock", "alloc", "put"}

Here(m, k, w) ==
    \/ k = "pool" /\ w = Host /\ m \in pool
    \/ k = "unsent" /\ ToSend(w) /\ sent[w] = m
    \/ k = "answer" /\ pc[w] \in {"ack", "copy"} /\ got[w] = m
    \/ k = "served" /\ w \in Cores /\ serving[w] = m
    \/ k = "queue" /\ w \in Cores /\ m \in Entries(selfMsgQ[w])
    \/ k = "acks" /\ w \in Cores /\ m \in Entries(selfAckMsgQ[w])
Kinds == {"pool", "unsent", "answer", "served", "queue", "acks"}

(* A message is never in two places ...                                     *)
Apart ==
    /\ \A m \in Msgs : \A k1, k2 \in Kinds, w1, w2 \in All :
          Here(m, k1, w1) /\ Here(m, k2, w2) => k1 = k2 /\ w1 = w2
    /\ \A p \in Cores : NoDup(selfMsgQ[p]) /\ NoDup(selfAckMsgQ[p])

(* ... nor in none, unless two different requests may time out.             *)
Somewhere == OneTimed => \A m \in Msgs : \E k \in Kinds, w \in All : Here(m, k, w)

(* What a caller's place says about its request, its message, its answer    *)
(* and the lock of its core.                                                *)
HasLock(c) ==
    \/ pc[c] \in {"put", "ack", "copy", "unlock", "asserted"}
    \/ pc[c] = "alloc" /\ HomeOf(c) = Host
Filled(c) == pc[c] = "put" \/ (pc[c] = "lock" /\ HomeOf(c) # Host)

CallOK(c) ==
    /\ HasLock(c) => msgQLock[HomeOf(c)] = c
    /\ req[c].timed => HomeOf(c) = Host /\ req[c].key \in TimedKeys
    /\ pc[c] = "idle" \/ (ToSend(c) /\ ~Filled(c)) => sent[c] = NoMsg
    /\ Filled(c) => sent[c] \in Msgs
                    /\ msg[sent[c]] = [key |-> req[c].key, wait |-> req[c].wait, reply |-> HomeOf(c)]
    /\ pc[c] = "ack" => sent[c] \in Msgs
    /\ pc[c] = "copy" => got[c] \in Msgs /\ (~Timed(HomeOf(c)) => got[c] = sent[c])

(* A host that has seen a wrong answer waits for a request that does not    *)
(* time out, if only one does; the answer it then has is its own.           *)
RetryOK(c) ==
    /\ pc[c] = "idle" \/ ToSend(c) => got[c] = NoMsg /\ ~retry[c]
    /\ pc[c] = "copy" => ~retry[c]
    /\ pc[c] = "ack" /\ got[c] # NoMsg => retry[c] /\ (OneTimed => got[c] = sent[c])
    /\ retry[c] => HomeOf(c) = Host /\ (OneTimed => req[c].key \notin TimedKeys)

ServerOK(p) ==
    /\ server[p] = "idle" <=> serving[p] = NoMsg
    /\ server[p] # "idle" => (server[p] = "run" <=> msg[serving[p]].wait)

(* A message that is to be acknowledged is awaited by the caller that sent  *)
(* it, or by nobody because that call has timed out, or has come back with  *)
(* an error and left the lock of its core locked.                           *)
AwaitedBy(m, c) == pc[c] = "ack" /\ sent[c] = m /\ HomeOf(c) = msg[m].reply /\ req[c].key = msg[m].key
TimedOut(m) == msg[m].reply = Host /\ msg[m].key \in TimedKeys
LostLock(p) == \E c \in All : HomeOf(c) = p /\ msgQLock[p] = c /\ ~HasLock(c)
Stale(m) == TimedOut(m) \/ LostLock(msg[m].reply)
LostStays == \A p \in Cores : LostLock(p) => LostLock(p)'
OnItsWay(m) == \E p \in Cores : Here(m, "queue", p) \/ Here(m, "served", p) \/ Here(m, "acks", p)

AcksOK ==
    /\ \A m \in Msgs : OnItsWay(m) /\ msg[m].wait => Stale(m) \/ \E c \in All : AwaitedBy(m, c)
    /\ \A p \in Cores : \A m \in Entries(selfAckMsgQ[p]) : msg[m].wait /\ msg[m].reply = p

IInv ==
    /\ TypeOK /\ config \in Configs
    /\ Apart /\ Somewhere /\ AcksOK
    /\ \A c \in All : CallOK(c) /\ RetryOK(c)
    /\ \A p \in Cores : ServerOK(p)

(***************************************************************************)
(* What the parts of the invariant need of a step.                          *)
(***************************************************************************)
Fields == [key : Keys, wait : BOOLEAN, reply : Cores]

LEMMA Basics ==
  /\ Cores \subseteq All /\ Callers \subseteq All /\ Host \in Cores
  /\ \A c \in All : HomeOf(c) \in Cores
  /\ \A p \in Cores : HomeOf(p) = p
  /\ NoReq \in Requests /\ ~NoReq.timed
  /\ NoFields \in Fields /\ ~NoFields.wait
  /\ NoMsg \notin Msgs /\ Nobody \notin All
  BY MsgQAssumption DEF All, HomeOf, NoReq, Requests, NoFields, Fields

(* No message moves; under OneTimed none is forgotten either.               *)
LEMMA Stays ==
  ASSUME IInv, UNCHANGED <<config, selfMsgQ, selfAckMsgQ>>,
         \A x \in Msgs, k \in Kinds, w \in All : Here(x, k, w)' => Here(x, k, w),
         OneTimed => \A x \in Msgs, k \in Kinds, w \in All : Here(x, k, w) => Here(x, k, w)'
  PROVE  Apart' /\ Somewhere'
  <1>1. Apart'
    BY DEF IInv, Apart
  <1>2. OneTimed' <=> OneTimed
    BY DEF OneTimed, TimedKeys
  <1>3. Somewhere'
    BY <1>2 DEF IInv, Somewhere
  <1> QED BY <1>1, <1>3

(* One message moves.                                                       *)
LEMMA Moves ==
  ASSUME IInv, config' = config, NEW m \in Msgs, NEW k1 \in Kinds, NEW w1 \in All,
         \A x \in Msgs, k \in Kinds, w \in All : x # m /\ Here(x, k, w)' => Here(x, k, w),
         OneTimed => \A x \in Msgs, k \in Kinds, w \in All :
                        x # m /\ Here(x, k, w) => Here(x, k, w)',
         \A k \in Kinds, w \in All : Here(m, k, w)' <=> k = k1 /\ w = w1,
         \A p \in Cores : NoDup(selfMsgQ'[p]) /\ NoDup(selfAckMsgQ'[p])
  PROVE  Apart' /\ Somewhere'
  <1>1. Apart'
    BY DEF IInv, Apart
  <1>2. Somewhere'
    <2> SUFFICES ASSUME OneTimed', NEW x \in Msgs
                 PROVE  \E k \in Kinds, w \in All : Here(x, k, w)'
      BY DEF Somewhere
    <2>1. OneTimed
      BY DEF OneTimed, TimedKeys
    <2>2. CASE x = m
      BY <2>2
    <2>3. CASE x # m
      <3>1. PICK k \in Kinds, w \in All : Here(x, k, w)
        BY <2>1 DEF IInv, Somewhere
      <3> QED BY <2>1, <2>3, <3>1
    <2> QED BY <2>2, <2>3
  <1> QED BY <1>1, <1>2

(* A lock that was left locked stays so.                                    *)
LEMMA LostKept ==
  ASSUME \A p \in Cores : msgQLock'[p] # msgQLock[p] =>
            msgQLock[p] \notin All \/ \E c \in All : msgQLock[p] = c /\ HasLock(c),
         \A d \in All : HasLock(d)' => HasLock(d) \/ msgQLock[HomeOf(d)] # d
  PROVE  LostStays
  <1> SUFFICES ASSUME NEW p \in Cores, NEW c \in All, HomeOf(c) = p, msgQLock[p] = c, ~HasLock(c)
               PROVE  msgQLock'[p] = c /\ ~HasLock(c)'
    BY DEF LostStays, LostLock
  <1> QED OBVIOUS

(* A message that is on its way stays awaited, or its caller times out.     *)
LEMMA AcksStay ==
  ASSUME IInv, config' = config, NEW m, LostStays,
         \A x \in Msgs, k \in Kinds, w \in All : x # m /\ Here(x, k, w)' => Here(x, k, w),
         \A x \in Msgs : x # m => msg'[x] = msg[x],
         m \in Msgs /\ OnItsWay(m)' /\ msg'[m].wait => Stale(m)' \/ \E c \in All : AwaitedBy(m, c)',
         \A x \in Msgs, c \in All :
            x # m /\ OnItsWay(x) /\ AwaitedBy(x, c) => Stale(x) \/ AwaitedBy(x, c)',
         \A p \in Cores : \A x \in Entries(selfAckMsgQ'[p]) :
            \/ x # m /\ x \in Msgs /\ x \in Entries(selfAckMsgQ[p])
            \/ x = m /\ msg'[x].wait /\ msg'[x].reply = p
  PROVE  AcksOK'
  <1>1. ASSUME NEW x \in Msgs, OnItsWay(x)', msg'[x].wait
        PROVE  Stale(x)' \/ \E c \in All : AwaitedBy(x, c)'
    <2>1. CASE x = m
      BY <1>1, <2>1
    <2>2. CASE x # m
      <3>1. OnItsWay(x) /\ msg[x].wait /\ msg'[x] = msg[x]
        BY <1>1, <2>2, Basics DEF OnItsWay, Kinds
      <3>2. Stale(x) => Stale(x)'
        BY <3>1 DEF Stale, TimedOut, LostStays, TimedKeys, IInv, TypeOK
      <3> QED BY <2>2, <3>1, <3>2 DEF IInv, AcksOK
    <2> QED BY <2>1, <2>2
  <1>2. ASSUME NEW p \in Cores, NEW x \in Entries(selfAckMsgQ'[p])
        PROVE  msg'[x].wait /\ msg'[x].reply = p
    BY DEF IInv, AcksOK
  <1> QED BY <1>1, <1>2 DEF AcksOK

(* The calls that a step does not touch.                                    *)
LEMMA OtherCall ==
  ASSUME IInv, NEW d \in All, config' = config,
         /\ pc'[d] = pc[d] /\ sent'[d] = sent[d] /\ got'[d] = got[d]
         /\ req'[d] = req[d] /\ retry'[d] = retry[d],
         HasLock(d) => msgQLock'[HomeOf(d)] = msgQLock[HomeOf(d)],
         Filled(d) => msg'[sent[d]] = msg[sent[d]]
  PROVE  CallOK(d)' /\ RetryOK(d)'
  <1>1. CallOK(d) /\ RetryOK(d)
    BY DEF IInv
  <1>2. /\ HasLock(d)' <=> HasLock(d)
        /\ Filled(d)' <=> Filled(d)
        /\ ToSend(d)' <=> ToSend(d)
    BY DEF HasLock, Filled, ToSend
  <1>3. /\ OneTimed' <=> OneTimed
        /\ TimedKeys' = TimedKeys
        /\ Timed(HomeOf(d))' <=> Timed(HomeOf(d))
    BY DEF OneTimed, TimedKeys, Timed
  <1>4. RetryOK(d)'
    BY <1>1, <1>2, <1>3 DEF RetryOK
  <1>5. CallOK(d)'
    BY <1>1, <1>2, <1>3 DEF CallOK
  <1> QED BY <1>4, <1>5

(* The callers' locks and messages are theirs alone.                        *)
LEMMA OneHolder ==
  ASSUME IInv, NEW c \in All, NEW d \in All, HasLock(c), HasLock(d), HomeOf(c) = HomeOf(d)
  PROVE  c = d
  BY DEF IInv, CallOK

(* A message is freed by whoever has it.                                    *)
LEMMA FreeFacts ==
  ASSUME IInv, NEW m \in Msgs, NEW k \in Kinds, NEW w \in All, Here(m, k, w), Free(m)
  PROVE  /\ pool' \subseteq Msgs /\ msg' \in [Msgs -> Fields] /\ ~msg'[m].wait
         /\ \A x \in Msgs : x # m => msg'[x] = msg[x] /\ (x \in pool' <=> x \in pool)
         /\ m \in pool'
         /\ \A d \in All : Filled(d) /\ (k # "unsent" \/ w # d) => msg'[sent[d]] = msg[sent[d]]
  <1>1. /\ pool' \subseteq Msgs /\ msg' \in [Msgs -> Fields] /\ ~msg'[m].wait
        /\ \A x \in Msgs : x # m => msg'[x] = msg[x] /\ (x \in pool' <=> x \in pool)
        /\ m \in pool'
    BY Basics DEF IInv, TypeOK, Free, Fields
  <1>2. ASSUME NEW d \in All, Filled(d), k # "unsent" \/ w # d PROVE msg'[sent[d]] = msg[sent[d]]
    <2>1. sent[d] \in Msgs /\ Here(sent[d], "unsent", d)
      BY <1>2 DEF IInv, CallOK, Filled, ToSend, Here
    <2>2. sent[d] # m
      BY <1>2, <2>1 DEF IInv, Apart, Kinds
    <2> QED BY <1>1, <2>1, <2>2
  <1> QED BY <1>1, <1>2

(***************************************************************************)
(* The initial states, and the steps of a call in which no message moves.   *)
(***************************************************************************)
LEMMA InitIInv == Init => IInv
  <1> SUFFICES ASSUME Init PROVE IInv
    OBVIOUS
  <1> USE DEF Init
  <1>1. TypeOK /\ config \in Configs
    BY Basics, EmptyQueue DEF TypeOK, Fields
  <1>2. \A m \in Msgs, k \in Kinds, w \in All : Here(m, k, w) <=> k = "pool" /\ w = Host
    BY Basics, EmptyQueue DEF Here, ToSend, Kinds
  <1>3. Apart
    BY <1>2, EmptyQueue DEF Apart
  <1>4. Somewhere
    BY <1>2, Basics DEF Somewhere, Kinds
  <1>5. AcksOK
    BY Basics, EmptyQueue DEF AcksOK
  <1>6. ASSUME NEW c \in All PROVE CallOK(c) /\ RetryOK(c)
    BY Basics DEF CallOK, RetryOK, HasLock, Filled, ToSend
  <1>7. ASSUME NEW p \in Cores PROVE ServerOK(p)
    BY DEF ServerOK
  <1> QED BY <1>1, <1>3, <1>4, <1>5, <1>6, <1>7 DEF IInv

LEMMA BeginIInv ==
  ASSUME IInv, NEW c \in All, NEW r \in Requests, Begin(c, r),
         r.timed => HomeOf(c) = Host /\ r.key \in TimedKeys,
         called' \in [Cores -> BOOLEAN],
         UNCHANGED <<config, pool, msg, queues, msgQLock, server, serving, sent, got, retry>>
  PROVE  IInv'
  <1> USE DEF queues
  <1>1. /\ pc[c] = "idle" /\ pc'[c] \in {"lock", "alloc"} /\ (pc'[c] = "lock" <=> HomeOf(c) = Host)
        /\ req'[c] = r
        /\ \A d \in All : d # c => pc'[d] = pc[d] /\ req'[d] = req[d]
    BY DEF Begin, IInv, TypeOK
  <1>2. TypeOK'
    BY DEF IInv, TypeOK, Begin
  <1>3. sent[c] = NoMsg /\ got[c] = NoMsg /\ ~retry[c]
    BY <1>1 DEF IInv, CallOK, RetryOK
  <1>4. \A x \in Msgs, k \in Kinds, w \in All : Here(x, k, w)' <=> Here(x, k, w)
    BY <1>1, <1>3, Basics DEF Here, ToSend
  <1>5. Apart' /\ Somewhere'
    BY <1>4, Stays
  <1>l. LostStays
    BY <1>1, LostKept, Basics DEF HasLock, IInv, TypeOK, CallOK
  <1>6. AcksOK'
    <2>1. \A x \in Msgs, d \in All : AwaitedBy(x, d) => AwaitedBy(x, d)'
      BY <1>1 DEF AwaitedBy
    <2>2. \A p \in Cores : \A x \in Entries(selfAckMsgQ[p]) : x \in Msgs
      BY SomeElem DEF IInv, TypeOK
    <2> QED BY <1>l, <1>4, <2>1, <2>2, Basics, AcksStay
  <1>7. CallOK(c)' /\ RetryOK(c)'
    <2>1. ~HasLock(c)' /\ ~Filled(c)' /\ ToSend(c)'
      BY <1>1 DEF HasLock, Filled, ToSend
    <2>2. TimedKeys' = TimedKeys
      BY DEF TimedKeys
    <2> QED BY <1>1, <1>3, <2>1, <2>2 DEF CallOK, RetryOK
  <1>8. ASSUME NEW d \in All PROVE CallOK(d)' /\ RetryOK(d)'
    BY <1>1, <1>7, OtherCall
  <1>9. ASSUME NEW p \in Cores PROVE ServerOK(p)'
    BY DEF IInv, ServerOK
  <1> QED BY <1>2, <1>5, <1>6, <1>8, <1>9 DEF IInv

LEMMA CallIInv == ASSUME IInv, NEW c \in Callers, Call(c) PROVE IInv'
  <1>1. PICK r \in config.calls[c] : Begin(c, r)
    BY DEF Call
  <1>2. config \in ConfigType /\ config.calls[c] \in SUBSET Requests /\ c \in All
    BY MsgQAssumption, Basics DEF IInv, ConfigType
  <1>3. r \in Requests
    BY <1>1, <1>2
  <1>4. r.timed => HomeOf(c) = Host /\ r.key \in TimedKeys
    <2>1. r.timed => Home[c] = Host /\ c \notin Cores
      BY <1>1, MsgQAssumption DEF IInv
    <2> QED BY <1>1, <2>1 DEF HomeOf, TimedKeys
  <1>5. /\ called' \in [Cores -> BOOLEAN]
        /\ UNCHANGED <<config, pool, msg, queues, msgQLock, server, serving, sent, got, retry>>
    BY DEF Call, servers, IInv, TypeOK
  <1> QED BY <1>1, <1>2, <1>3, <1>4, <1>5, BeginIInv

LEMMA NestedCallIInv == ASSUME IInv, NEW p \in Cores, NestedCall(p) PROVE IInv'
  <1>1. PICK r \in Nested[msg[serving[p]].key] : Begin(p, r)
    BY DEF NestedCall
  <1>2. msg[serving[p]].key \in Keys
    BY DEF NestedCall, IInv, ServerOK, TypeOK
  <1>3. r \in Requests /\ ~r.timed
    BY <1>1, <1>2, MsgQAssumption
  <1>4. /\ called' \in [Cores -> BOOLEAN]
        /\ UNCHANGED <<config, pool, msg, queues, msgQLock, server, serving, sent, got, retry>>
    BY DEF NestedCall, IInv, TypeOK
  <1> QED BY <1>1, <1>3, <1>4, Basics, BeginIInv

LEMMA AllocFailsIInv == ASSUME IInv, NEW c \in All, AllocFails(c) PROVE IInv'
  <1> USE DEF AllocFails, queues, servers
  <1>1. /\ pc[c] = "alloc" /\ pc'[c] = "idle" /\ req'[c] = NoReq /\ HomeOf(c) # Host
        /\ \A d \in All : d # c => pc'[d] = pc[d] /\ req'[d] = req[d]
    BY DEF IInv, TypeOK
  <1>2. TypeOK'
    BY Basics DEF IInv, TypeOK
  <1>3. sent[c] = NoMsg /\ got[c] = NoMsg /\ ~retry[c]
    BY <1>1 DEF IInv, CallOK, RetryOK, ToSend, Filled
  <1>4. \A x \in Msgs, k \in Kinds, w \in All : Here(x, k, w)' <=> Here(x, k, w)
    BY <1>1, <1>3, Basics DEF Here, ToSend
  <1>5. Apart' /\ Somewhere'
    BY <1>4, Stays
  <1>l. LostStays
    BY <1>1, LostKept, Basics DEF HasLock, IInv, TypeOK, CallOK
  <1>6. AcksOK'
    <2>1. \A x \in Msgs, d \in All : AwaitedBy(x, d) => AwaitedBy(x, d)'
      BY <1>1 DEF AwaitedBy
    <2>2. \A p \in Cores : \A x \in Entries(selfAckMsgQ[p]) : x \in Msgs
      BY SomeElem DEF IInv, TypeOK
    <2> QED BY <1>l, <1>4, <2>1, <2>2, Basics, AcksStay
  <1>7. CallOK(c)' /\ RetryOK(c)'
    BY <1>1, <1>3, Basics DEF CallOK, RetryOK, HasLock, Filled, ToSend
  <1>8. ASSUME NEW d \in All PROVE CallOK(d)' /\ RetryOK(d)'
    BY <1>1, <1>7, OtherCall
  <1>9. ASSUME NEW p \in Cores PROVE ServerOK(p)'
    BY DEF IInv, ServerOK
  <1> QED BY <1>2, <1>5, <1>6, <1>8, <1>9 DEF IInv

LEMMA AllocAssertsIInv == ASSUME IInv, NEW c \in All, AllocAsserts(c) PROVE IInv'
  <1> USE DEF AllocAsserts, queues, servers
  <1>1. /\ pc[c] = "alloc" /\ pc'[c] = "asserted" /\ HomeOf(c) = Host
        /\ \A d \in All : d # c => pc'[d] = pc[d]
    BY DEF IInv, TypeOK
  <1>2. TypeOK'
    BY DEF IInv, TypeOK
  <1>3. /\ sent[c] = NoMsg /\ got[c] = NoMsg /\ ~retry[c]
        /\ msgQLock[HomeOf(c)] = c
        /\ req[c].timed => req[c].key \in TimedKeys
    BY <1>1 DEF IInv, CallOK, RetryOK, ToSend, Filled, HasLock
  <1>t. TimedKeys' = TimedKeys
    BY DEF TimedKeys
  <1>4. \A x \in Msgs, k \in Kinds, w \in All : Here(x, k, w)' <=> Here(x, k, w)
    BY <1>1, <1>3, Basics DEF Here, ToSend
  <1>5. Apart' /\ Somewhere'
    BY <1>4, Stays
  <1>l. LostStays
    BY <1>1, LostKept, Basics DEF HasLock, IInv, TypeOK, CallOK
  <1>6. AcksOK'
    <2>1. \A x \in Msgs, d \in All : AwaitedBy(x, d) => AwaitedBy(x, d)'
      BY <1>1 DEF AwaitedBy
    <2>2. \A p \in Cores : \A x \in Entries(selfAckMsgQ[p]) : x \in Msgs
      BY SomeElem DEF IInv, TypeOK
    <2> QED BY <1>l, <1>4, <2>1, <2>2, Basics, AcksStay
  <1>7. CallOK(c)' /\ RetryOK(c)'
    BY <1>1, <1>3, <1>t, Basics DEF CallOK, RetryOK, HasLock, Filled, ToSend
  <1>8. ASSUME NEW d \in All PROVE CallOK(d)' /\ RetryOK(d)'
    BY <1>1, <1>7, OtherCall
  <1>9. ASSUME NEW p \in Cores PROVE ServerOK(p)'
    BY DEF IInv, ServerOK
  <1> QED BY <1>2, <1>5, <1>6, <1>8, <1>9 DEF IInv

LEMMA LockIInv == ASSUME IInv, NEW c \in All, Lock(c) PROVE IInv'
  <1> USE DEF Lock, Unlocked, queues, servers
  <1>0. HomeOf(c) \in Cores /\ \A d \in All : HomeOf(d) \in Cores
    BY Basics
  <1>1. /\ pc[c] = "lock" /\ pc'[c] = IF HomeOf(c) = Host THEN "alloc" ELSE "put"
        /\ \A d \in All : d # c => pc'[d] = pc[d]
        /\ msgQLock[HomeOf(c)] = Nobody /\ msgQLock'[HomeOf(c)] = c
        /\ \A p \in Cores : p # HomeOf(c) => msgQLock'[p] = msgQLock[p]
    BY <1>0 DEF IInv, TypeOK
  <1>2. TypeOK'
    BY <1>0 DEF IInv, TypeOK
  <1>3. /\ ToSend(c) /\ ToSend(c)'
        /\ Filled(c)' <=> Filled(c)
    BY <1>1 DEF ToSend, Filled
  <1>4. \A x \in Msgs, k \in Kinds, w \in All : Here(x, k, w)' <=> Here(x, k, w)
    BY <1>1, Basics DEF Here, ToSend
  <1>5. Apart' /\ Somewhere'
    BY <1>4, Stays
  <1>l. LostStays
    BY <1>1, LostKept, Basics DEF HasLock, IInv, TypeOK, CallOK
  <1>6. AcksOK'
    <2>1. \A x \in Msgs, d \in All : AwaitedBy(x, d) => AwaitedBy(x, d)'
      BY <1>1 DEF AwaitedBy
    <2>2. \A p \in Cores : \A x \in Entries(selfAckMsgQ[p]) : x \in Msgs
      BY SomeElem DEF IInv, TypeOK
    <2> QED BY <1>l, <1>4, <2>1, <2>2, Basics, AcksStay
  <1>7. CallOK(c)' /\ RetryOK(c)'
    <2>1. CallOK(c) /\ RetryOK(c) /\ TimedKeys' = TimedKeys
      BY DEF IInv, TimedKeys
    <2>2. RetryOK(c)'
      BY <1>1, <1>3, <2>1 DEF RetryOK, ToSend
    <2>3. CallOK(c)'
      BY <1>1, <1>3, <2>1 DEF CallOK
    <2> QED BY <2>2, <2>3
  <1>8. ASSUME NEW d \in All PROVE CallOK(d)' /\ RetryOK(d)'
    <2>1. CASE d # c
      <3>0. HasLock(d) => msgQLock[HomeOf(d)] = d
        BY DEF IInv, CallOK
      <3>1. HasLock(d) => HomeOf(d) # HomeOf(c)
        BY <1>1, <3>0, Basics
      <3> QED BY <1>0, <1>1, <2>1, <3>1, OtherCall
    <2> QED BY <1>7, <2>1
  <1>9. ASSUME NEW p \in Cores PROVE ServerOK(p)'
    BY DEF IInv, ServerOK
  <1> QED BY <1>2, <1>5, <1>6, <1>8, <1>9 DEF IInv

LEMMA UnlockIInv == ASSUME IInv, NEW c \in All, Unlock(c) PROVE IInv'
  <1> USE DEF Unlock, queues, servers
  <1>0. HomeOf(c) \in Cores /\ \A d \in All : HomeOf(d) \in Cores
    BY Basics
  <1>1. /\ pc[c] = "unlock" /\ pc'[c] = "idle" /\ req'[c] = NoReq
        /\ sent'[c] = NoMsg /\ got'[c] = NoMsg /\ ~retry'[c]
        /\ \A d \in All : d # c => /\ pc'[d] = pc[d] /\ req'[d] = req[d] /\ sent'[d] = sent[d]
                                   /\ got'[d] = got[d] /\ retry'[d] = retry[d]
        /\ \A p \in Cores : p # HomeOf(c) => msgQLock'[p] = msgQLock[p]
    BY <1>0 DEF IInv, TypeOK
  <1>2. TypeOK'
    BY <1>0, Basics DEF IInv, TypeOK
  <1>4. \A x \in Msgs, k \in Kinds, w \in All : Here(x, k, w)' <=> Here(x, k, w)
    BY <1>1, Basics DEF Here, ToSend
  <1>5. Apart' /\ Somewhere'
    BY <1>4, Stays
  <1>l. LostStays
    <2>1. \A p \in Cores : msgQLock'[p] # msgQLock[p] =>
            msgQLock[p] \notin All \/ \E d \in All : msgQLock[p] = d /\ HasLock(d)
      <3>1. HasLock(c) /\ CallOK(c)
        BY <1>1 DEF HasLock, IInv
      <3> QED BY <1>1, <3>1 DEF CallOK
    <2>2. \A d \in All : HasLock(d)' => HasLock(d)
      BY <1>1 DEF HasLock
    <2> QED BY <2>1, <2>2, LostKept
  <1>6. AcksOK'
    <2>1. \A x \in Msgs, d \in All : AwaitedBy(x, d) => AwaitedBy(x, d)'
      BY <1>1 DEF AwaitedBy
    <2>2. \A p \in Cores : \A x \in Entries(selfAckMsgQ[p]) : x \in Msgs
      BY SomeElem DEF IInv, TypeOK
    <2> QED BY <1>l, <1>4, <2>1, <2>2, Basics, AcksStay
  <1>7. CallOK(c)' /\ RetryOK(c)'
    BY <1>1, Basics DEF CallOK, RetryOK, HasLock, Filled, ToSend
  <1>8. ASSUME NEW d \in All PROVE CallOK(d)' /\ RetryOK(d)'
    <2>1. CASE d # c
      <3>1. HasLock(d) => HomeOf(d) # HomeOf(c)
        BY <1>1, <2>1, OneHolder DEF HasLock
      <3> QED BY <1>0, <1>1, <2>1, <3>1, OtherCall
    <2> QED BY <1>7, <2>1
  <1>9. ASSUME NEW p \in Cores PROVE ServerOK(p)'
    BY DEF IInv, ServerOK
  <1> QED BY <1>2, <1>5, <1>6, <1>8, <1>9 DEF IInv

(* The call comes back without its answer: the lock of its core is left      *)
(* locked, and nobody awaits the message any more.                           *)
LEMMA NoAckIInv == ASSUME IInv, NEW c \in All, NoAck(c) PROVE IInv'
  <1> USE DEF NoAck, queues, servers
  <1>0. HomeOf(c) \in Cores
    BY Basics
  <1>1. /\ pc[c] = "ack" /\ pc'[c] = "idle" /\ HomeOf(c) # Host
        /\ req'[c] = NoReq /\ sent'[c] = NoMsg
        /\ \A d \in All : d # c => pc'[d] = pc[d] /\ req'[d] = req[d] /\ sent'[d] = sent[d]
    BY DEF IInv, TypeOK
  <1>2. TypeOK'
    BY Basics DEF IInv, TypeOK
  <1>3. got[c] = NoMsg /\ ~retry[c] /\ msgQLock[HomeOf(c)] = c
    BY <1>1 DEF IInv, CallOK, RetryOK, HasLock
  <1>4. \A x \in Msgs, k \in Kinds, w \in All : Here(x, k, w)' <=> Here(x, k, w)
    BY <1>1, <1>3, Basics DEF Here, ToSend
  <1>5. Apart' /\ Somewhere'
    BY <1>4, Stays
  <1>l. LostStays
    BY <1>1, LostKept, Basics DEF HasLock, IInv, TypeOK, CallOK
  <1>6. AcksOK'
    <2>1. LostLock(HomeOf(c))'
      BY <1>0, <1>1, <1>3 DEF LostLock, HasLock
    <2>2. \A x \in Msgs, d \in All : d # c /\ AwaitedBy(x, d) => AwaitedBy(x, d)'
      BY <1>1 DEF AwaitedBy
    <2>3. \A x \in Msgs : OnItsWay(x)' => OnItsWay(x)
      BY <1>4, Basics DEF OnItsWay, Kinds
    <2>4. ASSUME NEW x \in Msgs, OnItsWay(x)', msg'[x].wait
          PROVE  Stale(x)' \/ \E d \in All : AwaitedBy(x, d)'
      <3>1. CASE Stale(x)
        BY <1>l, <3>1 DEF Stale, TimedOut, LostStays, TimedKeys, IInv, TypeOK
      <3>2. CASE AwaitedBy(x, c)
        BY <2>1, <3>2 DEF AwaitedBy, Stale
      <3> QED BY <2>2, <2>3, <2>4, <3>1, <3>2 DEF IInv, AcksOK
    <2> QED BY <2>4 DEF IInv, AcksOK
  <1>7. CallOK(c)' /\ RetryOK(c)'
    BY <1>1, <1>3, Basics DEF CallOK, RetryOK, HasLock, Filled, ToSend
  <1>8. ASSUME NEW d \in All PROVE CallOK(d)' /\ RetryOK(d)'
    BY <1>1, <1>7, OtherCall
  <1>9. ASSUME NEW p \in Cores PROVE ServerOK(p)'
    BY DEF IInv, ServerOK
  <1> QED BY <1>2, <1>5, <1>6, <1>8, <1>9 DEF IInv

(* The caller gives up; a message that it got meanwhile is forgotten.       *)
LEMMA TimeoutIInv == ASSUME IInv, NEW c \in All, Timeout(c) PROVE IInv'
  <1> USE DEF Timeout, queues, servers
  <1>1. /\ pc[c] = "ack" /\ pc'[c] = "unlock" /\ req[c].timed
        /\ \A d \in All : d # c => pc'[d] = pc[d]
    BY DEF IInv, TypeOK
  <1>2. TypeOK'
    BY DEF IInv, TypeOK
  <1>3. OneTimed => got[c] = NoMsg
    BY <1>1 DEF IInv, CallOK, RetryOK
  <1>4. /\ \A x \in Msgs, k \in Kinds, w \in All : Here(x, k, w)' => Here(x, k, w)
        /\ OneTimed => \A x \in Msgs, k \in Kinds, w \in All : Here(x, k, w) => Here(x, k, w)'
    BY <1>1, <1>3, Basics DEF Here, ToSend
  <1>5. Apart' /\ Somewhere'
    BY <1>4, Stays
  <1>l. LostStays
    BY <1>1, LostKept, Basics DEF HasLock, IInv, TypeOK, CallOK
  <1>6. AcksOK'
    <2>1. \A x \in Msgs, d \in All : AwaitedBy(x, d) => AwaitedBy(x, d)' \/ Stale(x)
      BY <1>1 DEF AwaitedBy, IInv, CallOK, Stale, TimedOut
    <2>2. \A p \in Cores : \A x \in Entries(selfAckMsgQ[p]) : x \in Msgs
      BY SomeElem DEF IInv, TypeOK
    <2> QED BY <1>l, <1>4, <2>1, <2>2, Basics, AcksStay
  <1>7. CallOK(c)' /\ RetryOK(c)'
    <2>1. CallOK(c) /\ RetryOK(c) /\ HasLock(c) /\ HasLock(c)' /\ ~Filled(c)' /\ ~ToSend(c)'
      BY <1>1 DEF IInv, HasLock, Filled, ToSend
    <2>2. /\ TimedKeys' = TimedKeys
          /\ OneTimed' <=> OneTimed
      BY DEF TimedKeys, OneTimed
    <2>3. RetryOK(c)'
      BY <1>1, <2>1, <2>2 DEF RetryOK
    <2>4. CallOK(c)'
      BY <1>1, <2>1, <2>2 DEF CallOK
    <2> QED BY <2>3, <2>4
  <1>8. ASSUME NEW d \in All PROVE CallOK(d)' /\ RetryOK(d)'
    BY <1>1, <1>7, OtherCall
  <1>9. ASSUME NEW p \in Cores PROVE ServerOK(p)'
    BY DEF IInv, ServerOK
  <1> QED BY <1>2, <1>5, <1>6, <1>8, <1>9 DEF IInv

(***************************************************************************)
(* The steps that move a message.                                           *)
(***************************************************************************)
LEMMA AllocIInv == ASSUME IInv, NEW c \in All, Alloc(c) PROVE IInv'
  <1> USE DEF Alloc, queues, servers
  <1> DEFINE fields == [key |-> req[c].key, wait |-> req[c].wait, reply |-> HomeOf(c)]
  <1>0. PICK m \in pool : /\ pool' = pool \ {m} /\ msg' = [msg EXCEPT ![m] = fields]
                          /\ sent' = [sent EXCEPT ![c] = m]
    OBVIOUS
  <1>1. /\ m \in Msgs /\ msg'[m] = fields /\ fields \in Fields
        /\ pc[c] = "alloc" /\ pc'[c] = IF HomeOf(c) = Host THEN "put" ELSE "lock"
        /\ sent'[c] = m
        /\ \A d \in All : d # c => pc'[d] = pc[d] /\ sent'[d] = sent[d]
        /\ \A x \in Msgs : x # m => msg'[x] = msg[x]
    BY <1>0, Basics DEF IInv, TypeOK, Fields, Requests
  <1> HIDE DEF fields
  <1>2. TypeOK'
    BY <1>0, <1>1 DEF IInv, TypeOK, Fields
  <1>3. /\ sent[c] = NoMsg /\ got[c] = NoMsg /\ ~retry[c]
        /\ ToSend(c) /\ ToSend(c)' /\ Filled(c)'
    BY <1>1 DEF IInv, CallOK, RetryOK, ToSend, Filled
  <1>4. \A k \in Kinds, w \in All : Here(m, k, w) <=> k = "pool" /\ w = Host
    <2>1. Here(m, "pool", Host) /\ "pool" \in Kinds /\ Host \in All
      BY <1>0, Basics DEF Here, Kinds
    <2> QED BY <1>1, <2>1 DEF IInv, Apart
  <1>5. \A k \in Kinds, w \in All : Here(m, k, w)' <=> k = "unsent" /\ w = c
    <2>1. m \notin pool'
      BY <1>0
    <2>2. \A k \in Kinds, w \in All : Here(m, k, w)' => Here(m, k, w) \/ (k = "unsent" /\ w = c)
      BY <1>1 DEF Here, ToSend
    <2>3. ~Here(m, "pool", Host)'
      BY <2>1 DEF Here
    <2>4. Here(m, "unsent", c)'
      BY <1>1, <1>3 DEF Here
    <2> QED BY <1>4, <2>2, <2>3, <2>4
  <1>6. \A x \in Msgs, k \in Kinds, w \in All : x # m => (Here(x, k, w)' <=> Here(x, k, w))
    BY <1>0, <1>1, <1>3, Basics DEF Here, ToSend
  <1>7. Apart' /\ Somewhere'
    <2>1. "unsent" \in Kinds
      BY DEF Kinds
    <2>2. \A p \in Cores : NoDup(selfMsgQ'[p]) /\ NoDup(selfAckMsgQ'[p])
      BY DEF IInv, Apart
    <2> QED BY <1>1, <1>5, <1>6, <2>1, <2>2, Moves
  <1>l. LostStays
    BY <1>1, LostKept, Basics DEF HasLock, IInv, TypeOK, CallOK
  <1>8. AcksOK'
    <2>1. \A x \in Msgs, d \in All : AwaitedBy(x, d) /\ x # m => AwaitedBy(x, d)'
      BY <1>1 DEF AwaitedBy
    <2>2. ~OnItsWay(m)'
      BY <1>5, Basics DEF OnItsWay, Kinds
    <2>3. \A p \in Cores : \A x \in Entries(selfAckMsgQ[p]) : x \in Msgs /\ x # m
      <3>1. ASSUME NEW p \in Cores PROVE m \notin Entries(selfAckMsgQ[p])
        <4>1. ~Here(m, "acks", p)
          BY <1>4, Basics DEF Kinds
        <4> QED BY <4>1 DEF Here
      <3> QED BY <3>1, SomeElem DEF IInv, TypeOK
    <2> QED BY <1>l, <1>1, <1>6, <2>1, <2>2, <2>3, AcksStay
  <1>9. CallOK(c)' /\ RetryOK(c)'
    <2>1. CallOK(c) /\ TimedKeys' = TimedKeys
      BY DEF IInv, TimedKeys
    <2>2. RetryOK(c)'
      BY <1>1, <1>3 DEF RetryOK
    <2>3. HasLock(c)' => HasLock(c)
      BY <1>1 DEF HasLock
    <2>4. CallOK(c)'
      BY <1>1, <1>3, <2>1, <2>3 DEF CallOK, fields
    <2> QED BY <2>2, <2>4
  <1>10. ASSUME NEW d \in All PROVE CallOK(d)' /\ RetryOK(d)'
    <2>1. CASE d # c
      <3>1. Filled(d) => sent[d] \in Msgs /\ Here(sent[d], "unsent", d)
        BY DEF IInv, CallOK, Filled, ToSend, Here
      <3>2. Filled(d) => msg'[sent[d]] = msg[sent[d]]
        BY <1>1, <1>4, <3>1 DEF Kinds
      <3> QED BY <1>1, <2>1, <3>2, OtherCall
    <2> QED BY <1>9, <2>1
  <1>11. ASSUME NEW p \in Cores PROVE ServerOK(p)'
    <2>1. serving[p] # m
      <3>1. ~Here(m, "served", p)
        BY <1>4, Basics DEF Kinds
      <3> QED BY <3>1 DEF Here
    <2>2. server[p] # "idle" => msg'[serving[p]] = msg[serving[p]]
      BY <1>1, <2>1 DEF IInv, TypeOK, ServerOK
    <2> QED BY <2>2 DEF IInv, ServerOK
  <1> QED BY <1>2, <1>7, <1>8, <1>10, <1>11 DEF IInv

LEMMA PutIInv == ASSUME IInv, NEW c \in All, Put(c) PROVE IInv'
  <1> USE DEF Put, servers
  <1>0. PICK m \in Msgs, q \in Cores : /\ m = sent[c] /\ q = req[c].to
                                       /\ msg[m] = [key |-> req[c].key, wait |-> req[c].wait, reply |-> HomeOf(c)]
    BY DEF IInv, CallOK, Filled, TypeOK, Requests
  <1>1. /\ pc[c] = "put" /\ pc'[c] = IF req[c].wait THEN "ack" ELSE "unlock"
        /\ \A d \in All : d # c => pc'[d] = pc[d]
        /\ selfMsgQ[q] \in Seq(Msgs)
        /\ selfMsgQ'[q] = Append(selfMsgQ[q], m)
        /\ \A p \in Cores : p # q => selfMsgQ'[p] = selfMsgQ[p]
    BY <1>0 DEF IInv, TypeOK
  <1>2. \A k \in Kinds, w \in All : Here(m, k, w) <=> k = "unsent" /\ w = c
    <2>1. Here(m, "unsent", c) /\ "unsent" \in Kinds
      BY <1>0, <1>1 DEF Here, Kinds, ToSend
    <2> QED BY <2>1 DEF IInv, Apart
  <1>3. /\ selfMsgQ'[q] \in Seq(Msgs) /\ Entries(selfMsgQ'[q]) = Entries(selfMsgQ[q]) \cup {m}
        /\ NoDup(selfMsgQ'[q])
    <2>1. ~Here(m, "queue", q)
      BY <1>2, Basics DEF Kinds
    <2>2. m \notin Entries(selfMsgQ[q])
      BY <2>1 DEF Here
    <2> QED BY <1>1, <2>2, PutElem DEF IInv, Apart
  <1>4. TypeOK'
    <2>1. selfMsgQ' \in [Cores -> Seq(Msgs)]
      BY <1>1, <1>3 DEF IInv, TypeOK
    <2> QED BY <2>1 DEF IInv, TypeOK
  <1>5. \A k \in Kinds, w \in All : Here(m, k, w)' <=> k = "queue" /\ w = q
    <2>1. \A k \in Kinds, w \in All : Here(m, k, w)' => Here(m, k, w) \/ (k = "queue" /\ w = q)
      <3>1. got[c] # m
        BY <1>1, Basics DEF IInv, RetryOK, ToSend
      <3> QED BY <1>1, <3>1 DEF Here, ToSend
    <2>2. ~Here(m, "unsent", c)'
      BY <1>1 DEF Here, ToSend
    <2>3. Here(m, "queue", q)'
      BY <1>3 DEF Here
    <2> QED BY <1>2, <2>1, <2>2, <2>3
  <1>6. \A x \in Msgs, k \in Kinds, w \in All : x # m => (Here(x, k, w)' <=> Here(x, k, w))
    <2>1. got[c] = NoMsg
      BY <1>1 DEF IInv, RetryOK, ToSend
    <2> QED BY <1>0, <1>1, <1>3, <2>1, Basics DEF Here, ToSend
  <1>7. Apart' /\ Somewhere'
    <2>1. "queue" \in Kinds
      BY DEF Kinds
    <2>2. \A p \in Cores : NoDup(selfMsgQ'[p]) /\ NoDup(selfAckMsgQ'[p])
      BY <1>1, <1>3 DEF IInv, Apart
    <2> QED BY <1>1, <1>5, <1>6, <2>1, <2>2, Basics, Moves
  <1>l. LostStays
    BY <1>1, LostKept, Basics DEF HasLock, IInv, TypeOK, CallOK
  <1>8. AcksOK'
    <2>1. \A x \in Msgs, d \in All : AwaitedBy(x, d) => AwaitedBy(x, d)'
      BY <1>1 DEF AwaitedBy
    <2>2. msg'[m].wait => AwaitedBy(m, c)'
      BY <1>0, <1>1 DEF AwaitedBy
    <2>3. \A p \in Cores : \A x \in Entries(selfAckMsgQ[p]) : x \in Msgs /\ x # m
      <3>1. ASSUME NEW p \in Cores PROVE m \notin Entries(selfAckMsgQ[p])
        <4>1. ~Here(m, "acks", p)
          BY <1>2, Basics DEF Kinds
        <4> QED BY <4>1 DEF Here
      <3> QED BY <3>1, SomeElem DEF IInv, TypeOK
    <2> QED BY <1>l, <1>1, <1>6, <2>1, <2>2, <2>3, AcksStay
  <1>9. CallOK(c)' /\ RetryOK(c)'
    <2>1. /\ CallOK(c) /\ RetryOK(c) /\ TimedKeys' = TimedKeys
          /\ HasLock(c) /\ ~Filled(c)' /\ ~ToSend(c)' /\ ToSend(c)
      BY <1>1 DEF IInv, TimedKeys, HasLock, Filled, ToSend
    <2>2. RetryOK(c)'
      BY <1>1, <2>1 DEF RetryOK
    <2>3. CallOK(c)'
      BY <1>0, <1>1, <2>1 DEF CallOK
    <2> QED BY <2>2, <2>3
  <1>10. ASSUME NEW d \in All PROVE CallOK(d)' /\ RetryOK(d)'
    BY <1>1, <1>9, OtherCall
  <1>11. ASSUME NEW p \in Cores PROVE ServerOK(p)'
    BY DEF IInv, ServerOK
  <1> QED BY <1>4, <1>7, <1>8, <1>10, <1>11 DEF IInv

(* A message is freed: it goes from where it was to the heap.               *)
LEMMA Freed ==
  ASSUME IInv, config' = config, NEW m \in Msgs, NEW k0 \in Kinds, NEW w0 \in All,
         Here(m, k0, w0), Free(m), LostStays,
         \A x \in Msgs, k \in Kinds, w \in All :
            k # "pool" => (Here(x, k, w)' <=> Here(x, k, w) /\ x # m),
         \A p \in Cores : NoDup(selfMsgQ'[p]) /\ NoDup(selfAckMsgQ'[p]),
         \A p \in Cores : selfAckMsgQ'[p] \in Seq(Msgs),
         \A x \in Msgs, d \in All : x # m /\ AwaitedBy(x, d) => AwaitedBy(x, d)'
  PROVE  Apart' /\ Somewhere' /\ AcksOK'
  <1>1. /\ ~msg'[m].wait /\ m \in pool'
        /\ \A x \in Msgs : x # m => msg'[x] = msg[x] /\ (x \in pool' <=> x \in pool)
    BY FreeFacts
  <1>2. \A w \in All : Here(m, "pool", w)' <=> w = Host
    BY <1>1 DEF Here
  <1>3. \A k \in Kinds, w \in All : Here(m, k, w)' <=> k = "pool" /\ w = Host
    BY <1>2
  <1>4. \A x \in Msgs, w \in All : x # m => (Here(x, "pool", w)' <=> Here(x, "pool", w))
    BY <1>1 DEF Here
  <1>5. \A x \in Msgs, k \in Kinds, w \in All : x # m => (Here(x, k, w)' <=> Here(x, k, w))
    BY <1>4
  <1>6. Apart' /\ Somewhere'
    <2>1. "pool" \in Kinds /\ Host \in All
      BY Basics DEF Kinds
    <2> QED BY <1>3, <1>5, <2>1, Moves
  <1>7. AcksOK'
    <2>1. \A p \in Cores : \A x \in Entries(selfAckMsgQ'[p]) :
             x # m /\ x \in Msgs /\ x \in Entries(selfAckMsgQ[p])
      <3>1. ASSUME NEW p \in Cores, NEW x \in Entries(selfAckMsgQ'[p])
            PROVE  x # m /\ x \in Msgs /\ x \in Entries(selfAckMsgQ[p])
        <4>1. x \in Msgs
          BY SomeElem
        <4>2. Here(x, "acks", p)' /\ "acks" \in Kinds /\ p \in All
          BY <3>1, Basics DEF Here, Kinds
        <4>3. Here(x, "acks", p) /\ x # m
          BY <4>1, <4>2
        <4> QED BY <4>1, <4>3 DEF Here
      <3> QED BY <3>1
    <2> QED BY <1>1, <1>5, <2>1, AcksStay
  <1> QED BY <1>6, <1>7

(* The caller's message or answer is freed, and the caller goes on to give  *)
(* the lock up.                                                             *)
LEMMA CallerFrees ==
  ASSUME IInv, NEW c \in All, NEW m \in Msgs,
         \/ pc[c] = "put" /\ m = sent[c]
         \/ pc[c] = "copy" /\ m = got[c],
         Free(m), pc' = [pc EXCEPT ![c] = "unlock"],
         UNCHANGED <<config, queues, msgQLock, servers, req, sent, got, retry>>
  PROVE  IInv'
  <1> USE DEF queues, servers
  <1>1. pc'[c] = "unlock" /\ \A d \in All : d # c => pc'[d] = pc[d]
    BY DEF IInv, TypeOK
  <1>2. PICK k0 \in Kinds : /\ Here(m, k0, c)
                            /\ k0 = IF pc[c] = "put" THEN "unsent" ELSE "answer"
    BY DEF Here, ToSend, Kinds
  <1>3. /\ pool' \subseteq Msgs /\ msg' \in [Msgs -> Fields]
        /\ \A d \in All : Filled(d) /\ (k0 # "unsent" \/ c # d) => msg'[sent[d]] = msg[sent[d]]
        /\ \A x \in Msgs : x # m => msg'[x] = msg[x]
    BY <1>2, FreeFacts
  <1>4. TypeOK'
    BY <1>3 DEF IInv, TypeOK, Fields
  <1>5. \A k \in Kinds, w \in All : Here(m, k, w) => k = k0 /\ w = c
    BY <1>2 DEF IInv, Apart
  <1>6. got[c] = NoMsg \/ pc[c] = "copy"
    BY DEF IInv, RetryOK, ToSend
  <1>7. \A x \in Msgs, k \in Kinds, w \in All :
            k # "pool" => (Here(x, k, w)' <=> Here(x, k, w) /\ x # m)
    <2>1. ASSUME NEW x \in Msgs, NEW k \in Kinds, NEW w \in All, k # "pool",
                 Here(x, k, w), x # m
          PROVE  Here(x, k, w)'
      BY <1>1, <1>2, <2>1 DEF Here, ToSend
    <2>2. ASSUME NEW x \in Msgs, NEW k \in Kinds, NEW w \in All, k # "pool", Here(x, k, w)'
          PROVE  Here(x, k, w) /\ (w = c => k \notin {"unsent", "answer"})
      BY <1>1, <2>2 DEF Here, ToSend
    <2>3. k0 \in {"unsent", "answer"}
      BY <1>2
    <2> QED BY <1>5, <2>1, <2>2, <2>3
  <1>l. LostStays
    BY <1>1, LostKept, Basics DEF HasLock, IInv, TypeOK, CallOK
  <1>8. Apart' /\ Somewhere' /\ AcksOK'
    <2>1. \A p \in Cores : NoDup(selfMsgQ'[p]) /\ NoDup(selfAckMsgQ'[p]) /\ selfAckMsgQ'[p] \in Seq(Msgs)
      BY DEF IInv, Apart, TypeOK
    <2>2. \A x \in Msgs, d \in All : x # m /\ AwaitedBy(x, d) => AwaitedBy(x, d)'
      BY <1>1, <1>3 DEF AwaitedBy
    <2> QED BY <1>l, <1>2, <1>7, <2>1, <2>2, Freed
  <1>9. CallOK(c)' /\ RetryOK(c)'
    <2>1. /\ CallOK(c) /\ RetryOK(c) /\ TimedKeys' = TimedKeys /\ (OneTimed' <=> OneTimed)
          /\ HasLock(c) /\ ~Filled(c)' /\ ~ToSend(c)'
      BY <1>1 DEF IInv, TimedKeys, OneTimed, HasLock, Filled, ToSend
    <2>2. RetryOK(c)'
      BY <1>1, <2>1 DEF RetryOK
    <2>3. CallOK(c)'
      BY <1>1, <2>1 DEF CallOK
    <2> QED BY <2>2, <2>3
  <1>10. ASSUME NEW d \in All PROVE CallOK(d)' /\ RetryOK(d)'
    BY <1>1, <1>3, <1>9, OtherCall
  <1>11. ASSUME NEW p \in Cores PROVE ServerOK(p)'
    <2>1. serving[p] # m
      <3>1. ~Here(m, "served", p)
        BY <1>2, <1>5, Basics DEF Kinds
      <3> QED BY <3>1 DEF Here
    <2>2. server[p] # "idle" => msg'[serving[p]] = msg[serving[p]]
      BY <1>3, <2>1 DEF IInv, TypeOK, ServerOK
    <2> QED BY <2>2 DEF IInv, ServerOK
  <1> QED BY <1>4, <1>8, <1>10, <1>11 DEF IInv

LEMMA PutFailsIInv == ASSUME IInv, NEW c \in All, PutFails(c) PROVE IInv'
  <1>1. sent[c] \in Msgs
    BY DEF PutFails, IInv, CallOK, Filled
  <1> QED BY <1>1, CallerFrees DEF PutFails

LEMMA CopyAnswerIInv == ASSUME IInv, NEW c \in All, CopyAnswer(c) PROVE IInv'
  <1>1. got[c] \in Msgs
    BY DEF CopyAnswer, IInv, CallOK
  <1> QED BY <1>1, CallerFrees DEF CopyAnswer

(* A server frees the message it serves.                                    *)
LEMMA ServerFrees ==
  ASSUME IInv, NEW p \in Cores, server[p] # "idle", Free(serving[p]), ServerDone(p),
         UNCHANGED <<config, queues, msgQLock, callers>>
  PROVE  IInv'
  <1> USE DEF ServerDone, queues, callers
  <1>1. /\ server'[p] = "idle" /\ serving'[p] = NoMsg
        /\ \A q \in Cores : q # p => server'[q] = server[q] /\ serving'[q] = serving[q]
    BY DEF IInv, TypeOK
  <1>2. PICK m \in Msgs : m = serving[p]
    BY DEF IInv, ServerOK, TypeOK
  <1>3. Here(m, "served", p) /\ "served" \in Kinds /\ p \in All
    BY <1>2, Basics DEF Here, Kinds
  <1>4. Free(m)
    BY <1>2
  <1>5. /\ pool' \subseteq Msgs /\ msg' \in [Msgs -> Fields]
        /\ \A d \in All : Filled(d) => msg'[sent[d]] = msg[sent[d]]
        /\ \A x \in Msgs : x # m => msg'[x] = msg[x]
    BY <1>3, <1>4, FreeFacts
  <1>6. TypeOK'
    BY <1>5 DEF IInv, TypeOK, Fields
  <1>7. \A k \in Kinds, w \in All : Here(m, k, w) => k = "served" /\ w = p
    BY <1>3 DEF IInv, Apart
  <1>8. \A x \in Msgs, k \in Kinds, w \in All :
            k # "pool" => (Here(x, k, w)' <=> Here(x, k, w) /\ x # m)
    <2>1. ASSUME NEW x \in Msgs, NEW k \in Kinds, NEW w \in All, k # "pool",
                 Here(x, k, w), x # m
          PROVE  Here(x, k, w)'
      BY <1>1, <1>2, <2>1 DEF Here, ToSend
    <2>2. ASSUME NEW x \in Msgs, NEW k \in Kinds, NEW w \in All, k # "pool", Here(x, k, w)'
          PROVE  Here(x, k, w) /\ ~(w = p /\ k = "served")
      BY <1>1, <2>2, Basics DEF Here, ToSend
    <2> QED BY <1>7, <2>1, <2>2
  <1>l. LostStays
    BY <1>1, LostKept, Basics DEF HasLock, IInv, TypeOK, CallOK
  <1>9. Apart' /\ Somewhere' /\ AcksOK'
    <2>1. \A q \in Cores : NoDup(selfMsgQ'[q]) /\ NoDup(selfAckMsgQ'[q]) /\ selfAckMsgQ'[q] \in Seq(Msgs)
      BY DEF IInv, Apart, TypeOK
    <2>2. \A x \in Msgs, d \in All : x # m /\ AwaitedBy(x, d) => AwaitedBy(x, d)'
      BY <1>5 DEF AwaitedBy
    <2> QED BY <1>l, <1>3, <1>4, <1>8, <2>1, <2>2, Freed
  <1>10. ASSUME NEW d \in All PROVE CallOK(d)' /\ RetryOK(d)'
    BY <1>5, OtherCall
  <1>11. ASSUME NEW q \in Cores PROVE ServerOK(q)'
    <2>1. CASE q = p
      BY <1>1, <2>1 DEF ServerOK
    <2>2. CASE q # p
      <3>1. serving[q] # m
        <4>1. ~Here(m, "served", q)
          BY <1>3, <1>7, <2>2, Basics
        <4> QED BY <4>1 DEF Here
      <3>2. server[q] # "idle" => msg'[serving[q]] = msg[serving[q]]
        BY <1>5, <3>1 DEF IInv, TypeOK, ServerOK
      <3> QED BY <1>1, <2>2, <3>2 DEF IInv, ServerOK
    <2> QED BY <2>1, <2>2
  <1> QED BY <1>6, <1>9, <1>10, <1>11 DEF IInv

LEMMA ReplyFailsIInv == ASSUME IInv, NEW p \in Cores, ReplyFails(p) PROVE IInv'
  BY ServerFrees DEF ReplyFails

LEMMA FreeUnansweredIInv == ASSUME IInv, NEW p \in Cores, FreeUnanswered(p) PROVE IInv'
  BY ServerFrees DEF FreeUnanswered

(* The first acknowledgement in the queue is the caller's own, or one that  *)
(* nobody awaits any more.                                                  *)
LEMMA TimedHost == ASSUME IInv, NEW k \in TimedKeys PROVE Timed(Host)
  <1>1. PICK c \in Callers : \E r \in config.calls[c] : r.timed
    BY DEF TimedKeys
  <1>2. Home[c] = Host
    BY <1>1, MsgQAssumption DEF IInv
  <1> QED BY <1>1, <1>2 DEF Timed

LEMMA FirstAck ==
  ASSUME IInv, NEW c \in All, NEW h \in Cores, h = HomeOf(c), pc[c] = "ack", selfAckMsgQ[h] # << >>,
         NEW m \in Msgs, m = Head(selfAckMsgQ[h]), TakeAck(c)
  PROVE  /\ m \in Msgs /\ Here(m, "acks", h)
         /\ \A k \in Kinds, w \in All : Here(m, k, w) => k = "acks" /\ w = h
         /\ (m = sent[c] /\ msg[m].key = req[c].key) \/ (h = Host /\ TimedOut(m))
         /\ selfAckMsgQ' \in [Cores -> Seq(Msgs)]
         /\ \A p \in Cores : NoDup(selfAckMsgQ'[p])
         /\ \A p \in Cores : p # h => selfAckMsgQ'[p] = selfAckMsgQ[p]
         /\ \A p \in Cores, x \in Msgs : x \in Entries(selfAckMsgQ'[p]) <=> x \in Entries(selfAckMsgQ[p]) /\ x # m
  <1>1. selfAckMsgQ[h] \in Seq(Msgs) /\ selfAckMsgQ[h] # << >> /\ NoDup(selfAckMsgQ[h])
    BY DEF IInv, TypeOK, Apart
  <1>2. m \in Msgs /\ m \in Entries(selfAckMsgQ[h])
    BY <1>1, SomeElem
  <1>3. Here(m, "acks", h) /\ "acks" \in Kinds /\ h \in All
    BY <1>2, Basics DEF Here, Kinds
  <1>4. \A k \in Kinds, w \in All : Here(m, k, w) => k = "acks" /\ w = h
    BY <1>2, <1>3 DEF IInv, Apart
  <1>5. /\ selfAckMsgQ'[h] = Tail(selfAckMsgQ[h])
        /\ \A p \in Cores : p # h => selfAckMsgQ'[p] = selfAckMsgQ[p]
    BY DEF TakeAck, IInv, TypeOK
  <1>6. /\ Tail(selfAckMsgQ[h]) \in Seq(Msgs) /\ NoDup(Tail(selfAckMsgQ[h]))
        /\ Entries(selfAckMsgQ[h]) = Entries(Tail(selfAckMsgQ[h])) \cup {m}
        /\ m \notin Entries(Tail(selfAckMsgQ[h]))
    BY <1>1, GetElem
  <1>7. selfAckMsgQ' \in [Cores -> Seq(Msgs)]
    BY <1>5, <1>6 DEF TakeAck, IInv, TypeOK
  <1>8. \A p \in Cores : NoDup(selfAckMsgQ'[p])
    BY <1>5, <1>6 DEF IInv, Apart
  <1>9. \A p \in Cores, x \in Msgs : x \in Entries(selfAckMsgQ'[p]) <=> x \in Entries(selfAckMsgQ[p]) /\ x # m
    <2>1. \A p \in Cores : p # h => m \notin Entries(selfAckMsgQ[p])
      <3>1. \A p \in Cores : p # h => ~Here(m, "acks", p)
        BY <1>3, <1>4, Basics
      <3> QED BY <3>1 DEF Here
    <2> QED BY <1>5, <1>6, <2>1
  <1>10. (m = sent[c] /\ msg[m].key = req[c].key) \/ (h = Host /\ TimedOut(m))
    <2>1. msg[m].wait /\ msg[m].reply = h /\ OnItsWay(m)
      BY <1>2, <1>3 DEF IInv, AcksOK, OnItsWay
    <2>2. CASE Stale(m)
      <3>1. ~LostLock(h)
        BY DEF LostLock, HasLock, IInv, CallOK
      <3> QED BY <2>1, <2>2, <3>1 DEF Stale, TimedOut
    <2>3. CASE ~Stale(m)
      <3>1. PICK d \in All : AwaitedBy(m, d)
        BY <1>2, <2>1, <2>3 DEF IInv, AcksOK
      <3>2. d = c
        BY <2>1, <3>1, OneHolder DEF AwaitedBy, HasLock
      <3> QED BY <3>1, <3>2 DEF AwaitedBy
    <2> QED BY <2>2, <2>3
  <1> QED BY <1>2, <1>3, <1>4, <1>5, <1>7, <1>8, <1>9, <1>10

LEMMA RefuseAckIInv == ASSUME IInv, NEW c \in All, RefuseAck(c) PROVE IInv'
  <1> USE DEF RefuseAck, servers
  <1>0. PICK m : m = Head(selfAckMsgQ[Host]) /\ ~Matches(c, m) /\ Free(m)
    OBVIOUS
  <1>1. HomeOf(c) = Host /\ pc[c] = "ack" /\ Host \in Cores /\ Host \in All
    BY Basics
  <1>2. /\ m \in Msgs /\ Here(m, "acks", Host) /\ "acks" \in Kinds
        /\ \A k \in Kinds, w \in All : Here(m, k, w) => k = "acks" /\ w = Host
        /\ TimedOut(m)
        /\ selfAckMsgQ' \in [Cores -> Seq(Msgs)]
        /\ \A p \in Cores : NoDup(selfAckMsgQ'[p])
        /\ \A p \in Cores, x \in Msgs : x \in Entries(selfAckMsgQ'[p]) <=> x \in Entries(selfAckMsgQ[p]) /\ x # m
    <2>1. /\ TakeAck(c) /\ m = Head(selfAckMsgQ[Host]) /\ selfAckMsgQ[Host] # << >>
          /\ msg[m].key # req[c].key
      BY <1>0, <1>1 DEF Matches
    <2>2. "acks" \in Kinds
      BY DEF Kinds
    <2> HIDE DEF RefuseAck
    <2>3. Host \in Cores /\ Host = HomeOf(c) /\ pc[c] = "ack" /\ m \in Msgs
      BY <1>1, <2>1, SomeElem DEF IInv, TypeOK
    <2>4. /\ m \in Msgs /\ Here(m, "acks", Host)
          /\ \A k \in Kinds, w \in All : Here(m, k, w) => k = "acks" /\ w = Host
          /\ (m = sent[c] /\ msg[m].key = req[c].key) \/ (Host = Host /\ TimedOut(m))
          /\ selfAckMsgQ' \in [Cores -> Seq(Msgs)]
          /\ \A p \in Cores : NoDup(selfAckMsgQ'[p])
          /\ \A p \in Cores, x \in Msgs : x \in Entries(selfAckMsgQ'[p]) <=> x \in Entries(selfAckMsgQ[p]) /\ x # m
      BY <2>1, <2>3, FirstAck
    <2> QED BY <2>1, <2>2, <2>4
  <1>3. /\ pool' \subseteq Msgs /\ msg' \in [Msgs -> Fields]
        /\ \A d \in All : Filled(d) => msg'[sent[d]] = msg[sent[d]]
        /\ \A x \in Msgs : x # m => msg'[x] = msg[x]
    BY <1>0, <1>1, <1>2, FreeFacts
  <1>4. TypeOK'
    BY <1>2, <1>3 DEF IInv, TypeOK, Fields
  <1>5. \A x \in Msgs, k \in Kinds, w \in All :
            k # "pool" => (Here(x, k, w)' <=> Here(x, k, w) /\ x # m)
    <2>1. ASSUME NEW x \in Msgs, NEW k \in Kinds, NEW w \in All, k # "pool", Here(x, k, w), x # m
          PROVE  Here(x, k, w)'
      BY <1>2, <2>1 DEF Here, ToSend
    <2>2. ASSUME NEW x \in Msgs, NEW k \in Kinds, NEW w \in All, k # "pool", Here(x, k, w)'
          PROVE  Here(x, k, w) /\ (k = "acks" => x # m)
      BY <1>2, <2>2 DEF Here, ToSend
    <2> QED BY <1>2, <2>1, <2>2
  <1>l. LostStays
    BY <1>1, LostKept, Basics DEF HasLock, IInv, TypeOK, CallOK
  <1>6. Apart' /\ Somewhere' /\ AcksOK'
    <2>1. \A p \in Cores : NoDup(selfMsgQ'[p]) /\ NoDup(selfAckMsgQ'[p]) /\ selfAckMsgQ'[p] \in Seq(Msgs)
      BY <1>2 DEF IInv, Apart
    <2>2. \A x \in Msgs, d \in All : x # m /\ AwaitedBy(x, d) => AwaitedBy(x, d)'
      BY <1>3 DEF AwaitedBy
    <2> QED BY <1>l, <1>0, <1>1, <1>2, <1>5, <2>1, <2>2, Freed
  <1>7. retry'[c] /\ \A d \in All : d # c => retry'[d] = retry[d]
    BY DEF IInv, TypeOK
  <1>8. CallOK(c)' /\ RetryOK(c)'
    <2>1. /\ CallOK(c) /\ RetryOK(c) /\ TimedKeys' = TimedKeys /\ (OneTimed' <=> OneTimed)
          /\ HasLock(c) /\ ~Filled(c)' /\ ~ToSend(c)'
      BY <1>1 DEF IInv, TimedKeys, OneTimed, HasLock, Filled, ToSend
    <2>2. msg[m].key # req[c].key /\ msg[m].key \in TimedKeys
      BY <1>0, <1>2 DEF Matches, TimedOut
    <2>3. OneTimed => req[c].key \notin TimedKeys
      BY <2>2 DEF OneTimed
    <2>4. RetryOK(c)'
      BY <1>1, <1>7, <2>1, <2>3 DEF RetryOK
    <2>5. CallOK(c)'
      BY <1>1, <2>1 DEF CallOK
    <2> QED BY <2>4, <2>5
  <1>9. ASSUME NEW d \in All PROVE CallOK(d)' /\ RetryOK(d)'
    BY <1>3, <1>7, <1>8, OtherCall
  <1>10. ASSUME NEW p \in Cores PROVE ServerOK(p)'
    <2>1. serving[p] # m
      <3>1. ~Here(m, "served", p)
        BY <1>2, Basics DEF Kinds
      <3> QED BY <3>1 DEF Here
    <2>2. server[p] # "idle" => msg'[serving[p]] = msg[serving[p]]
      BY <1>3, <2>1 DEF IInv, TypeOK, ServerOK
    <2> QED BY <2>2 DEF IInv, ServerOK
  <1> QED BY <1>4, <1>6, <1>9, <1>10 DEF IInv

LEMMA GetAckIInv == ASSUME IInv, NEW c \in All, GetAck(c) PROVE IInv'
  <1> USE DEF GetAck, servers
  <1>h. PICK h \in Cores : h = HomeOf(c)
    BY Basics
  <1>0. PICK m : /\ h = HomeOf(c) /\ m = Head(selfAckMsgQ[h])
                 /\ h = Host => Matches(c, m)
                 /\ got' = [got EXCEPT ![c] = m]
    BY <1>h
  <1>1. /\ pc[c] = "ack" /\ pc'[c] = IF retry[c] THEN "ack" ELSE "copy"
        /\ got'[c] = m
        /\ \A d \in All : d # c => pc'[d] = pc[d] /\ got'[d] = got[d]
    BY <1>0 DEF IInv, TypeOK
  <1>2. /\ m \in Msgs /\ Here(m, "acks", h) /\ "acks" \in Kinds /\ h \in All
        /\ \A k \in Kinds, w \in All : Here(m, k, w) => k = "acks" /\ w = h
        /\ m = sent[c] \/ (h = Host /\ TimedOut(m))
        /\ selfAckMsgQ' \in [Cores -> Seq(Msgs)]
        /\ \A p \in Cores : NoDup(selfAckMsgQ'[p])
        /\ \A p \in Cores, x \in Msgs : x \in Entries(selfAckMsgQ'[p]) <=> x \in Entries(selfAckMsgQ[p]) /\ x # m
    <2>1. TakeAck(c) /\ m = Head(selfAckMsgQ[h]) /\ selfAckMsgQ[h] # << >>
      BY <1>0
    <2>2. "acks" \in Kinds /\ h \in All
      BY Basics DEF Kinds
    <2> HIDE DEF GetAck
    <2>3. h = HomeOf(c) /\ pc[c] = "ack" /\ m \in Msgs
      BY <1>0, <1>1, <2>1, SomeElem DEF IInv, TypeOK
    <2>4. /\ m \in Msgs /\ Here(m, "acks", h)
          /\ \A k \in Kinds, w \in All : Here(m, k, w) => k = "acks" /\ w = h
          /\ (m = sent[c] /\ msg[m].key = req[c].key) \/ (h = Host /\ TimedOut(m))
          /\ selfAckMsgQ' \in [Cores -> Seq(Msgs)]
          /\ \A p \in Cores : NoDup(selfAckMsgQ'[p])
          /\ \A p \in Cores, x \in Msgs : x \in Entries(selfAckMsgQ'[p]) <=> x \in Entries(selfAckMsgQ[p]) /\ x # m
      BY <2>1, <2>3, FirstAck
    <2> QED BY <2>2, <2>4
  <1>3. m # sent[c] => h = Host /\ req[c].key \in TimedKeys /\ Timed(h)
    <2>1. m # sent[c] => h = Host /\ msg[m].key \in TimedKeys /\ msg[m].key = req[c].key
      BY <1>0, <1>2 DEF TimedOut, Matches
    <2> QED BY <2>1, TimedHost
  <1>4. retry[c] /\ OneTimed => m = sent[c] /\ got[c] = NoMsg
    <2>1. retry[c] /\ OneTimed => m = sent[c]
      BY <1>3 DEF IInv, RetryOK
    <2>2. got[c] # m
      <3>1. ~Here(m, "answer", c)
        BY <1>2 DEF Kinds
      <3> QED BY <1>1, <3>1 DEF Here
    <2> QED BY <1>1, <2>1, <2>2 DEF IInv, RetryOK
  <1>5. OneTimed => got[c] = NoMsg
    BY <1>1, <1>4 DEF IInv, RetryOK
  <1>6. TypeOK'
    <2>1. pc' \in [All -> {"idle", "lock", "alloc", "put", "ack", "copy", "unlock", "asserted"}]
      BY DEF IInv, TypeOK
    <2>2. got' \in [All -> Msgs \cup {NoMsg}]
      BY <1>0, <1>2 DEF IInv, TypeOK
    <2>3. UNCHANGED <<pool, msg, selfMsgQ, msgQLock, server, serving, called, req, retry, sent>>
      OBVIOUS
    <2>4. selfAckMsgQ' \in [Cores -> Seq(Msgs)]
      BY <1>2
    <2> HIDE DEF GetAck, servers
    <2> QED BY <2>1, <2>2, <2>3, <2>4 DEF IInv, TypeOK
  <1>7. \A k \in Kinds, w \in All : Here(m, k, w)' <=> k = "answer" /\ w = c
    <2>1. \A k \in Kinds, w \in All : Here(m, k, w)' => Here(m, k, w) \/ (k = "answer" /\ w = c)
      BY <1>1, <1>2 DEF Here, ToSend
    <2>2. ~Here(m, "acks", h)'
      BY <1>2 DEF Here
    <2>3. Here(m, "answer", c)'
      BY <1>1 DEF Here
    <2> QED BY <1>2, <2>1, <2>2, <2>3
  <1>8. \A x \in Msgs, k \in Kinds, w \in All : x # m /\ Here(x, k, w)' => Here(x, k, w)
    BY <1>1, <1>2 DEF Here, ToSend
  <1>9. OneTimed => \A x \in Msgs, k \in Kinds, w \in All : x # m /\ Here(x, k, w) => Here(x, k, w)'
    BY <1>1, <1>2, <1>5, Basics DEF Here, ToSend
  <1>10. Apart' /\ Somewhere'
    <2>1. "answer" \in Kinds
      BY DEF Kinds
    <2>2. \A p \in Cores : NoDup(selfMsgQ'[p]) /\ NoDup(selfAckMsgQ'[p])
      BY <1>2 DEF IInv, Apart
    <2> QED BY <1>2, <1>7, <1>8, <1>9, <2>1, <2>2, Moves
  <1>l. LostStays
    BY <1>1, LostKept, Basics DEF HasLock, IInv, TypeOK, CallOK
  <1>11. AcksOK'
    <2>1. \A x \in Msgs, d \in All : x # m /\ AwaitedBy(x, d) => Stale(x) \/ AwaitedBy(x, d)'
      <3>1. ASSUME NEW x \in Msgs, NEW d \in All, x # m, AwaitedBy(x, d)
            PROVE  Stale(x) \/ AwaitedBy(x, d)'
        <4>1. CASE d = c
          BY <1>0, <1>3, <3>1, <4>1 DEF AwaitedBy, Stale, TimedOut
        <4>2. CASE d # c
          BY <1>1, <3>1, <4>2 DEF AwaitedBy
        <4> QED BY <4>1, <4>2
      <3> QED BY <3>1
    <2>2. ~OnItsWay(m)'
      BY <1>7, Basics DEF OnItsWay, Kinds
    <2>3. \A p \in Cores : \A x \in Entries(selfAckMsgQ'[p]) : x \in Msgs /\ x # m /\ x \in Entries(selfAckMsgQ[p])
      BY <1>2, SomeElem DEF IInv, TypeOK
    <2> QED BY <1>l, <1>8, <2>1, <2>2, <2>3, AcksStay
  <1>12. CallOK(c)' /\ RetryOK(c)'
    <2>1. /\ CallOK(c) /\ RetryOK(c) /\ TimedKeys' = TimedKeys /\ (OneTimed' <=> OneTimed)
          /\ HasLock(c) /\ ~Filled(c)' /\ ~ToSend(c)' /\ (Timed(h)' <=> Timed(h))
      BY <1>1 DEF IInv, TimedKeys, OneTimed, HasLock, Filled, ToSend, Timed
    <2>2. RetryOK(c)'
      BY <1>1, <1>4, <2>1 DEF RetryOK
    <2>3. CallOK(c)'
      BY <1>0, <1>1, <1>2, <1>3, <2>1 DEF CallOK
    <2> QED BY <2>2, <2>3
  <1>13. ASSUME NEW d \in All PROVE CallOK(d)' /\ RetryOK(d)'
    BY <1>1, <1>12, OtherCall
  <1>14. ASSUME NEW p \in Cores PROVE ServerOK(p)'
    BY DEF IInv, ServerOK
  <1> QED BY <1>6, <1>10, <1>11, <1>13, <1>14 DEF IInv

(* The server takes a request ...                                           *)
LEMMA ServeIInv == ASSUME IInv, NEW p \in Cores, Serve(p) PROVE IInv'
  <1> USE DEF Serve, callers
  <1>0. PICK m : m = Head(selfMsgQ[p])
    OBVIOUS
  <1>1. /\ server[p] = "idle" /\ selfMsgQ[p] \in Seq(Msgs) /\ selfMsgQ[p] # << >>
        /\ serving'[p] = m /\ server'[p] = IF msg[m].wait THEN "run" ELSE "free"
        /\ \A q \in Cores : q # p => /\ serving'[q] = serving[q] /\ server'[q] = server[q]
                                     /\ selfMsgQ'[q] = selfMsgQ[q]
        /\ selfMsgQ'[p] = Tail(selfMsgQ[p])
    BY <1>0 DEF IInv, TypeOK
  <1>2. /\ m \in Msgs /\ m \in Entries(selfMsgQ[p]) /\ Tail(selfMsgQ[p]) \in Seq(Msgs)
        /\ NoDup(Tail(selfMsgQ[p]))
        /\ Entries(selfMsgQ[p]) = Entries(Tail(selfMsgQ[p])) \cup {m}
        /\ m \notin Entries(Tail(selfMsgQ[p]))
    BY <1>0, <1>1, GetElem DEF IInv, Apart
  <1>3. TypeOK'
    <2>1. selfMsgQ' \in [Cores -> Seq(Msgs)]
      BY <1>1, <1>2 DEF IInv, TypeOK
    <2>2. serving' \in [Cores -> Msgs \cup {NoMsg}]
      BY <1>0, <1>2 DEF IInv, TypeOK
    <2> QED BY <2>1, <2>2 DEF IInv, TypeOK
  <1>4. \A k \in Kinds, w \in All : Here(m, k, w) <=> k = "queue" /\ w = p
    <2>1. Here(m, "queue", p) /\ "queue" \in Kinds /\ p \in All
      BY <1>2, Basics DEF Here, Kinds
    <2> QED BY <1>2, <2>1 DEF IInv, Apart
  <1>5. \A k \in Kinds, w \in All : Here(m, k, w)' <=> k = "served" /\ w = p
    <2>1. \A k \in Kinds, w \in All : Here(m, k, w)' => Here(m, k, w) \/ (k = "served" /\ w = p)
      BY <1>1, <1>2 DEF Here, ToSend
    <2>2. ~Here(m, "queue", p)'
      BY <1>1, <1>2 DEF Here
    <2>3. Here(m, "served", p)'
      BY <1>1 DEF Here
    <2> QED BY <1>4, <2>1, <2>2, <2>3
  <1>6. \A x \in Msgs, k \in Kinds, w \in All : x # m => (Here(x, k, w)' <=> Here(x, k, w))
    <2>1. serving[p] = NoMsg
      BY <1>1 DEF IInv, ServerOK
    <2> QED BY <1>1, <1>2, <2>1, Basics DEF Here, ToSend
  <1>7. Apart' /\ Somewhere'
    <2>1. "served" \in Kinds /\ p \in All
      BY Basics DEF Kinds
    <2>2. \A q \in Cores : NoDup(selfMsgQ'[q]) /\ NoDup(selfAckMsgQ'[q])
      BY <1>1, <1>2 DEF IInv, Apart
    <2> QED BY <1>2, <1>5, <1>6, <2>1, <2>2, Moves
  <1>l. LostStays
    BY <1>1, LostKept, Basics DEF HasLock, IInv, TypeOK, CallOK
  <1>8. AcksOK'
    <2>1. \A x \in Msgs, d \in All : AwaitedBy(x, d) <=> AwaitedBy(x, d)'
      BY DEF AwaitedBy
    <2>2. OnItsWay(m)
      BY <1>4, Basics DEF OnItsWay, Kinds
    <2>3. msg'[m].wait => Stale(m)' \/ \E d \in All : AwaitedBy(m, d)'
      <3>1. msg'[m].wait => Stale(m) \/ \E d \in All : AwaitedBy(m, d)
        BY <1>2, <2>2 DEF IInv, AcksOK
      <3>2. TimedKeys' = TimedKeys /\ msg[m].reply \in Cores
        BY <1>2 DEF TimedKeys, IInv, TypeOK
      <3>3. Stale(m) => Stale(m)'
        BY <1>l, <3>2 DEF Stale, TimedOut, LostStays
      <3> QED BY <1>2, <2>1, <3>1, <3>3
    <2>4. \A q \in Cores : \A x \in Entries(selfAckMsgQ'[q]) : x \in Msgs /\ x # m /\ x \in Entries(selfAckMsgQ[q])
      <3>1. ASSUME NEW q \in Cores PROVE m \notin Entries(selfAckMsgQ[q])
        <4>1. ~Here(m, "acks", q)
          BY <1>4, Basics DEF Kinds
        <4> QED BY <4>1 DEF Here
      <3> QED BY <3>1, SomeElem DEF IInv, TypeOK
    <2> QED BY <1>l, <1>6, <2>1, <2>3, <2>4, AcksStay
  <1>9. ASSUME NEW d \in All PROVE CallOK(d)' /\ RetryOK(d)'
    BY OtherCall
  <1>10. ASSUME NEW q \in Cores PROVE ServerOK(q)'
    BY <1>1, <1>2, Basics DEF IInv, ServerOK
  <1> QED BY <1>3, <1>7, <1>8, <1>9, <1>10 DEF IInv

(* ... and sends it back as the answer.                                     *)
LEMMA ReplyIInv == ASSUME IInv, NEW p \in Cores, Reply(p) PROVE IInv'
  <1> USE DEF Reply, ServerDone, callers
  <1>0. PICK m \in Msgs, h \in Cores : m = serving[p] /\ h = ReplyTo(p)
    BY DEF IInv, ServerOK, TypeOK, ReplyTo
  <1>1. /\ server[p] = "run" /\ server'[p] = "idle" /\ serving'[p] = NoMsg
        /\ \A q \in Cores : q # p => serving'[q] = serving[q] /\ server'[q] = server[q]
        /\ selfAckMsgQ[h] \in Seq(Msgs)
        /\ selfAckMsgQ'[h] = Append(selfAckMsgQ[h], m)
        /\ \A q \in Cores : q # h => selfAckMsgQ'[q] = selfAckMsgQ[q]
    BY <1>0 DEF IInv, TypeOK
  <1>2. msg[m].wait /\ msg[m].reply = h
    BY <1>0, <1>1 DEF IInv, ServerOK, ReplyTo
  <1>3. \A k \in Kinds, w \in All : Here(m, k, w) <=> k = "served" /\ w = p
    <2>1. Here(m, "served", p) /\ "served" \in Kinds /\ p \in All
      BY <1>0, Basics DEF Here, Kinds
    <2> QED BY <1>0, <2>1 DEF IInv, Apart
  <1>4. \A q \in Cores : m \notin Entries(selfAckMsgQ[q])
    <2>1. \A q \in Cores : ~Here(m, "acks", q)
      BY <1>3, Basics DEF Kinds
    <2> QED BY <2>1 DEF Here
  <1>5. /\ selfAckMsgQ'[h] \in Seq(Msgs) /\ NoDup(selfAckMsgQ'[h])
        /\ Entries(selfAckMsgQ'[h]) = Entries(selfAckMsgQ[h]) \cup {m}
    BY <1>1, <1>4, PutElem DEF IInv, Apart
  <1>6. TypeOK'
    <2>1. selfAckMsgQ' \in [Cores -> Seq(Msgs)]
      BY <1>1, <1>5 DEF IInv, TypeOK
    <2> QED BY <2>1 DEF IInv, TypeOK
  <1>7. \A k \in Kinds, w \in All : Here(m, k, w)' <=> k = "acks" /\ w = h
    <2>1. \A k \in Kinds, w \in All : Here(m, k, w)' => Here(m, k, w) \/ (k = "acks" /\ w = h)
      BY <1>1, <1>5, Basics DEF Here, ToSend
    <2>2. ~Here(m, "served", p)'
      BY <1>1, Basics DEF Here
    <2>3. Here(m, "acks", h)'
      BY <1>5 DEF Here
    <2> QED BY <1>3, <2>1, <2>2, <2>3
  <1>8. \A x \in Msgs, k \in Kinds, w \in All : x # m => (Here(x, k, w)' <=> Here(x, k, w))
    BY <1>0, <1>1, <1>5, Basics DEF Here, ToSend
  <1>9. Apart' /\ Somewhere'
    <2>1. "acks" \in Kinds /\ h \in All
      BY Basics DEF Kinds
    <2>2. \A q \in Cores : NoDup(selfMsgQ'[q]) /\ NoDup(selfAckMsgQ'[q])
      BY <1>1, <1>5 DEF IInv, Apart
    <2> QED BY <1>7, <1>8, <2>1, <2>2, Moves
  <1>l. LostStays
    BY <1>1, LostKept, Basics DEF HasLock, IInv, TypeOK, CallOK
  <1>10. AcksOK'
    <2>1. \A x \in Msgs, d \in All : AwaitedBy(x, d) <=> AwaitedBy(x, d)'
      BY DEF AwaitedBy
    <2>2. OnItsWay(m)
      BY <1>3, Basics DEF OnItsWay, Kinds
    <2>3. Stale(m)' \/ \E d \in All : AwaitedBy(m, d)'
      <3>1. msg'[m].wait => Stale(m) \/ \E d \in All : AwaitedBy(m, d)
        BY <1>2, <2>2 DEF IInv, AcksOK
      <3>2. TimedKeys' = TimedKeys /\ msg[m].reply \in Cores
        BY <1>2 DEF TimedKeys, IInv, TypeOK
      <3>3. Stale(m) => Stale(m)'
        BY <1>l, <3>2 DEF Stale, TimedOut, LostStays
      <3> QED BY <1>2, <2>1, <3>1, <3>3
    <2>4. ASSUME NEW q \in Cores, NEW x \in Entries(selfAckMsgQ'[q])
          PROVE  \/ x # m /\ x \in Msgs /\ x \in Entries(selfAckMsgQ[q])
                 \/ x = m /\ msg'[x].wait /\ msg'[x].reply = q
      <3>1. selfAckMsgQ[q] \in Seq(Msgs)
        BY DEF IInv, TypeOK
      <3>2. x \in Entries(selfAckMsgQ[q]) \/ (x = m /\ q = h)
        BY <1>1, <1>5
      <3> QED BY <1>2, <1>4, <3>1, <3>2, SomeElem
    <2> QED BY <1>l, <1>8, <2>1, <2>3, <2>4, AcksStay
  <1>11. ASSUME NEW d \in All PROVE CallOK(d)' /\ RetryOK(d)'
    BY OtherCall
  <1>12. ASSUME NEW q \in Cores PROVE ServerOK(q)'
    BY <1>1 DEF IInv, ServerOK
  <1> QED BY <1>6, <1>9, <1>10, <1>11, <1>12 DEF IInv

LEMMA NextIInv == IInv /\ [Next]_vars => IInv'
  <1> SUFFICES ASSUME IInv, [Next]_vars PROVE IInv'
    OBVIOUS
  <1>1. ASSUME NEW c \in All, SendMsg(c) PROVE IInv'
    BY <1>1, AllocIInv, AllocFailsIInv, AllocAssertsIInv, LockIInv, PutIInv, PutFailsIInv, GetAckIInv,
       RefuseAckIInv, NoAckIInv, TimeoutIInv, CopyAnswerIInv, UnlockIInv DEF SendMsg
  <1>2. ASSUME NEW p \in Cores, Server(p) \/ NestedCall(p) PROVE IInv'
    BY <1>2, ServeIInv, ReplyIInv, ReplyFailsIInv, FreeUnansweredIInv, NestedCallIInv DEF Server
  <1>3. CASE UNCHANGED vars
    <2> USE <1>3 DEF vars, queues, servers, callers
    <2>1. \A x \in Msgs, k \in Kinds, w \in All : Here(x, k, w)' <=> Here(x, k, w)
      BY DEF Here, ToSend
    <2>2. TypeOK'
      BY DEF IInv, TypeOK
    <2>3. Apart' /\ Somewhere'
      BY <2>1, Stays
    <2>4. AcksOK'
      BY <2>1, Basics DEF IInv, AcksOK, OnItsWay, Kinds, Stale, TimedOut, LostLock, HasLock, AwaitedBy, TimedKeys
    <2>5. \A d \in All : CallOK(d)' /\ RetryOK(d)'
      BY OtherCall
    <2> QED BY <2>2, <2>3, <2>4, <2>5 DEF IInv, ServerOK
  <1> QED BY <1>1, <1>2, <1>3, CallIInv DEF Next

THEOREM Invariant == Spec => []IInv
  BY InitIInv, NextIInv, PTL DEF Spec

(***************************************************************************)
(* What the runs check.                                                     *)
(***************************************************************************)
InPool(m) == {<<"pool", Host, 0>> : x \in pool \cap {m}}
InUnsent(m) == {<<"unsent", c, 0>> : c \in {x \in All : sent[x] = m /\ pc[x] \in {"lock", "alloc", "put"}}}
InAnswer(m) == {<<"answer", c, 0>> : c \in {x \in All : got[x] = m /\ pc[x] \in {"ack", "copy"}}}
InServed(m) == {<<"served", p, 0>> : p \in {x \in Cores : serving[x] = m}}
InQueues(m) == UNION {InQueue(m, "queue", selfMsgQ[p], p) : p \in Cores}
InAcks(m) == UNION {InQueue(m, "acks", selfAckMsgQ[p], p) : p \in Cores}

LEMMA PlaceParts ==
  ASSUME NEW m
  PROVE  Places(m) = InPool(m) \cup InUnsent(m) \cup InAnswer(m) \cup InServed(m) \cup InQueues(m) \cup InAcks(m)
  BY DEF Places, InPool, InUnsent, InAnswer, InServed, InQueues, InAcks

(* An element of Places(m) says where m is, and is the only one that does.  *)
LEMMA PlaceHere ==
  ASSUME IInv, NEW m \in Msgs, NEW q \in Places(m)
  PROVE  \E k \in Kinds, w \in All : \E i :
            /\ q = <<k, w, i>> /\ Here(m, k, w)
            /\ k \in {"pool", "unsent", "answer", "served"} => i = 0
            /\ k = "queue" => i \in 1 .. Len(selfMsgQ[w]) /\ selfMsgQ[w][i] = m
            /\ k = "acks" => i \in 1 .. Len(selfAckMsgQ[w]) /\ selfAckMsgQ[w][i] = m
  <1> DEFINE Good(k, w, i) ==
            /\ q = <<k, w, i>> /\ Here(m, k, w)
            /\ k \in {"pool", "unsent", "answer", "served"} => i = 0
            /\ k = "queue" => i \in 1 .. Len(selfMsgQ[w]) /\ selfMsgQ[w][i] = m
            /\ k = "acks" => i \in 1 .. Len(selfAckMsgQ[w]) /\ selfAckMsgQ[w][i] = m
  <1> SUFFICES \E k \in Kinds, w \in All : \E i : Good(k, w, i)
    OBVIOUS
  <1>1. CASE q \in InPool(m)
    <2>1. Good("pool", Host, 0)
      BY <1>1 DEF Here, InPool
    <2> QED BY <2>1, Basics DEF Kinds
  <1>2. CASE q \in InUnsent(m)
    <2>1. PICK c \in All : q = <<"unsent", c, 0>> /\ sent[c] = m /\ ToSend(c)
      BY <1>2 DEF ToSend, InUnsent
    <2>2. Good("unsent", c, 0)
      BY <2>1 DEF Here
    <2> QED BY <2>2 DEF Kinds
  <1>3. CASE q \in InAnswer(m)
    <2>1. PICK c \in All : q = <<"answer", c, 0>> /\ got[c] = m /\ pc[c] \in {"ack", "copy"}
      BY <1>3 DEF InAnswer
    <2>2. Good("answer", c, 0)
      BY <2>1 DEF Here
    <2> QED BY <2>2 DEF Kinds
  <1>4. CASE q \in InServed(m)
    <2>1. PICK p \in Cores : q = <<"served", p, 0>> /\ serving[p] = m
      BY <1>4 DEF InServed
    <2>2. Good("served", p, 0)
      BY <2>1 DEF Here
    <2> QED BY <2>2, Basics DEF Kinds
  <1>5. ASSUME NEW p \in Cores,
               q \in InQueue(m, "queue", selfMsgQ[p], p)
        PROVE  \E k \in Kinds, w \in All : \E i : Good(k, w, i)
    <2>1. PICK i \in DOMAIN selfMsgQ[p] : q = <<"queue", p, i>> /\ selfMsgQ[p][i] = m
      BY <1>5 DEF InQueue
    <2>2. i \in 1 .. Len(selfMsgQ[p])
      BY LenProperties DEF IInv, TypeOK
    <2>3. Good("queue", p, i)
      BY <2>1, <2>2 DEF Here, Entries
    <2> QED BY <2>3, Basics DEF Kinds
  <1>6. ASSUME NEW p \in Cores,
               q \in InQueue(m, "acks", selfAckMsgQ[p], p)
        PROVE  \E k \in Kinds, w \in All : \E i : Good(k, w, i)
    <2>1. PICK i \in DOMAIN selfAckMsgQ[p] : q = <<"acks", p, i>> /\ selfAckMsgQ[p][i] = m
      BY <1>6 DEF InQueue
    <2>2. i \in 1 .. Len(selfAckMsgQ[p])
      BY LenProperties DEF IInv, TypeOK
    <2>3. Good("acks", p, i)
      BY <2>1, <2>2 DEF Here, Entries
    <2> QED BY <2>3, Basics DEF Kinds
  <1> HIDE DEF Good
  <1>7. CASE q \in InQueues(m)
    BY <1>5, <1>7 DEF InQueues
  <1>8. CASE q \in InAcks(m)
    BY <1>6, <1>8 DEF InAcks
  <1> QED BY <1>1, <1>2, <1>3, <1>4, <1>7, <1>8, PlaceParts

LEMMA HerePlace ==
  ASSUME IInv, NEW m \in Msgs, NEW k \in Kinds, NEW w \in All, Here(m, k, w)
  PROVE  Places(m) # {}
  <1>1. CASE k = "pool"
    <2>1. <<"pool", Host, 0>> \in InPool(m)
      BY <1>1 DEF Here, InPool
    <2> QED BY <2>1, PlaceParts
  <1>2. CASE k = "unsent"
    <2>1. <<"unsent", w, 0>> \in InUnsent(m)
      BY <1>2 DEF Here, ToSend, InUnsent
    <2> QED BY <2>1, PlaceParts
  <1>3. CASE k = "answer"
    <2>1. <<"answer", w, 0>> \in InAnswer(m)
      BY <1>3 DEF Here, InAnswer
    <2> QED BY <2>1, PlaceParts
  <1>4. CASE k = "served"
    <2>1. <<"served", w, 0>> \in InServed(m)
      BY <1>4 DEF Here, InServed
    <2> QED BY <2>1, PlaceParts
  <1>5. CASE k = "queue"
    <2>1. w \in Cores /\ \E i \in 1 .. Len(selfMsgQ[w]) : selfMsgQ[w][i] = m
      BY <1>5 DEF Here, Entries
    <2>2. PICK i \in DOMAIN selfMsgQ[w] : selfMsgQ[w][i] = m
      BY <2>1, LenProperties DEF IInv, TypeOK
    <2>3. <<"queue", w, i>> \in InQueue(m, "queue", selfMsgQ[w], w)
      BY <2>2 DEF InQueue
    <2>4. <<"queue", w, i>> \in InQueues(m)
      BY <2>1, <2>3 DEF InQueues
    <2> QED BY <2>4, PlaceParts
  <1>6. CASE k = "acks"
    <2>1. w \in Cores /\ \E i \in 1 .. Len(selfAckMsgQ[w]) : selfAckMsgQ[w][i] = m
      BY <1>6 DEF Here, Entries
    <2>2. PICK i \in DOMAIN selfAckMsgQ[w] : selfAckMsgQ[w][i] = m
      BY <2>1, LenProperties DEF IInv, TypeOK
    <2>3. <<"acks", w, i>> \in InQueue(m, "acks", selfAckMsgQ[w], w)
      BY <2>2 DEF InQueue
    <2>4. <<"acks", w, i>> \in InAcks(m)
      BY <2>1, <2>3 DEF InAcks
    <2> QED BY <2>4, PlaceParts
  <1> QED BY <1>1, <1>2, <1>3, <1>4, <1>5, <1>6 DEF Kinds

(* No message is in two places, whatever times out or is refused; and none  *)
(* is lost to the heap, if at most one request times out.                   *)
THEOREM MsgOnceAlways == Spec => []MsgOnce
  <1>1. IInv => MsgOnce
    <2> SUFFICES ASSUME IInv, NEW m \in Msgs
                 PROVE  /\ Cardinality(Places(m)) <= 1
                        /\ OneTimed => Cardinality(Places(m)) = 1
      BY DEF IInv, MsgOnce
    <2>1. ASSUME NEW q1 \in Places(m), NEW q2 \in Places(m) PROVE q1 = q2
      <3>1. PICK k1 \in Kinds, w1 \in All : \E i :
               /\ q1 = <<k1, w1, i>> /\ Here(m, k1, w1)
               /\ k1 \in {"pool", "unsent", "answer", "served"} => i = 0
               /\ k1 = "queue" => i \in 1 .. Len(selfMsgQ[w1]) /\ selfMsgQ[w1][i] = m
               /\ k1 = "acks" => i \in 1 .. Len(selfAckMsgQ[w1]) /\ selfAckMsgQ[w1][i] = m
        BY PlaceHere
      <3>2. PICK i1 :
               /\ q1 = <<k1, w1, i1>> /\ Here(m, k1, w1)
               /\ k1 \in {"pool", "unsent", "answer", "served"} => i1 = 0
               /\ k1 = "queue" => i1 \in 1 .. Len(selfMsgQ[w1]) /\ selfMsgQ[w1][i1] = m
               /\ k1 = "acks" => i1 \in 1 .. Len(selfAckMsgQ[w1]) /\ selfAckMsgQ[w1][i1] = m
        BY <3>1
      <3>3. PICK k2 \in Kinds, w2 \in All : \E i :
               /\ q2 = <<k2, w2, i>> /\ Here(m, k2, w2)
               /\ k2 \in {"pool", "unsent", "answer", "served"} => i = 0
               /\ k2 = "queue" => i \in 1 .. Len(selfMsgQ[w2]) /\ selfMsgQ[w2][i] = m
               /\ k2 = "acks" => i \in 1 .. Len(selfAckMsgQ[w2]) /\ selfAckMsgQ[w2][i] = m
        BY PlaceHere
      <3>4. PICK i2 :
               /\ q2 = <<k2, w2, i2>> /\ Here(m, k2, w2)
               /\ k2 \in {"pool", "unsent", "answer", "served"} => i2 = 0
               /\ k2 = "queue" => i2 \in 1 .. Len(selfMsgQ[w2]) /\ selfMsgQ[w2][i2] = m
               /\ k2 = "acks" => i2 \in 1 .. Len(selfAckMsgQ[w2]) /\ selfAckMsgQ[w2][i2] = m
        BY <3>3
      <3>5. k1 = k2 /\ w1 = w2
        BY <3>2, <3>4 DEF IInv, Apart
      <3>6. k1 \in {"queue", "acks"} => w1 \in Cores
        BY <3>2 DEF Here
      <3>7. i1 = i2
        <4>1. \A p \in Cores : NoDup(selfMsgQ[p]) /\ NoDup(selfAckMsgQ[p])
          BY DEF IInv, Apart
        <4> QED BY <3>2, <3>4, <3>5, <3>6, <4>1 DEF NoDup, Kinds
      <3> QED BY <3>2, <3>4, <3>5, <3>7
    <2>2. CASE Places(m) = {}
      <3>1. ~OneTimed
        BY <2>2, HerePlace DEF IInv, Somewhere
      <3> QED BY <2>2, <3>1, NoneInSet
    <2>3. CASE Places(m) # {}
      <3>1. PICK q \in Places(m) : TRUE
        BY <2>3
      <3> QED BY <2>1, <3>1, OneElem
    <2> QED BY <2>2, <2>3
  <1> QED BY <1>1, Invariant, PTL

(* A caller takes the answer to its own request, whatever the transport     *)
(* refuses; on the host this needs calls that do not time out.              *)
THEOREM OwnAnswerAlways == Spec => []OwnAnswer
  <1>1. IInv => OwnAnswer
    BY DEF IInv, CallOK, OwnAnswer
  <1> QED BY <1>1, Invariant, PTL
=============================================================================
