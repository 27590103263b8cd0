-------------------------- MODULE UtilsMbx_proofs --------------------------
(* Proofs about UtilsMbx for any tasks, senders, messages and queues.       *)
EXTENDS UtilsMbx, SequenceTheorems, FiniteSetTheorems, TLAPS

(***************************************************************************)
(* Sequences used as queues, and sets with one element.                    *)
(***************************************************************************)
(* What a queue holds, and that it holds nothing twice.                     *)
Entries(q) == {q[k] : k \in 1 .. Len(q)}
NoDup(q) == \A j, k \in 1 .. Len(q) : q[j] = q[k] => j = k

LEMMA EmptyQueue ==
  ASSUME NEW S
  PROVE  << >> \in Seq(S) /\ Len(<< >>) = 0 /\ Entries(<< >>) = {} /\ NoDup(<< >>)
  BY DEF Entries, NoDup

LEMMA SomeElem ==
  ASSUME NEW S, NEW q \in Seq(S)
  PROVE  /\ q = << >> <=> Entries(q) = {}
         /\ Entries(q) \subseteq S
         /\ q # << >> => Head(q) \in Entries(q) /\ Head(q) = q[1] /\ Len(q) >= 1
  BY EmptySeq DEF Entries

(* A put adds its element at the end.                                       *)
LEMMA PutElem ==
  ASSUME NEW S, NEW q \in Seq(S), NEW x \in S
  PROVE  /\ Append(q, x) \in Seq(S) /\ Len(Append(q, x)) = Len(q) + 1
         /\ Append(q, x) # << >>
         /\ Entries(Append(q, x)) = Entries(q) \cup {x}
         /\ NoDup(q) /\ x \notin Entries(q) => NoDup(Append(q, x))
  <1>1. /\ Append(q, x) \in Seq(S) /\ Len(Append(q, x)) = Len(q) + 1
        /\ \A k \in 1 .. Len(q) : Append(q, x)[k] = q[k]
        /\ Append(q, x)[Len(q) + 1] = x
        /\ Len(q) \in Nat
    BY AppendProperties, LenProperties
  <1>2. 1 .. Len(q) + 1 = (1 .. Len(q)) \cup {Len(q) + 1}
    BY <1>1
  <1>3. Entries(Append(q, x)) = Entries(q) \cup {x}
    BY <1>1, <1>2 DEF Entries
  <1>4. NoDup(q) /\ x \notin Entries(q) => NoDup(Append(q, x))
    BY <1>1, <1>2 DEF Entries, NoDup
  <1>5. Append(q, x) # << >>
    BY <1>1, EmptySeq
  <1> QED BY <1>1, <1>3, <1>4, <1>5

(* A get takes the first element away.                                      *)
LEMMA GetElem ==
  ASSUME NEW S, NEW q \in Seq(S), q # << >>
  PROVE  /\ Tail(q) \in Seq(S) /\ Len(Tail(q)) = Len(q) - 1
         /\ Head(q) \in S
         /\ Entries(q) = Entries(Tail(q)) \cup {Head(q)}
         /\ NoDup(q) => NoDup(Tail(q)) /\ Head(q) \notin Entries(Tail(q))
  <1>1. /\ Tail(q) \in Seq(S) /\ Len(Tail(q)) = Len(q) - 1
        /\ \A k \in 1 .. Len(q) - 1 : Tail(q)[k] = q[k + 1]
        /\ Head(q) = q[1] /\ Len(q) \in Nat /\ Len(q) >= 1
        /\ Head(q) \in S
    BY HeadTailProperties, LenProperties, EmptySeq
  <1>2. /\ \A k \in 1 .. Len(q) - 1 : k + 1 \in 1 .. Len(q)
        /\ \A k \in 1 .. Len(q) : k = 1 \/ (k - 1 \in 1 .. Len(q) - 1 /\ (k - 1) + 1 = k)
        /\ 1 \in 1 .. Len(q)
    BY <1>1
  <1>3. Entries(q) = Entries(Tail(q)) \cup {Head(q)}
    <2>1. ASSUME NEW k \in 1 .. Len(q) PROVE q[k] \in Entries(Tail(q)) \cup {Head(q)}
      <3>1. CASE k = 1
        BY <1>1, <3>1
      <3>2. CASE k # 1
        <4>1. k - 1 \in 1 .. Len(q) - 1 /\ (k - 1) + 1 = k
          BY <1>2, <3>2
        <4>2. Tail(q)[k - 1] = q[k] /\ k - 1 \in 1 .. Len(Tail(q))
          BY <1>1, <4>1
        <4> QED BY <4>2 DEF Entries
      <3> QED BY <3>1, <3>2
    <2>2. ASSUME NEW k \in 1 .. Len(q) - 1 PROVE Tail(q)[k] \in Entries(q)
      <3>1. Tail(q)[k] = q[k + 1] /\ k + 1 \in 1 .. Len(q)
        BY <1>1, <1>2
      <3> QED BY <3>1 DEF Entries
    <2> QED BY <1>1, <1>2, <2>1, <2>2 DEF Entries
  <1>4. NoDup(q) => NoDup(Tail(q)) /\ Head(q) \notin Entries(Tail(q))
    <2> SUFFICES ASSUME NoDup(q) PROVE NoDup(Tail(q)) /\ Head(q) \notin Entries(Tail(q))
      OBVIOUS
    <2>1. ASSUME NEW j \in 1 .. Len(q) - 1, NEW k \in 1 .. Len(q) - 1, Tail(q)[j] = Tail(q)[k]
          PROVE  j = k
      BY <1>1, <1>2, <2>1 DEF NoDup
    <2>2. ASSUME NEW k \in 1 .. Len(q) - 1 PROVE Tail(q)[k] # Head(q)
      BY <1>1, <1>2 DEF NoDup
    <2> QED BY <1>1, <2>1, <2>2 DEF NoDup, Entries
  <1> QED BY <1>1, <1>3, <1>4

(* A set has one element if it has one that is the only one.                *)
LEMMA OneElem ==
  ASSUME NEW S, NEW x \in S, \A y \in S : y = x
  PROVE  Cardinality(S) = 1 /\ IsFiniteSet(S)
  <1>1. S = {x}
    OBVIOUS
  <1> QED BY <1>1, FS_Singleton

LEMMA NoneInSet == ASSUME NEW S, S = {} PROVE Cardinality(S) = 0
  BY FS_EmptySet

(***************************************************************************)
(* The inductive invariant.  First, every message is in one place: there   *)
(* is a map from the messages to the places that agrees with the state.    *)
(* The sender that waits knows its message, but does not have it.          *)
(***************************************************************************)
Kinds == {"pool", "recv", "ack", "held", "sent"}
Owners == Boxes \cup AckQues \cup Senders

ToPut(s) == pc[s] \in {"put", "putCmd"}

Placed(kind, who) ==
    /\ \A m \in Msgs : kind[m] = "pool" <=> m \in pool
    /\ \A m \in Msgs, b \in Boxes :
          (kind[m] = "recv" /\ who[m] = b) <=> m \in Entries(recvQue[b])
    /\ \A m \in Msgs, i \in AckQues :
          (kind[m] = "ack" /\ who[m] = i) <=> m \in Entries(ackQue[i])
    /\ \A m \in Msgs, b \in Boxes : (kind[m] = "held" /\ who[m] = b) <=> held[b] = m
    /\ \A m \in Msgs, s \in Senders :
          (kind[m] = "sent" /\ who[m] = s) <=> (ToPut(s) /\ sent[s] = m)
    /\ \A s \in Senders :
          pc[s] = "ack" => sent[s] \in Msgs /\ kind[sent[s]] \in {"recv", "ack", "held"}

Somewhere(kind, who) ==
    \A m \in Msgs :
        /\ kind[m] \in {"recv", "held"} => who[m] \in Boxes
        /\ kind[m] = "ack" => who[m] \in AckQues
        /\ kind[m] = "sent" => who[m] \in Senders

PlacesOK ==
    \E kind \in [Msgs -> Kinds], who \in [Msgs -> Owners] :
        Placed(kind, who) /\ Somewhere(kind, who)

(* What a sender's place says about its request and its message.            *)
CallOK(s) ==
    /\ pc[s] \in {"idle", "claim", "putCmd"} => claimed[s] = NoAckQue
    /\ pc[s] \in {"claim", "ack", "release"} => req[s].from
    /\ req[s].wait => req[s].from
    /\ pc[s] \in {"alloc", "put", "ack", "release"} =>
          (req[s].from <=> claimed[s] # NoAckQue)
    /\ ToPut(s) => sent[s] \in Msgs
    /\ pc[s] = "put" => msg[sent[s]].wait = req[s].wait /\ msg[sent[s]].ackQue = claimed[s]
    /\ pc[s] = "putCmd" => ~msg[sent[s]].wait
    /\ pc[s] = "ack" => msg[sent[s]].wait /\ msg[sent[s]].ackQue = claimed[s]

LoopOK ==
    \A b \in Boxes :
        /\ held[b] \in Msgs <=> loop[b] \in {"handle", "wait", "exit"}
        /\ NoDup(recvQue[b])

(* Whose an acknowledgement queue is, and that the message whose            *)
(* acknowledgement is to go there is the one its owner waits for.           *)
OwnerOK ==
    /\ \A s, t \in Senders : claimed[s] = claimed[t] /\ claimed[s] # NoAckQue => s = t
    /\ \A i \in AckQues : ackQueInUse[i] <=> \E s \in Senders : claimed[s] = i

AwaitedBy(m, s) == pc[s] = "ack" /\ sent[s] = m /\ claimed[s] = msg[m].ackQue

Taken(b, m) == held[b] = m \/ m \in Entries(recvQue[b])

BackOK ==
    /\ \A b \in Boxes : \A m \in Msgs :
          Taken(b, m) /\ GoesBack(m) => \E s \in Senders : AwaitedBy(m, s)
    /\ \A i \in AckQues :
          ackQue[i] # << >> =>
            \E s \in Senders : pc[s] = "ack" /\ claimed[s] = i /\ ackQue[i] = <<sent[s]>>

IInv == TypeOK /\ PlacesOK /\ (\A s \in Senders : CallOK(s)) /\ LoopOK /\ OwnerOK /\ BackOK

LEMMA InitIInv == Init => IInv
  <1> SUFFICES ASSUME Init PROVE IInv
    OBVIOUS
  <1>1. NoRequest \in Requests /\ Blank \in Fields
    BY MbxAssumption DEF NoRequest, Requests, Blank, Fields
  <1>2. TypeOK
    BY <1>1, EmptyQueue, MbxAssumption DEF Init, TypeOK
  <1>3. PlacesOK
    <2> DEFINE kind == [m \in Msgs |-> "pool"]
    <2>1. PICK o \in Owners : TRUE
      BY MbxAssumption DEF Owners
    <2> DEFINE who == [m \in Msgs |-> o]
    <2>2. Placed(kind, who) /\ Somewhere(kind, who)
      BY EmptyQueue, MbxAssumption DEF Init, Placed, Somewhere, ToPut
    <2>3. kind \in [Msgs -> Kinds] /\ who \in [Msgs -> Owners]
      BY <2>1 DEF Kinds
    <2> QED BY <2>2, <2>3 DEF PlacesOK
  <1>4. (\A s \in Senders : CallOK(s)) /\ LoopOK /\ OwnerOK /\ BackOK
    BY EmptyQueue, MbxAssumption
    DEF Init, CallOK, LoopOK, OwnerOK, BackOK, ToPut, NoAckQue, NoRequest, Blank, GoesBack
  <1> QED BY <1>2, <1>3, <1>4 DEF IInv

(***************************************************************************)
(* A message that moves: the map follows it.                                *)
(***************************************************************************)
LEMMA NoRequestOK == NoRequest \in Requests /\ ~NoRequest.wait /\ Blank \in Fields
  BY MbxAssumption DEF NoRequest, Requests, Blank, Fields

LEMMA SendMsgIInv ==
  ASSUME IInv, NEW s \in Senders, NEW r \in Requests, SendMsg(s, r) PROVE IInv'
  <1>1. TypeOK'
    BY DEF IInv, TypeOK, SendMsg, Goto, tasks
  <1>2. PlacesOK'
    <2>1. PICK kind \in [Msgs -> Kinds], who \in [Msgs -> Owners] :
               Placed(kind, who) /\ Somewhere(kind, who)
      BY DEF IInv, PlacesOK
    <2>2. Placed(kind, who)' /\ Somewhere(kind, who)'
      BY <2>1 DEF IInv, TypeOK, Placed, Somewhere, SendMsg, Goto, ToPut, tasks
    <2> QED BY <2>2 DEF PlacesOK
  <1>3. ASSUME NEW t \in Senders PROVE CallOK(t)'
    BY DEF IInv, TypeOK, CallOK, SendMsg, Goto, ToPut, tasks, Requests, NoAckQue
  <1>4. LoopOK' /\ OwnerOK'
    BY DEF IInv, LoopOK, OwnerOK, SendMsg, tasks
  <1>5. \A t \in Senders : pc[t] = "ack" => pc'[t] = "ack"
    BY DEF IInv, TypeOK, SendMsg, Goto
  <1>6. BackOK'
    BY <1>5 DEF IInv, BackOK, SendMsg, tasks, Taken, AwaitedBy, GoesBack
  <1> QED BY <1>1, <1>2, <1>3, <1>4, <1>6 DEF IInv

LEMMA ClaimAckQueIInv ==
  ASSUME IInv, NEW s \in Senders, ClaimAckQue(s) PROVE IInv'
  <1>0. CASE FreeAckQues = {}
    <2>1. /\ pc[s] = "claim" /\ pc' = [pc EXCEPT ![s] = "idle"]
          /\ req' = [req EXCEPT ![s] = NoRequest]
          /\ sent' = [sent EXCEPT ![s] = NoMsg]
          /\ claimed' = [claimed EXCEPT ![s] = NoAckQue]
          /\ UNCHANGED <<pool, msg, recvQue, ackQue, ackQueInUse, loop, held, awaited>>
      BY <1>0 DEF ClaimAckQue, Return, Goto, tasks
    <2>2. TypeOK'
      BY <2>1, NoRequestOK DEF IInv, TypeOK
    <2>3. claimed' = claimed
      BY <2>1 DEF IInv, CallOK, TypeOK
    <2>4. /\ \A t \in Senders : pc[t] = "ack" <=> pc'[t] = "ack"
          /\ \A t \in Senders : ToPut(t) <=> ToPut(t)'
          /\ \A t \in Senders : ToPut(t) \/ pc[t] = "ack" => sent'[t] = sent[t]
      BY <2>1 DEF IInv, TypeOK, ToPut
    <2>5. PlacesOK'
      <3>1. PICK kind \in [Msgs -> Kinds], who \in [Msgs -> Owners] :
                 Placed(kind, who) /\ Somewhere(kind, who)
        BY DEF IInv, PlacesOK
      <3>2. Placed(kind, who)' /\ Somewhere(kind, who)'
        BY <2>1, <2>4, <3>1 DEF Placed, Somewhere
      <3> QED BY <3>2 DEF PlacesOK
    <2>6. ASSUME NEW t \in Senders PROVE CallOK(t)'
      BY <2>1, NoRequestOK DEF IInv, TypeOK, CallOK, ToPut, NoAckQue
    <2>7. LoopOK' /\ OwnerOK'
      BY <2>1, <2>3 DEF IInv, LoopOK, OwnerOK
    <2>8. BackOK'
      BY <2>1, <2>3, <2>4 DEF IInv, BackOK, Taken, AwaitedBy, GoesBack
    <2> QED BY <2>2, <2>5, <2>6, <2>7, <2>8 DEF IInv
  <1>1. ASSUME NEW i \in FreeAckQues,
               claimed' = [claimed EXCEPT ![s] = i], ackQueInUse' = Marked(i),
               Goto(s, "alloc"), UNCHANGED <<req, sent>>
        PROVE  IInv'
    <2> USE <1>1 DEF ClaimAckQue, Marked, Goto, tasks
    <2>0. i \in AckQues /\ i # NoAckQue /\ ~ackQueInUse[i]
      BY MbxAssumption DEF FreeAckQues, NoAckQue
    <2>1. TypeOK'
      BY <2>0 DEF IInv, TypeOK
    <2>2. PlacesOK'
      <3>1. PICK kind \in [Msgs -> Kinds], who \in [Msgs -> Owners] :
                 Placed(kind, who) /\ Somewhere(kind, who)
        BY DEF IInv, PlacesOK
      <3>2. Placed(kind, who)' /\ Somewhere(kind, who)'
        BY <3>1 DEF IInv, TypeOK, Placed, Somewhere, ToPut
      <3> QED BY <3>2 DEF PlacesOK
    <2>3. ASSUME NEW t \in Senders PROVE CallOK(t)'
      BY <2>0 DEF IInv, TypeOK, CallOK, ToPut
    <2>4. OwnerOK'
      BY <2>0, MbxAssumption DEF IInv, TypeOK, CallOK, OwnerOK, NoAckQue
    <2>5. LoopOK'
      BY DEF IInv, LoopOK
    <2>6. \A t \in Senders : pc[t] = "ack" => pc'[t] = "ack" /\ claimed'[t] = claimed[t]
      BY DEF IInv, TypeOK
    <2>7. BackOK'
      BY <2>6 DEF IInv, BackOK, Taken, AwaitedBy, GoesBack
    <2> QED BY <2>1, <2>2, <2>3, <2>4, <2>5, <2>7 DEF IInv
  <1> QED BY <1>0, <1>1 DEF ClaimAckQue

(* A free message is taken by a sender, which is to put it.                 *)
LEMMA AllocFacts ==
  ASSUME IInv, NEW s \in Senders, NEW c \in Cmds \cup {ExitCmd}, NEW wait \in BOOLEAN,
         NEW i \in AckQues \cup {NoAckQue}, Alloc(s, c, wait, i),
         pc[s] \in {"idle", "alloc"}, NEW place \in {"put", "putCmd"}, Goto(s, place),
         UNCHANGED <<recvQue, ackQue, ackQueInUse, claimed, tasks>>
  PROVE  /\ PlacesOK' /\ LoopOK' /\ OwnerOK' /\ BackOK'
         /\ pool' \subseteq Msgs /\ msg' \in [Msgs -> Fields]
         /\ sent' \in [Senders -> Msgs \cup {NoMsg}]
         /\ sent'[s] \in Msgs /\ msg'[sent'[s]] = [cmd |-> c, wait |-> wait, ackQue |-> i]
         /\ \A t \in Senders : t # s =>
               /\ sent'[t] = sent[t]
               /\ ToPut(t) \/ pc[t] = "ack" => msg'[sent[t]] = msg[sent[t]]
  <1> USE DEF Alloc, Goto, tasks
  <1>1. PICK m \in pool : /\ pool' = pool \ {m}
                          /\ sent' = [sent EXCEPT ![s] = m]
                          /\ msg' = [msg EXCEPT ![m] = [cmd |-> c, wait |-> wait, ackQue |-> i]]
    OBVIOUS
  <1>2. m \in Msgs /\ [cmd |-> c, wait |-> wait, ackQue |-> i] \in Fields
    BY <1>1 DEF IInv, TypeOK, Fields
  <1>3. PICK kind \in [Msgs -> Kinds], who \in [Msgs -> Owners] :
             Placed(kind, who) /\ Somewhere(kind, who)
    BY DEF IInv, PlacesOK
  <1>4. \A t \in Senders : ToPut(t) \/ pc[t] = "ack" => sent[t] # m
    BY <1>2, <1>1, <1>3 DEF Placed
  <1>5. PlacesOK'
    <2> DEFINE k1 == [kind EXCEPT ![m] = "sent"]
               w1 == [who EXCEPT ![m] = s]
    <2>1. k1 \in [Msgs -> Kinds] /\ w1 \in [Msgs -> Owners]
      BY DEF Kinds, Owners
    <2>2. Somewhere(k1, w1)'
      BY <1>3 DEF Somewhere
    <2>3. kind[m] = "pool"
      BY <1>1, <1>2, <1>3 DEF Placed
    <2>4. Placed(k1, w1)'
      <3>1. \A x \in Msgs : x # m => k1[x] = kind[x] /\ w1[x] = who[x]
        OBVIOUS
      <3>2. k1[m] = "sent" /\ w1[m] = s
        BY <1>2
      <3>3. /\ pc'[s] \in {"put", "putCmd"} /\ sent'[s] = m /\ ~ToPut(s) /\ pc[s] # "ack"
            /\ \A t \in Senders : t # s => pc'[t] = pc[t] /\ sent'[t] = sent[t]
        BY <1>1 DEF IInv, TypeOK, ToPut
      <3> HIDE DEF k1, w1, Alloc, Goto
      <3>4. \A x \in Msgs : k1[x] = "pool" <=> x \in pool'
        BY <1>1, <1>3, <3>1, <3>2 DEF Placed
      <3>5. /\ \A x \in Msgs, b \in Boxes : (k1[x] = "recv" /\ w1[x] = b) <=> x \in Entries(recvQue[b])
            /\ \A x \in Msgs, i1 \in AckQues : (k1[x] = "ack" /\ w1[x] = i1) <=> x \in Entries(ackQue[i1])
            /\ \A x \in Msgs, b \in Boxes : (k1[x] = "held" /\ w1[x] = b) <=> held[b] = x
        BY <1>3, <2>3, <3>1, <3>2 DEF Placed
      <3>6. \A x \in Msgs, t \in Senders :
               (k1[x] = "sent" /\ w1[x] = t) <=> (ToPut(t)' /\ sent'[t] = x)
        BY <1>3, <2>3, <3>1, <3>2, <3>3 DEF Placed, ToPut
      <3>7. \A t \in Senders :
               pc'[t] = "ack" => sent'[t] \in Msgs /\ k1[sent'[t]] \in {"recv", "ack", "held"}
        BY <1>3, <1>4, <3>1, <3>3 DEF Placed
      <3> QED BY <3>4, <3>5, <3>6, <3>7 DEF Placed
    <2> QED BY <2>1, <2>2, <2>4 DEF PlacesOK
  <1>6. LoopOK' /\ OwnerOK'
    BY DEF IInv, LoopOK, OwnerOK
  <1>7. \A b \in Boxes : ~Taken(b, m)
    BY <1>1, <1>2, <1>3 DEF Placed, Taken
  <1>8. BackOK'
    <2>1. \A t \in Senders : pc[t] = "ack" => pc'[t] = "ack" /\ sent'[t] = sent[t]
      BY <1>1 DEF IInv, TypeOK
    <2>2. \A x \in Msgs : x # m => msg'[x] = msg[x]
      BY <1>1 DEF IInv, TypeOK
    <2>3. ASSUME NEW b \in Boxes, NEW x \in Msgs, Taken(b, x)', GoesBack(x)'
          PROVE  \E t \in Senders : AwaitedBy(x, t)'
      <3>1. x # m /\ Taken(b, x) /\ GoesBack(x)
        BY <1>7, <2>2, <2>3 DEF Taken, GoesBack
      <3>2. PICK t \in Senders : AwaitedBy(x, t)
        BY <3>1 DEF IInv, BackOK
      <3> QED BY <3>1, <3>2, <2>1, <2>2 DEF AwaitedBy
    <2> QED BY <2>1, <2>3 DEF IInv, BackOK
  <1> QED BY <1>1, <1>2, <1>4, <1>5, <1>6, <1>8 DEF IInv, TypeOK

LEMMA AllocMsgIInv ==
  ASSUME IInv, NEW s \in Senders, AllocMsg(s) PROVE IInv'
  <1> USE DEF AllocMsg, Goto, tasks
  <1>1. /\ req[s].cmd \in Cmds \cup {ExitCmd} /\ req[s].wait \in BOOLEAN
        /\ claimed[s] \in AckQues \cup {NoAckQue}
    BY DEF IInv, TypeOK, Requests
  <1>2. /\ PlacesOK' /\ LoopOK' /\ OwnerOK' /\ BackOK'
        /\ pool' \subseteq Msgs /\ msg' \in [Msgs -> Fields]
        /\ sent' \in [Senders -> Msgs \cup {NoMsg}]
        /\ sent'[s] \in Msgs
        /\ msg'[sent'[s]] = [cmd |-> req[s].cmd, wait |-> req[s].wait, ackQue |-> claimed[s]]
        /\ \A t \in Senders : t # s =>
              /\ sent'[t] = sent[t]
              /\ ToPut(t) \/ pc[t] = "ack" => msg'[sent[t]] = msg[sent[t]]
    <2>1. /\ Alloc(s, req[s].cmd, req[s].wait, claimed[s])
          /\ pc[s] \in {"idle", "alloc"} /\ "put" \in {"put", "putCmd"}
          /\ UNCHANGED <<recvQue, ackQue, ackQueInUse, claimed, tasks>>
      OBVIOUS
    <2>2. Goto(s, "put")
      OBVIOUS
    <2> HIDE DEF AllocMsg, Goto, tasks
    <2> QED BY <1>1, <2>1, <2>2, AllocFacts
  <1>3. TypeOK'
    BY <1>2 DEF IInv, TypeOK
  <1>4. ASSUME NEW t \in Senders PROVE CallOK(t)'
    BY <1>2 DEF IInv, TypeOK, CallOK, ToPut
  <1> QED BY <1>2, <1>3, <1>4 DEF IInv

LEMMA SendCmdIInv ==
  ASSUME IInv, NEW s \in Senders, NEW b \in Boxes, NEW c \in Cmds \cup {ExitCmd},
         SendCmd(s, b, c)
  PROVE  IInv'
  <1> USE DEF SendCmd, Goto, tasks
  <1>1. /\ PlacesOK' /\ LoopOK' /\ OwnerOK' /\ BackOK'
        /\ pool' \subseteq Msgs /\ msg' \in [Msgs -> Fields]
        /\ sent' \in [Senders -> Msgs \cup {NoMsg}]
        /\ sent'[s] \in Msgs
        /\ msg'[sent'[s]] = [cmd |-> c, wait |-> FALSE, ackQue |-> NoAckQue]
        /\ \A t \in Senders : t # s =>
              /\ sent'[t] = sent[t]
              /\ ToPut(t) \/ pc[t] = "ack" => msg'[sent[t]] = msg[sent[t]]
    <2>1. /\ Alloc(s, c, FALSE, NoAckQue) /\ NoAckQue \in AckQues \cup {NoAckQue}
          /\ pc[s] \in {"idle", "alloc"} /\ "putCmd" \in {"put", "putCmd"}
          /\ UNCHANGED <<recvQue, ackQue, ackQueInUse, claimed, tasks>>
      OBVIOUS
    <2>2. Goto(s, "putCmd")
      OBVIOUS
    <2> HIDE DEF SendCmd, Goto, tasks
    <2> QED BY <2>1, <2>2, AllocFacts
  <1>2. [to |-> b, cmd |-> c, from |-> FALSE, wait |-> FALSE] \in Requests
    BY DEF Requests
  <1>3. TypeOK'
    BY <1>1, <1>2 DEF IInv, TypeOK
  <1>4. ASSUME NEW t \in Senders PROVE CallOK(t)'
    BY <1>1 DEF IInv, TypeOK, CallOK, ToPut
  <1> QED BY <1>1, <1>3, <1>4 DEF IInv

(* A sender has put its message into a receive queue, and goes on to wait   *)
(* for it or to forget it.                                                  *)
LEMMA PutFacts ==
  ASSUME IInv, NEW s \in Senders, NEW b \in Boxes, ToPut(s), HasRoom(b),
         recvQue' = [recvQue EXCEPT ![b] = Append(@, sent[s])],
         NEW place \in {"idle", "ack", "release"}, Goto(s, place),
         place = "ack" <=> GoesBack(sent[s]),
         \A t \in Senders : (t # s \/ place = "ack") =>
            sent'[t] = sent[t] /\ claimed'[t] = claimed[t],
         UNCHANGED <<pool, msg, ackQue, tasks>>
  PROVE  /\ PlacesOK' /\ LoopOK' /\ BackOK'
         /\ \A c \in Boxes : recvQue'[c] \in Seq(Msgs) /\ Len(recvQue'[c]) <= RecvQueLen
  <1>0. PICK m \in Msgs : m = sent[s]
    BY DEF IInv, CallOK
  <1>1. PICK kind \in [Msgs -> Kinds], who \in [Msgs -> Owners] :
             Placed(kind, who) /\ Somewhere(kind, who)
    BY DEF IInv, PlacesOK
  <1>2. m \in Msgs /\ kind[m] = "sent" /\ who[m] = s
    BY <1>0, <1>1 DEF IInv, CallOK, Placed
  <1>3. /\ recvQue[b] \in Seq(Msgs) /\ Len(recvQue[b]) < RecvQueLen
        /\ recvQue'[b] = Append(recvQue[b], m)
        /\ \A c \in Boxes : c # b => recvQue'[c] = recvQue[c]
    BY <1>0 DEF IInv, TypeOK, HasRoom
  <1>4. m \notin Entries(recvQue[b])
    BY <1>1, <1>2 DEF Placed
  <1>5. /\ recvQue'[b] \in Seq(Msgs) /\ Len(recvQue'[b]) = Len(recvQue[b]) + 1
        /\ Entries(recvQue'[b]) = Entries(recvQue[b]) \cup {m}
        /\ NoDup(recvQue[b]) => NoDup(recvQue'[b])
    BY <1>2, <1>3, <1>4, PutElem
  <1>6. \A c \in Boxes : recvQue'[c] \in Seq(Msgs) /\ Len(recvQue'[c]) <= RecvQueLen
    <2>1. Len(recvQue[b]) \in Nat /\ RecvQueLen \in Nat
      BY <1>3, LenProperties, MbxAssumption
    <2> QED BY <1>3, <1>5, <2>1 DEF IInv, TypeOK
  <1>7. LoopOK'
    BY <1>3, <1>5 DEF IInv, LoopOK, tasks
  <1>8. /\ pc'[s] = place /\ pc[s] # "ack" /\ \A t \in Senders : t # s => pc'[t] = pc[t]
    BY DEF IInv, TypeOK, Goto, ToPut
  <1>9. ~ToPut(s)'
    BY <1>8 DEF ToPut
  <1>10. PlacesOK'
    <2> DEFINE k1 == [kind EXCEPT ![m] = "recv"]
               w1 == [who EXCEPT ![m] = b]
    <2>1. k1 \in [Msgs -> Kinds] /\ w1 \in [Msgs -> Owners]
      BY DEF Kinds, Owners
    <2>2. /\ \A x \in Msgs : x # m => k1[x] = kind[x] /\ w1[x] = who[x]
          /\ k1[m] = "recv" /\ w1[m] = b
      BY <1>2
    <2>3. Somewhere(k1, w1)'
      BY <1>1, <2>2 DEF Somewhere
    <2>4. Placed(k1, w1)'
      <3> HIDE DEF k1, w1
      <3>1. \A x \in Msgs : k1[x] = "pool" <=> x \in pool'
        BY <1>1, <1>2, <2>2 DEF Placed
      <3>2. \A x \in Msgs, c \in Boxes : (k1[x] = "recv" /\ w1[x] = c) <=> x \in Entries(recvQue'[c])
        BY <1>1, <1>2, <1>3, <1>5, <2>2 DEF Placed
      <3>3. /\ \A x \in Msgs, i \in AckQues : (k1[x] = "ack" /\ w1[x] = i) <=> x \in Entries(ackQue'[i])
            /\ \A x \in Msgs, c \in Boxes : (k1[x] = "held" /\ w1[x] = c) <=> held'[c] = x
        BY <1>1, <1>2, <2>2 DEF Placed, tasks
      <3>4. \A x \in Msgs, t \in Senders :
               (k1[x] = "sent" /\ w1[x] = t) <=> (ToPut(t)' /\ sent'[t] = x)
        BY <1>1, <1>2, <2>2, <1>8, <1>9 DEF Placed, ToPut
      <3>5. \A t \in Senders :
               pc'[t] = "ack" => sent'[t] \in Msgs /\ k1[sent'[t]] \in {"recv", "ack", "held"}
        BY <1>0, <1>1, <1>2, <2>2, <1>8 DEF Placed
      <3> QED BY <3>1, <3>2, <3>3, <3>4, <3>5 DEF Placed
    <2> HIDE DEF k1, w1
    <2> QED BY <2>1, <2>3, <2>4 DEF PlacesOK
  <1>11. BackOK'
    <2>1. \A t \in Senders : pc[t] = "ack" =>
             pc'[t] = "ack" /\ sent'[t] = sent[t] /\ claimed'[t] = claimed[t]
      BY <1>8
    <2>2. ASSUME NEW c \in Boxes, NEW x \in Msgs, Taken(c, x)', GoesBack(x)'
          PROVE  \E t \in Senders : AwaitedBy(x, t)'
      <3>1. GoesBack(x)
        BY <2>2 DEF GoesBack
      <3>2. CASE x = m
        <4>1. pc'[s] = "ack" /\ sent'[s] = m /\ claimed'[s] = claimed[s] /\ pc[s] \in {"put", "putCmd"}
          BY <1>0, <3>1, <3>2, <1>8 DEF ToPut
        <4>2. msg[m].ackQue = claimed[s]
          BY <1>0, <3>1, <3>2, <4>1 DEF IInv, CallOK, GoesBack
        <4> QED BY <3>2, <4>1, <4>2 DEF AwaitedBy
      <3>3. CASE x # m
        <4>1. Taken(c, x)
          BY <1>3, <1>5, <2>2, <3>3 DEF Taken, tasks
        <4>2. PICK t \in Senders : AwaitedBy(x, t)
          BY <3>1, <4>1 DEF IInv, BackOK
        <4> QED BY <2>1, <4>2 DEF AwaitedBy
      <3> QED BY <3>2, <3>3
    <2>3. ASSUME NEW i \in AckQues, ackQue'[i] # << >>
          PROVE  \E t \in Senders : pc'[t] = "ack" /\ claimed'[t] = i /\ ackQue'[i] = <<sent'[t]>>
      <3>1. PICK t \in Senders : pc[t] = "ack" /\ claimed[t] = i /\ ackQue[i] = <<sent[t]>>
        BY <2>3 DEF IInv, BackOK
      <3> QED BY <3>1, <2>1
    <2> QED BY <2>2, <2>3 DEF BackOK
  <1> QED BY <1>6, <1>7, <1>10, <1>11

LEMMA PutMsgIInv ==
  ASSUME IInv, NEW s \in Senders, PutMsg(s) PROVE IInv'
  <1> DEFINE b == req[s].to
             place == IF ~req[s].from THEN "idle" ELSE IF req[s].wait THEN "ack" ELSE "release"
  <1>1. /\ b \in Boxes /\ ToPut(s) /\ HasRoom(b) /\ pc[s] = "put"
        /\ recvQue' = [recvQue EXCEPT ![b] = Append(@, sent[s])]
        /\ place \in {"idle", "ack", "release"} /\ Goto(s, place)
        /\ UNCHANGED <<pool, msg, ackQue, tasks>>
    BY DEF PutMsg, IInv, TypeOK, Requests, ToPut, Return
  <1>2. place = "ack" <=> GoesBack(sent[s])
    BY <1>1 DEF IInv, CallOK, GoesBack
  <1>3. /\ req[s].from => sent' = sent /\ claimed' = claimed /\ req' = req
        /\ ~req[s].from => /\ sent' = [sent EXCEPT ![s] = NoMsg]
                           /\ claimed' = [claimed EXCEPT ![s] = NoAckQue]
                           /\ req' = [req EXCEPT ![s] = NoRequest]
    BY DEF PutMsg, Return
  <1>4. claimed' = claimed
    BY <1>1, <1>3 DEF IInv, CallOK, TypeOK
  <1>5. \A t \in Senders : (t # s \/ place = "ack") =>
            sent'[t] = sent[t] /\ claimed'[t] = claimed[t]
    BY <1>3, <1>4 DEF IInv, TypeOK
  <1> HIDE DEF place, b
  <1>6. /\ PlacesOK' /\ LoopOK' /\ BackOK'
        /\ \A c \in Boxes : recvQue'[c] \in Seq(Msgs) /\ Len(recvQue'[c]) <= RecvQueLen
    BY <1>1, <1>2, <1>5, PutFacts
  <1>7. TypeOK'
    <2>1. /\ pc' \in [Senders -> {"idle", "claim", "alloc", "put", "ack", "release", "putCmd"}]
          /\ req' \in [Senders -> Requests] /\ sent' \in [Senders -> Msgs \cup {NoMsg}]
      BY <1>1, <1>3, NoRequestOK DEF IInv, TypeOK, Goto
    <2>2. recvQue' \in [Boxes -> Seq(Msgs)]
      BY <1>1, <1>6 DEF IInv, TypeOK
    <2> QED BY <1>1, <1>4, <1>6, <2>1, <2>2 DEF IInv, TypeOK, PutMsg, tasks
  <1>8. ASSUME NEW t \in Senders PROVE CallOK(t)'
    BY <1>1, <1>3, <1>4, NoRequestOK DEF IInv, TypeOK, CallOK, PutMsg, Goto, ToPut, place
  <1>9. OwnerOK'
    BY <1>4 DEF IInv, OwnerOK, PutMsg
  <1> QED BY <1>6, <1>7, <1>8, <1>9 DEF IInv

LEMMA ReleaseAckQueIInv ==
  ASSUME IInv, NEW s \in Senders, ReleaseAckQue(s) PROVE IInv'
  <1>1. /\ pc[s] = "release" /\ pc' = [pc EXCEPT ![s] = "idle"]
        /\ ackQueInUse' = [ackQueInUse EXCEPT ![claimed[s]] = FALSE]
        /\ req' = [req EXCEPT ![s] = NoRequest]
        /\ sent' = [sent EXCEPT ![s] = NoMsg]
        /\ claimed' = [claimed EXCEPT ![s] = NoAckQue]
        /\ UNCHANGED <<pool, msg, recvQue, ackQue, loop, held, awaited>>
    BY DEF ReleaseAckQue, Return, Goto, tasks
  <1>2. claimed[s] \in AckQues /\ claimed[s] # NoAckQue /\ NoAckQue \notin AckQues
    BY <1>1, MbxAssumption DEF IInv, TypeOK, CallOK, NoAckQue
  <1>3. TypeOK'
    BY <1>1, <1>2, NoRequestOK DEF IInv, TypeOK
  <1>4. /\ \A t \in Senders : pc[t] = "ack" <=> pc'[t] = "ack"
        /\ \A t \in Senders : ToPut(t) <=> ToPut(t)'
        /\ \A t \in Senders : ToPut(t) \/ pc[t] = "ack" =>
              sent'[t] = sent[t] /\ claimed'[t] = claimed[t]
    BY <1>1 DEF IInv, TypeOK, ToPut
  <1>5. PlacesOK'
    <2>1. PICK kind \in [Msgs -> Kinds], who \in [Msgs -> Owners] :
               Placed(kind, who) /\ Somewhere(kind, who)
      BY DEF IInv, PlacesOK
    <2>2. Placed(kind, who)' /\ Somewhere(kind, who)'
      BY <1>1, <1>4, <2>1 DEF Placed, Somewhere
    <2> QED BY <2>2 DEF PlacesOK
  <1>6. ASSUME NEW t \in Senders PROVE CallOK(t)'
    BY <1>1, NoRequestOK DEF IInv, TypeOK, CallOK, ToPut, NoAckQue
  <1>7. OwnerOK'
    <2>1. \A t \in Senders : claimed'[t] = IF t = s THEN NoAckQue ELSE claimed[t]
      BY <1>1 DEF IInv, TypeOK
    <2>2. \A i \in AckQues : ackQueInUse'[i] = IF i = claimed[s] THEN FALSE ELSE ackQueInUse[i]
      BY <1>1 DEF IInv, TypeOK
    <2>3. \A t, u \in Senders : claimed'[t] = claimed'[u] /\ claimed'[t] # NoAckQue => t = u
      BY <2>1 DEF IInv, OwnerOK
    <2>4. ASSUME NEW i \in AckQues PROVE ackQueInUse'[i] <=> \E t \in Senders : claimed'[t] = i
      <3>1. CASE i = claimed[s]
        <4>1. ASSUME NEW t \in Senders, claimed'[t] = i PROVE FALSE
          <5>1. t # s /\ claimed[t] = claimed[s]
            BY <1>2, <2>1, <3>1, <4>1
          <5> QED BY <1>2, <5>1 DEF IInv, OwnerOK
        <4> QED BY <2>2, <3>1, <4>1
      <3>2. CASE i # claimed[s]
        <4>1. ackQueInUse'[i] <=> \E t \in Senders : claimed[t] = i
          BY <2>2, <3>2 DEF IInv, OwnerOK
        <4> QED BY <1>2, <2>1, <3>2, <4>1
      <3> QED BY <3>1, <3>2
    <2> QED BY <2>3, <2>4 DEF OwnerOK
  <1>8. LoopOK'
    BY <1>1 DEF IInv, LoopOK
  <1>9. BackOK'
    BY <1>1, <1>4 DEF IInv, BackOK, Taken, AwaitedBy, GoesBack
  <1> QED BY <1>3, <1>5, <1>6, <1>7, <1>8, <1>9 DEF IInv

(* The message becomes free that one sender has refused or got back.        *)
LEMMA FreedFacts ==
  ASSUME IInv, NEW s \in Senders, NEW m \in Msgs, Free(m),
         ToPut(s) \/ pc[s] = "ack", m = sent[s], GoesBack(m) => pc[s] = "ack",
         NEW place \in {"idle", "release"}, Goto(s, place),
         \A t \in Senders : t # s => sent'[t] = sent[t] /\ claimed'[t] = claimed[t],
         \A i \in AckQues : ackQue'[i] = IF pc[s] = "ack" /\ i = claimed[s] THEN << >> ELSE ackQue[i],
         pc[s] = "ack" => m \in Entries(ackQue[claimed[s]]) /\ ackQue[claimed[s]] = <<m>>,
         UNCHANGED <<recvQue, tasks>>
  PROVE  /\ PlacesOK' /\ LoopOK' /\ BackOK'
         /\ pool' \subseteq Msgs /\ msg' \in [Msgs -> Fields]
         /\ \A t \in Senders : t # s =>
               (ToPut(t) \/ pc[t] = "ack" => sent[t] # m /\ msg'[sent[t]] = msg[sent[t]])
  <1>1. PICK kind \in [Msgs -> Kinds], who \in [Msgs -> Owners] :
             Placed(kind, who) /\ Somewhere(kind, who)
    BY DEF IInv, PlacesOK
  <1>2. /\ pool' = pool \cup {m} /\ msg' = [msg EXCEPT ![m] = Blank]
        /\ UNCHANGED <<loop, held, awaited>>
    BY DEF Free, tasks
  <1>3. /\ pc[s] # "ack" => kind[m] = "sent" /\ who[m] = s
        /\ pc[s] = "ack" => kind[m] = "ack" /\ who[m] = claimed[s] /\ claimed[s] \in AckQues
    <2>1. pc[s] = "ack" => claimed[s] \in AckQues
      BY DEF IInv, CallOK, TypeOK
    <2> QED BY <1>1, <2>1 DEF Placed
  <1>4. ASSUME NEW t \in Senders, t # s, ToPut(t) \/ pc[t] = "ack" PROVE sent[t] # m
    <2>1. CASE ToPut(t)
      BY <1>1, <1>3, <1>4, <2>1 DEF Placed
    <2>2. CASE pc[t] = "ack"
      <3> SUFFICES ASSUME sent[t] = m PROVE FALSE
        OBVIOUS
      <3>1. GoesBack(m) /\ msg[m].ackQue = claimed[t] /\ claimed[t] # NoAckQue
        BY <2>2 DEF IInv, CallOK, GoesBack
      <3>2. pc[s] = "ack" /\ msg[m].ackQue = claimed[s]
        BY <3>1 DEF IInv, CallOK
      <3> QED BY <1>4, <3>1, <3>2 DEF IInv, OwnerOK
    <2> QED BY <1>4, <2>1, <2>2
  <1>5. /\ pc'[s] = place /\ \A t \in Senders : t # s => pc'[t] = pc[t]
    BY DEF IInv, TypeOK, Goto
  <1>6. PlacesOK'
    <2> DEFINE k1 == [kind EXCEPT ![m] = "pool"]
    <2>1. k1 \in [Msgs -> Kinds]
      BY DEF Kinds
    <2>2. k1[m] = "pool" /\ \A x \in Msgs : x # m => k1[x] = kind[x]
      OBVIOUS
    <2> HIDE DEF k1
    <2>3. Somewhere(k1, who)'
      BY <1>1, <2>2 DEF Somewhere
    <2>4. Placed(k1, who)'
      <3>1. \A x \in Msgs : k1[x] = "pool" <=> x \in pool'
        BY <1>1, <1>2, <2>2 DEF Placed
      <3>2. /\ \A x \in Msgs, c \in Boxes : (k1[x] = "recv" /\ who[x] = c) <=> x \in Entries(recvQue'[c])
            /\ \A x \in Msgs, c \in Boxes : (k1[x] = "held" /\ who[x] = c) <=> held'[c] = x
        BY <1>1, <1>2, <1>3, <2>2 DEF Placed
      <3>3. ASSUME NEW x \in Msgs, NEW i \in AckQues
            PROVE  (k1[x] = "ack" /\ who[x] = i) <=> x \in Entries(ackQue'[i])
        <4>1. CASE pc[s] = "ack" /\ i = claimed[s]
          <5>1. Entries(ackQue'[i]) = {}
            BY <4>1, EmptyQueue
          <5>2. x # m => ~(kind[x] = "ack" /\ who[x] = i)
            <6>1. \A y : y \in Entries(<<m>>) => y = m
              BY DEF Entries
            <6> QED BY <1>1, <4>1, <6>1 DEF Placed
          <5> QED BY <2>2, <5>1, <5>2
        <4>2. CASE ~(pc[s] = "ack" /\ i = claimed[s])
          BY <1>1, <1>3, <2>2, <4>2 DEF Placed
        <4> QED BY <4>1, <4>2
      <3>4. \A x \in Msgs, t \in Senders :
               (k1[x] = "sent" /\ who[x] = t) <=> (ToPut(t)' /\ sent'[t] = x)
        BY <1>1, <1>3, <1>4, <2>2, <1>5 DEF Placed, ToPut
      <3>5. \A t \in Senders :
               pc'[t] = "ack" => sent'[t] \in Msgs /\ k1[sent'[t]] \in {"recv", "ack", "held"}
        BY <1>1, <1>4, <2>2, <1>5 DEF Placed
      <3> QED BY <3>1, <3>2, <3>3, <3>4, <3>5 DEF Placed
    <2> QED BY <2>1, <2>3, <2>4 DEF PlacesOK
  <1>7. LoopOK'
    BY <1>2 DEF IInv, LoopOK
  <1>8. BackOK'
    <2>1. \A t \in Senders : pc[t] = "ack" /\ t # s =>
             pc'[t] = "ack" /\ sent'[t] = sent[t] /\ claimed'[t] = claimed[t]
      BY <1>5
    <2>2. ASSUME NEW c \in Boxes, NEW x \in Msgs, Taken(c, x)', GoesBack(x)'
          PROVE  \E t \in Senders : AwaitedBy(x, t)'
      <3>1. x # m /\ Taken(c, x)
        BY <1>1, <1>2, <1>3, <2>2 DEF Taken, Placed
      <3>2. msg'[x] = msg[x] /\ GoesBack(x)
        BY <1>2, <2>2, <3>1 DEF IInv, TypeOK, GoesBack
      <3>3. PICK t \in Senders : AwaitedBy(x, t)
        BY <3>1, <3>2 DEF IInv, BackOK
      <3>4. t # s
        BY <3>1, <3>3 DEF AwaitedBy
      <3> QED BY <2>1, <3>2, <3>3, <3>4 DEF AwaitedBy
    <2>3. ASSUME NEW i \in AckQues, ackQue'[i] # << >>
          PROVE  \E t \in Senders : pc'[t] = "ack" /\ claimed'[t] = i /\ ackQue'[i] = <<sent'[t]>>
      <3>1. ackQue'[i] = ackQue[i] /\ ~(pc[s] = "ack" /\ i = claimed[s])
        BY <2>3
      <3>2. PICK t \in Senders : pc[t] = "ack" /\ claimed[t] = i /\ ackQue[i] = <<sent[t]>>
        BY <2>3, <3>1 DEF IInv, BackOK
      <3> QED BY <3>1, <3>2, <2>1
    <2> QED BY <2>2, <2>3 DEF BackOK
  <1>9. pool' \subseteq Msgs /\ msg' \in [Msgs -> Fields]
    BY <1>2, NoRequestOK DEF IInv, TypeOK
  <1>10. \A t \in Senders : t # s =>
            (ToPut(t) \/ pc[t] = "ack" => sent[t] # m /\ msg'[sent[t]] = msg[sent[t]])
    BY <1>2, <1>4 DEF IInv, TypeOK
  <1> QED BY <1>6, <1>7, <1>8, <1>9, <1>10

LEMMA TakeAckIInv ==
  ASSUME IInv, NEW s \in Senders, TakeAck(s) PROVE IInv'
  <1>1. PICK t \in Senders : /\ pc[t] = "ack" /\ claimed[t] = claimed[s]
                             /\ ackQue[claimed[s]] = <<sent[t]>>
    BY MbxAssumption DEF IInv, TypeOK, CallOK, BackOK, TakeAck, NoAckQue
  <1>2. t = s /\ claimed[s] \in AckQues
    BY <1>1 DEF IInv, TypeOK, CallOK, OwnerOK, TakeAck
  <1>3. PICK m \in Msgs : m = sent[s]
    BY <1>1, <1>2 DEF IInv, PlacesOK, Placed
  <1>4. /\ Head(<<m>>) = m /\ Tail(<<m>>) = << >> /\ m \in Entries(<<m>>)
        /\ << >> \in Seq(Msgs) /\ Len(<< >>) = 0
    BY DEF Entries
  <1>5. /\ pc[s] = "ack" /\ Free(m) /\ Goto(s, "release")
        /\ ackQue' = [ackQue EXCEPT ![claimed[s]] = << >>]
        /\ UNCHANGED <<recvQue, ackQueInUse, req, sent, claimed, tasks>>
    BY <1>1, <1>2, <1>3, <1>4 DEF TakeAck
  <1>6. \A i \in AckQues : ackQue'[i] = IF pc[s] = "ack" /\ i = claimed[s] THEN << >> ELSE ackQue[i]
    BY <1>5 DEF IInv, TypeOK
  <1>7. /\ PlacesOK' /\ LoopOK' /\ BackOK'
        /\ pool' \subseteq Msgs /\ msg' \in [Msgs -> Fields]
        /\ \A u \in Senders : u # s =>
              (ToPut(u) \/ pc[u] = "ack" => sent[u] # m /\ msg'[sent[u]] = msg[sent[u]])
    BY <1>1, <1>2, <1>3, <1>4, <1>5, <1>6, FreedFacts
  <1>8. TypeOK'
    <2>1. ackQue' \in [AckQues -> Seq(Msgs)] /\ \A i \in AckQues : Len(ackQue'[i]) <= AckQueLen
      <3>1. ackQue' \in [AckQues -> Seq(Msgs)]
        BY <1>4, <1>5 DEF IInv, TypeOK
      <3>2. AckQueLen >= 0
        BY MbxAssumption
      <3> QED BY <1>4, <1>6, <3>1, <3>2 DEF IInv, TypeOK
    <2>2. pc' \in [Senders -> {"idle", "claim", "alloc", "put", "ack", "release", "putCmd"}]
      BY <1>5 DEF IInv, TypeOK, Goto
    <2> QED BY <1>5, <1>7, <2>1, <2>2 DEF IInv, TypeOK, tasks
  <1>9. ASSUME NEW u \in Senders PROVE CallOK(u)'
    BY <1>5, <1>7 DEF IInv, TypeOK, CallOK, Goto, ToPut
  <1>10. OwnerOK'
    BY <1>5 DEF IInv, OwnerOK
  <1> QED BY <1>7, <1>8, <1>9, <1>10 DEF IInv

LEMMA PutCmdIInv ==
  ASSUME IInv, NEW s \in Senders, PutCmd(s) PROVE IInv'
  <1> DEFINE b == req[s].to
  <1>1. /\ pc[s] = "putCmd" /\ ToPut(s) /\ b \in Boxes /\ sent[s] \in Msgs
        /\ ~GoesBack(sent[s])
        /\ Goto(s, "idle")
        /\ req' = [req EXCEPT ![s] = NoRequest]
        /\ sent' = [sent EXCEPT ![s] = NoMsg]
        /\ claimed' = [claimed EXCEPT ![s] = NoAckQue]
        /\ UNCHANGED <<ackQue, ackQueInUse, tasks>>
    BY DEF IInv, TypeOK, CallOK, Requests, PutCmd, Return, ToPut, GoesBack
  <1>2. claimed' = claimed
    BY <1>1 DEF IInv, TypeOK, CallOK
  <1>3. \A t \in Senders : t # s => sent'[t] = sent[t] /\ claimed'[t] = claimed[t]
    BY <1>1 DEF IInv, TypeOK
  <1>4. CASE HasRoom(b) /\ UNCHANGED <<pool, msg>>
             /\ recvQue' = [recvQue EXCEPT ![b] = Append(@, sent[s])]
    <2>1. /\ PlacesOK' /\ LoopOK' /\ BackOK'
          /\ \A c \in Boxes : recvQue'[c] \in Seq(Msgs) /\ Len(recvQue'[c]) <= RecvQueLen
      BY <1>1, <1>3, <1>4, PutFacts
    <2>2. TypeOK'
      BY <1>1, <1>2, <1>4, <2>1, NoRequestOK DEF IInv, TypeOK, Goto, tasks
    <2>3. ASSUME NEW t \in Senders PROVE CallOK(t)'
      BY <1>1, <1>2, <1>3, <1>4, NoRequestOK DEF IInv, TypeOK, CallOK, Goto, ToPut
    <2>4. OwnerOK'
      BY <1>1, <1>2 DEF IInv, OwnerOK
    <2> QED BY <2>1, <2>2, <2>3, <2>4 DEF IInv
  <1>5. CASE Free(sent[s]) /\ UNCHANGED recvQue
    <2>1. pc[s] # "ack" /\ \A i \in AckQues :
             ackQue'[i] = IF pc[s] = "ack" /\ i = claimed[s] THEN << >> ELSE ackQue[i]
      BY <1>1
    <2>2. /\ PlacesOK' /\ LoopOK' /\ BackOK'
          /\ pool' \subseteq Msgs /\ msg' \in [Msgs -> Fields]
          /\ \A u \in Senders : u # s =>
                (ToPut(u) \/ pc[u] = "ack" => sent[u] # sent[s] /\ msg'[sent[u]] = msg[sent[u]])
      BY <1>1, <1>3, <1>5, <2>1, FreedFacts
    <2>3. TypeOK'
      BY <1>1, <1>2, <1>5, <2>2, NoRequestOK DEF IInv, TypeOK, Goto, tasks
    <2>4. ASSUME NEW t \in Senders PROVE CallOK(t)'
      BY <1>1, <1>2, <1>3, <2>2, NoRequestOK DEF IInv, TypeOK, CallOK, Goto, ToPut
    <2>5. OwnerOK'
      BY <1>1, <1>2 DEF IInv, OwnerOK
    <2> QED BY <2>2, <2>3, <2>4, <2>5 DEF IInv
  <1> QED BY <1>4, <1>5 DEF PutCmd, Refused

(***************************************************************************)
(* A link settles a message: it goes to the queue of the sender that waits *)
(* for it, which has room, or it becomes free.                              *)
(***************************************************************************)
LEMMA BackTo ==
  ASSUME IInv, NEW b \in Boxes, NEW m \in Msgs, Taken(b, m), GoesBack(m)
  PROVE  /\ msg[m].ackQue \in AckQues /\ ackQue[msg[m].ackQue] = << >>
         /\ \E s \in Senders : AwaitedBy(m, s)
  <1>1. PICK kind \in [Msgs -> Kinds], who \in [Msgs -> Owners] :
             Placed(kind, who) /\ Somewhere(kind, who)
    BY DEF IInv, PlacesOK
  <1>2. PICK s \in Senders : AwaitedBy(m, s)
    BY DEF IInv, BackOK
  <1>3. msg[m].ackQue \in AckQues
    BY DEF IInv, TypeOK, Fields, GoesBack
  <1>4. kind[m] \in {"recv", "held"}
    BY <1>1 DEF Placed, Taken
  <1>5. ASSUME ackQue[msg[m].ackQue] # << >> PROVE FALSE
    <2>1. PICK t \in Senders : /\ pc[t] = "ack" /\ claimed[t] = msg[m].ackQue
                               /\ ackQue[msg[m].ackQue] = <<sent[t]>>
      BY <1>3, <1>5 DEF IInv, BackOK
    <2>2. t = s /\ sent[t] = m
      BY <1>2, <1>3, <2>1, MbxAssumption DEF AwaitedBy, IInv, OwnerOK, NoAckQue
    <2>3. m \in Entries(ackQue[msg[m].ackQue])
      BY <2>1, <2>2 DEF Entries
    <2> QED BY <1>1, <1>3, <1>4, <2>3 DEF Placed
  <1> QED BY <1>2, <1>3, <1>5

LEMMA SettleFacts ==
  ASSUME IInv, NEW b \in Boxes, NEW m \in Msgs, Taken(b, m), AckOrFree(m),
         UNCHANGED <<ackQueInUse, senders>>,
         \A c \in Boxes, x \in Msgs :
            /\ held'[c] = x <=> (held[c] = x /\ x # m)
            /\ x \in Entries(recvQue'[c]) <=> (x \in Entries(recvQue[c]) /\ x # m)
  PROVE  /\ PlacesOK' /\ OwnerOK' /\ BackOK' /\ \A s \in Senders : CallOK(s)'
         /\ pool' \subseteq Msgs /\ msg' \in [Msgs -> Fields]
         /\ ackQue' \in [AckQues -> Seq(Msgs)] /\ \A i \in AckQues : Len(ackQue'[i]) <= AckQueLen
  <1>1. PICK kind \in [Msgs -> Kinds], who \in [Msgs -> Owners] :
             Placed(kind, who) /\ Somewhere(kind, who)
    BY DEF IInv, PlacesOK
  <1>2. UNCHANGED <<pc, req, sent, claimed>>
    BY DEF senders
  <1>3. kind[m] \in {"recv", "held"}
    BY <1>1 DEF Placed, Taken
  <1>4. OwnerOK'
    BY <1>2 DEF IInv, OwnerOK
  <1>5. \A c \in Boxes, x \in Msgs : Taken(c, x)' <=> (Taken(c, x) /\ x # m)
    BY DEF Taken
  <1>6. /\ \A c \in Boxes, x \in Msgs : x # m =>
              /\ held'[c] = x <=> held[c] = x
              /\ x \in Entries(recvQue'[c]) <=> x \in Entries(recvQue[c])
        /\ \A c \in Boxes : held'[c] # m /\ m \notin Entries(recvQue'[c])
    OBVIOUS
  <1>7. CASE GoesBack(m)
    <2> DEFINE i == msg[m].ackQue
    <2>1. i \in AckQues /\ ackQue[i] = << >>
      BY <1>7, BackTo
    <2>2. PICK s \in Senders : AwaitedBy(m, s)
      BY <1>7, BackTo
    <2>3. /\ ackQue' = [ackQue EXCEPT ![i] = <<m>>] /\ UNCHANGED <<pool, msg>>
      BY <1>7, <2>1 DEF AckOrFree
    <2>4. /\ ackQue'[i] = <<m>> /\ \A j \in AckQues : j # i => ackQue'[j] = ackQue[j]
      BY <2>1, <2>3 DEF IInv, TypeOK
    <2>5. <<m>> \in Seq(Msgs) /\ Len(<<m>>) = 1 /\ Entries(<<m>>) = {m}
      BY DEF Entries
    <2>6. ackQue' \in [AckQues -> Seq(Msgs)] /\ \A j \in AckQues : Len(ackQue'[j]) <= AckQueLen
      <3>1. ackQue' \in [AckQues -> Seq(Msgs)]
        BY <2>1, <2>3, <2>5 DEF IInv, TypeOK
      <3>2. 1 <= AckQueLen
        BY MbxAssumption
      <3> QED BY <2>4, <2>5, <3>1, <3>2 DEF IInv, TypeOK
    <2>7. PlacesOK'
      <3> DEFINE k1 == [kind EXCEPT ![m] = "ack"]
      <3>1. PICK w1 \in [Msgs -> Owners] : w1[m] = i /\ \A x \in Msgs : x # m => w1[x] = who[x]
        <4>1. [who EXCEPT ![m] = i] \in [Msgs -> Owners]
          BY <2>1 DEF Owners
        <4> QED BY <4>1
      <3>2. k1 \in [Msgs -> Kinds]
        BY DEF Kinds
      <3>3. k1[m] = "ack" /\ \A x \in Msgs : x # m => k1[x] = kind[x]
        OBVIOUS
      <3> HIDE DEF k1
      <3>4. Somewhere(k1, w1)'
        BY <1>1, <2>1, <3>1, <3>3 DEF Somewhere
      <3>5. Placed(k1, w1)'
        <4>1. \A x \in Msgs : k1[x] = "pool" <=> x \in pool'
          BY <1>1, <1>3, <2>3, <3>3 DEF Placed
        <4>2. /\ \A x \in Msgs, c \in Boxes : (k1[x] = "recv" /\ w1[x] = c) <=> x \in Entries(recvQue'[c])
              /\ \A x \in Msgs, c \in Boxes : (k1[x] = "held" /\ w1[x] = c) <=> held'[c] = x
          BY <1>1, <1>6, <3>1, <3>3 DEF Placed
        <4>3. \A x \in Msgs, j \in AckQues : (k1[x] = "ack" /\ w1[x] = j) <=> x \in Entries(ackQue'[j])
          <5>1. \A x \in Msgs, j \in AckQues : j # i /\ x # m =>
                   ((k1[x] = "ack" /\ w1[x] = j) <=> x \in Entries(ackQue'[j]))
            BY <1>1, <2>4, <3>1, <3>3 DEF Placed
          <5>2. \A j \in AckQues : j # i => m \notin Entries(ackQue[j])
            BY <1>1, <1>3 DEF Placed
          <5>3. \A x \in Msgs : x # m => ~(kind[x] = "ack" /\ who[x] = i)
            BY <1>1, <2>1, EmptyQueue DEF Placed
          <5> QED BY <2>1, <2>4, <2>5, <3>1, <3>3, <5>1, <5>2, <5>3
        <4>4. \A x \in Msgs, t \in Senders :
                 (k1[x] = "sent" /\ w1[x] = t) <=> (ToPut(t)' /\ sent'[t] = x)
          BY <1>1, <1>2, <1>3, <3>1, <3>3 DEF Placed, ToPut
        <4>5. \A t \in Senders :
                 pc'[t] = "ack" => sent'[t] \in Msgs /\ k1[sent'[t]] \in {"recv", "ack", "held"}
          BY <1>1, <1>2, <3>3 DEF Placed
        <4> QED BY <4>1, <4>2, <4>3, <4>4, <4>5 DEF Placed
      <3> QED BY <3>2, <3>4, <3>5 DEF PlacesOK
    <2>8. BackOK'
      <3>1. ASSUME NEW c \in Boxes, NEW x \in Msgs, Taken(c, x)', GoesBack(x)'
            PROVE  \E t \in Senders : AwaitedBy(x, t)'
        BY <1>2, <1>5, <2>3, <3>1 DEF IInv, BackOK, AwaitedBy, GoesBack
      <3>2. ASSUME NEW j \in AckQues, ackQue'[j] # << >>
            PROVE  \E t \in Senders : pc'[t] = "ack" /\ claimed'[t] = j /\ ackQue'[j] = <<sent'[t]>>
        <4>1. CASE j = i
          BY <1>2, <2>2, <2>4, <4>1 DEF AwaitedBy
        <4>2. CASE j # i
          BY <1>2, <2>4, <3>2, <4>2 DEF IInv, BackOK
        <4> QED BY <4>1, <4>2
      <3> QED BY <3>1, <3>2 DEF BackOK
    <2>9. \A t \in Senders : CallOK(t)'
      BY <1>2, <2>3 DEF IInv, CallOK, ToPut
    <2> QED BY <1>4, <2>3, <2>6, <2>7, <2>8, <2>9 DEF IInv, TypeOK
  <1>8. CASE ~GoesBack(m)
    <2>1. pool' = pool \cup {m} /\ msg' = [msg EXCEPT ![m] = Blank] /\ UNCHANGED ackQue
      BY <1>8 DEF AckOrFree, Free
    <2>2. ASSUME NEW t \in Senders, ToPut(t) \/ pc[t] = "ack" PROVE sent[t] # m
      <3>1. CASE ToPut(t)
        BY <1>1, <1>3, <3>1 DEF Placed
      <3>2. CASE pc[t] = "ack"
        BY <1>8, <3>2 DEF IInv, CallOK, GoesBack
      <3> QED BY <2>2, <3>1, <3>2
    <2>3. PlacesOK'
      <3> DEFINE k1 == [kind EXCEPT ![m] = "pool"]
      <3>1. k1 \in [Msgs -> Kinds]
        BY DEF Kinds
      <3>2. k1[m] = "pool" /\ \A x \in Msgs : x # m => k1[x] = kind[x]
        OBVIOUS
      <3> HIDE DEF k1
      <3>3. Somewhere(k1, who)'
        BY <1>1, <3>2 DEF Somewhere
      <3>4. Placed(k1, who)'
        <4>1. \A x \in Msgs : k1[x] = "pool" <=> x \in pool'
          BY <1>1, <2>1, <3>2 DEF Placed
        <4>2. /\ \A x \in Msgs, c \in Boxes : (k1[x] = "recv" /\ who[x] = c) <=> x \in Entries(recvQue'[c])
              /\ \A x \in Msgs, c \in Boxes : (k1[x] = "held" /\ who[x] = c) <=> held'[c] = x
              /\ \A x \in Msgs, j \in AckQues : (k1[x] = "ack" /\ who[x] = j) <=> x \in Entries(ackQue'[j])
          BY <1>1, <1>3, <1>6, <2>1, <3>2 DEF Placed
        <4>3. \A x \in Msgs, t \in Senders :
                 (k1[x] = "sent" /\ who[x] = t) <=> (ToPut(t)' /\ sent'[t] = x)
          BY <1>1, <1>2, <1>3, <2>2, <3>2 DEF Placed, ToPut
        <4>4. \A t \in Senders :
                 pc'[t] = "ack" => sent'[t] \in Msgs /\ k1[sent'[t]] \in {"recv", "ack", "held"}
          BY <1>1, <1>2, <2>2, <3>2 DEF Placed
        <4> QED BY <4>1, <4>2, <4>3, <4>4 DEF Placed
      <3> QED BY <3>1, <3>3, <3>4 DEF PlacesOK
    <2>4. \A x \in Msgs : x # m => msg'[x] = msg[x]
      BY <2>1 DEF IInv, TypeOK
    <2>5. BackOK'
      <3>1. ASSUME NEW c \in Boxes, NEW x \in Msgs, Taken(c, x)', GoesBack(x)'
            PROVE  \E t \in Senders : AwaitedBy(x, t)'
        <4>1. x # m /\ Taken(c, x) /\ GoesBack(x) /\ msg'[x] = msg[x]
          BY <1>5, <2>4, <3>1 DEF GoesBack
        <4> QED BY <1>2, <4>1 DEF IInv, BackOK, AwaitedBy
      <3>2. \A j \in AckQues : ackQue'[j] # << >> =>
              \E t \in Senders : pc'[t] = "ack" /\ claimed'[t] = j /\ ackQue'[j] = <<sent'[t]>>
        BY <1>2, <2>1 DEF IInv, BackOK
      <3> QED BY <3>1, <3>2 DEF BackOK
    <2>6. ASSUME NEW t \in Senders PROVE CallOK(t)'
      <3>1. ToPut(t) \/ pc[t] = "ack" => msg'[sent[t]] = msg[sent[t]]
        BY <1>1, <2>2, <2>4 DEF IInv, CallOK, Placed
      <3> QED BY <1>2, <3>1 DEF IInv, CallOK, ToPut
    <2> QED BY <1>4, <2>1, <2>3, <2>5, <2>6, NoRequestOK DEF IInv, TypeOK
  <1> QED BY <1>7, <1>8

(* What is taken from a mailbox is no longer in it.                         *)
LEMMA DequeueFacts ==
  ASSUME IInv, NEW b \in Boxes, recvQue[b] # << >>, Dequeue(b)
  PROVE  LET m == Head(recvQue[b]) IN
         /\ m \in Msgs /\ Taken(b, m)
         /\ recvQue' \in [Boxes -> Seq(Msgs)]
         /\ \A c \in Boxes : Len(recvQue'[c]) <= RecvQueLen /\ NoDup(recvQue'[c])
         /\ \A c \in Boxes, x \in Msgs :
               x \in Entries(recvQue'[c]) <=> (x \in Entries(recvQue[c]) /\ x # m)
         /\ \A c \in Boxes : held[c] # m
  <1> DEFINE m == Head(recvQue[b])
             q == recvQue[b]
  <1>1. q \in Seq(Msgs) /\ q # << >> /\ NoDup(q) /\ Len(q) <= RecvQueLen
    BY DEF IInv, TypeOK, LoopOK
  <1>2. /\ Tail(q) \in Seq(Msgs) /\ Len(Tail(q)) = Len(q) - 1 /\ m \in Msgs
        /\ Entries(q) = Entries(Tail(q)) \cup {m}
        /\ NoDup(Tail(q)) /\ m \notin Entries(Tail(q))
    BY <1>1, GetElem
  <1>3. /\ recvQue' = [recvQue EXCEPT ![b] = Tail(q)]
        /\ recvQue'[b] = Tail(q) /\ \A c \in Boxes : c # b => recvQue'[c] = recvQue[c]
    BY DEF IInv, TypeOK, Dequeue
  <1>4. PICK kind \in [Msgs -> Kinds], who \in [Msgs -> Owners] :
             Placed(kind, who) /\ Somewhere(kind, who)
    BY DEF IInv, PlacesOK
  <1>5. kind[m] = "recv" /\ who[m] = b
    BY <1>2, <1>4 DEF Placed
  <1>6. \A c \in Boxes : held[c] # m /\ (c # b => m \notin Entries(recvQue[c]))
    BY <1>2, <1>4, <1>5 DEF Placed
  <1>7. \A c \in Boxes : Len(recvQue'[c]) <= RecvQueLen /\ NoDup(recvQue'[c])
    <2>1. Len(q) \in Nat /\ RecvQueLen \in Nat
      BY <1>1, LenProperties, MbxAssumption
    <2> QED BY <1>1, <1>2, <1>3, <2>1 DEF IInv, TypeOK, LoopOK
  <1>8. \A c \in Boxes, x \in Msgs :
               x \in Entries(recvQue'[c]) <=> (x \in Entries(recvQue[c]) /\ x # m)
    BY <1>2, <1>3, <1>6
  <1>9. recvQue' \in [Boxes -> Seq(Msgs)]
    BY <1>2, <1>3 DEF IInv, TypeOK
  <1>10. Taken(b, m)
    BY <1>2 DEF Taken
  <1> QED BY <1>2, <1>6, <1>7, <1>8, <1>9, <1>10

LEMMA ReceiveIInv ==
  ASSUME IInv, NEW b \in Boxes, Receive(b) PROVE IInv'
  <1> DEFINE q == recvQue[b]
  <1>0. PICK m \in Msgs : m = Head(recvQue[b])
    BY DequeueFacts DEF Receive
  <1>1. /\ loop[b] = "recv" /\ recvQue[b] # << >> /\ Dequeue(b)
        /\ held' = [held EXCEPT ![b] = m]
        /\ loop' = [loop EXCEPT ![b] = IF msg[m].cmd = ExitCmd THEN "exit" ELSE "handle"]
        /\ UNCHANGED <<pool, msg, ackQue, ackQueInUse, pc, req, sent, claimed, awaited>>
    BY <1>0 DEF Receive, senders
  <1>2. /\ Taken(b, m)
        /\ recvQue' \in [Boxes -> Seq(Msgs)]
        /\ \A c \in Boxes : Len(recvQue'[c]) <= RecvQueLen /\ NoDup(recvQue'[c])
        /\ \A c \in Boxes, x \in Msgs :
              x \in Entries(recvQue'[c]) <=> (x \in Entries(recvQue[c]) /\ x # m)
        /\ \A c \in Boxes : held[c] # m
    BY <1>0, <1>1, DequeueFacts
  <1>3. /\ held'[b] = m /\ held[b] \notin Msgs
        /\ \A c \in Boxes : c # b => held'[c] = held[c] /\ loop'[c] = loop[c]
        /\ loop'[b] \in {"exit", "handle"}
    BY <1>1 DEF IInv, TypeOK, LoopOK
  <1>4. TypeOK'
    BY <1>1, <1>2 DEF IInv, TypeOK
  <1>5. PlacesOK'
    <2>1. PICK kind \in [Msgs -> Kinds], who \in [Msgs -> Owners] :
               Placed(kind, who) /\ Somewhere(kind, who)
      BY DEF IInv, PlacesOK
    <2> DEFINE k1 == [kind EXCEPT ![m] = "held"]
               w1 == [who EXCEPT ![m] = b]
    <2>2. k1 \in [Msgs -> Kinds] /\ w1 \in [Msgs -> Owners]
      BY DEF Kinds, Owners
    <2>3. /\ k1[m] = "held" /\ w1[m] = b
          /\ \A x \in Msgs : x # m => k1[x] = kind[x] /\ w1[x] = who[x]
      OBVIOUS
    <2> HIDE DEF k1, w1
    <2>4. Somewhere(k1, w1)'
      BY <2>1, <2>3 DEF Somewhere
    <2>5. kind[m] = "recv"
      BY <1>2, <2>1 DEF Placed, Taken
    <2>6. Placed(k1, w1)'
      <3>1. \A x \in Msgs : k1[x] = "pool" <=> x \in pool'
        BY <1>1, <2>1, <2>3, <2>5 DEF Placed
      <3>2. \A x \in Msgs, c \in Boxes : (k1[x] = "recv" /\ w1[x] = c) <=> x \in Entries(recvQue'[c])
        BY <1>2, <2>1, <2>3 DEF Placed
      <3>3. \A x \in Msgs, i \in AckQues : (k1[x] = "ack" /\ w1[x] = i) <=> x \in Entries(ackQue'[i])
        BY <1>1, <2>1, <2>3, <2>5 DEF Placed
      <3>4. \A x \in Msgs, c \in Boxes : (k1[x] = "held" /\ w1[x] = c) <=> held'[c] = x
        BY <1>2, <1>3, <2>1, <2>3 DEF Placed
      <3>5. /\ \A x \in Msgs, t \in Senders :
                  (k1[x] = "sent" /\ w1[x] = t) <=> (ToPut(t)' /\ sent'[t] = x)
            /\ \A t \in Senders :
                  pc'[t] = "ack" => sent'[t] \in Msgs /\ k1[sent'[t]] \in {"recv", "ack", "held"}
        BY <1>1, <2>1, <2>3, <2>5 DEF Placed, ToPut
      <3> QED BY <3>1, <3>2, <3>3, <3>4, <3>5 DEF Placed
    <2> QED BY <2>2, <2>4, <2>6 DEF PlacesOK
  <1>6. (\A s \in Senders : CallOK(s)') /\ OwnerOK'
    BY <1>1 DEF IInv, CallOK, OwnerOK, ToPut
  <1>7. LoopOK'
    BY <1>2, <1>3 DEF IInv, LoopOK
  <1>8. BackOK'
    <2>1. \A c \in Boxes, x \in Msgs : Taken(c, x)' => Taken(c, x)
      BY <1>2, <1>3 DEF Taken
    <2> QED BY <1>1, <2>1 DEF IInv, BackOK, AwaitedBy, GoesBack
  <1> QED BY <1>4, <1>5, <1>6, <1>7, <1>8 DEF IInv

LEMMA FinishIInv ==
  ASSUME IInv, NEW b \in Boxes, Finish(b) PROVE IInv'
  <1>0. PICK m \in Msgs : m = held[b]
    BY DEF IInv, LoopOK, Finish
  <1>1. /\ AckOrFree(m) /\ Taken(b, m)
        /\ held' = [held EXCEPT ![b] = NoMsg]
        /\ loop' = [loop EXCEPT ![b] = IF loop[b] = "exit" THEN "exited" ELSE "recv"]
        /\ UNCHANGED <<recvQue, ackQueInUse, senders, awaited>>
    BY <1>0 DEF Finish, Taken
  <1>2. PICK kind \in [Msgs -> Kinds], who \in [Msgs -> Owners] :
             Placed(kind, who) /\ Somewhere(kind, who)
    BY DEF IInv, PlacesOK
  <1>3. kind[m] = "held" /\ who[m] = b
    BY <1>0, <1>2 DEF Placed
  <1>4. \A c \in Boxes : m \notin Entries(recvQue[c]) /\ (held[c] = m => c = b)
    BY <1>2, <1>3 DEF Placed
  <1>5. /\ held'[b] = NoMsg /\ loop'[b] \in {"exited", "recv"}
        /\ \A c \in Boxes : c # b => held'[c] = held[c] /\ loop'[c] = loop[c]
    BY <1>1 DEF IInv, TypeOK
  <1>6. \A c \in Boxes, x \in Msgs :
            /\ held'[c] = x <=> (held[c] = x /\ x # m)
            /\ x \in Entries(recvQue'[c]) <=> (x \in Entries(recvQue[c]) /\ x # m)
    BY <1>0, <1>1, <1>4, <1>5, MbxAssumption
  <1>7. /\ PlacesOK' /\ OwnerOK' /\ BackOK' /\ \A s \in Senders : CallOK(s)'
        /\ pool' \subseteq Msgs /\ msg' \in [Msgs -> Fields]
        /\ ackQue' \in [AckQues -> Seq(Msgs)] /\ \A i \in AckQues : Len(ackQue'[i]) <= AckQueLen
    BY <1>1, <1>6, SettleFacts
  <1>8. TypeOK'
    BY <1>1, <1>7 DEF IInv, TypeOK, senders
  <1>9. LoopOK'
    BY <1>1, <1>5, MbxAssumption DEF IInv, LoopOK
  <1> QED BY <1>7, <1>8, <1>9 DEF IInv

(* The first message of a mailbox is settled.                               *)
LEMMA SettleFirst ==
  ASSUME IInv, NEW b \in Boxes, recvQue[b] # << >>, AckOrFree(Head(recvQue[b])), Dequeue(b),
         UNCHANGED <<ackQueInUse, senders, held>>, loop[b] \in {"handle", "wait"},
         NEW place \in {"handle", "wait"}, loop' = [loop EXCEPT ![b] = place],
         awaited' \in [Boxes -> Cmds \cup {ExitCmd}]
  PROVE  IInv'
  <1>0. PICK m \in Msgs : m = Head(recvQue[b])
    BY DequeueFacts
  <1>1. /\ Taken(b, m)
        /\ recvQue' \in [Boxes -> Seq(Msgs)]
        /\ \A c \in Boxes : Len(recvQue'[c]) <= RecvQueLen /\ NoDup(recvQue'[c])
        /\ \A c \in Boxes, x \in Msgs :
              x \in Entries(recvQue'[c]) <=> (x \in Entries(recvQue[c]) /\ x # m)
        /\ \A c \in Boxes : held[c] # m
    BY <1>0, DequeueFacts
  <1>2. \A c \in Boxes, x \in Msgs :
            /\ held'[c] = x <=> (held[c] = x /\ x # m)
            /\ x \in Entries(recvQue'[c]) <=> (x \in Entries(recvQue[c]) /\ x # m)
    BY <1>1
  <1>3. /\ PlacesOK' /\ OwnerOK' /\ BackOK' /\ \A s \in Senders : CallOK(s)'
        /\ pool' \subseteq Msgs /\ msg' \in [Msgs -> Fields]
        /\ ackQue' \in [AckQues -> Seq(Msgs)] /\ \A i \in AckQues : Len(ackQue'[i]) <= AckQueLen
    BY <1>0, <1>1, <1>2, SettleFacts
  <1>4. TypeOK'
    BY <1>1, <1>3 DEF IInv, TypeOK, senders
  <1>5. \A c \in Boxes : loop'[c] = IF c = b THEN place ELSE loop[c]
    BY DEF IInv, TypeOK
  <1>6. LoopOK'
    BY <1>1, <1>5 DEF IInv, LoopOK
  <1> QED BY <1>3, <1>4, <1>6 DEF IInv

LEMMA FlushIInv ==
  ASSUME IInv, NEW b \in Boxes, Flush(b) PROVE IInv'
  <1>1. /\ recvQue[b] # << >> /\ AckOrFree(Head(recvQue[b])) /\ Dequeue(b)
        /\ UNCHANGED <<ackQueInUse, senders, held>> /\ loop[b] \in {"handle", "wait"}
        /\ loop[b] = "handle" /\ loop' = loop /\ awaited' = awaited
    BY DEF Flush, tasks
  <1>2. loop' = [loop EXCEPT ![b] = "handle"] /\ awaited' \in [Boxes -> Cmds \cup {ExitCmd}]
    BY <1>1 DEF IInv, TypeOK
  <1> QED BY <1>1, <1>2, SettleFirst

LEMMA WaitRecvIInv ==
  ASSUME IInv, NEW b \in Boxes, WaitRecv(b) PROVE IInv'
  <1>1. /\ recvQue[b] # << >> /\ AckOrFree(Head(recvQue[b])) /\ Dequeue(b)
        /\ UNCHANGED <<ackQueInUse, senders, held>> /\ loop[b] \in {"handle", "wait"}
    BY DEF WaitRecv
  <1>2. awaited' \in [Boxes -> Cmds \cup {ExitCmd}]
    BY DEF IInv, TypeOK, WaitRecv
  <1>3. \/ loop' = [loop EXCEPT ![b] = "handle"]
        \/ loop' = [loop EXCEPT ![b] = "wait"]
    BY DEF IInv, TypeOK, WaitRecv
  <1> QED BY <1>1, <1>2, <1>3, SettleFirst

(* A task that begins to wait or is deleted moves no message.               *)
LEMMA LoopIInv ==
  ASSUME IInv, NEW b \in Boxes, NEW place, loop' = [loop EXCEPT ![b] = place],
         \/ loop[b] = "handle" /\ place = "wait"
         \/ loop[b] = "exited" /\ place = "deleted",
         awaited' \in [Boxes -> Cmds \cup {ExitCmd}],
         UNCHANGED <<pool, msg, recvQue, ackQue, ackQueInUse, senders, held>>
  PROVE  IInv'
  <1>1. TypeOK'
    BY DEF IInv, TypeOK, senders
  <1>2. PlacesOK'
    <2>1. PICK kind \in [Msgs -> Kinds], who \in [Msgs -> Owners] :
               Placed(kind, who) /\ Somewhere(kind, who)
      BY DEF IInv, PlacesOK
    <2>2. Placed(kind, who)' /\ Somewhere(kind, who)'
      BY <2>1 DEF Placed, Somewhere, ToPut, senders
    <2> QED BY <2>2 DEF PlacesOK
  <1>3. \A s \in Senders : CallOK(s)'
    BY DEF IInv, CallOK, ToPut, senders
  <1>4. \A c \in Boxes : loop'[c] = IF c = b THEN place ELSE loop[c]
    BY DEF IInv, TypeOK
  <1>5. LoopOK'
    BY <1>4 DEF IInv, LoopOK
  <1>6. OwnerOK' /\ BackOK'
    BY DEF IInv, OwnerOK, BackOK, Taken, AwaitedBy, GoesBack, senders
  <1> QED BY <1>1, <1>2, <1>3, <1>5, <1>6 DEF IInv

(* A sender that waits moves no message.                                    *)
LEMMA SleepIInv ==
  ASSUME IInv, UNCHANGED <<pool, msg, recvQue, ackQue, ackQueInUse, senders, tasks>> PROVE IInv'
  <1> USE DEF senders, tasks
  <1>1. PlacesOK'
    BY DEF IInv, PlacesOK, Placed, Somewhere, ToPut
  <1>2. TypeOK' /\ LoopOK' /\ OwnerOK'
    BY DEF IInv, TypeOK, LoopOK, OwnerOK
  <1>3. BackOK' /\ \A s \in Senders : CallOK(s)'
    BY DEF IInv, BackOK, CallOK, Taken, AwaitedBy, GoesBack, ToPut
  <1> QED BY <1>1, <1>2, <1>3 DEF IInv

LEMMA NextIInv == IInv /\ [Next]_vars => IInv'
  <1> SUFFICES ASSUME IInv, [Next]_vars PROVE IInv'
    OBVIOUS
  <1>1. ASSUME NEW s \in Senders, NEW r \in Requests, SendMsg(s, r) PROVE IInv'
    BY <1>1, SendMsgIInv
  <1>2. ASSUME NEW s \in Senders, NEW b \in Boxes, NEW c \in Cmds \cup {ExitCmd}, SendCmd(s, b, c)
        PROVE  IInv'
    BY <1>2, SendCmdIInv
  <1>3. ASSUME NEW s \in Senders, SenderStep(s) PROVE IInv'
    <2>1. ASSUME NotReady(s) \/ Pend(s) PROVE IInv'
      BY <2>1, SleepIInv DEF NotReady, Pend
    <2> QED
      BY <1>3, <2>1, ClaimAckQueIInv, AllocMsgIInv, PutMsgIInv, TakeAckIInv, ReleaseAckQueIInv,
         PutCmdIInv
      DEF SenderStep
  <1>4. ASSUME NEW b \in Boxes, TaskStep(b) PROVE IInv'
    BY <1>4, ReceiveIInv, FinishIInv, WaitRecvIInv DEF TaskStep
  <1>5. ASSUME NEW b \in Boxes, Flush(b) PROVE IInv'
    BY <1>5, FlushIInv
  <1>6. ASSUME NEW b \in Boxes, DeleteTask(b) PROVE IInv'
    <2>1. awaited' \in [Boxes -> Cmds \cup {ExitCmd}]
      BY <1>6 DEF DeleteTask, IInv, TypeOK
    <2> QED BY <1>6, <2>1, LoopIInv DEF DeleteTask
  <1>7. ASSUME NEW b \in Boxes, NEW c \in WaitCmds, WaitCmd(b, c) PROVE IInv'
    <2>1. awaited' \in [Boxes -> Cmds \cup {ExitCmd}]
      BY <1>7, MbxAssumption DEF WaitCmd, IInv, TypeOK
    <2> QED BY <1>7, <2>1, LoopIInv DEF WaitCmd
  <1>8. CASE UNCHANGED vars
    BY <1>8, SleepIInv DEF vars
  <1>9. Alive \subseteq Boxes /\ Cmds \cup (IF CanDelete THEN {ExitCmd} ELSE {}) \subseteq Cmds \cup {ExitCmd}
    BY DEF Alive
  <1> QED BY <1>1, <1>2, <1>3, <1>4, <1>5, <1>6, <1>7, <1>8, <1>9 DEF Next, Call

(***************************************************************************)
(* Who waits, and for what.                                                 *)
(***************************************************************************)
LEMMA PostWaits ==
  ASSUME WaitsOK, NEW Q, Q \subseteq Boxes \cup {PoolSem}, Post(Q)
  PROVE  /\ sleep' \in [Senders -> {"awake", "pend", "asleep"}]
         /\ token' \subseteq Boxes \cup {PoolSem}
         /\ \A s \in Senders : sleep'[s] # "awake" => sleep[s] # "awake"
  BY DEF WaitsOK, Post, Posted

LEMMA NextWaitsOK == IInv /\ WaitsOK /\ [Next]_vars => WaitsOK'
  <1> SUFFICES ASSUME IInv, WaitsOK, [Next]_vars PROVE WaitsOK'
    OBVIOUS
  <1>0. \A m \in Msgs : Freed(m) \subseteq {PoolSem}
    BY DEF Freed
  <1>1. ASSUME UNCHANGED waits, NEW s \in Senders, NEW place, Goto(s, place), sleep[s] = "awake"
        PROVE  WaitsOK'
    BY <1>1 DEF WaitsOK, waits, Goto, IInv, TypeOK
  <1>2. ASSUME NEW s \in Senders, sleep[s] = "awake", NEW place, Goto(s, place), Post({PoolSem})
        PROVE  WaitsOK'
    BY <1>2, PostWaits DEF WaitsOK, Goto, IInv, TypeOK
  <1>3. ASSUME UNCHANGED pc, NEW Q, Q \subseteq Boxes \cup {PoolSem}, Post(Q) PROVE WaitsOK'
    BY <1>3, PostWaits DEF WaitsOK
  <1>4. ASSUME UNCHANGED <<pc, waits>> PROVE WaitsOK'
    BY <1>4 DEF WaitsOK, waits
  <1>5. ASSUME NEW s \in Senders, Call(s) PROVE WaitsOK'
    <2>1. /\ UNCHANGED waits /\ pc[s] = "idle"
          /\ \E place \in {"claim", "alloc", "putCmd"} : Goto(s, place)
      BY <1>5 DEF Call, SendMsg, SendCmd
    <2>2. sleep[s] = "awake"
      BY <2>1 DEF WaitsOK
    <2> QED BY <1>1, <2>1, <2>2
  <1>6. ASSUME NEW s \in Senders, SenderStep(s) PROVE WaitsOK'
    <2>1. CASE ClaimAckQue(s) \/ AllocMsg(s) \/ PutMsg(s) \/ ReleaseAckQue(s)
      <3>1. sleep[s] = "awake"
        BY <2>1 DEF WaitsOK, ClaimAckQue, AllocMsg, PutMsg, ReleaseAckQue
      <3>2. UNCHANGED waits /\ \E place \in {"idle", "alloc", "put", "ack", "release"} : Goto(s, place)
        <4>1. CASE ClaimAckQue(s)
          BY <4>1 DEF ClaimAckQue, Return
        <4>2. CASE AllocMsg(s)
          BY <4>2 DEF AllocMsg
        <4>3. CASE PutMsg(s)
          BY <4>3 DEF PutMsg, Return
        <4>4. CASE ReleaseAckQue(s)
          BY <4>4 DEF ReleaseAckQue, Return
        <4> QED BY <2>1, <4>1, <4>2, <4>3, <4>4
      <3> QED BY <1>1, <3>1, <3>2
    <2>2. CASE NotReady(s)
      BY <2>2 DEF NotReady, WaitsOK, senders
    <2>3. CASE Pend(s)
      BY <2>3 DEF Pend, WaitsOK, senders
    <2>4. CASE TakeAck(s)
      <3>1. sleep[s] = "awake" /\ Post({PoolSem})
        BY <2>4 DEF TakeAck, WaitsOK
      <3>2. \E place \in {"release", "ack"} : Goto(s, place)
        BY <2>4 DEF TakeAck
      <3> QED BY <1>2, <3>1, <3>2
    <2>5. CASE PutCmd(s)
      <3>1. sleep[s] = "awake" /\ Goto(s, "idle") /\ (UNCHANGED waits \/ Post({PoolSem}))
        BY <2>5 DEF PutCmd, WaitsOK, Return
      <3> QED BY <1>1, <1>2, <3>1
    <2> QED BY <1>6, <2>1, <2>2, <2>3, <2>4, <2>5 DEF SenderStep
  <1>7. ASSUME NEW b \in Boxes, TaskStep(b) \/ Flush(b) \/ DeleteTask(b) PROVE WaitsOK'
    <2>1. CASE Receive(b)
      BY <1>3, <2>1 DEF Receive, senders
    <2>2. CASE Finish(b)
      <3>1. held[b] \in Msgs
        BY <2>2 DEF Finish, IInv, LoopOK
      <3> QED BY <1>0, <1>3, <2>2, <3>1 DEF Finish, senders
    <2>3. CASE WaitRecv(b) \/ Flush(b)
      <3>1. Post({b} \cup Freed(Head(recvQue[b]))) /\ UNCHANGED pc /\ recvQue[b] # << >>
        BY <2>3 DEF WaitRecv, Flush, senders
      <3>2. Head(recvQue[b]) \in Msgs
        BY <3>1, DequeueFacts, GetElem DEF IInv, TypeOK
      <3> QED BY <1>0, <1>3, <3>1, <3>2
    <2>4. CASE DeleteTask(b)
      BY <1>4, <2>4 DEF DeleteTask, senders
    <2> QED BY <1>7, <2>1, <2>2, <2>3, <2>4 DEF TaskStep
  <1>8. ASSUME NEW b \in Boxes, NEW c \in WaitCmds, WaitCmd(b, c) PROVE WaitsOK'
    BY <1>4, <1>8 DEF WaitCmd, senders
  <1>9. CASE UNCHANGED vars
    BY <1>4, <1>9 DEF vars, senders
  <1> QED BY <1>5, <1>6, <1>7, <1>8, <1>9 DEF Next

(***************************************************************************)
(* What follows from the invariant.                                         *)
(***************************************************************************)
LEMMA IInvOnePlace == IInv /\ WaitsOK => OnePlace
  <1> SUFFICES ASSUME IInv, WaitsOK, NEW m \in Msgs PROVE Cardinality(Places(m)) = 1
    BY DEF OnePlace, IInv
  <1>1. PICK kind \in [Msgs -> Kinds], who \in [Msgs -> Owners] :
             Placed(kind, who) /\ Somewhere(kind, who)
    BY DEF IInv, PlacesOK
  <1> DEFINE InRecv == {p \in {"recv"} \X Boxes \X (1 .. RecvQueLen) :
                          p[3] <= Len(recvQue[p[2]]) /\ recvQue[p[2]][p[3]] = m}
             InAck == {p \in {"ack"} \X AckQues \X (1 .. AckQueLen) :
                          p[3] <= Len(ackQue[p[2]]) /\ ackQue[p[2]][p[3]] = m}
             InPool == {<<"pool", 0, 0>> : x \in pool \cap {m}}
             InHand == {<<"held", b, 0>> : b \in {x \in Boxes : held[x] = m}}
             InSent == {<<"sent", s, 0>> : s \in {x \in Senders :
                           pc[x] \in {"put", "putCmd"} /\ sent[x] = m}}
  <1>2. Places(m) = InPool \cup InRecv \cup InAck \cup InHand \cup InSent
    BY DEF Places
  <1>3. \A p \in InRecv : /\ p = <<"recv", p[2], p[3]>> /\ p[2] \in Boxes
                          /\ p[3] \in 1 .. Len(recvQue[p[2]])
                          /\ recvQue[p[2]][p[3]] = m
    <2>1. \A b \in Boxes : Len(recvQue[b]) \in Nat
      BY LenProperties DEF IInv, TypeOK
    <2> QED BY <2>1
  <1>4. \A p \in InAck : /\ p = <<"ack", p[2], p[3]>> /\ p[2] \in AckQues
                         /\ p[3] \in 1 .. Len(ackQue[p[2]])
                         /\ ackQue[p[2]][p[3]] = m
    <2>1. \A i \in AckQues : Len(ackQue[i]) \in Nat
      BY LenProperties DEF IInv, TypeOK
    <2> QED BY <2>1
  <1>5. InPool # {} => kind[m] = "pool"
    BY <1>1 DEF Placed
  <1>6. \A p \in InRecv : kind[m] = "recv" /\ who[m] = p[2]
    BY <1>1, <1>3 DEF Placed, Entries
  <1>7. \A p \in InAck : kind[m] = "ack" /\ who[m] = p[2]
    BY <1>1, <1>4 DEF Placed, Entries
  <1>8. \A p \in InHand : kind[m] = "held" /\ p = <<"held", who[m], 0>>
    BY <1>1 DEF Placed
  <1>9. \A p \in InSent : kind[m] = "sent" /\ p = <<"sent", who[m], 0>>
    BY <1>1 DEF Placed, ToPut
  <1> HIDE DEF InRecv, InAck, InPool, InHand, InSent
  <1> SUFFICES \E p \in Places(m) : \A q \in Places(m) : q = p
    BY OneElem
  <1>10. CASE kind[m] = "pool"
    <2>1. Places(m) = InPool
      BY <1>2, <1>6, <1>7, <1>8, <1>9, <1>10
    <2>2. <<"pool", 0, 0>> \in InPool /\ \A q \in InPool : q = <<"pool", 0, 0>>
      BY <1>1, <1>10 DEF Placed, InPool
    <2> QED BY <2>1, <2>2
  <1>11. CASE kind[m] = "recv"
    <2>1. Places(m) = InRecv
      BY <1>2, <1>5, <1>7, <1>8, <1>9, <1>11
    <2>2. who[m] \in Boxes /\ m \in Entries(recvQue[who[m]])
      BY <1>1, <1>11 DEF Placed, Somewhere
    <2>3. PICK k \in 1 .. Len(recvQue[who[m]]) : recvQue[who[m]][k] = m
      BY <2>2 DEF Entries
    <2>4. <<"recv", who[m], k>> \in InRecv
      <3>1. k \in 1 .. RecvQueLen /\ k <= Len(recvQue[who[m]])
        <4>1. Len(recvQue[who[m]]) \in Nat /\ Len(recvQue[who[m]]) <= RecvQueLen /\ RecvQueLen \in Nat
          BY <2>2, LenProperties, MbxAssumption DEF IInv, TypeOK
        <4> QED BY <4>1
      <3> QED BY <2>2, <2>3, <3>1 DEF InRecv
    <2>5. ASSUME NEW p \in InRecv PROVE p = <<"recv", who[m], k>>
      <3>1. p[2] = who[m] /\ p[3] = k
        BY <1>3, <1>6, <2>2, <2>3 DEF IInv, LoopOK, NoDup
      <3> QED BY <1>3, <3>1
    <2> QED BY <2>1, <2>4, <2>5
  <1>12. CASE kind[m] = "ack"
    <2>1. Places(m) = InAck
      BY <1>2, <1>5, <1>6, <1>8, <1>9, <1>12
    <2>2. who[m] \in AckQues /\ m \in Entries(ackQue[who[m]])
      BY <1>1, <1>12 DEF Placed, Somewhere
    <2>3. \E s \in Senders : ackQue[who[m]] = <<sent[s]>>
      <3>1. ackQue[who[m]] # << >>
        BY <2>2, EmptyQueue
      <3> QED BY <2>2, <3>1 DEF IInv, BackOK
    <2>4. ackQue[who[m]] = <<m>> /\ Len(ackQue[who[m]]) = 1
      <3>1. \A y, z : y \in Entries(<<z>>) => y = z
        BY DEF Entries
      <3> QED BY <2>2, <2>3, <3>1
    <2>5. <<"ack", who[m], 1>> \in InAck
      <3>1. 1 \in 1 .. AckQueLen
        BY MbxAssumption
      <3>2. 1 <= Len(ackQue[who[m]]) /\ ackQue[who[m]][1] = m
        BY <2>4
      <3> QED BY <2>2, <3>1, <3>2 DEF InAck
    <2>6. ASSUME NEW p \in InAck PROVE p = <<"ack", who[m], 1>>
      BY <1>4, <1>7, <2>4
    <2> QED BY <2>1, <2>5, <2>6
  <1>13. CASE kind[m] = "held"
    <2>1. Places(m) = InHand
      BY <1>2, <1>5, <1>6, <1>7, <1>9, <1>13
    <2>2. <<"held", who[m], 0>> \in InHand
      BY <1>1, <1>13 DEF Placed, Somewhere, InHand
    <2> QED BY <1>8, <2>1, <2>2
  <1>14. CASE kind[m] = "sent"
    <2>1. Places(m) = InSent
      BY <1>2, <1>5, <1>6, <1>7, <1>8, <1>14
    <2>2. <<"sent", who[m], 0>> \in InSent
      BY <1>1, <1>14 DEF Placed, Somewhere, InSent, ToPut
    <2> QED BY <1>9, <2>1, <2>2
  <1> QED BY <1>10, <1>11, <1>12, <1>13, <1>14 DEF Kinds

LEMMA IInvOwnAck == IInv => OwnAck
  <1> SUFFICES ASSUME IInv, NEW i \in AckQues
               PROVE  /\ Cardinality(Claims(i)) = IF ackQueInUse[i] THEN 1 ELSE 0
                      /\ ackQue[i] # << >> =>
                            \E s \in Claims(i) : pc[s] = "ack" /\ ackQue[i] = <<sent[s]>>
    BY DEF OwnAck
  <1>1. \A s \in Senders : s \in Claims(i) <=> claimed[s] = i
    BY MbxAssumption DEF Claims, IInv, CallOK, NoAckQue
  <1>2. CASE ackQueInUse[i]
    <2>1. PICK s \in Senders : claimed[s] = i
      BY <1>2 DEF IInv, OwnerOK
    <2>2. s \in Claims(i) /\ \A t \in Claims(i) : t = s
      BY <1>1, <2>1, MbxAssumption DEF Claims, IInv, OwnerOK, NoAckQue
    <2> QED BY <1>1, <1>2, <2>2, OneElem DEF IInv, BackOK
  <1>3. CASE ~ackQueInUse[i]
    <2>1. Claims(i) = {}
      BY <1>1, <1>3 DEF Claims, IInv, OwnerOK
    <2> QED BY <1>1, <1>3, <2>1, NoneInSet DEF IInv, BackOK
  <1> QED BY <1>2, <1>3

LEMMA IInvAckHasRoom == IInv => AckHasRoom
  <1> SUFFICES ASSUME IInv, NEW b \in Boxes, NEW m \in Unsettled(b), GoesBack(m)
               PROVE  Len(ackQue[msg[m].ackQue]) < AckQueLen
    BY DEF AckHasRoom
  <1>1. m \in Msgs /\ Taken(b, m)
    <2>1. recvQue[b] \in Seq(Msgs) /\ held[b] \in Msgs \cup {NoMsg}
      BY DEF IInv, TypeOK
    <2>2. DOMAIN recvQue[b] = 1 .. Len(recvQue[b])
      BY <2>1, LenProperties
    <2>3. Entries(recvQue[b]) \subseteq Msgs
      BY <2>1, SomeElem
    <2> QED BY <2>1, <2>2, <2>3 DEF Unsettled, Taken, Entries
  <1>2. ackQue[msg[m].ackQue] = << >>
    BY <1>1, BackTo
  <1> QED BY <1>2, EmptyQueue, MbxAssumption

(***************************************************************************)
(* The theorems.                                                            *)
(***************************************************************************)
THEOREM Invariant == Spec => []IInv
  <1> QED BY InitIInv, NextIInv, PTL DEF Spec

(* No message is lost, and none is freed twice, whatever fails on the way.  *)
THEOREM OnePlaceAlways == Spec => []OnePlace
  <1>1. Init => WaitsOK
    BY DEF Init, WaitsOK
  <1> QED BY <1>1, Invariant, NextWaitsOK, IInvOnePlace, PTL DEF Spec

(* The shared sender mailbox never hands out another sender's answer.       *)
THEOREM OwnAckAlways == Spec => []OwnAck
  BY Invariant, IInvOwnAck, PTL

(* No link ever waits for room to acknowledge a message.                    *)
THEOREM AckHasRoomAlways == Spec => []AckHasRoom
  BY Invariant, IInvAckHasRoom, PTL
=============================================================================
