-------------------------- MODULE MergeLink_proofs --------------------------
(* Proofs about MergeLink for any tree of merges, any channels, frames and   *)
(* tasks.                                                                    *)
EXTENDS MergeLink, SequenceTheorems, FiniteSetTheorems, TLAPS

(***************************************************************************)
(* Sequences: what they hold, and that they hold nothing twice.            *)
(***************************************************************************)
LEMMA EmptyHolds ==
  ASSUME NEW T
  PROVE  << >> \in Seq(T) /\ ToSet(<< >>) = {} /\ IsInjective(<< >>)
  BY DEF ToSet, IsInjective

LEMMA SeqHolds ==
  ASSUME NEW T, NEW s \in Seq(T)
  PROVE  /\ ToSet(s) \subseteq T /\ DOMAIN s = 1 .. Len(s) /\ Len(s) \in Nat
         /\ ToSet(s) = {} <=> s = << >>
  <1>1. DOMAIN s = 1 .. Len(s) /\ Len(s) \in Nat /\ \A k \in 1 .. Len(s) : s[k] \in T
    BY LenProperties, ElementOfSeq
  <1>2. ToSet(s) \subseteq T
    BY <1>1 DEF ToSet
  <1>3. s # << >> => 1 \in DOMAIN s
    BY <1>1, EmptySeq
  <1>4. ToSet(s) = {} <=> s = << >>
    BY <1>3, EmptyHolds DEF ToSet
  <1> QED BY <1>1, <1>2, <1>4

LEMMA ConcatHolds ==
  ASSUME NEW T, NEW s \in Seq(T), NEW u \in Seq(T)
  PROVE  /\ s \o u \in Seq(T) /\ ToSet(s \o u) = ToSet(s) \cup ToSet(u)
         /\ IsInjective(s) /\ IsInjective(u) /\ ToSet(s) \cap ToSet(u) = {}
               => IsInjective(s \o u)
  <1>1. /\ s \o u \in Seq(T) /\ Len(s \o u) = Len(s) + Len(u)
        /\ \A k \in 1 .. Len(s) + Len(u) :
              (s \o u)[k] = IF k <= Len(s) THEN s[k] ELSE u[k - Len(s)]
    BY ConcatProperties
  <1>2. PICK n, k \in Nat : n = Len(s) /\ k = Len(u)
    BY SeqHolds
  <1>3. DOMAIN s = 1 .. n /\ DOMAIN u = 1 .. k /\ DOMAIN (s \o u) = 1 .. n + k
    BY <1>1, <1>2, SeqHolds
  <1>4. PICK c : c = s \o u
    OBVIOUS
  <1>5. /\ \A j \in 1 .. n : j \in 1 .. n + k /\ c[j] = s[j]
        /\ \A j \in 1 .. k : n + j \in 1 .. n + k /\ c[n + j] = u[j]
    <2>1. ASSUME NEW j \in 1 .. n PROVE j \in 1 .. n + k /\ c[j] = s[j]
      BY <1>1, <1>2, <1>4
    <2>2. ASSUME NEW j \in 1 .. k PROVE n + j \in 1 .. n + k /\ c[n + j] = u[j]
      <3>1. n + j \in 1 .. n + k /\ ~(n + j <= n) /\ (n + j) - n = j
        BY <1>2
      <3> QED BY <1>1, <1>2, <1>4, <3>1
    <2> QED BY <2>1, <2>2
  <1>6. \A j \in 1 .. n + k : j \in 1 .. n \/ (j - n \in 1 .. k /\ n + (j - n) = j)
    BY <1>2
  <1>7. ToSet(c) = ToSet(s) \cup ToSet(u)
    <2>1. ASSUME NEW x \in ToSet(c) PROVE x \in ToSet(s) \cup ToSet(u)
      <3>1. PICK j \in 1 .. n + k : x = c[j]
        BY <1>3, <1>4 DEF ToSet
      <3>2. CASE j \in 1 .. n
        BY <1>3, <1>5, <3>1, <3>2 DEF ToSet
      <3>3. CASE j - n \in 1 .. k /\ n + (j - n) = j
        <4>1. x = u[j - n]
          BY <1>5, <3>1, <3>3
        <4> QED BY <1>3, <3>3, <4>1 DEF ToSet
      <3> QED BY <1>6, <3>2, <3>3
    <2>2. ToSet(s) \subseteq ToSet(c) /\ ToSet(u) \subseteq ToSet(c)
      BY <1>3, <1>4, <1>5 DEF ToSet
    <2> QED BY <2>1, <2>2
  <1>8. ASSUME IsInjective(s), IsInjective(u), ToSet(s) \cap ToSet(u) = {}
        PROVE  IsInjective(c)
    <2>1. \A i \in 1 .. n, j \in 1 .. k : s[i] # u[j]
      BY <1>3, <1>8 DEF ToSet
    <2>2. ASSUME NEW a \in 1 .. n + k, NEW b \in 1 .. n + k, c[a] = c[b] PROVE a = b
      <3>1. CASE a \in 1 .. n /\ b \in 1 .. n
        BY <1>3, <1>5, <1>8, <2>2, <3>1 DEF IsInjective
      <3>2. ASSUME NEW i \in 1 .. k, NEW j \in 1 .. k, a = n + i, b = n + j PROVE a = b
        <4>1. u[i] = u[j]
          BY <1>5, <2>2, <3>2
        <4> QED BY <1>3, <1>8, <3>2, <4>1 DEF IsInjective
      <3>3. ASSUME NEW i \in 1 .. n, NEW j \in 1 .. k PROVE c[i] # c[n + j]
        BY <1>5, <2>1
      <3> QED BY <1>6, <2>2, <3>1, <3>2, <3>3
    <2> QED BY <1>3, <1>4, <2>2 DEF IsInjective
  <1> QED BY <1>1, <1>4, <1>7, <1>8

LEMMA AppendHolds ==
  ASSUME NEW T, NEW s \in Seq(T), NEW x \in T
  PROVE  /\ Append(s, x) \in Seq(T) /\ ToSet(Append(s, x)) = ToSet(s) \cup {x}
         /\ Len(Append(s, x)) = Len(s) + 1 /\ Append(s, x)[Len(s) + 1] = x
         /\ \A k \in 1 .. Len(s) : Append(s, x)[k] = s[k]
         /\ IsInjective(s) /\ x \notin ToSet(s) => IsInjective(Append(s, x))
  <1>1. /\ Append(s, x) \in Seq(T) /\ Len(Append(s, x)) = Len(s) + 1
        /\ \A k \in 1 .. Len(s) : Append(s, x)[k] = s[k]
        /\ Append(s, x)[Len(s) + 1] = x
    BY AppendProperties
  <1>2. PICK n \in Nat : n = Len(s)
    BY SeqHolds
  <1>3. DOMAIN s = 1 .. n /\ DOMAIN Append(s, x) = 1 .. n + 1 /\ 1 .. n + 1 = (1 .. n) \cup {n + 1}
    BY <1>1, <1>2, SeqHolds
  <1>4. ToSet(Append(s, x)) = ToSet(s) \cup {x}
    BY <1>1, <1>2, <1>3 DEF ToSet
  <1>5. IsInjective(s) /\ x \notin ToSet(s) => IsInjective(Append(s, x))
    BY <1>1, <1>2, <1>3 DEF ToSet, IsInjective
  <1> QED BY <1>1, <1>4, <1>5

LEMMA TailHolds ==
  ASSUME NEW T, NEW s \in Seq(T), s # << >>
  PROVE  /\ Tail(s) \in Seq(T) /\ Head(s) \in T /\ Head(s) \in ToSet(s)
         /\ IsInjective(s) => IsInjective(Tail(s)) /\ ToSet(Tail(s)) = ToSet(s) \ {Head(s)}
  <1>1. /\ Tail(s) \in Seq(T) /\ Len(Tail(s)) = Len(s) - 1 /\ Head(s) = s[1]
        /\ \A k \in 1 .. Len(s) - 1 : Tail(s)[k] = s[k + 1]
    BY HeadTailProperties
  <1>2. PICK n \in Nat : n = Len(s)
    BY SeqHolds
  <1>3. n >= 1 /\ DOMAIN s = 1 .. n /\ DOMAIN Tail(s) = 1 .. n - 1
    BY <1>1, <1>2, SeqHolds, EmptySeq
  <1>4. Head(s) \in ToSet(s) /\ ToSet(s) \subseteq T
    <2>1. 1 \in DOMAIN s
      BY <1>3
    <2> QED BY <1>1, <2>1, SeqHolds DEF ToSet
  <1>5. ASSUME IsInjective(s) PROVE IsInjective(Tail(s)) /\ ToSet(Tail(s)) = ToSet(s) \ {Head(s)}
    <2>1. /\ \A k \in 1 .. n - 1 : k + 1 \in 1 .. n /\ k + 1 # 1
          /\ \A k \in 1 .. n : k = 1 \/ (k - 1 \in 1 .. n - 1 /\ (k - 1) + 1 = k)
          /\ 1 \in 1 .. n
      BY <1>3
    <2>2. PICK r : r = Tail(s)
      OBVIOUS
    <2>3. DOMAIN r = 1 .. n - 1 /\ \A k \in 1 .. n - 1 : r[k] = s[k + 1]
      BY <1>1, <1>2, <1>3, <2>2
    <2>4. \A j, k \in 1 .. n : s[j] = s[k] => j = k
      BY <1>3, <1>5 DEF IsInjective
    <2>5. IsInjective(r)
      <3>1. ASSUME NEW j \in 1 .. n - 1, NEW k \in 1 .. n - 1, r[j] = r[k] PROVE j = k
        <4>1. j + 1 \in 1 .. n /\ k + 1 \in 1 .. n /\ s[j + 1] = s[k + 1]
          BY <2>1, <2>3, <3>1
        <4>2. j + 1 = k + 1
          BY <2>4, <4>1
        <4> QED BY <4>2
      <3> QED BY <2>3, <3>1 DEF IsInjective
    <2>6. \A k \in 1 .. n - 1 : r[k] \in ToSet(s) \ {Head(s)}
      <3>1. ASSUME NEW k \in 1 .. n - 1 PROVE s[k + 1] \in ToSet(s) /\ s[k + 1] # s[1]
        <4>1. k + 1 \in 1 .. n /\ k + 1 # 1 /\ 1 \in 1 .. n
          BY <2>1
        <4> QED BY <1>3, <2>4, <4>1 DEF ToSet
      <3> QED BY <1>1, <2>3, <3>1
    <2>7. ASSUME NEW k \in 1 .. n, s[k] # Head(s) PROVE s[k] \in ToSet(r)
      <3>1. k - 1 \in 1 .. n - 1 /\ (k - 1) + 1 = k
        BY <1>1, <2>1, <2>7
      <3>2. r[k - 1] = s[k]
        BY <2>3, <3>1
      <3> QED BY <2>3, <3>1, <3>2 DEF ToSet
    <2> QED BY <1>3, <2>2, <2>3, <2>5, <2>6, <2>7 DEF ToSet
  <1> QED BY <1>1, <1>4, <1>5

(* A set as a sequence.                                                     *)
LEMMA SetToSeqHolds ==
  ASSUME NEW S, IsFiniteSet(S)
  PROVE  /\ SetToSeq(S) \in Seq(S) /\ ToSet(SetToSeq(S)) = S
         /\ IsInjective(SetToSeq(S))
  <1>1. PICK n \in Nat : n = Cardinality(S)
    BY FS_CardinalityType
  <1>2. \E f : f \in [1 .. n -> S] /\ IsInjective(f)
    BY <1>1, FS_CardinalityType DEF ExistsBijection, Bijection, Injection
  <1>3. SetToSeq(S) \in [1 .. n -> S] /\ IsInjective(SetToSeq(S))
    BY <1>1, <1>2 DEF SetToSeq
  <1>4. SetToSeq(S) \in Injection(1 .. n, S)
    BY <1>3 DEF Injection
  <1>5. IsFiniteSet(1 .. n) /\ Cardinality(1 .. n) = n
    BY FS_Interval
  <1>6. SetToSeq(S) \in Surjection(1 .. n, S)
    BY <1>1, <1>4, <1>5, FS_Injection
  <1>7. ToSet(SetToSeq(S)) = S
    BY <1>3, <1>6 DEF ToSet, Surjection
  <1> QED BY <1>1, <1>3, <1>7

(***************************************************************************)
(* The numbering of the channels of a merge: the output channels are the    *)
(* places in the order of the pairs <<input, channel>>, so each number is    *)
(* that of exactly one pair.                                                *)
(***************************************************************************)
LEMMA BeforeOrder ==
  ASSUME NEW p \in Nat \X Nat, NEW q \in Nat \X Nat, NEW r \in Nat \X Nat
  PROVE  /\ ~Before(p, p)
         /\ p # q => Before(p, q) \/ Before(q, p)
         /\ Before(p, q) /\ Before(q, r) => Before(p, r)
  <1>1. PICK a, b \in Nat : p = <<a, b>>
    OBVIOUS
  <1>2. PICK c, d \in Nat : q = <<c, d>>
    OBVIOUS
  <1>3. PICK e, f \in Nat : r = <<e, f>>
    OBVIOUS
  <1>4. /\ Before(p, p) <=> a < a \/ (a = a /\ b < b)
        /\ Before(p, q) <=> a < c \/ (a = c /\ b < d)
        /\ Before(q, p) <=> c < a \/ (c = a /\ d < b)
        /\ Before(q, r) <=> c < e \/ (c = e /\ d < f)
        /\ Before(p, r) <=> a < e \/ (a = e /\ b < f)
    BY <1>1, <1>2, <1>3 DEF Before
  <1>5. p # q => a # c \/ b # d
    BY <1>1, <1>2
  <1> QED BY <1>4, <1>5

LEMMA Ranks ==
  ASSUME NEW P \in SUBSET (Nat \X Nat), IsFiniteSet(P)
  PROVE  /\ Cardinality(P) \in Nat
         /\ \A p \in P : NumberOf(P, p) \in 0 .. Cardinality(P) - 1
         /\ \A p, q \in P : NumberOf(P, p) = NumberOf(P, q) => p = q
         /\ \A k \in 0 .. Cardinality(P) - 1 : \E p \in P : NumberOf(P, p) = k
  <1> DEFINE Lower(p) == {q \in P : Before(q, p)}
  <1>1. PICK n \in Nat : n = Cardinality(P)
    BY FS_CardinalityType
  <1>2. ASSUME NEW p \in P
        PROVE  /\ IsFiniteSet(Lower(p)) /\ NumberOf(P, p) = Cardinality(Lower(p))
               /\ NumberOf(P, p) \in 0 .. n - 1
    <2>1. Lower(p) \in SUBSET P /\ Lower(p) # P
      BY BeforeOrder
    <2>2. /\ IsFiniteSet(Lower(p)) /\ Cardinality(Lower(p)) <= n
          /\ Cardinality(Lower(p)) # n
      BY <1>1, <2>1, FS_Subset
    <2>3. Cardinality(Lower(p)) \in Nat
      BY <2>2, FS_CardinalityType
    <2>4. NumberOf(P, p) = Cardinality(Lower(p))
      BY DEF NumberOf
    <2> QED BY <2>2, <2>3, <2>4
  <1>3. ASSUME NEW p \in P, NEW q \in P, Before(p, q) PROVE NumberOf(P, p) # NumberOf(P, q)
    <2>1. Lower(p) \in SUBSET Lower(q)
      BY <1>3, BeforeOrder
    <2>2. p \in Lower(q) /\ p \notin Lower(p)
      BY <1>3, BeforeOrder
    <2>3. Lower(p) # Lower(q)
      BY <2>2
    <2> QED BY <1>2, <2>1, <2>3, FS_Subset
  <1>4. ASSUME NEW p \in P, NEW q \in P, NumberOf(P, p) = NumberOf(P, q) PROVE p = q
    BY <1>3, <1>4, BeforeOrder
  <1>5. ASSUME NEW k \in 0 .. n - 1 PROVE \E p \in P : NumberOf(P, p) = k
    <2> DEFINE f == [p \in P |-> NumberOf(P, p)]
    <2>1. f \in Injection(P, 0 .. n - 1)
      BY <1>2, <1>4 DEF Injection, IsInjective
    <2>2. IsFiniteSet(0 .. n - 1) /\ Cardinality(0 .. n - 1) = n
      <3>1. Cardinality(0 .. n - 1) = IF 0 > n - 1 THEN 0 ELSE (n - 1) - 0 + 1
        BY FS_Interval
      <3> QED BY <3>1, FS_Interval
    <2>3. f \in Surjection(P, 0 .. n - 1)
      BY <1>1, <2>1, <2>2, FS_Injection
    <2> QED BY <2>3 DEF Surjection
  <1> QED BY <1>1, <1>2, <1>4, <1>5

(* The channels of the inputs.                                              *)
LEMMA MergedChannels ==
  ASSUME NEW m \in Merges, numCh \in [Links -> Int]
  PROVE  /\ Merged(m) \in SUBSET (Nat \X Nat) /\ IsFiniteSet(Merged(m))
         /\ \A i \in DOMAIN InQue[m] : \A c \in 0 .. numCh[InQue[m][i]] - 1 : <<i, c>> \in Merged(m)
         /\ \A p \in Merged(m) : \E i \in DOMAIN InQue[m] :
               \E c \in 0 .. numCh[InQue[m][i]] - 1 : p = <<i, c>>
  <1>1. PICK n \in Nat : DOMAIN InQue[m] = 1 .. n
    BY MergeAssumption, SeqHolds
  <1>2. \A i \in 1 .. n : InQue[m][i] \in Links
    BY <1>1, MergeAssumption, SeqHolds, ElementOfSeq
  <1>3. \A i \in 1 .. n : numCh[InQue[m][i]] \in Int
    BY <1>2
  <1>4. Merged(m) \in SUBSET (Nat \X Nat)
    BY <1>1, <1>3 DEF Merged, ChannelsOf
  <1>5. ASSUME NEW i \in 1 .. n PROVE IsFiniteSet(ChannelsOf(m, i))
    <2>1. PICK u \in Int : u = numCh[InQue[m][i]] - 1
      BY <1>3
    <2>2. IsFiniteSet({i})
      BY FS_Singleton
    <2>3. IsFiniteSet(0 .. u)
      BY FS_Interval
    <2> QED BY <2>1, <2>2, <2>3, FS_Product DEF ChannelsOf
  <1>6. IsFiniteSet({ChannelsOf(m, i) : i \in 1 .. n})
    <2> DEFINE T == {ChannelsOf(m, i) : i \in 1 .. n}
               f == [i \in 1 .. n |-> ChannelsOf(m, i)]
    <2>1. f \in Surjection(1 .. n, T)
      BY DEF Surjection
    <2>2. IsFiniteSet(1 .. n)
      BY FS_Interval
    <2> QED BY <2>1, <2>2, FS_Surjection
  <1>7. IsFiniteSet(Merged(m))
    BY <1>1, <1>5, <1>6, FS_UNION DEF Merged
  <1>8. ASSUME NEW i \in DOMAIN InQue[m], NEW c \in 0 .. numCh[InQue[m][i]] - 1
        PROVE  <<i, c>> \in Merged(m)
    BY DEF Merged, ChannelsOf
  <1>9. ASSUME NEW p \in Merged(m)
        PROVE  \E i \in DOMAIN InQue[m] : \E c \in 0 .. numCh[InQue[m][i]] - 1 : p = <<i, c>>
    BY DEF Merged, ChannelsOf
  <1> QED BY <1>4, <1>7, <1>8, <1>9

(***************************************************************************)
(* Places of frames.  A list of a merge that a call has still to hand on is *)
(* one; a call's own list is another.  What the lists of a merge hold at    *)
(* other times means nothing.                                               *)
(***************************************************************************)
IdleAt(s) == [kind |-> "idle", of |-> s, at |-> 0]
QueueOf(l) == [kind |-> "queue", of |-> l, at |-> 0]
AtSink == [kind |-> "sink", of |-> Sink, at |-> 0]
CallOf(t, k) == [kind |-> "call", of |-> t, at |-> k]
ListOf(m, i) == [kind |-> "list", of |-> m, at |-> i]

Places ==
    {IdleAt(s) : s \in Sources} \cup {QueueOf(l) : l \in Links} \cup {AtSink}
    \cup {CallOf(t, k) : t \in Tasks, k \in Nat} \cup {ListOf(m, i) : m \in Merges, i \in Nat}

Idle(s) == {f \in Frames : <<s, f>> \in idle}
InCall(t, k) == IF k \in DOMAIN calls[t] THEN ToSet(calls[t][k].frames) ELSE {}
Sorting(m, i, t, k) ==
    calls[t][k].link = m /\ 1 <= calls[t][k].inQue /\ calls[t][k].inQue <= i
Live(m, i) == \E t \in Tasks : \E k \in DOMAIN calls[t] : Sorting(m, i, t, k)
InList(m, i) == IF i \in DOMAIN InQue[m] /\ Live(m, i) THEN ToSet(freeFrameList[m][i]) ELSE {}

Holds == [p \in Places |->
    CASE p.kind = "idle" -> Idle(p.of)
      [] p.kind = "queue" -> ToSet(outQue[p.of])
      [] p.kind = "sink" -> held
      [] p.kind = "call" -> InCall(p.of, p.at)
      [] p.kind = "list" -> InList(p.of, p.at)]

(* Each frame is in one place.                                              *)
OnePlace ==
    /\ \A p, q \in Places : p # q => Holds[p] \cap Holds[q] = {}
    /\ \A f \in Frames : \E p \in Places : f \in Holds[p]

LEMMA PlacesDiffer ==
  ASSUME NEW l, NEW k, NEW t, NEW j
  PROVE  /\ IdleAt(l) = IdleAt(t) <=> l = t
         /\ QueueOf(l) = QueueOf(t) <=> l = t
         /\ CallOf(l, k) = CallOf(t, j) <=> l = t /\ k = j
         /\ ListOf(l, k) = ListOf(t, j) <=> l = t /\ k = j
         /\ IdleAt(l) # QueueOf(t) /\ IdleAt(l) # AtSink /\ IdleAt(l) # CallOf(t, j)
         /\ IdleAt(l) # ListOf(t, j) /\ QueueOf(l) # AtSink /\ QueueOf(l) # CallOf(t, j)
         /\ QueueOf(l) # ListOf(t, j) /\ AtSink # CallOf(t, j) /\ AtSink # ListOf(t, j)
         /\ CallOf(l, k) # ListOf(t, j)
  BY DEF IdleAt, QueueOf, AtSink, CallOf, ListOf

LEMMA SomePlaces ==
  /\ \A s \in Sources : IdleAt(s) \in Places
  /\ \A l \in Links : QueueOf(l) \in Places
  /\ AtSink \in Places
  /\ \A t \in Tasks, k \in Nat : CallOf(t, k) \in Places
  /\ \A m \in Merges, i \in Nat : ListOf(m, i) \in Places
  BY DEF Places

LEMMA HoldsAt ==
  /\ \A s \in Sources : IdleAt(s) \in Places /\ Holds[IdleAt(s)] = Idle(s)
  /\ \A l \in Links : QueueOf(l) \in Places /\ Holds[QueueOf(l)] = ToSet(outQue[l])
  /\ AtSink \in Places /\ Holds[AtSink] = held
  /\ \A t \in Tasks, k \in Nat : CallOf(t, k) \in Places /\ Holds[CallOf(t, k)] = InCall(t, k)
  /\ \A m \in Merges, i \in Nat : ListOf(m, i) \in Places /\ Holds[ListOf(m, i)] = InList(m, i)
  <1>1. ASSUME NEW s \in Sources PROVE Holds[IdleAt(s)] = Idle(s)
    BY SomePlaces DEF Holds, IdleAt
  <1>2. ASSUME NEW l \in Links PROVE Holds[QueueOf(l)] = ToSet(outQue[l])
    BY SomePlaces DEF Holds, QueueOf
  <1>3. Holds[AtSink] = held
    BY SomePlaces DEF Holds, AtSink
  <1>4. ASSUME NEW t \in Tasks, NEW k \in Nat PROVE Holds[CallOf(t, k)] = InCall(t, k)
    BY SomePlaces DEF Holds, CallOf
  <1>5. ASSUME NEW m \in Merges, NEW i \in Nat PROVE Holds[ListOf(m, i)] = InList(m, i)
    BY SomePlaces DEF Holds, ListOf
  <1> QED BY <1>1, <1>2, <1>3, <1>4, <1>5, SomePlaces

LEMMA HoldsNext ==
  /\ \A s \in Sources : Holds'[IdleAt(s)] = Idle(s)'
  /\ \A l \in Links : Holds'[QueueOf(l)] = ToSet(outQue'[l])
  /\ Holds'[AtSink] = held'
  /\ \A t \in Tasks, k \in Nat : Holds'[CallOf(t, k)] = InCall(t, k)'
  /\ \A m \in Merges, i \in Nat : Holds'[ListOf(m, i)] = InList(m, i)'
  <1>1. ASSUME NEW s \in Sources PROVE Holds'[IdleAt(s)] = Idle(s)'
    BY SomePlaces DEF Holds, IdleAt
  <1>2. ASSUME NEW l \in Links PROVE Holds'[QueueOf(l)] = ToSet(outQue'[l])
    BY SomePlaces DEF Holds, QueueOf
  <1>3. Holds'[AtSink] = held'
    BY SomePlaces DEF Holds, AtSink
  <1>4. ASSUME NEW t \in Tasks, NEW k \in Nat PROVE Holds'[CallOf(t, k)] = InCall(t, k)'
    BY SomePlaces DEF Holds, CallOf
  <1>5. ASSUME NEW m \in Merges, NEW i \in Nat PROVE Holds'[ListOf(m, i)] = InList(m, i)'
    BY SomePlaces DEF Holds, ListOf
  <1> QED BY <1>1, <1>2, <1>3, <1>4, <1>5, SomePlaces

LEMMA PlaceCases ==
  ASSUME NEW p \in Places
  PROVE  \/ \E s \in Sources : p = IdleAt(s)
         \/ \E l \in Links : p = QueueOf(l)
         \/ p = AtSink
         \/ \E t \in Tasks, k \in Nat : p = CallOf(t, k)
         \/ \E m \in Merges, i \in Nat : p = ListOf(m, i)
  BY DEF Places

LEMMA WhereIs ==
  ASSUME NEW p \in Places, NEW f, f \in Holds[p]
  PROVE  \/ \E s \in Sources : p = IdleAt(s) /\ f \in Idle(s)
         \/ \E l \in Links : p = QueueOf(l) /\ f \in ToSet(outQue[l])
         \/ p = AtSink /\ f \in held
         \/ \E t \in Tasks, k \in Nat : p = CallOf(t, k) /\ f \in InCall(t, k)
         \/ \E m \in Merges, i \in Nat : p = ListOf(m, i) /\ f \in InList(m, i)
  <1>1. CASE \E s \in Sources : p = IdleAt(s)
    BY <1>1, HoldsAt
  <1>2. CASE \E l \in Links : p = QueueOf(l)
    BY <1>2, HoldsAt
  <1>3. CASE p = AtSink
    BY <1>3, HoldsAt
  <1>4. CASE \E t \in Tasks, k \in Nat : p = CallOf(t, k)
    BY <1>4, HoldsAt
  <1>5. CASE \E m \in Merges, i \in Nat : p = ListOf(m, i)
    BY <1>5, HoldsAt
  <1> QED BY <1>1, <1>2, <1>3, <1>4, <1>5, PlaceCases

(* All places but p and q hold what they held.                              *)
Others(p, q) ==
    /\ \A s \in Sources : IdleAt(s) \in {p, q} \/ Idle(s)' = Idle(s)
    /\ \A l \in Links : QueueOf(l) \in {p, q} \/ ToSet(outQue'[l]) = ToSet(outQue[l])
    /\ AtSink \in {p, q} \/ held' = held
    /\ \A t \in Tasks, k \in Nat : CallOf(t, k) \in {p, q} \/ InCall(t, k)' = InCall(t, k)
    /\ \A m \in Merges, i \in Nat : ListOf(m, i) \in {p, q} \/ InList(m, i)' = InList(m, i)

LEMMA OthersHold ==
  ASSUME NEW p \in Places, NEW q \in Places, Others(p, q), NEW r \in Places
  PROVE  r = p \/ r = q \/ Holds'[r] = Holds[r]
  <1>1. CASE \E s \in Sources : r = IdleAt(s)
    BY <1>1, HoldsAt, HoldsNext DEF Others
  <1>2. CASE \E l \in Links : r = QueueOf(l)
    BY <1>2, HoldsAt, HoldsNext DEF Others
  <1>3. CASE r = AtSink
    BY <1>3, HoldsAt, HoldsNext DEF Others
  <1>4. CASE \E t \in Tasks, k \in Nat : r = CallOf(t, k)
    BY <1>4, HoldsAt, HoldsNext DEF Others
  <1>5. CASE \E m \in Merges, i \in Nat : r = ListOf(m, i)
    BY <1>5, HoldsAt, HoldsNext DEF Others
  <1> QED BY <1>1, <1>2, <1>3, <1>4, <1>5, PlaceCases

(* What leaves one place enters another.                                    *)
LEMMA Move ==
  ASSUME OnePlace, NEW p \in Places, NEW q \in Places, p # q, NEW S \in SUBSET Holds[p],
         Others(p, q), Holds'[p] = Holds[p] \ S, Holds'[q] = Holds[q] \cup S
  PROVE  OnePlace'
  <1>1. ASSUME NEW a \in Places, NEW b \in Places, a # b, NEW f, f \in Holds'[a], f \in Holds'[b]
        PROVE  FALSE
    <2>1. /\ a = p \/ a = q \/ Holds'[a] = Holds[a]
          /\ b = p \/ b = q \/ Holds'[b] = Holds[b]
      BY OthersHold
    <2>2. /\ Holds[a] \cap Holds[b] = {} /\ Holds[p] \cap Holds[q] = {}
          /\ a # p => Holds[a] \cap Holds[p] = {}
          /\ b # p => Holds[b] \cap Holds[p] = {}
      BY <1>1 DEF OnePlace
    <2> QED BY <1>1, <2>1, <2>2
  <1>2. ASSUME NEW f \in Frames PROVE \E a \in Places : f \in Holds'[a]
    <2>1. PICK a \in Places : f \in Holds[a]
      BY DEF OnePlace
    <2>2. a = p \/ a = q \/ Holds'[a] = Holds[a]
      BY OthersHold
    <2> QED BY <2>1, <2>2
  <1> QED BY <1>1, <1>2 DEF OnePlace

(***************************************************************************)
(* The inductive invariant.  It is about an o that says of each channel of  *)
(* a link that has been created which source's channel it is: for a merge   *)
(* it is found when the merge is created, from that of its inputs.          *)
(***************************************************************************)
CallType == [link : Merges, frames : Seq(Frames), inQue : Nat]

Types ==
    /\ numCh \in [Links -> Int]
    /\ outChNum = [m \in Merges |-> outChNum[m]] /\ inChan = [m \in Merges |-> inChan[m]]
    /\ idle \in SUBSET (Sources \X Frames) /\ outQue \in [Links -> Seq(Frames)]
    /\ held \in SUBSET Frames
    /\ channelNum \in [Frames -> Int] /\ mergeChannelNum \in [Frames -> Int]
    /\ pc \in [Merges -> Nat] /\ lock \in [Merges -> Tasks \cup {NoTask}]
    /\ freeFrameList = [m \in Merges |-> freeFrameList[m]]
    /\ \A m \in Merges : freeFrameList[m] \in [DOMAIN InQue[m] -> Seq(Frames)]
    /\ calls \in [Tasks -> Seq(CallType)]

Chs(l) == 0 .. numCh[l] - 1
Created(l) == numCh[l] # -1

(* Its two tables are inverse to each other.                                *)
TableOf(o, m) ==
    /\ \A i \in DOMAIN InQue[m] :
          /\ InQue[m][i] # m /\ Created(InQue[m][i])
          /\ \A c \in Chs(InQue[m][i]) :
                outChNum[m][<<i, c>>] \in Chs(m) /\ inChan[m][outChNum[m][<<i, c>>]] = <<i, c>>
    /\ \A k \in Chs(m) : \E i \in DOMAIN InQue[m] : \E c \in Chs(InQue[m][i]) :
          inChan[m][k] = <<i, c>> /\ o[m][k] = o[InQue[m][i]][c]

(* No merge takes from the link yet: different channels of such links are   *)
(* different channels of the sources.  In the end only the root is left.    *)
Open(l) == Created(l) /\ \A m \in Merges : l \in ToSet(InQue[m]) => ~Created(m)

Tables(o) ==
    /\ \A s \in Sources : numCh[s] = Channels[s] /\ \A c \in Chs(s) : o[s][c] = <<s, c>>
    /\ \A m \in Merges : Created(m) => TableOf(o, m)
    /\ \A l, k \in Links : Open(l) /\ Open(k) =>
          \A c \in Chs(l), d \in Chs(k) : o[l][c] = o[k][d] => l = k /\ c = d

(* Until all links are created no frame leaves its source.                  *)
Quiet ==
    Ready \/ (held = {} /\ (\A l \in Links : outQue[l] = << >>) /\ \A t \in Tasks : calls[t] = << >>)

NoDups ==
    /\ \A l \in Links : IsInjective(outQue[l])
    /\ \A t \in Tasks : \A k \in DOMAIN calls[t] : IsInjective(calls[t][k].frames)
    /\ \A m \in Merges : \A i \in DOMAIN InQue[m] : IsInjective(freeFrameList[m][i])

(* A call that is past the lock has it; no task is twice in one merge.      *)
CallsOK == \A t \in Tasks : \A k \in DOMAIN calls[t] :
    /\ calls[t][k].inQue > 1 => calls[t][k].frames = << >>
    /\ calls[t][k].inQue >= 1 =>
          /\ lock[calls[t][k].link] = t
          /\ \A j \in DOMAIN calls[t] :
                calls[t][j].inQue >= 1 /\ calls[t][j].link = calls[t][k].link => j = k

(* Channel c of a link is that of the frame.                                *)
Is(o, l, c, f) == c \in Chs(l) /\ o[l][c] = <<SourceOf[f], ChannelOf[f]>>

Numbered(o) ==
    /\ \A s \in Sources : \A f \in Idle(s) : s = SourceOf[f] /\ channelNum[f] = ChannelOf[f]
    /\ \A l \in Links : \A f \in ToSet(outQue[l]) :
          Is(o, l, channelNum[f], f) /\ (l \in Merges => mergeChannelNum[f] = channelNum[f])
    /\ \A f \in held : Is(o, Root, channelNum[f], f) /\ mergeChannelNum[f] = channelNum[f]
    /\ \A t \in Tasks : \A k \in DOMAIN calls[t] : \A f \in ToSet(calls[t][k].frames) :
          Is(o, calls[t][k].link, mergeChannelNum[f], f)
    /\ \A m \in Merges, i \in Nat : \A f \in InList(m, i) :
          Is(o, InQue[m][i], channelNum[f], f) /\ mergeChannelNum[f] = channelNum[f]

Inv(o) == Types /\ Tables(o) /\ Quiet /\ OnePlace /\ NoDups /\ CallsOK /\ Numbered(o)

LEMMA Inputs ==
  ASSUME NEW m \in Merges
  PROVE  /\ InQue[m] \in Seq(Links) /\ DOMAIN InQue[m] = 1 .. Len(InQue[m]) /\ Len(InQue[m]) \in Nat
         /\ \A i \in DOMAIN InQue[m] :
               InQue[m][i] \in Links \ {Root} /\ i \in Nat /\ i >= 1
               /\ InQue[m][i] \in ToSet(InQue[m])
         /\ IsInjective(InQue[m])
  <1>1. InQue[m] \in Seq(Links \ {Root})
    BY MergeAssumption
  <1>2. DOMAIN InQue[m] = 1 .. Len(InQue[m]) /\ Len(InQue[m]) \in Nat
        /\ \A i \in DOMAIN InQue[m] : InQue[m][i] \in Links \ {Root}
    BY <1>1, SeqHolds, ElementOfSeq
  <1>3. InQue[m] \in Seq(Links)
    BY <1>1
  <1> QED BY <1>2, <1>3, MergeAssumption DEF ToSet

(* Nothing but the initial states' place.                                   *)
LEMMA InitInv == Init => \E o : Inv(o)
  <1> SUFFICES ASSUME Init PROVE \E o : Inv(o)
    OBVIOUS
  <1>1. PICK o : o = [l \in Links |-> [c \in Nat |-> <<l, c>>]]
    OBVIOUS
  <1>2. /\ Sources \cap Merges = {} /\ Channels \in [Sources -> Nat]
        /\ SourceOf \in [Frames -> Sources]
        /\ ChannelOf \in [Frames -> Int]
    BY MergeAssumption
  <1>3. Types
    <2>2. numCh \in [Links -> Int]
      BY <1>2 DEF Init, Links
    <2> QED BY <1>2, <2>2, EmptyHolds DEF Init, Types
  <1>4. Tables(o)
    <2>1. \A s \in Sources : numCh[s] = Channels[s] /\ s \in Links
      BY DEF Init, Links
    <2>2. \A m \in Merges : ~Created(m)
      BY <1>2 DEF Init, Links, Created
    <2>3. \A l \in Links : Created(l) => l \in Sources
      BY <2>2 DEF Links
    <2>4. \A s \in Sources : \A c \in Chs(s) : o[s][c] = <<s, c>>
      <3> SUFFICES ASSUME NEW s \in Sources, NEW c \in Chs(s) PROVE o[s][c] = <<s, c>>
        OBVIOUS
      <3>1. c \in Nat
        BY <1>2, <2>1 DEF Chs
      <3> QED BY <1>1, <2>1, <3>1
    <2> QED BY <2>1, <2>2, <2>3, <2>4 DEF Tables, Open
  <1>5. \A t \in Tasks : calls[t] = << >> /\ DOMAIN calls[t] = {}
    BY DEF Init
  <1>6. Quiet /\ NoDups /\ CallsOK
    BY <1>5, EmptyHolds DEF Init, Quiet, NoDups, CallsOK
  <1>7. /\ \A s \in Sources : Idle(s) = {f \in Frames : SourceOf[f] = s}
        /\ \A l \in Links : ToSet(outQue[l]) = {}
        /\ held = {} /\ \A t \in Tasks, k \in Nat : InCall(t, k) = {}
        /\ \A m \in Merges, i \in Nat : InList(m, i) = {}
    BY <1>5, EmptyHolds DEF Init, Idle, InCall, InList, Live
  <1>8. OnePlace
    <2>1. ASSUME NEW f \in Frames, NEW p \in Places, f \in Holds[p] PROVE p = IdleAt(SourceOf[f])
      <3>1. PICK s \in Sources : p = IdleAt(s) /\ f \in Idle(s)
        BY <1>7, <2>1, WhereIs
      <3> QED BY <1>7, <3>1
    <2>2. ASSUME NEW f \in Frames PROVE f \in Holds[IdleAt(SourceOf[f])]
      BY <1>2, <1>7, HoldsAt
    <2>3. \A p \in Places : Holds[p] \subseteq Frames
      BY <1>7, WhereIs
    <2> QED BY <1>2, <2>1, <2>2, <2>3, SomePlaces DEF OnePlace
  <1>9. Numbered(o)
    BY <1>5, <1>7 DEF Init, Numbered
  <1> QED BY <1>3, <1>4, <1>6, <1>8, <1>9 DEF Inv

(***************************************************************************)
(* The steps.                                                               *)
(***************************************************************************)
placing == <<idle, outQue, held, calls, freeFrameList>>

LEMMA StayPut ==
  ASSUME UNCHANGED placing
  PROVE  /\ \A p \in Places : Holds'[p] = Holds[p]
         /\ OnePlace => OnePlace'
         /\ NoDups => NoDups'
         /\ \A s \in Sources : Idle(s)' = Idle(s)
         /\ \A m \in Merges, i \in Nat : InList(m, i)' = InList(m, i)
  <1>1. /\ \A s \in Sources : Idle(s)' = Idle(s)
        /\ \A t \in Tasks, k \in Nat : InCall(t, k)' = InCall(t, k)
        /\ \A m \in Merges, i \in Nat : InList(m, i)' = InList(m, i)
    BY DEF placing, Idle, InCall, InList, Live, Sorting
  <1>2. ASSUME NEW p \in Places PROVE Holds'[p] = Holds[p]
    <2>1. Others(p, p)
      BY <1>1 DEF Others, placing
    <2> QED BY <1>1, HoldsAt, HoldsNext, PlaceCases DEF placing
  <1>3. OnePlace => OnePlace'
    BY <1>2 DEF OnePlace
  <1>4. NoDups => NoDups'
    BY DEF placing, NoDups
  <1> QED BY <1>1, <1>2, <1>3, <1>4

(* The tables of the merge that is created.                                 *)
LEMMA CreateTables ==
  ASSUME NEW m \in Merges, Types, Create(m)
  PROVE  LET P == Merged(m)  N == Cardinality(P)
         IN  /\ N \in Nat /\ numCh' = [numCh EXCEPT ![m] = N]
             /\ \A l \in Merges \ {m} : inChan'[l] = inChan[l] /\ outChNum'[l] = outChNum[l]
             /\ \A p \in P : outChNum'[m][p] \in 0 .. N - 1 /\ inChan'[m][outChNum'[m][p]] = p
             /\ \A k \in 0 .. N - 1 : inChan'[m][k] \in P /\ outChNum'[m][inChan'[m][k]] = k
             /\ inChan' = [l \in Merges |-> inChan'[l]]
             /\ outChNum' = [l \in Merges |-> outChNum'[l]]
  <1> DEFINE P == Merged(m)
             N == Cardinality(P)
  <1>1. P \in SUBSET (Nat \X Nat) /\ IsFiniteSet(P)
    BY MergedChannels DEF Types
  <1> HIDE DEF P
  <1>2. /\ N \in Nat
        /\ \A p \in P : NumberOf(P, p) \in 0 .. N - 1
        /\ \A p, q \in P : NumberOf(P, p) = NumberOf(P, q) => p = q
        /\ \A k \in 0 .. N - 1 : \E p \in P : NumberOf(P, p) = k
    BY <1>1, Ranks
  <1> HIDE DEF N
  <1>3. /\ numCh' = [numCh EXCEPT ![m] = N]
        /\ inChan' = [inChan EXCEPT ![m] = [k \in 0 .. N - 1 |->
              CHOOSE p \in P : NumberOf(P, p) = k]]
        /\ outChNum' = [outChNum EXCEPT ![m] = [p \in P |-> NumberOf(P, p)]]
    BY DEF Create, P, N
  <1>4. /\ inChan'[m] = [k \in 0 .. N - 1 |-> CHOOSE p \in P : NumberOf(P, p) = k]
        /\ outChNum'[m] = [p \in P |-> NumberOf(P, p)]
        /\ \A l \in Merges \ {m} : inChan'[l] = inChan[l] /\ outChNum'[l] = outChNum[l]
        /\ inChan' = [l \in Merges |-> inChan'[l]] /\ outChNum' = [l \in Merges |-> outChNum'[l]]
    BY <1>3 DEF Types
  <1>5. ASSUME NEW k \in 0 .. N - 1 PROVE inChan'[m][k] \in P /\ NumberOf(P, inChan'[m][k]) = k
    BY <1>2, <1>4
  <1>6. ASSUME NEW p \in P PROVE inChan'[m][NumberOf(P, p)] = p
    BY <1>2, <1>5
  <1> QED BY <1>2, <1>3, <1>4, <1>5, <1>6 DEF P, N

LEMMA CreateInv ==
  ASSUME NEW o, Inv(o), NEW m \in Merges, Create(m)
  PROVE  \E q : Inv(q)'
  <1>1. /\ numCh[m] = -1 /\ \A i \in DOMAIN InQue[m] : numCh[InQue[m][i]] # -1
        /\ UNCHANGED <<idle, outQue, held, channelNum, mergeChannelNum, tasks, giving>>
        /\ m \in Links /\ m \notin Sources
    BY MergeAssumption DEF Create, Links
  <1>2. PICK N \in Nat : N = Cardinality(Merged(m))
    BY CreateTables DEF Inv
  <1>3. /\ numCh' = [numCh EXCEPT ![m] = N]
        /\ \A l \in Merges \ {m} : inChan'[l] = inChan[l] /\ outChNum'[l] = outChNum[l]
        /\ \A p \in Merged(m) : outChNum'[m][p] \in 0 .. N - 1 /\ inChan'[m][outChNum'[m][p]] = p
        /\ \A k \in 0 .. N - 1 : inChan'[m][k] \in Merged(m) /\ outChNum'[m][inChan'[m][k]] = k
        /\ inChan' = [l \in Merges |-> inChan'[l]] /\ outChNum' = [l \in Merges |-> outChNum'[l]]
    BY <1>2, CreateTables DEF Inv
  <1>4. /\ \A i \in DOMAIN InQue[m] : \A c \in Chs(InQue[m][i]) : <<i, c>> \in Merged(m)
        /\ \A p \in Merged(m) : \E i \in DOMAIN InQue[m] : \E c \in Chs(InQue[m][i]) : p = <<i, c>>
    BY MergedChannels DEF Inv, Types, Chs
  <1>5. PICK q : q = [l \in Links |->
                        IF l = m THEN [k \in 0 .. N - 1 |->
                                         o[InQue[m][inChan'[m][k][1]]][inChan'[m][k][2]]]
                        ELSE o[l]]
    OBVIOUS
  <1>6. /\ q[m] = [k \in 0 .. N - 1 |-> o[InQue[m][inChan'[m][k][1]]][inChan'[m][k][2]]]
        /\ \A l \in Links \ {m} : q[l] = o[l] /\ numCh'[l] = numCh[l] /\ Chs(l)' = Chs(l)
                                 /\ (Created(l)' <=> Created(l))
        /\ numCh'[m] = N /\ Chs(m)' = 0 .. N - 1 /\ Created(m)' /\ ~Created(m)
    BY <1>1, <1>2, <1>3, <1>5 DEF Inv, Types, Chs, Created
  <1>7. \A i \in DOMAIN InQue[m] : InQue[m][i] \in Links \ {m} /\ Created(InQue[m][i])
    BY <1>1, Inputs DEF Created
  <1>8. ASSUME NEW k \in 0 .. N - 1
        PROVE  \E i \in DOMAIN InQue[m] : \E c \in Chs(InQue[m][i]) :
                  inChan'[m][k] = <<i, c>> /\ q[m][k] = o[InQue[m][i]][c]
    <2>1. PICK i \in DOMAIN InQue[m] : \E c \in Chs(InQue[m][i]) : inChan'[m][k] = <<i, c>>
      BY <1>3, <1>4
    <2>2. PICK c \in Chs(InQue[m][i]) : inChan'[m][k] = <<i, c>>
      BY <2>1
    <2>3. inChan'[m][k][1] = i /\ inChan'[m][k][2] = c
      BY <2>2
    <2> QED BY <1>6, <2>2, <2>3
  <1>9. Types'
    BY <1>1, <1>3 DEF Inv, Types, tasks, giving
  <1>10. Tables(q)'
    <2>1. \A s \in Sources : numCh'[s] = Channels[s] /\ \A c \in Chs(s)' : q[s][c] = <<s, c>>
      <3>1. \A s \in Sources : s \in Links \ {m}
        BY MergeAssumption DEF Links
      <3>2. \A s \in Sources : numCh[s] = Channels[s] /\ \A c \in Chs(s) : o[s][c] = <<s, c>>
        BY DEF Inv, Tables
      <3>3. ASSUME NEW s \in Sources
            PROVE  numCh'[s] = numCh[s] /\ Chs(s)' = Chs(s) /\ q[s] = o[s]
        BY <1>6, <3>1
      <3> QED BY <3>2, <3>3
    <2>2. TableOf(q, m)'
      <3>1. ASSUME NEW i \in DOMAIN InQue[m]
            PROVE  /\ InQue[m][i] # m /\ Created(InQue[m][i])'
                   /\ Chs(InQue[m][i])' = Chs(InQue[m][i]) /\ q[InQue[m][i]] = o[InQue[m][i]]
                   /\ \A c \in Chs(InQue[m][i]) : /\ outChNum'[m][<<i, c>>] \in Chs(m)'
                                                  /\ inChan'[m][outChNum'[m][<<i, c>>]] = <<i, c>>
        BY <1>3, <1>4, <1>6, <1>7
      <3>2. ASSUME NEW k \in Chs(m)'
            PROVE  \E i \in DOMAIN InQue[m] : \E c \in Chs(InQue[m][i])' :
                      inChan'[m][k] = <<i, c>> /\ q[m][k] = q[InQue[m][i]][c]
        <4>1. k \in 0 .. N - 1
          BY <1>6, <3>2
        <4>2. PICK i \in DOMAIN InQue[m] : \E c \in Chs(InQue[m][i]) :
                 inChan'[m][k] = <<i, c>> /\ q[m][k] = o[InQue[m][i]][c]
          BY <1>8, <4>1
        <4>3. Chs(InQue[m][i])' = Chs(InQue[m][i]) /\ q[InQue[m][i]] = o[InQue[m][i]]
          BY <3>1
        <4> QED BY <4>2, <4>3
      <3> QED BY <3>1, <3>2 DEF TableOf
    <2>3. ASSUME NEW l \in Merges, l # m, Created(l)' PROVE TableOf(q, l)'
      <3>1. TableOf(o, l) /\ l \in Links \ {m} /\ q[l] = o[l] /\ Chs(l)' = Chs(l)
            /\ inChan'[l] = inChan[l] /\ outChNum'[l] = outChNum[l]
        BY <1>3, <1>6, <2>3 DEF Inv, Tables, Links
      <3>2. ASSUME NEW i \in DOMAIN InQue[l]
            PROVE  /\ InQue[l][i] # l /\ Created(InQue[l][i]) /\ Created(InQue[l][i])'
                   /\ Chs(InQue[l][i])' = Chs(InQue[l][i]) /\ q[InQue[l][i]] = o[InQue[l][i]]
        <4>1. InQue[l][i] # l /\ Created(InQue[l][i]) /\ InQue[l][i] \in Links
          BY <3>1, Inputs DEF TableOf
        <4> QED BY <1>6, <4>1
      <3> QED BY <3>1, <3>2 DEF TableOf
    <2>4. ASSUME NEW l \in Links, Open(l)'
          PROVE  /\ l # m => Open(l) /\ l \notin ToSet(InQue[m])
      <3> SUFFICES ASSUME l # m PROVE Open(l) /\ l \notin ToSet(InQue[m])
        OBVIOUS
      <3>1. l \notin ToSet(InQue[m])
        BY <1>6, <2>4 DEF Open
      <3>2. ASSUME NEW k \in Merges, l \in ToSet(InQue[k]) PROVE ~Created(k)
        BY <1>6, <2>4, <3>1, <3>2 DEF Open, Links
      <3>3. Created(l)
        BY <1>6, <2>4 DEF Open
      <3> QED BY <3>1, <3>2, <3>3 DEF Open
    <2>5. ASSUME NEW i \in DOMAIN InQue[m] PROVE Open(InQue[m][i])
      <3>1. InQue[m][i] \in ToSet(InQue[m]) /\ InQue[m][i] \in Links \ {Root}
        BY Inputs
      <3>2. \A k \in Merges : InQue[m][i] \in ToSet(InQue[k]) => k = m
        BY <3>1, MergeAssumption
      <3> QED BY <1>6, <1>7, <3>2 DEF Open
    <2>6. ASSUME NEW l \in Links, NEW k \in Links, Open(l)', Open(k)',
                 NEW c \in Chs(l)', NEW d \in Chs(k)', q[l][c] = q[k][d]
          PROVE  l = k /\ c = d
      <3>6. \A a, b \in Links : Open(a) /\ Open(b) =>
               \A x \in Chs(a), y \in Chs(b) : o[a][x] = o[b][y] => a = b /\ x = y
        BY DEF Inv, Tables
      <3>1. CASE l # m /\ k # m
        <4>1. /\ Open(l) /\ Open(k) /\ q[l] = o[l] /\ q[k] = o[k]
              /\ Chs(l)' = Chs(l) /\ Chs(k)' = Chs(k)
          BY <1>6, <2>4, <2>6, <3>1
        <4> QED BY <2>6, <3>6, <4>1
      <3>2. ASSUME NEW a \in Links, NEW b \in 0 .. N - 1, NEW x \in Chs(a), a # m,
                   Open(a)', q[m][b] = q[a][x]
            PROVE  FALSE
        <4>1. PICK i \in DOMAIN InQue[m] : \E y \in Chs(InQue[m][i]) : q[m][b] = o[InQue[m][i]][y]
          BY <1>8
        <4>2. PICK y \in Chs(InQue[m][i]) : q[m][b] = o[InQue[m][i]][y]
          BY <4>1
        <4>3. Open(a) /\ a \notin ToSet(InQue[m]) /\ q[a] = o[a]
          BY <1>6, <2>4, <3>2
        <4>4. InQue[m][i] = a
          <5>1. o[InQue[m][i]][y] = o[a][x]
            BY <3>2, <4>2, <4>3
          <5>2. Open(InQue[m][i]) /\ InQue[m][i] \in Links
            BY <1>7, <2>5
          <5> QED BY <3>6, <3>2, <4>3, <5>1, <5>2
        <4> QED BY <4>3, <4>4, Inputs
      <3>3. CASE l = m /\ k = m
        <4>1. c \in 0 .. N - 1 /\ d \in 0 .. N - 1
          BY <1>6, <3>3
        <4>2. PICK i \in DOMAIN InQue[m] : \E x \in Chs(InQue[m][i]) :
                 inChan'[m][c] = <<i, x>> /\ q[m][c] = o[InQue[m][i]][x]
          BY <1>8, <4>1
        <4>7. PICK x \in Chs(InQue[m][i]) :
                 inChan'[m][c] = <<i, x>> /\ q[m][c] = o[InQue[m][i]][x]
          BY <4>2
        <4>3. PICK j \in DOMAIN InQue[m] : \E y \in Chs(InQue[m][j]) :
                 inChan'[m][d] = <<j, y>> /\ q[m][d] = o[InQue[m][j]][y]
          BY <1>8, <4>1
        <4>8. PICK y \in Chs(InQue[m][j]) :
                 inChan'[m][d] = <<j, y>> /\ q[m][d] = o[InQue[m][j]][y]
          BY <4>3
        <4>4. InQue[m][i] = InQue[m][j] /\ x = y
          BY <1>7, <2>5, <2>6, <3>6, <3>3, <4>7, <4>8
        <4>5. i = j
          BY <4>4, Inputs DEF IsInjective
        <4>6. inChan'[m][c] = inChan'[m][d]
          BY <4>7, <4>8, <4>4, <4>5
        <4> QED BY <1>3, <3>3, <4>1, <4>6
      <3>4. CASE l = m /\ k # m
        <4>1. c \in 0 .. N - 1 /\ d \in Chs(k)
          BY <1>6, <2>6, <3>4
        <4>2. q[m][c] = q[k][d] /\ Open(k)'
          BY <2>6, <3>4
        <4> QED BY <3>2, <3>4, <4>1, <4>2
      <3>5. CASE l # m /\ k = m
        <4>1. d \in 0 .. N - 1 /\ c \in Chs(l)
          BY <1>6, <2>6, <3>5
        <4>2. q[m][d] = q[l][c] /\ Open(l)'
          BY <2>6, <3>5
        <4> QED BY <3>2, <3>5, <4>1, <4>2
      <3> QED BY <3>1, <3>3, <3>4, <3>5
    <2> QED BY <2>1, <2>2, <2>3, <2>6 DEF Tables
  <1>11. held = {} /\ (\A l \in Links : outQue[l] = << >>) /\ \A t \in Tasks : calls[t] = << >>
    BY <1>1 DEF Inv, Quiet, Ready
  <1>12. Quiet' /\ OnePlace' /\ NoDups' /\ CallsOK'
    <2>1. UNCHANGED placing
      BY <1>1 DEF placing, giving
    <2> QED BY <1>1, <1>11, <2>1, StayPut DEF Inv, Quiet, CallsOK, giving
  <1>13. Numbered(q)'
    <2>1. UNCHANGED placing
      BY <1>1 DEF placing, giving
    <2>2. \A i \in Nat, k \in Merges : InList(k, i)' = {}
      BY <1>11, <2>1 DEF InList, Live, placing
    <2>3. /\ held' = {} /\ \A l \in Links : ToSet(outQue'[l]) = {}
          /\ \A t \in Tasks : DOMAIN calls'[t] = {}
      BY <1>11, <2>1, EmptyHolds DEF placing
    <2>4. \A s \in Sources : \A f \in Idle(s)' : s = SourceOf[f] /\ channelNum'[f] = ChannelOf[f]
      BY <1>1, <2>1, StayPut DEF Inv, Numbered
    <2> QED BY <2>2, <2>3, <2>4 DEF Numbered
  <1> QED BY <1>9, <1>10, <1>12, <1>13 DEF Inv

(* What is known of a frame that comes to a place.                          *)
Arrives(o, q, f) ==
    /\ \A s \in Sources : q = IdleAt(s) => s = SourceOf[f] /\ channelNum'[f] = ChannelOf[f]
    /\ \A l \in Links : q = QueueOf(l) =>
          Is(o, l, channelNum'[f], f) /\ (l \in Merges => mergeChannelNum'[f] = channelNum'[f])
    /\ q = AtSink => Is(o, Root, channelNum'[f], f) /\ mergeChannelNum'[f] = channelNum'[f]
    /\ \A t \in Tasks : \A k \in DOMAIN calls'[t] :
          q = CallOf(t, k) => Is(o, calls'[t][k].link, mergeChannelNum'[f], f)
    /\ \A m \in Merges, i \in Nat : q = ListOf(m, i) =>
          Is(o, InQue[m][i], channelNum'[f], f) /\ mergeChannelNum'[f] = channelNum'[f]

(* Of the five kinds of place the frame comes to one.                       *)
LEMMA ArrivesAt ==
  ASSUME NEW o, NEW f
  PROVE  /\ \A s \in Sources : s = SourceOf[f] /\ channelNum'[f] = ChannelOf[f]
               => Arrives(o, IdleAt(s), f)
         /\ \A l \in Links :
               Is(o, l, channelNum'[f], f) /\ (l \in Merges => mergeChannelNum'[f] = channelNum'[f])
               => Arrives(o, QueueOf(l), f)
         /\ Is(o, Root, channelNum'[f], f) /\ mergeChannelNum'[f] = channelNum'[f]
               => Arrives(o, AtSink, f)
         /\ \A t \in Tasks, k \in Nat :
               (k \in DOMAIN calls'[t] => Is(o, calls'[t][k].link, mergeChannelNum'[f], f))
               => Arrives(o, CallOf(t, k), f)
         /\ \A m \in Merges, i \in Nat :
               Is(o, InQue[m][i], channelNum'[f], f) /\ mergeChannelNum'[f] = channelNum'[f]
               => Arrives(o, ListOf(m, i), f)
  <1>1. ASSUME NEW s \in Sources, s = SourceOf[f] /\ channelNum'[f] = ChannelOf[f]
        PROVE  Arrives(o, IdleAt(s), f)
    <2>1. /\ \A l : IdleAt(s) # QueueOf(l) /\ (IdleAt(s) = IdleAt(l) => s = l)
          /\ IdleAt(s) # AtSink /\ \A l, k : IdleAt(s) # CallOf(l, k) /\ IdleAt(s) # ListOf(l, k)
      BY PlacesDiffer
    <2> QED BY <1>1, <2>1 DEF Arrives
  <1>2. ASSUME NEW l \in Links, Is(o, l, channelNum'[f], f),
               l \in Merges => mergeChannelNum'[f] = channelNum'[f]
        PROVE  Arrives(o, QueueOf(l), f)
    <2>1. /\ \A k : QueueOf(l) # IdleAt(k) /\ (QueueOf(l) = QueueOf(k) => l = k)
          /\ QueueOf(l) # AtSink /\ \A j, k : QueueOf(l) # CallOf(j, k) /\ QueueOf(l) # ListOf(j, k)
      BY PlacesDiffer
    <2> QED BY <1>2, <2>1 DEF Arrives
  <1>3. ASSUME Is(o, Root, channelNum'[f], f) /\ mergeChannelNum'[f] = channelNum'[f]
        PROVE  Arrives(o, AtSink, f)
    <2>1. /\ \A k : AtSink # IdleAt(k) /\ AtSink # QueueOf(k)
          /\ \A j, k : AtSink # CallOf(j, k) /\ AtSink # ListOf(j, k)
      BY PlacesDiffer
    <2> QED BY <1>3, <2>1 DEF Arrives
  <1>4. ASSUME NEW t \in Tasks, NEW k \in Nat,
               k \in DOMAIN calls'[t] => Is(o, calls'[t][k].link, mergeChannelNum'[f], f)
        PROVE  Arrives(o, CallOf(t, k), f)
    <2>1. /\ \A j : CallOf(t, k) # IdleAt(j) /\ CallOf(t, k) # QueueOf(j) /\ CallOf(t, k) # AtSink
          /\ \A x, j : CallOf(t, k) # ListOf(x, j) /\ (CallOf(t, k) = CallOf(x, j) => t = x /\ k = j)
      BY PlacesDiffer
    <2> QED BY <1>4, <2>1 DEF Arrives
  <1>5. ASSUME NEW m \in Merges, NEW i \in Nat, Is(o, InQue[m][i], channelNum'[f], f),
               mergeChannelNum'[f] = channelNum'[f]
        PROVE  Arrives(o, ListOf(m, i), f)
    <2>1. /\ \A j : ListOf(m, i) # IdleAt(j) /\ ListOf(m, i) # QueueOf(j) /\ ListOf(m, i) # AtSink
          /\ \A x, j : ListOf(m, i) # CallOf(x, j) /\ (ListOf(m, i) = ListOf(x, j) => m = x /\ i = j)
      BY PlacesDiffer
    <2> QED BY <1>5, <2>1 DEF Arrives
  <1> QED BY <1>1, <1>2, <1>3, <1>4, <1>5

LinksKept == \A t \in Tasks : \A k \in DOMAIN calls'[t] :
    k \in Nat /\ (k \in DOMAIN calls[t] => calls'[t][k].link = calls[t][k].link)

LEMMA TablesStay ==
  ASSUME NEW o, UNCHANGED tables
  PROVE  /\ Tables(o) => Tables(o)'
         /\ Ready' <=> Ready
         /\ \A l, c, f : Is(o, l, c, f)' <=> Is(o, l, c, f)
         /\ \A l : Chs(l)' = Chs(l)
  BY DEF tables, Tables, TableOf, Open, Created, Chs, Ready, Is

LEMMA FramesIn ==
  ASSUME Types, NEW p \in Places
  PROVE  Holds[p] \subseteq Frames
  <1>1. \A l \in Links : ToSet(outQue[l]) \subseteq Frames
    BY SeqHolds DEF Types
  <1>2. ASSUME NEW t \in Tasks, NEW k \in Nat PROVE InCall(t, k) \subseteq Frames
    <2>1. ASSUME k \in DOMAIN calls[t] PROVE ToSet(calls[t][k].frames) \subseteq Frames
      <3>1. calls[t] \in Seq(CallType)
        BY DEF Types
      <3>2. calls[t][k] \in CallType
        BY <2>1, <3>1, SeqHolds, ElementOfSeq
      <3> QED BY <3>2, SeqHolds DEF CallType
    <2> QED BY <2>1 DEF InCall
  <1>3. ASSUME NEW m \in Merges, NEW i \in Nat PROVE InList(m, i) \subseteq Frames
    <2>1. i \in DOMAIN InQue[m] => freeFrameList[m][i] \in Seq(Frames)
      BY DEF Types
    <2> QED BY <2>1, SeqHolds DEF InList
  <1> QED BY <1>1, <1>2, <1>3, WhereIs DEF Types, Idle

(* In each place the frames are those that were there, under the numbers    *)
(* they had, or those that arrive.                                          *)
LEMMA NumberedNext ==
  ASSUME NEW o, Inv(o), UNCHANGED tables, LinksKept, NEW S, NEW q,
         \A r \in Places : \A f \in Holds'[r] :
            (f \in Holds[r] /\ f \notin S) \/ (r = q /\ f \in S),
         \A f \in Frames : f \notin S =>
            channelNum'[f] = channelNum[f] /\ mergeChannelNum'[f] = mergeChannelNum[f],
         \A f \in S : Arrives(o, q, f)
  PROVE  Numbered(o)'
  <1>1. \A l, c, f : Is(o, l, c, f)' <=> Is(o, l, c, f)
    BY TablesStay
  <1>2. \A r \in Places : \A f \in Holds[r] : f \in Frames
    BY FramesIn DEF Inv
  <1>3. ASSUME NEW s \in Sources, NEW f \in Idle(s)'
        PROVE  s = SourceOf[f] /\ channelNum'[f] = ChannelOf[f]
    <2>1. f \in Holds'[IdleAt(s)] /\ IdleAt(s) \in Places /\ Holds[IdleAt(s)] = Idle(s)
      BY HoldsAt, HoldsNext
    <2> QED BY <1>2, <2>1 DEF Inv, Numbered, Arrives
  <1>4. ASSUME NEW l \in Links, NEW f \in ToSet(outQue'[l])
        PROVE  /\ Is(o, l, channelNum'[f], f)
               /\ l \in Merges => mergeChannelNum'[f] = channelNum'[f]
    <2>1. /\ f \in Holds'[QueueOf(l)] /\ QueueOf(l) \in Places
          /\ Holds[QueueOf(l)] = ToSet(outQue[l])
      BY HoldsAt, HoldsNext
    <2> QED BY <1>2, <2>1 DEF Inv, Numbered, Arrives
  <1>5. ASSUME NEW f \in held'
        PROVE  Is(o, Root, channelNum'[f], f) /\ mergeChannelNum'[f] = channelNum'[f]
    <2>1. f \in Holds'[AtSink] /\ AtSink \in Places /\ Holds[AtSink] = held
      BY HoldsAt, HoldsNext
    <2> QED BY <1>2, <2>1 DEF Inv, Numbered, Arrives
  <1>6. ASSUME NEW t \in Tasks, NEW k \in DOMAIN calls'[t], NEW f \in ToSet(calls'[t][k].frames)
        PROVE  Is(o, calls'[t][k].link, mergeChannelNum'[f], f)
    <2>1. k \in Nat /\ (k \in DOMAIN calls[t] => calls'[t][k].link = calls[t][k].link)
      BY DEF LinksKept
    <2>2. f \in InCall(t, k)'
      BY DEF InCall
    <2>3. /\ f \in Holds'[CallOf(t, k)] /\ CallOf(t, k) \in Places
          /\ Holds[CallOf(t, k)] = InCall(t, k)
      BY <2>1, <2>2, HoldsAt, HoldsNext
    <2>4. CASE f \in S /\ q = CallOf(t, k)
      BY <2>4 DEF Arrives
    <2>5. CASE f \in InCall(t, k) /\ f \notin S
      <3>1. k \in DOMAIN calls[t] /\ f \in ToSet(calls[t][k].frames)
        BY <2>5 DEF InCall
      <3>2. Is(o, calls[t][k].link, mergeChannelNum[f], f) /\ f \in Frames
        BY <1>2, <2>3, <2>5, <3>1 DEF Inv, Numbered
      <3> QED BY <2>1, <2>5, <3>1, <3>2
    <2> QED BY <2>3, <2>4, <2>5
  <1>7. ASSUME NEW m \in Merges, NEW i \in Nat, NEW f \in InList(m, i)'
        PROVE  /\ Is(o, InQue[m][i], channelNum'[f], f)
               /\ mergeChannelNum'[f] = channelNum'[f]
    <2>1. /\ f \in Holds'[ListOf(m, i)] /\ ListOf(m, i) \in Places
          /\ Holds[ListOf(m, i)] = InList(m, i)
      BY HoldsAt, HoldsNext
    <2> QED BY <1>2, <2>1 DEF Inv, Numbered, Arrives
  <1> QED BY <1>1, <1>3, <1>4, <1>5, <1>6, <1>7 DEF Numbered

(* Frames go from one place to another; others keep place and number.       *)
LEMMA Moved ==
  ASSUME NEW o, Inv(o), UNCHANGED tables, LinksKept,
         NEW p \in Places, NEW q \in Places, p # q, NEW S \in SUBSET Holds[p],
         Others(p, q), Holds'[p] = Holds[p] \ S, Holds'[q] = Holds[q] \cup S,
         \A f \in Frames : f \notin S =>
            channelNum'[f] = channelNum[f] /\ mergeChannelNum'[f] = mergeChannelNum[f],
         \A f \in S : Arrives(o, q, f)
  PROVE  OnePlace' /\ Numbered(o)'
  <1>1. OnePlace'
    BY Move DEF Inv
  <1>2. ASSUME NEW r \in Places, NEW f \in Holds'[r]
        PROVE  (f \in Holds[r] /\ f \notin S) \/ (r = q /\ f \in S)
    <2>1. r = p \/ r = q \/ Holds'[r] = Holds[r]
      BY OthersHold
    <2>2. r # p => f \notin S \/ f \notin Holds[r]
      BY DEF Inv, OnePlace
    <2> QED BY <2>1, <2>2
  <1>3. Numbered(o)'
    BY <1>2, NumberedNext
  <1> QED BY <1>1, <1>3

(* Nothing moves.                                                           *)
LEMMA Stayed ==
  ASSUME NEW o, Inv(o), UNCHANGED <<tables, channelNum, mergeChannelNum>>, LinksKept,
         Others(AtSink, AtSink), held' = held
  PROVE  OnePlace' /\ Numbered(o)'
  <1>1. \A r \in Places : Holds'[r] = Holds[r]
    BY OthersHold, HoldsAt, HoldsNext
  <1>2. OnePlace'
    BY <1>1 DEF Inv, OnePlace
  <1>3. PICK S : S = {}
    OBVIOUS
  <1>4. Numbered(o)'
    <2>1. \A r \in Places : \A f \in Holds'[r] :
            (f \in Holds[r] /\ f \notin S) \/ (r = AtSink /\ f \in S)
      BY <1>1, <1>3
    <2>2. UNCHANGED tables
      BY DEF tables
    <2>3. \A f \in Frames : f \notin S =>
            channelNum'[f] = channelNum[f] /\ mergeChannelNum'[f] = mergeChannelNum[f]
      OBVIOUS
    <2>4. \A f \in S : Arrives(o, AtSink, f)
      BY <1>3
    <2> QED BY <2>1, <2>2, <2>3, <2>4, NumberedNext
  <1> QED BY <1>2, <1>4

(* A frame outside its source: all links have been created.                 *)
LEMMA OutIsReady ==
  ASSUME NEW o, Inv(o),
         \/ held # {} \/ \E l \in Links : outQue[l] # << >>
         \/ \E t \in Tasks : calls[t] # << >>
  PROVE  /\ Ready /\ \A l \in Links : Created(l)
         /\ \A m \in Merges : TableOf(o, m) /\ m \in Links /\ m \notin Sources
         /\ Root \in Merges /\ Root \in Links /\ Open(Root)
  <1>1. Ready /\ \A l \in Links : Created(l)
    BY DEF Inv, Quiet, Ready, Created
  <1>2. \A m \in Merges : TableOf(o, m) /\ m \in Links /\ m \notin Sources
    BY <1>1, MergeAssumption DEF Inv, Tables, Links
  <1>3. Root \in Merges /\ Root \in Links
    BY MergeAssumption DEF Links
  <1>4. \A m \in Merges : Root \notin ToSet(InQue[m])
    BY Inputs DEF ToSet
  <1> QED BY <1>1, <1>2, <1>3, <1>4 DEF Open

LEMMA Elsewhere ==
  ASSUME OnePlace, NEW p \in Places, NEW q \in Places, p # q, NEW f, f \in Holds[p]
  PROVE  f \notin Holds[q]
  BY DEF OnePlace

LEMMA ProduceInv ==
  ASSUME NEW o, Inv(o), NEW g \in Frames, Produce(g)
  PROVE  Inv(o)'
  <1> DEFINE s == SourceOf[g]
  <1>1. /\ Ready /\ <<s, g>> \in idle /\ s \in Sources /\ s \in Links /\ s \notin Merges
        /\ idle' = idle \ {<<s, g>>}
        /\ outQue' = [outQue EXCEPT ![s] = Append(@, g)]
        /\ UNCHANGED <<tables, held, channelNum, mergeChannelNum, pc, newDataAvailable, giving>>
    BY MergeAssumption DEF Produce, Links
  <1> HIDE DEF s
  <1>2. /\ outQue[s] \in Seq(Frames) /\ outQue'[s] = Append(outQue[s], g)
        /\ outQue' \in [Links -> Seq(Frames)]
        /\ \A l \in Links : l # s => outQue'[l] = outQue[l]
    BY <1>1, AppendHolds DEF Inv, Types
  <1>3. g \in Idle(s) /\ Idle(s)' = Idle(s) \ {g} /\ \A x \in Sources : x # s => Idle(x)' = Idle(x)
    BY <1>1 DEF Idle
  <1>4. g \notin ToSet(outQue[s])
    <2>1. /\ IdleAt(s) \in Places /\ QueueOf(s) \in Places /\ IdleAt(s) # QueueOf(s)
          /\ g \in Holds[IdleAt(s)] /\ Holds[QueueOf(s)] = ToSet(outQue[s])
      BY <1>1, <1>3, HoldsAt, PlacesDiffer
    <2>2. g \notin Holds[QueueOf(s)]
      BY <2>1, Elsewhere DEF Inv
    <2> QED BY <2>1, <2>2
  <1>5. ToSet(outQue'[s]) = ToSet(outQue[s]) \cup {g} /\ IsInjective(outQue'[s])
    BY <1>1, <1>2, <1>4, AppendHolds DEF Inv, NoDups
  <1>6. calls' = calls /\ freeFrameList' = freeFrameList /\ lock' = lock
    BY <1>1 DEF giving
  <1>7. LinksKept
    <2>1. \A t \in Tasks : calls[t] \in Seq(CallType)
      BY DEF Inv, Types
    <2> QED BY <1>6, <2>1, SeqHolds DEF LinksKept
  <1>8. Others(IdleAt(s), QueueOf(s))
    BY <1>1, <1>2, <1>3, <1>6 DEF Others, InCall, InList, Live, Sorting
  <1>9. Arrives(o, QueueOf(s), g)
    <2>1. Is(o, s, channelNum[g], g)
      <3>1. s = SourceOf[g] /\ channelNum[g] = ChannelOf[g]
        BY <1>1, <1>3 DEF Inv, Numbered
      <3>2. channelNum[g] \in Chs(s)
        BY <1>1, <3>1, MergeAssumption DEF Inv, Tables, Chs
      <3> QED BY <1>1, <3>1, <3>2 DEF Inv, Tables, Is
    <2>2. Is(o, s, channelNum'[g], g)
      BY <1>1, <2>1
    <2> QED BY <1>1, <2>2, ArrivesAt
  <1>10. OnePlace' /\ Numbered(o)'
    <2>1. /\ IdleAt(s) \in Places /\ QueueOf(s) \in Places /\ IdleAt(s) # QueueOf(s)
          /\ Holds[IdleAt(s)] = Idle(s) /\ Holds'[IdleAt(s)] = Idle(s)'
          /\ Holds[QueueOf(s)] = ToSet(outQue[s]) /\ Holds'[QueueOf(s)] = ToSet(outQue'[s])
      BY <1>1, HoldsAt, HoldsNext, PlacesDiffer
    <2>2. PICK S : S = {g}
      OBVIOUS
    <2> QED BY <1>1, <1>3, <1>5, <1>7, <1>8, <1>9, <2>1, <2>2, Moved
  <1>11. Types'
    BY <1>1, <1>2, <1>6 DEF Inv, Types, tables
  <1>12. NoDups'
    BY <1>2, <1>5, <1>6 DEF Inv, NoDups
  <1>13. Quiet' /\ CallsOK' /\ Tables(o)'
    BY <1>1, <1>6, TablesStay DEF Inv, Quiet, CallsOK
  <1> QED BY <1>10, <1>11, <1>12, <1>13 DEF Inv

LEMMA TakeInv ==
  ASSUME NEW o, Inv(o), Take
  PROVE  Inv(o)'
  <1>1. /\ held' = held \cup ToSet(outQue[Root]) /\ outQue' = [outQue EXCEPT ![Root] = << >>]
        /\ UNCHANGED <<tables, idle, channelNum, mergeChannelNum, pc, newDataAvailable, giving>>
        /\ Root \in Links /\ Root \in Merges
    BY MergeAssumption DEF Take, Links
  <1>2. /\ outQue[Root] \in Seq(Frames) /\ outQue'[Root] = << >>
        /\ outQue' \in [Links -> Seq(Frames)]
        /\ \A l \in Links : l # Root => outQue'[l] = outQue[l]
    BY <1>1, EmptyHolds DEF Inv, Types
  <1>3. calls' = calls /\ freeFrameList' = freeFrameList /\ lock' = lock
    BY <1>1 DEF giving
  <1>4. LinksKept
    <2>1. \A t \in Tasks : calls[t] \in Seq(CallType)
      BY DEF Inv, Types
    <2> QED BY <1>3, <2>1, SeqHolds DEF LinksKept
  <1>5. Others(QueueOf(Root), AtSink)
    BY <1>1, <1>2, <1>3 DEF Others, Idle, InCall, InList, Live, Sorting
  <1>6. PICK S : S = ToSet(outQue[Root])
    OBVIOUS
  <1>7. \A f \in S : Arrives(o, AtSink, f)
    <2>1. ASSUME NEW f \in S
          PROVE  Is(o, Root, channelNum'[f], f) /\ mergeChannelNum'[f] = channelNum'[f]
      BY <1>1, <1>6 DEF Inv, Numbered
    <2> QED BY <2>1, ArrivesAt
  <1>8. OnePlace' /\ Numbered(o)'
    <2>1. /\ QueueOf(Root) \in Places /\ AtSink \in Places /\ QueueOf(Root) # AtSink
          /\ Holds[QueueOf(Root)] = S /\ Holds'[QueueOf(Root)] = {}
          /\ Holds[AtSink] = held /\ Holds'[AtSink] = held \cup S
      BY <1>1, <1>2, <1>6, HoldsAt, HoldsNext, PlacesDiffer, EmptyHolds
    <2> QED BY <1>1, <1>4, <1>5, <1>7, <2>1, Moved
  <1>9. Types'
    BY <1>1, <1>2, <1>3, SeqHolds DEF Inv, Types, tables
  <1>10. NoDups'
    BY <1>2, <1>3, EmptyHolds DEF Inv, NoDups
  <1>11. Quiet'
    BY <1>1, <1>2, <1>3, TablesStay, EmptyHolds DEF Inv, Quiet
  <1>12. CallsOK' /\ Tables(o)'
    BY <1>1, <1>3, TablesStay DEF Inv, CallsOK
  <1> QED BY <1>8, <1>9, <1>10, <1>11, <1>12 DEF Inv

(* Frames do not move.                                                      *)
LEMMA TaskInv ==
  ASSUME NEW o, Inv(o), NEW m \in Merges, Start(m) \/ Notify(m)
  PROVE  Inv(o)'
  <1>1. /\ UNCHANGED <<tables, idle, outQue, held, channelNum, mergeChannelNum, giving>>
        /\ pc' \in [Merges -> Nat]
    BY DEF Start, Notify, Inv, Types
  <1>2. UNCHANGED placing /\ lock' = lock
    BY <1>1 DEF placing, giving
  <1>3. LinksKept
    <2>1. \A t \in Tasks : calls[t] \in Seq(CallType)
      BY DEF Inv, Types
    <2> QED BY <1>2, <2>1, SeqHolds DEF LinksKept, placing
  <1>4. Others(AtSink, AtSink)
    BY <1>2, StayPut DEF Others, InCall, placing
  <1>5. OnePlace' /\ Numbered(o)'
    BY <1>1, <1>3, <1>4, Stayed
  <1>6. Types' /\ NoDups'
    BY <1>1, <1>2, StayPut DEF Inv, Types, tables, placing
  <1>7. Quiet' /\ CallsOK' /\ Tables(o)'
    BY <1>1, <1>2, TablesStay DEF Inv, Quiet, CallsOK, placing
  <1> QED BY <1>5, <1>6, <1>7 DEF Inv

LEMMA CallsSame ==
  ASSUME Types, calls' = calls
  PROVE  LinksKept
  <1>1. \A t \in Tasks : calls[t] \in Seq(CallType)
    BY DEF Types
  <1> QED BY <1>1, SeqHolds DEF LinksKept

(* The number that a frame gets from a merge is that of its channel.        *)
LEMMA OutNumber ==
  ASSUME NEW o, NEW m \in Merges, TableOf(o, m), NEW i \in DOMAIN InQue[m], NEW f, NEW c,
         Is(o, InQue[m][i], c, f)
  PROVE  Is(o, m, outChNum[m][<<i, c>>], f)
  <1>1. PICK k : k = outChNum[m][<<i, c>>]
    OBVIOUS
  <1>2. k \in Chs(m) /\ inChan[m][k] = <<i, c>>
    BY <1>1 DEF TableOf, Is
  <1>3. PICK j \in DOMAIN InQue[m] : \E d \in Chs(InQue[m][j]) :
           inChan[m][k] = <<j, d>> /\ o[m][k] = o[InQue[m][j]][d]
    BY <1>2 DEF TableOf
  <1>4. o[m][k] = o[InQue[m][i]][c]
    BY <1>2, <1>3
  <1> QED BY <1>1, <1>2, <1>4 DEF Is

(* The number that a merge gave: the input and the number it had there.     *)
LEMMA InNumber ==
  ASSUME NEW o, NEW m \in Merges, TableOf(o, m), NEW f, NEW k, Is(o, m, k, f)
  PROVE  \E i \in DOMAIN InQue[m] : \E c \in Chs(InQue[m][i]) :
            inChan[m][k] = <<i, c>> /\ Is(o, InQue[m][i], c, f)
  <1>1. PICK i \in DOMAIN InQue[m] : \E c \in Chs(InQue[m][i]) :
           inChan[m][k] = <<i, c>> /\ o[m][k] = o[InQue[m][i]][c]
    BY DEF TableOf, Is
  <1> QED BY <1>1 DEF Is

LEMMA ProcessInv ==
  ASSUME NEW o, Inv(o), NEW m \in Merges, Process(m)
  PROVE  Inv(o)'
  <1>1. PICK i, l : i = pc[m] /\ l = InQue[m][i]
    OBVIOUS
  <1>2. /\ i \in DOMAIN InQue[m] /\ l \in Links /\ m \in Links
        /\ outQue[l] \in Seq(Frames) /\ outQue[m] \in Seq(Frames)
    BY <1>1, Inputs DEF Process, Links, Inv, Types
  <1>3. PICK S : S = ToSet(outQue[l])
    OBVIOUS
  <1>4. /\ outQue' = [outQue EXCEPT ![l] = << >>, ![m] = @ \o outQue[l]]
        /\ channelNum' = [f \in Frames |-> IF f \in S THEN outChNum[m][<<i, channelNum[f]>>]
                                           ELSE channelNum[f]]
        /\ mergeChannelNum' = [f \in Frames |-> IF f \in S THEN channelNum'[f]
                                                ELSE mergeChannelNum[f]]
        /\ pc' = [pc EXCEPT ![m] = @ + 1]
        /\ UNCHANGED <<tables, idle, held, newData, giving>>
    BY <1>1, <1>3 DEF Process, Renumber
  <1>5. calls' = calls /\ freeFrameList' = freeFrameList /\ lock' = lock /\ LinksKept
    BY <1>4, CallsSame DEF giving, Inv
  <1>6. pc' \in [Merges -> Nat]
    BY <1>4 DEF Inv, Types
  <1>7. CASE outQue[l] = << >>
    <2>1. S = {}
      BY <1>3, <1>7, EmptyHolds
    <2>2. outQue[m] \o << >> = outQue[m]
      BY <1>2, ConcatEmptySeq
    <2>3. outQue' = outQue
      BY <1>2, <1>4, <1>7, <2>2 DEF Inv, Types
    <2>4. channelNum' = channelNum /\ mergeChannelNum' = mergeChannelNum
      BY <1>4, <2>1 DEF Inv, Types
    <2>5. UNCHANGED placing
      BY <1>4, <1>5, <2>3 DEF placing
    <2>6. Others(AtSink, AtSink)
      BY <2>5, StayPut DEF Others, InCall, placing
    <2>7. OnePlace' /\ Numbered(o)'
      BY <1>4, <1>5, <2>4, <2>6, Stayed
    <2>8. Types' /\ NoDups'
      BY <1>4, <1>5, <1>6, <2>3, <2>4, <2>5, StayPut DEF Inv, Types, tables
    <2>9. Quiet' /\ CallsOK' /\ Tables(o)'
      BY <1>4, <1>5, <2>3, TablesStay DEF Inv, Quiet, CallsOK
    <2> QED BY <2>7, <2>8, <2>9 DEF Inv
  <1>8. CASE outQue[l] # << >>
    <2>1. TableOf(o, m) /\ Ready
      BY <1>2, <1>8, OutIsReady
    <2>2. l # m
      BY <1>1, <1>2, <2>1 DEF TableOf
    <2>3. /\ outQue'[l] = << >> /\ outQue'[m] = outQue[m] \o outQue[l]
          /\ \A k \in Links : k # l /\ k # m => outQue'[k] = outQue[k]
          /\ outQue' = [k \in Links |-> outQue'[k]]
      BY <1>2, <1>4, <2>2 DEF Inv, Types
    <2>4. /\ QueueOf(l) \in Places /\ QueueOf(m) \in Places /\ QueueOf(l) # QueueOf(m)
          /\ Holds[QueueOf(l)] = S /\ Holds'[QueueOf(l)] = {}
          /\ Holds[QueueOf(m)] = ToSet(outQue[m]) /\ Holds'[QueueOf(m)] = ToSet(outQue'[m])
      <3>1. QueueOf(l) # QueueOf(m)
        BY <2>2, PlacesDiffer
      <3>2. ToSet(outQue'[l]) = {}
        BY <2>3, EmptyHolds
      <3> QED BY <1>2, <1>3, <3>1, <3>2, HoldsAt, HoldsNext
    <2>5. ToSet(outQue[m]) \cap S = {}
      BY <2>4 DEF Inv, OnePlace
    <2>6. /\ outQue'[m] \in Seq(Frames) /\ ToSet(outQue'[m]) = ToSet(outQue[m]) \cup S
          /\ IsInjective(outQue'[m])
      BY <1>2, <1>3, <2>3, <2>5, ConcatHolds DEF Inv, NoDups
    <2>7. Others(QueueOf(l), QueueOf(m))
      BY <1>4, <1>5, <2>3 DEF Others, Idle, InCall, InList, Live, Sorting
    <2>8. S \subseteq Frames
      BY <1>2, <1>3, SeqHolds
    <2>9. ASSUME NEW f \in S
          PROVE  /\ Is(o, m, channelNum'[f], f) /\ mergeChannelNum'[f] = channelNum'[f]
                 /\ Arrives(o, QueueOf(m), f) /\ channelNum'[f] \in Int
      <3>1. Is(o, l, channelNum[f], f)
        BY <1>2, <1>3 DEF Inv, Numbered
      <3>2. channelNum'[f] = outChNum[m][<<i, channelNum[f]>>] /\ mergeChannelNum'[f] = channelNum'[f]
        BY <1>4, <2>8
      <3>3. Is(o, m, channelNum'[f], f)
        BY <1>1, <1>2, <2>1, <3>1, <3>2, OutNumber
      <3>4. channelNum'[f] \in Int
        BY <1>2, <3>3 DEF Is, Chs, Inv, Types
      <3> QED BY <1>2, <3>2, <3>3, <3>4, ArrivesAt
    <2>10. \A f \in Frames : f \notin S =>
              channelNum'[f] = channelNum[f] /\ mergeChannelNum'[f] = mergeChannelNum[f]
      BY <1>4
    <2>11. OnePlace' /\ Numbered(o)'
      BY <1>4, <1>5, <2>4, <2>6, <2>7, <2>9, <2>10, Moved
    <2>12. channelNum' \in [Frames -> Int] /\ mergeChannelNum' \in [Frames -> Int]
      BY <1>4, <2>9, <2>10 DEF Inv, Types
    <2>13. outQue' \in [Links -> Seq(Frames)]
      <3>1. \A k \in Links : outQue'[k] \in Seq(Frames)
        BY <2>3, <2>6, EmptyHolds DEF Inv, Types
      <3> QED BY <2>3, <3>1
    <2>14. Types'
      BY <1>4, <1>5, <1>6, <2>12, <2>13 DEF Inv, Types, tables
    <2>15. NoDups'
      BY <1>5, <2>3, <2>6, EmptyHolds DEF Inv, NoDups
    <2>16. Quiet' /\ CallsOK' /\ Tables(o)'
      BY <1>4, <1>5, <2>1, TablesStay DEF Inv, Quiet, CallsOK
    <2> QED BY <2>11, <2>14, <2>15, <2>16 DEF Inv
  <1> QED BY <1>7, <1>8

(* The innermost call of a task, and a change of it.                        *)
LEMMA TopIs ==
  ASSUME Types, NEW t \in Tasks, calls[t] # << >>
  PROVE  /\ Len(calls[t]) \in Nat /\ Len(calls[t]) >= 1 /\ DOMAIN calls[t] = 1 .. Len(calls[t])
         /\ Len(calls[t]) \in DOMAIN calls[t] /\ calls[t] \in Seq(CallType)
         /\ Top(t) = calls[t][Len(calls[t])] /\ Top(t) \in CallType
         /\ \A k \in DOMAIN calls[t] : calls[t][k] \in CallType
  <1>1. calls[t] \in Seq(CallType)
    BY DEF Types
  <1>2. Len(calls[t]) \in Nat /\ DOMAIN calls[t] = 1 .. Len(calls[t]) /\ Len(calls[t]) # 0
    BY <1>1, SeqHolds, EmptySeq
  <1>3. \A k \in DOMAIN calls[t] : calls[t][k] \in CallType
    BY <1>1, <1>2, ElementOfSeq
  <1>4. Len(calls[t]) >= 1 /\ Len(calls[t]) \in DOMAIN calls[t]
    BY <1>2
  <1> QED BY <1>1, <1>2, <1>3, <1>4 DEF Top

LEMMA TopSet ==
  ASSUME Types, NEW t \in Tasks, calls[t] # << >>, NEW c \in CallType,
         calls' = [calls EXCEPT ![t] = [calls[t] EXCEPT ![Len(calls[t])] = c]]
  PROVE  /\ calls' \in [Tasks -> Seq(CallType)] /\ \A u \in Tasks : u # t => calls'[u] = calls[u]
         /\ \A u \in Tasks : DOMAIN calls'[u] = DOMAIN calls[u]
         /\ calls'[t][Len(calls[t])] = c /\ Len(calls'[t]) = Len(calls[t])
         /\ \A k \in DOMAIN calls[t] : k # Len(calls[t]) => calls'[t][k] = calls[t][k]
         /\ calls'[t] # << >>
  <1>1. PICK K \in Nat : K = Len(calls[t])
    BY TopIs
  <1>2. /\ K >= 1 /\ K \in 1 .. K /\ DOMAIN calls[t] = 1 .. K /\ calls[t] \in Seq(CallType)
        /\ \A k \in 1 .. K : calls[t][k] \in CallType
    BY <1>1, TopIs
  <1>3. calls'[t] = [calls[t] EXCEPT ![K] = c] /\ \A u \in Tasks : u # t => calls'[u] = calls[u]
    BY <1>1 DEF Types
  <1>4. calls[t] = [k \in 1 .. K |-> calls[t][k]]
    BY <1>2
  <1>5. DOMAIN calls'[t] = 1 .. K /\ calls'[t][K] = c
        /\ \A k \in 1 .. K : k # K => calls'[t][k] = calls[t][k]
    BY <1>2, <1>3, <1>4
  <1>6. calls'[t] = [k \in 1 .. K |-> calls'[t][k]] /\ \A k \in 1 .. K : calls'[t][k] \in CallType
    BY <1>2, <1>3, <1>4, <1>5
  <1>7. calls'[t] \in Seq(CallType) /\ Len(calls'[t]) = K
    <2>1. calls'[t] \in [1 .. K -> CallType]
      BY <1>6
    <2>2. calls'[t] \in Seq(CallType)
      BY <1>1, <2>1, SeqDef
    <2> QED BY <1>5, <2>2, LenProperties
  <1>8. calls' \in [Tasks -> Seq(CallType)]
    BY <1>3, <1>7 DEF Types
  <1>9. \A u \in Tasks : DOMAIN calls'[u] = DOMAIN calls[u]
    BY <1>2, <1>3, <1>5
  <1>10. calls'[t] # << >>
    BY <1>2, <1>7, EmptySeq
  <1> QED BY <1>1, <1>2, <1>3, <1>5, <1>7, <1>8, <1>9, <1>10

(* What a change of the innermost call changes.                             *)
OtherCalls(t, K) == \A u \in Tasks, k \in Nat : u # t \/ k # K => InCall(u, k)' = InCall(u, k)
LiveElse(m) == \A l \in Merges, i \in Nat : l # m => (Live(l, i)' <=> Live(l, i))
LiveSame == \A l \in Merges, i \in Nat : Live(l, i)' <=> Live(l, i)

LEMMA TopChanged ==
  ASSUME Types, NEW t \in Tasks, calls[t] # << >>, NEW c \in CallType, c.link = Top(t).link,
         NEW K, K = Len(calls[t]), calls' = [calls EXCEPT ![t] = [calls[t] EXCEPT ![K] = c]]
  PROVE  /\ LinksKept
         /\ OtherCalls(t, K)
         /\ InCall(t, K) = ToSet(Top(t).frames)
         /\ InCall(t, K)' = ToSet(c.frames)
         /\ LiveElse(c.link) /\ (c.inQue = Top(t).inQue => LiveSame)
  <1>1. K \in Nat /\ K = Len(calls[t])
    BY TopIs
  <1>2. /\ K \in DOMAIN calls[t] /\ Top(t) = calls[t][K] /\ DOMAIN calls[t] = 1 .. K
        /\ \A u \in Tasks : calls[u] \in Seq(CallType)
    BY <1>1, TopIs DEF Types
  <1>3. /\ \A u \in Tasks : u # t => calls'[u] = calls[u]
        /\ \A u \in Tasks : DOMAIN calls'[u] = DOMAIN calls[u]
        /\ calls'[t][K] = c
        /\ \A k \in DOMAIN calls[t] : k # K => calls'[t][k] = calls[t][k]
    <2>1. /\ \A u \in Tasks : u # t => calls'[u] = calls[u]
          /\ \A u \in Tasks : DOMAIN calls'[u] = DOMAIN calls[u]
          /\ calls'[t][Len(calls[t])] = c
          /\ \A k \in DOMAIN calls[t] : k # Len(calls[t]) => calls'[t][k] = calls[t][k]
      BY <1>1, TopSet
    <2> QED BY <1>1, <2>1
  <1>4. \A u \in Tasks : \A k \in DOMAIN calls'[u] :
           k \in DOMAIN calls[u] /\ k \in Nat /\ calls'[u][k].link = calls[u][k].link
    <2>1. \A u \in Tasks : \A k \in DOMAIN calls[u] : k \in Nat
      BY <1>2, SeqHolds
    <2> QED BY <1>2, <1>3, <2>1
  <1>5. ASSUME NEW u \in Tasks, NEW k \in Nat, u # t \/ k # K PROVE InCall(u, k)' = InCall(u, k)
    BY <1>3, <1>5 DEF InCall
  <1>6. InCall(t, K) = ToSet(Top(t).frames) /\ InCall(t, K)' = ToSet(c.frames)
    BY <1>2, <1>3 DEF InCall
  <1>7. ASSUME NEW m \in Merges, NEW i \in Nat, m # c.link \/ c.inQue = Top(t).inQue
        PROVE  Live(m, i)' <=> Live(m, i)
    <2>1. ASSUME NEW u \in Tasks, NEW k \in DOMAIN calls[u]
          PROVE  Sorting(m, i, u, k)' <=> Sorting(m, i, u, k)
      <3>1. CASE u = t /\ k = K
        BY <1>2, <1>3, <1>7, <3>1 DEF Sorting
      <3>2. CASE u # t \/ k # K
        BY <1>3, <3>2 DEF Sorting
      <3> QED BY <3>1, <3>2
    <2> QED BY <1>3, <2>1 DEF Live
  <1> QED BY <1>1, <1>4, <1>5, <1>6, <1>7 DEF LinksKept, OtherCalls, LiveElse, LiveSame

(* Only one call is past the lock of a merge.                               *)
LEMMA OneCall ==
  ASSUME CallsOK, NEW t \in Tasks, NEW k \in DOMAIN calls[t], calls[t][k].inQue >= 1,
         NEW u \in Tasks, NEW j \in DOMAIN calls[u], calls[u][j].inQue >= 1,
         calls[u][j].link = calls[t][k].link
  PROVE  u = t /\ j = k
  <1>1. u = t
    BY DEF CallsOK
  <1> QED BY <1>1 DEF CallsOK

LEMMA PutEmptyInv ==
  ASSUME NEW o, Inv(o), NEW t \in Tasks, NEW S \in SUBSET held, PutEmpty(t, S)
  PROVE  Inv(o)'
  <1>1. PICK s : s = SetToSeq(S)
    OBVIOUS
  <1>2. /\ calls[t] = << >> /\ S # {} /\ held' = held \ S
        /\ calls' = [calls EXCEPT ![t] = <<Call(Root, s)>>]
        /\ UNCHANGED <<tables, idle, outQue, channelNum, mergeChannelNum, tasks, lock, freeFrameList>>
    BY <1>1 DEF PutEmpty
  <1>3. /\ S \subseteq Frames /\ s \in Seq(Frames) /\ ToSet(s) = S /\ IsInjective(s)
    <2>1. S \subseteq Frames /\ IsFiniteSet(S)
      BY MergeAssumption, FS_Subset DEF Inv, Types
    <2>2. s \in Seq(S)
      BY <1>1, <2>1, SetToSeqHolds
    <2> QED BY <1>1, <2>1, <2>2, SetToSeqHolds
  <1>4. Ready /\ Root \in Merges
    BY <1>2, OutIsReady
  <1>5. Call(Root, s) \in CallType /\ Call(Root, s).link = Root /\ Call(Root, s).frames = s
        /\ Call(Root, s).inQue = 0
    BY <1>3, <1>4 DEF Call, CallType
  <1>6. /\ \A u \in Tasks : u # t => calls'[u] = calls[u]
        /\ DOMAIN calls'[t] = {1} /\ calls'[t][1] = Call(Root, s) /\ DOMAIN calls[t] = {}
        /\ calls' \in [Tasks -> Seq(CallType)]
    <2>1. calls'[t] = <<Call(Root, s)>> /\ \A u \in Tasks : u # t => calls'[u] = calls[u]
      BY <1>2 DEF Inv, Types
    <2>2. <<Call(Root, s)>> \in Seq(CallType)
      BY <1>5
    <2>3. DOMAIN <<Call(Root, s)>> = {1} /\ <<Call(Root, s)>>[1] = Call(Root, s)
      OBVIOUS
    <2> QED BY <1>2, <2>1, <2>2, <2>3 DEF Inv, Types
  <1>7. LinksKept
    <2>1. \A u \in Tasks : calls[u] \in Seq(CallType)
      BY DEF Inv, Types
    <2> QED BY <1>6, <2>1, SeqHolds DEF LinksKept
  <1>8. \A m \in Merges, i \in Nat : InList(m, i)' = InList(m, i)
    <2>1. ASSUME NEW m \in Merges, NEW i \in Nat PROVE Live(m, i)' <=> Live(m, i)
      <3>1. \A k \in DOMAIN calls'[t] : ~Sorting(m, i, t, k)'
        BY <1>5, <1>6 DEF Sorting
      <3>2. \A u \in Tasks : u # t => \A k \in DOMAIN calls[u] :
                Sorting(m, i, u, k)' <=> Sorting(m, i, u, k)
        BY <1>6 DEF Sorting
      <3> QED BY <1>6, <3>1, <3>2 DEF Live
    <2> QED BY <1>2, <2>1 DEF InList
  <1>9. /\ InCall(t, 1) = {} /\ InCall(t, 1)' = S
        /\ \A u \in Tasks, k \in Nat : u # t \/ k # 1 => InCall(u, k)' = InCall(u, k)
    BY <1>3, <1>5, <1>6 DEF InCall
  <1>10. Others(AtSink, CallOf(t, 1))
    BY <1>2, <1>8, <1>9 DEF Others, Idle
  <1>11. \A f \in S : Arrives(o, CallOf(t, 1), f)
    <2>1. \A f \in S : Is(o, Root, mergeChannelNum'[f], f)
      BY <1>2 DEF Inv, Numbered
    <2>2. calls'[t][1].link = Root
      BY <1>5, <1>6
    <2> QED BY <2>1, <2>2, ArrivesAt
  <1>12. OnePlace' /\ Numbered(o)'
    <2>1. /\ AtSink \in Places /\ CallOf(t, 1) \in Places /\ AtSink # CallOf(t, 1)
          /\ Holds[AtSink] = held /\ Holds'[AtSink] = held \ S
          /\ Holds[CallOf(t, 1)] = {} /\ Holds'[CallOf(t, 1)] = S
      BY <1>2, <1>9, HoldsAt, HoldsNext, PlacesDiffer
    <2> QED BY <1>2, <1>7, <1>10, <1>11, <2>1, Moved
  <1>13. Types'
    BY <1>2, <1>6 DEF Inv, Types, tables, tasks
  <1>14. NoDups'
    BY <1>2, <1>3, <1>5, <1>6 DEF Inv, NoDups
  <1>15. Quiet' /\ Tables(o)'
    BY <1>2, <1>4, TablesStay DEF Inv, Quiet
  <1>16. CallsOK'
    BY <1>2, <1>5, <1>6 DEF Inv, CallsOK
  <1> QED BY <1>12, <1>13, <1>14, <1>15, <1>16 DEF Inv

(* A merge that nobody has locked sorts nothing.                            *)
LEMMA LockInv ==
  ASSUME NEW o, Inv(o), NEW t \in Tasks, Lock(t)
  PROVE  Inv(o)'
  <1>1. PICK K, m, c : K = Len(calls[t]) /\ m = Top(t).link /\ c = [Top(t) EXCEPT !.inQue = 1]
    OBVIOUS
  <1>2. /\ calls[t] # << >> /\ Top(t).inQue = 0 /\ lock[m] = NoTask
        /\ lock' = [lock EXCEPT ![m] = t]
        /\ freeFrameList' = [freeFrameList EXCEPT ![m] = [i \in DOMAIN @ |-> << >>]]
        /\ calls' = [calls EXCEPT ![t] = [calls[t] EXCEPT ![K] = c]]
        /\ UNCHANGED <<tables, idle, outQue, held, channelNum, mergeChannelNum, tasks>>
    BY <1>1 DEF Lock, Unlocked, Top
  <1>3. /\ K \in Nat /\ K \in DOMAIN calls[t] /\ Top(t) = calls[t][K] /\ Top(t) \in CallType
        /\ m \in Merges /\ c \in CallType /\ c.link = m /\ c.frames = Top(t).frames /\ c.inQue = 1
    BY <1>1, <1>2, TopIs DEF CallType, Inv
  <1>4. LinksKept /\ \A u \in Tasks, k \in Nat : InCall(u, k)' = InCall(u, k)
    <2>1. /\ Types /\ calls[t] # << >> /\ c \in CallType /\ c.link = Top(t).link
          /\ K = Len(calls[t]) /\ calls' = [calls EXCEPT ![t] = [calls[t] EXCEPT ![K] = c]]
      BY <1>1, <1>2, <1>3 DEF Inv
    <2>2. /\ LinksKept /\ OtherCalls(t, K)
          /\ InCall(t, K) = ToSet(Top(t).frames) /\ InCall(t, K)' = ToSet(c.frames)
      BY <2>1, TopChanged
    <2> QED BY <1>3, <2>2 DEF OtherCalls
  <1>5. /\ calls' \in [Tasks -> Seq(CallType)] /\ \A u \in Tasks : u # t => calls'[u] = calls[u]
        /\ \A u \in Tasks : DOMAIN calls'[u] = DOMAIN calls[u]
        /\ calls'[t][K] = c /\ \A k \in DOMAIN calls[t] : k # K => calls'[t][k] = calls[t][k]
    BY <1>1, <1>2, <1>3, TopSet DEF Inv
  <1>6. \A u \in Tasks : \A k \in DOMAIN calls[u] : calls[u][k].inQue >= 1 => calls[u][k].link # m
    BY <1>2, MergeAssumption DEF Inv, CallsOK
  <1>7. /\ \A l \in Merges : l # m => freeFrameList'[l] = freeFrameList[l]
        /\ \A i \in DOMAIN InQue[m] : freeFrameList'[m][i] = << >>
        /\ freeFrameList' = [l \in Merges |-> freeFrameList'[l]]
        /\ freeFrameList'[m] \in [DOMAIN InQue[m] -> Seq(Frames)]
    BY <1>2, <1>3, EmptyHolds DEF Inv, Types
  <1>8. ASSUME NEW l \in Merges, NEW i \in Nat PROVE InList(l, i)' = InList(l, i)
    <2>1. CASE l = m
      <3>1. ~Live(m, i)
        BY <1>6 DEF Live, Sorting
      <3> QED BY <1>7, <2>1, <3>1, EmptyHolds DEF InList
    <2>2. CASE l # m
      <3>1. LiveElse(m)
        BY <1>1, <1>2, <1>3, TopChanged DEF Inv
      <3>2. Live(l, i)' <=> Live(l, i)
        BY <2>2, <3>1 DEF LiveElse
      <3> QED BY <1>7, <2>2, <3>2 DEF InList
    <2> QED BY <2>1, <2>2
  <1>9. Others(AtSink, AtSink)
    BY <1>2, <1>4, <1>8 DEF Others, Idle
  <1>10. OnePlace' /\ Numbered(o)'
    BY <1>2, <1>4, <1>9, Stayed
  <1>11. Types'
    <2>1. lock' \in [Merges -> Tasks \cup {NoTask}]
      BY <1>2, <1>3 DEF Inv, Types
    <2>2. \A l \in Merges : freeFrameList'[l] \in [DOMAIN InQue[l] -> Seq(Frames)]
      BY <1>7 DEF Inv, Types
    <2> QED BY <1>2, <1>5, <1>7, <2>1, <2>2 DEF Inv, Types, tables, tasks
  <1>12. NoDups'
    <2>1. \A u \in Tasks : \A k \in DOMAIN calls'[u] : IsInjective(calls'[u][k].frames)
      <3>1. \A u \in Tasks : \A k \in DOMAIN calls[u] : IsInjective(calls[u][k].frames)
        BY DEF Inv, NoDups
      <3>2. calls[t][K].frames = c.frames
        BY <1>3
      <3>3. \A k \in DOMAIN calls[t] : IsInjective(calls'[t][k].frames)
        BY <1>3, <1>5, <3>1, <3>2
      <3> QED BY <1>5, <3>1, <3>3
    <2>2. \A l \in Merges : \A i \in DOMAIN InQue[l] : IsInjective(freeFrameList'[l][i])
      BY <1>7, EmptyHolds DEF Inv, NoDups
    <2> QED BY <1>2, <2>1, <2>2 DEF Inv, NoDups
  <1>13. Ready
    BY <1>2, OutIsReady
  <1>14. Quiet' /\ Tables(o)'
    BY <1>2, <1>13, TablesStay DEF Inv, Quiet
  <1>15. CallsOK'
    <2>1. lock'[m] = t /\ \A l \in Merges : l # m => lock'[l] = lock[l]
      BY <1>2, <1>3 DEF Inv, Types
    <2>2. ASSUME NEW u \in Tasks, NEW k \in DOMAIN calls[u], ~(u = t /\ k = K)
          PROVE  /\ calls'[u][k] = calls[u][k]
                 /\ calls[u][k].inQue >= 1 => lock'[calls[u][k].link] = u /\ calls[u][k].link # m
      <3>1. calls[u] \in Seq(CallType)
        BY DEF Inv, Types
      <3>2. calls[u][k] \in CallType
        BY <3>1, SeqHolds, ElementOfSeq
      <3>3. calls[u][k].link \in Merges
        BY <3>2 DEF CallType
      <3> QED BY <1>5, <1>6, <2>1, <2>2, <3>3 DEF Inv, CallsOK
    <2> QED BY <1>3, <1>5, <2>1, <2>2 DEF Inv, CallsOK
  <1> QED BY <1>10, <1>11, <1>12, <1>14, <1>15 DEF Inv

LEMMA SortInv ==
  ASSUME NEW o, Inv(o), NEW t \in Tasks, Sort(t)
  PROVE  Inv(o)'
  <1>1. PICK K, m, f, from, c :
          /\ K = Len(calls[t]) /\ m = Top(t).link /\ f = Head(Top(t).frames)
          /\ from = inChan[m][mergeChannelNum[f]]
          /\ c = [Top(t) EXCEPT !.frames = Tail(Top(t).frames)]
    OBVIOUS
  <1>2. /\ calls[t] # << >> /\ Top(t).inQue = 1 /\ Top(t).frames # << >>
        /\ channelNum' = [channelNum EXCEPT ![f] = from[2]]
        /\ mergeChannelNum' = [mergeChannelNum EXCEPT ![f] = from[2]]
        /\ freeFrameList' = [freeFrameList EXCEPT ![m][from[1]] = Append(@, f)]
        /\ calls' = [calls EXCEPT ![t] = [calls[t] EXCEPT ![K] = c]]
        /\ UNCHANGED <<tables, idle, outQue, held, tasks, lock>>
    BY <1>1 DEF Sort, SetMergeNumber, Top
  <1>3. /\ K \in Nat /\ K \in DOMAIN calls[t] /\ Top(t) = calls[t][K] /\ Top(t) \in CallType
        /\ m \in Merges /\ Top(t).frames \in Seq(Frames)
    BY <1>1, <1>2, TopIs DEF CallType, Inv
  <1>4. PICK s \in Seq(Frames) : s = Top(t).frames
    BY <1>3
  <1>5. IsInjective(s) /\ s # << >>
    BY <1>2, <1>3, <1>4 DEF Inv, NoDups
  <1>6. /\ Tail(s) \in Seq(Frames) /\ f \in Frames /\ f \in ToSet(s) /\ f = Head(s)
        /\ IsInjective(Tail(s)) /\ ToSet(Tail(s)) = ToSet(s) \ {f}
    BY <1>1, <1>4, <1>5, TailHolds
  <1>7. c \in CallType /\ c.link = m /\ c.frames = Tail(s) /\ c.inQue = 1
    BY <1>1, <1>2, <1>3, <1>4, <1>6 DEF CallType
  <1>8. TableOf(o, m) /\ Ready
    BY <1>2, <1>3, OutIsReady
  <1>9. Is(o, m, mergeChannelNum[f], f)
    BY <1>1, <1>3, <1>4, <1>6 DEF Inv, Numbered
  <1>10. PICK i \in DOMAIN InQue[m] : \E d \in Chs(InQue[m][i]) :
            from = <<i, d>> /\ Is(o, InQue[m][i], d, f)
    BY <1>1, <1>3, <1>8, <1>9, InNumber
  <1>11. PICK d \in Chs(InQue[m][i]) : from = <<i, d>> /\ Is(o, InQue[m][i], d, f)
    BY <1>10
  <1>12. from[1] = i /\ from[2] = d /\ d \in Int /\ i \in Nat /\ i >= 1
    <2>1. i \in Nat /\ i >= 1 /\ InQue[m][i] \in Links
      BY <1>3, Inputs
    <2> QED BY <1>11, <2>1 DEF Chs, Inv, Types
  <1>13. PICK u \in Seq(Frames) : u = freeFrameList[m][i]
    BY <1>3 DEF Inv, Types
  <1>14. /\ freeFrameList'[m][i] = Append(u, f)
         /\ \A j \in DOMAIN InQue[m] : j # i => freeFrameList'[m][j] = freeFrameList[m][j]
         /\ \A l \in Merges : l # m => freeFrameList'[l] = freeFrameList[l]
         /\ freeFrameList' = [l \in Merges |-> freeFrameList'[l]]
         /\ freeFrameList'[m] = [j \in DOMAIN InQue[m] |-> freeFrameList'[m][j]]
    <2>1. freeFrameList[m] \in [DOMAIN InQue[m] -> Seq(Frames)]
          /\ freeFrameList = [l \in Merges |-> freeFrameList[l]]
      BY <1>3 DEF Inv, Types
    <2>2. freeFrameList'[m] = [freeFrameList[m] EXCEPT ![i] = Append(@, f)]
      BY <1>2, <1>3, <1>12, <2>1
    <2> QED BY <1>2, <1>3, <1>12, <1>13, <2>1, <2>2
  <1>15. LinksKept /\ OtherCalls(t, K) /\ LiveSame
         /\ InCall(t, K) = ToSet(s) /\ InCall(t, K)' = ToSet(s) \ {f}
    <2>1. /\ Types /\ K = Len(calls[t]) /\ c.link = Top(t).link /\ c.inQue = Top(t).inQue
      BY <1>1, <1>2, <1>7 DEF Inv
    <2>2. /\ LinksKept /\ OtherCalls(t, K) /\ LiveSame
          /\ InCall(t, K) = ToSet(Top(t).frames) /\ InCall(t, K)' = ToSet(c.frames)
      BY <1>2, <1>7, <2>1, TopChanged
    <2> QED BY <1>4, <1>6, <1>7, <2>2
  <1>16. Live(m, i) /\ InList(m, i) = ToSet(u)
    <2>1. calls[t][K].link = m /\ calls[t][K].inQue = 1
      BY <1>1, <1>2, <1>3
    <2>2. 1 <= 1 /\ 1 <= i
      BY <1>12
    <2>3. Live(m, i)
      BY <1>3, <2>1, <2>2 DEF Live, Sorting
    <2> QED BY <1>13, <2>3 DEF InList
  <1>17. /\ CallOf(t, K) \in Places /\ ListOf(m, i) \in Places /\ CallOf(t, K) # ListOf(m, i)
         /\ Holds[CallOf(t, K)] = ToSet(s) /\ Holds'[CallOf(t, K)] = ToSet(s) \ {f}
         /\ Holds[ListOf(m, i)] = ToSet(u) /\ Holds'[ListOf(m, i)] = InList(m, i)'
    <2>1. CallOf(t, K) # ListOf(m, i)
      BY PlacesDiffer
    <2>2. /\ CallOf(t, K) \in Places /\ Holds[CallOf(t, K)] = InCall(t, K)
          /\ Holds'[CallOf(t, K)] = InCall(t, K)'
      BY <1>3, HoldsAt, HoldsNext
    <2>3. /\ ListOf(m, i) \in Places /\ Holds[ListOf(m, i)] = InList(m, i)
          /\ Holds'[ListOf(m, i)] = InList(m, i)'
      BY <1>3, <1>12, HoldsAt, HoldsNext
    <2> QED BY <1>15, <1>16, <2>1, <2>2, <2>3
  <1>18. f \notin ToSet(u) /\ IsInjective(u)
    BY <1>3, <1>6, <1>13, <1>17 DEF Inv, OnePlace, NoDups
  <1>19. /\ Append(u, f) \in Seq(Frames) /\ ToSet(Append(u, f)) = ToSet(u) \cup {f}
         /\ IsInjective(Append(u, f))
    BY <1>6, <1>18, AppendHolds
  <1>20. InList(m, i)' = ToSet(u) \cup {f}
         /\ \A l \in Merges, j \in Nat : l # m \/ j # i => InList(l, j)' = InList(l, j)
    <2>1. Live(m, i)'
      BY <1>3, <1>12, <1>15, <1>16 DEF LiveSame
    <2>2. InList(m, i)' = ToSet(u) \cup {f}
      BY <1>14, <1>19, <2>1 DEF InList
    <2>3. ASSUME NEW l \in Merges, NEW j \in Nat, l # m \/ j # i PROVE InList(l, j)' = InList(l, j)
      <3>1. Live(l, j)' <=> Live(l, j)
        BY <1>15 DEF LiveSame
      <3>2. j \in DOMAIN InQue[l] => freeFrameList'[l][j] = freeFrameList[l][j]
        BY <1>14, <2>3
      <3> QED BY <3>1, <3>2 DEF InList
    <2> QED BY <2>2, <2>3
  <1>21. Others(CallOf(t, K), ListOf(m, i))
    BY <1>2, <1>15, <1>20 DEF Others, OtherCalls, Idle
  <1>22. Arrives(o, ListOf(m, i), f)
    <2>1. channelNum'[f] = d /\ mergeChannelNum'[f] = d
      BY <1>2, <1>6, <1>12 DEF Inv, Types
    <2>2. Is(o, InQue[m][i], channelNum'[f], f) /\ mergeChannelNum'[f] = channelNum'[f]
      BY <1>11, <2>1
    <2> QED BY <1>3, <1>12, <2>2, ArrivesAt
  <1>23. OnePlace' /\ Numbered(o)'
    <2>1. PICK S : S = {f}
      OBVIOUS
    <2>2. \A g \in Frames : g \notin S =>
            channelNum'[g] = channelNum[g] /\ mergeChannelNum'[g] = mergeChannelNum[g]
      BY <1>2, <2>1 DEF Inv, Types
    <2>3. UNCHANGED tables /\ S \in SUBSET Holds[CallOf(t, K)]
      BY <1>2, <1>6, <1>17, <2>1
    <2>4. Holds'[CallOf(t, K)] = Holds[CallOf(t, K)] \ S
          /\ Holds'[ListOf(m, i)] = Holds[ListOf(m, i)] \cup S
          /\ \A g \in S : Arrives(o, ListOf(m, i), g)
      BY <1>17, <1>20, <1>22, <2>1
    <2> QED BY <1>15, <1>17, <1>21, <2>2, <2>3, <2>4, Moved
  <1>24. /\ calls' \in [Tasks -> Seq(CallType)] /\ \A v \in Tasks : v # t => calls'[v] = calls[v]
         /\ \A v \in Tasks : DOMAIN calls'[v] = DOMAIN calls[v]
         /\ calls'[t][K] = c /\ \A k \in DOMAIN calls[t] : k # K => calls'[t][k] = calls[t][k]
    <2>1. /\ calls' = [calls EXCEPT ![t] = [calls[t] EXCEPT ![Len(calls[t])] = c]]
          /\ Types /\ calls[t] # << >> /\ c \in CallType
      BY <1>1, <1>2, <1>7 DEF Inv
    <2>2. /\ calls' \in [Tasks -> Seq(CallType)] /\ \A v \in Tasks : v # t => calls'[v] = calls[v]
          /\ \A v \in Tasks : DOMAIN calls'[v] = DOMAIN calls[v]
          /\ calls'[t][Len(calls[t])] = c
          /\ \A k \in DOMAIN calls[t] : k # Len(calls[t]) => calls'[t][k] = calls[t][k]
      BY <2>1, TopSet
    <2> QED BY <1>1, <2>2
  <1>25. Types'
    <2>1. channelNum' \in [Frames -> Int] /\ mergeChannelNum' \in [Frames -> Int]
      BY <1>2, <1>12 DEF Inv, Types
    <2>2. \A l \in Merges : freeFrameList'[l] \in [DOMAIN InQue[l] -> Seq(Frames)]
      <3>1. \A j \in DOMAIN InQue[m] : freeFrameList'[m][j] \in Seq(Frames)
        BY <1>3, <1>14, <1>19 DEF Inv, Types
      <3>2. freeFrameList'[m] \in [DOMAIN InQue[m] -> Seq(Frames)]
        BY <1>14, <3>1
      <3> QED BY <1>14, <3>2 DEF Inv, Types
    <2> QED BY <1>2, <1>14, <1>24, <2>1, <2>2 DEF Inv, Types, tables, tasks
  <1>26. NoDups'
    <2>1. \A v \in Tasks : \A k \in DOMAIN calls'[v] : IsInjective(calls'[v][k].frames)
      BY <1>6, <1>7, <1>24 DEF Inv, NoDups
    <2>2. \A l \in Merges : \A j \in DOMAIN InQue[l] : IsInjective(freeFrameList'[l][j])
      BY <1>14, <1>19 DEF Inv, NoDups
    <2> QED BY <1>2, <2>1, <2>2 DEF Inv, NoDups
  <1>27. Quiet' /\ Tables(o)'
    BY <1>2, <1>8, TablesStay DEF Inv, Quiet
  <1>28. CallsOK'
    <2>1. \A v \in Tasks : \A k \in DOMAIN calls[v] :
             calls'[v][k].inQue = calls[v][k].inQue /\ calls'[v][k].link = calls[v][k].link
             /\ (calls[v][k].inQue > 1 => calls'[v][k].frames = calls[v][k].frames)
      <3>1. calls[t][K].inQue = 1 /\ calls[t][K].link = m
        BY <1>1, <1>2, <1>3
      <3>2. ASSUME NEW v \in Tasks, NEW k \in DOMAIN calls[v], v # t \/ k # K
            PROVE  calls'[v][k] = calls[v][k]
        BY <1>24, <3>2
      <3>3. ~(1 > 1)
        OBVIOUS
      <3> QED BY <1>7, <1>24, <3>1, <3>2, <3>3
    <2> QED BY <1>2, <1>24, <2>1 DEF Inv, CallsOK
  <1> QED BY <1>23, <1>25, <1>26, <1>27, <1>28 DEF Inv

(* A list is handed on, and is no longer the call's.                        *)
LEMMA GiveBackInv ==
  ASSUME NEW o, Inv(o), NEW t \in Tasks, GiveBack(t)
  PROVE  Inv(o)'
  <1>1. PICK K, m, i, l, u, c :
          /\ K = Len(calls[t]) /\ m = Top(t).link /\ i = Top(t).inQue
          /\ l = InQue[m][i] /\ u = freeFrameList[m][i]
          /\ c = [Top(t) EXCEPT !.inQue = i + 1]
    OBVIOUS
  <1>2. /\ calls[t] # << >> /\ Top(t).frames = << >> /\ i \in DOMAIN InQue[m]
        /\ l \in Merges /\ u # << >> =>
              /\ calls' = [calls EXCEPT ![t] = Append([calls[t] EXCEPT ![K] = c], Call(l, u))]
              /\ UNCHANGED idle
        /\ ~(l \in Merges /\ u # << >>) =>
              /\ calls' = [calls EXCEPT ![t] = [calls[t] EXCEPT ![K] = c]]
              /\ idle' = idle \cup {<<l, f>> : f \in ToSet(u)}
        /\ UNCHANGED <<tables, outQue, held, channelNum, mergeChannelNum, tasks, lock,
                       freeFrameList>>
    BY <1>1 DEF GiveBack, Top
  <1>3. /\ K \in Nat /\ K \in DOMAIN calls[t] /\ Top(t) = calls[t][K] /\ Top(t) \in CallType
        /\ m \in Merges /\ DOMAIN calls[t] = 1 .. K /\ calls[t] \in Seq(CallType)
    BY <1>1, <1>2, TopIs DEF CallType, Inv
  <1>4. i \in Nat /\ i >= 1 /\ l \in Links /\ u \in Seq(Frames) /\ IsInjective(u)
    BY <1>1, <1>2, <1>3, Inputs DEF Inv, Types, NoDups
  <1>5. c \in CallType /\ c.link = m /\ c.frames = << >> /\ c.inQue = i + 1
    <2>1. /\ Top(t).link = m /\ Top(t).frames = << >> /\ Top(t).inQue = i
          /\ Top(t) = [link |-> Top(t).link, frames |-> Top(t).frames, inQue |-> Top(t).inQue]
      BY <1>1, <1>2, <1>3 DEF CallType
    <2>2. c = [link |-> m, frames |-> << >>, inQue |-> i + 1]
      BY <1>1, <2>1
    <2>3. i + 1 \in Nat /\ << >> \in Seq(Frames)
      BY <1>4, EmptyHolds
    <2> QED BY <1>3, <2>2, <2>3 DEF CallType
  <1>6. /\ calls[t][K].link = m /\ calls[t][K].inQue = i /\ calls[t][K].frames = << >>
        /\ lock[m] = t
    <2>1. calls[t][K].link = m /\ calls[t][K].inQue = i /\ calls[t][K].frames = << >>
      BY <1>1, <1>2, <1>3
    <2>2. lock[m] = t
      BY <1>3, <1>4, <2>1 DEF Inv, CallsOK
    <2> QED BY <2>1, <2>2
  <1>7. Ready
    BY <1>2, OutIsReady
  (* The list is the call's until now.                                       *)
  <1>8. Live(m, i) /\ InList(m, i) = ToSet(u)
    <2>1. i <= i /\ 1 <= i
      BY <1>4
    <2>2. Live(m, i)
      BY <1>3, <1>6, <2>1 DEF Live, Sorting
    <2> QED BY <1>1, <1>2, <2>2 DEF InList
  (* In both cases the other calls are what they were.                       *)
  <1>9. ASSUME NEW X, calls' = [calls EXCEPT ![t] = X], X \in Seq(CallType),
               X[K] = c, 1 .. K \subseteq DOMAIN X,
               \A k \in 1 .. K : k # K => X[k] = calls[t][k],
               \A k \in DOMAIN X \ (1 .. K) : X[k].inQue = 0 /\ IsInjective(X[k].frames)
        PROVE  /\ Types' \/ idle' \notin SUBSET (Sources \X Frames)
               /\ NoDups' /\ Quiet' /\ Tables(o)' /\ CallsOK' /\ LinksKept
               /\ \A h \in Tasks, k \in Nat : h # t \/ k \in 1 .. K => InCall(h, k)' = InCall(h, k)
               /\ InList(m, i)' = {}
               /\ \A k \in Merges, j \in Nat : k # m \/ j # i => InList(k, j)' = InList(k, j)
    <2>1. calls'[t] = X /\ \A h \in Tasks : h # t => calls'[h] = calls[h]
      BY <1>9 DEF Inv, Types
    <2>2. calls' \in [Tasks -> Seq(CallType)]
      BY <1>9 DEF Inv, Types
    <2>3. Types' \/ idle' \notin SUBSET (Sources \X Frames)
      BY <1>2, <2>2 DEF Inv, Types, tables, tasks
    <2>4. ASSUME NEW k \in DOMAIN X PROVE IsInjective(X[k].frames)
      <3>1. CASE k = K
        BY <1>5, <1>9, <3>1, EmptyHolds
      <3>2. CASE k \in 1 .. K /\ k # K
        BY <1>3, <1>9, <3>2 DEF Inv, NoDups
      <3>3. CASE k \notin 1 .. K
        BY <1>9, <3>3
      <3> QED BY <3>1, <3>2, <3>3
    <2>5. NoDups'
      BY <1>2, <2>1, <2>4 DEF Inv, NoDups
    <2>6. Quiet' /\ Tables(o)'
      BY <1>2, <1>7, TablesStay DEF Inv, Quiet
    <2>7. \A h \in Tasks : \A k \in DOMAIN calls[h] : k \in Nat /\ calls[h][k] \in CallType
      <3>1. \A h \in Tasks : calls[h] \in Seq(CallType)
        BY DEF Inv, Types
      <3> QED BY <3>1, SeqHolds, ElementOfSeq
    <2>8. \A k \in DOMAIN X : k \in Nat
      BY <1>9, SeqHolds
    <2>9. LinksKept
      BY <1>3, <1>5, <1>6, <1>9, <2>1, <2>7, <2>8 DEF LinksKept
    <2>10. ASSUME NEW h \in Tasks, NEW k \in Nat, h # t \/ k \in 1 .. K
           PROVE  InCall(h, k)' = InCall(h, k)
      <3>1. CASE h # t
        BY <2>1, <3>1 DEF InCall
      <3>2. CASE h = t /\ k = K
        BY <1>3, <1>5, <1>6, <1>9, <2>1, <2>10, <3>2 DEF InCall
      <3>3. CASE h = t /\ k # K
        BY <1>3, <1>9, <2>1, <2>10, <3>3 DEF InCall
      <3> QED BY <3>1, <3>2, <3>3
    (* A call of the next state past a lock is a call of this one.           *)
    <2>11. ASSUME NEW h \in Tasks, NEW k \in DOMAIN calls'[h], calls'[h][k].inQue >= 1
           PROVE  /\ k \in DOMAIN calls[h] /\ calls[h][k].link = calls'[h][k].link
                  /\ calls[h][k].inQue >= 1 /\ ((h = t /\ k = K) \/ calls'[h][k] = calls[h][k])
      <3>1. CASE h # t
        BY <2>1, <2>11, <3>1
      <3>2. CASE h = t /\ k = K
        BY <1>3, <1>4, <1>5, <1>6, <1>9, <2>1, <3>2
      <3>3. CASE h = t /\ k # K
        <4>1. ~(0 >= 1)
          OBVIOUS
        <4>2. k \in 1 .. K
          BY <1>9, <2>1, <2>11, <3>3, <4>1
        <4> QED BY <1>3, <1>9, <2>1, <2>11, <3>3, <4>2
      <3> QED BY <3>1, <3>2, <3>3
    <2>12. ASSUME NEW h \in Tasks, NEW k \in DOMAIN calls'[h]
           PROVE  /\ calls'[h][k].inQue > 1 => calls'[h][k].frames = << >>
                  /\ calls'[h][k].inQue >= 1 =>
                        /\ lock'[calls'[h][k].link] = h
                        /\ \A j \in DOMAIN calls'[h] :
                              calls'[h][j].inQue >= 1 /\ calls'[h][j].link = calls'[h][k].link
                              => j = k
      <3>1. ASSUME calls'[h][k].inQue >= 1
            PROVE  lock'[calls'[h][k].link] = h
        BY <1>2, <2>11, <3>1 DEF Inv, CallsOK
      <3>2. ASSUME calls'[h][k].inQue >= 1, NEW j \in DOMAIN calls'[h],
                   calls'[h][j].inQue >= 1 /\ calls'[h][j].link = calls'[h][k].link
            PROVE  j = k
        BY <2>11, <3>2 DEF Inv, CallsOK
      <3>3. ASSUME calls'[h][k].inQue > 1 PROVE calls'[h][k].frames = << >>
        <4>1. calls'[h][k].inQue >= 1
          <5>1. calls'[h] \in Seq(CallType)
            BY <2>2
          <5>2. calls'[h][k] \in CallType
            BY <5>1, SeqHolds, ElementOfSeq
          <5>3. calls'[h][k].inQue \in Nat
            BY <5>2 DEF CallType
          <5> QED BY <3>3, <5>3
        <4>2. CASE h = t /\ k = K
          BY <1>5, <1>9, <2>1, <4>2
        <4>3. CASE ~(h = t /\ k = K)
          BY <2>11, <3>3, <4>1, <4>3 DEF Inv, CallsOK
        <4> QED BY <4>2, <4>3
      <3> QED BY <3>1, <3>2, <3>3
    <2>13. CallsOK'
      BY <2>12 DEF CallsOK
    <2>14. ~Live(m, i)'
      <3>1. ASSUME NEW h \in Tasks, NEW k \in DOMAIN calls'[h], Sorting(m, i, h, k)'
            PROVE  FALSE
        <4>1. calls'[h][k].link = m /\ calls'[h][k].inQue >= 1 /\ calls'[h][k].inQue <= i
          <5>1. calls'[h] \in Seq(CallType)
            BY <2>2
          <5>2. calls'[h][k] \in CallType
            BY <5>1, SeqHolds, ElementOfSeq
          <5>3. calls'[h][k].inQue \in Nat
            BY <5>2 DEF CallType
          <5> QED BY <3>1, <5>3 DEF Sorting
        <4>2. /\ k \in DOMAIN calls[h] /\ calls[h][k].link = m /\ calls[h][k].inQue >= 1
          BY <2>11, <4>1
        <4>3. h = t /\ k = K
          BY <1>3, <1>4, <1>6, <4>2, OneCall DEF Inv
        <4>4. calls'[h][k].inQue = i + 1
          BY <1>5, <1>9, <2>1, <4>3
        <4> QED BY <1>4, <4>1, <4>4
      <3> QED BY <3>1 DEF Live
    <2>15. ASSUME NEW k \in Merges, NEW j \in Nat, k # m \/ j # i
           PROVE  Live(k, j)' <=> Live(k, j)
      <3>1. ASSUME NEW h \in Tasks, NEW a \in DOMAIN calls[h]
            PROVE  a \in DOMAIN calls'[h] /\ (Sorting(k, j, h, a)' <=> Sorting(k, j, h, a))
        <4>1. CASE h # t
          BY <2>1, <4>1 DEF Sorting
        <4>2. CASE h = t /\ a = K
          <5>1. 1 <= i + 1 /\ 1 <= i /\ (j # i => (i + 1 <= j <=> i <= j))
            BY <1>4
          <5> QED BY <1>3, <1>5, <1>6, <1>9, <2>1, <2>15, <4>2, <5>1 DEF Sorting
        <4>3. CASE h = t /\ a # K
          BY <1>3, <1>9, <2>1, <4>3 DEF Sorting
        <4> QED BY <4>1, <4>2, <4>3
      <3>2. ASSUME NEW h \in Tasks, NEW a \in DOMAIN calls'[h], Sorting(k, j, h, a)'
            PROVE  a \in DOMAIN calls[h]
        <4>1. CASE h # t
          BY <2>1, <4>1
        <4>2. CASE h = t
          <5>1. ~(1 <= 0)
            OBVIOUS
          <5> QED BY <1>3, <1>9, <2>1, <3>2, <4>2, <5>1 DEF Sorting
        <4> QED BY <4>1, <4>2
      <3> QED BY <3>1, <3>2 DEF Live
    <2>16. InList(m, i)' = {}
           /\ \A k \in Merges, j \in Nat : k # m \/ j # i => InList(k, j)' = InList(k, j)
      BY <1>2, <2>14, <2>15 DEF InList
    <2> QED BY <2>3, <2>5, <2>6, <2>9, <2>10, <2>13, <2>16
  <1>10. PICK Y \in Seq(CallType) :
            /\ Y = [calls[t] EXCEPT ![K] = c] /\ DOMAIN Y = 1 .. K /\ Len(Y) = K
            /\ Y[K] = c /\ \A k \in 1 .. K : k # K => Y[k] = calls[t][k]
    <2>1. K = Len(calls[t]) /\ K \in 1 .. Len(calls[t])
      BY <1>1, <1>3
    <2>2. /\ [calls[t] EXCEPT ![K] = c] \in Seq(CallType)
          /\ Len([calls[t] EXCEPT ![K] = c]) = Len(calls[t])
      BY <1>3, <1>5, <2>1, ExceptSeq
    <2>3. DOMAIN [calls[t] EXCEPT ![K] = c] = 1 .. K
      BY <1>3
    <2> QED BY <1>3, <2>1, <2>2, <2>3
  <1>11. \A f \in ToSet(u) : f \in Frames /\ Is(o, l, channelNum[f], f) /\ mergeChannelNum[f] = channelNum[f]
    <2>1. ToSet(u) \subseteq Frames
      BY <1>4, SeqHolds
    <2>2. \A f \in InList(m, i) : Is(o, l, channelNum[f], f) /\ mergeChannelNum[f] = channelNum[f]
      BY <1>1, <1>3, <1>4 DEF Inv, Numbered
    <2> QED BY <1>8, <2>1, <2>2
  <1>12. CASE l \in Merges /\ u # << >>
    <2>1. PICK d, X : d = Call(l, u) /\ X = Append(Y, d)
      OBVIOUS
    <2>2. d \in CallType /\ d.link = l /\ d.frames = u /\ d.inQue = 0
      BY <1>4, <1>12, <2>1 DEF Call, CallType
    <2>3. /\ X \in Seq(CallType) /\ X[K] = c /\ \A k \in 1 .. K : k # K => X[k] = calls[t][k]
          /\ DOMAIN X = 1 .. K + 1 /\ X[K + 1] = d
      <3>1. /\ X \in Seq(CallType) /\ Len(X) = K + 1 /\ X[K + 1] = d
            /\ \A k \in 1 .. K : X[k] = Y[k]
        BY <1>10, <2>1, <2>2, AppendProperties
      <3>2. DOMAIN X = 1 .. K + 1
        BY <3>1, SeqHolds
      <3> QED BY <1>3, <1>10, <3>1, <3>2
    <2>4. 1 .. K \subseteq DOMAIN X /\ \A k \in DOMAIN X \ (1 .. K) : k = K + 1
      BY <1>3, <2>3
    <2>5. calls' = [calls EXCEPT ![t] = X] /\ idle' = idle
      BY <1>2, <1>10, <1>12, <2>1
    <2>6. \A k \in DOMAIN X \ (1 .. K) : X[k].inQue = 0 /\ IsInjective(X[k].frames)
      BY <1>4, <2>2, <2>3, <2>4
    <2>7. /\ Types' \/ idle' \notin SUBSET (Sources \X Frames)
          /\ NoDups' /\ Quiet' /\ Tables(o)' /\ CallsOK' /\ LinksKept
          /\ \A h \in Tasks, k \in Nat : h # t \/ k \in 1 .. K => InCall(h, k)' = InCall(h, k)
          /\ InList(m, i)' = {}
          /\ \A k \in Merges, j \in Nat : k # m \/ j # i => InList(k, j)' = InList(k, j)
      BY <1>9, <2>3, <2>4, <2>5, <2>6
    <2>8. Types'
      BY <2>5, <2>7 DEF Inv, Types
    <2>9. calls'[t] = X
      BY <2>5 DEF Inv, Types
    <2>10. K + 1 \in Nat /\ K + 1 \notin 1 .. K /\ K + 1 \in 1 .. K + 1
           /\ \A k \in Nat : k \in 1 .. K + 1 /\ k # K + 1 => k \in 1 .. K
      BY <1>3
    <2>11. /\ InCall(t, K + 1) = {} /\ InCall(t, K + 1)' = ToSet(u)
           /\ \A k \in Nat : k \notin 1 .. K /\ k # K + 1 => InCall(t, k)' = InCall(t, k)
      BY <1>3, <2>2, <2>3, <2>9, <2>10 DEF InCall
    <2>12. PICK N \in Nat : N = K + 1
      BY <2>10
    <2>13. /\ ListOf(m, i) \in Places /\ CallOf(t, N) \in Places /\ ListOf(m, i) # CallOf(t, N)
           /\ Holds[ListOf(m, i)] = ToSet(u) /\ Holds'[ListOf(m, i)] = {}
           /\ Holds[CallOf(t, N)] = {} /\ Holds'[CallOf(t, N)] = ToSet(u)
      <3>1. ListOf(m, i) # CallOf(t, N)
        BY PlacesDiffer
      <3>2. /\ ListOf(m, i) \in Places /\ Holds[ListOf(m, i)] = InList(m, i)
            /\ Holds'[ListOf(m, i)] = InList(m, i)'
        BY <1>3, <1>4, HoldsAt, HoldsNext
      <3>3. /\ CallOf(t, N) \in Places /\ Holds[CallOf(t, N)] = InCall(t, N)
            /\ Holds'[CallOf(t, N)] = InCall(t, N)'
        BY HoldsAt, HoldsNext
      <3>4. InCall(t, N) = {} /\ InCall(t, N)' = ToSet(u)
        BY <2>11, <2>12
      <3> QED BY <1>8, <2>7, <3>1, <3>2, <3>3, <3>4
    <2>14. Others(ListOf(m, i), CallOf(t, N))
      <3>1. \A h \in Tasks, k \in Nat : CallOf(h, k) = CallOf(t, N) \/ InCall(h, k)' = InCall(h, k)
        BY <2>7, <2>11, <2>12
      <3> QED BY <1>2, <2>5, <2>7, <3>1 DEF Others, Idle
    <2>15. ASSUME NEW f \in ToSet(u) PROVE Arrives(o, CallOf(t, N), f)
      <3>1. Is(o, l, mergeChannelNum'[f], f)
        BY <1>2, <1>11
      <3>2. calls'[t][N].link = l
        BY <2>2, <2>3, <2>9, <2>12
      <3> QED BY <3>1, <3>2, ArrivesAt
    <2>16. OnePlace' /\ Numbered(o)'
      <3>1. PICK S : S = ToSet(u)
        OBVIOUS
      <3>2. /\ S \in SUBSET Holds[ListOf(m, i)] /\ Holds'[ListOf(m, i)] = Holds[ListOf(m, i)] \ S
            /\ Holds'[CallOf(t, N)] = Holds[CallOf(t, N)] \cup S
            /\ \A f \in S : Arrives(o, CallOf(t, N), f)
        BY <2>13, <2>15, <3>1
      <3>3. /\ UNCHANGED tables /\ LinksKept
            /\ \A f \in Frames : f \notin S =>
                  channelNum'[f] = channelNum[f] /\ mergeChannelNum'[f] = mergeChannelNum[f]
        BY <1>2, <2>7
      <3> QED BY <2>13, <2>14, <3>2, <3>3, Moved
    <2> QED BY <2>7, <2>8, <2>16 DEF Inv
  <1>13. CASE ~(l \in Merges /\ u # << >>)
    <2>1. calls' = [calls EXCEPT ![t] = Y] /\ idle' = idle \cup {<<l, f>> : f \in ToSet(u)}
      BY <1>2, <1>10, <1>13
    <2>2. /\ Types' \/ idle' \notin SUBSET (Sources \X Frames)
          /\ NoDups' /\ Quiet' /\ Tables(o)' /\ CallsOK' /\ LinksKept
          /\ \A h \in Tasks, k \in Nat : h # t \/ k \in 1 .. K => InCall(h, k)' = InCall(h, k)
          /\ InList(m, i)' = {}
          /\ \A k \in Merges, j \in Nat : k # m \/ j # i => InList(k, j)' = InList(k, j)
      BY <1>9, <1>10, <2>1
    <2>3. \A h \in Tasks, k \in Nat : InCall(h, k)' = InCall(h, k)
      <3>1. calls'[t] = Y
        BY <2>1 DEF Inv, Types
      <3>2. \A k \in Nat : k \notin 1 .. K => InCall(t, k)' = InCall(t, k)
        BY <1>3, <1>10, <3>1 DEF InCall
      <3> QED BY <2>2, <3>2
    <2>4. CASE l \in Merges
      <3>1. u = << >> /\ ToSet(u) = {}
        BY <1>13, <2>4, EmptyHolds
      <3>2. idle' = idle
        BY <2>1, <3>1
      <3>3. Types'
        BY <2>2, <3>2 DEF Inv, Types
      <3>4. \A k \in Merges, j \in Nat : InList(k, j)' = InList(k, j)
        BY <1>8, <2>2, <3>1
      <3>5. Others(AtSink, AtSink)
        BY <1>2, <2>3, <3>2, <3>4 DEF Others, Idle
      <3>6. OnePlace' /\ Numbered(o)'
        BY <1>2, <2>2, <3>5, Stayed
      <3> QED BY <2>2, <3>3, <3>6 DEF Inv
    <2>5. CASE l \in Sources
      <3>1. /\ Idle(l)' = Idle(l) \cup ToSet(u)
            /\ \A s \in Sources : s # l => Idle(s)' = Idle(s)
        BY <1>11, <2>1 DEF Idle
      <3>2. idle' \in SUBSET (Sources \X Frames)
        BY <1>11, <2>1, <2>5 DEF Inv, Types
      <3>3. Types'
        BY <2>2, <3>2
      <3>4. /\ ListOf(m, i) \in Places /\ IdleAt(l) \in Places /\ ListOf(m, i) # IdleAt(l)
            /\ Holds[ListOf(m, i)] = ToSet(u) /\ Holds'[ListOf(m, i)] = {}
            /\ Holds[IdleAt(l)] = Idle(l) /\ Holds'[IdleAt(l)] = Idle(l) \cup ToSet(u)
        <4>1. ListOf(m, i) # IdleAt(l)
          BY PlacesDiffer
        <4>2. /\ ListOf(m, i) \in Places /\ Holds[ListOf(m, i)] = InList(m, i)
              /\ Holds'[ListOf(m, i)] = InList(m, i)'
          BY <1>3, <1>4, HoldsAt, HoldsNext
        <4>3. /\ IdleAt(l) \in Places /\ Holds[IdleAt(l)] = Idle(l)
              /\ Holds'[IdleAt(l)] = Idle(l)'
          BY <2>5, HoldsAt, HoldsNext
        <4> QED BY <1>8, <2>2, <3>1, <4>1, <4>2, <4>3
      <3>5. Others(ListOf(m, i), IdleAt(l))
        BY <1>2, <2>2, <2>3, <3>1 DEF Others
      <3>6. ASSUME NEW f \in ToSet(u) PROVE Arrives(o, IdleAt(l), f)
        <4>1. o[l][channelNum[f]] = <<SourceOf[f], ChannelOf[f]>> /\ channelNum[f] \in Chs(l)
          BY <1>11 DEF Is
        <4>2. o[l][channelNum[f]] = <<l, channelNum[f]>>
          BY <2>5, <4>1 DEF Inv, Tables
        <4>3. l = SourceOf[f] /\ channelNum'[f] = ChannelOf[f]
          BY <1>2, <4>1, <4>2
        <4> QED BY <2>5, <4>3, ArrivesAt
      <3>7. OnePlace' /\ Numbered(o)'
        BY <1>2, <2>2, <3>4, <3>5, <3>6, Moved
      <3> QED BY <2>2, <3>3, <3>7 DEF Inv
    <2> QED BY <1>4, <2>4, <2>5 DEF Links
  <1> QED BY <1>12, <1>13

(* The call is done with all its frames, and its lists are not used again.  *)
LEMMA UnlockInv ==
  ASSUME NEW o, Inv(o), NEW t \in Tasks, Unlock(t)
  PROVE  Inv(o)'
  <1>1. PICK K, m : K = Len(calls[t]) /\ m = Top(t).link
    OBVIOUS
  <1>2. /\ calls[t] # << >> /\ Top(t).inQue > Len(InQue[m])
        /\ lock' = [lock EXCEPT ![m] = NoTask]
        /\ calls' = [calls EXCEPT ![t] = Front(@)]
        /\ freeFrameList' = [freeFrameList EXCEPT ![m] = [i \in DOMAIN @ |-> << >>]]
        /\ UNCHANGED <<tables, idle, outQue, held, channelNum, mergeChannelNum, tasks>>
    BY <1>1 DEF Unlock
  <1>3. /\ K \in Nat /\ K \in DOMAIN calls[t] /\ Top(t) = calls[t][K] /\ Top(t) \in CallType
        /\ m \in Merges /\ DOMAIN calls[t] = 1 .. K /\ calls[t] \in Seq(CallType) /\ K >= 1
        /\ \A k \in DOMAIN calls[t] : calls[t][k] \in CallType
    BY <1>1, <1>2, TopIs DEF CallType, Inv
  <1>4. Len(InQue[m]) \in Nat /\ DOMAIN InQue[m] = 1 .. Len(InQue[m])
    BY <1>3, Inputs
  <1>5. /\ calls[t][K].link = m /\ calls[t][K].inQue \in Nat /\ calls[t][K].inQue >= 1
        /\ \A i \in DOMAIN InQue[m] : ~(calls[t][K].inQue <= i)
    <2>1. /\ Top(t).inQue \in Nat /\ Top(t).inQue > Len(InQue[m])
          /\ calls[t][K].link = m /\ calls[t][K].inQue = Top(t).inQue
      BY <1>1, <1>2, <1>3 DEF CallType
    <2> QED BY <1>4, <2>1
  <1>6. Ready /\ TableOf(o, m)
    BY <1>2, <1>3, OutIsReady
  <1>7. calls[t][K].frames = << >>
    <2>1. CASE calls[t][K].inQue > 1
      BY <1>3, <2>1 DEF Inv, CallsOK
    <2>2. CASE ~(calls[t][K].inQue > 1)
      <3>1. DOMAIN InQue[m] = {}
        <4>1. calls[t][K].inQue = 1
          BY <1>5, <2>2
        <4>2. \A i \in DOMAIN InQue[m] : ~(1 <= i)
          BY <1>5, <4>1
        <4> QED BY <1>4, <4>2
      <3>2. ASSUME NEW f \in ToSet(calls[t][K].frames) PROVE FALSE
        <4>1. Is(o, m, mergeChannelNum[f], f)
          BY <1>3, <1>5 DEF Inv, Numbered
        <4> QED BY <1>3, <1>6, <3>1, <4>1, InNumber
      <3>3. calls[t][K].frames \in Seq(Frames)
        BY <1>3 DEF CallType
      <3> QED BY <3>2, <3>3, SeqHolds
    <2> QED BY <2>1, <2>2
  <1>8. /\ calls'[t] = SubSeq(calls[t], 1, K - 1) /\ \A u \in Tasks : u # t => calls'[u] = calls[u]
        /\ calls'[t] \in Seq(CallType) /\ DOMAIN calls'[t] = 1 .. K - 1
        /\ \A k \in 1 .. K - 1 : k \in 1 .. K /\ k # K /\ calls'[t][k] = calls[t][k]
        /\ calls' \in [Tasks -> Seq(CallType)]
    <2>1. calls'[t] = SubSeq(calls[t], 1, K - 1) /\ \A u \in Tasks : u # t => calls'[u] = calls[u]
      BY <1>1, <1>2 DEF Front, Inv, Types
    <2>2. \A k \in 1 .. K - 1 : calls[t][k] \in CallType
      BY <1>3
    <2>3. /\ SubSeq(calls[t], 1, K - 1) \in Seq(CallType)
          /\ Len(SubSeq(calls[t], 1, K - 1)) = IF 1 <= K - 1 THEN (K - 1) - 1 + 1 ELSE 0
          /\ \A k \in 1 .. (K - 1) - 1 + 1 : SubSeq(calls[t], 1, K - 1)[k] = calls[t][1 + k - 1]
      BY <1>3, <2>2, SubSeqProperties
    <2>4. Len(SubSeq(calls[t], 1, K - 1)) = K - 1
      BY <1>3, <2>3
    <2>5. DOMAIN calls'[t] = 1 .. K - 1
      BY <2>1, <2>3, <2>4, SeqHolds
    <2>6. \A k \in 1 .. K - 1 : k \in 1 .. K /\ k # K /\ 1 + k - 1 = k /\ k \in 1 .. (K - 1) - 1 + 1
      BY <1>3
    <2>7. \A k \in 1 .. K - 1 : calls'[t][k] = calls[t][k]
      BY <2>1, <2>3, <2>6
    <2>8. calls' \in [Tasks -> Seq(CallType)]
      BY <1>2, <2>1, <2>3 DEF Inv, Types
    <2> QED BY <2>1, <2>3, <2>5, <2>6, <2>7, <2>8
  <1>9. \A u \in Tasks : \A k \in DOMAIN calls'[u] :
           k \in Nat /\ k \in DOMAIN calls[u] /\ calls'[u][k] = calls[u][k] /\ (u # t \/ k # K)
    <2>1. \A u \in Tasks : \A k \in DOMAIN calls[u] : k \in Nat
      <3>1. \A u \in Tasks : calls[u] \in Seq(CallType)
        BY DEF Inv, Types
      <3> QED BY <3>1, SeqHolds
    <2> QED BY <1>3, <1>8, <2>1
  <1>10. \A u \in Tasks : \A k \in DOMAIN calls[u] : u # t \/ k # K => k \in DOMAIN calls'[u]
    <2>1. \A k \in 1 .. K : k # K => k \in 1 .. K - 1
      BY <1>3
    <2> QED BY <1>3, <1>8, <2>1
  <1>11. LinksKept
    BY <1>9 DEF LinksKept
  <1>12. ASSUME NEW u \in Tasks, NEW k \in Nat PROVE InCall(u, k)' = InCall(u, k)
    <2>1. CASE u = t /\ k = K
      BY <1>3, <1>7, <1>9, <2>1, EmptyHolds DEF InCall
    <2>2. CASE u # t \/ k # K
      BY <1>9, <1>10, <2>2 DEF InCall
    <2> QED BY <2>1, <2>2
  <1>13. /\ \A l \in Merges : l # m => freeFrameList'[l] = freeFrameList[l]
         /\ \A i \in DOMAIN InQue[m] : freeFrameList'[m][i] = << >>
         /\ freeFrameList' = [l \in Merges |-> freeFrameList'[l]]
         /\ freeFrameList'[m] \in [DOMAIN InQue[m] -> Seq(Frames)]
    BY <1>2, <1>3, EmptyHolds DEF Inv, Types
  <1>14. \A u \in Tasks : \A k \in DOMAIN calls[u] :
            calls[u][k].link = m /\ calls[u][k].inQue >= 1 => u = t /\ k = K
    BY <1>3, <1>5, OneCall DEF Inv
  <1>15. ASSUME NEW l \in Merges, NEW i \in Nat PROVE InList(l, i)' = InList(l, i)
    <2>1. CASE l = m
      <3>1. ASSUME i \in DOMAIN InQue[m], NEW u \in Tasks, NEW k \in DOMAIN calls[u], Sorting(m, i, u, k)
            PROVE  FALSE
        <4>1. calls[u] \in Seq(CallType)
          BY DEF Inv, Types
        <4>2. calls[u][k] \in CallType
          BY <4>1, SeqHolds, ElementOfSeq
        <4>3. calls[u][k].inQue \in Nat
          BY <4>2 DEF CallType
        <4>4. calls[u][k].link = m /\ calls[u][k].inQue >= 1 /\ calls[u][k].inQue <= i
          BY <3>1, <4>3 DEF Sorting
        <4> QED BY <1>5, <1>14, <3>1, <4>4
      <3>2. i \in DOMAIN InQue[m] => ~Live(m, i)
        BY <3>1 DEF Live
      <3> QED BY <1>13, <2>1, <3>2, EmptyHolds DEF InList
    <2>2. CASE l # m
      <3>1. \A u \in Tasks : \A k \in DOMAIN calls[u] : Sorting(l, i, u, k) => u # t \/ k # K
        BY <1>5, <2>2 DEF Sorting
      <3>2. Live(l, i)' <=> Live(l, i)
        BY <1>9, <1>10, <3>1 DEF Live, Sorting
      <3> QED BY <1>13, <2>2, <3>2 DEF InList
    <2> QED BY <2>1, <2>2
  <1>16. Others(AtSink, AtSink)
    BY <1>2, <1>12, <1>15 DEF Others, Idle
  <1>17. OnePlace' /\ Numbered(o)'
    BY <1>2, <1>11, <1>16, Stayed
  <1>18. Types'
    <2>1. lock' \in [Merges -> Tasks \cup {NoTask}]
      BY <1>2 DEF Inv, Types
    <2>2. \A l \in Merges : freeFrameList'[l] \in [DOMAIN InQue[l] -> Seq(Frames)]
      BY <1>13 DEF Inv, Types
    <2> QED BY <1>2, <1>8, <1>13, <2>1, <2>2 DEF Inv, Types, tables, tasks
  <1>19. NoDups'
    <2>1. \A u \in Tasks : \A k \in DOMAIN calls'[u] : IsInjective(calls'[u][k].frames)
      BY <1>9 DEF Inv, NoDups
    <2>2. \A l \in Merges : \A i \in DOMAIN InQue[l] : IsInjective(freeFrameList'[l][i])
      BY <1>13, EmptyHolds DEF Inv, NoDups
    <2> QED BY <1>2, <2>1, <2>2 DEF Inv, NoDups
  <1>20. Quiet' /\ Tables(o)'
    BY <1>2, <1>6, TablesStay DEF Inv, Quiet
  <1>21. CallsOK'
    <2>1. \A u \in Tasks : \A k \in DOMAIN calls[u] : calls[u][k].link \in Merges
      <3>1. \A u \in Tasks : calls[u] \in Seq(CallType)
        BY DEF Inv, Types
      <3>2. \A u \in Tasks : \A k \in DOMAIN calls[u] : calls[u][k] \in CallType
        BY <3>1, SeqHolds, ElementOfSeq
      <3> QED BY <3>2 DEF CallType
    <2>2. \A l \in Merges : l # m => lock'[l] = lock[l]
      BY <1>2 DEF Inv, Types
    <2> QED BY <1>9, <1>14, <2>1, <2>2 DEF Inv, CallsOK
  <1> QED BY <1>17, <1>18, <1>19, <1>20, <1>21 DEF Inv

(***************************************************************************)
(* The invariant holds, for an o that grows as merges are created.          *)
(***************************************************************************)
LEMMA NextInv ==
  ASSUME NEW o, Inv(o), [Next]_vars
  PROVE  \E q : Inv(q)'
  <1>1. ASSUME NEW m \in Merges, Create(m) PROVE \E q : Inv(q)'
    BY <1>1, CreateInv
  <1>2. ASSUME NEW m \in Merges, Merge(m) PROVE Inv(o)'
    BY <1>2, TaskInv, ProcessInv DEF Merge
  <1>3. ASSUME NEW f \in Frames, Produce(f) PROVE Inv(o)'
    BY <1>3, ProduceInv
  <1>4. ASSUME Take PROVE Inv(o)'
    BY <1>4, TakeInv
  <1>5. ASSUME NEW t \in Tasks, Giving(t) PROVE Inv(o)'
    BY <1>5, LockInv, SortInv, GiveBackInv, UnlockInv DEF Giving
  <1>6. ASSUME NEW t \in Tasks, NEW frames \in SUBSET held, PutEmpty(t, frames) PROVE Inv(o)'
    BY <1>6, PutEmptyInv
  <1>7. ASSUME UNCHANGED vars PROVE Inv(o)'
    <2>1. UNCHANGED tables /\ UNCHANGED placing /\ calls' = calls /\ held' = held /\ lock' = lock
          /\ UNCHANGED <<idle, outQue, channelNum, mergeChannelNum, pc, freeFrameList>>
      BY <1>7 DEF vars, placing, giving, tasks
    <2>2. LinksKept
      BY <2>1, CallsSame DEF Inv
    <2>3. Others(AtSink, AtSink)
      BY <2>1, StayPut DEF Others, InCall
    <2>4. OnePlace' /\ Numbered(o)'
      BY <2>1, <2>2, <2>3, Stayed
    <2>5. Types' /\ NoDups'
      BY <2>1, StayPut DEF Inv, Types, tables
    <2>6. Quiet' /\ CallsOK' /\ Tables(o)'
      BY <2>1, TablesStay DEF Inv, Quiet, CallsOK
    <2> QED BY <2>4, <2>5, <2>6 DEF Inv
  <1> QED BY <1>1, <1>2, <1>3, <1>4, <1>5, <1>6, <1>7 DEF Next

SomeInv == \E o : Inv(o)

LEMMA InvAlways == Spec => []SomeInv
  <1>1. Init => SomeInv
    BY InitInv DEF SomeInv
  <1>2. SomeInv /\ [Next]_vars => SomeInv'
    BY NextInv DEF SomeInv
  <1> QED BY <1>1, <1>2, PTL DEF Spec

(* A frame comes back to the queue it left, under the channel number it had  *)
(* there; behind the last merge different channels have different numbers,   *)
(* for every tree of merges (MergeLink_drvCreate, MergeLink_putEmptyFrames).  *)
THEOREM BackHomeAlways == Spec => []BackHome
  <1>1. ASSUME NEW o, Inv(o) PROVE BackHome
    <2>1. ASSUME NEW f \in Visible
          PROVE  Is(o, Root, channelNum[f], f) /\ Open(Root) /\ Root \in Links
      <3>1. Root \in Links /\ Root \in Merges
        BY MergeAssumption DEF Links
      <3>2. CASE f \in held
        <4>1. Open(Root)
          BY <1>1, <3>2, OutIsReady
        <4> QED BY <1>1, <3>1, <3>2, <4>1 DEF Inv, Numbered
      <3>3. CASE f \in ToSet(outQue[Root])
        <4>1. outQue[Root] # << >>
          BY <3>3, EmptyHolds
        <4>2. Open(Root)
          BY <1>1, <3>1, <4>1, OutIsReady
        <4> QED BY <1>1, <3>1, <3>3, <4>2 DEF Inv, Numbered
      <3> QED BY <3>2, <3>3 DEF Visible
    <2>2. ASSUME NEW f \in Visible, NEW g \in Visible
          PROVE  /\ channelNum[f] \in 0 .. numCh[Root] - 1
                 /\ (channelNum[f] = channelNum[g])
                       = (SourceOf[f] = SourceOf[g] /\ ChannelOf[f] = ChannelOf[g])
      <3>1. /\ Is(o, Root, channelNum[f], f) /\ Is(o, Root, channelNum[g], g)
            /\ Open(Root) /\ Root \in Links
        BY <2>1
      <3>2. /\ channelNum[f] \in Chs(Root) /\ channelNum[g] \in Chs(Root)
            /\ o[Root][channelNum[f]] = <<SourceOf[f], ChannelOf[f]>>
            /\ o[Root][channelNum[g]] = <<SourceOf[g], ChannelOf[g]>>
        BY <3>1 DEF Is
      <3>3. channelNum[f] = channelNum[g] => SourceOf[f] = SourceOf[g] /\ ChannelOf[f] = ChannelOf[g]
        BY <3>2
      <3>4. SourceOf[f] = SourceOf[g] /\ ChannelOf[f] = ChannelOf[g] => channelNum[f] = channelNum[g]
        BY <1>1, <3>1, <3>2 DEF Inv, Tables
      <3> QED BY <3>2, <3>3, <3>4 DEF Chs
    <2>3. ASSUME NEW p \in idle PROVE p[1] = SourceOf[p[2]] /\ channelNum[p[2]] = ChannelOf[p[2]]
      <3>1. PICK s \in Sources, f \in Frames : p = <<s, f>>
        BY <1>1 DEF Inv, Types
      <3>2. f \in Idle(s)
        BY <3>1 DEF Idle
      <3> QED BY <1>1, <3>1, <3>2 DEF Inv, Numbered
    <2> QED BY <2>2, <2>3 DEF BackHome, ChannelsApart
  <1>2. SomeInv => BackHome
    BY <1>1 DEF SomeInv
  <1> QED BY <1>2, InvAlways, PTL

LEMMA Single ==
  ASSUME NEW S, NEW x, S \subseteq {x}
  PROVE  Cardinality(S) = IF x \in S THEN 1 ELSE 0
  <1>1. CASE x \in S
    <2>1. S = {x}
      BY <1>1
    <2> QED BY <1>1, <2>1, FS_Singleton
  <1>2. CASE x \notin S
    <2>1. S = {}
      BY <1>2
    <2> QED BY <1>2, <2>1, FS_EmptySet
  <1> QED BY <1>1, <1>2

(* Two places cannot have it.                                               *)
LEMMA SamePlace ==
  ASSUME OnePlace, NEW f, NEW p \in Places, NEW q \in Places, f \in Holds[p], f \in Holds[q]
  PROVE  p = q
  BY Elsewhere

AtIdle(f) == \E s \in Sources : f \in Idle(s)
AtQueue(f) == \E l \in Links : f \in ToSet(outQue[l])
AtCall(f) == \E t \in Tasks : \E k \in DOMAIN calls[t] : f \in ToSet(calls[t][k].frames)
AtList(f) == \E m \in Merges, i \in Nat : f \in InList(m, i)

(* What is counted of each kind is one frame at most.                       *)
LEMMA IdleCount ==
  ASSUME Types, OnePlace, NEW f
  PROVE  Cardinality({p \in idle : p[2] = f}) = IF AtIdle(f) THEN 1 ELSE 0
  <1> DEFINE S == {p \in idle : p[2] = f}
  <1>1. \A p \in S : \E s \in Sources : p = <<s, f>> /\ f \in Idle(s)
    <2>1. ASSUME NEW p \in S PROVE \E s \in Sources : p = <<s, f>> /\ f \in Idle(s)
      <3>1. p \in idle /\ p[2] = f /\ p \in Sources \X Frames
        BY DEF Types
      <3>2. PICK s \in Sources, g \in Frames : p = <<s, g>>
        BY <3>1
      <3>3. g = f
        BY <3>1, <3>2
      <3> QED BY <3>1, <3>2, <3>3 DEF Idle
    <2> QED BY <2>1
  <1>2. CASE AtIdle(f)
    <2>1. PICK s \in Sources : f \in Idle(s)
      BY <1>2 DEF AtIdle
    <2>2. \A r \in Sources : f \in Idle(r) => r = s
      <3>1. ASSUME NEW r \in Sources, f \in Idle(r) PROVE r = s
        <4>1. IdleAt(r) = IdleAt(s)
          BY <2>1, <3>1, HoldsAt, SamePlace
        <4> QED BY <4>1, PlacesDiffer
      <3> QED BY <3>1
    <2>3. S \subseteq {<<s, f>>} /\ <<s, f>> \in S
      BY <1>1, <2>1, <2>2 DEF Idle
    <2> QED BY <1>2, <2>3, Single
  <1>3. CASE ~AtIdle(f)
    <2>1. S = {}
      BY <1>1, <1>3 DEF AtIdle
    <2> QED BY <1>3, <2>1, FS_EmptySet
  <1> QED BY <1>2, <1>3

LEMMA QueueCount ==
  ASSUME Types, OnePlace, NoDups, NEW f
  PROVE  Cardinality({p \in Links \X (1 .. Cardinality(Frames)) :
                         p[2] \in DOMAIN outQue[p[1]] /\ outQue[p[1]][p[2]] = f})
            = IF AtQueue(f) THEN 1 ELSE 0
  <1> DEFINE S == {p \in Links \X (1 .. Cardinality(Frames)) :
                       p[2] \in DOMAIN outQue[p[1]] /\ outQue[p[1]][p[2]] = f}
  <1>1. \A l \in Links, k \in 1 .. Cardinality(Frames) :
           <<l, k>> \in S <=> k \in DOMAIN outQue[l] /\ outQue[l][k] = f
    OBVIOUS
  <1>2. \A p \in S : \E l \in Links, k \in 1 .. Cardinality(Frames) : p = <<l, k>>
    OBVIOUS
  <1> HIDE DEF S
  <1>3. CASE AtQueue(f)
    <2>1. PICK l \in Links : f \in ToSet(outQue[l])
      BY <1>3 DEF AtQueue
    <2>2. PICK k \in DOMAIN outQue[l] : outQue[l][k] = f
      BY <2>1 DEF ToSet
    <2>3. k \in 1 .. Cardinality(Frames)
      <3>1. PICK q \in Seq(Frames) : q = outQue[l]
        BY <2>1 DEF Types
      <3>2. DOMAIN q = 1 .. Len(q) /\ Len(q) \in Nat /\ k \in 1 .. Len(q)
        BY <2>2, <3>1, SeqHolds
      <3>3. q \in [1 .. Len(q) -> Frames]
        BY <3>2, ElementOfSeq, LenProperties
      <3>4. q \in Injection(1 .. Len(q), Frames)
        BY <3>1, <3>3 DEF NoDups, Injection
      <3>5. Cardinality(1 .. Len(q)) <= Cardinality(Frames) /\ Cardinality(Frames) \in Nat
        BY <3>4, MergeAssumption, FS_Injection, FS_CardinalityType
      <3>6. Cardinality(1 .. Len(q)) = Len(q)
        <4>1. PICK n \in Nat : n = Len(q)
          BY <3>2
        <4>2. Cardinality(1 .. n) = IF 1 > n THEN 0 ELSE n - 1 + 1
          BY FS_Interval
        <4> QED BY <4>1, <4>2
      <3> QED BY <3>2, <3>5, <3>6
    <2>4. ASSUME NEW r \in Links, NEW j \in 1 .. Cardinality(Frames), <<r, j>> \in S
          PROVE  r = l /\ j = k
      <3>1. j \in DOMAIN outQue[r] /\ outQue[r][j] = f
        BY <1>1, <2>4
      <3>2. f \in ToSet(outQue[r])
        BY <3>1 DEF ToSet
      <3>3. QueueOf(r) = QueueOf(l)
        BY <2>1, <3>2, HoldsAt, SamePlace
      <3>4. r = l
        BY <3>3, PlacesDiffer
      <3> QED BY <2>2, <3>1, <3>4 DEF NoDups, IsInjective
    <2>5. S \subseteq {<<l, k>>} /\ <<l, k>> \in S
      BY <1>1, <1>2, <2>2, <2>3, <2>4
    <2> QED BY <1>3, <2>5, Single DEF S
  <1>4. CASE ~AtQueue(f)
    <2>1. S = {}
      BY <1>1, <1>2, <1>4 DEF AtQueue, ToSet
    <2> QED BY <1>4, <2>1, FS_EmptySet DEF S
  <1> QED BY <1>3, <1>4

LEMMA CallCount ==
  ASSUME Types, OnePlace, NEW f
  PROVE  Cardinality({t \in Tasks : f \in Pending(t)}) = IF AtCall(f) THEN 1 ELSE 0
  <1> DEFINE S == {t \in Tasks : f \in Pending(t)}
  <1>1. \A t \in S : t \in Tasks /\ \E k \in DOMAIN calls[t] : f \in ToSet(calls[t][k].frames)
    BY DEF Pending
  <1>2. \A t \in Tasks : (\E k \in DOMAIN calls[t] : f \in ToSet(calls[t][k].frames)) => t \in S
    BY DEF Pending
  <1> HIDE DEF S
  <1>3. ASSUME NEW t \in S PROVE \E k \in Nat : f \in Holds[CallOf(t, k)] /\ CallOf(t, k) \in Places
    <2>1. PICK k \in DOMAIN calls[t] : f \in ToSet(calls[t][k].frames)
      BY <1>1
    <2>2. calls[t] \in Seq(CallType)
      BY <1>1 DEF Types
    <2>3. k \in Nat
      BY <2>2, SeqHolds
    <2> QED BY <1>1, <2>1, <2>3, HoldsAt DEF InCall
  <1>4. CASE AtCall(f)
    <2>1. PICK t \in Tasks : t \in S
      BY <1>2, <1>4 DEF AtCall
    <2>2. ASSUME NEW u \in S PROVE u = t
      <3>1. PICK k \in Nat : f \in Holds[CallOf(t, k)] /\ CallOf(t, k) \in Places
        BY <1>3, <2>1
      <3>2. PICK j \in Nat : f \in Holds[CallOf(u, j)] /\ CallOf(u, j) \in Places
        BY <1>3
      <3>3. CallOf(u, j) = CallOf(t, k)
        BY <3>1, <3>2, SamePlace
      <3> QED BY <3>3, PlacesDiffer
    <2>3. S \subseteq {t}
      BY <2>2
    <2> QED BY <1>4, <2>1, <2>3, Single DEF S
  <1>5. CASE ~AtCall(f)
    <2>1. S = {}
      BY <1>1, <1>5 DEF AtCall
    <2> QED BY <1>5, <2>1, FS_EmptySet DEF S
  <1> QED BY <1>4, <1>5

LEMMA ListCount ==
  ASSUME Types, OnePlace, CallsOK, NEW f
  PROVE  Cardinality({t \in Tasks : f \in Sorted(t)}) = IF AtList(f) THEN 1 ELSE 0
  <1> DEFINE S == {t \in Tasks : f \in Sorted(t)}
             Has(t, k, i) == /\ i \in DOMAIN InQue[calls[t][k].link]
                             /\ calls[t][k].inQue # 0 /\ i >= calls[t][k].inQue
                             /\ f \in ToSet(freeFrameList[calls[t][k].link][i])
  <1>1. \A t \in S : t \in Tasks /\ \E k \in DOMAIN calls[t] : \E i : Has(t, k, i)
    BY DEF Sorted
  <1>2. ASSUME NEW t \in Tasks, NEW k \in DOMAIN calls[t], NEW i, Has(t, k, i) PROVE t \in S
    <2>1. i \in {j \in DOMAIN InQue[calls[t][k].link] :
                    calls[t][k].inQue # 0 /\ j >= calls[t][k].inQue}
      BY <1>2
    <2>2. f \in UNION {ToSet(freeFrameList[calls[t][k].link][j]) :
                          j \in {j \in DOMAIN InQue[calls[t][k].link] :
                                    calls[t][k].inQue # 0 /\ j >= calls[t][k].inQue}}
      BY <1>2, <2>1
    <2> QED BY <2>2 DEF Sorted
  <1> HIDE DEF S
  <1>3. ASSUME NEW t \in Tasks, NEW k \in DOMAIN calls[t]
        PROVE  calls[t][k].link \in Merges /\ calls[t][k].inQue \in Nat
    <2>1. calls[t] \in Seq(CallType)
      BY DEF Types
    <2>2. calls[t][k] \in CallType
      BY <2>1, SeqHolds, ElementOfSeq
    <2> QED BY <2>2 DEF CallType
  <1>4. ASSUME NEW t \in S
        PROVE  \E m \in Merges, i \in Nat : f \in InList(m, i) /\ lock[m] = t
    <2>1. PICK k \in DOMAIN calls[t] : \E i : Has(t, k, i)
      BY <1>1
    <2>2. PICK i : Has(t, k, i)
      BY <2>1
    <2>3. t \in Tasks /\ calls[t][k].link \in Merges /\ calls[t][k].inQue \in Nat
      BY <1>1, <1>3
    <2>4. PICK m \in Merges : m = calls[t][k].link
      BY <2>3
    <2>5. i \in Nat
      BY <2>2, <2>4, Inputs
    <2>6. 1 <= calls[t][k].inQue /\ calls[t][k].inQue <= i /\ calls[t][k].inQue >= 1
      BY <2>2, <2>3, <2>5
    <2>7. Live(m, i)
      BY <2>3, <2>4, <2>6 DEF Live, Sorting
    <2>8. f \in InList(m, i)
      BY <2>2, <2>4, <2>7 DEF InList
    <2>9. lock[m] = t
      BY <2>3, <2>4, <2>6 DEF CallsOK
    <2> QED BY <2>5, <2>8, <2>9
  <1>5. CASE AtList(f)
    <2>1. PICK m \in Merges, i \in Nat : f \in InList(m, i)
      BY <1>5 DEF AtList
    <2>2. i \in DOMAIN InQue[m] /\ Live(m, i) /\ f \in ToSet(freeFrameList[m][i])
      BY <2>1 DEF InList
    <2>3. PICK t \in Tasks : \E k \in DOMAIN calls[t] : Sorting(m, i, t, k)
      BY <2>2 DEF Live
    <2>4. PICK k \in DOMAIN calls[t] : Sorting(m, i, t, k)
      BY <2>3
    <2>5. calls[t][k].link = m /\ calls[t][k].inQue # 0 /\ i >= calls[t][k].inQue
      BY <1>3, <2>4 DEF Sorting
    <2>6. t \in S
      BY <1>2, <2>2, <2>5
    <2>7. ASSUME NEW u \in S PROVE u = lock[m]
      <3>1. PICK l \in Merges, j \in Nat : f \in InList(l, j) /\ lock[l] = u
        BY <1>4
      <3>2. ListOf(l, j) = ListOf(m, i)
        BY <2>1, <3>1, HoldsAt, SamePlace
      <3> QED BY <3>1, <3>2, PlacesDiffer
    <2>8. S \subseteq {t}
      BY <2>6, <2>7
    <2> QED BY <1>5, <2>6, <2>8, Single DEF S
  <1>6. CASE ~AtList(f)
    <2>1. S = {}
      BY <1>4, <1>6 DEF AtList
    <2> QED BY <1>6, <2>1, FS_EmptySet DEF S
  <1> QED BY <1>5, <1>6

(* No frame is given back twice or by two tasks, and none is lost: it is in   *)
(* one place.  A list that has been handed on is not looked at again          *)
(* (MergeLink_putEmptyFrames and its lock).                                    *)
THEOREM MergeFrameOnceAlways == Spec => []FrameOnce
  <1>1. ASSUME NEW o, Inv(o), NEW f \in Frames PROVE Times(f) = 1
    <2>1. PICK p \in Places : f \in Holds[p]
      BY <1>1 DEF Inv, OnePlace
    <2>2. \A q \in Places : f \in Holds[q] => q = p
      BY <1>1, <2>1, SamePlace DEF Inv
    <2>3. AtIdle(f) => \E s \in Sources : p = IdleAt(s)
      BY <2>2, HoldsAt DEF AtIdle
    <2>4. AtQueue(f) => \E l \in Links : p = QueueOf(l)
      BY <2>2, HoldsAt DEF AtQueue
    <2>5. f \in held => p = AtSink
      BY <2>2, HoldsAt
    <2>6. AtCall(f) => \E t \in Tasks, k \in Nat : p = CallOf(t, k)
      <3>1. \A t \in Tasks : \A k \in DOMAIN calls[t] : k \in Nat
        <4>1. \A t \in Tasks : calls[t] \in Seq(CallType)
          BY <1>1 DEF Inv, Types
        <4> QED BY <4>1, SeqHolds
      <3> QED BY <2>2, <3>1, HoldsAt DEF AtCall, InCall
    <2>7. AtList(f) => \E m \in Merges, i \in Nat : p = ListOf(m, i)
      BY <2>2, HoldsAt DEF AtList
    <2>8. AtIdle(f) \/ AtQueue(f) \/ f \in held \/ AtCall(f) \/ AtList(f)
      BY <2>1, WhereIs DEF AtIdle, AtQueue, AtCall, AtList, InCall
    <2>9. /\ ~(AtIdle(f) /\ (AtQueue(f) \/ f \in held \/ AtCall(f) \/ AtList(f)))
          /\ ~(AtQueue(f) /\ (f \in held \/ AtCall(f) \/ AtList(f)))
          /\ ~(f \in held /\ (AtCall(f) \/ AtList(f))) /\ ~(AtCall(f) /\ AtList(f))
      BY <2>3, <2>4, <2>5, <2>6, <2>7, PlacesDiffer
    <2>10. Times(f) = (IF AtIdle(f) THEN 1 ELSE 0) + (IF f \in held THEN 1 ELSE 0)
                      + (IF AtQueue(f) THEN 1 ELSE 0) + (IF AtCall(f) THEN 1 ELSE 0)
                      + (IF AtList(f) THEN 1 ELSE 0)
      BY <1>1, IdleCount, QueueCount, CallCount, ListCount DEF Inv, Times
    <2> QED BY <2>8, <2>9, <2>10
  <1>2. SomeInv => FrameOnce
    BY <1>1 DEF SomeInv, FrameOnce
  <1> QED BY <1>2, InvAlways, PTL
=============================================================================
