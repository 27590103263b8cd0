-------------------------- MODULE UtilsQue_proofs --------------------------
(* Proofs about UtilsQue for every capacity, set of callers and flags.      *)
EXTENDS UtilsQue, SequenceTheorems, TLAPS

(***************************************************************************)
(* Indices taken modulo the size of the ring.                              *)
(***************************************************************************)
LEMMA ModSmall == ASSUME NEW n \in Nat \ {0}, NEW i \in 0 .. n - 1
                  PROVE  i % n = i
  BY SMT

LEMMA ModOnce == ASSUME NEW n \in Nat \ {0}, NEW i \in n .. 2 * n - 1
                 PROVE  i % n = i - n
  BY SMT

LEMMA ModSum ==
  ASSUME NEW n \in Nat \ {0}, NEW a \in 0 .. n - 1, NEW b \in 0 .. n
  PROVE  (a + b) % n = IF a + b < n THEN a + b ELSE a + b - n
  <1>1. CASE a + b < n
    BY <1>1, ModSmall
  <1>2. CASE a + b >= n
    BY <1>2, ModOnce
  <1> QED BY <1>1, <1>2

(* The next index, without the modulo.                                      *)
LEMMA NextIndexIs ==
  ASSUME NEW i \in Indices
  PROVE  NextIndex(i) = IF i = MaxElements - 1 THEN 0 ELSE i + 1
  <1>1. MaxElements \in Nat \ {0} /\ i \in 0 .. MaxElements - 1
    BY QueAssumption DEF Indices
  <1>2. CASE i = MaxElements - 1
    BY <1>1, <1>2, ModOnce DEF NextIndex
  <1>3. CASE i # MaxElements - 1
    BY <1>1, <1>3, ModSmall DEF NextIndex
  <1> QED BY <1>2, <1>3

(* The slot of the i-th queued element, without the modulo.                 *)
LEMMA SlotIs ==
  ASSUME curRd \in Indices, NEW i \in 0 .. MaxElements
  PROVE  Slot(i) = IF curRd + i < MaxElements THEN curRd + i
                                              ELSE curRd + i - MaxElements
  <1>1. MaxElements \in Nat \ {0} /\ curRd \in 0 .. MaxElements - 1
    BY QueAssumption DEF Indices
  <1>2. CASE curRd + i < MaxElements
    BY <1>1, <1>2, ModSmall DEF Slot
  <1>3. CASE curRd + i >= MaxElements
    BY <1>1, <1>3, ModOnce DEF Slot
  <1> QED BY <1>1, <1>2, <1>3

LEMMA NeededBounds ==
  ASSUME NEW m \in MinCounts
  PROVE  Needed(m) \in 1 .. MaxElements
  BY QueAssumption DEF Needed

(***************************************************************************)
(* The inductive invariant: the type, the ring, and what being at a place  *)
(* says about the call.                                                    *)
(***************************************************************************)
InWait == {"block", "pend", "wait", "timedOut", "expired", "woken", "check"}

CallsOK ==
    \A t \in Tasks :
        /\ pc[t] # "idle" => call[t] \in Calls
        /\ pc[t] \in InWait => call[t].op \in Flags /\ call[t].timeout # "NO_WAIT"
        /\ pc[t] \in {"timedOut", "expired"} => call[t].timeout = "TIMED"

IInv == TypeOK /\ RingOK /\ CallsOK

LEMMA CallFacts ==
  ASSUME NEW c \in Calls
  PROVE  /\ c.op \in Sides
         /\ c.op = "put" => c.data \in Data
         /\ c.op = "get" => c.minCount \in MinCounts
  BY DEF Calls, GetCalls, PutCalls, Sides

LEMMA InitIInv == Init => IInv
  <1> SUFFICES ASSUME Init PROVE IInv
    OBVIOUS
  <1>1. TypeOK
    BY QueAssumption DEF Init, TypeOK, Indices, Places
  <1>2. RingOK
    <2>1. Slot(0) = 0 /\ 0 .. count - 1 = {}
      BY QueAssumption, <1>1, SlotIs DEF Init, Indices
    <2> QED BY <2>1 DEF RingOK, Init
  <1>3. CallsOK
    BY DEF Init, CallsOK, InWait
  <1> QED BY <1>1, <1>2, <1>3 DEF IInv

(* A step that moves only tasks and flags leaves the ring as it was.        *)
LEMMA RingKept == ASSUME IInv, UNCHANGED ring PROVE RingOK'
  BY DEF IInv, RingOK, ring, Slot

LEMMA ResumedPlace ==
  ASSUME TypeOK, NEW S \in SUBSET Sides, NEW w \in Releases(S), NEW t \in Tasks
  PROVE  /\ Resumed(w, t) \in Places
         /\ Resumed(w, t) # pc[t] => pc[t] = "wait" /\ Resumed(w, t) = "woken"
  <1>1. ASSUME NEW s \in Sides, w[s] = t PROVE pc[t] = "wait"
    BY <1>1, QueAssumption DEF Releases, Waiting
  <1> QED BY <1>1 DEF Resumed, TypeOK, Places

LEMMA PutElementIInv ==
  ASSUME IInv, NEW t \in Tasks, PutElement(t) PROVE IInv'
  <1>1. call[t] \in Calls /\ call[t].data \in Data /\ call[t].op = "put" /\ count < MaxElements
    BY CallFacts DEF IInv, CallsOK, PutElement, Ready
  <1>2. TypeOK'
    <2>1. NextIndex(curWr) \in Indices
      BY NextIndexIs, QueAssumption DEF IInv, TypeOK, Indices
    <2>2. count + 1 \in 0 .. MaxElements
      BY <1>1, QueAssumption DEF IInv, TypeOK
    <2> QED BY <1>1, <2>1, <2>2 DEF IInv, TypeOK, PutElement, Goto, AfterSuccess, Places
  <1>3. RingOK'
    <2>1. curRd \in Indices /\ curRd' = curRd /\ count \in 0 .. MaxElements - 1
          /\ curWr = Slot(count) /\ curWr \in Indices
      BY <1>1, QueAssumption DEF IInv, TypeOK, RingOK, PutElement
    <2>2. curWr' = Slot(count + 1)
      BY <2>1, SlotIs, NextIndexIs, QueAssumption DEF PutElement, Indices
    <2>3. ASSUME NEW i \in 0 .. count PROVE queue'[Slot(i)] \in Data
      <3>1. CASE i = count
        BY <1>1, <2>1, <3>1 DEF PutElement, IInv, TypeOK
      <3>2. CASE i # count
        <4>1. i \in 0 .. count - 1 /\ queue[Slot(i)] \in Data
          BY <2>1, <3>2 DEF IInv, RingOK
        <4>2. Slot(i) # Slot(count) /\ Slot(i) \in Indices
          BY <2>1, <4>1, SlotIs, QueAssumption DEF Indices
        <4> QED BY <2>1, <4>1, <4>2 DEF PutElement, IInv, TypeOK
      <3> QED BY <3>1, <3>2
    <2> QED BY <2>1, <2>2, <2>3 DEF RingOK, PutElement, Slot
  <1>4. CallsOK'
    BY DEF IInv, TypeOK, CallsOK, PutElement, Goto, AfterSuccess, InWait
  <1> QED BY <1>2, <1>3, <1>4 DEF IInv

(* After a get the i-th slot is the one that was the (i+1)-th.              *)
LEMMA SlotAfterGet ==
  ASSUME curRd \in Indices, count \in 1 .. MaxElements, NEW t, GetElement(t)
  PROVE  \A i \in 0 .. count - 1 : (curRd' + i) % MaxElements = Slot(i + 1)
  <1>1. curRd' = NextIndex(curRd) /\ NextIndex(curRd) \in Indices
    BY NextIndexIs, QueAssumption DEF GetElement, Indices
  <1> QED
    <2> SUFFICES ASSUME NEW i \in 0 .. count - 1
                 PROVE  (curRd' + i) % MaxElements = Slot(i + 1)
      OBVIOUS
    <2>1. i \in 0 .. MaxElements - 1 /\ i + 1 \in 0 .. MaxElements
      BY QueAssumption
    <2>2. curRd' \in 0 .. MaxElements - 1 /\ MaxElements \in Nat \ {0}
      BY <1>1, QueAssumption DEF Indices
    <2>3. (curRd' + i) % MaxElements =
             IF curRd' + i < MaxElements THEN curRd' + i ELSE curRd' + i - MaxElements
      <3>1. i \in 0 .. MaxElements
        BY <2>1, <2>2
      <3> QED BY <2>2, <3>1, ModSum, Zenon
    <2> QED BY <1>1, <2>1, <2>3, SlotIs, NextIndexIs, QueAssumption DEF Indices

LEMMA GetElementIInv ==
  ASSUME IInv, NEW t \in Tasks, GetElement(t) PROVE IInv'
  <1>1. call[t] \in Calls /\ call[t].op = "get" /\ count \in 1 .. MaxElements
    <2>1. call[t] \in Calls /\ call[t].op = "get" /\ call[t].minCount \in MinCounts
      BY CallFacts DEF IInv, CallsOK, GetElement
    <2>2. count >= Needed(call[t].minCount)
      BY <2>1 DEF GetElement, Ready
    <2>3. Needed(call[t].minCount) \in 1 .. MaxElements
      BY <2>1, NeededBounds
    <2> QED BY <2>1, <2>2, <2>3, QueAssumption DEF IInv, TypeOK
  <1>2. curRd \in Indices /\ curWr = Slot(count) /\ queue' = queue /\ curWr' = curWr
        /\ count' = count - 1 /\ curRd' = NextIndex(curRd) /\ NextIndex(curRd) \in Indices
    BY NextIndexIs, QueAssumption DEF IInv, TypeOK, RingOK, GetElement, Indices
  <1>3. \A i \in 0 .. count - 1 : (curRd' + i) % MaxElements = Slot(i + 1)
    BY <1>1, <1>2, SlotAfterGet
  <1>4. TypeOK'
    <2>1. queue[curRd] \in Data \cup {NoData}
      BY <1>2 DEF IInv, TypeOK
    <2>2. count - 1 \in 0 .. MaxElements
      BY <1>1, QueAssumption
    <2> QED BY <1>2, <2>1, <2>2 DEF IInv, TypeOK, GetElement, Goto, AfterSuccess, Places
  <1>5. RingOK'
    <2>1. curWr' = (curRd' + count') % MaxElements
      BY <1>1, <1>2, <1>3
    <2>2. ASSUME NEW i \in 0 .. count' - 1
          PROVE  queue'[(curRd' + i) % MaxElements] \in Data
      <3>1. i \in 0 .. count - 1 /\ i + 1 \in 0 .. count - 1
        BY <1>1, <1>2, <2>2
      <3> QED BY <1>2, <1>3, <3>1 DEF IInv, RingOK
    <2> QED BY <2>1, <2>2 DEF RingOK, Slot
  <1>6. CallsOK'
    BY DEF IInv, TypeOK, CallsOK, GetElement, Goto, AfterSuccess, InWait
  <1> QED BY <1>4, <1>5, <1>6 DEF IInv

(* The steps that leave the ring alone.                                     *)
LEMMA QuietIInv ==
  ASSUME IInv, UNCHANGED ring, TypeOK', CallsOK' PROVE IInv'
  BY RingKept DEF IInv

LEMMA InvokeIInv ==
  ASSUME IInv, NEW t \in Tasks, NEW c \in Calls, Invoke(t, c) PROVE IInv'
  <1>1. TypeOK'
    BY DEF IInv, TypeOK, Invoke, Goto, Places, ring
  <1>2. CallsOK'
    BY DEF IInv, TypeOK, CallsOK, Invoke, Goto, InWait
  <1> QED BY <1>1, <1>2, QuietIInv DEF Invoke

LEMMA PostIInv ==
  ASSUME IInv, NEW S \in SUBSET Sides, NEW w \in Releases(S),
         UNCHANGED <<ring, blockedOn, call, status, out>>,
         forceUnblock' \in [Sides -> BOOLEAN],
         sem' = SemAfterPost(S),
         NEW D \in SUBSET {t \in Tasks : pc[t] = "post"},
         pc' = [u \in Tasks |-> IF u \in D THEN "done" ELSE Resumed(w, u)]
  PROVE  IInv'
  <1>1. TypeOK'
    <2>1. sem' \in [Sides -> {0, 1}]
      BY DEF IInv, TypeOK, SemAfterPost
    <2>2. pc' \in [Tasks -> Places]
      BY ResumedPlace DEF IInv, Places
    <2> QED BY <2>1, <2>2 DEF IInv, TypeOK, ring
  <1>2. CallsOK'
    <2> SUFFICES ASSUME NEW u \in Tasks
                 PROVE  /\ pc'[u] # "idle" => call[u] \in Calls
                        /\ pc'[u] \in InWait =>
                              call[u].op \in Flags /\ call[u].timeout # "NO_WAIT"
                        /\ pc'[u] \in {"timedOut", "expired"} => call[u].timeout = "TIMED"
      BY DEF CallsOK
    <2>1. CASE u \in D
      BY <2>1 DEF IInv, CallsOK, InWait
    <2>2. CASE u \notin D
      <3>1. pc'[u] = Resumed(w, u)
        BY <2>2
      <3> QED BY <3>1, ResumedPlace DEF IInv, CallsOK, InWait
    <2> QED BY <2>1, <2>2
  <1> QED BY <1>1, <1>2, QuietIInv

LEMMA StepIInv ==
  ASSUME IInv, NEW t \in Tasks, Step(t) \/ Expire(t) PROVE IInv'
  <1>1. CASE PutElement(t)
    BY <1>1, PutElementIInv
  <1>2. CASE GetElement(t)
    BY <1>2, GetElementIInv
  <1>3. CASE NotReady(t)
    <2>1. TypeOK'
      BY <1>3 DEF IInv, TypeOK, NotReady, Goto, Places, ring
    <2>2. CallsOK'
      BY <1>3 DEF IInv, TypeOK, CallsOK, NotReady, Goto, InWait
    <2> QED BY <1>3, <2>1, <2>2, QuietIInv DEF NotReady
  <1>4. CASE SetBlocked(t)
    <2>1. TypeOK'
      BY <1>4 DEF IInv, TypeOK, SetBlocked, Goto, Places, ring
    <2>2. CallsOK'
      BY <1>4 DEF IInv, TypeOK, CallsOK, SetBlocked, Goto, InWait
    <2> QED BY <1>4, <2>1, <2>2, QuietIInv DEF SetBlocked
  <1>5. CASE Pend(t)
    <2>1. TypeOK'
      BY <1>5 DEF IInv, TypeOK, Pend, Goto, Places, ring
    <2>2. CallsOK'
      BY <1>5 DEF IInv, TypeOK, CallsOK, Pend, Goto, InWait
    <2> QED BY <1>5, <2>1, <2>2, QuietIInv DEF Pend
  <1>6. CASE Expire(t)
    <2>1. TypeOK'
      BY <1>6 DEF IInv, TypeOK, Expire, Goto, Places, ring
    <2>2. CallsOK'
      BY <1>6 DEF IInv, TypeOK, CallsOK, Expire, Goto, InWait
    <2> QED BY <1>6, <2>1, <2>2, QuietIInv DEF Expire
  <1>7. CASE ClearBlocked(t)
    <2>1. TypeOK'
      BY <1>7 DEF IInv, TypeOK, ClearBlocked, Goto, Places, ring
    <2>2. CallsOK'
      BY <1>7 DEF IInv, TypeOK, CallsOK, ClearBlocked, Goto, InWait
    <2> QED BY <1>7, <2>1, <2>2, QuietIInv DEF ClearBlocked
  <1>8. CASE CheckForced(t)
    <2>1. TypeOK'
      BY <1>8 DEF IInv, TypeOK, CheckForced, Goto, Places, ring
    <2>2. CallsOK'
      BY <1>8 DEF IInv, TypeOK, CallsOK, CheckForced, Goto, InWait
    <2> QED BY <1>8, <2>1, <2>2, QuietIInv DEF CheckForced
  <1>9. CASE PostOther(t)
    <2> DEFINE S == {Other(call[t].op)}
    <2>1. S \in SUBSET Sides /\ {t} \in SUBSET {u \in Tasks : pc[u] = "post"}
      BY <1>9 DEF PostOther, Other, Sides
    <2>2. PICK w \in Releases(S) :
            pc' = [u \in Tasks |-> IF u \in {t} THEN "done" ELSE Resumed(w, u)]
      BY <1>9 DEF PostOther
    <2>3. sem' = SemAfterPost(S)
      BY <1>9 DEF PostOther
    <2>4. forceUnblock' \in [Sides -> BOOLEAN]
      BY <1>9 DEF PostOther, IInv, TypeOK
    <2>5. UNCHANGED <<ring, blockedOn, call, status, out>>
      BY <1>9 DEF PostOther
    <2> HIDE DEF S
    <2> QED BY <2>1, <2>2, <2>3, <2>4, <2>5, PostIInv
  <1>10. CASE Return(t)
    <2>1. TypeOK'
      BY <1>10 DEF IInv, TypeOK, Return, Goto, Places, ring
    <2>2. CallsOK'
      BY <1>10 DEF IInv, TypeOK, CallsOK, Return, Goto, InWait
    <2> QED BY <1>10, <2>1, <2>2, QuietIInv DEF Return
  <1> QED BY <1>1, <1>2, <1>3, <1>4, <1>5, <1>6, <1>7, <1>8, <1>9, <1>10 DEF Step

LEMMA UnBlockIInv == ASSUME IInv, UnBlock PROVE IInv'
  <1> DEFINE S == {s \in Flags : Forcible(s)}
  <1>1. S \in SUBSET Sides /\ {} \in SUBSET {u \in Tasks : pc[u] = "post"}
    BY QueAssumption
  <1>2. PICK w \in Releases(S) :
          pc' = [u \in Tasks |-> IF u \in {} THEN "done" ELSE Resumed(w, u)]
    BY DEF UnBlock
  <1>3. sem' = SemAfterPost(S)
    BY DEF UnBlock
  <1>4. forceUnblock' \in [Sides -> BOOLEAN]
    BY DEF UnBlock, IInv, TypeOK
  <1>5. UNCHANGED <<ring, blockedOn, call, status, out>>
    BY DEF UnBlock
  <1> HIDE DEF S
  <1> QED BY <1>1, <1>2, <1>3, <1>4, <1>5, PostIInv

LEMMA NextIInv == IInv /\ [Next]_vars => IInv'
  <1> SUFFICES ASSUME IInv, [Next]_vars PROVE IInv'
    OBVIOUS
  <1>1. ASSUME NEW t \in Getters, NEW c \in GetCalls, Invoke(t, c) PROVE IInv'
    BY <1>1, InvokeIInv, QueAssumption DEF Calls
  <1>2. ASSUME NEW t \in Putters, NEW c \in PutCalls, Invoke(t, c) PROVE IInv'
    BY <1>2, InvokeIInv, QueAssumption DEF Calls
  <1>3. ASSUME NEW t \in Tasks, Step(t) \/ Expire(t) PROVE IInv'
    BY <1>3, StepIInv
  <1>4. CASE UnBlock
    BY <1>4, UnBlockIInv
  <1>5. CASE UNCHANGED vars
    <2>1. TypeOK' /\ CallsOK' /\ UNCHANGED ring
      BY <1>5 DEF IInv, TypeOK, CallsOK, vars, ring
    <2> QED BY <2>1, QuietIInv
  <1> QED BY <1>1, <1>2, <1>3, <1>4, <1>5 DEF Next

(* The inductive invariant holds in every reachable state.                  *)
THEOREM IInvHolds == Spec => []IInv
  BY InitIInv, NextIInv, PTL DEF Spec

(* The ring never holds an unwritten slot between curRd and curWr, and      *)
(* every flag, place and result stays in its type (utils_que.c).            *)
THEOREM RingInvariant == Spec => [](TypeOK /\ RingOK)
  <1>1. IInv => TypeOK /\ RingOK
    BY DEF IInv
  <1> QED BY <1>1, IInvHolds, PTL

(* Every call, flag, token and result stays in its type.                    *)
THEOREM QueTypesAlways == Spec => []TypeOK
  BY RingInvariant, PTL

-----------------------------------------------------------------------------
(***************************************************************************)
(* Wakeups.  With one caller on each side that may block, a post that is   *)
(* due to the caller is still to be made, or its token is still there,     *)
(* from the moment the caller finds the queue not ready.                   *)
(***************************************************************************)
SoleCallers ==
    /\ "get" \in Flags => \E g \in Tasks : Getters = {g}
    /\ "put" \in Flags => \E p \in Tasks : Putters = {p}

RolesOK ==
    \A t \in Tasks : pc[t] # "idle" =>
        /\ call[t].op = "get" => t \in Getters
        /\ call[t].op = "put" => t \in Putters

Posting(s) == \E u \in Tasks : pc[u] = "post" /\ Other(call[u].op) = s

WakeupDue ==
    \A t \in Tasks :
        /\ pc[t] \in {"block", "pend"} /\ Ready(t) =>
              sem[call[t].op] = 1 \/ Posting(call[t].op)
        /\ pc[t] = "wait" /\ Ready(t) => Posting(call[t].op)

LEMMA SoleSleeper ==
  ASSUME SoleCallers, IInv, RolesOK, NEW t \in Tasks, pc[t] = "wait"
  PROVE  Waiting(call[t].op) = {t}
  <1>1. call[t].op \in Flags /\ call[t].op \in Sides
    BY CallFacts DEF IInv, CallsOK, InWait
  <1>2. ASSUME NEW u \in Tasks, pc[u] = "wait", call[u].op = call[t].op PROVE u = t
    BY <1>1, <1>2 DEF SoleCallers, RolesOK, Sides
  <1> QED BY <1>2 DEF Waiting

LEMMA RolesStep == ASSUME IInv, RolesOK, [Next]_vars PROVE RolesOK'
  <1>1. ASSUME NEW t \in Getters, NEW c \in GetCalls, Invoke(t, c) PROVE RolesOK'
    BY <1>1, QueAssumption DEF IInv, TypeOK, RolesOK, Invoke, Goto, GetCalls
  <1>2. ASSUME NEW t \in Putters, NEW c \in PutCalls, Invoke(t, c) PROVE RolesOK'
    BY <1>2, QueAssumption DEF IInv, TypeOK, RolesOK, Invoke, Goto, PutCalls
  <1>3. ASSUME NEW t \in Tasks, PutElement(t) \/ GetElement(t) \/ NotReady(t) \/ SetBlocked(t)
                 \/ Pend(t) \/ Expire(t) \/ ClearBlocked(t) \/ CheckForced(t) \/ Return(t)
        PROVE  RolesOK'
    BY <1>3 DEF IInv, TypeOK, RolesOK, PutElement, GetElement, NotReady, SetBlocked, Pend,
                Expire, ClearBlocked, CheckForced, Return, Goto
  <1>4. ASSUME NEW S \in SUBSET Sides, NEW w \in Releases(S), UNCHANGED call,
               NEW D \in SUBSET {t \in Tasks : pc[t] = "post"},
               pc' = [u \in Tasks |-> IF u \in D THEN "done" ELSE Resumed(w, u)]
        PROVE  RolesOK'
    <2>1. \A u \in Tasks : pc'[u] # "idle" => pc[u] # "idle"
      BY <1>4, ResumedPlace DEF IInv
    <2> QED BY <1>4, <2>1 DEF RolesOK
  <1>5. ASSUME NEW t \in Tasks, PostOther(t) PROVE RolesOK'
    <2>1. {Other(call[t].op)} \in SUBSET Sides /\ {t} \in SUBSET {u \in Tasks : pc[u] = "post"}
      BY <1>5 DEF PostOther, Other, Sides
    <2>2. PICK w \in Releases({Other(call[t].op)}) :
            pc' = [u \in Tasks |-> IF u \in {t} THEN "done" ELSE Resumed(w, u)]
      BY <1>5 DEF PostOther
    <2> QED BY <1>4, <1>5, <2>1, <2>2 DEF PostOther
  <1>6. CASE UnBlock
    <2> DEFINE S == {s \in Flags : Forcible(s)}
    <2>1. S \in SUBSET Sides /\ {} \in SUBSET {u \in Tasks : pc[u] = "post"}
      BY QueAssumption
    <2>2. PICK w \in Releases(S) :
            pc' = [u \in Tasks |-> IF u \in {} THEN "done" ELSE Resumed(w, u)]
      BY <1>6 DEF UnBlock
    <2> HIDE DEF S
    <2> QED BY <1>4, <1>6, <2>1, <2>2 DEF UnBlock
  <1>7. CASE UNCHANGED vars
    BY <1>7 DEF RolesOK, vars
  <1> QED BY <1>1, <1>2, <1>3, <1>5, <1>6, <1>7 DEF Next, Step

LEMMA PutWakeup ==
  ASSUME IInv, WakeupDue, NEW t \in Tasks, PutElement(t) PROVE WakeupDue'
  <1> SUFFICES ASSUME NEW u \in Tasks, u # t, pc[u] \in {"block", "pend", "wait"}, Ready(u)'
               PROVE  (pc[u] # "wait" /\ sem[call[u].op] = 1) \/ Posting(call[u].op)'
    BY DEF WakeupDue, PutElement, Goto, AfterSuccess, IInv, TypeOK
  <1>1. call[u].op \in Flags /\ call[u] \in Calls /\ call[u].op \in Sides
    BY CallFacts DEF IInv, CallsOK, InWait
  <1>2. CASE call[u].op = "get"
    <2>1. pc'[t] = "post" /\ call'[t].op = "put" /\ call' = call
      BY <1>1, <1>2 DEF PutElement, Goto, AfterSuccess, IInv, TypeOK, Other
    <2> QED BY <1>2, <2>1 DEF Posting, Other
  <1>3. CASE call[u].op = "put"
    <2>1. Ready(u)
      BY <1>3, QueAssumption DEF Ready, PutElement, IInv, TypeOK
    <2>2. (pc[u] # "wait" /\ sem[call[u].op] = 1) \/ Posting(call[u].op)
      BY <2>1 DEF WakeupDue
    <2>3. Posting(call[u].op) => Posting(call[u].op)'
      BY DEF Posting, PutElement, Goto, IInv, TypeOK
    <2> QED BY <2>2, <2>3
  <1> QED BY <1>1, <1>2, <1>3 DEF Sides

LEMMA GetWakeup ==
  ASSUME IInv, WakeupDue, NEW t \in Tasks, GetElement(t) PROVE WakeupDue'
  <1> SUFFICES ASSUME NEW u \in Tasks, u # t, pc[u] \in {"block", "pend", "wait"}, Ready(u)'
               PROVE  (pc[u] # "wait" /\ sem[call[u].op] = 1) \/ Posting(call[u].op)'
    BY DEF WakeupDue, GetElement, Goto, AfterSuccess, IInv, TypeOK
  <1>1. call[u].op \in Flags /\ call[u] \in Calls /\ call[u].op \in Sides
        /\ (call[u].op = "get" => call[u].minCount \in MinCounts)
    BY CallFacts DEF IInv, CallsOK, InWait
  <1>2. CASE call[u].op = "put"
    <2>1. pc'[t] = "post" /\ call'[t].op = "get" /\ call' = call
      BY <1>1, <1>2 DEF GetElement, Goto, AfterSuccess, IInv, TypeOK, Other
    <2> QED BY <1>2, <2>1 DEF Posting, Other
  <1>3. CASE call[u].op = "get"
    <2>1. Needed(call[u].minCount) \in 1 .. MaxElements
      BY <1>1, <1>3, NeededBounds
    <2>2. Ready(u)
      BY <1>3, <2>1, QueAssumption DEF Ready, GetElement, IInv, TypeOK
    <2>3. (pc[u] # "wait" /\ sem[call[u].op] = 1) \/ Posting(call[u].op)
      BY <2>2 DEF WakeupDue
    <2>4. Posting(call[u].op) => Posting(call[u].op)'
      BY DEF Posting, GetElement, Goto, IInv, TypeOK
    <2> QED BY <2>3, <2>4
  <1> QED BY <1>1, <1>2, <1>3 DEF Sides

(* Posting S, as PostOther and UnBlock do.                                  *)
LEMMA PostWakeup ==
  ASSUME SoleCallers, IInv, RolesOK, WakeupDue,
         NEW S \in SUBSET Sides, NEW w \in Releases(S),
         UNCHANGED <<ring, call>>, sem' = SemAfterPost(S),
         NEW D \in SUBSET {t \in Tasks : pc[t] = "post"},
         \A t \in D : Other(call[t].op) \in S,
         pc' = [u \in Tasks |-> IF u \in D THEN "done" ELSE Resumed(w, u)]
  PROVE  WakeupDue'
  <1> SUFFICES ASSUME NEW u \in Tasks, Ready(u)', pc'[u] \in {"block", "pend", "wait"}
               PROVE  (pc'[u] # "wait" /\ sem'[call[u].op] = 1) \/ Posting(call[u].op)'
    BY DEF WakeupDue
  <1> DEFINE s == call[u].op
  <1>1. pc'[u] = pc[u] /\ Ready(u)
    BY ResumedPlace DEF IInv, Ready, ring
  <1>2. s \in Sides /\ s \in Flags
    BY <1>1, CallFacts DEF IInv, CallsOK, InWait
  <1>3. CASE s \in S
    <2>1. pc[u] # "wait"
      <3> SUFFICES ASSUME pc[u] = "wait" PROVE FALSE
        OBVIOUS
      <3>1. Waiting(s) = {u}
        BY SoleSleeper
      <3>2. w[s] = u
        BY <1>2, <1>3, <3>1 DEF Releases
      <3>3. Resumed(w, u) = "woken"
        BY <1>2, <3>2 DEF Resumed
      <3> QED BY <1>1, <3>3
    <2>2. sem'[s] = 1
      <3>1. Waiting(s) = {}
        <4> SUFFICES ASSUME NEW x \in Waiting(s) PROVE FALSE
          OBVIOUS
        <4>1. x \in Tasks /\ pc[x] = "wait" /\ call[x].op = s /\ pc[u] # "idle"
          BY <1>1 DEF Waiting
        <4>2. x = u
          BY <1>2, <4>1 DEF SoleCallers, RolesOK, Sides
        <4> QED BY <2>1, <4>1, <4>2
      <3> QED BY <1>2, <1>3, <3>1 DEF SemAfterPost
    <2> QED BY <1>1, <2>1, <2>2
  <1>4. CASE s \notin S
    <2>1. sem'[s] = sem[s]
      BY <1>2, <1>4 DEF SemAfterPost
    <2>2. Posting(s) => Posting(s)'
      <3> SUFFICES ASSUME NEW x \in Tasks, pc[x] = "post", Other(call[x].op) = s
                   PROVE  pc'[x] = "post"
        BY DEF Posting
      <3>1. x \notin D
        BY <1>4
      <3> QED BY <3>1, ResumedPlace DEF IInv
    <2> QED BY <1>1, <2>1, <2>2 DEF WakeupDue
  <1> QED BY <1>3, <1>4

LEMMA PendWakeup ==
  ASSUME SoleCallers, IInv, RolesOK, WakeupDue, NEW t \in Tasks, Pend(t)
  PROVE  WakeupDue'
  <1> SUFFICES ASSUME NEW u \in Tasks, Ready(u)', pc'[u] \in {"block", "pend", "wait"}
               PROVE  (pc'[u] # "wait" /\ sem'[call[u].op] = 1) \/ Posting(call[u].op)'
    BY DEF WakeupDue, Pend
  <1>1. Ready(u) /\ (Posting(call[u].op) => Posting(call[u].op)')
    BY DEF Pend, Goto, Ready, ring, Posting, IInv, TypeOK
  <1>2. CASE u = t
    <2>1. sem[call[t].op] # 1
      <3>1. ~(sem[call[t].op] > 0)
        BY <1>2 DEF Pend, Goto, IInv, TypeOK
      <3> QED BY <3>1
    <2>2. pc[t] = "pend"
      BY DEF Pend
    <2>3. Posting(call[t].op)
      BY <1>1, <1>2, <2>1, <2>2 DEF WakeupDue
    <2> QED BY <1>1, <1>2, <2>3
  <1>3. CASE u # t
    <2>1. pc[u] = pc'[u] /\ pc[t] = "pend"
      BY <1>3 DEF Pend, Goto, IInv, TypeOK
    <2>2. call[u].op \in Flags /\ call[u].op \in Sides
      BY <2>1, CallFacts DEF IInv, CallsOK, InWait
    <2>3. call[u].op # call[t].op
      BY <1>3, <2>1, <2>2 DEF SoleCallers, RolesOK, Sides
    <2>4. sem'[call[u].op] = sem[call[u].op]
      BY <2>2, <2>3 DEF Pend, IInv, TypeOK
    <2> QED BY <1>1, <2>1, <2>4 DEF WakeupDue
  <1> QED BY <1>2, <1>3

LEMMA WakeupStep ==
  ASSUME SoleCallers, IInv, RolesOK, WakeupDue, [Next]_vars PROVE WakeupDue'
  <1>1. ASSUME NEW t \in Tasks, NEW c \in Calls, Invoke(t, c) PROVE WakeupDue'
    BY <1>1 DEF IInv, TypeOK, WakeupDue, Invoke, Goto, Posting, Ready, ring
  <1>2. ASSUME NEW t \in Tasks, Expire(t) \/ ClearBlocked(t) \/ CheckForced(t) \/ Return(t)
        PROVE  WakeupDue'
    BY <1>2 DEF IInv, TypeOK, WakeupDue, Expire, ClearBlocked, CheckForced, Return, Goto,
                Posting, Ready, ring
  <1>3. ASSUME NEW t \in Tasks, NotReady(t) \/ SetBlocked(t) PROVE WakeupDue'
    BY <1>3 DEF IInv, TypeOK, WakeupDue, NotReady, SetBlocked, Goto, Posting, Ready, ring
  <1>4. ASSUME NEW t \in Tasks, PostOther(t) PROVE WakeupDue'
    <2> DEFINE S == {Other(call[t].op)}
    <2>1. /\ S \in SUBSET Sides
          /\ {t} \in SUBSET {u \in Tasks : pc[u] = "post"}
          /\ \A u \in {t} : Other(call[u].op) \in S
      BY <1>4 DEF PostOther, Other, Sides
    <2>2. PICK w \in Releases(S) :
            pc' = [u \in Tasks |-> IF u \in {t} THEN "done" ELSE Resumed(w, u)]
      BY <1>4 DEF PostOther
    <2>3. sem' = SemAfterPost(S) /\ UNCHANGED <<ring, call>>
      BY <1>4 DEF PostOther
    <2> HIDE DEF S
    <2> QED BY <2>1, <2>2, <2>3, PostWakeup
  <1>5. CASE UnBlock
    <2> DEFINE S == {s \in Flags : Forcible(s)}
    <2>1. /\ S \in SUBSET Sides
          /\ {} \in SUBSET {u \in Tasks : pc[u] = "post"}
          /\ \A u \in {} : Other(call[u].op) \in S
      BY QueAssumption
    <2>2. PICK w \in Releases(S) :
            pc' = [u \in Tasks |-> IF u \in {} THEN "done" ELSE Resumed(w, u)]
      BY <1>5 DEF UnBlock
    <2>3. sem' = SemAfterPost(S) /\ UNCHANGED <<ring, call>>
      BY <1>5 DEF UnBlock
    <2> HIDE DEF S
    <2> QED BY <2>1, <2>2, <2>3, PostWakeup
  <1>6. CASE UNCHANGED vars
    BY <1>6 DEF WakeupDue, Ready, Posting, vars
  <1> QED BY <1>1, <1>2, <1>3, <1>4, <1>5, <1>6, PutWakeup, GetWakeup, PendWakeup,
             QueAssumption DEF Next, Step, Calls

(* With one task on each side that may block, no call sleeps while its      *)
(* condition holds and nobody is about to post to it, whatever the capacity,*)
(* the timeouts, the minCounts, the writers of a side that does not block,  *)
(* and the unblock calls.  (With two readers it fails: see que_two_readers.)*)
THEOREM NoWakeupLost == ASSUME SoleCallers PROVE Spec => []NoLostWakeup
  <1>1. Init => RolesOK /\ WakeupDue
    BY DEF Init, RolesOK, WakeupDue
  <1>2. IInv /\ RolesOK /\ WakeupDue /\ [Next]_vars => RolesOK' /\ WakeupDue'
    BY RolesStep, WakeupStep
  <1>3. WakeupDue => NoLostWakeup
    BY DEF WakeupDue, NoLostWakeup, Posting, Heading
  <1> QED BY <1>1, <1>2, <1>3, IInvHolds, PTL DEF Spec

-----------------------------------------------------------------------------
(***************************************************************************)
(* Refinement: the ring's contents are the items of BoundedFifo, and a     *)
(* call takes effect in its critical section.                              *)
(***************************************************************************)
LEMMA ContentsSeq == ASSUME IInv PROVE Contents \in Seq(Data) /\ Len(Contents) = count
  BY QueAssumption DEF IInv, TypeOK, RingOK, Contents

LEMMA ContentsAfterPut ==
  ASSUME IInv, NEW t \in Tasks, PutElement(t)
  PROVE  Contents' = Append(Contents, call[t].data)
  <1>1. Contents \in Seq(Data) /\ Len(Contents) = count /\ count \in 0 .. MaxElements - 1
        /\ curRd \in Indices /\ curWr = Slot(count) /\ call[t].data \in Data
    BY ContentsSeq, CallFacts, QueAssumption
       DEF IInv, TypeOK, RingOK, CallsOK, PutElement, Ready
  <1>2. \A i \in 0 .. count - 1 : Slot(i) # Slot(count) /\ Slot(i) \in Indices
    BY <1>1, SlotIs, QueAssumption DEF Indices
  <1>3. curWr \in Indices /\ queue \in [Indices -> Data \cup {NoData}]
    BY DEF IInv, TypeOK
  <1>4. /\ \A i \in 1 .. count : queue'[Slot(i - 1)] = queue[Slot(i - 1)]
        /\ queue'[Slot(count)] = call[t].data
    <2>1. \A i \in 1 .. count : i - 1 \in 0 .. count - 1
      BY <1>1
    <2> QED BY <1>1, <1>2, <1>3, <2>1 DEF PutElement
  <1>5. Contents' = [i \in 1 .. count + 1 |-> queue'[Slot(i - 1)]]
    BY DEF Contents, Slot, PutElement
  <1>6. Append(Contents, call[t].data) =
          [i \in 1 .. count + 1 |-> IF i = count + 1 THEN call[t].data ELSE Contents[i]]
    BY <1>1
  <1>7. ASSUME NEW i \in 1 .. count + 1
        PROVE  queue'[Slot(i - 1)] = IF i = count + 1 THEN call[t].data ELSE Contents[i]
    <2>1. CASE i = count + 1
      BY <1>1, <1>4, <2>1
    <2>2. CASE i # count + 1
      <3>1. i \in 1 .. count
        BY <1>1, <2>2
      <3> QED BY <1>4, <2>2, <3>1 DEF Contents
    <2> QED BY <2>1, <2>2
  <1> QED BY <1>5, <1>6, <1>7

LEMMA ContentsAfterGet ==
  ASSUME IInv, NEW t \in Tasks, GetElement(t)
  PROVE  /\ Contents # << >>
         /\ Head(Contents) = queue[curRd]
         /\ Contents' = Tail(Contents)
  <1>1. count \in 1 .. MaxElements /\ Contents \in Seq(Data) /\ Len(Contents) = count
    <2>1. call[t].minCount \in MinCounts /\ count >= Needed(call[t].minCount)
      BY CallFacts DEF IInv, CallsOK, GetElement, Ready
    <2>2. Needed(call[t].minCount) \in 1 .. MaxElements
      BY <2>1, NeededBounds
    <2> QED BY <2>1, <2>2, ContentsSeq, QueAssumption DEF IInv, TypeOK
  <1>2. curRd \in Indices /\ Slot(0) = curRd
    BY SlotIs, QueAssumption DEF IInv, TypeOK, Indices
  <1>3. Head(Contents) = queue[curRd]
    BY <1>1, <1>2 DEF Contents
  <1>4. \A i \in 0 .. count - 1 : (curRd' + i) % MaxElements = Slot(i + 1)
    BY <1>1, <1>2, SlotAfterGet
  <1>5. Contents' = [i \in 1 .. count - 1 |-> queue[(curRd' + (i - 1)) % MaxElements]]
    BY DEF Contents, Slot, GetElement
  <1>6. Tail(Contents) = [i \in 1 .. count - 1 |-> Contents[i + 1]]
    <2>1. /\ Contents # << >>
          /\ Tail(Contents) \in Seq(Data)
          /\ Len(Tail(Contents)) = count - 1
          /\ \A i \in 1 .. Len(Tail(Contents)) : Tail(Contents)[i] = Contents[i + 1]
      BY <1>1, HeadTailProperties
    <2>2. Tail(Contents) = [i \in 1 .. Len(Tail(Contents)) |-> Tail(Contents)[i]]
      BY <2>1, LenProperties
    <2>3. Tail(Contents) = [i \in 1 .. count - 1 |-> Tail(Contents)[i]]
      BY <2>1, <2>2
    <2>4. \A i \in 1 .. count - 1 : Tail(Contents)[i] = Contents[i + 1]
      BY <2>1
    <2> QED BY <2>3, <2>4
  <1>7. ASSUME NEW i \in 1 .. count - 1
        PROVE  queue[(curRd' + (i - 1)) % MaxElements] = Contents[i + 1]
    <2>1. i - 1 \in 0 .. count - 1 /\ i + 1 \in 1 .. count /\ (i - 1) + 1 = i /\ (i + 1) - 1 = i
      BY <1>1
    <2>2. (curRd' + (i - 1)) % MaxElements = Slot(i)
      BY <1>4, <2>1
    <2> QED BY <2>1, <2>2 DEF Contents
  <1> QED BY <1>1, <1>3, <1>5, <1>6, <1>7

LEMMA ContentsKept == ASSUME UNCHANGED ring PROVE Contents' = Contents
  BY DEF ring, Contents, Slot

(* A flag says "blocked" only while some call of that side is blocked.      *)
BlockedByCall ==
    \A s \in Sides : blockedOn[s] =>
        \E t \in Tasks : pc[t] \in {"pend", "wait", "woken", "timedOut"} /\ call[t].op = s

LEMMA BlockedByCallStep ==
  ASSUME IInv, BlockedByCall, [Next]_vars PROVE BlockedByCall'
  <1>1. ASSUME NEW t \in Tasks, NEW c \in Calls, Invoke(t, c) PROVE BlockedByCall'
    BY <1>1 DEF IInv, TypeOK, BlockedByCall, Invoke, Goto
  <1>2. ASSUME NEW t \in Tasks, PutElement(t) \/ GetElement(t) \/ NotReady(t)
                 \/ Pend(t) \/ Expire(t) \/ CheckForced(t) \/ Return(t)
        PROVE  BlockedByCall'
    BY <1>2 DEF IInv, TypeOK, BlockedByCall, PutElement, GetElement, NotReady, Pend,
                Expire, CheckForced, Return, Goto, AfterSuccess
  <1>3. ASSUME NEW t \in Tasks, SetBlocked(t) PROVE BlockedByCall'
    BY <1>3 DEF IInv, TypeOK, BlockedByCall, SetBlocked, Goto
  <1>4. ASSUME NEW t \in Tasks, ClearBlocked(t) PROVE BlockedByCall'
    BY <1>4, CallFacts DEF IInv, TypeOK, CallsOK, BlockedByCall, ClearBlocked, Goto
  <1>5. ASSUME NEW S \in SUBSET Sides, NEW w \in Releases(S), UNCHANGED <<call, blockedOn>>,
               NEW D \in SUBSET {t \in Tasks : pc[t] = "post"},
               pc' = [u \in Tasks |-> IF u \in D THEN "done" ELSE Resumed(w, u)]
        PROVE  BlockedByCall'
    <2>1. \A u \in Tasks : pc[u] \in {"pend", "wait", "woken", "timedOut"} =>
                           pc'[u] \in {"pend", "wait", "woken", "timedOut"}
      BY <1>5, ResumedPlace DEF IInv
    <2> QED BY <1>5, <2>1 DEF BlockedByCall
  <1>6. ASSUME NEW t \in Tasks, PostOther(t) PROVE BlockedByCall'
    <2>1. {Other(call[t].op)} \in SUBSET Sides /\ {t} \in SUBSET {u \in Tasks : pc[u] = "post"}
      BY <1>6 DEF PostOther, Other, Sides
    <2>2. PICK w \in Releases({Other(call[t].op)}) :
            pc' = [u \in Tasks |-> IF u \in {t} THEN "done" ELSE Resumed(w, u)]
      BY <1>6 DEF PostOther
    <2> QED BY <1>5, <1>6, <2>1, <2>2 DEF PostOther
  <1>7. CASE UnBlock
    <2> DEFINE S == {s \in Flags : Forcible(s)}
    <2>1. S \in SUBSET Sides /\ {} \in SUBSET {u \in Tasks : pc[u] = "post"}
      BY QueAssumption
    <2>2. PICK w \in Releases(S) :
            pc' = [u \in Tasks |-> IF u \in {} THEN "done" ELSE Resumed(w, u)]
      BY <1>7 DEF UnBlock
    <2> HIDE DEF S
    <2> QED BY <1>5, <1>7, <2>1, <2>2 DEF UnBlock
  <1>8. CASE UNCHANGED vars
    BY <1>8 DEF BlockedByCall, vars
  <1> QED BY <1>1, <1>2, <1>3, <1>4, <1>6, <1>7, <1>8, QueAssumption DEF Next, Step, Calls

LEMMA StageOf ==
  ASSUME IInv, NEW t \in Tasks
  PROVE  /\ pc[t] = "idle" => Stage[t] = "idle"
         /\ pc[t] \in {"post", "done"} => Stage[t] = "done"
         /\ pc[t] \in InWait \cup {"try"} => Stage[t] = "pending"
  BY DEF Stage, InWait

(* Moving one task moves its stage only.                                    *)
LEMMA StageAfterGoto ==
  ASSUME IInv, NEW t \in Tasks, NEW q \in Places, Goto(t, q)
  PROVE  Stage' = [Stage EXCEPT ![t] = IF q = "idle" THEN "idle"
                                       ELSE IF q \in {"post", "done"} THEN "done" ELSE "pending"]
  <1>1. pc' = [pc EXCEPT ![t] = q] /\ pc \in [Tasks -> Places]
    BY DEF Goto, IInv, TypeOK
  <1> QED BY <1>1 DEF Stage

(* Posting finishes no call and starts none.                                *)
LEMMA StageAfterPost ==
  ASSUME IInv, NEW S \in SUBSET Sides, NEW w \in Releases(S),
         NEW D \in SUBSET {t \in Tasks : pc[t] = "post"},
         pc' = [u \in Tasks |-> IF u \in D THEN "done" ELSE Resumed(w, u)]
  PROVE  Stage' = Stage
  <1>1. ASSUME NEW u \in Tasks
        PROVE  \/ pc'[u] = pc[u]
               \/ pc[u] = "post" /\ pc'[u] = "done"
               \/ pc[u] = "wait" /\ pc'[u] = "woken"
    BY ResumedPlace DEF IInv
  <1> QED BY <1>1 DEF Stage

LEMMA FifoReady == ASSUME IInv, NEW t \in Tasks PROVE Fifo!Ready(t) <=> Ready(t)
  BY ContentsSeq DEF Ready, Fifo!Ready, Needed, Fifo!Needed

LEMMA InvokeImplements ==
  ASSUME IInv, NEW t \in Tasks, NEW c \in Calls, Invoke(t, c) PROVE Fifo!Invoke(t, c)
  <1>1. Stage' = [Stage EXCEPT ![t] = "pending"]
    BY StageAfterGoto DEF Invoke, Places
  <1>2. Stage[t] = "idle"
    BY StageOf DEF Invoke
  <1> QED BY <1>1, <1>2, ContentsKept DEF Invoke, Fifo!Invoke

LEMMA TakeImplements ==
  ASSUME IInv, NEW t \in Tasks, PutElement(t) \/ GetElement(t) PROVE Fifo!Take(t)
  <1>1. Fifo!Ready(t)
    BY FifoReady DEF PutElement, GetElement
  <1>2. Stage[t] = "pending"
    BY StageOf DEF PutElement, GetElement
  <1>3. Stage' = [Stage EXCEPT ![t] = "done"]
    <2>1. AfterSuccess(t) \in {"post", "done"} /\ Goto(t, AfterSuccess(t))
      BY DEF AfterSuccess, PutElement, GetElement
    <2> QED BY <2>1, StageAfterGoto DEF Places
  <1>4. CASE PutElement(t)
    BY <1>1, <1>2, <1>3, <1>4, ContentsAfterPut DEF PutElement, Fifo!Take
  <1>5. CASE GetElement(t)
    BY <1>1, <1>2, <1>3, <1>5, ContentsAfterGet DEF GetElement, Fifo!Take
  <1> QED BY <1>4, <1>5

LEMMA NotReadyImplements ==
  ASSUME IInv, NEW t \in Tasks, NotReady(t)
  PROVE  Fifo!Refuse(t) \/ UNCHANGED Fifo!vars
  <1>1. Stage[t] = "pending" /\ ~Fifo!Ready(t)
    BY StageOf, FifoReady DEF NotReady
  <1>2. CASE call[t].timeout # "NO_WAIT" /\ call[t].op \in Flags
    <2>1. Stage' = [Stage EXCEPT ![t] = "pending"]
      BY <1>2, StageAfterGoto DEF NotReady, Places
    <2>2. Stage' = Stage
      BY <1>1, <2>1 DEF Stage
    <2> QED BY <2>2, ContentsKept DEF NotReady, Fifo!vars
  <1>3. CASE ~(call[t].timeout # "NO_WAIT" /\ call[t].op \in Flags)
    <2>1. Stage' = [Stage EXCEPT ![t] = "done"]
      BY <1>3, StageAfterGoto DEF NotReady, Places
    <2> QED BY <1>1, <1>3, <2>1, ContentsKept DEF NotReady, Fifo!Refuse, Fifo!MayWait
  <1> QED BY <1>2, <1>3

LEMMA CheckForcedImplements ==
  ASSUME IInv, NEW t \in Tasks, CheckForced(t)
  PROVE  Fifo!GiveUp(t) \/ UNCHANGED Fifo!vars
  <1>1. Stage[t] = "pending" /\ Fifo!MayWait(t) /\ call[t].op \in Sides
    BY StageOf, CallFacts DEF CheckForced, IInv, CallsOK, InWait, Fifo!MayWait
  <1>2. CASE pc[t] = "expired" \/ forceUnblock[call[t].op]
    <2>1. Stage' = [Stage EXCEPT ![t] = "done"]
      BY <1>2, StageAfterGoto DEF CheckForced, Places
    <2>2. call[t].timeout = "TIMED" \/ forceUnblock[call[t].op]
      BY <1>2 DEF IInv, CallsOK
    <2> QED BY <1>1, <2>1, <2>2, ContentsKept DEF CheckForced, Fifo!GiveUp
  <1>3. CASE ~(pc[t] = "expired" \/ forceUnblock[call[t].op])
    <2>1. Stage' = [Stage EXCEPT ![t] = "pending"]
      BY <1>3, StageAfterGoto DEF CheckForced, Places
    <2>2. Stage' = Stage
      BY <1>1, <2>1 DEF Stage
    <2>3. forceUnblock' = forceUnblock
      BY <1>1, <1>3 DEF CheckForced, IInv, TypeOK
    <2> QED BY <2>2, <2>3, ContentsKept DEF CheckForced, Fifo!vars
  <1> QED BY <1>2, <1>3

LEMMA ReturnImplements ==
  ASSUME IInv, NEW t \in Tasks, Return(t) PROVE Fifo!Respond(t)
  <1>1. Stage' = [Stage EXCEPT ![t] = "idle"] /\ Stage[t] = "done"
    BY StageAfterGoto, StageOf DEF Return, Places
  <1> QED BY <1>1, ContentsKept DEF Return, Fifo!Respond

(* The steps the abstract queue does not see.                               *)
LEMMA HiddenSteps ==
  ASSUME IInv, NEW t \in Tasks,
         SetBlocked(t) \/ Pend(t) \/ Expire(t) \/ ClearBlocked(t) \/ PostOther(t)
  PROVE  UNCHANGED Fifo!vars
  <1>1. ASSUME NEW q \in InWait, Goto(t, q), pc[t] \in InWait PROVE Stage' = Stage
    <2>1. Stage' = [Stage EXCEPT ![t] = "pending"]
      BY <1>1, StageAfterGoto DEF InWait, Places
    <2> QED BY <1>1, <2>1, StageOf DEF Stage
  <1>2. CASE SetBlocked(t)
    BY <1>1, <1>2, ContentsKept DEF SetBlocked, Fifo!vars, InWait
  <1>3. CASE Pend(t)
    BY <1>1, <1>3, ContentsKept DEF Pend, Fifo!vars, InWait
  <1>4. CASE Expire(t)
    BY <1>1, <1>4, ContentsKept DEF Expire, Fifo!vars, InWait
  <1>5. CASE ClearBlocked(t)
    BY <1>1, <1>5, ContentsKept DEF ClearBlocked, Fifo!vars, InWait
  <1>6. CASE PostOther(t)
    <2>1. {Other(call[t].op)} \in SUBSET Sides /\ {t} \in SUBSET {u \in Tasks : pc[u] = "post"}
      BY <1>6 DEF PostOther, Other, Sides
    <2>2. PICK w \in Releases({Other(call[t].op)}) :
            pc' = [u \in Tasks |-> IF u \in {t} THEN "done" ELSE Resumed(w, u)]
      BY <1>6 DEF PostOther
    <2> QED BY <1>6, <2>1, <2>2, StageAfterPost, ContentsKept DEF PostOther, Fifo!vars
  <1> QED BY <1>2, <1>3, <1>4, <1>5, <1>6

LEMMA UnBlockImplements ==
  ASSUME IInv, BlockedByCall, UnBlock PROVE Fifo!Force
  <1> DEFINE S == {s \in Flags : Forcible(s)}
  <1>1. S \in SUBSET Sides /\ S \in SUBSET Flags /\ {} \in SUBSET {u \in Tasks : pc[u] = "post"}
    BY QueAssumption
  <1>2. PICK w \in Releases(S) :
          pc' = [u \in Tasks |-> IF u \in {} THEN "done" ELSE Resumed(w, u)]
    BY DEF UnBlock
  <1>3. forceUnblock' = [s \in Sides |-> s \in S \/ forceUnblock[s]]
    BY DEF UnBlock
  <1>4. ASSUME NEW s \in S
        PROVE  \E t \in Tasks : Stage[t] = "pending" /\ call[t].op = s /\ Fifo!MayWait(t)
    <2>1. blockedOn[s] /\ s \in Sides
      BY <1>1 DEF Forcible
    <2>2. PICK t \in Tasks : pc[t] \in {"pend", "wait", "woken", "timedOut"} /\ call[t].op = s
      BY <2>1 DEF BlockedByCall
    <2>3. Stage[t] = "pending" /\ Fifo!MayWait(t)
      BY <2>2, StageOf DEF InWait, IInv, CallsOK, Fifo!MayWait
    <2> QED BY <2>2, <2>3
  <1> HIDE DEF S
  <1>5. Stage' = Stage /\ Contents' = Contents /\ UNCHANGED <<call, status, out>>
    BY <1>1, <1>2, StageAfterPost, ContentsKept DEF UnBlock
  <1> QED BY <1>1, <1>3, <1>4, <1>5 DEF Fifo!Force, Sides

(* Every execution of utils_que.c, with any number of callers on either     *)
(* side, is one of the bounded FIFO: elements come out once and in order,   *)
(* a call that fails leaves the queue alone, and fails only for a reason    *)
(* utils_que.h names.                                                       *)
THEOREM QueImplementsFifo == Spec => ImplementsFifo
  <1>1. Init => Fifo!Init /\ BlockedByCall
    <2> SUFFICES ASSUME Init PROVE Fifo!Init /\ BlockedByCall
      OBVIOUS
    <2>1. Contents = << >>
      <3>1. Contents \in Seq(Data) /\ Len(Contents) = 0
        BY InitIInv, ContentsSeq DEF Init
      <3> QED BY <3>1, EmptySeq
    <2>2. Stage = [t \in Tasks |-> "idle"]
      BY DEF Init, Stage
    <2> QED BY <2>1, <2>2 DEF Init, Fifo!Init, Sides, BlockedByCall
  <1>2. IInv /\ BlockedByCall /\ [Next]_vars => [Fifo!Next]_(Fifo!vars) /\ BlockedByCall'
    <2> SUFFICES ASSUME IInv, BlockedByCall, [Next]_vars
                 PROVE  [Fifo!Next]_(Fifo!vars) /\ BlockedByCall'
      OBVIOUS
    <2>1. ASSUME NEW t \in Tasks, NEW c \in Calls, Invoke(t, c) PROVE Fifo!Next
      BY <2>1, InvokeImplements DEF Fifo!Next
    <2>2. ASSUME NEW t \in Tasks, Step(t) \/ Expire(t) PROVE [Fifo!Next]_(Fifo!vars)
      BY <2>2, TakeImplements, NotReadyImplements, CheckForcedImplements, ReturnImplements,
         HiddenSteps DEF Step, Fifo!Next
    <2>3. ASSUME UnBlock PROVE Fifo!Next
      BY <2>3, UnBlockImplements DEF Fifo!Next
    <2>4. ASSUME UNCHANGED vars PROVE UNCHANGED Fifo!vars
      <3>1. Stage' = Stage
        BY <2>4 DEF vars, Stage
      <3> QED BY <2>4, <3>1, ContentsKept DEF vars, ring, Fifo!vars
    <2>5. [Fifo!Next]_(Fifo!vars)
      BY <2>1, <2>2, <2>3, <2>4, QueAssumption DEF Next, Calls
    <2> QED BY <2>5, BlockedByCallStep
  <1> QED BY <1>1, <1>2, IInvHolds, PTL DEF Spec, ImplementsFifo, Fifo!Spec
=============================================================================
