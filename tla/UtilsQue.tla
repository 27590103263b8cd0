------------------------------ MODULE UtilsQue ------------------------------
(***************************************************************************)
(* The array queue of the BIOS6 utils layer (utils_que.c): a ring guarded  *)
(* by Hwi_disable, with one BINARY semaphore per side for callers that may *)
(* block.  "get" and "put" name the two sides: semRd/blockedOnGet/...      *)
(* and semWr/blockedOnPut/... become sem["get"], blockedOn["get"] and so   *)
(* on, because the code of the two sides is the same up to the names.      *)
(*                                                                         *)
(* Everything between Hwi_disable and Hwi_restore is one step; every       *)
(* access outside it (the flags, the pend, the post) is a step of its own, *)
(* since a task or an interrupt may run in between.                        *)
(***************************************************************************)
EXTENDS Integers, Sequences, FiniteSets

CONSTANTS
    Tasks,          \* callers: tasks and interrupt handlers
    Data,           \* the pointers that are queued
    NoData,         \* an element that was never written
    NoTask,
    MaxElements,    \* handle->maxElements
    Flags,          \* handle->flags: the sides on which a call may block
    MinCounts,      \* minCount arguments of Utils_queGet
    Getters,        \* tasks that call Utils_queGet
    Putters,        \* tasks that call Utils_quePut
    Timeouts,       \* timeouts callers use: "NO_WAIT", "TIMED", "FOREVER"
    CanUnBlock      \* whether somebody calls Utils_queUnBlock

Sides == {"get", "put"}

ASSUME QueAssumption ==
    /\ MaxElements \in Nat \ {0}
    /\ Flags \subseteq Sides
    /\ MinCounts \subseteq Nat
    /\ Getters \subseteq Tasks
    /\ Putters \subseteq Tasks
    /\ Timeouts \subseteq {"NO_WAIT", "TIMED", "FOREVER"}
    /\ CanUnBlock \in BOOLEAN
    /\ NoTask \notin Tasks
    /\ NoData \notin Data

GetCalls == [op : {"get"}, minCount : MinCounts, timeout : Timeouts]
PutCalls == [op : {"put"}, data : Data, timeout : Timeouts]
Calls == GetCalls \cup PutCalls
NoCall == [op |-> "none"]

VARIABLES
    queue, curRd, curWr, count,         \* the ring
    sem,                                \* count of semRd and of semWr
    blockedOn, forceUnblock,            \* blockedOnGet/Put, forceUnblockGet/Put
    pc, call, status, out               \* each caller: place, arguments, results

ring == <<queue, curRd, curWr, count>>
vars == <<queue, curRd, curWr, count, sem, blockedOn, forceUnblock,
          pc, call, status, out>>

Indices == 0 .. MaxElements - 1

(* Places in Utils_queGet and Utils_quePut (see the actions).               *)
Places == {"idle", "try", "block", "pend", "wait", "timedOut", "expired",
           "woken", "check", "post", "done"}

Other(s) == IF s = "get" THEN "put" ELSE "get"

(***************************************************************************)
(* The conditions tested inside the critical sections.                     *)
(***************************************************************************)
NeededUnclamped(minCount) ==        \* mutant: minCount 0 is not raised to 1
    IF minCount > MaxElements THEN MaxElements ELSE minCount

Needed(minCount) ==
    IF minCount = 0 THEN 1
    ELSE IF minCount > MaxElements THEN MaxElements ELSE minCount

Ready(t) ==
    IF call[t].op = "put" THEN count < MaxElements
                          ELSE count >= Needed(call[t].minCount)

NextIndexUnwrapped(i) == i + 1      \* mutant: the modulo is missing
NextIndexStuck(i) == i              \* mutant: the increment is missing
NextIndex(i) == (i + 1) % MaxElements

(* A successful call posts the other side's semaphore if that side blocks.  *)
AfterSuccessIfBlocked(t) ==         \* mutant: post only when someone is blocked
    IF Other(call[t].op) \in Flags /\ blockedOn[Other(call[t].op)]
    THEN "post" ELSE "done"
AfterSuccess(t) == IF Other(call[t].op) \in Flags THEN "post" ELSE "done"

(***************************************************************************)
(* Semaphore_post of SYS/BIOS (external) on each side of S: one waiting    *)
(* task, if there is any, is released; otherwise the count becomes 1 and   *)
(* stays 1 however often it is posted (Semaphore_Mode_BINARY).  Which of   *)
(* several waiting tasks is released is left open.                         *)
(***************************************************************************)
Waiting(s) == {t \in Tasks : pc[t] = "wait" /\ call[t].op = s}

Releases(S) ==
    {w \in [Sides -> Tasks \cup {NoTask}] :
        \A s \in Sides :
            IF s \in S /\ Waiting(s) # {} THEN w[s] \in Waiting(s)
                                          ELSE w[s] = NoTask}

SemAfterPost(S) ==
    [s \in Sides |-> IF s \in S /\ Waiting(s) = {} THEN 1 ELSE sem[s]]

(* Where a task is once the tasks in w have been released.                  *)
Resumed(w, t) == IF \E s \in Sides : w[s] = t THEN "woken" ELSE pc[t]

Goto(t, place) == pc' = [pc EXCEPT ![t] = place]

Init ==
    /\ queue = [i \in Indices |-> NoData]
    /\ curRd = 0 /\ curWr = 0 /\ count = 0
    /\ sem = [s \in Sides |-> 0]
    /\ blockedOn = [s \in Sides |-> FALSE]
    /\ forceUnblock = [s \in Sides |-> FALSE]
    /\ pc = [t \in Tasks |-> "idle"]
    /\ call = [t \in Tasks |-> NoCall]
    /\ status = [t \in Tasks |-> -1]
    /\ out = [t \in Tasks |-> NoData]

Invoke(t, c) ==
    /\ pc[t] = "idle"
    /\ Goto(t, "try")
    /\ call' = [call EXCEPT ![t] = c]
    /\ status' = [status EXCEPT ![t] = -1]
    /\ UNCHANGED <<ring, sem, blockedOn, forceUnblock, out>>

(* The critical section when there is room: the element goes to curWr.      *)
PutElement(t) ==
    /\ pc[t] = "try" /\ call[t].op = "put" /\ Ready(t)
    /\ queue' = [queue EXCEPT ![curWr] = call[t].data]
    /\ curWr' = NextIndex(curWr)
    /\ count' = count + 1
    /\ status' = [status EXCEPT ![t] = 0]
    /\ Goto(t, AfterSuccess(t))
    /\ UNCHANGED <<curRd, sem, blockedOn, forceUnblock, call, out>>

(* The critical section when enough elements are queued.                    *)
GetElement(t) ==
    /\ pc[t] = "try" /\ call[t].op = "get" /\ Ready(t)
    /\ out' = [out EXCEPT ![t] = queue[curRd]]
    /\ curRd' = NextIndex(curRd)
    /\ count' = count - 1
    /\ status' = [status EXCEPT ![t] = 0]
    /\ Goto(t, AfterSuccess(t))
    /\ UNCHANGED <<queue, curWr, sem, blockedOn, forceUnblock, call>>

(* Not ready: a call that may not wait returns -1, another goes to block.   *)
NotReady(t) ==
    /\ pc[t] = "try" /\ ~Ready(t)
    /\ Goto(t, IF call[t].timeout # "NO_WAIT" /\ call[t].op \in Flags
               THEN "block" ELSE "done")
    /\ UNCHANGED <<ring, sem, blockedOn, forceUnblock, call, status, out>>

SetBlocked(t) ==
    /\ pc[t] = "block"
    /\ blockedOn' = [blockedOn EXCEPT ![call[t].op] = TRUE]
    /\ Goto(t, "pend")
    /\ UNCHANGED <<ring, sem, forceUnblock, call, status, out>>

(* Semaphore_pend takes a pending token at once, or waits for a post.       *)
Pend(t) ==
    /\ pc[t] = "pend"
    /\ IF sem[call[t].op] > 0
       THEN /\ sem' = [sem EXCEPT ![call[t].op] = 0]
            /\ Goto(t, "woken")
       ELSE /\ UNCHANGED sem
            /\ Goto(t, "wait")
    /\ UNCHANGED <<ring, blockedOn, forceUnblock, call, status, out>>

Expire(t) ==
    /\ pc[t] = "wait" /\ call[t].timeout = "TIMED"
    /\ Goto(t, "timedOut")
    /\ UNCHANGED <<ring, sem, blockedOn, forceUnblock, call, status, out>>

(* Back from the pend, with a token or without.                             *)
ClearBlocked(t) ==
    /\ pc[t] \in {"woken", "timedOut"}
    /\ blockedOn' = [blockedOn EXCEPT ![call[t].op] = FALSE]
    /\ Goto(t, IF pc[t] = "woken" THEN "check" ELSE "expired")
    /\ UNCHANGED <<ring, sem, forceUnblock, call, status, out>>

(* The call fails if it timed out or was forced; otherwise it tries again.  *)
CheckForced(t) ==
    /\ pc[t] \in {"check", "expired"}
    /\ forceUnblock' = [forceUnblock EXCEPT ![call[t].op] = FALSE]
    /\ Goto(t, IF pc[t] = "expired" \/ forceUnblock[call[t].op]
               THEN "done" ELSE "try")
    /\ UNCHANGED <<ring, sem, blockedOn, call, status, out>>

(* Semaphore_post after a successful put (get), outside the critical section.*)
PostOther(t) ==
    /\ pc[t] = "post"
    /\ LET S == {Other(call[t].op)} IN
       /\ \E w \in Releases(S) :
            pc' = [u \in Tasks |-> IF u = t THEN "done" ELSE Resumed(w, u)]
       /\ sem' = SemAfterPost(S)
    /\ UNCHANGED <<ring, blockedOn, forceUnblock, call, status, out>>

Return(t) ==
    /\ pc[t] = "done"
    /\ Goto(t, "idle")
    /\ UNCHANGED <<ring, sem, blockedOn, forceUnblock, call, status, out>>

(* Utils_queUnBlock, wholly inside Hwi_disable and Task_disable: a side is  *)
(* forced only when somebody says it is blocked and no token is pending.    *)
ForcibleWithToken(s) == sem[s] # 0 /\ blockedOn[s]     \* mutant: test reversed
Forcible(s) == sem[s] = 0 /\ blockedOn[s]

UnBlock ==
    /\ CanUnBlock
    /\ LET S == {s \in Flags : Forcible(s)} IN
       /\ forceUnblock' = [s \in Sides |-> s \in S \/ forceUnblock[s]]
       /\ \E w \in Releases(S) : pc' = [t \in Tasks |-> Resumed(w, t)]
       /\ sem' = SemAfterPost(S)
    /\ UNCHANGED <<ring, blockedOn, call, status, out>>

(* The steps a call takes by itself once it is made.                        *)
Step(t) ==
    \/ PutElement(t) \/ GetElement(t) \/ NotReady(t)
    \/ SetBlocked(t) \/ Pend(t) \/ ClearBlocked(t)
    \/ CheckForced(t) \/ PostOther(t) \/ Return(t)

Next ==
    \/ \E t \in Getters : \E c \in GetCalls : Invoke(t, c)
    \/ \E t \in Putters : \E c \in PutCalls : Invoke(t, c)
    \/ \E t \in Tasks : Step(t) \/ Expire(t)
    \/ UnBlock

Spec == Init /\ [][Next]_vars

(* The scheduler runs every task that is not blocked, so a call that can    *)
(* take a step eventually takes one.  Nothing is assumed of the callers     *)
(* (whether they call at all) nor of timeouts.                              *)
FairSpec == Spec /\ \A t \in Tasks : WF_vars(Step(t))

-----------------------------------------------------------------------------
TypeOK ==
    /\ queue \in [Indices -> Data \cup {NoData}]
    /\ curRd \in Indices /\ curWr \in Indices
    /\ count \in 0 .. MaxElements
    /\ sem \in [Sides -> {0, 1}]
    /\ blockedOn \in [Sides -> BOOLEAN]
    /\ forceUnblock \in [Sides -> BOOLEAN]
    /\ pc \in [Tasks -> Places]
    /\ call \in [Tasks -> Calls \cup {NoCall}]
    /\ status \in [Tasks -> {0, -1}]
    /\ out \in [Tasks -> Data \cup {NoData}]

(* The indices and the count agree (modulo the ring's size), and the        *)
(* slots the count covers have been written: no get returns a slot that     *)
(* was never filled.                                                        *)
Slot(i) == (curRd + i) % MaxElements

RingOK ==
    /\ curWr = Slot(count)
    /\ \A i \in 0 .. count - 1 : queue[Slot(i)] \in Data

(* A call asleep in the semaphore never misses the element (or the slot) it *)
(* waits for: while its condition holds, a post to its side is on its way,  *)
(* or another call of its side is awake and about to look again.            *)
(* utils_que.h promises that a call blocks only "until" the queue is ready. *)
Heading(s) ==
    {u \in Tasks : \/ pc[u] = "post" /\ Other(call[u].op) = s
                   \/ pc[u] \in {"try", "block", "pend", "woken", "check"}
                      /\ call[u].op = s}

NoLostWakeup ==
    \A t \in Tasks : pc[t] = "wait" /\ Ready(t) => Heading(call[t].op) # {}

(* A blocked get (put) whose condition holds is eventually over, whatever   *)
(* the other side does next.                                                *)
ReadyCallEnds == \A t \in Tasks : (pc[t] # "idle" /\ Ready(t)) ~> (pc[t] = "idle")

(* Utils_queUnBlock with nothing pending on a side releases the call that   *)
(* sleeps there, and marks it to fail.                                      *)
UnBlockReleasesSleeper ==
    [][UnBlock => \A t \in Tasks :
          Waiting(call[t].op) = {t} =>
              pc'[t] = "woken" /\ forceUnblock'[call[t].op]]_vars

(* The queue implements the FIFO that utils_que.h describes.                *)
Contents == [i \in 1 .. count |-> queue[Slot(i - 1)]]

Stage == [t \in Tasks |->
            CASE pc[t] = "idle" -> "idle"
              [] pc[t] \in {"post", "done"} -> "done"
              [] OTHER -> "pending"]

Fifo == INSTANCE BoundedFifo WITH
            items <- Contents, stage <- Stage, forced <- forceUnblock

ImplementsFifo == Fifo!Spec
=============================================================================
