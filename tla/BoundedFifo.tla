---------------------------- MODULE BoundedFifo ----------------------------
(***************************************************************************)
(* What utils_que.h promises its callers: a bounded FIFO on which every    *)
(* call takes effect at one instant or fails and leaves the queue alone.   *)
(* A call fails only for a reason the header names: a call that may not    *)
(* wait finds the queue not ready, its timeout expires, or the queue was   *)
(* forced to unblock, which fails at most one call per side.               *)
(***************************************************************************)
EXTENDS Integers, Sequences

CONSTANTS
    Tasks,          \* the callers
    Calls,          \* the calls they may make (records, see UtilsQue)
    NoCall,         \* the call of a task that has made none
    NoData,         \* the element a task holds before its first get
    MaxElements,    \* capacity
    Flags           \* sides that may block: a subset of {"get", "put"}

VARIABLES
    items,          \* the elements, oldest first
    stage,          \* "idle", "pending" or "done", for each task
    call,           \* the call a task is making, or made last
    status,         \* what the call returns: 0 or -1
    out,            \* the element a get extracted
    forced          \* sides on which an unblock is outstanding

vars == <<items, stage, call, status, out, forced>>

(* The smallest number of elements that satisfies a get.                    *)
Needed(minCount) ==
    IF minCount = 0 THEN 1
    ELSE IF minCount > MaxElements THEN MaxElements ELSE minCount

Ready(t) ==
    IF call[t].op = "put" THEN Len(items) < MaxElements
                          ELSE Len(items) >= Needed(call[t].minCount)

MayWait(t) == call[t].op \in Flags /\ call[t].timeout # "NO_WAIT"

Invoke(t, c) ==
    /\ stage[t] = "idle"
    /\ stage' = [stage EXCEPT ![t] = "pending"]
    /\ call' = [call EXCEPT ![t] = c]
    /\ status' = [status EXCEPT ![t] = -1]
    /\ UNCHANGED <<items, out, forced>>

Take(t) ==
    /\ stage[t] = "pending"
    /\ Ready(t)
    /\ \/ /\ call[t].op = "put"
          /\ items' = Append(items, call[t].data)
          /\ UNCHANGED out
       \/ /\ call[t].op = "get"
          /\ items' = Tail(items)
          /\ out' = [out EXCEPT ![t] = Head(items)]
    /\ stage' = [stage EXCEPT ![t] = "done"]
    /\ status' = [status EXCEPT ![t] = 0]
    /\ UNCHANGED <<call, forced>>

Refuse(t) ==
    /\ stage[t] = "pending"
    /\ ~MayWait(t) /\ ~Ready(t)
    /\ stage' = [stage EXCEPT ![t] = "done"]
    /\ UNCHANGED <<items, call, status, out, forced>>

GiveUp(t) ==
    /\ stage[t] = "pending"
    /\ MayWait(t)
    /\ call[t].timeout = "TIMED" \/ forced[call[t].op]
    /\ stage' = [stage EXCEPT ![t] = "done"]
    /\ forced' = [forced EXCEPT ![call[t].op] = FALSE]
    /\ UNCHANGED <<items, call, status, out>>

Respond(t) ==
    /\ stage[t] = "done"
    /\ stage' = [stage EXCEPT ![t] = "idle"]
    /\ UNCHANGED <<items, call, status, out, forced>>

(* Forcing unblocks a side only when some call on it is still pending.      *)
Force ==
    /\ \E S \in SUBSET Flags :
         /\ \A s \in S : \E t \in Tasks : stage[t] = "pending" /\ call[t].op = s /\ MayWait(t)
         /\ forced' = [s \in {"get", "put"} |-> s \in S \/ forced[s]]
    /\ UNCHANGED <<items, stage, call, status, out>>

Init ==
    /\ items = << >>
    /\ stage = [t \in Tasks |-> "idle"]
    /\ call = [t \in Tasks |-> NoCall]
    /\ status = [t \in Tasks |-> -1]
    /\ out = [t \in Tasks |-> NoData]
    /\ forced = [s \in {"get", "put"} |-> FALSE]

Next ==
    \/ \E t \in Tasks :
         \/ \E c \in Calls : Invoke(t, c)
         \/ Take(t) \/ Refuse(t) \/ GiveUp(t) \/ Respond(t)
    \/ Force

Spec == Init /\ [][Next]_vars
=============================================================================
