------------------------------ MODULE IpcMsgQ ------------------------------
(***************************************************************************)
(* Link control across cores: System_linkControl, System_linkGetInfo and   *)
(* System_sendLinkCmd for a link of another core (system_linkApi.c,        *)
(* system_ipc_msgq.c of links_common and of src_linux).                    *)
(*                                                                         *)
(* Every core has one server task with its queue, one queue for the        *)
(* acknowledgements of all its callers, and one lock that a caller holds   *)
(* until it has its acknowledgement.  The handler of a request may make a  *)
(* request of its own before it is done (SystemTiler_alloc, getting the    *)
(* info of the link before).  The host's code differs from that of the     *)
(* BIOS cores: it may wait with a timeout, and it compares the             *)
(* acknowledgement with its request.                                       *)
(***************************************************************************)
EXTENDS Integers, Sequences, FiniteSets

CONSTANTS
    Cores, Host,            \* Host: the core that runs Linux
    Callers, Home,          \* tasks that call; the core of each
    Nobody,                 \* holds a lock that is free
    Msgs, NoMsg,            \* the message heap
    Keys,                   \* what identifies a request: link and command
    Nested,                 \* for each key: the requests its handler may make
    Configs                 \* how the system is used, see ConfigType

Requests == [to : Cores, key : Keys, wait : BOOLEAN, timed : BOOLEAN]

(* A handler calls from its own core, for which the core stands.            *)
All == Callers \cup Cores
HomeOf(c) == IF c \in Cores THEN c ELSE Home[c]

(* For each caller the requests it makes; whether the transport may refuse  *)
(* a message, or end a BIOS core's wait for an acknowledgement without one. *)
ConfigType == [calls : [Callers -> SUBSET Requests], mayFail : BOOLEAN]

ASSUME MsgQAssumption ==
    /\ Host \in Cores /\ NoMsg \notin Msgs /\ Callers \cap Cores = {}
    /\ Nobody \notin All /\ Keys # {}
    /\ Home \in [Callers -> Cores]
    /\ Configs \subseteq ConfigType /\ Nested \in [Keys -> SUBSET Requests]
    /\ \A g \in Configs : \A c \in Callers : \A r \in g.calls[c] :
          r.to # Home[c] /\ (r.timed => Home[c] = Host /\ r.wait)
    /\ \A k \in Keys : \A r \in Nested[k] : ~r.timed

NoReq == [to |-> Host, key |-> CHOOSE k \in Keys : TRUE, wait |-> FALSE, timed |-> FALSE]
NoFields == [key |-> NoReq.key, wait |-> FALSE, reply |-> Host]

VARIABLES
    config,
    pool, msg,              \* free messages; their fields
    selfMsgQ, selfAckMsgQ, msgQLock,    \* of each core
    server, serving, called,    \* each core's server: place, message, whether its handler has called
    pc, req, sent, got, retry   \* each caller: place, request, its message, its answer; retryMsgGet

queues == <<selfMsgQ, selfAckMsgQ>>
servers == <<server, serving, called>>
callers == <<pc, req, sent, got, retry>>
vars == <<config, pool, msg, queues, msgQLock, servers, callers>>

Init ==
    /\ config \in Configs
    /\ pool = Msgs /\ msg = [m \in Msgs |-> NoFields]
    /\ selfMsgQ = [p \in Cores |-> << >>] /\ selfAckMsgQ = [p \in Cores |-> << >>]
    /\ msgQLock = [p \in Cores |-> Nobody]
    /\ server = [p \in Cores |-> "idle"] /\ serving = [p \in Cores |-> NoMsg]
    /\ called = [p \in Cores |-> FALSE]
    /\ pc = [c \in All |-> "idle"] /\ req = [c \in All |-> NoReq]
    /\ sent = [c \in All |-> NoMsg] /\ got = [c \in All |-> NoMsg]
    /\ retry = [c \in All |-> FALSE]

Free(m) == pool' = pool \cup {m} /\ msg' = [msg EXCEPT ![m] = NoFields]

----------------------------------------------------------------------------
(* System_ipcMsgQSendMsg: the host locks first and then allocates, a BIOS   *)
(* core the other way round.                                                *)

Begin(c, r) ==
    /\ pc[c] = "idle"
    /\ req' = [req EXCEPT ![c] = r]
    /\ pc' = [pc EXCEPT ![c] = IF HomeOf(c) = Host THEN "lock" ELSE "alloc"]

Call(c) ==
    /\ c \in Callers /\ \E r \in config.calls[c] : Begin(c, r)
    /\ UNCHANGED <<config, pool, msg, queues, msgQLock, servers, sent, got, retry>>

NestedCall(p) ==
    /\ server[p] = "run" /\ ~called[p]
    /\ \E r \in Nested[msg[serving[p]].key] : r.to # p /\ Begin(p, r)
    /\ called' = [called EXCEPT ![p] = TRUE]
    /\ UNCHANGED <<config, pool, msg, queues, msgQLock, server, serving, sent, got, retry>>

Alloc(c) ==
    /\ pc[c] = "alloc"
    /\ \E m \in pool :
        /\ pool' = pool \ {m}
        /\ msg' = [msg EXCEPT ![m] = [key |-> req[c].key, wait |-> req[c].wait, reply |-> HomeOf(c)]]
        /\ sent' = [sent EXCEPT ![c] = m]
    /\ pc' = [pc EXCEPT ![c] = IF HomeOf(c) = Host THEN "put" ELSE "lock"]
    /\ UNCHANGED <<config, queues, msgQLock, servers, req, got, retry>>

(* The heap is empty.  A BIOS core returns an error; the host asserts that  *)
(* it is not, and its thread stays there, with the lock.                    *)
AllocFails(c) ==
    /\ pc[c] = "alloc" /\ pool = {} /\ HomeOf(c) # Host
    /\ pc' = [pc EXCEPT ![c] = "idle"] /\ req' = [req EXCEPT ![c] = NoReq]
    /\ UNCHANGED <<config, pool, msg, queues, msgQLock, servers, sent, got, retry>>

AllocAsserts(c) ==
    /\ pc[c] = "alloc" /\ pool = {} /\ HomeOf(c) = Host
    /\ pc' = [pc EXCEPT ![c] = "asserted"]
    /\ UNCHANGED <<config, pool, msg, queues, msgQLock, servers, req, sent, got, retry>>

NotWaited(p) == TRUE                            \* mutant: no lock
Unlocked(p) == msgQLock[p] = Nobody

Lock(c) ==
    /\ pc[c] = "lock" /\ Unlocked(HomeOf(c))
    /\ msgQLock' = [msgQLock EXCEPT ![HomeOf(c)] = c]
    /\ pc' = [pc EXCEPT ![c] = IF HomeOf(c) = Host THEN "alloc" ELSE "put"]
    /\ UNCHANGED <<config, pool, msg, queues, servers, req, sent, got, retry>>

Put(c) ==
    /\ pc[c] = "put"
    /\ selfMsgQ' = [selfMsgQ EXCEPT ![req[c].to] = Append(@, sent[c])]
    /\ pc' = [pc EXCEPT ![c] = IF req[c].wait THEN "ack" ELSE "unlock"]
    /\ UNCHANGED <<config, pool, msg, selfAckMsgQ, msgQLock, servers, req, sent, got, retry>>

(* The transport refuses the message: it is given back.                     *)
PutFails(c) ==
    /\ pc[c] = "put" /\ config.mayFail
    /\ Free(sent[c])
    /\ pc' = [pc EXCEPT ![c] = "unlock"]
    /\ UNCHANGED <<config, queues, msgQLock, servers, req, sent, got, retry>>

(* Whether the host takes an acknowledgement for that of its request.       *)
Matches(c, m) == msg[m].key = req[c].key

TakeAck(c) == selfAckMsgQ' = [selfAckMsgQ EXCEPT ![HomeOf(c)] = Tail(@)]

(* The acknowledgement is there: the call is over, unless the host has seen *)
(* a wrong one before (retryMsgGet stays set); then it gets another one and *)
(* forgets this one.                                                        *)
GetAck(c) ==
    /\ pc[c] = "ack" /\ selfAckMsgQ[HomeOf(c)] # << >>
    /\ LET m == Head(selfAckMsgQ[HomeOf(c)]) IN
        /\ HomeOf(c) = Host => Matches(c, m)
        /\ got' = [got EXCEPT ![c] = m]
    /\ TakeAck(c)
    /\ pc' = [pc EXCEPT ![c] = IF retry[c] THEN "ack" ELSE "copy"]
    /\ UNCHANGED <<config, pool, msg, selfMsgQ, msgQLock, servers, req, sent, retry>>

RefuseAck(c) ==
    /\ pc[c] = "ack" /\ HomeOf(c) = Host /\ selfAckMsgQ[Host] # << >>
    /\ LET m == Head(selfAckMsgQ[Host]) IN ~Matches(c, m) /\ Free(m)
    /\ TakeAck(c)
    /\ retry' = [retry EXCEPT ![c] = TRUE]
    /\ UNCHANGED <<config, selfMsgQ, msgQLock, servers, pc, req, sent, got>>

(* A BIOS core's get comes back without a message: the call returns its     *)
(* error at once, and leaves the lock locked.                               *)
NoAck(c) ==
    /\ pc[c] = "ack" /\ HomeOf(c) # Host /\ config.mayFail
    /\ pc' = [pc EXCEPT ![c] = "idle"] /\ req' = [req EXCEPT ![c] = NoReq]
    /\ sent' = [sent EXCEPT ![c] = NoMsg]
    /\ UNCHANGED <<config, pool, msg, queues, msgQLock, servers, got, retry>>

(* The message stays with whoever has it (mutant: it is freed).             *)
TimeoutFrees(c) ==
    /\ pc[c] = "ack" /\ req[c].timed /\ selfAckMsgQ[HomeOf(c)] = << >>
    /\ pc' = [pc EXCEPT ![c] = "unlock"] /\ Free(sent[c])
    /\ UNCHANGED <<config, queues, msgQLock, servers, req, sent, got, retry>>
Timeout(c) ==
    /\ pc[c] = "ack" /\ req[c].timed /\ selfAckMsgQ[HomeOf(c)] = << >>
    /\ pc' = [pc EXCEPT ![c] = "unlock"]
    /\ UNCHANGED <<config, pool, msg, queues, msgQLock, servers, req, sent, got, retry>>

CopyAnswer(c) ==
    /\ pc[c] = "copy"
    /\ Free(got[c])
    /\ pc' = [pc EXCEPT ![c] = "unlock"]
    /\ UNCHANGED <<config, queues, msgQLock, servers, req, sent, got, retry>>

Unlock(c) ==
    /\ pc[c] = "unlock"
    /\ msgQLock' = [msgQLock EXCEPT ![HomeOf(c)] = Nobody]
    /\ pc' = [pc EXCEPT ![c] = "idle"] /\ req' = [req EXCEPT ![c] = NoReq]
    /\ sent' = [sent EXCEPT ![c] = NoMsg] /\ got' = [got EXCEPT ![c] = NoMsg]
    /\ retry' = [retry EXCEPT ![c] = FALSE]
    /\ UNCHANGED <<config, pool, msg, queues, servers>>

----------------------------------------------------------------------------
(* System_ipcMsgQTaskMain.                                                  *)

Serve(p) ==
    /\ server[p] = "idle" /\ selfMsgQ[p] # << >>
    /\ serving' = [serving EXCEPT ![p] = Head(selfMsgQ[p])]
    /\ selfMsgQ' = [selfMsgQ EXCEPT ![p] = Tail(@)]
    /\ server' = [server EXCEPT ![p] = IF msg[Head(selfMsgQ[p])].wait THEN "run" ELSE "free"]
    /\ UNCHANGED <<config, pool, msg, selfAckMsgQ, msgQLock, called, callers>>

ServerDone(p) ==
    /\ server' = [server EXCEPT ![p] = "idle"]
    /\ serving' = [serving EXCEPT ![p] = NoMsg]
    /\ called' = [called EXCEPT ![p] = FALSE]

(* Where the answer goes, and its mutant: back to the server's own core.    *)
ReplyToSelf(p) == p
ReplyTo(p) == msg[serving[p]].reply

Reply(p) ==
    /\ server[p] = "run" /\ pc[p] = "idle"
    /\ selfAckMsgQ' = [selfAckMsgQ EXCEPT ![ReplyTo(p)] = Append(@, serving[p])]
    /\ ServerDone(p)
    /\ UNCHANGED <<config, pool, msg, selfMsgQ, msgQLock, callers>>

(* The answer is given up, and the caller waits on for it.                  *)
ReplyFails(p) ==
    /\ server[p] = "run" /\ pc[p] = "idle" /\ config.mayFail
    /\ Free(serving[p]) /\ ServerDone(p)
    /\ UNCHANGED <<config, queues, msgQLock, callers>>

(* A request without acknowledgement was passed on to the link's mailbox.   *)
FreeUnanswered(p) ==
    /\ server[p] = "free"
    /\ Free(serving[p]) /\ ServerDone(p)
    /\ UNCHANGED <<config, queues, msgQLock, callers>>

----------------------------------------------------------------------------
SendMsg(c) ==
    \/ Alloc(c) \/ AllocFails(c) \/ AllocAsserts(c) \/ Lock(c) \/ Put(c) \/ PutFails(c)
    \/ GetAck(c) \/ RefuseAck(c) \/ NoAck(c) \/ Timeout(c) \/ CopyAnswer(c) \/ Unlock(c)
Server(p) == Serve(p) \/ Reply(p) \/ ReplyFails(p) \/ FreeUnanswered(p)

Next ==
    \/ \E c \in All : SendMsg(c)
    \/ \E c \in Callers : Call(c)
    \/ \E p \in Cores : Server(p) \/ NestedCall(p)

Spec == Init /\ [][Next]_vars

(* Tasks run when they can, and the lock is granted in turn; a server's     *)
(* handler comes to an end (it may, but need not, call; the host's never    *)
(* does).                                                                   *)
Proceeds(c) ==
    \/ Alloc(c) \/ AllocFails(c) \/ AllocAsserts(c)
    \/ Put(c) \/ GetAck(c) \/ RefuseAck(c) \/ CopyAnswer(c) \/ Unlock(c)

FairSpec ==
    /\ Spec
    /\ \A c \in All \ {Host} : WF_vars(Proceeds(c)) /\ SF_vars(Lock(c))
    /\ \A p \in Cores : WF_vars(Server(p))

----------------------------------------------------------------------------
(* The values of the variables.                                             *)
TypeOK ==
    /\ pool \subseteq Msgs
    /\ msg \in [Msgs -> [key : Keys, wait : BOOLEAN, reply : Cores]]
    /\ selfMsgQ \in [Cores -> Seq(Msgs)] /\ selfAckMsgQ \in [Cores -> Seq(Msgs)]
    /\ msgQLock \in [Cores -> All \cup {Nobody}]
    /\ server \in [Cores -> {"idle", "run", "free"}]
    /\ serving \in [Cores -> Msgs \cup {NoMsg}] /\ called \in [Cores -> BOOLEAN]
    /\ pc \in [All -> {"idle", "lock", "alloc", "put", "ack", "copy", "unlock", "asserted"}]
    /\ req \in [All -> Requests] /\ retry \in [All -> BOOLEAN]
    /\ sent \in [All -> Msgs \cup {NoMsg}] /\ got \in [All -> Msgs \cup {NoMsg}]

InQueue(m, kind, q, p) == {<<kind, p, i>> : i \in {k \in DOMAIN q : q[k] = m}}
Places(m) ==
    {<<"pool", Host, 0>> : x \in pool \cap {m}}
    \cup {<<"unsent", c, 0>> : c \in {x \in All : sent[x] = m /\ pc[x] \in {"lock", "alloc", "put"}}}
    \cup {<<"answer", c, 0>> : c \in {x \in All : got[x] = m /\ pc[x] \in {"ack", "copy"}}}
    \cup {<<"served", p, 0>> : p \in {x \in Cores : serving[x] = m}}
    \cup (UNION {InQueue(m, "queue", selfMsgQ[p], p) : p \in Cores})
    \cup (UNION {InQueue(m, "acks", selfAckMsgQ[p], p) : p \in Cores})

Timed(p) == \E c \in Callers : Home[c] = p /\ \E r \in config.calls[c] : r.timed
TimedKeys == {r.key : r \in {x \in UNION {config.calls[c] : c \in Callers} : x.timed}}
OneTimed == \A k1, k2 \in TimedKeys : k1 = k2

(* A message is in one place: free, with a caller, in a queue or with a     *)
(* server.  One that is freed twice, or answered and freed, would be handed *)
(* to two callers, which never happens; one that is in no place is lost to  *)
(* the heap, which takes calls for two different requests that time out: a  *)
(* host that has seen a wrong answer forgets the next one that matches.     *)
MsgOnce ==
    /\ TypeOK
    /\ \A m \in Msgs :
          /\ Cardinality(Places(m)) <= 1
          /\ OneTimed => Cardinality(Places(m)) = 1

(* The answer a caller takes is the one to its own request, although all    *)
(* callers of a core share one queue: the link has acknowledged the command *)
(* that was sent (system.h:267).  On the host this needs calls that do not  *)
(* time out; elsewhere it holds whatever the transport refuses.             *)
OwnAnswer == \A c \in All : pc[c] = "copy" /\ ~Timed(HomeOf(c)) => got[c] = sent[c]

(* Every call comes back if the transport is reliable: no caller waits for  *)
(* an answer that went elsewhere, and no ring of cores waits for each       *)
(* other's servers.  A call of the host may meet the assertion that the     *)
(* heap is not empty, itself or in the thread that has the lock; not,       *)
(* though, if every request is acknowledged and the heap has a message for  *)
(* the host and one for each caller of the other cores.  Nothing limits the *)
(* messages of requests that are not acknowledged.                          *)
Reliable == ~config.mayFail /\ \A p \in Cores : ~Timed(p)
Called == UNION {config.calls[c] : c \in Callers} \cup UNION {Nested[k] : k \in Keys}
OtherCallers ==
    {c \in Callers : Home[c] # Host /\ config.calls[c] # {}}
    \cup {p \in Cores : \E r \in Called : r.to = p /\ Nested[r.key] # {}}
Enough == (\A r \in Called : r.wait) /\ Cardinality(Msgs) > Cardinality(OtherCallers)
Asserted(p) == \E c \in All : HomeOf(c) = p /\ pc[c] = "asserted"
CallsReturn ==
    \A c \in All : Reliable /\ pc[c] # "idle" ~> pc[c] = "idle" \/ (~Enough /\ Asserted(HomeOf(c)))

(* A call whose answer has arrived comes back.                              *)
AnsweredReturns == \A c \in All : pc[c] = "ack" /\ got[c] = sent[c] ~> pc[c] = "idle"
=============================================================================
