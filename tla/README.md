# Verification of the IPNC multi-channel framework (mcfw)

The framework moves video frames and bitstreams between *links*. A link is one
task with a mailbox; it is created, started, stopped and deleted by commands,
takes full buffers from the link before it, hands its own buffers to the link
after it, and gives the buffers back when they are returned. Links run on four
cores: Linux on the A8 (`mcfw/src_linux`), BIOS6 on the two M3 cores (VPSS:
capture, display, scaling; VIDEO: codecs) and on the C6x DSP
(`mcfw/src_bios6`). Links on different cores meet through pairs of *IPC links*
that exchange list elements in shared memory.

Every link is built from the same parts, so the verification starts with those
parts and works upwards:

```
   link control (system_linkApi, system_ipc_msgq)         commands, request/ack across cores
        |
   links (dup, merge, encode, IPC, ...)                   frames, streams: who owns which buffer
        |
   mailbox + task (utils_mbx, utils_tsk)                  commands and acknowledgements
        |
   queue (utils_que)                                      blocking, wakeups, forced unblock
```

## 1. Inventory

"State" is what the component keeps; "hard" is what a test would hardly reach.
Paths are under `src/`; `bios6` stands for `mcfw/src_bios6`, `linux` for
`mcfw/src_linux`.

### Utils layer (bios6/utils)

| Component | State | Operations | Interacts with | Hard behaviour | Correct when |
|---|---|---|---|---|---|
| queue, `utils_que.c` | ring, count, two binary semaphores, blocked/forced flags | create, put, get, peek, unblock | every other part; SYS/BIOS semaphores | posts between check and pend; several callers on one side; unblock against a pend; timeouts | FIFO, no lost wakeup, unblock fails one call |
| mailbox, `utils_mbx.c` | global pool of messages, receive queue, 4 acknowledgement queues | send (with or without ack), recv, ack, wait for a command | queue; every task | acks of several senders; messages that are neither freed nor acknowledged; pool and queue limits | every message is in one place; a sender gets its own ack |
| task, `utils_tsk.c` | task, mailbox, main loop | create, delete (EXIT command), flush, set priority | mailbox | delete while commands are queued | task ends, no sender is left waiting |
| buffer pairs, `utils_buf.c`, `utils_bit_buf.c`, `utils_buf_ext.c` | empty queue, full queue, allocation pools | get/put empty, get/put full, delete | queue; codec and scaler links | a buffer put twice or into the wrong pool | buffers are conserved |
| ring buffer, `utils_ringbuffer.c` | read/write offsets, stream count | give out the contiguous room, move offsets | the encoders' bitstreams | wrap-around, full against empty; nobody asks for room | writer never overtakes reader; a stream always fits |
| memory, tiler, DMA, timers, load statistics | allocators, counters | alloc, free, copy, sample | links | fragmentation | regions do not overlap |

### Links used on every BIOS6 core (bios6/links_common)

| Component | State | Operations | Interacts with | Hard behaviour | Correct when |
|---|---|---|---|---|---|
| dup | container frames with a reference count, one output queue per consumer | process, put empty (from several consumers), delayed output | one producer, up to 6 consumers, each its own task | last consumer to return; delayed consumer; a consumer faster than the return path | an input frame goes back exactly once, after all consumers |
| merge | channel maps, one output queue | process from several inputs, put empty | several producers, one consumer | channel renumbering there and back | a frame goes back to the queue and channel it came from |
| ipcOutM3 / ipcInM3 | list elements, two shared lists, notify or period | process, release, get full, put empty | two links on two cores, IPC notify | element exhaustion, notification lost or late, delete with elements in flight | every element is in one place; frames come back |
| ipcBitsOut | list elements that say where they are (`bufState`) and whose, two shared lists, command queue, timer | take streams, release elements, delete | encoder, `ipcBitsIn` on Linux | notify or polling, lost commands, deletion with elements on the host | elements are where they say; buffers come back |
| ipcFramesOut/In, ipcBitsIn | the same between M3, DSP and A8 | the same, with a callback that processes frames | Linux user space, DSP algorithms | the same | the same |
| select, mux, null, nullSrc | channel tables, timers | reroute, discard, generate | links | reconfiguration while frames flow | frames are conserved |
| system | link table, message queues, notify, work queues | link control, get info, remote calls | all cores | one server task per core; lock around send and ack | each call is answered once, to its caller |
| va (video analytics) | algorithm instances | process, delete | DSP algorithm (binary) | – | – |

### Links of single cores

| Component | What it does | Hard behaviour |
|---|---|---|
| m3video/iva_enc, iva_dec | codecs: request objects go round between link task, process task and completion; channels' queues, bitstream buffers in a ring | batches, stop, delete and codec switch with requests in flight |
| m3video/mctnf, vstab, alg | noise filter, stabilisation, motion detection | frame-rate control, history buffers |
| m3vpss/camera, capture, display, dei, sclr, mpSclr, nsf, isp, vnf, wdr, glbce, fd, swMs, mjpeg, swosd, avsync | hardware driver clients; each is a link | driver callbacks against the link task, per-channel queues |
| c6xdsp/alg_link, rvm, system | SCD and OSD algorithms, voice | – |
| */system | link registry of each core, initialisation, tiler, clocks | start-up order |

### Linux (linux) and demos

| Component | What it does | Hard behaviour |
|---|---|---|
| osa (queue, message queue, mailbox, task, buffer, semaphore, event, pipe) | the pthread counterpart of the utils layer | shared acknowledgement mailbox, condition variables |
| links/ipcBits*, ipcFrames*, avsync, glbceSupport, system | A8 end of the IPC links, request/ack to the M3 cores | notify thread, polling thread, shared lists, a mailbox that survives the link |
| mcfw_api, usecases | builds the graph of links of each use case, maps user channels | order of create/start/stop/delete |
| devices, kernel_modules, osa_kermod, utils | drivers and tools | hardware |
| demos/mcfw_api_demos/stream | stream server: memory pool, cache of frames, GOP lock | locks against overwriting |
| demos/mcfw_api_demos/multich_usecase | the application: a thread that takes streams at a semaphore and gives them back | stop order, a semaphore nobody posts |
| demos/*, bios6/main_app, bios6/cfg | examples, main functions, memory maps | – |

## 2. The modules

| Module | Models | Extends / composes |
|---|---|---|
| `BoundedFifo` | what `utils_que.h` promises: a FIFO of bounded size, calls that take effect at one instant or fail for a named reason | – |
| `UtilsQue` | `utils_que.c` step by step | refines `BoundedFifo` (`ImplementsFifo`) |
| `UtilsQue_proofs` | theorems about `UtilsQue` | extends `UtilsQue` |
| `UtilsMbx` | `utils_mbx.c` and the main loop of `utils_tsk.c` | a queue with one caller on a side as `UtilsQue` implements it: one step, enabled when the queue is ready; a wait of several callers step by step |
| `DupLink` | `dupLink_tsk.c` with its producer and consumers | queues with one caller on a side, in one step |
| `MergeLink` | `mergeLink_tsk.c`, several merges in a row | same |
| `IpcM3` | `ipcOutM3Link_tsk.c` and `ipcInM3Link_tsk.c` together, the lists between them, the life of the pair | same, mailbox as a set of commands |
| `RingBuffer` | `utils_ringbuffer.c` and the decisions its users in the encode link take by it | – |
| `EncLink` | the encode link (`encLink_common.c`, `encLink_tsk.c`): link task, process task, the links before and after, the host's commands | `INSTANCE RingBuffer`; queues as above |
| `IpcBits` | `ipcBitsOutLink_tsk.c` (video core), `ipcBitsInLink_tsk.c` (Linux) and the application's thread `ti_mcfw_ipcbits.c`, the lists between them, stop, deletion and creation | mailboxes and notify as in `IpcM3` |
| `IpcMsgQ` | `system_linkApi.c` and `system_ipc_msgq.c` of both the BIOS cores and Linux | queues of messages between cores |
| `UtilsMbx_proofs`, `IpcMsgQ_proofs`, `IpcM3_proofs` | theorems about the module of that name, after what a put and a get do to the elements of a sequence | extend it |
| `IpcBits_proofs` | theorems about `IpcBits`, after how often a sequence holds an element | extends `IpcBits` |
| `DupLink_proofs` | theorems about `DupLink` | extends `DupLink` |
| `EncLink_proofs` | theorems about `EncLink` and its ring, which it proves about first | extends `EncLink` |
| `MergeLink_proofs` | theorems about `MergeLink`, after what sequences hold and how channels are numbered | extends `MergeLink` |
| `MC...` | small values for the constants that are functions or records; the symmetry sets | the module they are named after |

Names follow the code: a variable `delayedOutputQueId` or `msgQLock` is the field
of that name, an action is the function it translates, or a part of it. Where a
function is split, every step ends at a point where another task, an interrupt
or another core may run in between and matter: the end of a critical section, a
pend, a post, a put into a queue somebody else reads, a message to another core.

**UtilsQue.** The two sides of a queue are the same code up to names, so semaphores
and flags are functions of the side (`"get"`, `"put"`). `pc` walks a call
through `Utils_queGet`/`Utils_quePut`: `try` (the section under `Hwi_disable`:
`PutElement`, `GetElement` or `NotReady`), `block` (the flag is set), `pend`,
`wait` (asleep in the semaphore), `woken` or `timedOut`, `check` (the forced
flag), `post` (the other side is woken). SYS/BIOS semaphores are external: BINARY, a post releases
one waiting task or leaves one token. `UnBlock` is `Utils_queUnBlock`, one step, as it runs with
interrupts and tasks disabled.

**UtilsMbx.** A sender's `pc`: claim an acknowledgement queue, allocate a message, put
it, wait for the acknowledgement, release the queue. Several senders wait for the pool
and for room in a receive queue, on one binary semaphore each, and such a wait can miss its post
(finding 1). So it is not a step that is enabled when there is room, but the loop of `utils_que.c`: the check (`NotReady`), the pend
(`Pend`; `sleep` is `awake`, `pend` or `asleep`), and the post of whoever frees a message or
takes one (`Post`, which releases one sleeper or leaves the `token`). A task's `loop`: receive,
handle (and in the handler flush or wait for a command), settle the
message. `SendCmd` is what interrupts use: nothing in it waits and it may fail.

**DupLink.** The containers of one output are alike, so a number stands for them
(`empty`). The link's own task runs `ProcessFrames` and then `PutOut` once for each output,
without the lock. A consumer takes the lock with its list (`PutEmpty`) and goes through
it: `CountDown` of one frame, and `Forward` and `PutDelayed` if that frame goes to the delayed output now,
then the next one; `PutBack` and, without the lock, `PutContainers` end the call. A delay command
(`SetDelayOutQue`) may come at any time and sets both ids or neither; it is refused once a frame has
been `received`. NEW_DATA to the link and to the consumers may be lost (`Notice`). `config.preempts` says whether the
link's task may run while a consumer is between filling and putting the delayed
output's list.

**IpcM3.** Out's task (`OutReceive` to `OutReleaseEnd`), In's task (`InReceive` to
`InTakeEnd`), the two notify callbacks, the two timers, and the consumer that
runs In's functions. `stage` is the life of the pair: stop, delete the consumer, then Out and In or,
with `createArgs.inFirst`, In and Out, as the use cases do it one way at line 1552 and the other at
line 1611 of `multich_tristream_fullfeature.c`; create Out, In. A link is deleted while the other one may still notify it. A command that does not
fit in a mailbox is lost, of a callback, a timer, the producer (`Produce`) or In's task (`SendOut`, `SendIn`,
`TellConsumer`).

**IpcMsgQ.** A caller's `pc`: lock, allocate (a BIOS core the other way round), put,
wait for the acknowledgement, copy, unlock. On an empty heap a BIOS core returns an error (`AllocFails`) and
the host asserts, with the lock (`AllocAsserts`); a BIOS core's wait that ends without
a message returns, and leaves the lock locked (`NoAck`). A server takes a request, runs the
handler, which may call another core itself (`NestedCall`: the core stands
for its server as a caller), and replies. The host also compares the acknowledgement with the request
(`RefuseAck`) and may time out.

**EncLink.** The link's task is a program counter `link`: `main` (it takes its
messages), `submit` (`EncLink_codecSubmitData`: one attempt for channel `ch`),
`stop`, `delete`. `tsk` is the process task (`GetBatch`, `Submit`, `Encoded`,
`BatchDone`); `Asleep` is when the lower tasks run, as priorities are
process task, next link, link task. `host.op` is the command under way and `host.taken`
says that the link holds its message; `lateAck` is the message with which the
process task has the link answer (`EncLink_tskMain`), which may be lost (`TellLink`), as NEW_DATA may (`Sent`).
A switch makes an interlaced channel `progressive`, and what is queued of it is submitted as such. Requests and bitstream buffers are alike and counted;
the ring's state is `RingBuffer`'s, with `Alloc` when the codec starts,
`Result` when it has written, `GiveBack` when the next link returns the stream. A buffer remembers the size of its
last frame (`lastSizes`): that, not the pool's size, is what the room up to the ring's end is compared with.
When a codec refuses its configuration in the middle of a batch (`SubmitFails`) the rest of the batch comes back without a
stream, and the buffers that come back move the ring's read offset by what an earlier stream left in them; from
then on the ring is out of step (`ringLost`) and nothing more is said about it.

**IpcBits.** Out's task (`OutReceive` to `OutReleaseEnd`), In's task
(`InReceiveNewData`, `InTake`, `InTakeEnd`), the polling thread (`PeriodicTask`), the
application's thread (`AppWake` to `AppLoop`) and the main thread, whose progress is `stage`:
`run`, stop the application's thread (`exit`), `stopped`, delete Out, delete In (a
command that In's task takes), create Out, create In (a command too). The encoder's NEW_DATA (`Finish`), like the commands
of timer and notify, is lost when Out's mailbox is full (`SendOut`). In's mailbox is
In's task's own and lives on. The polling thread and In's task have the same FIFO priority on a
host of one core, so the thread sends and counts in one step.

In `DupLink`, `IpcM3`, `IpcMsgQ`, `EncLink` and `IpcBits` a variable (`config`,
`createArgs`), chosen once in `Init`, holds the parameters of creation
or of the surroundings, so one run covers several configurations.

**MergeLink.** `Create` builds the channel tables from those of the links before;
`Process` renumbers the frames of one input; a call that gives frames back
sorts them by input and may call the merge behind that input with the lock
held, so a task has a stack of `calls`.

## 3. The runs

| Run | Question | Result |
|---|---|---|
| `que_pair` | Is a queue with one reader and one writer the FIFO its header promises, with no wakeup lost? | holds |
| `que_two_readers` | The same with two readers that wait for ever? | **violated**: finding 1 |
| `mbx` | Are messages neither lost nor used twice, does a sender get its own acknowledgement, does every call return although a wakeup may be missed? | holds, a call returns if others do not call again and again |
| `dup` | Does a frame go back exactly after its last consumer, do containers suffice, does every frame come back? Does a delayed output wait for one of the others, or for all? | holds, the delayed output without preemption |
| `dup_preempted` | Is a frame kept when the link's task preempts a consumer with a delayed output? | **violated**: finding 2 |
| `ipcm3` | Are elements and frames each in one place through loss, skipping, stop, deletion and creation? Does a notify ever meet a deleted link, whichever is deleted first? Does every frame come back, although a command is lost? | holds |
| `msgq` | Is a message in two places, or lost to the heap, when calls time out and puts fail? Does each caller get its own answer on a core whose calls do not time out, and does each call come back without faults? | holds; a message is lost if two different calls time out, and a call of the host comes back only if the heap is not empty |
| `msgq_retry` | Does a call whose answer has come return? | **violated**: finding 3 |
| `merge` | Does a frame that crossed two merges return home under its own channel, and does the number it has on the way tell where it is from? | holds |
| `enc` | Is every frame, request, bitstream buffer and stream kept, with batches, fields, skipped frames and rejected ones? Is all of it but the ring kept when a codec fails in a batch? Is a codec switch answered, does the link stop, is nothing in use when it is deleted? | holds |
| `enc_switch` | Do the link's assertions hold when the codec of a channel is switched that is encoded in batches? | **violated**: finding 4 |
| `bits` | Are elements where they say they are, through stop, deletion and creation? Do streams stay in order? Does every buffer come back, and the application stop? | holds |

### Bounds, and why they are enough

- `que_pair`: a ring of 2 wraps around, is full and empty within four calls; the
  arguments of minCount, 0 and 3, are below and above the range, so both clamps
  act. One reader and one writer is how the framework uses its blocking
  queues; the proofs lift the capacity, the data, the minCounts and, for
  the refinement, the number of callers.
- `que_two_readers`: two readers and one element value are the least that fail.
- `mbx`: three messages for two senders, so that one of them may be with the link while both senders have one, and one
  acknowledgement queue, with one place, and one place in the receive queue: pool, queue and
  acknowledgement queues are exhausted, and both senders sleep in one semaphore. The code has 4 acknowledgement queues, which only makes a failed claim rarer.
- `dup`: two frames, given back one by one or in a list of two, and NEW_DATA that may always be lost. `Plain`: two outputs, the link's
  task preempts consumers. `TwoCmds`: two outputs and two delay commands at any time, so that
  the second is refused, or both are. `Delayed`: three outputs, of which one waits for the two others. With a delayed output there is no
  preemption (finding 2). The containers are scaled with the frames: there are as
  many more containers than frames as a call gives back, as in the code (`DUP_LINK_MAX_FRAMES_PER_OUT_QUE`
  against the producer's frames), because an original goes back before its
  container does. Lists that are as long as `FVID2_MAX_FVID_FRAME_PTR` do not occur.
- `ipcm3`: two frames with one element, so that a frame without an element occurs, with notify,
  one lost command (`maxDrops`) and Out deleted first, or no loss and In deleted first; and polling with two elements, so that the lists have an
  order, and one lost command. The cycle of deletion and creation is not bounded.
- `msgq`: host and two cores, two host threads and one camera task; two
  messages, so that the heap is exhausted. `calls` lists the requests of
  each caller. `UseCase`: creation that makes a nested request, control, an event
  without acknowledgement, which may fill the heap; `Acknowledged`: two creations, for which
  two messages are `Enough`; `FaultyCalls`: one request with a timeout, puts and waits that
  fail; `TimedCalls`: two requests with a timeout, where only `Cardinality(Places(m)) <= 1` is asked.
- `enc`: two channels; three requests for two buffers, so that a request without a
  buffer occurs; one switch. `Batches`: frames of two sizes in batches, skipped frames, lost NEW_DATA, a codec that fails.
  `Switches`: three frames of two channels with two codecs, one channel with two fields in a request, the other one
  switched, lost LATE_ACK. `Fields`: interlaced channels with a request for each field, of which one is
  switched, both commands lost. The ring has two buffers of 2, frames of 1 and 2, and streams of 1, the largest that
  `RingAssumption` allows: half a frame for each of two. Nothing in the code enforces that relation of sizes; the bit rates
  of the use cases give it.
- `bits`: two buffers and two elements, for the order of streams and the states of elements; `MaxPending`
  and `MaxSem` are 2 and 1 (the code has 8 and 10), so both limits are reached. Polling has two buffers, one lost
  command and restarts; notify has two buffers without either, and one buffer with both.
- `merge`: two merges in a row, one behind the other, and three sources with
  2, 1 and 1 channels, so an input's channels start at 0 and at an offset at
  both merges. Two tasks, which are alike (symmetry), give frames back in lists of up to two.

`CHECK_DEADLOCK FALSE` appears where the system may stop: `mbx` (a deleted
task receives nothing more, and a sender waits on), `msgq` and `msgq_retry` (the host
asserts on an empty heap; a caller whose answer was refused waits on), `enc` and `enc_switch` (a deleted link),
`dup` and `dup_preempted` (all frames are where a NEW_DATA was lost, and so nothing repeats it),
`ipcm3` and `bits` (the same; a core that has asserted; a configuration without restarts may be idle). In `que_pair`
and `merge` TLC also shows that the system never stops, which is what a lost notification would cause.

### Fairness

Every assumption is about scheduling: SYS/BIOS or Linux runs a task that is ready,
takes an interrupt and lets a timer expire, so each step of a task, callback
or clock is weakly fair. Strong fairness is given where several tasks
compete for a lock and get it in turn (`DupLink`, `IpcMsgQ`), where a task waits for a command in a
mailbox that is a FIFO in the code and a set in the model (`IpcM3`, `IpcBits`, and the
encode link's `GetProcessedData` and `Command`; in `DupLink` for some consumer), and to a handler of `UtilsMbx`, which flushes a
few times and then ends. In the encode link that also says that the
higher tasks leave the link's task time to run: its codec and its consumer wait for hardware and for
frames. The pool and the receive queues of `UtilsMbx` are not served in turn: a sender's steps are
only weakly fair, since one that is released may find the message taken and sleep again.

Of the surroundings three things are assumed. A consumer gives every frame it has
back, which the framework demands of every link. In `EncLink` the camera fills every frame
that it gets back, and in `IpcBits` the encoder finishes a
stream whenever it has a buffer: both never pause, which is what makes
`StopEnds` hard, and what `AppStops` needs (the application's thread looks at its
exit flag only after a stream has come). Nobody has to call, no timeout has to expire, no unblock has
to come, and no codec has to fail.

Some things are promised only under a condition, which is then a part of the property.

- `System_sendLinkCmd` sends by `Utils_mbxSendCmd`, which does not wait; with no free message or a full mailbox
  the command is lost, and its callers ignore that. Timers repeat RELEASE and polling repeats In's NEW_DATA, so their loss is
  made up for (`ipcm3`, `bits`). The NEW_DATA of a producer is repeated by nothing but its next frames, and if all its frames
  wait there are none. So `FramesComeBack` and `BufsComeBack` suppose that whoever has frames waiting is told
  again at some time (`ToldAgain`, `OutTold`, `ConsumerTold`, `[]<>newData`), and
  `SwitchAnswered` excepts a LATE_ACK that is lost: then the host waits for ever, with its lock held.
- `SendReturns` supposes that the others stop calling at some time (callers that keep coming may starve one) and that a
  link does not wait for ever for a command nobody sends.
- `CallsReturn` excepts calls of the host that meet the assertion on an empty heap, or wait for a lock whose holder has; if all
  requests are acknowledged and there is a message for each other caller (`Enough`) none does.

### Findings

1. `que_two_readers` (`utils_que.c:342`): the semaphores are binary, so two
   posts that are made while two readers are between check and pend leave one
   token; one reader sleeps with an element queued. The header promises that a
   get waits until an element is there. With one reader it cannot happen
   (`NoWakeupLost`).
2. `dup_preempted` (`dupLink_tsk.c:248`): the link's task clears the lists of
   all outputs, the delayed one's too, without the lock under which a consumer
   fills that list. A link's task of higher priority loses the
   consumer's frame.
3. `msgq_retry` (Linux `system_ipc_msgq.c:441`): a wrong acknowledgement
   sets `retryMsgGet` and the right one does not clear it, so the call waits on
   with the lock held. The messages it drops are lost to the heap: `MsgOnce` has every message in a place
  only if at most one request of the host may time out (`OneTimed`); then a call that has seen a wrong
  answer is one that does not time out, and its own answer, which it keeps in `got`, is the only one that matches.
4. `enc_switch` (`encLink_common.c:2618`): a batch takes what follows in the
   process queue by channel and codec and never looks at the request's type. The dummy request
   that announces a codec switch joins a batch of the channel's old codec; it is
   then handed back as a request and overflows the queue of requests, the assertion at line 1705 fails,
   and the switch is neither done nor answered. `enc` has the switch on a
   channel whose codec no other channel has.

Seen while modelling and not turned into runs:

- dup: delay commands that name the delayed output as the one to wait for, or one that does not exist,
  are not refused (line 219), and its frames are then never handed on.
- ipcM3: when In is deleted before Out, frames that are still on their way through Out raise a notify to the deleted In,
  whose callback asserts that its timer exists (`ipcInM3Link_tsk.c:102`); `NotifiedAlive` promises nothing about In then.
- ipcInM3 sends a notify with `noNotifyMode` set and
  `notifyPrevLink` at its default (`ipcInM3Link_tsk.c:274`), unlike what `ipcLink.h:180-182` says;
  `CreateArgs` holds the configurations the use cases have.
- link control: the host takes the late
  answer to a command for the answer to the same command sent again (line 423); `OwnAnswer` is
  checked for cores none of whose calls time out. The host asserts that the heap is not empty (line 353) while it holds
  the lock, and nothing limits the requests that are not acknowledged and so may empty it.
- task: `Utils_tskMain` leaves its loop with messages still in its mailbox
  (`utils_tsk.c:32`), whose senders wait on; `SendReturns` says so. `Utils_tskDelete` ignores a failed send of EXIT (line 81).
- encode link: stop leaves the frames that are in channels' queues where they are
  (`encLink_common.c:1755`); nobody gives them back. A lost LATE_ACK is only logged (line 2945). After a codec has refused its
  configuration (`encLink_h264.c:344`) buffers come back with the address and size of an earlier stream, and
  `encLink_tsk.c:443` moves the ring's read offset by them.
- ipcBitsOut: the path for buffers that get no element (`ipcBitsOutLink_tsk.c:293-310`) is
  never taken, because the get before it waits for ever (`ElemAvailable` shows that it never has to).
- ipcBitsIn: two threads change `numPendingCmd` without a lock (`ipcBitsInLink_tsk.c:39`, `:387`);
  it is safe as long as both have one FIFO priority on one core.

## 4. The proofs

`UtilsQue_proofs` holds for every capacity, every set of tasks, data, minCounts
and timeouts that `QueAssumption` allows: the capacity is at least 1, minCounts are
naturals, the markers `NoTask` and `NoData` are neither tasks nor data.

- `RingInvariant`: `Spec => [](TypeOK /\ RingOK)`. `TypeOK /\ RingOK` is not
  inductive: a put or a get needs to know that its caller has made that call,
  and `SetBlocked` that the side it indexes exists; `CallsOK` says so, and `IInv ==
  TypeOK /\ RingOK /\ CallsOK` is. The lemmas on `%` (`ModOnce`, `ModSum`)
  carry the arithmetic of the ring; one lemma for each action follows. `QueTypesAlways` is its first half.
- `NoWakeupLost`: needs `SoleCallers`, one caller on each side that may
  block, since two fail (finding 1). `NoLostWakeup` speaks of sleeping calls
  only; the strengthening `WakeupDue` also speaks of calls before the pend:
  from the moment a call finds the queue not ready, either its condition is still false, or a post is still to
  be made, or, before it sleeps, its token is there.
- `QueImplementsFifo`: `Spec => ImplementsFifo`, for any number of callers.
  The abstract queue is the `count` elements from `curRd` on; a call is pending until
  its critical section or its failure. Every step is a step of
  `BoundedFifo` or a stutter. The proof rests on `IInv` and on `BlockedByCall`:
  a call is past the test for blocking only if its side may block.

`UtilsMbx_proofs` holds for any tasks, senders and messages, and any number and
length of acknowledgement queues (`MbxAssumption`), whatever the semaphores do: a sender that misses a post has its message and its claim all the same.

- `OnePlaceAlways`: that each message is in one place is said by a map from
  messages to places that agrees with the state (`PlacesOK`), which is easier to carry
  through a step than a cardinality: one entry of the map moves.
- `OwnAckAlways`, `AckHasRoomAlways`: not inductive alone. `OwnerOK` says that a claimed
  acknowledgement queue has one owner, `BackOK` that a message with a link or in its queue that is
  to be acknowledged has the owner waiting for it, and that an acknowledgement queue is
  empty or has just the message its owner waits for. `CallOK` says what each
  place of a sender implies.

`DupLink_proofs` holds for any frames, outputs, containers and configurations, for lists of any length, for delay
commands at any time and for every loss of NEW_DATA.

- `ReturnedLastAlways`, `DelayedWaitsAlways`: an output is `Owed` a frame if it has a copy or is
  the delayed one and the frame is still `Awaited`: a call is handing it on (`Due`), or the output it
  waits for has not given it back (`Waiting`). `dupCount` is at least the number of outputs
  that are owed the frame, so the call that counts down to 0 is the last. A delay command that is accepted comes before the first
  frame, so it changes what no frame is owed (`Fresh`). The two theorems hold with preemption too, although the link's task may then
  clear the delayed output's list (finding 2).
- `FrameKeptAlways`, `ContainersKeptAlways` need configurations that make sense (`Proper`), as
  those of `dup.cfg` do: a delay command names an output other than the delayed one that exists, or all;
  with delay commands consumers are not preempted (finding 2); an output has as
  many containers as there are frames and one call gives back. Then `dupCount` is exactly the number of outputs owed the frame
  (`Exact`), and an output's list holds frames only while somebody is about to put it in the
  queue (`ListsOK`), in the middle of a list that a call goes through as well (`CallOK`). That includes all assertions of the link.

`EncLink_proofs` holds for any channels, frames, configurations, requests, buffers
and sizes that `EncAssumption` and `RingAssumption` allow.

- `StreamsKeptAlways`, `RoomForStreamAlways`: every step of the link does to the
  ring nothing, one of its three operations, or, when a codec has failed, a reset that ends what is said about it (`RingStep`), and the module's first part shows
  that the operations keep `RingInv`: the streams lie one after the other from `rdOfst`, either up to
  `wrOfst` (`Flat`) or up to some `top` from which they go on at the start (`Wrapped`).
  The second case is what allocation has to get right: it relies on `NumBufs`
  streams of the largest size fitting in one frame less than the ring has. What the room to the end is compared with is
  the size of the buffer's last frame. It may be smaller than the pool's, but a stream is no larger than any
  frame, so a region that is larger than that holds one; and as long as a buffer has had no frame, and the comparison is with 0, the
  write offset has not come that far (`Starting`).
- `SwitchPendingAlways`, `DeletedIdleAlways`: by counting. A dummy is a request more than there are, so
  free requests and those in the three queues are `NumReq`, and no dummy
  is among them, or `NumReq + 1`, and the host waits for its switch and the link has not been told
  (`Dummies`). Stop waits until all requests are free and no switch is under way, so nothing
  is left in the queues. Where the dummy is does not matter, so this holds even where it joins a batch (finding 4).
- `NoAssertionAlways`, `BufsKeptAlways` need to know where it is, and that it joins no batch: `SwitchedApart`
  says that a batch is one request, or that the channel that is switched is progressive and all others are interlaced, and
  stay so because none of them is switched.
  The configurations of `enc.cfg` are like that, that of `enc_switch.cfg` is not, and there the assertion
  fails (finding 4). The invariant `KeptInv` counts: the requests with frames in the three queues are those that are not free, and
  as many bitstream buffers are in use or wait behind the link (`Counted`), also after a codec has failed; the streams in the ring are as many until then.
  Each frame is in one place (`Placed`). What a queue holds is the cardinality of the set of
  its places (`Cnt`), whose lemmas for append, concatenation, tail and a cut take no induction.

`MergeLink_proofs` holds for any tree of merges, any channels, frames and tasks, and lists of
any length (`MergeAssumption`: each link but the last is an input of exactly one merge,
each frame's channel is one of its source's, there are finitely many frames).

- `BackHomeAlways`: the invariant `Inv(o)` is about an `o` that says of each channel of each created link which
  channel of which source it is. For a merge it is found at its creation, from
  the `o` of its inputs; so the theorem is about `\E o : Inv(o)`. `TableOf`: the two tables of a merge
  are inverse to each other and agree with `o`, which rests on `Ranks`: to count the channels before
  a channel numbers them from 0 without gaps. `Numbered`: in each place a frame's
  number is the one that `o` has for its channel there, in `mergeChannelNum` while
  it is in a call's list, in `channelNum` elsewhere and, once a merge has sorted it, in both, which the merge
  before relies on. Channels of two inputs stay apart because a link is an input once (`Open`).
- `MergeFrameOnceAlways`: the places are sources, queues, the sink, calls' lists
  and the sorted lists of a merge, which mean something only from the input at which a call that has the lock is (`Live`).
  A step moves frames from one place to another (`Move`). `CallsOK`: a call past the lock has it, and no other call is in
  that merge. The last step counts: what `Times` adds up are five sets of which one has one element.

`IpcMsgQ_proofs` holds for any cores, callers, requests, nested requests, messages
and transport (`MsgQAssumption`).

- `MsgOnceAlways`: `Here(m, k, w)` is "`w` has the message `m` in the kind of place `k`"; the
  invariant says that two such places of one message are the same (`Apart`) and, under `OneTimed`,
  that there is one (`Somewhere`).
- `OwnAnswerAlways`: a message that is to be acknowledged and is on its way is awaited by
  the caller that sent it, who holds the lock of its core, or its call has timed out, or the core's lock is lost for ever
  to a call whose wait ended without a message (`LostLock`), so that nobody there takes an answer any more
  (`AcksOK`); so an answer in a queue of a core without timeouts is that of the lock's holder.
  `RetryOK` says what a host that has seen a wrong answer knows.

`IpcM3_proofs` holds for any frames, elements and configurations, for every loss of
commands and through every cycle of stop, deletion and creation.

- `ElemOnceAlways`, `FrameOnceAlways`, `NotifiedAliveAlways`: the two records of sets,
  `ElemsIn` and `FramesIn`, change in two of their fields at a step, and one lemma (`Shift`)
  says that then they stay apart and together keep what they hold. The strengthening: an element in a list has a frame (`Filled`), and what a
  `stage` says about tasks, interrupts and queues (`LifeOK`), without which a deleted link's
  lists could be taken for those of the next one. `NotifiedAlive` follows for either order of deletion. It rests on the one
  assumption about interrupts in the model: a core has taken the notifies raised before it takes the DELETE of a link, because that message
  comes by a later interrupt from the host. When Out is deleted first nothing more is raised for In; when In is deleted
  first, the consumer, who notifies Out, is gone by then, but Out itself may notify In, which the theorem leaves open.

`IpcBits_proofs` holds for any buffers, elements and configurations that `BitsAssumption`
allows, for every loss of commands and through every restart.

- `BitsInvariant`: the inductive invariant `BitsInv`. `Located` says of an element that
  it is in one place, the one that its `bufState` names, with the owner and
  the buffer that go with it; `Buffer`, which counts the places of a buffer, is exact also
  for buffers the encoder does not have (they are nowhere). Both hold while Out is up.
  `Life` says what the `stage` implies for tasks, lists and notifies; `Mail` that there
  is at most one command of the main thread in In's mailbox, at the `stage` at which it
  was sent, that a creation is the last of what is there, and that the counter of polls is right:
  the polls that an earlier life left in the mailbox are before the creation and gone when it is served.
- `ElemPlacedAlways`, `BufOnceAlways`, `PollsCountedAlways` follow, and so does `ElemAvailableAlways`:
  with no element free, every element has one of the buffers other than the one that
  waits to be sent, no two the same, and there are as many elements as buffers (`FS_PigeonHole`).
- `StreamsInOrderAlways`, an action property, uses the invariant in both states of a step. The
  streams are one line, `outQue`, `listOut`, `todo`, `inQue` one behind the other; a step moves one over the border of
  two of them, adds one at the end or takes a prefix. The buffers that elements on the line
  carry do not change, as the element that is filled or freed is elsewhere (`Located`).

In all modules that have one, the type invariant `TypeOK` is a
conjunct of the invariant that counts what the module keeps (`OnePlace`, `ContainersKept`,
`ElemOnce`, `MsgOnce`, `BufsKept`, `ElemPlaced`).

Only model-checked: all liveness (`MergeLink` has no property of that kind, and no run for one), which is out of reach of the prover, as it treats neither
fairness nor `ENABLED` (`ReadyCallEnds`, `UnBlockReleasesSleeper`, `SendReturns`,
`FramesComeBack`, `CallsReturn`, `SwitchAnswered`, `StopEnds`, `BufsComeBack`, `AppStops`).
Each safety property of the passing runs is a theorem, or part of one, under the hypotheses
above.

## 5. What is not modelled

The rest of `PROJECT.json`'s components: each names its reason. In short:
drivers, codecs and algorithms that are binaries or hardware, of which the code
here is a client; start-up and parameter tables; and the parts that the plan below still has.
The decode link is not modelled because it is the encode link's code with frames and streams
exchanged. A component with many files is listed with its main files. Inside the encode link: pools for several
resolutions, several IVA cores with a process task each, a `process()` call that fails after the codec took its
configuration, what the ring holds after a codec refused it, the assertions on
field order (`encLink_h264.c:376-395`; frames that come in the wrong order are dropped, like skipped ones). In link control: a get that fails on the host and is tried again (`retryCount`).
Inside the modelled parts: reading functions of the queue, deletion of the semaphores, task priorities
(except `preempts` and those of the encode link), statistics, print-outs, and lists of maximal length.

## 6. Plan

Order: from the parts every link is made of to the links that are hardest to
get right.

1. Done: queue, mailbox and task, dup, merge, IPC between the M3 cores, link
   control across cores, the encode link with its ring buffer, streams to Linux and
   the application's thread; the theorems of section 4.
2. `MuxLink` and `SelectLink`: frames rerouted by tables that change; a frame
   returns to the queue it came from even if the table changed since. The main use case
   may be built with mux in the place of merge.
3. `IpcFrames`: the protocol of `IpcBits` for frames to Linux and the DSP, with the
   callback that processes frames on the way.
4. `OsaMbx`: the Linux mailbox with its one acknowledgement mailbox.
5. `MpSclr`: passes through the scaler, and a shut-down that unblocks two queues and
   posts a dummy frame (`mpSclrLink_tsk.c:183`).
6. `GopLock`: the cache of the stream demo.

Runs: each new module gets one passing run, for safety and liveness, with its
configurations chosen in `Init`.

Theorems: each new module's safety invariants. Done: those of all modules so far.

## 7. Running

`tlc -config <run>.cfg <module>` with the module `PROJECT.json` names for the
run; the longest, `dup` and `ipcm3`, take about three minutes each with two workers. `tlapm <module>` checks
the proofs of the modules whose names end in `_proofs`.
