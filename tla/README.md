# OpenCPI in TLA+

This directory is a verification development for OpenCPI: TLA+ modules that
model parts of the system, TLC configurations that check them on small
instances, and proofs that TLAPS checks for every instance. Paths below are
relative to the root of the repository.

## 1. The system

OpenCPI runs applications that are assemblies of *workers* (processing
components) connected by ports. A worker runs in a *container*: an RCC
container is a thread in a process, an HDL container an FPGA or a simulator, an
OCL container a GPU. The *control plane* configures workers and drives their
life cycle (initialize, start, stop, release). The *data plane* moves buffers
between the ports of workers that may be in different processes: a *transport*
builds circuits between ports and schedules buffer transfers, and *data
transfer drivers* (shared memory, sockets, datagrams, PCI, OFED) carry out the
transfers as writes into the memory of the peer.

| part | where | state | operations | what makes it hard |
|---|---|---|---|---|
| datagram reliability layer | `core/dataplane/rdma_drivers/datagram` | ring of frames, queue of acknowledgements, record of frames received, reassembly records | post, checkAcks, sendAcks, processFrame | three threads, lost, duplicated and reordered datagrams, retries that race acknowledgements, 16 bit numbers in a ring of 256 |
| memory block manager | `core/local/util/res` | free list, allocation list | alloc, free, defrag | fragmentation, alignment, exhausted pool |
| RCC container and worker control | `core/container/rcc`, `core/container/interfaces` | control state and `enabled` of each worker, container thread, mutexes | control operations, dispatch, run, port errors, destruction | control operations from the application race the dispatch thread; error paths; a thread that must be restarted |
| transport circuits | `core/dataplane/transport` | circuits, port sets, buffers, queued transfers, shadow buffer states | canTransfer, startBufferTransfer, queueing, buffer-empty updates | flow control by remote writes of flags, queues in order, zero copy |
| port connection protocol | `core/dataplane/transport/impl/src/OcpiTransport.cxx`, mailboxes in `rdma_driver_interface` | mailboxes, connection cookies | request, response, update circuit | two processes poll mailboxes, one slot per peer |
| shared memory and transfer interfaces | `core/dataplane/rdma_driver_interface` | endpoints, mailbox numbers, end point tables | find, allocate, lock, release | reference counts, one table for all threads |
| socket, PIO, UDP, OFED, PCI drivers | `core/dataplane/rdma_drivers/*` | connections, mapped memory | copy, post, getStatus | streams cut into pieces, late connections |
| HDL control over a network | `core/container/hdl/src/NetDriver.cxx` | 8 bit tag, failure mark | request with retries, discovery | a late answer to an earlier request, a retry of a write that was done |
| simulator driver and server | `core/container/hdl/src/SimDriver.cxx`, `SimServer.cxx` | last command, queue of requesters, pipes to the simulator, file transfer | commands, register accesses, responses, file transfer | repeated commands, several clients, three channels with no common order |
| HDL container, WCI control | `core/container/hdl` | control state of FPGA workers | control operations, property access | timeouts in hardware |
| OCL container | `core/container/ocl` | kernels and command queues | as RCC | external OpenCL runtime |
| application deployment | `core/application`, `core/library` | candidate implementations, deployments | choose, connect, start | search over feasible combinations |
| utilities | `core/local/util` | parsers, property values, file systems, lists | pure functions | parsing and formatting |
| OS abstraction | `adapt/os/ocpios` | mutexes, events, semaphores, sockets | thin wrappers over POSIX | none of its own |
| SCA, CORBA, tools, HDL primitives, components | `core/sca`, `core/corba`, `tools`, `hdl`, `components`, `ossie` | | | code generators, Verilog, external frameworks |

### Properties worth stating, by part

* Datagram layer: data is written at most once and before the flag; a transfer
  reports completion only after delivery; what was released had been received;
  the assertions hold; transfers complete; it implements a reliable transfer
  service.
* Memory block manager: memory that was handed out never overlaps; a request
  fails only when no free region is large enough; freeing everything restores
  the pool.
* RCC container: a worker's methods are called in the order of its life cycle;
  it runs only between start and stop; an unusable worker stays unusable;
  waiting for a worker ends; no deadlock between container and worker mutexes.
* Transport: a buffer is written only when the receiver has emptied it; buffers
  arrive in order and none is lost; producers do not wait forever.
* Connection protocol and network control: each answer is used for its own
  request, a retried request has one effect.

## 2. The plan

| order | modules | state |
|---|---|---|
| 1 | `Datagram`, abstract specification `ReliableTransfer`, proofs | done |
| 2 | `RccContainer`, proofs | done |
| 3 | `MemBlockMgr`, abstract specification `MemoryPool`, proofs | done |
| 4 | `Circuit`: output and input buffers of a circuit, their flags and shadows, queued transfers, zero copy; abstract specification `Channel`, proofs | done |
| 5 | `NetDevice` and `SimServer`, composed in `SimControl`: requests with tags, retries and late answers, the simulator server and the transfer of an executable, proofs | done |
| 6 | end point tables and reference counts, then the circuit requests over the mailboxes of two processes | not begun |
| 7 | `RccContainer` with ports that are clients of a `Circuit`; forwarding without a copy | not begun |

The promise of the driver is the assumption of the circuit: `Circuit` copies the
data of a transfer, writes its flag and reports it complete in this order, which
is what `ReliableTransfer` says and `Datagram` is shown to implement.

## 3. How the modules are organised

A component has a module with its state, actions and properties, an `MC`
module with the values of its constants, one `.cfg` file for each question, and
`_proofs` modules for its theorems. Definitions whose comment begins with
"Mutant of" are deliberate mistakes of the kind a change of the code could
introduce; each property is known to notice one of them.

What the environment may do is a constant: a timer that fires early, a port
that fails, assertions compiled out. Runs that pass say under which environment
the code is right; a run that is expected to fail relaxes one assumption and
exhibits one disagreement between the code and what the code says of itself.

Run TLC with `tlc -config X.cfg M` and the prover with `tlapm M.tla`.

## 4. The datagram reliability layer

### State and actions

`Datagram` has two processes (`Node`, `Peer`). Variables carry the names of the
members of `DatagramXferServices`: `m_frameSeq`, `m_freeFrames` (the ring, with
what a frame points at), `m_acks`, `m_frameSeqRecord`,
`m_msgTransactionRecord`, `m_frames_in_play`; `m_nMessagesRx` and `ack` belong
to a transaction; `copied` and `flag` are the memory of the peer; `net` is the
network; `released` and `received` are history variables that the actions never
read. Frame numbers are kept unwrapped, and `Wire` takes them modulo 2^16 where
the code puts them in a header, compares or stores them.

| action | code (`DtDataGramXfer.cxx`) |
|---|---|
| `StartPost`, `GetFrame`, `FillFrame`, `PostFrame` | `DatagramXferRequest::post`, split where the mutex of the services is released: the frame is claimed under it, filled and sent outside of it |
| `CheckAcks` | `checkAcks` of the monitor thread; the code resends all frames that timed out in one pass under the mutex, the model one in a step, which allows more interleavings |
| `SendAcks` | `sendAcks`, with `getFrame` |
| `ProcessFrame`, `ProcessMsg` | `processFrame` of the socket thread: duplicates, acknowledgements, then one message in a step, with the mutex held |
| `Lose`, `Duplicate` | the network (external); reordering is in the choice of a datagram |

`AckCount` is the coalescing loop of `getFrame` in closed form, including the
behaviour of its index. Three assertions of the code are recorded in `aborted`;
a process that failed one takes no further step. `m_frames_in_play` is never
initialised, so it begins with any value of `FramesInPlay`. Messages have no
content, and what the code does with the length of a message (four bytes are
not copied, padding) is left out. The header of a transfer's only message says
0 messages, and the receiver then writes the flag and copies nothing, also if
the message carries data; the properties say nothing of the data of such a
transfer. Identifiers of transactions count from one in each process and stay
below 512 (`History`): the code's counter is shared by all transfers of a
process, and an identifier with the bit 512 indexes one past the end of the
reassembly records. `SendAcks` is one step although `sendAcks` claims its frame
under the mutex and sends it afterwards, and `FillFrame` fills a whole frame, which nobody
else looks at before it is sent (with `StaleSendTime` the monitor does, and
finds it empty or full, not half full).

Environment: `Serial` (the next transfer is posted when the previous one is
complete), `EarlyTimeout` (a retry may happen while an acknowledgement can still
come), `StaleSendTime` (a reused frame has a `send_time` older than the
timeout), `LongLived` (a datagram may survive the reuse of its ring position, a
lap of 256 frames).

### Runs

| run | shows |
|---|---|
| `DatagramDuplex` | transfers of 3 and 2 messages in one direction and two of 1 in the other, with a loss, so that acknowledgements ride on data and cross it: a flag follows its data, what is released was received, what is complete was delivered, no assertion fails, every transfer completes, and the layer implements `ReliableTransfer` |
| `DatagramHostile` | transfers of 2 and 1 messages in a ring of two frames with early and stale timeouts, a duplicated datagram and datagrams that never arrive: messages are still copied at most once and counted once, and the ring is never overrun |
| `DatagramPipelined` | violated: transfers in flight share one reassembly record |

Other environments break the promise or lead to assertions of the code, and are
not kept as runs. With `EarlyTimeout` the retries of two frames queue their
numbers twice (1, 2, 1, 2), from which `getFrame` acknowledges a third one that
was never received: `ReleasedWasReceived` and `CompleteWasDelivered` fail for
one transfer of three messages in a ring of four frames, without any loss. With
`LongLived` a late frame of acknowledgements overwrites the record of a data
frame one lap later, which is then taken for a new one when it is sent again:
`AtMostOnce`, `FlagAfterData` and the refinement fail for a transfer
of two messages and one of one in opposite directions, in a ring of two frames
with one loss. With `StaleSendTime` the
monitor sends and frees a frame that `post` has not filled yet. A burst of more
messages than the ring has frames ends in the assertion of `nextFreeFrame`,
because `post` never waits for a free frame; so does `DatagramDuplex` with one
position less, since frames of acknowledgements take positions too and a frame
that was lost keeps its own until it is sent again. A value of at least
`History - 1` in `FramesInPlay` ends in the assertion on `m_frames_in_play`,
which the code increments before it compares; memory that was never initialised
may well have one.

Bounds: with `MaxLost` one any frame or acknowledgement may be lost, and its
repetition is delivered; `MaxSeq` and `MaxSends` are larger than what a loss can
cause, so that they never stop the liveness run. `DatagramDuplex` is at both
limits that its assertions guard: its ring of five is the smallest that is
enough for its transfers and its loss, and positions of it are used again;
`FramesInPlay` is `History - 2`, and a smaller value is further from the
assertion. `DatagramHostile` has no bound on losses, since a datagram need not
be delivered; its bounds are the number of times a frame is sent and the numbers
given out, and the second transfer uses the positions of the first again. In no
run do numbers wrap: a frame that was lost keeps its position until it is sent
again, so that the ring of a duplex instance must have room for nearly all
frames of it, and `SeqMod` is two laps. In the code 256 laps pass before a
number comes back to its ring position; if all frames of that position in
between were lost, it is taken for a duplicate, and the assertion on duplicates
fails. The runs do not check for deadlock because the applications post finitely
many transfers.

Fairness: each of the threads of a process is scheduled, and the two timers of
the monitor keep firing (`FrameMonitor::run` is an endless loop with sleeps). A
loss is never fair: the bound on losses says that the network delivers in the
end.

### Proofs

`DatagramInvariants` defines the invariants. `DatagramAck_proofs` shows that the
steps keep the types and what is known of acknowledgements;
`DatagramFrames_proofs` that they keep what is known of the numbers of frames
and messages, of the assertions and of the count; `DatagramSteps_proofs`, which
extends it, that they keep the invariant of the service and are steps of
`ReliableTransfer`.
These three use no library module, which keeps their many obligations small: the
few facts about sequences and finite sets that they need are the hypothesis
`Counting` of their lemmas. `Datagram_proofs` extends all of them, proves
`Counting` from the library (`CountingHolds`) and has the theorems.

* Types: `TypeCorrect`, `Spec => []TypeOK`. The invariant `TypeInv` adds
  `InPlayCounted` (a reassembly record in use has been counted, so that
  `m_frames_in_play` does not fall below zero) and `PostInRange` (`post` works
  on a transaction of its node and has messages of it left).
* The count: `CountCorrect`, `Spec => []CountedOnce`, in every environment. The
  count alone is not inductive: the invariant `CountInv` says that the messages
  of a busy frame lie before the point that `post` has reached and are not
  acknowledged yet (`BusyFrame`, `HeldFrame`), that two busy frames share no
  message (`BusyDisjoint`), and that nothing beyond that point is acknowledged
  (`AckedWasPosted`), so that each release counts something new.
  `CompleteCorrect`: `complete()` holds exactly when all messages were
  acknowledged.
* Acknowledgements: `AckCorrect`, when timers fire only for lost frames and the
  network does not duplicate: what was released was received, and no duplicate
  of an unacknowledged frame arrives. The invariant `AckInv` says that only
  numbers given out are in use (`NumbersUsed`), that a frame has one copy in the
  network, and none while its number waits in the peer's `m_acks` (`OneCopy`),
  that such a queue has no repetition (`AcksDistinct`), from which `AckCount`
  covers only numbers that were queued, so that every range announced was
  received (`AckRanges`); `RecordKnown`, `AckOnly` and `PostHolds` tie the
  records of received frames, the frames that only acknowledge and the frame
  that `post` holds to that. The assumption `ConservativeTiming` also bounds the
  frames sent by `SeqMod`: the proof does not reason about numbers that wrap.
* Duplicates: `CopiedAtMostOnce`, `Spec => []AtMostOnce`, with timers that fire
  at any moment, duplicates and numbers that wrap, as long as no datagram
  outlives the reuse of its ring position (`~ LongLived`). The invariant
  `OnceInv` says that every number in use is one of the last `NFrames` that were
  given out, so that the record of its ring position still has it once its frame
  was received, and that none of its messages was handled before that
  (`Carried`); that a message travels under one number (`OneNumber`); that a
  frame is in the position of its number and nothing was sent under it before it
  is filled (`RingFit`); and that what `post` has not reached, or the socket
  thread has in its hand, was not handled (`UnsentFresh`, `ReadFit`).
* The assertions of the code: `OnlyTheRingAborts`, for any application under
  `ConservativeTiming` and with room in `m_frames_in_play` (`RoomInPlay`): no
  assertion but that of `nextFreeFrame` fails. `NoAssertFails`, `Spec =>
  []NoAbort`, when in addition `RingSuffices` holds, see the next item.
* The ring: `RingNeverOverruns`, `Spec => []RingHolds`, in every environment.
  `post` never waits for a free frame, so this needs an assumption about the
  application, `RingSuffices`: a transfer is posted when the one before is
  complete, one of the two sides posts nothing, and a transfer has no more
  messages than the ring has room for. The ring then goes round any number of
  times. The invariant `RingInv` says that a side that posts nothing keeps no
  frame and is never acknowledged, so that its peer claims frames in `post` only
  (`SilentRing`), and that a busy frame is of the transfer posted last and that
  `post` has since filled all frames between it and the next (`BusyRing`), so
  that the next one would be on top of it only after more messages than the
  transfer has. With two directions there is no such bound, since frames of
  acknowledgements take positions too; TLC finds the smallest ring for an
  instance (`DatagramDuplex`).
* The service: what the driver promises the transport, under
  `ConservativeTiming`, `Serial` and `~ LongLived` (together `Usual`):
  `FlagIsLast`, `CompleteIsDelivered` and `ServiceImplemented`, the refinement
  of `ReliableTransfer`. Without `Serial` the promise is broken
  (`DatagramPipelined`), and so it is with early timers and long-lived datagrams
  (see above). To the invariants before it `ServiceInv` adds that a datagram has
  the messages of the frame with its number (`SameLoad`), that the messages of a
  busy frame whose number was received are handled or in the hand of the socket
  thread, and no header acknowledges the frame while one is in its hand
  (`BusyLoad`), that what is acknowledged was handled (`AckedDone`), and that
  the one reassembly record counts the messages handled of the transaction that
  was posted last (`Assembled`), so that the flag is written with the last of
  them.

Only model-checked: `AllComplete`. `CountedOnce`, `AtMostOnce` and `RingHolds`
are proved with numbers that wrap; for the others neither the proofs nor the
runs go beyond the wrap.

## 5. The RCC container

### State and actions

`RccContainer` has one application thread (`user`) and the thread of the
container (`thread`, `cur`). A worker has the `m_state` and `enabled` of the
code; `phase` and `misused` are history: what the code of the worker was told
last, and whether one of its methods was called out of order. `mutex` is the
mutex of each worker, `lock` that of the container, `crashed` what ended the
process: an exception that leaves the thread or a destructor, or an assertion.

| action | code |
|---|---|
| `Call`, `Control`, `End` | `Worker::controlOp` (`OcpiWorker.cxx`): checks, `controlOperation`, then `setControlState` and `Container::start`; split because the state between can be seen by `wait` |
| `Wait` | `Worker::wait`, which polls without a mutex |
| `StopContainer`, `StartContainer` | `Container::stop`, `Container::start` |
| `Destroy`, `Join`, `Lock`, `Delete`, `Unlock` | `~Container`, `shutdown`, `~Application`, `~Worker` |
| `Top`, `Dispatch`, `Loop`, `Release`, `Exit` | `runContainer`, `runInternal`, RCC `dispatch` and its handler of transport failures |
| `RunNot`, `RunWorker`, `RunCallback`, `RunTransport` | `Worker::run` and `Application::run` |

`Outcomes`, `UsePort`, `PortError` and `Advanced` compute the set of things a
method, a port or a result can lead to, and the action chooses one. The three
reads of `m_enabled` that a pass of the thread makes without a mutex are one
step (`Top`). A worker has two ports, which it uses in start, run and
callbacks. It is initialised when it is created, and the application gets it
only if that succeeded. A destructor that throws ends the process in `Delete`;
in the C++ of the code's time the exception could have gone further up.

### Runs

| run | shows |
|---|---|
| `RccControl` | two workers, every control operation against the thread, methods that succeed or fail: life cycle, `enabled` in agreement with the control state, unusable workers stay unusable, calls return, `wait` returns |
| `RccFaults` | ports, callbacks and the transport fail, the container is stopped and started: the state stays consistent and calls return |
| `RccRestart` | violated: a container that was stopped and started again has no thread |

`LifeCycle` is not a property of `RccFaults`: `portError` calls stop and release
of a worker whatever it was told before. The destructor releases a worker that
was released already, or was never initialised; `LifeCycle` says nothing of
workers that are destroyed. A start whose own method meets a port failure ends
with the worker released, OPERATING and enabled, which `EnabledIsOperating`
allows; `phase` is then "started".

More that TLC finds in the instance of `RccFaults`, or with other values of its
constants, and that is not kept as runs (lines of `OcpiRccWorker.cxx`):
`assert(enabled)` in `run` fails when a port fails in `getReadyPorts` (line
629); with `Callbacks` the second `assert(enabled)` of `run` fails when a
callback or a port it uses fails (line 650), and no property excludes either;
with the result `advance_done` and
`PortErrors` a worker that `advanceAll` released is marked FINISHED (line 688),
so that `ReleasedIsGone` fails and that result is not in `RccFaults`; with the
result `invalid` a worker can be OPERATING and not enabled (line 829), so that
`EnabledIsOperating` fails and neither run has it; after a transport
failure, release of an unusable worker throws inside the handler, and the
process ends before the others are released (`OcpiRccContainer.cxx` line 174);
workers that were released there are EXISTS, for which `wait` does not return
once the thread is gone.

Bounds: two workers are enough for one to be dispatched, released or destroyed
while another is controlled; `MaxCalls` five (four with faults) is enough to
initialise, start and stop one worker and wait for or destroy it. `MaxRuns` ends
workers that would go on forever. Calls are bounded, so a behaviour may end, and
the runs do not check for deadlock; that calls return is checked as a property.

Fairness: both threads are scheduled (weak). Strong fairness of `Lock` says that
the mutex of the container, which its thread releases in every pass, is granted
at last; strong fairness of `RunWorker` says that the run condition of an
enabled worker is met again and again. The second is an assumption about the
data of the application: a worker without data never finishes.

### Proofs

`RccContainer_proofs` proves for every number of workers, calls and runs:

| theorem | states | holds when |
|---|---|---|
| `TypeCorrect` | `TypeOK` | always |
| `DestroyedAloneCorrect` | `DestroyedAlone` | always |
| `EnabledCorrect` | `EnabledIsOperating` | methods return OK, ERROR or FATAL; ports, callbacks and the transport may fail |
| `LifeCycleCorrect` | `LifeCycle` | no port fails; methods may return anything |
| `ReleasedCorrect` | `ReleasedIsGone` | not both: ports fail, and run returns ADVANCE_DONE |
| `UnusableCorrect` | `UnusableStays` | not both: ports fail, and a method returns none of the three results |

The first part of the module is about records only: what a method with a result,
a port, a series of ports, a result of run and a whole control operation can
make of a worker (`PortUse`, `RunOutcome`, `ControlOutcome`). The invariant
`IInv` then needs little: who holds which mutex (`LockInv`, `MutexInv`), that a
worker under control is not destroyed and one about to be initialised is new
(`NewInv`), and that every worker is as it should be *once its mutex is free*
(`WorkerInv` about `Settled`). Between the two halves of a control operation a
worker is not: a start that succeeded has enabled a worker that is not OPERATING
yet, and a release has made it UNUSABLE before it is EXISTS.

`UnusableStays` is about pairs of states: an unusable worker is not enabled, so
the thread passes it by (`UnusableDisabled`), and every control operation is
refused (`UnusableRefuses`); the destructor releases it and leaves it unusable.

Only model-checked: `WaitReturns`, `CallsReturn`.

## 6. The memory block manager

`MemBlockMgr` has the two lists of `ResPool` as sets, `used`, and in `rc` the
request that the last call refused. `Alloc` and `AllocFail` are `alloc` (best
fit, then `defrag` and first fit by address), `Free` is `free`. `Defrag` is the
loop of `defrag` in closed form (the maximal intervals of free addresses);
`MCMemBlockMgr` has the loop itself, and `DefragIsLoop` compares the two in
every state in which the code calls it. Lists as sets lose the order of blocks
that a sort does not tell apart, of which any may be taken. Requests are at
least one byte long and addresses below 2^31. On an empty list `defrag`
increments an end iterator, which is undefined; in the library in use nothing
happens, and so in the model.

| run | shows |
|---|---|
| `MemPlain` | all sequences of allocations and frees of 1, 2, 3 and 5 bytes in a pool of 9, without alignment: all properties, and that the manager implements `MemoryPool` |
| `MemAligned` | violated: alignment rounds addresses down, so that the memory handed out lies in the block before |

The pool of nine bytes has room for several blocks and for gaps between them of
every kind: too small, exact, adjacent. No state of `MemPlain` is a deadlock.

`MemBlockMgr_proofs` shows for every pool and every set of requests without
alignment (`NoAlignment`): `TypesCorrect`, `CountCorrect`,
`HeldDisjointCorrect`, `PartitionCorrect`, `RefusedForCauseCorrect`,
`NothingLostCorrect`, and `PoolImplemented`, the refinement `Spec =>
ImplementsPool`. The inductive invariant `MemInv` needs three things besides the
partition: that no two free blocks are adjacent (then a refusal is final, and an
empty allocation list leaves one block), that each block is freed under its own
address, and that `used` counts the bytes. The lemmas on `Defrag`
(`IntervalStarts`, `IntervalEnds`, `DefragFacts`) find the ends of the maximal
interval around an address with the least number principle. A consequence of the
invariant is that the second pass of `alloc` never finds a block that the first
did not. `RefusedForCause` is not checked in a run of its own, since a
refusal is a step of `MemoryPool` only under that condition.

## 7. The transport circuit

### State and actions

`Circuit` is one connected circuit: an output port with `NOut` buffers and input
ports with `NIn` buffers each, some of them in the output's own process
(`Local`). The output side decides by flags alone: a shadow flag for each remote
input buffer, and the input's own flag where the input is local. A local input
buffer is attached to the output buffer instead of being copied to. Messages are
their numbers in the order of the sends; 0 is what a worker is still writing.
`sent`, `started` and `received` are history.

| action | code |
|---|---|
| `GetNextEmptyOutputBuffer` | `Port::getNextEmptyOutputBuffer`, the controller's search and `OutputBuffer::isEmpty`, which also drops the templates that are complete |
| `SendOutputBuffer` | `Port::sendOutputBuffer`: `canTransferBuffer`, then `startBufferTransfer` or the queue |
| `CheckQueuedTransfers` | `Circuit::checkQueuedTransfers` of the dispatch thread |
| `StartBufferTransfer` | `startBufferTransfer`, `TransferController1::produce`, the transfer template |
| `CopyData`, `WriteFullFlag`, `CompleteTransfer`, `WriteEmptyFlag` | the data transfer driver (external), as `ReliableTransfer` promises |
| `GetNextFullInputBuffer` | `Port::getNextFullInputBuffer`, the controller's search and `InputBuffer::isEmpty` |
| `ReleaseInputBuffer` | `inputAvailable`, `consume`, `Buffer::detachZeroCopy`, and the posted empty flag |

A worker may hold several buffers, and send or release them in any order. The
output's own flag is left out, because the poll of an output buffer sets it to
empty again. Sending and releasing are single steps. The code sets most of its
own flags before it posts anything another process can see; `setInUse(false)`
comes after the post (`OcpiPort.cxx` line 1525, `OcpiCircuit.cxx` line 1281),
which can only make the buffer look taken for longer. The check of a message's
length against the buffer (`OcpiPort.cxx` line 1623) is left out. `MAXBUFORD` is
modelled as the position before the first. The nonzero return of `produce`,
after which a buffer goes back to the head of the queue, needs gated transfers
and does not occur here.

### Run, bounds and fairness

The run `Circuit` has two output buffers, three buffers at each of a local and a
remote input, and six messages, one more than the channel holds (`NOut + NIn`),
so that every ring wraps, buffers wait in the queue, a send has to wait, and
consumers hold several buffers at a time. It checks the types, that messages are
received in order (`InOrder`), that nobody reads what is written (`WriterAlone`,
`NoOverrun`, `HeldIntact`), that a buffer waits for one template at a time
(`OneTemplate`: the scan of `isEmpty` is right only then), that all messages
arrive and all buffers come back (`AllDelivered`, `BufferReturns`), and that the
connection implements `Channel`, a bounded first-in first-out channel.

Fairness: the container threads dispatch, the driver carries out what is posted,
and the consuming workers take and release their inputs. Nothing is assumed of
the producer. The producer's messages are bounded, so a behaviour may end and
deadlock is not checked.

### Proofs

`Circuit_proofs` proves `TypeOK`, `InOrder`, `WriterAlone`, `NoOverrun`,
`OneTemplate`, `HeldIntact` and the refinement `ImplementsChannel` for every
number of buffers, inputs and messages. The inductive invariant `IInv` has to
say which message each input buffer last carried: `Last(t)` computes it from
`started` and the distance in the ring to `nextTid`. `Ring` says that an input
takes its buffers in the order the output fills them, `Flight`, `RemoteBuffers`
and `LocalBuffers` that a buffer in each of its states carries message `Last(t)`
and whether that message was handed out already, `Queued`, `Owned` and `Posted`
that buffers of the queue are in order, distinct and unread. A buffer that looks
free to the output was therefore received and released (`FreeWasReceived`),
which is why a transfer never overruns. That the capacity of the channel is
`NOut + NIn` rests on the queue being a list of distinct buffers of which the
worker still has one (`QueueHasRoom`).

Only model-checked: `AllDelivered`, `BufferReturns`.

## 8. Control of a simulator over the network

### State and actions

`ControlNet` has the packets and the channels: datagrams in order between a
client and the server, any of which may be lost, and the TCP connection of a
file transfer. `NetDevice` is the client: `request` of `NetDriver.cxx` and the
calls of `SimDriver.cxx` that are made of it. `SimServer` is the server's thread
and the simulator's process. `SimControl` composes them. A packet has fields
`client` and `id` that the code does not have; only history and properties look
at them.

| action | code |
|---|---|
| `Access`, `Open`, `Load` (`Begin`, `Attempt`) | `request`: a new tag, up to `RETRIES` attempts, giving up with an exception or a status |
| `Receive`, `Timeout` | the receive loop of `request`: packets with another tag are ignored, an error or a timeout leads to the next attempt |
| `SendFile`, `Run` | `Sim::Device::load` after the response to L: send the file, wait for the server to close, send R |
| `ReceiveExt` | `receiveExt`: `doServer` for commands (with the replay of a repeated one), `sendToSim` or `doEmulate` for register accesses |
| `DoResponse` | `doResponse`: a response of the simulator to the client at the *back* of `m_respQueue`, whose *front* is removed |
| `Accept`, `DoXfer` | the file transfer in `doit` and `doXfer`, with local files that cannot be created or written |
| `Simulate` | the simulator (external): requests in order, with an error for any of them; a request may be in its hand when the pipes are flushed (`InHand`) |

Left out: the credits that let the simulator's clock advance, a simulator that
ends by itself (which ends the server), responses that arrive in pieces,
discovery, the codes of responses other than OK, and two clients that load at
the same time; a file of size 0 and a size that cannot be parsed; errors of the
client's socket other than a connection that is refused or dropped. The client
can read its own file. A response that the server cannot send is lost; in the
code a send that fails ends the server.

### Runs

| run | shows |
|---|---|
| `SimControl` | one client that opens the device, loads and runs an executable, reads a register and writes two values, with a fault (a loss, an error, a refused socket, a bad file) anywhere: a response is used for its own request (`AnswersRequest`), a command is executed once (`CommandOnce`), a response of the simulator finds its requester (`RequesterKnown`), R is never left unanswered (`RunAnswered`), a read returns the last value written as far as the client can tell (`ReadsOwnWrites`), and every call ends (`CallsEnd`) |
| `SimRouting` | violated: with two clients the server sends a response to the wrong one |
| `SimTags` | violated: a command that has the tag of the last command is answered without being executed |

Four requests are enough for the longest sequence of commands that depend on
each other (F, L, R and an access) or for a read after a write after a load. As
many tags as requests is the smallest number for which the properties hold: tags
are 8 bits in the code and the client has one counter for commands and accesses,
so that a command made exactly 256 requests after the previous one is taken for
its repetition, although the comment in the server calls commands "essentially a
separate channel with its own tags" (`SimServer.cxx` line 670). `SimTags` shows
it with three tags, five requests and no fault: a flush, two reads, and a load
that is answered with the response to the flush. One fault is enough for each of the retry paths.
`CommandOnce` depends on datagrams staying in order and on one client: the
server remembers one client only. Deadlock is not checked because requests are
bounded.

Fairness: a client inside a call and the server's loop go on. No client has to
make a call, no timer has to fire before an answer arrives, and the simulator
may hang: every call ends all the same, because a request has a timeout and the
end of a file transfer depends on the server alone.

### Proofs

`SimControl_proofs` proves, for every value of the constants that meets the
condition:

| theorem | states | holds when |
|---|---|---|
| `RequesterAlwaysKnown` | `RequesterKnown` | always, with any number of clients |
| `CommandsOnce` | `CommandOnce` | one client, also when tags come back |
| `RunIsAnswered` | `RunAnswered` | one client, no more requests than tags |
| `AnswersOwnRequest` | `AnswersRequest` | one client, no more requests than tags |
| `ReadsAreOwnWrites` | `ReadsOwnWrites` | one client, no more requests than tags |

The server remembers the last command of one client only (`SimRouting` shows
what two clients lead to), and with more requests than tags an old response may
pass for a new one, hence the two conditions. The module first gives the steps
of a client and of the server other names, by what they do to the packets
(`DeviceCases`, `ServerCases`), and proves the types. Then come three
invariants, each of which needs the ones before it. `SendInv`: packets are in
the order of their requests, packets with equal numbers are equal, and a command
that was executed and may still arrive is the last one executed, whose tag the
server remembers. `AnswerInv`: packets and responses carry the tag of their
request (`Numbered`); a command that is older than the request, or whose call
has ended well, was executed, and so was one with a response on its way
(`Answered`), so that a command the server has not seen is the one its client
waits for (`FreshIsRequest`); the transfer's connection is open only while
`load` waits for its end, so that R finds a transfer that was accepted or given
up (`Transfer`). `ReadInv`: accesses reach the register in the order of their
requests and nothing older is on its way once a request was handled (`Piping`),
so that what a response says of the register stays true until its client
receives it, and what packets on their way can still do is known to the client
(`Holding`).

Only model-checked: `CallsEnd`.

## 9. What is not modelled, and why

`PROJECT.json` lists every part. First among those that could be modelled are
the end point tables and, on top of them, the connection protocol: a request for
a circuit is a message filled with offsets into memory of both processes, so
that a model without the tables that own that memory would have little to be
right or wrong about. Of the transport, circuits that are being created, opened
or closed, the end of a stream, the broadcast and pull patterns and forwarding
without a copy are left out. Drivers that copy into mapped memory or write to a
reliable stream, device discovery and parsers are input and output with no state
worth checking. The OCL container follows the RCC container over an external
runtime; SCA, CORBA and OSSIE code depends on frameworks outside of the
repository; tools, HDL primitives and components are generators, Verilog and
signal processing.

Checked by TLC only are liveness under fairness, which the prover does not
support, and `DefragIsLoop`, since what the recursive `DefragLoop` computes is
out of its reach. Beyond the conditions of the theorems (frame numbers that
wrap, tags that are used again) there is what the runs reach, and no
more.
