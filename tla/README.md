# IOFireWireFamily in TLA+

This directory is a verification development of IOFireWireFamily, the kernel
family that runs FireWire (IEEE 1394) on Mac OS X, and of the user client and
library that export it to programs. The C++ source is the reference: every
definition that models code names, in `PROJECT.json` under `map`, the lines it
was translated from. Bare file names below are in
`src/IOFireWireFamily.kmodproj/`, names that begin with `Lib` stand for
`src/IOFireWireLib.CFPlugInProj/IOFireWireLib...cpp`.

Contents: 1 the system, 2 the modules, 3 the runs, 4 the proofs, 5 what is not
modelled, 6 what the models showed of the code.

## 1. The system

A controller object (`IOFireWireController`) drives one bus through a hardware
driver, the FireWire interface module or FWIM (`IOFireWireLink` is its abstract
class; the drivers are in other repositories). Everything the controller does
happens with the gate of one work loop closed: timer callbacks, the FWIM's
interrupts, and calls of clients, which close the gate themselves. Within a
handler nothing else runs, but a handler may call back into the controller (the
completion of a command submits another, a transaction fails while it is being
sent). Threads come in where the code leaves the gate: ROM reading, termination
of devices, reallocation of isochronous resources, and the user client. The
library lives in the client's process; it calls the kernel through the user
client and hears of things by messages on ports of its run loops.

| component | state it keeps | operations | interacts with | what is hard | what makes it correct |
|---|---|---|---|---|---|
| Bus reset and scan machine (`IOFireWireController.cpp`) | `fBusState`, `fBusResetState`, `fBusResetScheduled`, `fBusResetDisabledCount`, two delay commands, ROM read count, prune delay | `resetBus`, `doBusReset`, `resetStateChange`, `delayedStateChange`, `processBusReset`, `processSelfIDs`, `startBusScan`, `finishedBusScan`, `updatePlane`, critical sections, power | FWIM, commands, devices, IRM allocations | two timers and four sources of resets in any order; failures of the hardware; sleep in the middle | no wanted reset is lost, no state waits without a timer or with another's, no device is pruned on half a scan, the bus settles |
| Asynchronous commands (`IOFWCommand.cpp`, `IOFWAsyncCommand.cpp`, `IOFWCmdQ.cpp`, read, write and lock commands) | status, queue, label, generation, retries and bytes of a command; three queues; transaction labels | `submit`, `execute`, `gotPacket`, `complete`, `cancel`, `checkProgress`, `executeQueue` | resets and scans, FWIM, clients | responses, timeouts, resets and cancels race; queues change while they are walked | every submission is answered, once and truly; labels are neither leaked nor shared; bytes go to their place |
| Scan, topology, root, IRM and gap count (`readDeviceROM`, `buildTopology`, `finishedBusScan`, `AssignCycleMaster`) | self-IDs, tree, what was read of each node, verdicts | read, retry slower, build the tree, choose, reset | commands, reset machine | choices that undo each other reset the bus for ever; dummy and failed reads | a scan ends once; the bus comes to rest and is managed well |
| Configuration ROM (`IOLocalConfigDirectory.cpp`, `IOFireWireROMCache.cpp`, `IOConfigDirectory.cpp`, `LibConfigDirectory`, `LibUnitDirectory`) | directory tree, compiled words, generation, cache of another node | add, compile, publish, scan, read by key | scan, FWIM | a ROM changes while it is read; generations wrap | a reader never mixes two ROMs and catches up |
| Devices and units (`IOFireWireDevice.cpp`, `IOFireWireUnit.cpp`) | node ID, generation, ROM generation, open counts, termination state | `setNodeROM`, `processROM`, `handleOpen`/`handleClose`, `terminateDevice` | scan, IOKit, clients | threads of several generations; open during termination | one nub, the units of its ROM, terminated exactly when gone and closed |
| IRM and IRM allocations (`IOFireWireIRM.cpp`) | per allocation its channel, bandwidth, generation and lock | allocate, deallocate, `handleBusReset`, reallocation thread | reset machine, commands | thread against gate; generations | resources are held while allocated and released once |
| Isochronous channels and ports (`IOFWIsochChannel.cpp`, `IOFWUserIsochPort.cpp`, `LibIsochChannel`, `LibIsochPort`) | bandwidth, channel, talker and listeners; stop tokens and deferred releases | allocate, release, start, stop, reallocate | commands, reset machine, run loop | compare and swap lost and retried; stop tokens under way at a release | never more released than claimed; ports end properly |
| DCL programs (`IOFWDCL*.cpp`, `IOFWUserIsochPort.cpp`, `LibNuDCL*`, `LibDCLCommandPool`, `LibCoalesceTree`) | commands in the client, their copies in the kernel, what was compiled; pool; ranges | export, import, notify, modify jump, allocate | FWIM, clients | edits while the program runs; pointers turned into offsets | a program runs as it was told; memory is shared without overlaps |
| Address spaces (`IOFWPseudoAddressSpace.cpp`, `IOFWPhysicalAddressSpace.cpp`) | list of spaces, allocated addresses, segments | `doRead`, `doWrite`, `doLock`, allocation, activation | FWIM, user client | overlaps; requests across segments; late answers | one space answers, with its own memory, once |
| User pseudo address spaces (`IOFWUserPseudoAddressSpace.cpp`, `IOFWRingBufferQ.cpp`, `LibPseudoAddressSpace`) | circular list of headers, ring buffer, the notification that waits; pending locks | packet arrives, notification sent, acknowledged, turned on and off | address spaces, library | a full queue; wrap; split locks | every packet accepted is told once, in order; locks are atomic |
| PHY packets, asynchronous streams (`IOFWUserPHYPacketListener.cpp`, `IOFWAsyncStreamReceiver.cpp`, ...) | lists of elements, receivers and listeners | receive, notify, acknowledge, deactivate | FWIM, user client | elements run out | what is not told is counted |
| User client (`IOFireWireUserClient.cpp`, `IOFWUserObjectExporter.cpp`) | table of exported objects, sessions, who has the nub open | open, seize, close, add, look up, remove, call | every component | concurrent calls of a program's threads, its death | a handle means one object; everything is freed once |
| User commands (`IOFWUserCommand.cpp`, `IOFWUserVectorCommand.cpp`, `LibCommand`, `LibVectorCommand`) | parameters, wired memory, what is executing, on both sides | set up, submit, complete, cancel, vectors | commands, user client | two sides of the same submission | both agree on what executes and what a message says |
| Notifications and bus information (`LibDevice`, `IOFireWireUserClient.cpp`) | dispatchers, references in the kernel, messages; node IDs, speeds | turn on, turn off, dispatch; ask about a generation | run loops, controller | messages for objects that are gone; fields read without the gate | handlers are called while they are set; answers are of one generation |
| Work loop, syncers (`IOFWWorkLoop.cpp`, `IOFWSyncer.cpp`) | gate, sleep token, the thread that removes a source; who waits, with what status | close, open, sleep, wake, remove a source; wait, signal | every component | threads at a gate that sleep has shut; a signal before the wait | one thread inside, nobody inside while the machine sleeps, no thread waits for nothing |
| Power manager, logging | deciwatts | allocate | - | - | - |

`PROJECT.json` lists each component with what is modelled of it, and under
`hazards` every place found where a test would hardly reach what can go wrong,
with the property that would notice.

## 2. The modules

| module | models | composed with |
|---|---|---|
| `BusReset` | the bus reset and bus scan machine with its timers, critical sections, sleep | `MCFamily`, `MCRecovery` |
| `AsyncCommand` | asynchronous commands, their queues and labels | an abstraction of `BusReset` (`busPhase`) |
| `Transfer` | what one command moves packet by packet, its retries, PHY and stream packets | `MCFamily` |
| `BusScan` | the tree of self-IDs; the scan and its choice of root, IRM and gap count | - |
| `ConfigROM` | the local ROM and its reading by another node | `MCRecovery` |
| `DirectoryAccess` | the library's directories and what they stand for in the kernel | `MCFamily` |
| `WorkLoop` | the gate of the work loop, and sleep | `MCRecovery` |
| `Device` | the nubs of a node and its units | - |
| `IRM`, `IRMAllocation`, `IsochChannel` | registers of the IRM; an allocation; a kernel channel | `MCPrograms`, `MCIsoch` |
| `BroadcastChannel` | the controller as the IRM, which allocates the broadcast channel | `MCRecovery` |
| `IsochPort` | a user's channel and ports | `MCIsoch` |
| `DCLProgram`, `LegacyDCLProgram`, `DCLCommandPool`, `BufferRanges` | DCL programs of both kinds, the pool of the old commands, the memory of buffers | `MCPrograms` |
| `Inbound`, `UserPHYPacketListener`, `AsyncStream` | requests, PHY packets, stream packets of other nodes | `MCInbound` |
| `PhysicalAddressSpace` | memory of a physical space and its segments | `MCFamily` |
| `PacketQueue`, `UserPseudoAddressSpace` | what the queue promises; the ring buffer and the queue of packets of a user space | the second implements the first; `MCUserSpace` |
| `UserLock` | reads, writes and locks of a client's backing store | `MCFamily` |
| `UserObjectExporter`, `UserClient` | the table of handles; opens, sessions, objects and threads of several clients | - |
| `UserCommand` | commands and vector commands of the library and the kernel | `MCUserSpace` |
| `SyncCalls` | calls of a client's threads that wait for a transaction | `MCFamily` |
| `LibNotification`, `BusInformation` | how a client hears of things; what it is told of the bus | `MCFamily` |
| `*Proofs` | theorems, section 4 | - |

Modules that share no state are run together: `MCFamily`, `MCRecovery`,
`MCInbound`, `MCUserSpace`, `MCIsoch` and `MCPrograms` have a variable `way` that
says which of the parts a behaviour explores while the others rest in their
initial states. A property of a part is then an invariant of the sum, and its
fairness is stated for the part's actions.

Many modules have a constant such as `Races` or `Risks`. It names what the code
does not rule out and what breaks a promise: interleavings nothing prevents, or
calls a client may make although the documentation warns of them or says nothing.
The runs leave most of them out, so that the properties say what does hold; section 6
lists what each one breaks. Where a promise can be stated exactly with the race in it,
the run has it: the property then names the exception (`forgotten`, `mishaps`,
`unclosable`, `unreleasable`, `raced`, `nestedFailed` are histories for that).

### Bus resets: `BusReset`

The variables are the controller's fields of the same names. A delayed command
is a record: `busy` (its status), `timeout` (the delay it holds) and `left` (the
ticks to its deadline). Each handler is an operator on a record `s` of all of
these, so that the calls a handler makes are applications in the order of the
code; an action computes the new record and assigns it (`Becomes`). The cases of
`delayedStateChange` are the actions `BusResetStartTimeout`, `BusResetTimeout`,
`SelfIDTimeout`, `ScanDelayOver`, `PruneDelayOver` and `StrayTimeout`.

Two details decide the behaviour and are easily lost. A delay command that is
still busy refuses its `reinit` (`IOFWBusCommand.cpp:63`) and is then submitted
with the delay it had: `Armed`. And only the states that
`delayedStateCommandInUse()` lists cancel the command before they leave it:
`CancelIfInUse`.

A scan is a count: `fNumROMReads` is the code's counter, `scanReads` the reads
really in flight, which a reset ends. Whether the finished scan asks for another
reset, and why, is a choice (`Verdicts`), which `BusScan` makes; which device is
missing is one bit. `phy` is what the FWIM is about to report. `Faults` says what
it may do wrong: refuse a reset (`fail`), accept one and not send it (`lose`),
answer after the timer (`late`), send no self-IDs (`noSelfIDs`).

### Commands: `AsyncCommand`, `Transfer`

`cmd[c]` holds a command's fields; `fTrans` is the controller's label table;
`fAfterResetHandledQ` holds the commands that the list of that queue really
reaches, which is not always what the commands' `fQueue` says. `busPhase` is
`fBusState` as `scanningBus()` sees it, with `owed` for a bus whose scan was left
because a reset is coming. `resumed` are the devices that the scan of this
generation has found; the others have no node ID, and `checkGeneration` refuses
their commands. A completion that resends the command executes it in the same
step, as the code does, so a reset that ends all pending transactions may end one,
requeue another and give their labels to a third. `UserCommandFree` is the only
action outside the gate: it reads the status and `cancel` follows later.
Deadlines are left out: a command in the timeout queue may time out at any
moment, and `tooOld` stands for the 30 seconds of
`kIOFWAsyncCommandMaxExecutionTime`.

`complete()` tells the FWIM of every completion, and the FWIM may deliver the answer
inside that call. `LateAnswers` and `GoesOn` are what comes of it: the answer ends the
command, or `gotPacket` sends the next packet from inside of `complete()`
(`IOFWReadCommand.cpp:68-73`). That `execute()` sets the status to busy, which is what
`complete()` looks at to prevent a second completion, so when it fails the command is
completed twice (`CompletedTwice`, noted in `nestedFailed`); when it goes through, the
outer `complete()` frees its label and goes on. `removeFromQ` keeps the links that a
dropped command still has (`fQueueNext`): a cancel of it moves the head of the queue.
When the head then leads past commands that wait, `strayHead` is set and the behaviour
ends there, because what it leads to is another queue or none.

`Transfer` follows one command of any class. `host` and `memory` are the quadlets
of the client and of the node; `Advanced` is a good answer, `RefusedFor` the fall
back to quadlets, `completeTimeout` the retries, `BusResets` a reset that may or
may not have come before the node served the packet. `GrowsTooOld` is the end of the 30
seconds: after it a reset ends even a command that is to outlast resets, with
`kIOFireWireBusReset` (`IOFWAsyncCommand.cpp:411-415`, 478).

### Scan: `BusScan`

The tree is rebuilt from the self-IDs in the order in which the PHYs of a tree send
them, and hops are counted in it. `ctl` is the controller's record, `Makes` are the
kinds of nodes (contender, IRM that works, ROM, speed, flags of the driver); the PHYs
are external. A reset is one step. Each read of a node may succeed, be retried at a
lower speed, or fail; `finishedBusScan` compares what was found and resets the bus
with a PHY configuration packet, or lets it be. `ended` counts how often the end of
this scan was come to.

### ROMs, devices: `ConfigROM`, `DirectoryAccess`, `Device`

`ConfigROM` has a publisher (unit directories that are built, compiled into
words and served) and the cache of a reader on another node. The bus information
block is one word and the type bits of an entry are a power of ten.
`DirectoryAccess` has the table of handles, the library's directories and what each
thread is fetching, handle by handle; `mishaps` is a history of calls that went wrong
half-way, after which something stays in the table for ever. `Device` has
the nubs there may be for one GUID, the ROM caches of each with the thread that
reads it, and the units; a ROM is a set of entries, of which the unit directories
count (`UnitsOf`). `NoUnit` and `NoDevice` are objects not in use; a nub is
attached, then inactive, then free again. New units take objects that are not in
use (`Placements`): `Units` bounds them, and a ROM that needs more is not committed.

### Isochronous resources: `IRM`, `IsochChannel`, `IRMAllocation`, `BroadcastChannel`

`reg` is what the two kinds of registers say is available, `others` what the
other nodes have taken out, and `held` a history variable: what this node has
taken out and not put back. `Swap` is a compare and swap that succeeds; it is
the caller's business to compare, because the callers differ in what they
compare with. A bus reset makes everything available and `held` empty.

In `IsochChannel` `fLock` is held for the whole of an allocation, a release or a
reallocation; the gate is not, so each transaction is a step of its own and resets
and other nodes come between. `allocateChannelBegin` is the steps `Delay`,
`ReadIRM`, `ClaimBandwidth`, `ClaimChannel`, `GiveBack` (two tries) and
`FinishBegin`. The thread of `handleBusReset` is numbered by its generation. Any
transaction in `FailingSteps` may end in an error without a reset, and then has had no
effect at the IRM. A reallocation whose read or lock fails so returns with the new
`fGeneration` and nothing held, the channel stays registered and nobody is told
(`IOFWIsochChannel.cpp:1040-1067`, 1161-1168); releasing it in the same generation gives
back what it does not hold, and what a release fails to give back stays taken.
`mishaps` remembers which of these happened in the current generation, and
`HoldsWhatItBelieves` says what holds after each.

In `IRMAllocation` the client's calls, `handleBusReset` and the threads share a
recursive lock, and `startBusScan` calls `handleBusReset` with the gate closed:
`scan = "closed"` is the work loop waiting for the lock. `Transact` is one try of
`allocateIRMChannelInGeneration`, `allocateIRMBandwidthInGeneration` and their
inverses; `Leave` is what the caller does with the result. A try may fail without a
reset as well, by a timeout or because another node keeps changing the register
(`Ends`): a failed claim is reported, but nobody looks at the result of a give-back
(`IOFireWireIRM.cpp:469`, 506-516, 663), so what it should have returned stays taken
while `isAllocated` is `FALSE`. `forgotten` is the sum of those in this generation, and
`HeldWhileAllocated` says that this node holds exactly what it has allocated and what it
has forgotten. After an error the code's `actualOldVal` was never set
(`IOFireWireController.cpp:6434-6445`): the second try compares with anything. A lock
whose answer is lost after it swapped is not modelled.

`BroadcastChannel` has the hardware's CHANNELS_AVAILABLE, what the controller was told
of the bus, and the one lock command of `IOFireWireIRM`, which is tried again while
other nodes swap first.

### The gate: `WorkLoop`

`gateLock` is the recursive lock, `fSleepToken` whether the gate is shut, `caller` how
far each thread is: at the gate, asleep at it, inside, or removing an event source.
The thread of power management shuts and opens the gate and must not wait at it. Each
behaviour has its `risks`: the machine sleeps again before the woken threads have
the lock, or a waiting thread is aborted.

### Ports and programs: `IsochPort`, `DCLProgram`, `LegacyDCLProgram`, `DCLCommandPool`, `BufferRanges`

`IsochPort` has the library's channel and ports (`mRefCount`,
`mExpectedStopTokens`, `mDeferredReleaseCount`), the kernel's objects, the messages
on the isochronous run loop and the calls of the client as a list of steps still to
be made (`call`). `DCLProgram` keeps three copies of each command: the client's,
the kernel's and what the interface module compiled; a notification imports
field by field. `LegacyDCLProgram` lays the old commands out at offsets, in the
library and again in the kernel. `DCLCommandPool` is the allocator's two lists;
`BufferRanges` the tree of page ranges, checked against the set of bytes of the
buffers.

### What the bus sends: `Inbound`, `PhysicalAddressSpace`, `UserPseudoAddressSpace`, `UserPHYPacketListener`, `AsyncStream`, `UserLock`

`Inbound` has the objects for address spaces, the list of active ones, the table
of upper halves of addresses, and requests by node and label. `astray` and
`outside` are history variables. Sums of addresses are of 32 bits (`Wrap`).

`UserPseudoAddressSpace`: `hdr` and `next` are the packet headers and their
circular list, `fPacketQueue` the ring buffer, of which only the front and the
length matter. `told` is `fWaitingForUserCompletion` together with the header of the
notification; `untold` is a history variable, the headers queued and not told yet.
`clientCommandIsComplete` does not know what the client was told of. It frees the
header that follows the last one it freed, dequeues that header's bytes, and tells
the one after it. `sendPacketNotification`, called when a packet arrives, tells
that packet if nothing is outstanding. The scheme is right only if the two agree on
what comes next. The ring buffer keeps no record of the padding it inserts:
`Dequeued` works it out again from the size of the first entry. The refinement
takes `untold` to the abstract queue's `waiting`, header by header to its type and
size, `told` to `told`, and an active address space to `open`. A packet that does
not fit becomes a packet of skipped packets; one that only raises the count of such
a header is a stutter.

`UserLock` has the backing store, the packets and `mPendingLocks`, and a history of
what the store held after each request, in the order in which they took effect
(`contents`).

### User client and library: `UserClient`, `UserCommand`, `SyncCalls`, `LibNotification`, `BusInformation`

`UserClient`: `client` are the connections, each with the `step` its open or close has
come to, `opener` the client that has the nub open, `sessions` the one table of sessions,
which clients of other nubs use too (`OtherOpens`, `OtherCloses`), `fExporter` each
client's table of handles, `call` what each thread is doing with which object, `obj` the
kernel objects with their retain counts. The lock of a table makes its operations one
step. Nothing else is locked: `userOpen` opens the nub, adds the session and sets its
fields in three steps (`userOpen`, `AddsSession`, `KnowsItIsOpen`), and `userClose`
undoes them in four; other clients, a seize and the end of the process come between.
The opens and closes of one connection follow each other. `unclosable` are the clients
that have the nub open and do not know it, `unreleasable` the physical spaces that found
the table of handles full and stay active, `raced` the objects that were released while
they were called by their handle. A behaviour has an application that opens and seizes,
or one that makes objects and calls them from its threads.

`UserCommand` has both sides of a submission: what the library thinks is executing
and wired, what the kernel has, and the completion messages between them.
`SyncCalls` has what `Device::Read`, `Write`, `CompareSwap` and their relatives do:
`thread[t]` is the call of a thread, `command[t]` its command with the syncer's
`threadMustStop`. `CreateCommand` is outside the gate and reads the nub once; the
submission is inside it (`GateIsOpen`); a reset is several steps, because the new
generation, the nub's loss of its node ID and what happens to outstanding commands
follow one another with the gate closed, and the client's threads read the nub without
it. `doneIn`, `swaps`, `astray`, `quad` and `bus.told` are history: in which
generations the device performed the call, how often it swapped, whether another node
performed it, who has the quadlet, and what each generation's node ID was.

`LibNotification` follows one object of any kind that notifies, its dispatcher,
its references in the kernel and the messages in the port. `BusInformation` models
each field by the generation its contents are of, and a call as reads of fields
between which the work loop may make any of its stores; only `getIRMNodeID` takes the
gate. `query.early` is history: a part was read before the work loop had stored it for
the generation that is current.

## 3. The runs

| run | parts | question | result |
|---|---|---|---|
| `Family` | `BusReset` with every fault, `Transfer`, `PhysicalAddressSpace`, `LibNotification`, `UserLock`, `BusInformation`, `SyncCalls`, `DirectoryAccess` | promises about every moment | hold |
| `Recovery` | `BusReset` with slow hardware, `ConfigROM`, `WorkLoop`, `BroadcastChannel` | does the bus settle, are missing devices pruned, do readers catch up and read what was published, is the gate kept and the broadcast channel taken? | holds |
| `AsyncCommand` | two commands, one label | do labels, queues and statuses agree; is each submission answered truly, and twice only in the one way; what is lost from the queue? | holds |
| `BusScan` | sixteen pairs of makes | does a scan end once; does the bus come to rest, well managed? | holds |
| `Device` | two nubs, four units | one nub, its units, opens that agree, nothing left behind | holds |
| `UserClient` | two clients and those of other nubs, two threads, three objects | are references accounted for, is the nub open only to who knows it, and does a closed client go? | holds, with the exceptions the properties name |
| `UserSpace` | `UserCommand`, `UserPseudoAddressSpace` | do both sides agree; is each packet told once and in order? | holds |
| `Inbound` | `Inbound`, `UserPHYPacketListener`, `AsyncStream` | is what comes from the bus answered by the right space, or told or counted? | holds |
| `Isoch` | `IsochChannel` with failing transactions and late threads, `IsochPort` | does a channel hold what it believes; do ports end properly? | holds |
| `Programs` | `IRMAllocation` with failing transactions, the modules of DCL programs | own resources only, and as recorded; programs as told; memory sound | holds |
| `IsochChannelScarce` | `IsochChannel` without a free channel | does it give back only its own? | violated (finding 1) |
| `IRMAllocationFree` | `IRMAllocation` | does a deallocation after a reset free what is held? | violated (finding 2) |

Each run has `CHECK_DEADLOCK FALSE` because the system may stop: a controller
whose reset the FWIM refused waits for another node's reset; a part whose
disturbances are used up and whose work is done has nothing left to do.

**Bounds.** `MaxTrouble` counts the disturbances of a behaviour: resets asked for
or seen, failures, sleeps. Four of them in `Family` let a reset come during
each stage of the handling of another, with a critical section open and a fault
of the hardware; two in `Recovery` and `AsyncCommand` let a reset overtake the scan
of another. The delays in `MCFamily.cfg` and `MCRecovery.cfg` are scaled to at most 8 ticks but keep the
order of `IOFireWireController.cpp:132-171` and that a reset, its self-IDs and the
scan delay take less than `kRepeatResetDelay`, so that the two timers meet in each
state in which they meet in the code. One label for two commands exhausts the labels
when one leaks; one retry and two packets let a command fail between its packets
with and without a retry left. Both commands may be made to outlast resets, so both may
wait for the end of a scan and the first of them may be unlinked; a dropped command that
is cancelled needs a third that waits before others are lost with it, which is beyond the
run's size and is covered by the theorems of `AsyncCommandProofs` alone. `Transfer` has three quadlets, packets of two and
three, and three losses: a first packet, a last that is shorter, and a refusal, a
lost answer and a reset among them. `Layouts` are segments in and out of order, that
touch, that leave gaps, and one out of the FWIM's reach (`AddressMask`,
`MapperShift`). `MaxTurns` is enough calls to turn notification on, off and on with
news between. `MaxRequests` 3 is a lock and two requests around it.
`MaxBusGeneration` 3 is a reset before, in and after a call. `BusScan` has two
peers: with the local node all shapes of a tree of three nodes, and each of the
decisions has a node that asks for it. `Device`: two nubs, so that a second could be
made; four units, so that both units of a ROM can come back while the old ones are
still open; two resets. `UserClient` has tables of one entry, so that the one of sessions is
full when another nub is open and the one of handles when a second object is made, and
three objects, so that a handle is taken again. `UserPseudoAddressSpace` has four
headers and a buffer of five bytes: the list grows three times, each time with the
client at another place of the circle, and with packets of one and two bytes the
queue wraps with and without padding, is full, and is too small at the end and not
at the start. `SyncCalls` has one thread, because threads share only the nub,
which no call changes, and the quadlet, which the rival competes for as another thread
would; two generations, so that a call is made in one and submitted, answered or refused
in the next; one retry, so that a lost answer is met with and without. `DirectoryAccess`
has a thread that makes all calls and one that fetches data meanwhile, with a table of
three handles, which is full. `WorkLoop` has two threads besides that of power
management and two sources, `BroadcastChannel` three resets and two tries. `Inbound` has two spaces in each arrangement (inside, overlapping,
apart), two requests and a reset, and 8 addresses: a broadcast write at the last of them
ends beyond the largest address, its sum wraps, and a space that lacks its last bytes
takes it (`IOFWPseudoAddressSpace.cpp:505`, 530), which is the exception in
`AnsweredByItsSpace`. The PHY listener's
queue of four with five packets overflows; the stream listener has three headers, a
buffer of four bytes and packets of one and two, so that it wraps with and without bytes
left unused at the end. `IsochChannel` and `IRMAllocation` have three units of
bandwidth, of which this node and the others want two each: either blocks the
other. Generations up to three or four are a reset during an allocation, one
before its thread has run, one while that thread runs. `MaxMoves` is two or
three claims and releases of other nodes. `DelayRetries` is 2 in place of 15.
`FailingSteps` lets every transaction fail without a reset but the claim of the channel
in an allocation, which leads to finding 1 as the lack of a free channel does; a
transaction that fails while resources are given back leaks them, as the code says
("error or not, we've released our bandwidth"). `IsochPort` has a local talker, a local listener before a
remote one, two starts, a callback and a reset of the channel. DCL programs have
two commands and three edits; old programs four commands; the pool a storage of 9
cells for commands of 2 and 3, so that it is fragmented, merged and full;
`BufferRanges` three buffers on five pages of two bytes. `ConfigROM` scales the
generation to 3, so that it wraps within the updates of a run.

**Fairness.** `BusReset`: time passes, due timers are served (the work loop's
timer events), interrupts are handled, ROM reads end (each command has a
timeout), the machine wakes. Nothing is assumed of clients: a critical section
may stay open for ever and the bus still settles, because `BusResetStartTimeout`
overrides it. `AsyncCommand`: deadlines pass, the work loop runs the pending
queue, and the controller sees a reset through to the end of a scan, which
`BusRecovers` checks. Responses are never assumed. `BusScan`: the reads of a scan end
and a reset that was asked for is done; its `FairSpec` writes weak fairness of all
the scan's work as `[]<>~WorkLeft \/ []<><<Works>>_vars`, with `WorkLeft` the
condition under which `Works` can act, because the enabling of a large
disjunction is costly to evaluate. `ConfigROM`: an update goes on, a reset asked for
comes, the scan follows, readers go on. `Device`: the work loop, the readers and
the termination threads go on. `UserClient`: a call, an open or a close that has begun returns, IOKit
stops what was terminated and frees what nobody retains. `UserCommand`: the kernel
completes what it executes and the run loop delivers. `SyncCalls` assumes nothing:
`WaitsForSomething` says of each moment what a blocked thread is waiting for. `UserPseudoAddressSpace`, the
listeners: the client acknowledges each notification, as `IOFireWireLib.h`
requires of a handler. `Inbound`: requests are processed and clients answer what they
deferred. `IsochChannel`, `IRMAllocation`: threads that were started run, each
transaction ends, a reset is followed by the start of a scan unless another overtakes
it, and a call of the client that has begun goes on. `IsochPort`: calls go on and
the client runs the isochronous run loop until the port is finalized, as
`IOFireWireLibIsoch.h` asks. Nothing makes a client call.

## 4. The proofs

TLC checks small instances; the theorems hold for every value of the constants
that satisfies the modules' assumptions (`...Assumption`, which TLC evaluates in the
runs). Each rests on an inductive invariant; TLC checked its first form on an instance
before it was proved. The layout is the same throughout: an invariant of named parts, a
lemma for each operator that handlers share, a lemma for each action, one that
combines them, and a temporal step.

`BusResetProofs`, for all delays, numbers of nodes, bounds and faults, proves
everything that run `Family` checks of `BusReset`: `TypeCorrect` (with
`scanReads <= fNumROMReads`, so the unsigned `fNumROMReads` never wraps),
`ScheduledResets`, `TimedWaits` and with them `NoWaitIsForEver` (`ResetsAreTimed`),
`PruneWaits` (`PruneAfterScan`), `WaitsAreTheirOwn` (`DelayFits`, also a part of
`ResetsAreTimed`) and `SectionsRespected` (`ResetsRespectCriticalSections`, an action
property). None of the invariants is inductive. The inductive one is
`Inv == Core(Now) /\ Rest(Now) /\ trouble \in 0..MaxTrouble`. `Core` holds at every
call of `resetBus` within a handler: types, that the reset-disabled timer runs in
its state, that a state timer left running by a state that does not use it can only
be that of `kWaitingBusResetStart` (or of a sleep that will abort it), and the timer
of a scheduled reset. `Rest` is what holds besides when a handler returns: a scan is
never under way in `kResetStateResetting`, every waiting state has its timer, no read
is in flight in the states before and after a scan. The middle condition is the one
that is easy to miss: without it the step from a scan to `kWaitingPrune` cannot be
shown to be timed. `DelayFits` needs a second layer, `Delays`: the delay that a
running timer holds is that of the state, or the longer one that
`kWaitingBusResetStart` leaves.

The same module proves `GateIsKeptAlways` (`GateIsKept`, a part of `RecoveryIsSound`),
for any number of threads and event sources and all the risks of `WorkLoop`. Its
`LoopInv` adds to the property who may hold the lock at each place of a thread
and that `fRemoveSourceThread` is the one that removes
(`LockIsTrue`), what each thread's record says (`ThreadsAreTrue`), that the token is
set and taken away while the thread of power management is at no source
(`PowerThreadIsApart`), what becomes of a source while it is
removed (`SourcesAreKnown`), and that who waits for the token waits for one that
is there (`TokenIsTrue`).

`AsyncCommandProofs`, for any commands, devices, labels, retries, packets and
resets: `LabelsAgree` (`LabelsAndQueues`), `AnswersAreTrue` (`AnsweredTruly`),
`OnlyUnsettledDropped` (the action property `DroppedOnlyUnsettled`). A bus reset runs
one handler after another over all pending commands, and each may execute, answer or
requeue its command, so the invariant has two forms: `Settled` for a command between
handlers, `Ready` for one that a handler has taken off its queue; `Good` says that
all commands but the one at work are settled and that the label table is the
inverse of their labels. `AnswersAreTrue` counts the second completion after a nested
`execute()` that failed, and `OnlyUnsettledDropped` names the two ways in which a command
that waits is lost from the queue; the second, the cancel of one that was dropped before,
takes three commands and is met by the theorem only.

`IRMAllocationProofs`, for any bandwidth, channels, requests, numbers of resets and
moves of other nodes, and for all of the `Races`: `TypeCorrect` and
`AllocationIsHonest` (`OwnResourcesOnly`: no register leaves its range, and nothing
of another node's is given back). That follows from no single place: the client frees
in the generation it recorded, possibly long ago, and threads claim the same
resources in their own. The inductive `Inv` therefore says: bandwidth and channels
are conserved between register, node and other nodes (`Conserved`); one process at a
time is between its first and its last transaction (`OneAtATime`, from `fLock`); what
a process claims in the current generation is held when it may undo or record it
(`ClaimIsHeld`); what is allocated in the current generation is held until it is
freed (`AllocationIsHeld`), even if a late thread claims and gives up at the same
time, since a channel that is held cannot be claimed again; and the client frees
exactly what it recorded (`ClientKnows`).

`AllocationIsHeldInEveryGeneration` (`HeldWhileAllocated`) and `LossIsReal` (the action
property behind `LossesAreTold`) hold although any transaction may fail, for as much as
`forgotten` says, and with two of the races, `staleThread` and `lockOrder`, but not with
the others: those are finding 2 and what section 6 says of
them. `HeldInv` says more than `Inv`: what is held at each transaction of a call
(`BusyHolds`) and between calls (`IdleHolds`), that a thread begins after the scan of
its own generation and with an older allocation (`ThreadKnows`), that a reset which
comes after the client's last claim finds it registered (`ClientIsHeard`), and that a
process which works in the current generation has seen no reset
(`ResultIsOfNoReset`). `BroadcastChannelIsSound` (`BroadcastIsSound`, a part of
`RecoveryIsSound`) is for any channels, nodes, tries and resets.

`UserSpaceProofs`, for any buffer size, number of headers and order of packets and
acknowledgements: `PacketsKept` (`QueuedPacketsAreKept`) and `PacketsInOrder`, that
each step is a step of `PacketQueue` or a stutter (its initial states follow; the
liveness of `PacketQueue` is left to run `UserSpace`). The invariant `PseudoInv` has
the types, that the three calls which switch notification follow each other
(`SwitchesAreTrue`), that the headers kept and not yet told are those behind the
last one freed, in order (`KeptIsSound`, `LinksAreSound`), and how the entries lie in
the buffer (`Laid`): each inside, after the end of the one before or at the start if
it did not fit (`InTurn`, `Contiguous`), and the length is the sum of entries and
padding (`LengthIsTrue`) - that is what makes the padding that `Dequeued` computes
the padding that was inserted. The hypotheses are the documented use and the one
real limit: `PacketsAreSmall`, at most half the buffer, because a larger packet that
comes when the queue is empty is recorded in the wrong header; `NotifiedOnce`
(`~EarlyPackets /\ MaxSwitches <= 8`), because notification that is turned on again
while packets are left tells later packets first and loses headers (TLC finds it at
`MaxSwitches` 9); and for the refinement `StaysOn` (`MaxSwitches <= 3`), because the
abstract queue is closed by turning notification off. TLC checked `PseudoInv` on
978 378 states.

The same module proves `ChannelHoldsWhatItBelieves` (`HoldsWhatItBelieves`) of
`IsochChannel`, for any bandwidth, channels, resets and moves of other nodes. The
hypothesis `Undisturbed` lets the reads and claims of an allocation and all
transactions of a reallocation fail, in any combination; it leaves out the `Races` of
section 6, the failure of a transaction that gives something back or claims an
allocation's channel, and it asks for one channel that the ports allow and no other node
wants, without which finding 1 happens. Run `Isoch` has failing give-backs and late
threads besides, for which the property promises nothing until the next reset.
`ChannelInv` follows what is held through the three sequences that may be in progress: a
claim (`BeginHolds`), a release (`ReleaseHolds`) and a reallocation by a thread
(`ReallocHolds`), of which the lock allows one at a time (`OneHasTheLock`). Each
compares the generation it began in, so each part has two cases: in that generation
what the step before claimed is held, after a reset nothing is. What is held is what is
believed, or less bandwidth once a reallocation has failed in this generation (`HoldsIt`).
`ChannelIsThere` is why the free channel is found in a register that was read a few steps
ago, and `ResetIsAnswered` why a registered channel of an earlier generation has a thread
that will claim for it again.

`UserClientProofs`, for any clients, finitely many threads, objects and capacities of
the tables: `OwnersKnown` (`OwnersAreKnown`). The hypothesis, that `callDuringRelease` is
not among `ClientRaces`, leaves out that an object is released while it is called by
its handle or copied out; run `UserClient` has that race too and exempts the object
(`raced`). `ClientInv` has three parts. `NubInv` says where each client is in its opens
and closes (`Phase`): `Without` the nub, no session names it; who has it (`Has`) is, at
each step, listed and knows so or is about to be; who is `Stuck` with it was stopped
before it opened, or found the table of sessions full. `TableInv`: each object's retain
count is the number of handles, of threads that keep it and of sets of the controller
(`Counted`), an object has one handle at most (`OneHandle`), is active only while
somebody will take it out of the set, unless it is a physical space that found the table
full (`ActiveIsHeld`), is added by one thread (`AddedByOne`), and stays under its handle
while a thread works with it (`HandleStays`, `CopiedByOne`, `WorksWith`).
`FreedAreEmpty`: a client that is gone has nothing. `Counted` speaks of cardinalities, so
the lemmas are about what adding or removing one thread or one slot does to a count.

The same module proves of the scan `ScanEnds` (`ScanEndsOnce`) and `BusSettlesWell`
(`SettlesWell`), for buses of any size and nodes of all makes. The hypothesis
`Ignored = {}` leaves out `fDebugIgnoreNode`, with which a scan may end twice (section
6). `ScanInv` says that every record has what its state calls for (`Fits`); that
`fNumROMReads` is the number of nodes being read as long as there are any, and that a
scan with none has ended (`Counts`, `ScanOver`); that the resource manager is among the
nodes read, and a bad one is known to be bad when its reading is over
(`ManagerIsRead`); that what the decisions are made from is what the scan has found
(`FoundOut`); and what was decided when the bus settled (`Decided`). A failed read ends
its node, and with it perhaps the scan, which frees all nodes and may reset the bus in
the middle of the handler, so the lemmas are about records `s` of the whole state and
not about steps. TLC checked `ScanInv` on 84 050 states.

`LibraryProofs`, about the library and what it asks of the kernel:
`NotificationsSound` (`NotificationsAreSound`) for any kind of object
and number of calls and messages, with `NotificationRisks = {}`; `AnswersOfOneGeneration`
(`AnswersAreOfTheirGeneration`) for any number of resets, with reads between any two
stores of the work loop and no hypothesis. Each risk breaks its property, so the
hypothesis says what the promise depends on. The
first needs to know how far a call has got that turns notification on or off, one
reference at a time (`TurnsGoOn`); the second, for each call and each field it has
read, of which generation that was (`QueryInv`). `LocksTakeEffectInOrder`
(`UserLocksAreSound`), for any store, number of requests and of resets, with
`LockRisks = {}`: the answers are those of a memory that serves one request after
another in the order of their arrival. The argument is that the requests not yet
answered are the last ones of the log, each with the packet of its own number
(`PacketsAreLast`), so the store is what the oldest of them finds; that the client has
this oldest packet and no other (`ClientHasTheOldest`); and that the library's pending
lock is that of the packet which the client has (`LocksArePending`).

`TransactionProofs`, about transactions that this node begins and those of others.
`TransfersWhole` (`TransfersAreTrue`) holds for all seven classes of commands, any
sizes, packet sizes, retries, losses and resets, with `TransferRisks = {}` (section 6
says what each risk breaks). The counters alone are not inductive: what makes a retry
harmless is that the packet with the FWIM is always the one that the command's fields
describe, or lost (`OnTheWire`), that the fields say where the command goes on
(`Ready`: address, size and bytes moved add up to what was asked), and that a write
that was served and not yet acknowledged has left the very data that its retry will
write (`MemorySound`). `SpacesApart` (`AddressesApart`) and `AnsweredOnce`
(`AnsweredByItsSpace`) hold for any nodes, labels, address spaces and requests under
`Ordinary`: `InboundRaces = {}`, no space reaches beyond 32 bits, and
broadcasts only write (IEEE 1394 has no broadcast reads). Requests are any: `doRead` and
`doWrite` compare sums of 32 bits, a request that ends at 2^32 or later passes for one
that ends at 0, and these are the only ones that a space takes without having all of
their bytes. `InboundInv` says that the entries of the upper
halves and the live pseudo spaces are each other's inverse (`EntriesSound`), that
active spaces are live, listed once and pairwise apart where one is exclusive
(`ActiveSound`), and that a deferred request of this generation is still the one that
its node has under its label (`AnswersSound`).

`DeviceProofs`, about any number of nubs, unit objects, ROMs, reads and resets.
`OneNubOneUnitEach` holds whatever the races: never two nubs of the node that are not
on their way out, and the live units of a nub are those of the directory it read last,
one each. `RegistryIsSound` (`Registry`) asks only that `staleReader` is not among
`Races`, `OpensAgree` (`OpenAgrees`) only that `staleIsOpen` is not: the other races of
section 6 cannot break them. `DeviceInv` needs, besides the properties: one reader of a
nub is at work at a time, and every cache but the latest, and one whose reader gives
up, is invalid, so that only the latest can be committed (`ReadersAreSound`); a nub
that is busy and whose reader is done has a reset or its scan still to come (`WaitsForReset`); what the
controller saw with `isOpen()` still holds while it prunes (`PruningIsSound`); a unit
object in use is attached to a nub in use, and is open exactly when its nub counts it
(`UnitIsSound`, `UnitsAreSound`). TLC checked `DeviceInv` on 66 480 states without
races, and on 163 652 with all four.
**Only model-checked.** Liveness (`Answers`, `BusRecovers`, `Settles`, `ClientsGo`,
`NothingLingers`, `EveryCallback`, `AllAnswered`, `SettlesInTheEnd` and the liveness of
`PacketQueue` and of `LossesAreTold`): the prover has no rule for `WF` and `ENABLED`.
What folds over a sequence or computes by recursion: `TopologyFromSelfIDs` (the tree of
self-IDs), `ROMsAreSound` (parsing), `MemoryIsSound` (`BufferRanges`: offsets, trees),
`PhysicalSpacesAreReached` (segments laid end to end). The rest is
left for later: the listeners (`ListenersGetEveryPacket`), ports (`PortsEndProperly`),
user commands (`CommandsAgree`), DCL programs (`ProgramsRunAsTold`), and the calls of
clients that wait or read directories (`CallersAreServed`).

## 5. What is not modelled

- Synchronous submissions inside the kernel, which are taken as waiting; `SyncCalls`
  has those of the library.
- Power manager (`IOFireWirePowerManager.cpp`): a counter.
- Logging, tracing, headers.
- The FWIM: its resets, interrupts and answers are the environment.
- `requestTerminate` and the controller's shutdown; channels without IRM management; the translator of old programs, multi-receive and buffer-fill ports;
  `Update` notifications of DCL programs; text encodings and directories of more
  than 256 entries; nub factories.
- The rest of the library's device interface (`LibDevice`), which makes the other
  objects. Read without a model: several constructors add references before they throw;
  `Seize` leaves `mIsOpen`; `Create*` does not look for `NULL`.

## 6. What the models showed

Two runs end in a violation (in full in `PROJECT.json`):

1. `IsochChannelScarce`: an isochronous channel that gets no channel number gives its
   bandwidth back twice (`IOFWIsochChannel.cpp:861`).
2. `IRMAllocationFree`: an IRM allocation that was reallocated after a reset is not
   freed by `deallocateIsochResources` (`IOFireWireIRM.cpp:653`).

The other disagreements are kept in the modules as properties that no run checks, or
as races and risks that runs leave out. Each was found with TLC by switching it on.

**Bus resets.** `BusResetWaitsItsDelay`: a reset sent from `kWaitingBusResetStart`
inherits that state's 35 s delay, because `delayedStateCommandInUse()` omits the state
(1884; the comment at 148 gives one second). After a reset that the FWIM refuses,
`fBusResetState` stays `kResetStateResetting` and later requests are dropped (1645).
`AssignCycleMaster` resets the bus at once, in the two seconds in which resets are to
be scheduled (1671).

**Commands.** `executeQueue( true )` unlinks a command that is put back on the queue
while another is still to be run (`IOFWCmdQ.cpp:40`): the exception in
`DroppedOnlyUnsettled`. Such a command still says that it is on the queue, and keeps its
links: cancelling it moves the head of the queue to what followed it then
(`removeFromQ`, `IOFWCommand.cpp:290-338`), the second exception, after which the list may
lead into another queue. A response inside of `complete()` whose next packet cannot be sent
completes its command twice, although line 382 says "prevent double completion":
`IOFWReadCommand.cpp:68-73` sets the status that this line looks at. A command that is to
outlast resets is told of one after 30 seconds (`IOFWAsyncCommand.cpp:411-415` computes
`status` and returns `completion_status`). `IOFWUserCommand::free` can cancel a command that has just
completed, and its completion is called twice. A response that comes after its
request timed out is matched by label and node only (5174). `Transfer`: `splitQuads`
(a quadlet write of more than a packet sends the first data again,
`IOFWWriteQuadCommand::execute`; IOFWCommand.h:603), `lostLock` (a compare and swap
repeated after its answer was lost denies its own swap, IOFWAsyncCommand.cpp:432),
`phyReset` (a PHY command latches the generation in `reinit`). Good answers of length
zero repeat for ever; the comment "Block transfers will try quad now" is true of
reads only; the size test of streams excludes the largest packet.

**Scan.** `GapFits`: a PHY configuration packet kept for a delayed reset goes out with a
later one, when the bus has other nodes (1592). A device that must be root and has a
bad IRM resets the bus for ever (2336; excluded by `BusScanAssumption`). No IRM is left
after a contender leaves (2416, comment 2424); `fScans[63]` is read past the end (2419);
`finishedBusScan` may be called twice (2588, 2627); the gate stays closed on an early
return (6962); the receive side of `maxPackLog` compares with `fMaxSendLog` (7088); the
bus-manager bit of a minimal ROM is uninitialised (2964).

**ROMs.** `ROMRisks`: `updateFails`, `wrap` (a reader that missed a whole cycle of
generations), `emptyLeaf`, `addMeanwhile`, `noText` (LibConfigDirectory 110-131).
`Unpublish` sets `mPublished` to the error's negation (LibUnitDirectory 241);
`GetKeyType` returns `outputCnt`; local reads use `fNumEntries` against the ROM compiled
last; `IOLocalConfigDirectory` has no lock.

**Devices.** `Races`: `lateOpen` (opened between `kTerminated` and its thread),
`staleIsOpen` (opened or closed between `isOpen()` and `setTerminationState()`),
`lateSuspend` (a reader suspends a ROM that was resumed since it looked),
`staleReader` (a reader out of date gives up the registration).

**Isochronous.** `IsochChannel`: `lostLock` and `lateRegistration`, which no run has, and
what the run has as mishaps: a late thread sets `fGeneration` to its own, older one (1161);
a reallocation that fails leaves a registered channel with nothing and tells nobody
(1040-1067, 1161-1168). `IRMAllocation`: give-backs that fail are forgotten
(`IOFireWireIRM.cpp:469`, 506-516, 663), `freeAfterReset` (finding 2), `lateRegistration` (a reset between the last
claim and the registration of the allocation, of a channel alone as well: nobody claims
it again), `lockOrder` (the work loop
waits for `fLock` and its holder for the gate, for ever), `staleThread`. `release()`
looks for a retain count of two (`IOFireWireIRM.cpp:379`), but an allocation that is
registered has three. `IsochPort`: `startTwice`, `reuse`, `slowHandler`,
`releaseStarted`, `lateDefer`, `lateCallback`, `remoteFails`, `lateForceStop`
(LibIsochPort 967, 1058; LibIsochChannel 209). `ChannelIsGivenBack`: the exporter's
clean-up calls `releaseChannel()`, which the user channel overrides with
`kIOReturnUnsupported` (`IOFWUserIsochChannel.cpp:58`, 112): the bandwidth of a process
that died stays claimed. `setForceStopProc` keeps a raw channel pointer
(`IOFireWireUserClient.cpp:3470`).

**DCL programs.** `ProgramRisks` (`endInTheMiddle`, `firstCallback`, `removeCallback`,
`emptyUpdate`, `newBuffer`, `skipToNew`, `skipCallback`): edits whose import stops half
way or whose fields arrive in the wrong order. `LegacyRisks`: a forward jump or a later
update list reads memory that is not built yet (`IOFWUserIsochPort.cpp:1087-1102`).
`PoolRisks`: the free blocks are counted before the lock and the first is read without
asking. `BufferRisks`: ranges that are unordered, or a buffer that starts with a page.

**Calls that wait.** `LearnsEarly`: a client may name a generation in which its device
has not been found yet, for `GetBusGeneration` takes no gate. Between
`fBusGeneration++` and the loss of the nub's node ID (`IOFireWireController.cpp:1992`,
2010) its command has the new generation with the old node ID, and whichever node has
that ID now performs it. During the scan it has the ID `kFWBadNodeID` with the current
generation, which `checkGeneration` accepts, and a write goes to every node unless the
FWIM objects. Clients that take generation and node ID together
(`GetGenerationAndNodeID`) and find an ID in it, or the generation of the last
"resumed" message, are safe: that is what the run shows. `CompareSwap` and
`CompareSwap64` look at a variable that is not written when the kernel fails: an error
may be turned into `kIOReturnCannotLock`, and the old value that `CompareSwap64` returns
is then meaningless, where `IOFireWireLib.h:1594` says that a match means that the
lock succeeded.

**Address spaces.** `InboundRaces`: `createFails` (a space that failed to initialise
frees the physical upper half, comment 5679), `enclose` (intersection is asymmetric,
5621), `late` (a label reused). `PhysicalRisks`: `mapper` (the user is told physical
addresses where requests match mapped ones), `prepareFails`, `laterSegments`
(LibPhysicalAddressSpace 239-265). `doReadSpace` uses `found` after a release (5868).

**Packets.** A packet of more than half the buffer is recorded in the wrong header
(`IOFWUserPseudoAddressSpace.cpp:662`); notification turned off and on with packets
left; `EarlyPackets`. The PHY listener with a queue of two loses its count (219). Stream
packets of two sizes overwrite each other: bytes left unused at the end of the buffer
count as available (`IOFWUserAsyncStreamListener.cpp:301-323`), so a packet may be stored
over one that the client has not acknowledged, although IOFireWireLib.h:708 promises that
it is not. `StreamStoredApart` says that this is the only way. A request that ends beyond
the largest address is taken by a space that lacks its last bytes
(`IOFWPseudoAddressSpace.cpp:505`, 530).
`LockRisks`: `acksInWriter`, `writesFirst`, `refuses`, `mixed`; user locks ignore the
extended transaction code and use `addrLo` as an offset.

**Clients.** `ClientRaces`, both in the run: `callDuringRelease`
(`IOFireWireUserClient.cpp:648`), `reopen` (a seized client opens the nub again and cannot
close it; IOFireWireLib.h:823). When the table of sessions is full, `userOpen` fails and
leaves the nub open (1679-1687): its client cannot close it and never goes. A physical
address space that finds the table of handles full is released but stays active for ever
(2684-2689), where the other spaces are deactivated first (2433-2436).
`UserCommand`: `twice` (the same command added to a vector twice: nothing forbids it,
LibVectorCommand 530-535, and removing it expects it, 550, but the kernel submits the
second while the first executes, with the gate closed, `IOFWUserVectorCommand.cpp:188-204`), `failsAtOnce` (an error and a callback, LibCommand 501), `vectorFails`,
`otherThread`, `capacity`, `shrink`, `editInFlight`, `modeSwitch`, `releaseBusy`;
`QuadletsAsAsked`: the library counts bytes where IOFireWireLibPriv.h:310 says `numQuads`
(LibCommand 953). `NotificationRisks`: `noPort`, `noSkipHandler`, `releaseWithMessages`,
`offEarly`, `removeNone`; `irmAllocation_setRef` returns `kIOReturnBadArgument` on success
(4536-4571), so notifications of IRM allocations can never be turned off, and
`irmAllocation_areResourcesAllocated` returns its answer as an error (1482-1489).
`BusInformation`: a call between the new generation and the store of a part succeeds with
what the part was before (`early`), for ever if the self-IDs were bad; and
`getSpeedToNode` overwrites the generation it was asked about with the nub's (3904-3920).
