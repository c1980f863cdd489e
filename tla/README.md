# TrafficInspector: specification and verification

TLA+ modules that model the program in `src/`, TLC configurations that check
them on small instances, and theorems about them that TLAPS proves for every
instance. `PROJECT.json` lists the components, the runs, the theorems, the
hazards, and for every definition the source lines it stands for.

## 1. The program

TrafficInspector captures Ethernet frames, gives each to the processor of its
protocol, and pairs RADIUS requests with responses.

| part | state | operations | runs in |
|---|---|---|---|
| `ObjectQueue` with a lock policy (`Utils/ObjectQueue.h`, `Utils/LockPolicies.h`) | a list, a mutex and condition variable or a spin lock | `putObject`, `getObject` | every thread |
| `ObjectPool` (`Utils/CommonObjectPool.h`) | an `ObjectQueue` of buffers, spin-locked | take, `releaseObject` through the deleter of the buffer, destruction | main takes, everybody gives back |
| `NIC` (`NIC.cpp`) | a socket, the pool | `initialize`, `receivePacket` | main |
| main loop (`main.cpp`) | the buffer in hand | receive, ask the tree, dispatch or drop | main |
| `IDispatcher` tree, `PacketDispatcher`, `PacketRouter` | the tree of processors, a timer, a stop flag | `canBeDispatchered`, `dispatchByIndex`, `dispatchBroadcast`, `route`, `initialize`, `syncThread`, `deinitialize` | main and the sync thread |
| `PacketProcessor<P>` (`PacketProcessor.hpp`) | per worker: a queue, a session map, counters; per processor: `m_stop`, a timeout | dispatch, broadcast, the worker loop | main and the sync thread put, each worker takes |
| packets (`Packets/`) | a buffer and pointers into it, a stamp, attributes | construction from a buffer, parsing | main |
| `ResultNotifier` | a queue of notifications, a stop flag | `initialize`, `provideDataForNotifier`, its thread, `setStop`, `deinitialize` | workers put, its thread takes |

A frame is received into a buffer of the pool. The packet that is made of it
owns the buffer, and moves with it through a worker's queue, the session map and
the end of an iteration. When it is destroyed, the deleter puts the buffer back
into the pool. A worker of `PacketProcessor<RADIUSPacket>` keeps a packet under
its one-byte identifier. The next packet with that identifier is reported
together with it, and SYNC_TIMEOUT, which the sync thread broadcasts, erases the
packets that have waited for the timeout.

`main.cpp` knows two ways to build this. The OLD WAY, `PacketRouter`, builds the
processors in place. The NEW WAY, `PacketDispatcher`, which `main` uses, builds
them as temporaries and moves them into a tree, after their threads were started
on the temporaries.

What is hard here: main, the sync thread, and every worker touch the pool and
the queues at once; a buffer changes hands several times between two
receptions; control messages share the queues with packets; time is read
from a clock that can be set; one stop flag serves several workers; two calls
and several references are undefined behaviour; a pool of a few buffers couples
the capture to the sweep; lengths and sizes are unsigned and subtracted from each
other, and lengths come from the wire unchecked; any system call of the set-up and of the
sync thread can fail; and what is started has to be stopped, by flags that nobody waits on. Section 9 and `PROJECT.json` list the hazards.

## 2. Modules

| module | models |
|---|---|
| `FifoChannel` | what a user of `ObjectQueue` may rely on: a FIFO channel of uniquely owned objects |
| `ObjectQueue` | `putObject` and `getObject`, one lock operation at a time, under both policies; implements `FifoChannel` |
| `ObjectQueueProofs` | theorems about `ObjectQueue` |
| `NIC` | pool, `receivePacket`, stamps, the clock, frames that nobody takes |
| `PacketProcessor` | worker queues, the three worker loops, sessions, the sweep, SHUTDOWN |
| `TrafficInspector` | the process: main loop, `NIC`, `PacketProcessor`, the sync thread, the shutdown |
| `TrafficInspectorProofs`, `OwnershipProofs`, `SessionProofs`, `ShutdownProofs`, `PairingProofs` | theorems about `TrafficInspector` |
| `PairingService` | what the RADIUS workers promise: a pairing service over packets that are values; `TrafficInspector` implements it |
| `PacketLayers` | what is read in the headers of a frame: the tests of the layers, the order of the processors in the tree and in the router, sizes, hashes |
| `FrameDecoding` | one frame from the main loop into a worker's queue: the decisions of the tree or the router, the construction of the packet, the attribute parser |
| `DecodingProofs` | theorems about `FrameDecoding` |
| `SyncTimer` | the sync thread of `PacketDispatcher` and `PacketRouter`: `initialize` with its failures, `poll` and `read`, `deinitialize` |
| `Notifier` | `ResultNotifier`: its queue, its thread, its life cycle |
| `Lifecycle` | set-up and teardown of the process around `SyncTimer`, `Notifier` and the pool |
| `LifecycleProofs` | theorems about `Lifecycle` |
| `MCObjectQueue`, `MCTrafficInspector`, `MCFrameDecoding`, `MCLifecycle` | instances for TLC |

Three specifications share the work. `TrafficInspector` is the traffic: every
thread at once, frames reduced to what decides their way. `FrameDecoding` is that
way, for one frame, with the bytes. `Lifecycle` is the beginning and the end, with the
workers reduced to what they hold and report. What one leaves out another has:

- `TrafficInspector` gives a frame to its leaf in one step and asks only whether
  it is `whole`, that is, whether the assertions of the constructor hold of it.
  `FrameDecoding!RightLeaf` says that the tree and the router find that leaf, and
  `WholeIsConstructible` which frames are `whole`: those that were captured as long as
  their header says and end where an attribute ends. A frame that is cut off, or whose
  last attribute does not fit, is not. Only behind a length byte of 0 or 1 it may be either,
  depending on what the parser finds where that byte leads it. `TrafficInspector` has no
  frames that lead the parser out of the buffer.
- `Lifecycle` joins the workers when they have been told to end and every buffer is back.
  `TrafficInspector`'s `ShutdownEnds` and `AllReturned` say that it comes to that once SHUTDOWN
  was sent. Nothing in the program sends it.
- `TrafficInspector` lets the timer expire when it likes and a broadcast follow.
  `Lifecycle!BroadcastsFollowExpiries` and `ExpiryBroadcast` say what of this
  survives failing system calls.

`PacketProcessor` extends `NIC` and `TrafficInspector` extends both, so their
variables are shared as the threads share the memory. Inside them a queue or
pool operation is one step. That is what `ImplementsChannel` allows: it is
checked by TLC and proved in `ObjectQueueProofs.Refinement`.

`ImplementsService` maps the state of the RADIUS workers to that of `PairingService`. What
waits there is the content of the buffers in the queue of a worker, without the control
messages between them: `Places` are the positions that hold buffers, and the k-th packet is
at the position of rank k among them (`Nth`, `Selected`). What is open there is the content of
the buffers in the map.

### State and actions

`pool`, `hand`, `frame` and `age` are the container of the pool, `packetPtr` of
the main loop, the content and the time stamp of each buffer. `queue[w]`,
`sessions[w]`, `held[w]` are `m_receivedPacketQueue[w]`, `packetSessionsMap`, and
the `packet` of the current iteration of worker `w`. `pc[w]` is its place in the
loop: testing the flag, in `getObject`, about to destroy `held`, sweeping, or
unwinding. `stop` is `m_stop`. `erasing[w]` is what the sweep, or the destruction
of the map, has still to erase, because each erasure gives one buffer back and
others can run between two of them. `notes`, `expired` and the history variables
record what was reported, what was counted as unresponded and what was accepted.

| action | code |
|---|---|
| `TakeBuffer`, `Receive`, `ReceiveFails`, `DropFrame` | `NIC::receivePacket`, the else branch of the main loop |
| `Dispatch`, `Enqueue` | `dispatchByIndex`, `onDispatchImpl` |
| `TestStop`, `OnShutdown`, `OnSync`, `EraseSession`, `EraseDone`, `OnPair`, `OnHold`, `OnDiscard`, `DropPacket` | the worker loops |
| `TimerExpires`, `SyncPut`, `SyncEnds` | `syncThread`, `dispatchBroadcast(SYNC_TIMEOUT)` |
| `ShutdownPut`, `StopSync`, `JoinSync`, `DestroyItem`, `Destroyed` | `dispatchBroadcast(SHUTDOWN)`, `deinitialize`, the destructors |
| `Tick`, `SetClock` | the passing of time, `CLOCK_REALTIME` being set |
| `Crash` | a call that does not return, a failed assertion |

In `FrameDecoding`, `at` is where the frame is (the main loop, the UDP node, a
constructor, the parser, a queue), `size`, `offset` and `avps` are `size`, `dataOffset`
and `m_avps` of the constructor of `RADIUSPacket`. In `SyncTimer` and `Notifier`,
`sync` and `notifier` are where the threads are, `timerHandler` and `armed` how far
`initialize` got. `phase` of `Lifecycle` is where main is.

| action | code |
|---|---|
| `RootDispatch`, `NodeDispatch`, `Route` | `canBeDispatchered`, `dispatch` and `dispatchByIndex` of the root and the node; `PacketRouter::route` |
| `CreatePlain`, `CreateRADIUS`, `LengthFails` | the constructors of the packets, the assertion on the length |
| `ReadAttribute`, `AttributeFails`, `ParseEnds` | the three ways of an iteration of the parser's loop |
| `LeavesBuffer` | an iteration that reads behind the buffer |
| `TimerInitialize` (`Created`, `CreateFails`, `ChargeFails`, `Charged`) | `initialize`: called again, without a timer, with a timer that cannot be charged, in full |
| `TestStopFlag`, `PollEmpty`, `PollFails`, `PollReady`, `ReadFails`, `Read`, `Broadcast` | `syncThread` |
| `NotifierInitialize`, `Provide`, `TestNoteStop`, `GetNote`, `LogNote`, `SetStop` | `ResultNotifier` |
| `OpenNIC`, `StartNotifier`, `StartTimer`, `Retry` | `main`, and an owner that calls `initialize` again |
| `TellWorkers` (sets `told`) | `dispatchBroadcast(SHUTDOWN)`, by an owner |
| `BeginEnd`, `JoinSync`, `JoinWorkers`, `DeinitNotifier`, `JoinNotifier`, `ClearPool` | `~PacketDispatcher`, `~PacketProcessor`, `ResultNotifier::deinitialize`, `~ObjectPool` |

`main` never shuts down. The shutdown actions belong to an owner that uses the
API in the order it offers, and exist only with `ShutsDown = TRUE`. The teardown of `Lifecycle` is the reverse of the
set-up: dispatcher, notifier, NIC. `deinitialize` of the notifier is optional there, as
nothing in the program calls it.

### Undefined behaviour

- `onDispatchImpl` reads the hash through a pointer that was moved from. The
  constant `Undefined` is the set of outcomes: `"crash"`, the process ends, and
  `"value"`, an arbitrary worker is chosen. g++ 12 at -O0 only shows the crash. The
  runs that look behind it use `"value"`, which is also what holds once
  that line is repaired, whatever the hash.
- The root of the tree asks `ETHPacket::isDispatchableType`, which calls itself. It
  has the same two outcomes.
- With `InPlace = FALSE` a worker reads `stopFlag` and `m_responseTimeoutMsec`
  through references to an object that is gone. Every read is arbitrary
  (`StopReads`, `TimeoutReads`). On SHUTDOWN a worker would also write `m_stop` of
  that object, into memory that may be anything's. No model follows that: `InspectorAssumption` has
  `ShutsDown => InPlace`, so nobody sends SHUTDOWN to moved processors.
- An attribute that leads past the end of the buffer is copied from memory behind it.
  `FrameDecoding` ends there, with `at = "undefined"`: which frames can come to it is
  `ReadsWhatWasReceived`; what the process does then is left open. A read past the packet but
  inside the buffer is defined, and the model goes on with what the buffer holds.

### Abstractions

A frame is the leaf that takes it, its identifier and code, and whether it is
whole (its length is the one in its RADIUS header and its attributes parse,
which is what the constructor of `RADIUSPacket` asserts; `FrameDecoding` derives
it). Attributes, addresses and texts are left out of the traffic. A time stamp is represented by its age. Ages stop
growing at `Timeout + MaxSteps`, past every timeout. `delta` is taken modulo
`2^w`, so a negative age becomes large as in the code. A notification is known by
the two packets it was made of; its AVP storages are swapped out of packets that are
destroyed in the same iteration.

A frame of `FrameDecoding` is a record of the header fields that are read, the RADIUS length
field, the number of bytes that were captured, and what the buffer holds behind the RADIUS
header. None of these is tied to another: the length field is any 16-bit number, the
capture is of any length, and the bytes are any bytes, received now or left by an
earlier frame. The bytes are written as a list of well-formed attributes, `attrs`, as
long as there are any, and a `rest` that does not begin with one (`Unparsable`): every content
of a buffer has that form, since one can take attributes from its front until none
fits. `Laid` is the set of the bytes of the
attributes, `<<i, k>>` for byte k of attribute i, and `Behind` counts them: it is the offset at
which the next attribute begins. `AttributeAt` finds by the offset which of them a byte belongs to, and
`Byte` reads it there or in the rest. A frame has no IP options and is no fragment. A MAC address is the sum
of its bytes, which is all that the hash takes of it. The host is little-endian, so a
16-bit field that is added as it lies in the header is byte-swapped (`Raw`). The root's
own test is taken to answer yes; what it really does is the run `AsBuiltDispatcher`.

`m_stopFlag`, `m_stop` and `m_timerHandler` are plain variables that two threads access.
The loops that read the flags make opaque calls in each round, so a read is a read of memory, and
it is atomic as a step. The timer's expiry count is a flag: the code reads it and throws
the number away.

## 3. Properties

| property | what it says |
|---|---|
| `TypeOK` | types, and what each thread owns at each place |
| `MutualExclusion`, `UniqueOwner`, `NoLostWakeup` | the queue under its lock |
| `ImplementsChannel` | the queue refines `FifoChannel` |
| `SomeGetterServed`, `PutReturns` | the queue's progress |
| `NoLeak`, `SingleOwner` | each buffer has exactly one owner |
| `SessionIntact` | a packet in the map still holds the frame it was filed under |
| `Accounting` | every packet a RADIUS worker accepted waits, was reported, expired or went down with its thread |
| `ConversationsDisjoint` | no packet is in two notifications, and they pair an earlier with a later packet of one identifier |
| `NoEarlyExpiry` | a session expires after the timeout, unless the clock was set |
| `StopsOnlyAsked`, `AllReturned`, `ShutdownEnds` | the shutdown |
| `PoolRecovers`, `SessionsEnd` | capture is never stuck for good, sessions end |
| `ImplementsService` | the RADIUS workers refine `PairingService`: each accepted packet has one turn, in order, and is paired with the open packet of its identifier or becomes it |
| `RightLeaf` | by the tree and by the router, a frame goes to the most specific processor that accepts it; no decision is taken back at a deeper level |
| `AttributesKept` | the parser keeps what was sent, the first attribute of each type, as far as it was received; it keeps something else too only behind a length byte of 0 or 1, and that changes nothing of what it read before |
| `ReadsWhatWasReceived` | it reads no attribute past what was received, nor past the buffer, except behind such a byte or, without assertions, when the sizes have wrapped |
| `WholeIsConstructible` | which RADIUS frames an assertion rejects, and which become packets all the same |
| `RepliesShareWorker` | a request and its response have one hash and one worker |
| `DecodingEnds` | no frame keeps the main thread |
| `ExitsWithoutThreads` | main exits only before a thread runs |
| `TrueMeansSync` | an armed timer has a thread; `initialize` returns true without one only after an earlier call could not charge the timer |
| `BroadcastsFollowExpiries`, `ExpiryBroadcast` | a SYNC_TIMEOUT for an expiry, none without one, through every failure of `poll` and `read` |
| `NotesKept`, `ReportsLogged` | notifications are logged once, in order, under one source; each is logged in the end, unless the notifier is stopped |
| `StopsWithinARound`, `TeardownRests` | a stop takes a round at most; where a teardown ends |
| `FramesAreRouted`, `AssertionHolds`, `ReportsResponse`, `UnrespondedIsUnanswered` | what the code says of itself and does not do, section 5 |

## 4. Runs that pass

| run | instance | why these bounds |
|---|---|---|
| `QueueWait` | 2 putters, 2 getters, 2 objects, condition variable | two sleepers and two pushes are what a wakeup can be lost between; ownership bounds the queue, so nothing is cut off |
| `QueueSpin` | main and a worker put, main gets, 3 objects | the pool as it is used |
| `Sharing` | 1 buffer, 2 RADIUS workers that share `m_stop`, 2 captures, shutdown at any time | the smallest pool makes the NIC wait for the sweep; two workers leave each other's SHUTDOWN in a queue |
| `Pairing` | 3 buffers, 2 identifiers, 4 captures, timeout 2, the clock set once | two open sessions and a third packet that closes one; four captures recycle a buffer; timeout 2 tells early from due |
| `Tree` | 2 buffers, RADIUS and TCP workers, moved processors, failing receptions, no assertions | every value of the dangling reads, and the refinement under all of them |
| `Decoding` | headers of every combination of IP or not, three protocols, RADIUS and other ports on each side; RADIUS packets of up to three attributes of two types, whole, cut at any byte, or not received; packets with attribute lengths of 0, 1 and more than there is, with length fields around what was sent, around the buffer, 0 and 65535; a buffer of 352 bytes; both ways, with and without assertions | a type that occurs twice among others, an attribute without a value at the end, a cut in each field of the last two attributes and in the header; a buffer of 310 bytes behind the RADIUS packet's start holds the 254 or 255 bytes of a wrapped length with room on either side, so that the parser goes astray and finds a good attribute, a bad one, the size or the end of the buffer |
| `Lifecycle` | 2 expiries, 3 notifications, 3 buffers, one call of `initialize` after the first | an expiry during the broadcast of another; a notification in hand, one behind it and one after the stop; the second `initialize` after each outcome of the first |

`MaxCaptures`, `MaxSteps` and `SyncBacklog` are bounds: of the receptions, of
how often the clock is set, and of the SYNC_TIMEOUTs that wait in one queue. The
theorems keep them as parameters and hold for all of their values. In `Lifecycle`,
`MaxExpiries`, `MaxNotes` and `MaxRetries` are the bounds, in `FrameDecoding` `Workers`.
`MaxPacket` stands for the 4096 bytes of MAX_PACKET_SIZE, `SizeMod` for 2^64. A `size_t` of more
than 17 bits is assumed: a size that has wrapped is
then above every length field, and nothing else depends on it.

Deadlock is checked in every run but `Lifecycle`: a process that has crashed or shut
down stutters in `Over`, a decoded frame in `Ended`. In `Lifecycle` the process really stops, and
`TeardownRests` says where: in `~PacketProcessor`, joining workers that nobody has sent SHUTDOWN
(the TODO in that destructor); in `deinitialize` of the notifier, joining a thread that
waits for a notification which never comes; or in `~ObjectPool`, which holds the spin lock of its
container while the deleter of the first buffer waits for it. The run shows that there
is no fourth place. No document promises that the teardown ends, and `main` never
reaches it.

### Fairness

`Fairness` of `TrafficInspector`: main, each worker, and the sync thread keep
running (weak fairness: the operating system schedules a thread that can run),
the timer keeps expiring and time passes. `Receive` is not fair, as frames need
not arrive, and neither is `BeginShutdown`. Of main, the outcome of an undefined call is
left open: to return or to crash. In `ObjectQueue` a thread in a call keeps
running. Weak fairness of `Lock` is all that is assumed of a mutex, which is why
`PutReturns` is not claimed for the condition variable; the spin policy gets strong
fairness, for the yield between unlock and lock gives the others infinitely many
chances to find the lock free.

`Lifecycle`: main, the sync thread and the notifier keep running (weak fairness). Workers give back
what they hold when they were told to end and are being joined, which is what
`ShutdownEnds` says of them; of workers nobody told to end nothing is assumed, for once the
sync thread has ended their sessions stay. That the owner tells them is not fair either. `poll`
and `read` may fail again and again, but not for ever
(strong fairness of `PollReady` and `Read`): an interrupted call is tried again after the next
test of the flag. `Expire`, traffic and `BeginEnd` are not fair. `FrameDecoding`: the main thread
keeps running.

## 5. Runs that find a violation

| run | shows | at |
|---|---|---|
| `AsBuiltDispatcher` | no frame survives the root's test | `BasePacket.h:142-146` |
| `AsBuiltRouter` | without the root, no frame survives the choice of a worker | `PacketProcessor.hpp:51-53` |
| `StaleBuffer` | a failed `recvfrom` routes the last packet of the buffer again, with size 0, into an assertion | `NIC.cpp:85-97` |
| `Retransmission` | a repeated request is reported as a response | `PacketProcessor.hpp:176-187` |
| `LateAnswer` | an answer in the queue does not keep its request from being counted as unresponded | `PacketProcessor.hpp:148-164` |

## 6. What is proved

The assumptions are the named ASSUMEs of `ObjectQueue`, `NIC`,
`PacketProcessor`, `TrafficInspector`, `PacketLayers`, `FrameDecoding`, `SyncTimer`, `Notifier`
and `Lifecycle`: finite sets of threads and buffers, control messages that
are not buffers, a timeout above zero, no SHUTDOWN to moved processors, a pool of at least one
buffer, a buffer that has room for the headers and is filled to its end (`BufferAssumption`,
`DecodingAssumption`, which exclude no content of it). TLC evaluates them in every run.

**ObjectQueue.** `LockProtects`: the invariant is inductive by itself. Every
other theorem uses it, because two threads inside the lock would break each of
them. `OwnersUnique` needs the type invariant's part that a thread about to push
owns its object. `WakeupsKept` compares the queue's length with the number of
getters that are awake. A push adds one object and, by `NotifyOne`, one awake
getter if any sleeps; a take removes one of each; and a getter goes to sleep
only when the queue is empty, so that the bound holds trivially then. The counting
is in the lemmas `OneMore` and `OneFewer`. `Refinement` maps `pc` to the call a
thread is in; locking, sleeping and waking are stutters.

**TrafficInspector.** `TypeCorrect` has one lemma per group of actions. `Owners` is
the invariant `Ownership`, which for each buffer says that it has an owner and
only one: neither half is inductive without the other, because a worker that
pops a buffer needs to know that it is nowhere else, not even a second time in
the same queue, before it files it or gives it back. Four lemmas say how
appending and popping change what is in a queue and how often. `BuffersKept`
and `BuffersOwnedOnce` are its two halves. They hold for every outcome of the
undefined reads and for both ways of building the processors.

`SessionsIntact` adds `Filed`: what waits in a queue is a frame of the
worker's leaf, and what is in a map is the frame it was filed under. The NIC
changes the content of one buffer only, the one in hand, and by `Ownership` that
one is with no worker.

`ExpiryNotEarly` adds `Freshness`: the stamp of a packet with a RADIUS worker is as old as its
reception, up to the timeout, unless the clock was set in between. It has two hypotheses.
`InPlace`: the sweep of a moved processor compares with a timeout it reads through a
dangling reference. And assertions, or receptions that do not fail: a failed reception leaves the
old stamp on the buffer, and only the assertion on the length keeps it from being
filed (run `StaleBuffer`). `OnlySweepCounts` says that nothing but the sweep adds to `expired`, one
session at a time.

`ConversationsApart` numbers the frames. `Numbered` says that those not yet reported have
numbers of their own, none above the last, that a queue holds them in increasing order, all of them
above those that its worker keeps open, and that no notification has one of them. By `Ownership`
the buffer of a packet is in one place, so that pairing takes both numbers out of the
unreported ones at once.

`PacketsAccounted` is a sum: `Balance` says that what was accepted is what waits, is open, was
reported, has expired or was abandoned. An action moves one packet (or, when it pairs,
two) from one term to another. `PlacesAppend` and `PlacesTail` are the lemmas about the first
term; a control message in the queue does not count. It needs neither `InPlace` nor assertions.

`ServiceImplemented` is proved action by action (`RefinesCapture`, `RefinesEnqueue`, `RefinesWork`,
`RefinesDestroy`): each step of main, the sync thread, a worker or the owner is a step of the
service, or leaves what the service shows unchanged. `SelectedAppend` and `SelectedTail` say what
putting and taking do to the packets that wait, with or without a control message at the
head; `Filed` and `Ownership`, that the buffers the service is read from are not the one the
NIC is writing to.

`StopsAsked` holds under the additional assumption `InPlace`: a thread that
reads its flag through a dangling reference may stop at any time. Its invariant
`Asked` follows SHUTDOWN from the owner through the queues to `m_stop` and
the loop. `BuffersReturned` adds `Emptied`: an ending worker has all of its sessions
left to erase, one that is done has none, and the end is reached with empty
queues. By `Ownership` every buffer is then in the pool.

**Lifecycle.** The invariant `Inv` has three parts, one per component. `TimerInv` counts: an
expiry that was read and is not yet broadcast is in neither `broadcasts` nor
`expirations`, so `BroadcastsFollowExpiries` is inductive only with the step `"cast"`
counted too, and with the fact that a thread about to read has something to read. A
late broadcast leaves the thread before its test of a flag that stays up, which is why there
is no second one. `NotifierInv` says the same of the notifier's loop. `MainInv` says what
main has not set up yet; `ExitsWithoutThreads` is a consequence of the order of the
set-up, and `NotesKept` needs that workers exist only once the source is known.

**FrameDecoding.** `FirstInFirst` is what asking the children in order finds. With it
`NodeLeaf`, `RootLeaf` and `RouterLeaf` say which leaf each of the three decisions yields,
and `LeavesAreRight` follows with the invariant `Placed`: a frame that was sent to the
node is one that the node accepts again. `AnswersMeetQuestions` is arithmetic on the hashes,
layer by layer (`ReplyHashes`), for all addresses, ports and numbers of workers.

`AttributesRight`, `WholeMeansConstructible` and `NothingElseRead` are parts of the invariant
`Decoded`, which holds for any content of the buffer, any length field and any number of captured
bytes. Its core says where the parser is. `Read(n)`: it stands behind n attributes, each
was there to be read, and for each type that occurs among them m_avps holds the value of the
first. Or `Gone`: it has read all of them, met a length byte of 0 or 1, and is astray, but has still
what it had read. `ByteRead` says that at the offset of byte k of attribute i that
byte is found and no other, because attributes do not overlap (`BehindGrows`). `FitsReadable` says
that the two tests in the loop accept an attribute exactly if it is there to be read, `NoneLater`
that when one is refused, or the size is used up, none behind it is readable. `RestFits` is the
case behind the last attribute: what passes both tests there is a length byte that wraps, for a
longer attribute would have to fit into the packet and not into the buffer, or the parser is
about to leave the buffer; `RestValue` is what is then copied. So a round goes from `Read(n)` to
`Read(n + 1)` (`ReadNext`) or to `Gone` (`ReadAstray`), and `Gone` stays (`KeptSame`, `KeptFirst`:
`insert` replaces nothing). `Stops` and `Leaves` join these when the loop is left, at its end or past
the buffer. `Sizes` is the arithmetic of the unsigned subtractions: 42 less than was
captured, or above every length field; `ExtentIs` says what of it reaches the parser.

`RoundsBounded` is what `DecodingEnds` rests on: each round moves the offset ahead by
two at least, never past the buffer, and past the size only when the parser is astray.

**Only model-checked.** Liveness (`PoolRecovers`, `SessionsEnd`, `ShutdownEnds`,
`SomeGetterServed`, `PutReturns`, `DecodingEnds`, `ExpiryBroadcast`, `ReportsLogged`,
`TeardownRests`): fairness is beyond the proof system. Every invariant, action property and
refinement that a passing run checks is a theorem.

## 7. What is not modelled

- The logger and the formatting of packets, which nothing reads. `StaticHelpers`, which is
  resolved by the compiler. The parsing of the arguments of the program.
- What nothing calls: `popPacket`, which is never instantiated (it calls a method that a vector of
  queues does not have), `setTimoutForWaitingResponse`, the move assignment of a processor, the
  move constructors and assignments of the packets, and the constructors of a packet from
  one of the layer below, among them the second attribute parser.
- `initialize` after `deinitialize`, which nothing does either.
- IP options and fragments (section 2), and a thread that cannot be created.
- The socket options that `NIC::initialize` sets: each either succeeds or ends the process.

## 8. Plan

The safety properties of the passing runs are proved. What is left is the safety half of the
liveness properties, as `RoundsBounded` is for `DecodingEnds`: a sweep that only shrinks what it
has still to erase (`SessionsEnd`), a shutdown whose phases only advance and whose workers end with
their flag (`ShutdownEnds`), and a buffer that is never out of reach of the pool (`PoolRecovers`).

## 9. Hazards

`PROJECT.json` lists each with its line and the properties that cover it. Five have no
property. Two are what the code does, and a property makes an exception of them: a clock that is set
back wraps `delta`, and young sessions expire (`NoEarlyExpiry` says nothing of sessions for which the
clock was set); an `initialize` that failed to charge the timer answers true the second time
(`TrueMeansSync` says that nothing else leads there). Three are out of the models: the constructor of
`PacketProcessor` ignores its timeout argument (the runs take the timeout as a constant);
`initialize` does nothing after `deinitialize` (nobody calls it then); the header after the IP
header is looked for at a fixed distance (frames have no IP options here).
