# TetherKit: formal models

TLA+ models of TetherKit, the macOS DriverKit driver for Android USB tethering
(RNDIS), with TLC runs on small instances and TLAPS proofs for every size. The
models follow `src/TetherKitDriver/` and the loader app in
`src/TetherKitLoader/`; line numbers in comments, in `PROJECT.json` and below
refer to that source, and those without a file name to `TetherKitDriver.cpp`.

    tlc  -config Lifecycle.cfg DriverLifecycle     # model-check one run
    tlapm TxSessionProofs.tla                      # check the proofs of one module

## 1. Inventory

| Component | State | Operations | Talks to |
|---|---|---|---|
| Driver lifecycle (`TetherKitDriver.cpp` 202-372) | the pointers of `TetherKitDriver_IVars`, `running`, `rndisInitDone` | `Start_Impl`, `Stop_Impl` (also from Start's `bail`) | framework calls Start and Stop; every other part reads `running` |
| RNDIS commands (1098-1357) | `cmdBuf`, `rndisXid`, `responseAvailable` | `rndisCommand`, `rndisInit`, `rndisQuery`, `queryMacAddress`, `rndisSetPacketFilter` | device control pipe; sleeps on the dispatch queue |
| Interrupt-IN pipe (606-739, 1078-1096) | `intPipe`, `intBuf`, `intAction`, `intArmed` | `armInterruptRead`, `InterruptReadComplete_Impl`, `handleNotification` | sets `responseAvailable`, reports the link |
| Transmit path (130-153, 741-784, 839-1002, 1057-1076) | `outBufs`, `outBufStack`, `numFreeOutBufs`, submission queue | `queryTxFreeSpace`, `dequeueTxPackets`, `consumeTxPackets`, `DataWriteComplete_Impl`, `pumpTxQueue`, `SetInterfaceEnable_Impl` | Skywalk queue above, bulk-OUT pipe below |
| Receive path (860-870, 1004-1055) | `inBufs`, packet pool, receive queue | `scheduleInboundReads`, `DataReadComplete_Impl`, `processInboundBuffer` | bulk-IN pipe, parser, receive queue |
| Framing core (`RNDISProtocolCore.cpp`) | none (pure) | `parseInboundBuffer`, `clampMaxTransferSize`, `fixupMacMulticastBit` | called by the two data paths and the handshake |
| Interface discovery (213-247, 376-604) | none beyond the pointers | descriptor scans, pipe lookup | USB host framework |
| Extension manager (`SystemExtensionManager.swift`) | `isBusy`, `driverState`, `pendingOperation`, `stateBeforeRequest`, log lines | install, uninstall, clear log, delegate callbacks | system-extension service, main queue, UI |
| Loader UI (`ContentView.swift`) | the view as it was last rendered | clicks on Install, Uninstall, Refresh, Clear | extension manager |
| Tests, build files | none | | |

### What is hard

All `_Impl` methods and completions run on one serial dispatch queue, so there
are no data races; the difficulties are of other kinds.

* **Yielding.** `IOSleep` inside `rndisCommand` yields the queue (comment at
  1133-1137): completions, notifications and Stop run in the middle of Start.
* **Flags as protocol.** `running`, `rndisInitDone`, `intArmed` and
  `responseAvailable` each stand for a fact about another party (the device, the
  controller), and each can be out of date.
* **Unreliable device.** It may answer late, with a stub, with an error or not
  at all, execute a command whose transfer failed, or be unplugged at any
  moment. Late answers must be told apart by a request id that wraps.
* **Buffers in flight.** OUT buffers come back in any order, a submission may be
  refused in the middle of a batch, completions may arrive after Stop.
* **Restart.** Stop says it prepares a later Start of the same object.
* **A view behind its state.** In the loader a click is dispatched on the view
  as it was rendered, log lines are numbered at once and shown later, and macOS
  answers a request when it likes, or after the app has gone.
* **Boundaries.** Lengths read from the wire, a short-packet rule that needs one
  byte beyond the payload, a transfer limit chosen by the device.

`PROJECT.json` lists each hazard at its line, with the properties that cover it.

### What makes each component correct

* Lifecycle: up means configured, down means released, handlers return.
* Commands: an accepted answer is the answer to the command sent, and the
  address taken from it is in the bytes it brought.
* Interrupt pipe: one read at most on `intBuf`, and `intArmed` is right about it;
  a driver stops listening only where the code drops a completion on purpose.
* Transmit: no buffer lost, shared or overwritten in flight; no frame stranded.
* Receive: each IN buffer is in one place; each frame is queued or dropped, once
  and in order; no packet leaks; queued frames are announced.
* Framing: payloads inside their message, messages inside the buffer,
  submissions inside their buffer and ended by a short packet.
* Extension manager: one request at a time, answered for its own operation; the
  state shown is the one macOS has; the log keeps its order.

## 2. Modules

| Module | Models | Written as |
|---|---|---|
| `DriverLifecycle` | Start, Stop, commands, interrupt pipe, device, controller | one action per stretch of code between two observable points |
| `DriverLifecycleProofs` | | theorems about `DriverLifecycle`: types, the interrupt read, release |
| `ExchangeProofs` | | theorems about `DriverLifecycle`: commands, answers and notifications |
| `TxPath` | transmit path through Start, Stop and restart | one action per handler, one per turn of the dequeue loop |
| `MCTxPath` | | instance of `TxPath`: three frames, one oversized |
| `BufferPool` | what the OUT buffers promise (abstract) | `Fill`, `Take`, `Give`, `Withdraw`, `Empty`; its own theorem |
| `TxPathProofs`, `TxSessionProofs` | | theorems about `TxPath` |
| `RxPath` | receive path through Start, Stop and restart | one action per handler, one per turn of the parse loop |
| `FrameFlow` | what the receive path promises (abstract) | `Open`, `Receive`, `Deliver`, `Drop`, `Cut` |
| `RxPathProofs` | | theorems about `RxPath` |
| `Framing` | lengths of sending and parsing, the window of a query answer | pure operators, and the parser's loop as a state machine |
| `FramingProofs` | | theorems about `Framing` |
| `ExtensionManager` | the loader's requests, its log and buttons, macOS | one action per method, callback, block and rendering |
| `ExtensionManagerProofs` | | theorems about `ExtensionManager` |

### DriverLifecycle

State: the ivars under their own names (`held` is the set of non-NULL
pointers), the link last reported, `pc` and `call` (where each handler is in
the code and the locals of `rndisCommand`), `queue` (who holds the dispatch
queue), the device (`inbox`, `outbox`, `devReady`, `devFilter`, `pending`
notifications) and the controller (`reads` outstanding, completions `done`).

`Start_Impl` is the chain `StartEntry`, `OpenCommInterface`, `OpenDataInterface`,
`OpenInterruptPipe`, `CreateCmdBuf`, then a command and its `After...` action for
each exchange, `AllocateTransferResources`, `SetupNetworkInterface`,
`StartCompletes`; each can fail and go to `stop`, which is the `bail` label.
`Stop_Impl` is `StopFilter`, its command, `AfterFilterOff`, `Release`.
`rndisCommand` is `SendCommand`, `WaitTick`/`WakeTick`/`WaitOver` (the gate),
`Get...`/`WakeRetry`/`PollsExhausted` (the poll loop). A step ends where the
code calls the device or sleeps, because only there can another party be seen;
between them nothing else runs on the queue. `Sleep` gives the queue up and
`Wake` takes it back. The behaviours of an `IOSleep` that keeps the queue are
among those modelled (nobody else happens to run).

Abstractions: a message is the command it belongs to, its id and the verdict
of the answer; `serial` is a history value that numbers commands and is read by
properties only. Time is counted in ticks. The device takes requests in order
(a USB control pipe does) and answers each, with any verdict, as late as it
likes. `MaxStarts` and `MaxNotes` bound the framework and the device.

`media` is a history variable: the link the device last announced, "unknown"
before that, in an earlier session, and when the driver dropped the announcement
(it was dispatched while `running` was false). `LinkIsAnnounced` says that once no
announcement is under way a running driver shows the last one, if it was
dispatched while running, and else the active link that Start reported. It does
not cover an announcement dispatched during Start: that one is dropped
(`DeafWhileUp` is about the same return) and shows nowhere, so that a driver whose
device said "disconnected" in the handshake, and nothing after it, shows an active
link. What the property excludes is a report that overtakes an announcement the
driver did act upon.

A live device's read may end with a status of `isUsbGoneStatus` (126-128: not
responding, aborted), as its bulk transfers may in `TxPath` and `RxPath`; such a
completion is not re-armed (1086). `KeepsListening` therefore names two ways in
which a driver with an interrupt pipe on a live device stops listening, and excludes
all others: a completion dispatched while `running` is false, and one with such a
status. It also says that a command never leaves
without a read that is outstanding or undelivered, so that a driver that stopped
listening listens again from its next command on. After Start the next command is
Stop's own. A completion of an earlier session is dispatched against the pipe and
the buffer of the new one, as it would be if the framework still delivered it.

`StopOverlapsStart` says whether Stop may be dispatched while Start sleeps. With
FALSE the framework waits for Start to return. `ArmMayFail` says whether a live
device's controller may refuse an interrupt read.

### TxPath and BufferPool

State: `outBufStack` and `numFreeOutBufs` as in the code, the frame in each
buffer's memory (`content`), the submission queue, `dequeueRequested` (the
framework owes a callback), `offer` (packets left in the running callback),
transfers at the controller and completions in flight. `Dequeue` is the call of
`queryTxFreeSpace` with the start of `consumeTxPackets`; `PoolEmpty`,
`DropOversize`, `SubmitPacket` and `SubmitFails` are the four ways a turn of the
loop ends; `DataWriteComplete` and `IgnoreCompletion` the two ways of
`DataWriteComplete_Impl`. Callbacks do not overlap (`QueueFree`), but transfers
end while a callback runs.

`lost` records the buffers whose completion carried a device-gone status while
the driver ran: the code does not return those. `Faults` lets a live device
refuse requests and fail transfers with such a status. A bulk pipe completes its
transfers in the order they were queued, as `RxPath` has it; `TransferEnds` allows
any order, which includes that one, because the code tells the buffer from the
completed action and does not rest on the order. `StopBegins` clears `running` and
leaves the queue to others while its filter command waits (`stopping`); a
completion dispatched then does not return its buffer, and `BuffersConserved`
speaks of a running driver. `refused` records that a request was refused or a
transfer cut off in the session: `NotStranded` (in the first session) and
`FramesLeaveQueue` say that this is the only way frames can be left in the queue of
a running driver, because a refused frame waits for the completion of another
transfer or the next frame.

`BufferPool` is the abstract specification: a set of free buffers and a set
handed out. `ImplementsPool` is the refinement, `free` being the stack entries
below the count and `out` the buffers of transfers and completions in the first
session; after that the pool is empty, so the refinement says nothing of it.

### RxPath and FrameFlow

State: the bulk-IN reads at the controller in the order they were queued
(`reads`), completions waiting for the dispatch queue (`done`), the messages in
each buffer's memory (`content`), the buffer being parsed (`cur`, `pos`), the
packets in the pool (`free`), in the receive queue and with the network stack,
and whether the framework was asked to take frames. `ReadSucceeded` begins
`processInboundBuffer`; `EnqueuePacket`, `EnqueueRefused` and `DropFrame` are the
outcomes of its callback, `FinishBuffer` is the end of the loop (with or without a
malformed message), `requestEnqueue` and the re-arm. `ReadFailed` and
`IgnoreCompletion` are the other two ways of `DataReadComplete_Impl`.
`ScheduleInboundReads`, `StartBails`, `StopBegins` and `Release` are Start and Stop;
`Release` leaves the aborted reads to complete in the next session.

`deaf` records the buffers whose read was refused or ended with a device-gone
status: the code does not queue those again, and with the one IN buffer of the
code (`N_IN_BUFS` is 1) reception then stops until the next Start. The pool is
shared with the transmit path: the stack takes packets from it and returns them
(`StackTakes`, `StackReturns`). A frame is a number, given in the order the device
sends them.

The dispatch queue is first in, first out: a completion posted before Stop has
been dispatched before the next Start allocates buffers. An abort may come later.

`FrameFlow` is the abstract specification: frames that arrived, in order, each
delivered or dropped from the front, or cut off by Stop. It leaves open when a
frame is dropped; `RxPath` drops one for which there is no packet (`DropFrame`) and
one whose packet the receive queue refuses (`EnqueueRefused`). `ImplementsFlow`
maps `pending` to the good messages, up to the first malformed one, of the buffer in
the parser and of the completions behind it.

### Framing

Bytes are abstracted to lengths and positions. `Receive`, `ParseEnds`,
`ParseRejects` and `ParseMessage` are the loop of `parseInboundBuffer` over every
header; `InitCompletes` and `ConsumeFrame` the two uses of
`maxOutTransferSize`. Sums stay exact: the parser's bounds test is done in 64
bits. `QueryAddress` and `CopyAddress` are `rndisQuery` with the tests of
`queryMacAddress`: its sum is computed in 32 bits and wraps (`Wrapped`), and an
answer as short as `kMinResponseBytes` lies over the request in the one command
buffer, so that the fields it does not reach are the request's (`ReadFromBuffer`).
`AddressFromAnswer` says where the six bytes come from: `rndisQuery`'s tests keep
them inside the answer, even when `offset` is the request's own, as long as the
device's sum does not wrap. For a sum past 2^32 the tests do not, and no document
says that they do.
`turns` is a history variable, the messages one call has stepped over, with which
`ParseIsBounded` says that the loop ends without any assumption of fairness.

### ExtensionManager

State: the manager's properties under their own names, the log as the ids of its
lines, the blocks of `appendStatus` on the main queue, the buttons as last
rendered (`view`), the requests with macOS and the driver as macOS has it
(`actual`). Clicks, callbacks and blocks run on the main queue one at a time.
`Render` brings the view up to date; until it does, a click may come through a
button that the new state would disable, which is what `guard !isBusy` is for.
`DidFinish` and `DidFail` are the two answers; `Relaunch` is the end and the next
start of the app, or of the machine.

Assumed of macOS: a callback belongs to a request submitted and not answered; a
request that fails leaves the driver as it was; a result the app does not know
may mean anything. Changes made outside the app (in System Settings) are not
modelled: the app has no way to learn of them, as `refreshStatus` says.

## 3. Runs

| Run | Instance | Shows |
|---|---|---|
| `Lifecycle` | two sessions, one poll, one tick, ids modulo 8, reads may be refused | `UpMeansConfigured`, `DownMeansReleased`, `AnswerIsMine`, `IdsDistinguish`, `OneInterruptRead`, `LinkIsAnnounced`, `OrderlyStopSilencesDevice`, `TypeOK` |
| `LifecycleFair` | one session, ids modulo 4, fairness | `HandlersReturn`, `NeverGoesBack`, `KeepsListening` |
| `LifecycleOverlap` | one session, Stop may run inside Start | `AnswerIsMine`, `OneInterruptRead` |
| `TxPath` | two buffers, three frames, two sessions, faults, fairness | `FirstSessionKeepsFrames`, `BuffersConserved`, `NotStranded`, `ImplementsPool`, `FramesLeaveQueue`, `TypeOK` |
| `RxPath` | two IN buffers, two packets, two messages in a transfer, two frames, two sessions, faults, fairness | `EachBufferInOnePlace`, `PacketsConserved`, `QueuedFramesAnnounced`, `ImplementsFlow`, `FramesLeaveDriver`, `TypeOK` |
| `Framing` | header 2, offset base 1, frames up to 2, buffers 7 and 6, packet size 3, fields up to 7; command buffer 6, shortest answer 1, address of 2 bytes | `SubmissionsFit`, `OrdinaryFramesSent`, `PayloadsInside`, `ParseIsBounded`, `AddressFromAnswer`, `TypeOK` |
| `ExtensionManager` | log of three lines, eight ids in one run of the app | `RequestTracked`, `ShownIsActual`, `LineIdsDistinct`, `LogInOrder`, `TypeOK` |
| `GateClosed`, `DeafWhileUp`, `OverlapNull`, `OverlapRunning`, `TxRestart` | see section 5 | what documents say and the code does not do |

The runs of the driver do not check for deadlock: it may rest for ever (stopped,
or up and idle), and the bounds end every behaviour. The run of the loader does:
its view can always be rendered and the app relaunched.

**Bounds.** One tick and one or two polls reach every branch of the two loops
(ticks run out, answer foreign, polls run out); more only repeat them. The gate
opens only in `LifecycleOverlap`, where Start can complete while Stop waits: a
command of a Start and Stop one after the other always finds `running` false, as
`GateClosed` shows. Two sessions let the answers and aborted reads of one arrive in
the next. At most four ids are in transit at a time in these instances, so 8
makes `rndisXid` wrap and still tells commands apart, as 2^32 does; with as few
as 4 they would not, and `LifecycleFair`, which does not ask that, uses 4. Two
buffers and three frames fill the pool, empty it and leave a frame waiting; one
frame in three is oversized. In `Framing` the fields reach one past every
buffer, two messages fit the IN buffer, and the OUT limit is a multiple of the
packet size, as 4096 is of 512. Its answers are of every length from the shortest
to the whole command buffer, with every `offset` and `len`, so that the sum ends
before, at and past the end of the answer, and wraps. In `RxPath` two buffers let a
completion wait behind the buffer in the parser, a transfer holds a good and a
malformed message in either order, and two packets run out when the stack keeps
one; the code's one IN buffer is the case in which the other is out of use. In
`ExtensionManager` three lines are trimmed by the fourth, and eight ids are enough
for a request with approval and failure, a cleared log and a second request.

**Fairness.** `Handler(t)` is weakly fair for each handler: USB requests carry
`kTimeoutMs`, `IOSleep` returns, and a serial queue dispatches whoever is ready.
Nothing is assumed of the device: `HandlersReturn` holds although it may never
answer, because both loops of `rndisCommand` are counted. In `TxPath` a callback
that was asked for is dispatched, the loop of `consumeTxPackets` runs on, a
posted completion is dispatched, and the controller ends every transfer (a
device that is there takes the data; for one that has gone it reports an error).
In `RxPath` a posted completion is dispatched, the parse loop runs on, and the
framework takes the frames it was told of. Nothing makes the network stack send or
return a packet, the framework start or stop, or the device notify or send. The
loader's properties are safety properties: nothing makes macOS or a user answer.

Each property is also run against a mutated definition (`PROJECT.json`,
"mutants"); the mutated forms stand beside the originals as "faulty variants".

## 4. Proofs

| Theorem | Module | For every |
|---|---|---|
| `TypeCorrect`, `InterruptReadIsSingle`, `StoppedIsReleased` | `DriverLifecycleProofs` | number of ticks, polls, ids, sessions, notifications |
| `AcceptedAnswerIsMine`, `IdsTellCommandsApart`, `RunningIsConfigured`, `LinkShownIsAnnounced`, `StopSilencesDevice`, `ListenerKeepsListening`, `HandlersNeverGoBack` | `ExchangeProofs` | number of ticks, polls, ids, sessions, notifications |
| `TypeCorrect` | `TxPathProofs` | number of buffers, frames, sessions, faults |
| `BuffersAlwaysConserved`, `FirstSessionAlwaysKeepsFrames`, `NeverStranded`, `StackImplementsPool` | `TxSessionProofs` | number of buffers, frames, sessions, faults |
| `AlwaysExclusive` | `BufferPool` | number of buffers |
| `TypeCorrect`, `PacketsAlwaysConserved`, `QueuedFramesAlwaysAnnounced`, `EachBufferAlwaysInOnePlace`, `FramesFlow` | `RxPathProofs` | number of buffers, packets, frames, sessions, transfer sizes, faults |
| `TypeCorrect`, `SubmissionsAlwaysFit`, `OrdinaryFramesAlwaysSent`, `PayloadsAlwaysInside`, `ParseAlwaysBounded`, `AddressAlwaysFromAnswer`, `FixupMacIsUnicast` | `FramingProofs` | header, buffer, packet and field sizes, layouts |
| `TypeCorrect`, `RequestAlwaysTracked`, `ShownIsAlwaysActual`, `LineIdsAlwaysDistinct`, `LogAlwaysInOrder` | `ExtensionManagerProofs` | length of the log, number of lines and requests |

Assumptions are the named ASSUMEs of the modules: positive buffer counts, a
packet size above one (an endpoint of packet size one could not end a transfer
with a short packet), an id space of more than two, one IN buffer at least, and an
`offset` in the query (20) that no answer short of its own `offset` field reaches.

**Lifecycle.** `TypeOK` is inductive once it is known that a handler in a
tick has ticks left (`TypeInv`). `OneInterruptRead` has a part for every session,
`ArmedInv`: where `intArmed` is set a read is outstanding or its
completion undelivered. Its part for the first session follows from `PipeInv`: an
armed read has its pipe and is alone, an unarmed pipe has none outstanding, and
until the pipe is opened and its read queued nothing is outstanding and Start
keeps the dispatch queue, so that neither a completion nor Stop can run. That
holds with Stop inside Start as well. `DownMeansReleased`
is proved for a framework that lets Start return before it calls Stop
(`StopOverlapsStart = FALSE`); the run `OverlapRunning` shows it needs that.
`TeardownInv` says that the two handlers exclude each other, that `running` is
false while Start is under way and once Stop has taken its first step, and that
Start keeps `attached` set until it completes or has released everything.

**Exchange.** All rests on `QueueInv`: a handler that is neither idle nor in an
`IOSleep` holds the dispatch queue. `HeldInv` adds that `commInterface` becomes
non-NULL only while no other handler is under way, so one that waits and still
finds it finds `cmdBuf` as well. `XidInv` says that the id of the n-th command is
1 + (n - 1) mod (2^32 - 1), in every message in transit, in the locals of every
handler that waits and in the answer it accepted: `rndisXid` skips 0, so the ids
come round after 2^32 - 1 commands and not 2^32. An id thus tells a command apart
from the 2^32 - 2 before it and after it (`XidTells`), and what is assumed is
`Recent`: no request, no answer and no command waited for is older than that. The
assumption is needed, since an answer that came 2^32 - 1 commands late would be
accepted for another; it holds up to the 2^32 - 1st command whatever the device
does (`RecentAtFirst`) and in every state of the run `Lifecycle`, whose ids wrap
(`XidMod` is 8, and ten commands are sent). `DeviceInv` adds the order
of the control pipe: requests are in the order sent, answers older than requests, and
a handler waits for the newest command. So when that is answered the device
has no other left to execute, and what the answer says of the device stays true until the
next command: the handshake and the filter that Start set hold while `running`, the one
that Stop cleared holds until the pipes are released (`SilentInv`). `LinkInv` says that
`media` is the last announcement in flight, or was acted upon by a running driver and
is shown, or is unknown and then the link shown is Start's. `KeepsListening` is proved
for every session from `ArmedInv`, with `ArmMayFail = FALSE`. `UpMeansConfigured`,
`LinkIsAnnounced` and `OrderlyStopSilencesDevice` need `StopOverlapsStart = FALSE`;
`AnswerIsMine`, `IdsDistinguish`, `KeepsListening` and `NeverGoesBack` do not.

`NeverGoesBack` is the part of `HandlersReturn` that needs no fairness. A handler
has at most 13 stages before it (`StagesLeft`, a command counts as one) and a
command a budget of steps (`BudgetLeft`, two for each tick and each poll that
`kWaitMaxTicks` and the two limits of polls still allow). Each step of the handler
takes it to a later stage or, in the same stage, uses up budget, and nobody else's
step changes either; the two are natural numbers below constants, so the steps of
a Start or a Stop are bounded. `BudgetInv` is what that needs: no poll is counted
before the first, and none beyond the limit.

**Transmit.** `BuffersConserved` is not inductive: that the buffer a completion
gives back is really pushed depends on the stack not being full, which depends
on its entries being distinct, which depends on the buffer not being on it
already. `SessionInv` says all of it at once: the entries below the count are
distinct, and every buffer is in exactly one of the stack, a transfer, a
completion, or `lost`. `NotFull` is then a counting argument. `NotStranded` adds
that nothing is lost until a request is refused or a transfer cut off, and that a
callback nobody has asked for again was offered the whole queue. The refinement maps `SubmitPacket` to
`Take`, `DataWriteComplete` to `Give`, `IgnoreCompletion` to `Withdraw`,
`Allocate` to `Fill`, `Release` to `Empty`, everything else to a stutter.

The theorems about the first session say `starts <= 1` because the later ones
are false in the second: run `TxRestart`.

**Receive.** `TypeOK` needs that a packet given back finds its place in the pool:
`TypeInv` adds `PacketsConserved`, and what the flags say of each other (a parse
only while running, no read and no packet in a driver without its pool).
`AnnounceInv` adds that the receive queue is empty until the driver runs.
`PlaceInv` adds that no read, live completion or parse is left when reads are first
queued; aborted completions of an earlier session are not counted as places, which
is what lets it go through a restart. While one buffer moves from place to place,
the places stay disjoint in pairs and cover all buffers.

`FramesFlow` is the refinement of `FrameFlow`. A step of the parser removes the
head of `Pending` when it meets a good frame, and leaves it alone when it meets a
malformed one, because `GoodFrames` of that buffer is empty from there on; the
dispatch of a completion moves one part of `Pending` from the completions to the
buffer in the parser; a completion with data appends to it; Stop empties it.
It rests on `PlaceInv`, by which no read writes into a buffer that is being parsed
or whose completion waits, and on `ParseInv`: the parser is never past the first
malformed message of its buffer. `Pending`
flattens a sequence of sequences with `FlattenSeq`, which the community modules
define as a recursive function chosen by its equation. That such a function exists
(`PrefixesExist`) is proved by the least counterexample: were there a number
up to which no function satisfies the equation, there would be a least one
(`WFMin` on the natural numbers), and the function for the number before it would
extend to it. From the equation follow what `Pending` needs: the flattening of an
appended sequence, of a tail, and of one whose parts are all empty.

**Extension manager.** `StateInv` adds to `RequestTracked` what is remembered while
a request is under way: the state shown is `waitingForApproval` or the remembered
one, and the remembered one is unknown or what macOS has. `LogInv` says that lines
shown and waiting are below `nextLineId`, that those waiting are in order, and that
those shown come before them unless the log was cleared between.

**Framing.** One inductive invariant: the parser is at a message boundary
inside the buffer, the last payload lies between the previous one and the
current position, `maxOut` is between the floor and the payload limit, and what
was submitted was computed from it. An address is only taken from an answer that
passed the tests, on which the argument about the window is arithmetic. `ParseIsBounded` is inductive with the
types: each turn of the loop advances by at least one header.

**Only model-checked.** Liveness (`HandlersReturn`, `FramesLeaveQueue`,
`FramesLeaveDriver`): the prover has neither ENABLED nor fairness rules for it.
Every invariant, action property and refinement that a run checks is stated by a
theorem; those about one session (`FirstSessionKeepsFrames`, `BuffersConserved`,
`NotStranded`, `ImplementsPool`, the second part of `OneInterruptRead`) say so
themselves, because the code does not keep them in a second one.

## 5. What the code does not do

Each is a run of its own whose counterexample TLC prints.

* `GateClosed`. `InterruptReadComplete_Impl` returns early while `running` is
  false (1086), and all commands of Start and Stop run with `running` false (Start
  sets it last, Stop clears it first; only a Stop inside Start is different). The
  notification gate that 1133-1137 describes never opens; every command
  waits its full second and then polls.
* `DeafWhileUp`. The same return skips the re-arm. A read that completes during
  Start is re-armed by the next command only; after the last command nobody does.
  (In a running driver a completion with a device-gone status has the same effect;
  the plan's "unless the pipe is going away" covers that one.)
* `OverlapNull`. The poll loop uses `commInterface` after `IOSleep` without looking
  at it again, as the wait loop does (1174-1176).
* `OverlapRunning`. Start does not look for a Stop that was dispatched while it
  slept. Stop clears `running` and sleeps in its own filter command; Start finds its
  answer there, completes, reports the link active and sets `running`. Stop then
  reports the link invalid, releases everything and returns: what is left is `running`
  set over NULL pointers. (Once Stop has returned Start can no longer complete: it
  finds `commInterface` NULL after a tick, or uses it after a poll.)
* `TxRestart`. `outBufStack` is numbered in `init()` only, while every Start
  resets the count, so a second session can hand one buffer to two transfers. Two
  transfers that complete in the order they were submitted are enough: the stack
  gives out its top first.

## 6. Not modelled

* Descriptor scans (`openCommInterfaceFromDevice`, `openDataInterface`): iteration
  over a framework iterator, without state. `OpenCommInterface` and
  `OpenDataInterface` keep their outcomes: the pointers set on success and on each
  failure.
* The settings stubs (`SetPromiscuousModeEnable` and its like): they return success
  and change nothing.
* Layout, texts and scrolling of the loader; build files and signing; the unit
  tests, which were read as documentation of the framing core.
* Byte order: `le32_to_cpu` is its own inverse and no property is about it.
* Lifecycle and data paths in one state space. `TxPath` and `RxPath` each carry the
  steps of Start and Stop that touch them, and the handlers of the three modules
  share nothing but `running`, the pointers and the packet pool; the product of
  the three has too many states to be checked on instances of any interest.

