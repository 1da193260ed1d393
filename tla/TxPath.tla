------------------------------ MODULE TxPath ------------------------------
(***************************************************************************)
(* The transmit path of TetherKitDriver.cpp: the Skywalk submission queue, *)
(* consumeTxPackets, the stack of free OUT buffers, the bulk-OUT transfers *)
(* and DataWriteComplete_Impl, through Start and Stop.                     *)
(*                                                                         *)
(* Callbacks are serialised by the dispatch queue.  The dequeue callback   *)
(* is a loop over the packets the framework offers; one step is one turn   *)
(* of the loop, during which the controller may complete transfers but no  *)
(* other callback runs (offer > 0).                                        *)
(***************************************************************************)
EXTENDS Naturals, Sequences, FiniteSets

CONSTANTS
  NOutBufs,   \* N_OUT_BUFS
  Packets,    \* the frames the network stack will send, each once
  Oversize,   \* those with ethLen + sizeof(rndis_data_hdr) > maxOutTransferSize
  NoFrame,    \* the content of a buffer nothing was copied to
  MaxStarts,  \* bound: sessions on one driver object
  Faults      \* a live device may refuse requests and fail transfers

ASSUME BufsAssumption == NOutBufs \in Nat \ {0}
ASSUME PacketsAssumption == Oversize \subseteq Packets /\ NoFrame \notin Packets
ASSUME SwitchAssumption == MaxStarts \in Nat /\ Faults \in BOOLEAN

Buffers == 0 .. NOutBufs - 1

\* A bulk-OUT transfer, and a completion posted for it: "ok" stands for any
\* status that isUsbGoneStatus does not name, success or not.
Transfers == [buf : Buffers, pkt : Packets]
Completions == [buf : Buffers, pkt : Packets, status : {"ok", "gone"}]

VARIABLES
  running,          \* IVARS->running
  allocated,        \* outBufs, outActions and txQueue are held
  stopping,         \* Stop_Impl waits for its filter command
  numFreeOutBufs, outBufStack,
  content,          \* the frame in the memory of each OUT buffer
  txQueue,          \* frames in the submission queue
  dequeueRequested, \* the framework owes the driver a dequeue callback
  offer,            \* packets still offered by the running dequeue callback
  transfers,        \* bulk-OUT transfers at the controller
  done,             \* completions waiting for the dispatch queue
  alive,            \* the device is plugged in
  starts,           \* sessions begun
  lost,             \* buffers whose completion a running driver ignored
  refused           \* history: in this session a request was refused, or a
                    \* transfer ended with a device-gone status

poolVars == <<numFreeOutBufs, outBufStack, content>>
usbVars  == <<transfers, done>>
vars == <<running, allocated, stopping, poolVars, txQueue, dequeueRequested, offer, usbVars, alive,
          starts, lost, refused>>

TypeOK ==
  /\ running \in BOOLEAN /\ allocated \in BOOLEAN /\ stopping \in BOOLEAN
  /\ numFreeOutBufs \in 0 .. NOutBufs
  /\ outBufStack \in [Buffers -> Buffers]
  /\ content \in [Buffers -> Packets \cup {NoFrame}]
  /\ txQueue \in Seq(Packets) /\ dequeueRequested \in BOOLEAN /\ offer \in Nat
  /\ transfers \in SUBSET Transfers /\ done \in SUBSET Completions
  /\ alive \in BOOLEAN /\ starts \in Nat /\ lost \in SUBSET Buffers
  /\ refused \in BOOLEAN

\* init() numbers the stack entries; nothing later does.
Init ==
  /\ running = FALSE /\ allocated = FALSE /\ stopping = FALSE
  /\ numFreeOutBufs = 0 /\ outBufStack = [i \in Buffers |-> i]
  /\ content = [b \in Buffers |-> NoFrame]
  /\ txQueue = <<>> /\ dequeueRequested = FALSE /\ offer = 0
  /\ transfers = {} /\ done = {}
  /\ alive = TRUE /\ starts = 0 /\ lost = {} /\ refused = FALSE

----------------------------------------------------------------------------
\* The dispatch queue is not inside a dequeue callback.
QueueFree == offer = 0

\* availableTxBytes, in buffers.
AvailableTx == IF running THEN numFreeOutBufs ELSE 0

\* pumpTxQueue with the pool as the caller leaves it: requestDequeue asks the
\* framework for a dequeue callback; a refusal is only logged.
PumpTxQueue(up, free) ==
  IF up /\ allocated /\ free > 0
  THEN \/ dequeueRequested' = TRUE /\ UNCHANGED refused
       \/ Faults /\ UNCHANGED dequeueRequested /\ refused' = TRUE
  ELSE UNCHANGED <<dequeueRequested, refused>>

----------------------------------------------------------------------------
(***************************************************************************)
(* Start and Stop, as far as the transmit path goes.                       *)
(***************************************************************************)
\* allocateTransferResources and setupNetworkInterface have succeeded: new
\* buffers, a new queue and a full count, over the stack as it was left.  The
\* dispatch queue is first in, first out: a completion posted before an earlier
\* Stop has been dispatched; an abort may still be under way.
Allocate ==
  /\ QueueFree /\ ~allocated /\ starts < MaxStarts
  /\ \A c \in done : c.status = "gone"
  /\ starts' = starts + 1 /\ allocated' = TRUE
  /\ numFreeOutBufs' = NOutBufs /\ content' = [b \in Buffers |-> NoFrame]
  /\ lost' = {} /\ refused' = FALSE
  /\ UNCHANGED <<running, stopping, outBufStack, txQueue, dequeueRequested, offer, usbVars, alive>>

\* The end of Start_Impl: running is set and the queue pumped.
GoRunning ==
  /\ QueueFree /\ allocated /\ ~running /\ ~stopping
  /\ running' = TRUE /\ PumpTxQueue(TRUE, numFreeOutBufs)
  /\ UNCHANGED <<allocated, stopping, poolVars, txQueue, offer, usbVars, alive, starts, lost>>

\* Stop_Impl, called by the framework or from Start's bail label, clears running;
\* its filter command yields the dispatch queue.
StopBegins ==
  /\ QueueFree /\ allocated /\ ~stopping /\ running' = FALSE /\ stopping' = TRUE
  /\ UNCHANGED <<allocated, poolVars, txQueue, dequeueRequested, offer, usbVars, alive, starts,
                 lost, refused>>

\* The rest of Stop_Impl: transfers are aborted and complete later, buffers and
\* queue are released, the count is cleared.  Frames still queued go with the queue.
Release ==
  /\ QueueFree /\ stopping /\ stopping' = FALSE /\ allocated' = FALSE /\ numFreeOutBufs' = 0
  /\ txQueue' = <<>> /\ dequeueRequested' = FALSE
  /\ transfers' = {}
  /\ done' = done \cup {[buf |-> t.buf, pkt |-> t.pkt, status |-> "gone"] : t \in transfers}
  /\ UNCHANGED <<running, outBufStack, content, offer, alive, starts, lost, refused>>

\* SetInterfaceEnable_Impl(true).
SetInterfaceEnable ==
  /\ QueueFree /\ PumpTxQueue(running, numFreeOutBufs)
  /\ UNCHANGED <<running, allocated, stopping, poolVars, txQueue, offer, usbVars, alive, starts,
                 lost>>

----------------------------------------------------------------------------
(***************************************************************************)
(* The dequeue callback: queryTxFreeSpace, then consumeTxPackets.          *)
(***************************************************************************)
\* The framework asks for the free space and, when there is some, offers the
\* packets it has.
Dequeue ==
  /\ QueueFree /\ dequeueRequested /\ dequeueRequested' = FALSE
  /\ offer' = IF AvailableTx > 0 THEN Len(txQueue) ELSE 0
  /\ UNCHANGED <<running, allocated, stopping, poolVars, txQueue, usbVars, alive, starts, lost,
                 refused>>

\* The loop breaks: no buffer is left.
PoolEmpty ==
  /\ offer > 0 /\ numFreeOutBufs = 0 /\ offer' = 0
  /\ UNCHANGED <<running, allocated, stopping, poolVars, txQueue, dequeueRequested, usbVars, alive,
                 starts, lost, refused>>

\* A frame that does not fit a transfer is released and counted as consumed.
DropOversize ==
  /\ offer > 0 /\ numFreeOutBufs > 0 /\ Head(txQueue) \in Oversize
  /\ txQueue' = Tail(txQueue) /\ offer' = offer - 1
  /\ UNCHANGED <<running, allocated, stopping, poolVars, dequeueRequested, usbVars, alive, starts,
                 lost, refused>>

\* The buffer on top of the stack.
NextBuffer == outBufStack[numFreeOutBufs - 1]

CanSubmit == offer > 0 /\ numFreeOutBufs > 0 /\ Head(txQueue) \notin Oversize

\* Faulty variants, for the mutation runs.
Pop_Forgotten == UNCHANGED numFreeOutBufs
PushBack_Forgotten(b) == numFreeOutBufs' = numFreeOutBufs - 1 /\ UNCHANGED outBufStack
\* The count is lowered only when AsyncIO accepts, and raised all the same (the
\* slot past the end is not written).
PushBack_Uncounted(b) ==
  /\ outBufStack' = [i \in Buffers |-> IF i = numFreeOutBufs THEN b ELSE outBufStack[i]]
  /\ numFreeOutBufs' = numFreeOutBufs + 1

Pop == numFreeOutBufs' = numFreeOutBufs - 1

\* After a refused submission: the entry is written back and counted again.
PushBack(b) ==
  /\ outBufStack' = [outBufStack EXCEPT ![numFreeOutBufs - 1] = b]
  /\ UNCHANGED numFreeOutBufs

\* The frame is copied into the next buffer and AsyncIO accepts the transfer.
SubmitPacket ==
  /\ CanSubmit /\ alive
  /\ content' = [content EXCEPT ![NextBuffer] = Head(txQueue)]
  /\ Pop /\ UNCHANGED outBufStack
  /\ transfers' = transfers \cup {[buf |-> NextBuffer, pkt |-> Head(txQueue)]}
  /\ txQueue' = Tail(txQueue) /\ offer' = offer - 1
  /\ UNCHANGED <<running, allocated, stopping, dequeueRequested, done, alive, starts, lost,
                 refused>>

\* AsyncIO refuses: the buffer goes back, the loop breaks, the frame stays.
SubmitFails ==
  /\ CanSubmit /\ (~alive \/ Faults)
  /\ content' = [content EXCEPT ![NextBuffer] = Head(txQueue)]
  /\ PushBack(NextBuffer) /\ offer' = 0 /\ refused' = TRUE
  /\ UNCHANGED <<running, allocated, stopping, txQueue, dequeueRequested, usbVars, alive, starts,
                 lost>>

----------------------------------------------------------------------------
(***************************************************************************)
(* DataWriteComplete_Impl.                                                 *)
(***************************************************************************)
\* A faulty variant: the queue is not pumped.
PumpAfterWrite_Forgotten(free) == UNCHANGED <<dequeueRequested, refused>>
PumpAfterWrite(free) == PumpTxQueue(running, free)

\* The buffer is pushed unless the stack is full.
ReturnBuffer(b) ==
  IF numFreeOutBufs < NOutBufs
  THEN /\ outBufStack' = [outBufStack EXCEPT ![numFreeOutBufs] = b]
       /\ numFreeOutBufs' = numFreeOutBufs + 1
  ELSE UNCHANGED <<outBufStack, numFreeOutBufs>>

\* A completion after Stop, or one that says the device is gone, is ignored.
IgnoreCompletion(c) ==
  /\ QueueFree /\ c \in done /\ (~running \/ c.status = "gone")
  /\ done' = done \ {c}
  /\ lost' = IF running THEN lost \cup {c.buf} ELSE lost
  /\ UNCHANGED <<running, allocated, stopping, poolVars, txQueue, dequeueRequested, offer,
                 transfers, alive, starts, refused>>

DataWriteComplete(c) ==
  /\ QueueFree /\ c \in done /\ running /\ c.status = "ok"
  /\ done' = done \ {c}
  /\ ReturnBuffer(c.buf) /\ PumpAfterWrite(numFreeOutBufs')
  /\ UNCHANGED <<running, allocated, stopping, content, txQueue, offer, transfers, alive, starts,
                 lost>>

----------------------------------------------------------------------------
(***************************************************************************)
(* The network stack, the controller and the device (outside the           *)
(* repository).                                                            *)
(***************************************************************************)
\* The stack queues a frame it has not queued yet; the framework then calls
\* the dequeue callback.
Queued == {txQueue[i] : i \in DOMAIN txQueue}
Enqueue(p) ==
  /\ allocated /\ p \notin Queued /\ (\A t \in transfers : t.pkt # p) /\ (\A c \in done : c.pkt # p)
  /\ txQueue' = Append(txQueue, p) /\ dequeueRequested' = TRUE
  /\ UNCHANGED <<running, allocated, stopping, poolVars, offer, usbVars, alive, starts, lost,
                 refused>>

\* A transfer ends; a transient failure may look like a device that is gone.  A
\* bulk pipe completes its transfers in the order they were queued; any order is
\* allowed here, which includes that one: the buffer is told from the reference of
\* the completed action, so the code does not depend on the order.
TransferEnds(t) ==
  /\ t \in transfers /\ transfers' = transfers \ {t}
  /\ \E s \in {"ok", "gone"} :
       /\ s = "ok" => alive
       /\ s = "gone" => ~alive \/ Faults
       /\ refused' = (refused \/ s = "gone")
       /\ done' = done \cup {[buf |-> t.buf, pkt |-> t.pkt, status |-> s]}
  /\ UNCHANGED <<running, allocated, stopping, poolVars, txQueue, dequeueRequested, offer, alive,
                 starts, lost>>

Unplug ==
  /\ alive /\ alive' = FALSE
  /\ UNCHANGED <<running, allocated, stopping, poolVars, txQueue, dequeueRequested, offer, usbVars,
                 starts, lost, refused>>

----------------------------------------------------------------------------
DequeueLoop == PoolEmpty \/ DropOversize \/ SubmitPacket \/ SubmitFails

Next ==
  \/ Allocate \/ GoRunning \/ StopBegins \/ Release \/ SetInterfaceEnable
  \/ Dequeue \/ DequeueLoop
  \/ \E c \in done : IgnoreCompletion(c) \/ DataWriteComplete(c)
  \/ \E p \in Packets : Enqueue(p)
  \/ \E t \in transfers : TransferEnds(t)
  \/ Unplug

Spec == Init /\ [][Next]_vars

\* A callback that was asked for is dispatched and runs to its end; a device
\* that is there takes the data of a transfer.  Nothing makes the stack send,
\* or the framework start or stop the driver.
FairSpec ==
  /\ Spec
  /\ WF_vars(Dequeue) /\ WF_vars(DequeueLoop)
  /\ \A c \in Completions : WF_vars(IgnoreCompletion(c) \/ DataWriteComplete(c))
  /\ \A t \in Transfers : WF_vars(TransferEnds(t))

----------------------------------------------------------------------------
(***************************************************************************)
(* Properties.                                                             *)
(***************************************************************************)
FreeBuffers == {outBufStack[i] : i \in 0 .. numFreeOutBufs - 1}
BusyBuffers == {x.buf : x \in transfers \cup done}

\* The memory a transfer is sent from holds the frame the transfer was made
\* for: no frame is copied over one that the controller is still reading.
TransfersKeepTheirFrames == \A t \in transfers : content[t.buf] = t.pkt

\* The same for the first session of a driver object.
FirstSessionKeepsFrames == starts <= 1 => TransfersKeepTheirFrames

\* In a running first session every buffer is exactly one of: on the free
\* stack (once), in use, or lost to a completion that said the device is gone.
BuffersConserved ==
  starts <= 1 /\ running =>
    /\ FreeBuffers \cup BusyBuffers \cup lost = Buffers
    /\ numFreeOutBufs = Cardinality(FreeBuffers)
    /\ FreeBuffers \cap BusyBuffers = {} /\ (FreeBuffers \cup BusyBuffers) \cap lost = {}

\* In the first session, and there only until the first refused request or the
\* first transfer that is cut off, frames never sit in the queue of a running
\* driver with nobody due to fetch them: a dequeue callback is owed, or one is
\* running, or a transfer is out whose completion will pump the queue.
NotStranded ==
  starts <= 1 /\ running /\ ~refused /\ txQueue # <<>> =>
    dequeueRequested \/ offer > 0 \/ transfers \cup done # {}

\* The stack of free buffers implements the buffer pool (first session).
Pool == INSTANCE BufferPool WITH
          free <- IF starts <= 1 THEN FreeBuffers ELSE {},
          out <- IF starts <= 1 /\ allocated THEN BusyBuffers ELSE {}
ImplementsPool == Pool!Spec

\* In every session, a queued frame leaves the queue (sent in a transfer, or
\* dropped because it is oversized) unless the driver is stopped or a request
\* refused before that.
FramesLeaveQueue ==
  \A p \in Packets :
    (p \in Queued /\ running) ~> (p \notin Queued \/ ~running \/ refused)
=============================================================================
