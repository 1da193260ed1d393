------------------------------ MODULE RxPath ------------------------------
(***************************************************************************)
(* The receive path of TetherKitDriver.cpp: the bulk-IN reads,             *)
(* DataReadComplete_Impl with processInboundBuffer, the packet pool and    *)
(* the receive queue, through Start and Stop.                              *)
(*                                                                         *)
(* A completion is handled in one callback; one step is one turn of the    *)
(* parse loop over the buffer, during which the controller, the device and *)
(* the network stack go on but no other callback runs (cur # NoBuffer).    *)
(***************************************************************************)
EXTENDS Naturals, Sequences, FiniteSets, SequencesExt

CONSTANTS
  NInBufs,       \* N_IN_BUFS
  PoolCapacity,  \* PACKET_POOL_CAPACITY
  MaxBatch,      \* bound: messages in one transfer
  MaxFrames,     \* bound: frames the device sends
  MaxStarts,     \* bound: sessions on one driver object
  Faults,        \* a live device or the framework may refuse requests
  NoBuffer       \* no completion is being handled

ASSUME SizeAssumption ==
  /\ NInBufs \in Nat \ {0} /\ PoolCapacity \in Nat
  /\ MaxBatch \in Nat /\ MaxFrames \in Nat /\ MaxStarts \in Nat /\ Faults \in BOOLEAN
Buffers == 0 .. NInBufs - 1
ASSUME NoBufferAssumption == NoBuffer \notin Buffers

\* A message in a buffer is its frame, numbered as the device sends them, or
\* fails a test of the parser.  (One without payload is stepped over in the
\* parser, module Framing, and changes nothing here.)
Frames   == 1 .. MaxFrames
Bad      == 0
Messages == Frames \cup {Bad}

\* How a read ends: "data", "error" (a status isUsbGoneStatus does not name, or
\* no bytes), "gone" (one it names), "aborted" (by Stop; it names that one too).
Completions == [buf : Buffers, status : {"data", "error", "gone", "aborted"}]
Ignored == {"gone", "aborted"}

VARIABLES
  running,          \* IVARS->running
  allocated,        \* inBufs, inActions, pktPool and rxQueue are held
  stopping,         \* Stop_Impl waits for its filter command
  reads,            \* bulk-IN reads at the controller, in the order queued
  done,             \* completions waiting for the dispatch queue, in order
  content,          \* the messages in the memory of each IN buffer
  cur, pos,         \* the buffer being parsed, and the messages parsed so far
  free,             \* packets in pktPool
  rxQueue,          \* frames in the receive queue, a packet each
  stack,            \* packets the network stack holds, received or to be sent
  enqueueRequested, \* the framework was asked to take from rxQueue
  alive, sent,      \* the device: plugged in; number of frames sent
  starts,           \* sessions begun
  queued,           \* history: frames queued for the stack, in order
  deaf,             \* history: buffers whose read ended as gone, or was refused
  unheard           \* history: the last requestEnqueue was refused

usbVars   == <<reads, done, content>>
stackVars == <<free, rxQueue, stack, enqueueRequested, queued, unheard>>
vars == <<running, allocated, stopping, usbVars, cur, pos, stackVars, alive, sent, starts, deaf>>

TypeOK ==
  /\ running \in BOOLEAN /\ allocated \in BOOLEAN /\ stopping \in BOOLEAN
  /\ reads \in Seq(Buffers) /\ done \in Seq(Completions)
  /\ content \in [Buffers -> Seq(Messages)]
  /\ cur \in Buffers \cup {NoBuffer} /\ pos \in Nat
  /\ free \in 0 .. PoolCapacity /\ stack \in 0 .. PoolCapacity
  /\ rxQueue \in Seq(Frames) /\ queued \in Seq(Frames)
  /\ enqueueRequested \in BOOLEAN /\ unheard \in BOOLEAN
  /\ alive \in BOOLEAN /\ sent \in 0 .. MaxFrames /\ starts \in Nat
  /\ deaf \in SUBSET Buffers

Init ==
  /\ running = FALSE /\ allocated = FALSE /\ stopping = FALSE
  /\ reads = <<>> /\ done = <<>> /\ content = [b \in Buffers |-> <<>>]
  /\ cur = NoBuffer /\ pos = 0
  /\ free = 0 /\ rxQueue = <<>> /\ stack = 0 /\ enqueueRequested = FALSE
  /\ queued = <<>> /\ unheard = FALSE
  /\ alive = TRUE /\ sent = 0 /\ starts = 0 /\ deaf = {}

QueueFree == cur = NoBuffer

----------------------------------------------------------------------------
(***************************************************************************)
(* Start and Stop, as far as the receive path goes.                        *)
(***************************************************************************)
\* allocateTransferResources and setupNetworkInterface have succeeded.  The
\* dispatch queue is first in, first out: a completion posted before an earlier
\* Stop has been dispatched; an abort may still be under way.
Allocate ==
  /\ QueueFree /\ ~allocated /\ starts < MaxStarts
  /\ \A i \in DOMAIN done : done[i].status = "aborted"
  /\ starts' = starts + 1 /\ allocated' = TRUE /\ free' = PoolCapacity
  /\ content' = [b \in Buffers |-> <<>>] /\ deaf' = {} /\ unheard' = FALSE
  /\ UNCHANGED <<running, stopping, reads, done, cur, pos, rxQueue, stack, enqueueRequested,
                 queued, alive, sent>>

\* The first n buffers, as scheduleInboundReads queues them.
FirstBuffers(n) == [i \in 1 .. n |-> i - 1]

\* scheduleInboundReads and the end of Start_Impl: no completion is dispatched
\* before running is set.
ScheduleInboundReads ==
  /\ QueueFree /\ allocated /\ ~running /\ ~stopping /\ alive
  /\ reads' = FirstBuffers(NInBufs) /\ running' = TRUE
  /\ UNCHANGED <<allocated, stopping, done, content, cur, pos, stackVars, alive, sent, starts, deaf>>

\* One AsyncIO is refused: Start bails out with the reads before it queued.
\* The filter command or another step may fail as well, before any read.
StartBails ==
  /\ QueueFree /\ allocated /\ ~running /\ ~stopping
  /\ \E n \in 0 .. NInBufs - 1 :
       /\ n > 0 => alive /\ Faults
       /\ reads' = FirstBuffers(n)
  /\ stopping' = TRUE
  /\ UNCHANGED <<running, allocated, done, content, cur, pos, stackVars, alive, sent, starts, deaf>>

\* Stop_Impl clears running; its filter command yields the dispatch queue.
StopBegins ==
  /\ QueueFree /\ running /\ running' = FALSE /\ stopping' = TRUE
  /\ UNCHANGED <<allocated, usbVars, cur, pos, stackVars, alive, sent, starts, deaf>>

\* The rest of Stop_Impl: the reads are aborted and complete later; buffers,
\* queue and pool are released, with the packets in them.
Release ==
  /\ QueueFree /\ stopping /\ stopping' = FALSE /\ allocated' = FALSE
  /\ reads' = <<>>
  /\ done' = done \o [i \in 1 .. Len(reads) |-> [buf |-> reads[i], status |-> "aborted"]]
  /\ free' = 0 /\ rxQueue' = <<>> /\ stack' = 0 /\ enqueueRequested' = FALSE
  /\ UNCHANGED <<running, content, cur, pos, queued, unheard, alive, sent, starts, deaf>>

----------------------------------------------------------------------------
(***************************************************************************)
(* DataReadComplete_Impl.                                                  *)
(***************************************************************************)
\* The AsyncIO that queues buffer b again; a refusal is only logged.  Until the
\* read ends, nothing can be said of the memory of the buffer.
Rearm(b) ==
  \/ alive /\ reads' = Append(reads, b) /\ UNCHANGED deaf
     /\ content' = [content EXCEPT ![b] = <<>>]
  \/ (~alive \/ Faults) /\ deaf' = deaf \cup {b} /\ UNCHANGED <<reads, content>>

\* Faulty variants, for the mutation runs: an early return that queues the
\* buffer again; an error that does not.
EarlyReturn_Rearms(c) == IF c.status = "aborted" THEN UNCHANGED <<reads, deaf, content>> ELSE Rearm(c.buf)
AfterError_Silent(b) == UNCHANGED <<reads, deaf, content>>

\* A completion after Stop, or one that says the device is gone.
EarlyReturn(c) ==
  /\ deaf' = IF running /\ c.status = "gone" THEN deaf \cup {c.buf} ELSE deaf
  /\ UNCHANGED <<reads, content>>

IgnoreCompletion ==
  /\ QueueFree /\ done # <<>> /\ (~running \/ Head(done).status \in Ignored)
  /\ done' = Tail(done) /\ EarlyReturn(Head(done))
  /\ UNCHANGED <<running, allocated, stopping, cur, pos, stackVars, alive, sent, starts>>

\* Nothing was received: the buffer is queued again.
AfterError(b) == Rearm(b)
ReadFailed ==
  /\ QueueFree /\ done # <<>> /\ running /\ Head(done).status = "error"
  /\ done' = Tail(done) /\ AfterError(Head(done).buf)
  /\ UNCHANGED <<running, allocated, stopping, cur, pos, stackVars, alive, sent, starts>>

\* processInboundBuffer begins on the memory of the buffer.
ReadSucceeded ==
  /\ QueueFree /\ done # <<>> /\ running /\ Head(done).status = "data"
  /\ done' = Tail(done) /\ cur' = Head(done).buf /\ pos' = 0
  /\ UNCHANGED <<running, allocated, stopping, reads, content, stackVars, alive, sent, starts, deaf>>

----------------------------------------------------------------------------
(***************************************************************************)
(* processInboundBuffer: one action per outcome of a turn of the loop.     *)
(***************************************************************************)
More == cur # NoBuffer /\ pos < Len(content[cur])
Message == content[cur][pos + 1]
LoopOver == cur # NoBuffer /\ (More => Message = Bad)

\* The frame is copied into a packet and the packet queued.
EnqueuePacket ==
  /\ More /\ Message # Bad /\ free > 0 /\ pos' = pos + 1
  /\ free' = free - 1 /\ rxQueue' = Append(rxQueue, Message)
  /\ queued' = Append(queued, Message)
  /\ UNCHANGED <<running, allocated, stopping, usbVars, cur, stack, enqueueRequested, unheard,
                 alive, sent, starts, deaf>>

\* Faulty variants: the packet that was not queued is not released, or released
\* twice; the first frame without a packet ends the loop, or is tried again.
AfterRefusal_Leaks == free' = free - 1
AfterRefusal_Twice == free' = free + 1
AfterDrop_Breaks == pos' = Len(content[cur])
AfterDrop_Retries == UNCHANGED pos

\* EnqueuePacket refuses, and is not asked whether it did; release() gives the
\* packet back to the pool.
AfterRefusal == UNCHANGED free
EnqueueRefused ==
  /\ More /\ Message # Bad /\ free > 0 /\ Faults /\ pos' = pos + 1
  /\ AfterRefusal
  /\ UNCHANGED <<running, allocated, stopping, usbVars, cur, rxQueue, stack, enqueueRequested,
                 queued, unheard, alive, sent, starts, deaf>>

\* allocatePacket fails: the frame is dropped and the loop goes on.
AfterDrop == pos' = pos + 1
DropFrame ==
  /\ More /\ Message # Bad /\ free = 0 /\ AfterDrop
  /\ UNCHANGED <<running, allocated, stopping, usbVars, cur, stackVars, alive, sent, starts, deaf>>

\* A faulty variant: the framework is not told when the parse failed.
RequestEnqueue_OnlyOK ==
  IF pos = Len(content[cur]) THEN enqueueRequested' = TRUE /\ unheard' = FALSE
  ELSE UNCHANGED <<enqueueRequested, unheard>>

\* requestEnqueue; its result is not examined.
RequestEnqueue ==
  \/ enqueueRequested' = TRUE /\ unheard' = FALSE
  \/ Faults /\ unheard' = TRUE /\ UNCHANGED enqueueRequested

\* The loop ends, the framework is told, and the buffer is queued again.
FinishBuffer ==
  /\ LoopOver /\ cur' = NoBuffer /\ pos' = 0
  /\ RequestEnqueue /\ Rearm(cur)
  /\ UNCHANGED <<running, allocated, stopping, done, free, rxQueue, stack, queued, alive, sent,
                 starts>>

----------------------------------------------------------------------------
(***************************************************************************)
(* The device, the controller and the network stack (outside the           *)
(* repository).                                                            *)
(***************************************************************************)
Shapes == UNION {[1 .. n -> BOOLEAN] : n \in 1 .. MaxBatch}

\* The messages of a transfer, good or not as shape says, with its frames
\* numbered on from sent.
FramesIn(shape, i) == Cardinality({j \in 1 .. i : shape[j]})
Batch(shape) == [i \in DOMAIN shape |-> IF shape[i] THEN sent + FramesIn(shape, i) ELSE Bad]

\* A pipe completes its reads in order.
TakeRead(status) ==
  /\ reads # <<>> /\ reads' = Tail(reads)
  /\ done' = Append(done, [buf |-> Head(reads), status |-> status])

ReadData ==
  /\ alive /\ TakeRead("data")
  /\ \E shape \in Shapes :
       /\ sent' = sent + FramesIn(shape, Len(shape)) /\ sent' <= MaxFrames
       /\ content' = [content EXCEPT ![Head(reads)] = Batch(shape)]
  /\ UNCHANGED <<running, allocated, stopping, cur, pos, stackVars, alive, starts, deaf>>

\* A failed transfer, or a device that is or seems to be gone.
ReadFails ==
  /\ \/ alive /\ TakeRead("error")
     \/ (~alive \/ Faults) /\ TakeRead("gone")
  /\ UNCHANGED <<running, allocated, stopping, content, cur, pos, stackVars, alive, sent, starts,
                 deaf>>

\* The framework takes the frames it was told of.
StackFetches ==
  /\ enqueueRequested /\ enqueueRequested' = FALSE
  /\ rxQueue' = <<>> /\ stack' = stack + Len(rxQueue)
  /\ UNCHANGED <<running, allocated, stopping, usbVars, cur, pos, free, queued, unheard, alive,
                 sent, starts, deaf>>

\* The stack takes a packet for a frame to send, or returns one.
StackTakes ==
  /\ free > 0 /\ free' = free - 1 /\ stack' = stack + 1
  /\ UNCHANGED <<running, allocated, stopping, usbVars, cur, pos, rxQueue, enqueueRequested,
                 queued, unheard, alive, sent, starts, deaf>>
StackReturns ==
  /\ stack > 0 /\ stack' = stack - 1 /\ free' = free + 1
  /\ UNCHANGED <<running, allocated, stopping, usbVars, cur, pos, rxQueue, enqueueRequested,
                 queued, unheard, alive, sent, starts, deaf>>

Unplug ==
  /\ alive /\ alive' = FALSE
  /\ UNCHANGED <<running, allocated, stopping, usbVars, cur, pos, stackVars, sent, starts, deaf>>

----------------------------------------------------------------------------
StartStop == Allocate \/ ScheduleInboundReads \/ StartBails \/ StopBegins \/ Release
Dispatch  == IgnoreCompletion \/ ReadFailed \/ ReadSucceeded
ParseLoop == EnqueuePacket \/ EnqueueRefused \/ DropFrame \/ FinishBuffer
Outside   == ReadData \/ ReadFails \/ StackFetches \/ StackTakes \/ StackReturns \/ Unplug

Next == StartStop \/ Dispatch \/ ParseLoop \/ Outside

Spec == Init /\ [][Next]_vars

\* A posted completion is dispatched, the parse loop runs on, and the framework
\* takes what it was told of.  Nothing makes the device send, the stack return
\* packets, or the framework start or stop the driver.
FairSpec == Spec /\ WF_vars(Dispatch) /\ WF_vars(ParseLoop) /\ WF_vars(StackFetches)

----------------------------------------------------------------------------
(***************************************************************************)
(* Properties.                                                             *)
(***************************************************************************)
\* The places a buffer can be: at the controller, in a completion of this
\* session, in the callback; deaf is the fourth.
Outstanding == Range(reads)
Live        == {i \in DOMAIN done : done[i].status # "aborted"}
Posted      == {done[i].buf : i \in Live}
Parsed      == {cur} \ {NoBuffer}

\* While the driver runs, in every session, each IN buffer is in exactly one
\* place, and once: two reads never share its memory, none fills it while it is
\* parsed, and it drops out only when its read was refused or ended as gone.
EachBufferInOnePlace ==
  running =>
    /\ Outstanding \cup Posted \cup Parsed \cup deaf = Buffers
    /\ Outstanding \cap (Posted \cup Parsed \cup deaf) = {}
    /\ Posted \cap (Parsed \cup deaf) = {} /\ Parsed \cap deaf = {}
    /\ \A i, j \in DOMAIN reads : reads[i] = reads[j] => i = j
    /\ \A i, j \in Live : done[i].buf = done[j].buf => i = j

\* A packet is in the pool, in the receive queue or with the stack: frames that
\* are dropped, refused or not parsed leak none.
PacketsConserved == allocated => free + Len(rxQueue) + stack = PoolCapacity

\* Frames never sit in the receive queue of a running driver with nobody told
\* of them, unless the framework would not hear: a parse error does not strand
\* the frames before it.
QueuedFramesAnnounced ==
  running /\ cur = NoBuffer /\ rxQueue # <<>> => enqueueRequested \/ unheard

\* The frames the parser will take from the first messages of a buffer that it
\* has not stepped over yet.
GoodFrames(messages, from) ==
  SubSeq(messages, from + 1,
         Cardinality({i \in DOMAIN messages : \A j \in 1 .. i : messages[j] # Bad}))

Pending ==
  IF ~running THEN <<>>
  ELSE (IF cur = NoBuffer THEN <<>> ELSE GoodFrames(content[cur], pos))
       \o FlattenSeq([i \in DOMAIN done |->
            IF done[i].status = "data" THEN GoodFrames(content[done[i].buf], 0) ELSE <<>>])

\* The receive path implements the flow of frames: in order, each once.
Flow == INSTANCE FrameFlow WITH up <- running, pending <- Pending
ImplementsFlow == Flow!Spec

\* A frame received by a running driver is queued or dropped, and a queued one
\* is taken by the stack, unless the driver is stopped or the framework would
\* not hear.
Inside(f) == f \in Range(Pending) \cup Range(rxQueue)
FramesLeaveDriver ==
  \A f \in Frames : Inside(f) ~> (~Inside(f) \/ ~running \/ unheard)
===========================================================================
