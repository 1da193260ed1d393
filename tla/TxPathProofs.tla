--------------------------- MODULE TxPathProofs ---------------------------
(***************************************************************************)
(* Theorems about the transmit path, for any number of OUT buffers, any    *)
(* frames and any faults: type correctness, and in the first session of a  *)
(* driver object that no buffer is shared or leaked, that no frame is      *)
(* overwritten while it is sent, and that no frame is left behind.         *)
(***************************************************************************)
EXTENDS TxPath, FiniteSetTheorems, SequenceTheorems, TLAPS

(***************************************************************************)
(* Control: what the flags say of each other.                              *)
(***************************************************************************)
Control ==
  /\ running => allocated /\ ~stopping
  /\ stopping => allocated
  /\ offer > 0 => running
  /\ offer <= Len(txQueue)
  /\ ~allocated => numFreeOutBufs = 0 /\ transfers = {}

TypeInv == TypeOK /\ Control

LEMMA BufferFacts ==
  /\ NOutBufs \in Nat /\ NOutBufs > 0
  /\ IsFiniteSet(Buffers) /\ Cardinality(Buffers) = NOutBufs
  /\ Buffers # {}
<1>1. NOutBufs \in Nat /\ NOutBufs > 0
  BY BufsAssumption, SMT
<1>2. IsFiniteSet(Buffers) /\ Cardinality(Buffers) = NOutBufs
  BY <1>1, FS_Interval, SMT DEF Buffers
<1>3. 0 \in Buffers
  BY <1>1, SMT DEF Buffers
<1> QED BY <1>1, <1>2, <1>3

LEMMA HeadFacts ==
  ASSUME TypeInv, offer > 0
  PROVE  /\ Head(txQueue) \in Packets /\ Tail(txQueue) \in Seq(Packets)
         /\ Len(Tail(txQueue)) = Len(txQueue) - 1
         /\ offer - 1 \in Nat /\ offer - 1 <= Len(Tail(txQueue))
<1>1. txQueue \in Seq(Packets) /\ txQueue # <<>> /\ offer \in Nat /\ offer <= Len(txQueue)
  BY LenProperties, SMT DEF TypeInv, TypeOK, Control
<1>2. Len(txQueue) \in Nat
  BY <1>1, LenProperties
<1> QED BY <1>1, <1>2, HeadTailProperties, SMT

LEMMA NextBufferType ==
  ASSUME TypeInv, numFreeOutBufs > 0
  PROVE  numFreeOutBufs - 1 \in Buffers /\ NextBuffer \in Buffers
<1>1. numFreeOutBufs - 1 \in Buffers
  BY BufferFacts, SMT DEF TypeInv, TypeOK, Buffers
<1> QED BY <1>1 DEF TypeInv, TypeOK, NextBuffer

LEMMA PumpType ==
  ASSUME TypeOK, NEW up, NEW free, PumpTxQueue(up, free)
  PROVE  dequeueRequested' \in BOOLEAN /\ refused' \in BOOLEAN
BY DEF TypeOK, PumpTxQueue

LEMMA InitType == Init => TypeInv
<1> SUFFICES ASSUME Init PROVE TypeInv
  OBVIOUS
<1>1. TypeOK
  <2>1. outBufStack \in [Buffers -> Buffers]
    BY DEF Init
  <2>2. content \in [Buffers -> Packets \cup {NoFrame}]
    BY DEF Init
  <2>3. numFreeOutBufs \in 0 .. NOutBufs
    BY BufferFacts, SMT DEF Init
  <2>4. txQueue \in Seq(Packets) /\ offer \in Nat /\ starts \in Nat
    BY SMT DEF Init
  <2> QED BY <2>1, <2>2, <2>3, <2>4, Zenon DEF Init, TypeOK
<1>2. Control
  BY SMT DEF Init, Control
<1> QED BY <1>1, <1>2 DEF TypeInv

LEMMA StartStopType ==
  ASSUME TypeInv, Allocate \/ GoRunning \/ StopBegins \/ Release \/ SetInterfaceEnable
  PROVE  TypeInv'
<1> USE DEF TypeInv
<1>1. CASE Allocate
  <2>1. NOutBufs \in 0 .. NOutBufs /\ starts + 1 \in Nat
    BY BufferFacts, SMT DEF TypeOK
  <2> QED BY <1>1, <2>1 DEF Allocate, QueueFree, TypeOK, Control, usbVars
<1>2. CASE GoRunning
  <2>1. dequeueRequested' \in BOOLEAN /\ refused' \in BOOLEAN
    BY <1>2, PumpType DEF GoRunning
  <2> QED BY <1>2, <2>1 DEF GoRunning, QueueFree, TypeOK, Control, usbVars, poolVars
<1>3. CASE StopBegins
  <2>1. TypeOK'
    BY <1>3 DEF StopBegins, TypeOK, usbVars, poolVars
  <2>2. Control'
    BY <1>3 DEF StopBegins, QueueFree, Control, usbVars, poolVars
  <2> QED BY <2>1, <2>2
<1>4. CASE Release
  <2>1. done' \in SUBSET Completions
    BY <1>4 DEF Release, TypeOK, Transfers, Completions
  <2>2. 0 \in 0 .. NOutBufs /\ <<>> \in Seq(Packets)
    BY BufferFacts, SMT
  <2>3. Len(txQueue') = 0 /\ offer' = 0
    BY <1>4, SMT DEF Release, QueueFree
  <2>4. TypeOK'
    BY <1>4, <2>1, <2>2 DEF Release, TypeOK
  <2>5. ~running'
    BY <1>4 DEF Release, Control
  <2>6. Control'
    BY <1>4, <2>3, <2>5, SMT DEF Release, Control
  <2> QED BY <2>4, <2>6
<1>5. CASE SetInterfaceEnable
  <2>1. dequeueRequested' \in BOOLEAN /\ refused' \in BOOLEAN
    BY <1>5, PumpType DEF SetInterfaceEnable
  <2> QED BY <1>5, <2>1 DEF SetInterfaceEnable, TypeOK, Control, usbVars, poolVars
<1> QED BY <1>1, <1>2, <1>3, <1>4, <1>5

LEMMA DequeueType ==
  ASSUME TypeInv, Dequeue \/ DequeueLoop
  PROVE  TypeInv'
<1> USE DEF TypeInv
<1>0. Len(txQueue) \in Nat
  BY LenProperties DEF TypeOK
<1>1. CASE Dequeue
  <2>1. offer' \in Nat /\ offer' <= Len(txQueue') /\ (offer' > 0 => running)
    BY <1>0, <1>1, SMT DEF Dequeue, AvailableTx
  <2> QED BY <1>1, <2>1 DEF Dequeue, TypeOK, Control, usbVars, poolVars
<1>2. CASE PoolEmpty
  <2>1. offer' = 0 /\ offer' <= Len(txQueue')
    BY <1>0, <1>2, SMT DEF PoolEmpty
  <2> QED BY <1>2, <2>1, SMT DEF PoolEmpty, TypeOK, Control, usbVars, poolVars
<1>3. CASE DropOversize
  BY <1>3, HeadFacts DEF DropOversize, TypeOK, Control, usbVars, poolVars
<1>4. CASE SubmitPacket
  <2>1. offer > 0 /\ running /\ allocated /\ numFreeOutBufs > 0
    BY <1>4 DEF SubmitPacket, CanSubmit, Control
  <2>2. NextBuffer \in Buffers /\ Head(txQueue) \in Packets
    BY <2>1, NextBufferType, HeadFacts
  <2>3. numFreeOutBufs' \in 0 .. NOutBufs
    BY <1>4, <2>1, BufferFacts, SMT DEF SubmitPacket, Pop, TypeOK
  <2>4. transfers' \in SUBSET Transfers
    BY <1>4, <2>2 DEF SubmitPacket, TypeOK, Transfers
  <2>5. content' \in [Buffers -> Packets \cup {NoFrame}]
    BY <1>4, <2>2 DEF SubmitPacket, TypeOK
  <2>6. offer' \in Nat /\ txQueue' \in Seq(Packets) /\ offer' <= Len(txQueue')
    BY <1>4, <2>1, HeadFacts DEF SubmitPacket
  <2> QED BY <1>4, <2>1, <2>3, <2>4, <2>5, <2>6 DEF SubmitPacket, TypeOK, Control
<1>5. CASE SubmitFails
  <2>1. offer > 0 /\ numFreeOutBufs > 0
    BY <1>5 DEF SubmitFails, CanSubmit
  <2>2. NextBuffer \in Buffers /\ Head(txQueue) \in Packets
    BY <2>1, NextBufferType, HeadFacts
  <2>3. outBufStack' \in [Buffers -> Buffers] /\ numFreeOutBufs' = numFreeOutBufs
    BY <1>5, <2>2 DEF SubmitFails, PushBack, TypeOK
  <2>4. content' \in [Buffers -> Packets \cup {NoFrame}]
    BY <1>5, <2>2 DEF SubmitFails, TypeOK
  <2>5. offer' = 0 /\ offer' <= Len(txQueue')
    BY <1>0, <1>5, SMT DEF SubmitFails
  <2> QED BY <1>5, <2>3, <2>4, <2>5, SMT DEF SubmitFails, TypeOK, Control, usbVars
<1> QED BY <1>1, <1>2, <1>3, <1>4, <1>5 DEF DequeueLoop

LEMMA CompletionType ==
  ASSUME TypeInv, NEW c \in done, IgnoreCompletion(c) \/ DataWriteComplete(c)
  PROVE  TypeInv'
<1> USE DEF TypeInv
<1>0. c.buf \in Buffers /\ done \ {c} \in SUBSET Completions
  BY DEF TypeOK, Completions
<1>1. CASE IgnoreCompletion(c)
  BY <1>0, <1>1 DEF IgnoreCompletion, TypeOK, Control, poolVars
<1>2. CASE DataWriteComplete(c)
  <2>1. dequeueRequested' \in BOOLEAN /\ refused' \in BOOLEAN
    BY <1>2, PumpType DEF DataWriteComplete, PumpAfterWrite
  <2>2. outBufStack' \in [Buffers -> Buffers] /\ numFreeOutBufs' \in 0 .. NOutBufs
    <3>1. CASE numFreeOutBufs < NOutBufs
      <4>1. numFreeOutBufs' \in 0 .. NOutBufs
        BY <1>2, <3>1, BufferFacts, SMT DEF DataWriteComplete, ReturnBuffer, TypeOK
      <4>2. outBufStack' = [outBufStack EXCEPT ![numFreeOutBufs] = c.buf]
        BY <1>2, <3>1 DEF DataWriteComplete, ReturnBuffer
      <4> QED BY <1>0, <4>1, <4>2 DEF TypeOK
    <3>2. CASE ~(numFreeOutBufs < NOutBufs)
      BY <1>2, <3>2 DEF DataWriteComplete, ReturnBuffer, TypeOK
    <3> QED BY <3>1, <3>2
  <2>3. TypeOK'
    BY <1>0, <1>2, <2>1, <2>2 DEF DataWriteComplete, TypeOK
  <2>4. Control'
    BY <1>2 DEF DataWriteComplete, Control
  <2> QED BY <2>3, <2>4
<1> QED BY <1>1, <1>2

LEMMA EnvironmentType ==
  ASSUME TypeInv,
         \/ \E p \in Packets : Enqueue(p)
         \/ \E t \in transfers : TransferEnds(t)
         \/ Unplug
  PROVE  TypeInv'
<1> USE DEF TypeInv
<1>1. ASSUME NEW p \in Packets, Enqueue(p) PROVE TypeInv'
  <2>1. /\ Append(txQueue, p) \in Seq(Packets)
        /\ Len(Append(txQueue, p)) = Len(txQueue) + 1 /\ Len(txQueue) \in Nat
    BY LenProperties, AppendProperties DEF TypeOK
  <2>2. offer' <= Len(txQueue')
    BY <1>1, <2>1, SMT DEF Enqueue, TypeOK, Control
  <2>3. TypeOK'
    BY <1>1, <2>1 DEF Enqueue, TypeOK, usbVars, poolVars
  <2>4. Control'
    BY <1>1, <2>2 DEF Enqueue, Control, usbVars, poolVars
  <2> QED BY <2>3, <2>4
<1>2. ASSUME NEW t \in transfers, TransferEnds(t) PROVE TypeInv'
  <2>1. done' \in SUBSET Completions /\ transfers' \in SUBSET Transfers /\ refused' \in BOOLEAN
    BY <1>2 DEF TransferEnds, TypeOK, Transfers, Completions
  <2>2. TypeOK'
    BY <1>2, <2>1 DEF TransferEnds, TypeOK, poolVars
  <2>3. Control'
    BY <1>2 DEF TransferEnds, Control, poolVars
  <2> QED BY <2>2, <2>3
<1>3. CASE Unplug
  BY <1>3 DEF Unplug, TypeOK, Control, usbVars, poolVars
<1> QED BY <1>1, <1>2, <1>3

LEMMA NextType == TypeInv /\ [Next]_vars => TypeInv'
<1> SUFFICES ASSUME TypeInv, [Next]_vars PROVE TypeInv'
  OBVIOUS
<1>1. CASE UNCHANGED vars
  BY <1>1 DEF vars, usbVars, poolVars, TypeInv, TypeOK, Control
<1> QED
  BY <1>1, StartStopType, DequeueType, CompletionType, EnvironmentType DEF Next

\* Every variable keeps its type: numFreeOutBufs stays between 0 and
\* N_OUT_BUFS and every stack entry is the index of a buffer, in every session.
THEOREM TypeCorrect == Spec => []TypeOK
<1>1. Init => TypeInv
  BY InitType
<1>2. TypeInv /\ [Next]_vars => TypeInv'
  BY NextType
<1>3. TypeInv => TypeOK
  BY DEF TypeInv
<1> QED BY <1>1, <1>2, <1>3, PTL DEF Spec
===========================================================================
