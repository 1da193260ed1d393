-------------------------- MODULE TxSessionProofs --------------------------
(***************************************************************************)
(* The first session of a driver object, for any number of OUT buffers,    *)
(* any frames and any faults: no buffer is shared or leaked, no frame is   *)
(* overwritten while it is sent, no frame is left behind, and the stack of *)
(* free buffers implements the buffer pool.                                *)
(*                                                                         *)
(* The argument: the entries below numFreeOutBufs are distinct, and they   *)
(* name the buffers that neither a transfer, nor a completion, nor lost    *)
(* holds.  Then the stack is not full when a completion arrives, so the    *)
(* buffer it gives back is always pushed, and the top of the stack is      *)
(* never in flight.                                                        *)
(***************************************************************************)
EXTENDS TxPathProofs

StackDistinct ==
  \A i, j \in 0 .. numFreeOutBufs - 1 : outBufStack[i] = outBufStack[j] => i = j

\* Every buffer is in exactly one place; while Stop waits for its filter command,
\* in one at most, since completions are ignored.
Partition ==
  /\ FreeBuffers \cap BusyBuffers = {}
  /\ (FreeBuffers \cup BusyBuffers) \cap lost = {}
  /\ ~stopping => FreeBuffers \cup BusyBuffers \cup lost = Buffers

\* One transfer or completion at most per buffer.
BusyOnce ==
  /\ \A t, u \in transfers : t.buf = u.buf => t = u
  /\ \A t \in transfers, c \in done : t.buf # c.buf
  /\ \A c, d \in done : c.buf = d.buf => c = d

\* Before the first GoRunning nothing is under way.
Idle == ~running /\ ~stopping => transfers = {} /\ done = {} /\ lost = {}

Session == StackDistinct /\ Partition /\ BusyOnce /\ Idle /\ TransfersKeepTheirFrames

Fresh == ~allocated /\ outBufStack = [i \in Buffers |-> i] /\ done = {}

SessionInv ==
  /\ starts = 0 => Fresh
  /\ starts <= 1 /\ allocated => Session

\* Until a transfer is cut off nothing is lost.
NothingLost ==
  starts <= 1 /\ running /\ ~refused => lost = {} /\ \A c \in done : c.status = "ok"

\* A dequeue callback that has not been asked for again was offered the whole
\* queue.
OfferWhole == offer > 0 /\ ~dequeueRequested => offer = Len(txQueue)

----------------------------------------------------------------------------
(***************************************************************************)
(* The stack as a set.                                                     *)
(***************************************************************************)
LEMMA StackCount ==
  ASSUME TypeOK, StackDistinct
  PROVE  IsFiniteSet(FreeBuffers) /\ Cardinality(FreeBuffers) = numFreeOutBufs
<1> DEFINE n == numFreeOutBufs
           f == [i \in 0 .. n - 1 |-> outBufStack[i]]
<1>1. n \in Nat
  BY BufferFacts, SMT DEF TypeOK
<1>2. IsFiniteSet(0 .. n - 1) /\ Cardinality(0 .. n - 1) = n
  BY <1>1, FS_Interval, SMT
<1>3. f \in Bijection(0 .. n - 1, FreeBuffers)
  BY DEF StackDistinct, FreeBuffers, Bijection, Injection, Surjection, IsInjective
<1>4. ExistsBijection(0 .. n - 1, FreeBuffers)
  BY <1>3 DEF ExistsBijection
<1> QED BY <1>2, <1>4, FS_Bijection

LEMMA FreeAreBuffers ==
  ASSUME TypeOK
  PROVE  FreeBuffers \subseteq Buffers
<1> SUFFICES ASSUME NEW i \in 0 .. numFreeOutBufs - 1 PROVE outBufStack[i] \in Buffers
  BY DEF FreeBuffers
<1>1. i \in Buffers
  BY BufferFacts, SMT DEF TypeOK, Buffers
<1> QED BY <1>1 DEF TypeOK

LEMMA NoneFree ==
  ASSUME TypeOK
  PROVE  numFreeOutBufs = 0 <=> FreeBuffers = {}
<1>1. ASSUME numFreeOutBufs = 0 PROVE FreeBuffers = {}
  <2>1. 0 .. numFreeOutBufs - 1 = {}
    BY <1>1, SMT
  <2> QED BY <2>1 DEF FreeBuffers
<1>2. ASSUME numFreeOutBufs # 0 PROVE FreeBuffers # {}
  <2>1. 0 \in 0 .. numFreeOutBufs - 1
    BY <1>2, BufferFacts, SMT DEF TypeOK
  <2> QED BY <2>1 DEF FreeBuffers
<1> QED BY <1>1, <1>2

\* A stack that does not hold every buffer has room for one more.
LEMMA NotFull ==
  ASSUME TypeOK, StackDistinct, NEW b \in Buffers, b \notin FreeBuffers
  PROVE  numFreeOutBufs < NOutBufs
<1>1. FreeBuffers \in SUBSET (Buffers \ {b})
  BY FreeAreBuffers
<1>2. IsFiniteSet(Buffers \ {b}) /\ Cardinality(Buffers \ {b}) = NOutBufs - 1
  BY BufferFacts, FS_RemoveElement
<1>3. Cardinality(FreeBuffers) <= NOutBufs - 1
  BY <1>1, <1>2, FS_Subset
<1> QED BY <1>3, StackCount, BufferFacts, SMT DEF TypeOK

\* Taking the top entry removes exactly that buffer.
LEMMA PopStack ==
  ASSUME TypeOK, StackDistinct, numFreeOutBufs > 0,
         Pop, UNCHANGED outBufStack
  PROVE  /\ NextBuffer \in FreeBuffers
         /\ FreeBuffers' = FreeBuffers \ {NextBuffer}
         /\ StackDistinct'
<1> DEFINE n == numFreeOutBufs
<1>1. n \in Nat /\ n > 0 /\ n' = n - 1
  BY BufferFacts, SMT DEF TypeOK, Pop
<1>2. 0 .. n' - 1 = (0 .. n - 1) \ {n - 1} /\ n - 1 \in 0 .. n - 1
  BY <1>1, SMT
<1>3. NextBuffer \in FreeBuffers
  BY <1>2 DEF FreeBuffers, NextBuffer
<1>4. FreeBuffers' = {outBufStack[i] : i \in (0 .. n - 1) \ {n - 1}}
  BY <1>2 DEF FreeBuffers
<1>5. \A i \in 0 .. n - 1 : outBufStack[i] = NextBuffer <=> i = n - 1
  BY <1>2 DEF StackDistinct, NextBuffer
<1>6. FreeBuffers' = FreeBuffers \ {NextBuffer}
  BY <1>4, <1>5 DEF FreeBuffers
<1>7. StackDistinct'
  BY <1>2 DEF StackDistinct
<1> QED BY <1>3, <1>6, <1>7

\* Returning a buffer that is not on the stack adds exactly that buffer.
LEMMA PushStack ==
  ASSUME TypeOK, StackDistinct, NEW b \in Buffers, b \notin FreeBuffers, ReturnBuffer(b)
  PROVE  /\ FreeBuffers' = FreeBuffers \cup {b}
         /\ StackDistinct'
         /\ numFreeOutBufs' > 0
<1> DEFINE n == numFreeOutBufs
<1>1. n \in Nat /\ n < NOutBufs
  BY NotFull, BufferFacts, SMT DEF TypeOK
<1>2. n' = n + 1 /\ outBufStack' = [outBufStack EXCEPT ![n] = b]
  BY <1>1 DEF ReturnBuffer
<1>3. n' > 0 /\ 0 .. n' - 1 = (0 .. n - 1) \cup {n} /\ n \notin 0 .. n - 1
  BY <1>1, <1>2, SMT
<1>4. n \in Buffers /\ 0 .. n - 1 \subseteq Buffers
  BY <1>1, BufferFacts, SMT DEF Buffers
<1>5. outBufStack'[n] = b /\ \A i \in 0 .. n - 1 : outBufStack'[i] = outBufStack[i]
  BY <1>2, <1>3, <1>4 DEF TypeOK
<1>6. FreeBuffers' = {outBufStack'[i] : i \in (0 .. n - 1) \cup {n}}
  BY <1>3 DEF FreeBuffers
<1>7. FreeBuffers' = FreeBuffers \cup {b}
  BY <1>5, <1>6 DEF FreeBuffers
<1>8. \A i \in 0 .. n - 1 : outBufStack[i] # b
  BY DEF FreeBuffers
<1>9. StackDistinct'
  BY <1>3, <1>5, <1>8 DEF StackDistinct
<1> QED BY <1>3, <1>7, <1>9

----------------------------------------------------------------------------
(***************************************************************************)
(* Every step keeps SessionInv.                                            *)
(***************************************************************************)
\* A step that touches neither the pool nor a transfer.
LEMMA SessionFrame ==
  ASSUME SessionInv, UNCHANGED <<allocated, poolVars, usbVars, starts, lost>>,
         running => running' \/ stopping', stopping => stopping'
  PROVE  SessionInv'
<1> USE DEF poolVars, usbVars
<1>1. starts' = 0 => Fresh'
  BY DEF SessionInv, Fresh
<1>2. ASSUME Session PROVE Session'
  <2>1. FreeBuffers' = FreeBuffers /\ BusyBuffers' = BusyBuffers /\ StackDistinct'
    BY <1>2 DEF Session, FreeBuffers, BusyBuffers, StackDistinct
  <2>2. BusyOnce' /\ Idle' /\ TransfersKeepTheirFrames'
    BY <1>2 DEF Session, BusyOnce, Idle, TransfersKeepTheirFrames
  <2> QED BY <1>2, <2>1, <2>2 DEF Session, Partition
<1> QED BY <1>1, <1>2 DEF SessionInv

\* In the first session the stack still counts from 0, so a full count names
\* every buffer once.
LEMMA AllocateSession ==
  ASSUME TypeInv, SessionInv, Allocate
  PROVE  SessionInv'
<1>1. starts \in Nat /\ starts' = starts + 1 /\ allocated'
  BY DEF TypeInv, TypeOK, Allocate
<1>2. SUFFICES ASSUME starts' <= 1 PROVE Session'
  BY <1>1, SMT DEF SessionInv
<1>3. starts = 0 /\ Fresh
  BY <1>1, <1>2, SMT DEF SessionInv
<1>4. transfers = {} /\ done = {} /\ lost' = {} /\ BusyBuffers' = {} /\ transfers' = {} /\ done' = {}
  BY <1>3 DEF Allocate, TypeInv, Control, Fresh, usbVars, BusyBuffers
<1>5. outBufStack' = [i \in Buffers |-> i] /\ numFreeOutBufs' = NOutBufs
  BY <1>3 DEF Allocate, Fresh
<1>6. 0 .. numFreeOutBufs' - 1 = Buffers
  BY <1>5 DEF Buffers
<1>7. FreeBuffers' = Buffers /\ StackDistinct'
  BY <1>5, <1>6 DEF FreeBuffers, StackDistinct
<1>8. Partition' /\ BusyOnce' /\ Idle' /\ TransfersKeepTheirFrames'
  BY <1>4, <1>7 DEF Partition, BusyOnce, Idle, TransfersKeepTheirFrames
<1> QED BY <1>7, <1>8 DEF Session

LEMMA ReleaseSession ==
  ASSUME TypeInv, SessionInv, Release
  PROVE  SessionInv'
<1>1. allocated /\ ~allocated' /\ starts' = starts
  BY DEF Release, TypeInv, Control
<1>2. starts # 0
  BY <1>1 DEF SessionInv, Fresh
<1> QED BY <1>1, <1>2 DEF SessionInv

LEMMA SubmitSession ==
  ASSUME TypeInv, SessionInv, SubmitPacket
  PROVE  SessionInv'
<1> DEFINE b == NextBuffer
           x == [buf |-> b, pkt |-> Head(txQueue)]
<1>1. /\ offer > 0 /\ running /\ running' /\ allocated /\ allocated' /\ numFreeOutBufs > 0
      /\ starts' = starts
  BY DEF SubmitPacket, CanSubmit, TypeInv, Control
<1>2. SUFFICES ASSUME starts <= 1, Session PROVE Session'
  BY <1>1 DEF SessionInv, Fresh
<1>3. TypeOK /\ StackDistinct
  BY <1>2 DEF TypeInv, Session
<1>4. b \in FreeBuffers /\ FreeBuffers' = FreeBuffers \ {b} /\ StackDistinct'
  BY <1>1, <1>3, PopStack DEF SubmitPacket
<1>5. /\ transfers' = transfers \cup {x} /\ done' = done /\ lost' = lost
      /\ stopping' = stopping
  BY DEF SubmitPacket
<1>6. BusyBuffers' = BusyBuffers \cup {b}
  <2>1. x.buf = b
    OBVIOUS
  <2> HIDE DEF x, b
  <2>2. (transfers \cup done)' = (transfers \cup done) \cup {x}
    BY <1>5
  <2> QED BY <2>1, <2>2 DEF BusyBuffers
<1>7. Partition'
  BY <1>2, <1>4, <1>5, <1>6 DEF Session, Partition
<1>8. (\A t \in transfers : t.buf # b) /\ (\A c \in done : c.buf # b)
  BY <1>2, <1>4 DEF Session, Partition, BusyBuffers
<1>9. BusyOnce'
  BY <1>2, <1>5, <1>8 DEF Session, BusyOnce
<1>10. TransfersKeepTheirFrames'
  <2>1. content' = [content EXCEPT ![b] = Head(txQueue)]
    BY DEF SubmitPacket
  <2>2. b \in Buffers
    BY <1>1, NextBufferType
  <2>3. \A t \in transfers : t.buf \in Buffers /\ content'[t.buf] = content[t.buf]
    BY <1>8, <2>1, <2>2 DEF TypeInv, TypeOK, Transfers
  <2>4. content'[b] = Head(txQueue)
    BY <2>1, <2>2 DEF TypeInv, TypeOK
  <2> QED BY <1>2, <1>5, <2>3, <2>4 DEF Session, TransfersKeepTheirFrames
<1> QED BY <1>1, <1>4, <1>7, <1>9, <1>10 DEF Session, Idle

LEMMA SubmitFailsSession ==
  ASSUME TypeInv, SessionInv, SubmitFails
  PROVE  SessionInv'
<1> DEFINE b == NextBuffer
<1>1. /\ offer > 0 /\ running /\ running' /\ allocated /\ allocated' /\ numFreeOutBufs > 0
      /\ starts' = starts
  BY DEF SubmitFails, CanSubmit, TypeInv, Control
<1>2. SUFFICES ASSUME starts <= 1, Session PROVE Session'
  BY <1>1 DEF SessionInv, Fresh
<1>3. b \in Buffers /\ numFreeOutBufs - 1 \in Buffers
  BY <1>1, NextBufferType
<1>4. outBufStack' = outBufStack /\ numFreeOutBufs' = numFreeOutBufs
  BY <1>3 DEF SubmitFails, PushBack, NextBuffer, TypeInv, TypeOK
<1>5. transfers' = transfers /\ done' = done /\ lost' = lost /\ stopping' = stopping
  BY DEF SubmitFails, usbVars
<1>6. FreeBuffers' = FreeBuffers /\ BusyBuffers' = BusyBuffers /\ StackDistinct'
  BY <1>2, <1>4, <1>5 DEF Session, FreeBuffers, BusyBuffers, StackDistinct
<1>7. Partition' /\ BusyOnce'
  BY <1>2, <1>5, <1>6 DEF Session, Partition, BusyOnce
<1>8. b \in FreeBuffers
  <2>1. numFreeOutBufs - 1 \in 0 .. numFreeOutBufs - 1
    BY <1>1, BufferFacts, SMT DEF TypeInv, TypeOK
  <2> QED BY <2>1 DEF FreeBuffers, NextBuffer
<1>9. TransfersKeepTheirFrames'
  <2>1. content' = [content EXCEPT ![b] = Head(txQueue)]
    BY DEF SubmitFails
  <2>2. \A t \in transfers : t.buf \in Buffers /\ t.buf # b
    BY <1>2, <1>8 DEF TypeInv, TypeOK, Transfers, Session, Partition, BusyBuffers
  <2>3. \A t \in transfers : content'[t.buf] = content[t.buf]
    BY <2>1, <2>2 DEF TypeInv, TypeOK
  <2> QED BY <1>2, <1>5, <2>3 DEF Session, TransfersKeepTheirFrames
<1> QED BY <1>1, <1>6, <1>7, <1>9 DEF Session, Idle

\* A completion leaves done: its buffer is no longer busy, and no other
\* completion or transfer holds it.
LEMMA CompletionLeaves ==
  ASSUME BusyOnce, NEW c \in done, done' = done \ {c}, transfers' = transfers
  PROVE  BusyBuffers' = BusyBuffers \ {c.buf} /\ BusyOnce' /\ c.buf \in BusyBuffers
<1>1. \A t \in transfers : t.buf # c.buf
  BY DEF BusyOnce
<1>2. \A d \in done : d.buf = c.buf => d = c
  BY DEF BusyOnce
<1>3. BusyBuffers' = BusyBuffers \ {c.buf}
  BY <1>1, <1>2 DEF BusyBuffers
<1>4. BusyOnce'
  BY DEF BusyOnce
<1> QED BY <1>3, <1>4 DEF BusyBuffers

LEMMA IgnoreSession ==
  ASSUME TypeInv, SessionInv, NEW c \in done, IgnoreCompletion(c)
  PROVE  SessionInv'
<1>1. /\ starts' = starts /\ allocated' = allocated /\ running' = running
      /\ numFreeOutBufs' = numFreeOutBufs /\ outBufStack' = outBufStack /\ content' = content
      /\ done' = done \ {c} /\ transfers' = transfers
  BY DEF IgnoreCompletion, poolVars
<1>2. starts # 0
  BY DEF SessionInv, Fresh
<1>3. SUFFICES ASSUME allocated, starts <= 1, Session PROVE Session'
  BY <1>1, <1>2 DEF SessionInv
<1>4. /\ stopping' = stopping /\ (running \/ stopping)
      /\ lost' = IF running THEN lost \cup {c.buf} ELSE lost
  BY <1>3 DEF Session, Idle, IgnoreCompletion
<1>5. BusyOnce
  BY <1>3 DEF Session
<1>6. BusyBuffers' = BusyBuffers \ {c.buf} /\ BusyOnce' /\ c.buf \in BusyBuffers
  BY <1>1, <1>5, CompletionLeaves
<1>7. FreeBuffers' = FreeBuffers /\ StackDistinct' /\ TransfersKeepTheirFrames'
  BY <1>1, <1>3 DEF Session, FreeBuffers, StackDistinct, TransfersKeepTheirFrames
<1>8. Partition'
  BY <1>3, <1>4, <1>6, <1>7 DEF Session, Partition
<1> QED BY <1>1, <1>4, <1>6, <1>7, <1>8 DEF Session, Idle

LEMMA WriteSession ==
  ASSUME TypeInv, SessionInv, NEW c \in done, DataWriteComplete(c)
  PROVE  SessionInv'
<1>1. /\ starts' = starts /\ allocated' = allocated /\ running /\ running' /\ lost' = lost
      /\ content' = content /\ done' = done \ {c} /\ transfers' = transfers
      /\ ReturnBuffer(c.buf)
  BY DEF DataWriteComplete
<1>2. starts # 0 /\ allocated
  BY <1>1 DEF SessionInv, Fresh, TypeInv, Control
<1>3. SUFFICES ASSUME starts <= 1, Session PROVE Session'
  BY <1>1, <1>2 DEF SessionInv
<1>4. TypeOK /\ StackDistinct /\ BusyOnce /\ Partition
  BY <1>3 DEF TypeInv, Session
<1>5. BusyBuffers' = BusyBuffers \ {c.buf} /\ BusyOnce' /\ c.buf \in BusyBuffers
  BY <1>1, <1>4, CompletionLeaves
<1>6. c.buf \in Buffers /\ c.buf \notin FreeBuffers /\ ~stopping
  BY <1>1, <1>4, <1>5 DEF Partition, TypeInv, TypeOK, Control, Completions
<1>7. FreeBuffers' = FreeBuffers \cup {c.buf} /\ StackDistinct'
  BY <1>1, <1>4, <1>6, PushStack
<1>8. Partition'
  BY <1>1, <1>4, <1>5, <1>6, <1>7 DEF Partition
<1>9. TransfersKeepTheirFrames'
  BY <1>1, <1>3 DEF Session, TransfersKeepTheirFrames
<1> QED BY <1>1, <1>5, <1>7, <1>8, <1>9 DEF Session, Idle

LEMMA TransferEndsSession ==
  ASSUME TypeInv, SessionInv, NEW t \in transfers, TransferEnds(t)
  PROVE  SessionInv'
<1>1. PICK s \in {"ok", "gone"} : done' = done \cup {[buf |-> t.buf, pkt |-> t.pkt, status |-> s]}
  BY DEF TransferEnds
<1>2. /\ starts' = starts /\ allocated' = allocated /\ running' = running /\ lost' = lost
      /\ numFreeOutBufs' = numFreeOutBufs /\ outBufStack' = outBufStack /\ content' = content
      /\ transfers' = transfers \ {t}
  BY DEF TransferEnds, poolVars
<1>3. allocated /\ starts # 0
  BY DEF TypeInv, Control, SessionInv, Fresh
<1>4. SUFFICES ASSUME starts <= 1, Session PROVE Session'
  BY <1>2, <1>3 DEF SessionInv
<1>5. (running \/ stopping) /\ stopping' = stopping
  BY <1>4 DEF Session, Idle, TransferEnds
<1>6. BusyBuffers' = BusyBuffers
  <2> DEFINE x == [buf |-> t.buf, pkt |-> t.pkt, status |-> s]
  <2>1. x.buf = t.buf /\ x \in done'
    BY <1>1
  <2>2. (transfers \cup done)' = ((transfers \ {t}) \cup done) \cup {x}
    BY <1>1, <1>2
  <2> HIDE DEF x
  <2>3. BusyBuffers \subseteq BusyBuffers'
    BY <2>1, <2>2 DEF BusyBuffers
  <2>4. BusyBuffers' \subseteq BusyBuffers
    BY <2>1, <2>2 DEF BusyBuffers
  <2> QED BY <2>3, <2>4
<1>7. BusyOnce'
  BY <1>1, <1>2, <1>4 DEF Session, BusyOnce
<1>8. FreeBuffers' = FreeBuffers /\ StackDistinct' /\ TransfersKeepTheirFrames'
  BY <1>2, <1>4 DEF Session, FreeBuffers, StackDistinct, TransfersKeepTheirFrames
<1>9. Partition'
  BY <1>2, <1>4, <1>5, <1>6, <1>8 DEF Session, Partition
<1> QED BY <1>2, <1>5, <1>7, <1>8, <1>9 DEF Session, Idle

LEMMA SessionStep == TypeInv /\ SessionInv /\ [Next]_vars => SessionInv'
<1> SUFFICES ASSUME TypeInv, SessionInv, [Next]_vars PROVE SessionInv'
  OBVIOUS
<1>1. CASE UNCHANGED vars
  BY <1>1, SessionFrame DEF vars
<1>2. CASE \/ GoRunning \/ StopBegins \/ SetInterfaceEnable \/ Dequeue \/ PoolEmpty
           \/ DropOversize \/ Unplug
  <2>1. UNCHANGED <<allocated, poolVars, usbVars, starts, lost>>
    BY <1>2, Zenon
    DEF GoRunning, StopBegins, SetInterfaceEnable, Dequeue, PoolEmpty, DropOversize, Unplug
  <2>2. (running => running' \/ stopping') /\ (stopping => stopping')
    <3>1. CASE StopBegins
      BY <3>1, Zenon DEF StopBegins
    <3>2. CASE GoRunning
      BY <3>2, Zenon DEF GoRunning
    <3>3. CASE ~StopBegins /\ ~GoRunning
      <4>1. running' = running /\ stopping' = stopping
        BY <1>2, <3>3, Zenon
        DEF SetInterfaceEnable, Dequeue, PoolEmpty, DropOversize, Unplug
      <4> QED BY <4>1
    <3> QED BY <3>1, <3>2, <3>3
  <2> QED BY <2>1, <2>2, SessionFrame
<1>3. ASSUME NEW p \in Packets, Enqueue(p) PROVE SessionInv'
  BY <1>3, SessionFrame DEF Enqueue
<1> QED
  BY <1>1, <1>2, <1>3, AllocateSession, ReleaseSession, SubmitSession, SubmitFailsSession,
     IgnoreSession, WriteSession, TransferEndsSession DEF Next, DequeueLoop

LEMMA SessionInvariant == Spec => [](TypeInv /\ SessionInv)
<1>1. Init => TypeInv /\ SessionInv
  BY InitType DEF Init, SessionInv, Fresh
<1>2. TypeInv /\ SessionInv /\ [Next]_vars => (TypeInv /\ SessionInv)'
  BY NextType, SessionStep
<1> QED BY <1>1, <1>2, PTL DEF Spec

\* In the first session of a driver object, while it runs, every OUT buffer is
\* exactly one of free (once on outBufStack), in use or lost: the pool of
\* consumeTxPackets and DataWriteComplete_Impl leaks and duplicates nothing.
THEOREM BuffersAlwaysConserved == Spec => []BuffersConserved
<1>1. TypeInv /\ SessionInv => BuffersConserved
  <2> SUFFICES ASSUME TypeInv, SessionInv, starts <= 1, running
               PROVE  Session /\ TypeOK /\ ~stopping
    BY StackCount DEF Session, Partition, BuffersConserved
  <2> QED BY DEF TypeInv, Control, SessionInv
<1> QED BY <1>1, SessionInvariant, PTL

\* In the first session no frame is copied over one the controller still sends.
THEOREM FirstSessionAlwaysKeepsFrames == Spec => []FirstSessionKeepsFrames
<1>1. TypeInv /\ SessionInv => FirstSessionKeepsFrames
  <2> SUFFICES ASSUME TypeInv, SessionInv, starts <= 1 PROVE TransfersKeepTheirFrames
    BY DEF FirstSessionKeepsFrames
  <2>1. CASE allocated
    BY <2>1 DEF SessionInv, Session
  <2>2. CASE ~allocated
    BY <2>2 DEF TypeInv, Control, TransfersKeepTheirFrames
  <2> QED BY <2>1, <2>2
<1> QED BY <1>1, SessionInvariant, PTL

----------------------------------------------------------------------------
(***************************************************************************)
(* No frame is left behind.                                                *)
(***************************************************************************)
\* A running first session that lost nothing has a free buffer or a busy one.
LEMMA FreeOrBusy ==
  ASSUME TypeInv, SessionInv, starts <= 1, running, lost = {}
  PROVE  numFreeOutBufs > 0 \/ transfers \cup done # {}
<1>1. TypeOK /\ Partition /\ ~stopping
  BY DEF TypeInv, Control, SessionInv, Session
<1>2. SUFFICES ASSUME numFreeOutBufs = 0 PROVE transfers \cup done # {}
  BY <1>1, BufferFacts, SMT DEF TypeOK
<1>3. FreeBuffers = {}
  BY <1>1, <1>2, NoneFree
<1>4. Buffers # {}
  BY BufferFacts
<1> QED BY <1>1, <1>3, <1>4 DEF Partition, BusyBuffers

LEMMA PumpKeepsRequest ==
  ASSUME NEW up, NEW free, PumpTxQueue(up, free), dequeueRequested = TRUE
  PROVE  dequeueRequested' = TRUE
BY DEF PumpTxQueue

LEMMA PumpRequests ==
  ASSUME NEW up, NEW free, PumpTxQueue(up, free), up, allocated, free > 0, ~refused'
  PROVE  dequeueRequested' = TRUE
BY DEF PumpTxQueue

LEMMA OfferStep == TypeInv /\ OfferWhole /\ [Next]_vars => OfferWhole'
<1> SUFFICES ASSUME TypeInv, OfferWhole, [Next]_vars PROVE OfferWhole'
  OBVIOUS
<1> USE DEF OfferWhole
<1>1. CASE UNCHANGED vars
  BY <1>1 DEF vars
<1>2. CASE Allocate \/ GoRunning \/ StopBegins \/ Release \/ SetInterfaceEnable
  <2>1. offer' = 0
    BY <1>2 DEF Allocate, GoRunning, StopBegins, Release, SetInterfaceEnable, QueueFree
  <2> QED BY <2>1, SMT
<1>3. CASE Dequeue
  BY <1>3, SMT DEF Dequeue
<1>4. CASE PoolEmpty \/ SubmitFails
  <2>1. offer' = 0
    BY <1>4 DEF PoolEmpty, SubmitFails
  <2> QED BY <2>1, SMT
<1>5. CASE DropOversize \/ SubmitPacket
  <2>1. offer > 0 /\ offer' = offer - 1 /\ txQueue' = Tail(txQueue)
    BY <1>5 DEF DropOversize, SubmitPacket, CanSubmit
  <2>2. dequeueRequested' = dequeueRequested
    BY <1>5 DEF DropOversize, SubmitPacket
  <2>3. Len(txQueue') = Len(txQueue) - 1
    BY <2>1, HeadFacts
  <2> QED BY <2>1, <2>2, <2>3
<1>6. ASSUME NEW c \in done, IgnoreCompletion(c) \/ DataWriteComplete(c) PROVE OfferWhole'
  <2>1. offer' = 0
    BY <1>6 DEF IgnoreCompletion, DataWriteComplete, QueueFree
  <2> QED BY <2>1, SMT
<1>7. ASSUME NEW p \in Packets, Enqueue(p) PROVE OfferWhole'
  BY <1>7 DEF Enqueue
<1>8. ASSUME NEW t \in transfers, TransferEnds(t) PROVE OfferWhole'
  BY <1>8 DEF TransferEnds
<1>9. CASE Unplug
  BY <1>9 DEF Unplug
<1> QED BY <1>1, <1>2, <1>3, <1>4, <1>5, <1>6, <1>7, <1>8, <1>9 DEF Next, DequeueLoop

LEMMA NothingLostStep ==
  TypeInv /\ SessionInv /\ NothingLost /\ [Next]_vars => NothingLost'
<1> SUFFICES ASSUME TypeInv, SessionInv, NothingLost, [Next]_vars,
                    starts' <= 1, running', ~refused'
             PROVE  lost' = {} /\ \A c \in done' : c.status = "ok"
  BY DEF NothingLost
<1> DEFINE Good == lost = {} /\ \A c \in done : c.status = "ok"
<1>1. CASE UNCHANGED vars
  BY <1>1 DEF NothingLost, vars, usbVars
<1>2. CASE Allocate \/ StopBegins \/ Release \/ Unplug
  BY <1>2 DEF Allocate, StopBegins, Release, Unplug, TypeInv, Control, NothingLost, poolVars, usbVars
<1>3. CASE GoRunning
  <2>1. Session
    BY <1>3 DEF GoRunning, SessionInv
  <2> QED BY <1>3, <2>1 DEF GoRunning, Session, Idle, usbVars
<1>4. CASE SetInterfaceEnable \/ Dequeue \/ DequeueLoop
  <2>1. UNCHANGED <<running, starts, lost, done>>
    BY <1>4, Zenon DEF SetInterfaceEnable, Dequeue, DequeueLoop, PoolEmpty, DropOversize, SubmitPacket,
                 SubmitFails, usbVars
  <2>2. ~refused
    BY <1>4, Zenon DEF SetInterfaceEnable, PumpTxQueue, Dequeue, DequeueLoop, PoolEmpty, DropOversize,
                 SubmitPacket, SubmitFails
  <2> QED BY <2>1, <2>2 DEF NothingLost
<1>5. ASSUME NEW c \in done, IgnoreCompletion(c) PROVE Good'
  BY <1>5 DEF IgnoreCompletion, NothingLost
<1>6. ASSUME NEW c \in done, DataWriteComplete(c) PROVE Good'
  BY <1>6 DEF DataWriteComplete, PumpAfterWrite, PumpTxQueue, NothingLost
<1>7. ASSUME NEW p \in Packets, Enqueue(p) PROVE Good'
  BY <1>7 DEF Enqueue, NothingLost, usbVars
<1>8. ASSUME NEW t \in transfers, TransferEnds(t) PROVE Good'
  <2>1. Good /\ lost' = lost
    BY <1>8 DEF TransferEnds, NothingLost
  <2>2. PICK s \in {"ok", "gone"} :
          /\ refused' = (refused \/ s = "gone")
          /\ done' = done \cup {[buf |-> t.buf, pkt |-> t.pkt, status |-> s]}
    BY <1>8 DEF TransferEnds
  <2>3. s = "ok"
    BY <2>1, <2>2
  <2> QED BY <2>1, <2>2, <2>3
<1> QED BY <1>1, <1>2, <1>3, <1>4, <1>5, <1>6, <1>7, <1>8 DEF Next

LEMMA NotStrandedStep ==
  ASSUME TypeInv, SessionInv, NothingLost, OfferWhole, NotStranded, [Next]_vars
  PROVE  NotStranded'
<1> DEFINE Attended == dequeueRequested \/ offer > 0 \/ transfers \cup done # {}
<1> SUFFICES ASSUME starts' <= 1, running', ~refused', txQueue' # <<>>
             PROVE  Attended'
  BY DEF NotStranded
<1>1. CASE UNCHANGED vars
  BY <1>1 DEF NotStranded, vars, usbVars
<1>2. CASE Allocate \/ StopBegins \/ Release \/ Unplug
  BY <1>2 DEF Allocate, StopBegins, Release, Unplug, TypeInv, Control, NotStranded, poolVars, usbVars
<1>3. CASE GoRunning
  <2>1. Session /\ TypeOK /\ allocated
    BY <1>3 DEF GoRunning, SessionInv, TypeInv
  <2>2. FreeBuffers = Buffers
    BY <1>3, <2>1 DEF GoRunning, Session, Idle, Partition, BusyBuffers
  <2>3. numFreeOutBufs > 0
    <3>1. numFreeOutBufs # 0
      BY <2>1, <2>2, NoneFree, BufferFacts
    <3> QED BY <2>1, <3>1, SMT DEF TypeOK
  <2>4. PumpTxQueue(TRUE, numFreeOutBufs)
    BY <1>3 DEF GoRunning
  <2> QED BY <2>1, <2>3, <2>4, PumpRequests
<1>4. CASE SetInterfaceEnable
  <2>1. UNCHANGED <<running, txQueue, offer, transfers, done, starts>> /\ ~refused
    BY <1>4 DEF SetInterfaceEnable, PumpTxQueue, usbVars
  <2>2. dequeueRequested = TRUE => dequeueRequested' = TRUE
    BY <1>4, PumpKeepsRequest DEF SetInterfaceEnable
  <2> QED BY <2>1, <2>2 DEF NotStranded, TypeInv, TypeOK
<1>5. CASE Dequeue
  <2>1. running /\ ~refused /\ starts <= 1 /\ txQueue # <<>> /\ UNCHANGED <<transfers, done>>
    BY <1>5 DEF Dequeue, usbVars
  <2>2. CASE numFreeOutBufs > 0
    <3>1. Len(txQueue) > 0 /\ offer' = Len(txQueue)
      BY <1>5, <2>1, <2>2, LenProperties DEF Dequeue, AvailableTx, TypeInv, TypeOK
    <3> QED BY <3>1
  <2>3. CASE ~(numFreeOutBufs > 0)
    BY <2>1, <2>3, FreeOrBusy DEF NothingLost
  <2> QED BY <2>2, <2>3
<1>6. CASE PoolEmpty
  <2>1. running /\ ~refused /\ starts <= 1 /\ UNCHANGED <<transfers, done>>
    BY <1>6 DEF PoolEmpty, usbVars
  <2>2. ~(numFreeOutBufs > 0)
    BY <1>6, SMT DEF PoolEmpty
  <2> QED BY <2>1, <2>2, FreeOrBusy DEF NothingLost
<1>7. CASE DropOversize
  <2>1. /\ offer > 0 /\ offer' = offer - 1 /\ txQueue' = Tail(txQueue)
        /\ UNCHANGED <<dequeueRequested, transfers, done>>
    BY <1>7 DEF DropOversize, usbVars
  <2>2. Len(txQueue') = Len(txQueue) - 1 /\ txQueue' \in Seq(Packets)
    BY <2>1, HeadFacts
  <2>3. Len(txQueue') > 0
    BY <2>2, LenProperties
  <2> QED BY <2>1, <2>2, <2>3 DEF OfferWhole
<1>8. CASE SubmitPacket
  BY <1>8 DEF SubmitPacket
<1>9. CASE SubmitFails
  BY <1>9 DEF SubmitFails
<1>10. ASSUME NEW c \in done, IgnoreCompletion(c) PROVE Attended'
  BY <1>10 DEF IgnoreCompletion, NothingLost
<1>11. ASSUME NEW c \in done, DataWriteComplete(c) PROVE Attended'
  <2>1. running /\ allocated /\ ReturnBuffer(c.buf) /\ PumpTxQueue(running, numFreeOutBufs')
    BY <1>11 DEF DataWriteComplete, PumpAfterWrite, TypeInv, Control
  <2>2. numFreeOutBufs' > 0
    BY <2>1, BufferFacts, SMT DEF ReturnBuffer, TypeInv, TypeOK
  <2> QED BY <2>1, <2>2, PumpRequests
<1>12. ASSUME NEW p \in Packets, Enqueue(p) PROVE Attended'
  BY <1>12 DEF Enqueue
<1>13. ASSUME NEW t \in transfers, TransferEnds(t) PROVE Attended'
  BY <1>13 DEF TransferEnds
<1> QED
  BY <1>1, <1>2, <1>3, <1>4, <1>5, <1>6, <1>7, <1>8, <1>9, <1>10, <1>11, <1>12, <1>13
  DEF Next, DequeueLoop

\* Until a request is refused or a transfer cut off, a first session that runs
\* never leaves frames in the submission queue with nobody due to fetch them.
THEOREM NeverStranded == Spec => []NotStranded
<1>1. Init => NothingLost /\ OfferWhole /\ NotStranded
  BY SMT DEF Init, NothingLost, OfferWhole, NotStranded
<1>2. /\ TypeInv /\ SessionInv /\ NothingLost /\ OfferWhole /\ NotStranded /\ [Next]_vars
      => (NothingLost /\ OfferWhole /\ NotStranded)'
  BY OfferStep, NothingLostStep, NotStrandedStep
<1> QED BY <1>1, <1>2, SessionInvariant, PTL DEF Spec

----------------------------------------------------------------------------
(***************************************************************************)
(* The refinement.                                                         *)
(***************************************************************************)
FirstSession == starts <= 1

LEMMA StartsGrow ==
  ASSUME TypeInv, [Next]_vars, FirstSession'
  PROVE  FirstSession
<1> USE DEF FirstSession
<1>1. CASE Allocate
  BY <1>1, SMT DEF Allocate, TypeInv, TypeOK
<1>2. starts' = starts \/ Allocate
  BY Zenon DEF Next, vars, GoRunning, StopBegins, Release, SetInterfaceEnable, Dequeue,
         DequeueLoop, PoolEmpty, DropOversize, SubmitPacket, SubmitFails, IgnoreCompletion, DataWriteComplete, Enqueue, TransferEnds,
         Unplug
<1> QED BY <1>1, <1>2

\* What the pool sees of a step that touches neither it nor a transfer.
LEMMA PoolStutters ==
  ASSUME UNCHANGED <<allocated, poolVars, usbVars, starts>>
  PROVE  UNCHANGED Pool!vars
<1>1. FreeBuffers' = FreeBuffers /\ BusyBuffers' = BusyBuffers
  BY DEF poolVars, usbVars, FreeBuffers, BusyBuffers
<1> QED BY <1>1 DEF Pool!vars

LEMMA FirstPoolStep ==
  ASSUME TypeInv, SessionInv, FirstSession, [Next]_vars, SessionInv', FirstSession'
  PROVE  [Pool!Next]_(Pool!vars)
<1> USE DEF FirstSession
<1>1. CASE UNCHANGED vars
  BY <1>1, PoolStutters DEF vars
<1>2. CASE Allocate
  <2>1. ~allocated /\ allocated' /\ ~running' /\ numFreeOutBufs = 0 /\ numFreeOutBufs' = NOutBufs
    BY <1>2 DEF Allocate, TypeInv, Control
  <2>2. FreeBuffers = {}
    BY <2>1, NoneFree DEF TypeInv
  <2>3. Session' /\ ~stopping'
    BY <1>2, <2>1 DEF Allocate, SessionInv, TypeInv, Control
  <2>4. BusyBuffers' = {} /\ FreeBuffers' = Buffers
    BY <2>1, <2>3 DEF Session, Idle, Partition, BusyBuffers
  <2> QED BY <2>1, <2>2, <2>4 DEF Pool!Next, Pool!Fill
<1>3. CASE Release
  <2>1. numFreeOutBufs' = 0 /\ ~allocated'
    BY <1>3 DEF Release
  <2>2. FreeBuffers' = {}
    <3>1. 0 .. numFreeOutBufs' - 1 = {}
      BY <2>1, SMT
    <3> QED BY <3>1 DEF FreeBuffers
  <2> QED BY <2>1, <2>2 DEF Pool!Next, Pool!Empty
<1>4. CASE \/ GoRunning \/ StopBegins \/ SetInterfaceEnable \/ Dequeue \/ PoolEmpty
           \/ DropOversize \/ Unplug
  <2>1. UNCHANGED <<allocated, poolVars, usbVars, starts>>
    BY <1>4, Zenon
    DEF GoRunning, StopBegins, SetInterfaceEnable, Dequeue, PoolEmpty, DropOversize, Unplug
  <2> QED BY <2>1, PoolStutters
<1>5. CASE SubmitPacket
  <2> DEFINE b == NextBuffer
             x == [buf |-> b, pkt |-> Head(txQueue)]
  <2>1. allocated /\ allocated' /\ numFreeOutBufs > 0
    BY <1>5 DEF SubmitPacket, CanSubmit, TypeInv, Control
  <2>2. TypeOK /\ StackDistinct
    BY <2>1 DEF TypeInv, SessionInv, Session
  <2>3. b \in FreeBuffers /\ FreeBuffers' = FreeBuffers \ {b}
    BY <1>5, <2>1, <2>2, PopStack DEF SubmitPacket
  <2>4. BusyBuffers' = BusyBuffers \cup {b}
    <3>1. x.buf = b /\ (transfers \cup done)' = (transfers \cup done) \cup {x}
      BY <1>5 DEF SubmitPacket
    <3> HIDE DEF x, b
    <3> QED BY <3>1 DEF BusyBuffers
  <2>5. b \in Buffers
    BY <2>1, NextBufferType
  <2>6. Pool!Take(b)
    BY <2>1, <2>3, <2>4 DEF Pool!Take
  <2> QED BY <2>5, <2>6 DEF Pool!Next
<1>6. CASE SubmitFails
  <2>1. outBufStack' = outBufStack /\ UNCHANGED <<numFreeOutBufs, allocated, usbVars>>
    BY <1>6, NextBufferType DEF SubmitFails, CanSubmit, PushBack, NextBuffer, TypeInv, TypeOK
  <2>2. FreeBuffers' = FreeBuffers /\ BusyBuffers' = BusyBuffers
    BY <2>1 DEF FreeBuffers, BusyBuffers, usbVars
  <2> QED BY <2>1, <2>2 DEF Pool!vars
<1>7. ASSUME NEW c \in done, IgnoreCompletion(c) PROVE [Pool!Next]_(Pool!vars)
  <2>1. allocated' = allocated /\ FreeBuffers' = FreeBuffers
    BY <1>7 DEF IgnoreCompletion, poolVars, FreeBuffers
  <2>2. CASE ~allocated
    BY <2>1, <2>2 DEF Pool!vars
  <2>3. CASE allocated
    <3>1. BusyOnce /\ c.buf \in Buffers
      BY <2>3 DEF SessionInv, Session, TypeInv, TypeOK, Completions
    <3>2. BusyBuffers' = BusyBuffers \ {c.buf} /\ c.buf \in BusyBuffers
      BY <1>7, <3>1, CompletionLeaves DEF IgnoreCompletion
    <3>3. Pool!Withdraw(c.buf)
      BY <2>1, <2>3, <3>2 DEF Pool!Withdraw
    <3> QED BY <3>1, <3>3 DEF Pool!Next
  <2> QED BY <2>2, <2>3
<1>8. ASSUME NEW c \in done, DataWriteComplete(c) PROVE [Pool!Next]_(Pool!vars)
  <2>1. allocated /\ allocated' /\ ReturnBuffer(c.buf)
    BY <1>8 DEF DataWriteComplete, TypeInv, Control
  <2>2. TypeOK /\ StackDistinct /\ BusyOnce /\ Partition /\ c.buf \in Buffers
    BY <2>1 DEF SessionInv, Session, TypeInv, TypeOK, Completions
  <2>3. BusyBuffers' = BusyBuffers \ {c.buf} /\ c.buf \in BusyBuffers
    BY <1>8, <2>2, CompletionLeaves DEF DataWriteComplete
  <2>4. FreeBuffers' = FreeBuffers \cup {c.buf}
    BY <2>1, <2>2, <2>3, PushStack DEF Partition
  <2>5. Pool!Give(c.buf)
    BY <2>1, <2>3, <2>4 DEF Pool!Give
  <2> QED BY <2>2, <2>5 DEF Pool!Next
<1>9. ASSUME NEW p \in Packets, Enqueue(p) PROVE UNCHANGED Pool!vars
  BY <1>9, PoolStutters DEF Enqueue
<1>10. ASSUME NEW t \in transfers, TransferEnds(t) PROVE UNCHANGED Pool!vars
  <2>1. allocated /\ allocated' /\ FreeBuffers' = FreeBuffers
    BY <1>10 DEF TransferEnds, poolVars, FreeBuffers, TypeInv, Control
  <2>2. PICK s : done' = done \cup {[buf |-> t.buf, pkt |-> t.pkt, status |-> s]}
    BY <1>10 DEF TransferEnds
  <2> DEFINE x == [buf |-> t.buf, pkt |-> t.pkt, status |-> s]
  <2>3. x.buf = t.buf /\ x \in done'
    BY <2>2
  <2>4. (transfers \cup done)' = ((transfers \ {t}) \cup done) \cup {x}
    BY <1>10, <2>2 DEF TransferEnds
  <2> HIDE DEF x
  <2>5. BusyBuffers \subseteq BusyBuffers'
    BY <2>3, <2>4 DEF BusyBuffers
  <2>6. BusyBuffers' \subseteq BusyBuffers
    BY <2>3, <2>4 DEF BusyBuffers
  <2> QED BY <2>1, <2>5, <2>6 DEF Pool!vars
<1> QED
  BY <1>1, <1>2, <1>3, <1>4, <1>5, <1>6, <1>7, <1>8, <1>9, <1>10 DEF Next, DequeueLoop

\* A step that ends in a later session empties the pool, or leaves it empty.
LEMMA PoolStep ==
  TypeInv /\ SessionInv /\ [Next]_vars /\ SessionInv' => [Pool!Next]_(Pool!vars)
<1> SUFFICES ASSUME TypeInv, SessionInv, [Next]_vars, SessionInv' PROVE [Pool!Next]_(Pool!vars)
  OBVIOUS
<1>1. CASE FirstSession'
  BY <1>1, StartsGrow, FirstPoolStep
<1>2. CASE ~FirstSession'
  BY <1>2 DEF FirstSession, Pool!Next, Pool!Empty
<1> QED BY <1>1, <1>2

\* In the first session of a driver object outBufStack and numFreeOutBufs
\* implement the buffer pool: a buffer is handed to a transfer only while it is
\* free, and given back only while it is out.
THEOREM StackImplementsPool == Spec => ImplementsPool
<1>1. Init => Pool!Init
  <2> SUFFICES ASSUME Init PROVE FreeBuffers = {} /\ ~allocated
    BY DEF Pool!Init
  <2>1. TypeOK /\ numFreeOutBufs = 0
    BY InitType DEF Init, TypeInv
  <2>2. FreeBuffers = {}
    BY <2>1, NoneFree
  <2> QED BY <2>2 DEF Init
<1> QED BY <1>1, PoolStep, SessionInvariant, PTL DEF Spec, ImplementsPool, Pool!Spec

=============================================================================
