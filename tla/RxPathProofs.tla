--------------------------- MODULE RxPathProofs ---------------------------
(***************************************************************************)
(* Theorems about the receive path, for any number of IN buffers, packets, *)
(* frames, sessions and any faults: type correctness, no packet leaks, no  *)
(* frame waits unannounced, every IN buffer is in exactly one place, and   *)
(* frames flow as FrameFlow says.                                          *)
(***************************************************************************)
EXTENDS RxPath, FiniteSetTheorems, SequenceTheorems, WellFoundedInduction, TLAPS

(***************************************************************************)
(* What the flags say of each other, and the packets of a released pool.   *)
(***************************************************************************)
Flags ==
  /\ running => allocated /\ ~stopping
  /\ stopping => allocated
  /\ cur # NoBuffer => running
  /\ ~allocated => reads = <<>>

Conserved ==
  /\ PacketsConserved
  /\ ~allocated => free = 0 /\ rxQueue = <<>> /\ stack = 0

TypeInv == TypeOK /\ Flags /\ Conserved

----------------------------------------------------------------------------
(***************************************************************************)
(* Sequences that gain or lose an element.                                 *)
(***************************************************************************)
LEMMA AppendFacts ==
  ASSUME NEW S, NEW s \in Seq(S), NEW e \in S
  PROVE  /\ Append(s, e) \in Seq(S) /\ Len(Append(s, e)) = Len(s) + 1 /\ Len(s) \in Nat
         /\ DOMAIN Append(s, e) = DOMAIN s \cup {Len(s) + 1} /\ Len(s) + 1 \notin DOMAIN s
         /\ Append(s, e)[Len(s) + 1] = e
         /\ \A i \in DOMAIN s : Append(s, e)[i] = s[i]
<1>1. Len(s) \in Nat /\ DOMAIN s = 1 .. Len(s)
  BY LenProperties
<1>2. /\ Append(s, e) \in Seq(S) /\ Len(Append(s, e)) = Len(s) + 1
      /\ \A i \in 1 .. Len(s) : Append(s, e)[i] = s[i]
      /\ Append(s, e)[Len(s) + 1] = e
  BY AppendProperties
<1>3. DOMAIN Append(s, e) = 1 .. (Len(s) + 1)
  BY <1>2, LenProperties
<1>4. 1 .. (Len(s) + 1) = (1 .. Len(s)) \cup {Len(s) + 1} /\ Len(s) + 1 \notin 1 .. Len(s)
  BY <1>1, SMT
<1> QED BY <1>1, <1>2, <1>3, <1>4

LEMMA TailFacts ==
  ASSUME NEW S, NEW s \in Seq(S), s # <<>>
  PROVE  /\ Head(s) \in S /\ Head(s) = s[1] /\ 1 \in DOMAIN s
         /\ Tail(s) \in Seq(S)
         /\ \A i \in DOMAIN Tail(s) : i + 1 \in DOMAIN s /\ Tail(s)[i] = s[i + 1]
         /\ \A i \in DOMAIN s : i # 1 => i - 1 \in DOMAIN Tail(s)
         /\ \A i \in DOMAIN Tail(s) : i \in Nat /\ i > 0
         /\ \A i \in DOMAIN s : i \in Nat
<1>1. Len(s) \in Nat /\ Len(s) > 0 /\ DOMAIN s = 1 .. Len(s)
  BY LenProperties, EmptySeq, SMT
<1>2. Tail(s) \in Seq(S) /\ Len(Tail(s)) = Len(s) - 1 /\ Head(s) \in S
      /\ \A i \in 1 .. Len(Tail(s)) : Tail(s)[i] = s[i + 1]
  BY HeadTailProperties
<1>3. DOMAIN Tail(s) = 1 .. (Len(s) - 1)
  BY <1>2, LenProperties
<1>4. Head(s) = s[1]
  BY <1>1, SMT
<1> QED BY <1>1, <1>2, <1>3, <1>4, SMT

LEMMA FunctionIsSeq ==
  ASSUME NEW S, NEW n \in Nat, NEW f \in [1 .. n -> S]
  PROVE  f \in Seq(S) /\ Len(f) = n /\ DOMAIN f = 1 .. n
<1>1. f \in Seq(S)
  BY SeqDef
<1>2. DOMAIN f = 1 .. n
  OBVIOUS
<1>3. Len(f) \in Nat /\ DOMAIN f = 1 .. Len(f)
  BY <1>1, LenProperties
<1>4. Len(f) = n
  BY <1>2, <1>3, SMT
<1> QED BY <1>1, <1>2, <1>4

LEMMA BufferFacts ==
  /\ NInBufs \in Nat /\ NInBufs > 0 /\ PoolCapacity \in Nat /\ MaxFrames \in Nat
  /\ MaxBatch \in Nat /\ MaxStarts \in Nat
  /\ 0 \in Buffers
BY SizeAssumption, SMT DEF Buffers

LEMMA FirstBuffersFacts ==
  ASSUME NEW n \in 0 .. NInBufs
  PROVE  /\ FirstBuffers(n) \in Seq(Buffers) /\ Len(FirstBuffers(n)) = n
         /\ DOMAIN FirstBuffers(n) = 1 .. n
         /\ \A i \in 1 .. n : FirstBuffers(n)[i] = i - 1
<1>1. n \in Nat /\ \A i \in 1 .. n : i - 1 \in Buffers
  BY BufferFacts, SMT DEF Buffers
<1>2. FirstBuffers(n) \in [1 .. n -> Buffers]
  BY <1>1 DEF FirstBuffers
<1> QED BY <1>1, <1>2, FunctionIsSeq DEF FirstBuffers

\* Frames are counted on from sent, so a transfer holds frames within bounds.
LEMMA BatchFacts ==
  ASSUME NEW shape \in Shapes, sent \in 0 .. MaxFrames,
         sent + FramesIn(shape, Len(shape)) <= MaxFrames
  PROVE  /\ Batch(shape) \in Seq(Messages)
         /\ sent + FramesIn(shape, Len(shape)) \in 0 .. MaxFrames
<1>1. PICK n \in 1 .. MaxBatch : shape \in [1 .. n -> BOOLEAN]
  BY DEF Shapes
<1>2. n \in Nat /\ Len(shape) = n
  BY <1>1, FunctionIsSeq, BufferFacts, SMT
<1> DEFINE Goods(i) == {j \in 1 .. i : shape[j]}
<1>3. ASSUME NEW i \in 1 .. n
      PROVE  IsFiniteSet(Goods(n)) /\ Goods(i) \in SUBSET Goods(n) /\ IsFiniteSet(Goods(i))
  <2>1. IsFiniteSet(1 .. n)
    BY <1>2, FS_Interval, SMT
  <2>2. Goods(n) \in SUBSET (1 .. n)
    OBVIOUS
  <2>3. Goods(i) \in SUBSET Goods(n)
    BY <1>2, SMT
  <2>4. IsFiniteSet(Goods(n))
    BY <2>1, <2>2, FS_Subset
  <2> HIDE DEF Goods
  <2> QED BY <2>3, <2>4, FS_Subset
<1>4. FramesIn(shape, n) \in Nat
  <2>1. n \in 1 .. n
    BY <1>1, BufferFacts, SMT
  <2>2. Cardinality(Goods(n)) \in Nat
    BY <1>3, <2>1, FS_CardinalityType
  <2> QED BY <2>2 DEF FramesIn
<1>5. ASSUME NEW i \in 1 .. n, shape[i]
      PROVE  sent + FramesIn(shape, i) \in Frames
  <2>1. i \in Goods(i)
    BY <1>2, <1>5, SMT
  <2>2. Cardinality(Goods(i)) \in Nat /\ Cardinality(Goods(i)) # 0
    <3> HIDE DEF Goods
    <3> QED BY <1>3, <2>1, FS_CardinalityType, FS_EmptySet
  <2>3. Cardinality(Goods(i)) <= Cardinality(Goods(n))
    <3> HIDE DEF Goods
    <3> QED BY <1>3, FS_Subset
  <2>4. FramesIn(shape, i) = Cardinality(Goods(i)) /\ FramesIn(shape, n) = Cardinality(Goods(n))
    BY DEF FramesIn
  <2> HIDE DEF Goods
  <2> QED BY <1>2, <1>4, <2>2, <2>3, <2>4, BufferFacts, SMT DEF Frames
<1>6. Batch(shape) \in [1 .. n -> Messages]
  BY <1>1, <1>5 DEF Batch, Messages
<1> QED BY <1>2, <1>4, <1>6, FunctionIsSeq, BufferFacts, SMT

----------------------------------------------------------------------------
(***************************************************************************)
(* Type correctness.                                                       *)
(***************************************************************************)
LEMMA InitType == Init => TypeInv
<1> SUFFICES ASSUME Init PROVE TypeInv
  OBVIOUS
<1>1. content \in [Buffers -> Seq(Messages)]
  BY DEF Init
<1>2. free \in 0 .. PoolCapacity /\ stack \in 0 .. PoolCapacity /\ sent \in 0 .. MaxFrames
  BY BufferFacts, SMT DEF Init
<1>3. pos \in Nat /\ starts \in Nat
  BY SMT DEF Init
<1>4. /\ reads \in Seq(Buffers) /\ done \in Seq(Completions)
      /\ rxQueue \in Seq(Frames) /\ queued \in Seq(Frames)
  BY DEF Init
<1>5. cur \in Buffers \cup {NoBuffer} /\ deaf \in SUBSET Buffers
  BY DEF Init
<1>6. TypeOK
  BY <1>1, <1>2, <1>3, <1>4, <1>5, Zenon DEF Init, TypeOK
<1>7. Flags /\ Conserved
  BY DEF Init, Flags, Conserved, PacketsConserved
<1> QED BY <1>6, <1>7 DEF TypeInv

LEMMA StartStopType ==
  ASSUME TypeInv, StartStop
  PROVE  TypeInv'
<1> USE DEF TypeInv
<1>0. /\ PoolCapacity \in 0 .. PoolCapacity /\ 0 \in 0 .. PoolCapacity
      /\ <<>> \in Seq(Buffers) /\ <<>> \in Seq(Frames) /\ <<>> \in Seq(Messages)
      /\ Len(rxQueue) \in Nat /\ starts + 1 \in Nat
  BY BufferFacts, LenProperties, SMT DEF TypeOK
<1>1. CASE Allocate
  <2>1. TypeOK'
    BY <1>0, <1>1 DEF Allocate, TypeOK
  <2>2. Flags'
    BY <1>1 DEF Allocate, QueueFree, Flags
  <2>3. Conserved'
    BY <1>0, <1>1, BufferFacts, SMT DEF Allocate, Conserved, PacketsConserved
  <2> QED BY <2>1, <2>2, <2>3
<1>2. CASE ScheduleInboundReads
  <2>1. reads' \in Seq(Buffers)
    BY <1>2, BufferFacts, FirstBuffersFacts, SMT DEF ScheduleInboundReads
  <2>2. TypeOK'
    BY <1>2, <2>1 DEF ScheduleInboundReads, TypeOK, stackVars
  <2>3. Flags'
    BY <1>2 DEF ScheduleInboundReads, QueueFree, Flags
  <2>4. Conserved'
    BY <1>2 DEF ScheduleInboundReads, Conserved, PacketsConserved, stackVars
  <2> QED BY <2>2, <2>3, <2>4
<1>3. CASE StartBails
  <2>1. PICK n \in 0 .. NInBufs - 1 : reads' = FirstBuffers(n)
    BY <1>3 DEF StartBails
  <2>2. reads' \in Seq(Buffers)
    BY <2>1, BufferFacts, FirstBuffersFacts, SMT
  <2>3. TypeOK'
    BY <1>3, <2>2 DEF StartBails, TypeOK, stackVars
  <2>4. Flags'
    BY <1>3 DEF StartBails, QueueFree, Flags
  <2>5. Conserved'
    BY <1>3 DEF StartBails, Conserved, PacketsConserved, stackVars
  <2> QED BY <2>3, <2>4, <2>5
<1>4. CASE StopBegins
  BY <1>4 DEF StopBegins, QueueFree, usbVars, stackVars, TypeOK, Flags, Conserved, PacketsConserved
<1>5. CASE Release
  <2>1. [i \in 1 .. Len(reads) |-> [buf |-> reads[i], status |-> "aborted"]] \in Seq(Completions)
    <3>1. Len(reads) \in Nat /\ reads \in [1 .. Len(reads) -> Buffers]
      BY LenProperties DEF TypeOK
    <3>2. [i \in 1 .. Len(reads) |-> [buf |-> reads[i], status |-> "aborted"]]
             \in [1 .. Len(reads) -> Completions]
      BY <3>1 DEF Completions
    <3> QED BY <3>1, <3>2, FunctionIsSeq
  <2>2. done' \in Seq(Completions)
    BY <1>5, <2>1, ConcatProperties DEF Release, TypeOK
  <2>3. TypeOK'
    BY <1>0, <1>5, <2>2 DEF Release, TypeOK
  <2>4. Flags'
    BY <1>5 DEF Release, QueueFree, Flags
  <2>5. Conserved'
    BY <1>5 DEF Release, Conserved, PacketsConserved
  <2> QED BY <2>3, <2>4, <2>5
<1> QED BY <1>1, <1>2, <1>3, <1>4, <1>5 DEF StartStop

LEMMA RearmType ==
  ASSUME TypeOK, NEW b \in Buffers, Rearm(b)
  PROVE  /\ reads' \in Seq(Buffers) /\ content' \in [Buffers -> Seq(Messages)]
         /\ deaf' \in SUBSET Buffers
<1>1. Append(reads, b) \in Seq(Buffers)
  BY AppendFacts DEF TypeOK
<1>2. [content EXCEPT ![b] = <<>>] \in [Buffers -> Seq(Messages)]
  BY DEF TypeOK
<1> QED BY <1>1, <1>2 DEF Rearm, TypeOK

LEMMA HeadFacts ==
  ASSUME TypeOK, done # <<>>
  PROVE  Head(done) \in Completions /\ Head(done).buf \in Buffers /\ Tail(done) \in Seq(Completions)
<1>1. Head(done) \in Completions /\ Tail(done) \in Seq(Completions)
  BY TailFacts DEF TypeOK
<1> QED BY <1>1 DEF Completions

LEMMA DispatchType ==
  ASSUME TypeInv, Dispatch
  PROVE  TypeInv'
<1> USE DEF TypeInv
<1>0. /\ Head(done) \in Completions /\ Head(done).buf \in Buffers
      /\ Tail(done) \in Seq(Completions)
  <2>1. done # <<>>
    BY DEF Dispatch, IgnoreCompletion, ReadFailed, ReadSucceeded
  <2> QED BY <2>1, HeadFacts
<1>1. CASE IgnoreCompletion
  <2>1. deaf' \in SUBSET Buffers /\ reads' = reads /\ content' = content
    BY <1>0, <1>1 DEF IgnoreCompletion, EarlyReturn, TypeOK
  <2>2. TypeOK'
    BY <1>0, <1>1, <2>1 DEF IgnoreCompletion, TypeOK, stackVars
  <2>3. Flags' /\ Conserved'
    BY <1>1, <2>1 DEF IgnoreCompletion, Flags, Conserved, PacketsConserved, stackVars
  <2> QED BY <2>2, <2>3
<1>2. CASE ReadFailed
  <2>1. /\ reads' \in Seq(Buffers) /\ content' \in [Buffers -> Seq(Messages)]
        /\ deaf' \in SUBSET Buffers
    BY <1>0, <1>2, RearmType DEF ReadFailed, AfterError
  <2>2. TypeOK'
    BY <1>0, <1>2, <2>1 DEF ReadFailed, TypeOK, stackVars
  <2>3. Flags' /\ Conserved'
    BY <1>2 DEF ReadFailed, Flags, Conserved, PacketsConserved, stackVars
  <2> QED BY <2>2, <2>3
<1>3. CASE ReadSucceeded
  <2>1. TypeOK'
    BY <1>0, <1>3, SMT DEF ReadSucceeded, TypeOK, stackVars
  <2>2. Flags' /\ Conserved'
    BY <1>3 DEF ReadSucceeded, Flags, Conserved, PacketsConserved, stackVars
  <2> QED BY <2>1, <2>2
<1> QED BY <1>1, <1>2, <1>3 DEF Dispatch

\* The message the loop looks at, when it is a frame.
LEMMA MessageFacts ==
  ASSUME TypeOK, More, Message # Bad
  PROVE  cur \in Buffers /\ Message \in Frames /\ pos + 1 \in Nat
<1>1. cur \in Buffers /\ content[cur] \in Seq(Messages)
  BY DEF TypeOK, More
<1>2. pos + 1 \in 1 .. Len(content[cur])
  BY <1>1, LenProperties, SMT DEF TypeOK, More
<1>3. content[cur] \in [1 .. Len(content[cur]) -> Messages]
  BY <1>1, LenProperties
<1>4. Message \in Messages
  BY <1>2, <1>3 DEF Message
<1> QED BY <1>1, <1>2, <1>4 DEF Messages

LEMMA ParseLoopType ==
  ASSUME TypeInv, ParseLoop
  PROVE  TypeInv'
<1> USE DEF TypeInv
<1>0. PoolCapacity \in Nat /\ Len(rxQueue) \in Nat
  BY BufferFacts, LenProperties DEF TypeOK
<1>1. CASE EnqueuePacket
  <2>1. Message \in Frames /\ pos + 1 \in Nat
    BY <1>1, MessageFacts DEF EnqueuePacket
  <2>2. /\ rxQueue' \in Seq(Frames) /\ Len(rxQueue') = Len(rxQueue) + 1
        /\ queued' \in Seq(Frames)
    BY <1>1, <2>1, AppendFacts DEF EnqueuePacket, TypeOK
  <2>3. free' \in 0 .. PoolCapacity
    BY <1>0, <1>1, SMT DEF EnqueuePacket, TypeOK
  <2>4. TypeOK'
    BY <1>1, <2>1, <2>2, <2>3 DEF EnqueuePacket, TypeOK, usbVars
  <2>5. Flags'
    BY <1>1 DEF EnqueuePacket, Flags, usbVars
  <2>6. Conserved'
    <3>1. free \in Nat /\ stack \in Nat /\ Len(rxQueue) \in Nat
      BY <1>0, SMT DEF TypeOK
    <3>2. ~(0 > 0)
      BY SMT
    <3>3. allocated /\ allocated'
      BY <1>1, <3>2 DEF EnqueuePacket, Conserved
    <3>4. free + Len(rxQueue) + stack = PoolCapacity
      BY <3>3 DEF Conserved, PacketsConserved
    <3>5. free' = free - 1 /\ stack' = stack
      BY <1>1 DEF EnqueuePacket
    <3>6. free' + Len(rxQueue') + stack' = PoolCapacity
      BY <2>2, <3>1, <3>4, <3>5, SMT
    <3> QED BY <3>3, <3>6 DEF Conserved, PacketsConserved
  <2> QED BY <2>4, <2>5, <2>6
<1>2. CASE EnqueueRefused
  <2>1. pos' \in Nat /\ free' = free
    BY <1>2, MessageFacts DEF EnqueueRefused, AfterRefusal
  <2>2. TypeOK'
    BY <1>2, <2>1 DEF EnqueueRefused, TypeOK, usbVars
  <2>3. Flags' /\ Conserved'
    BY <1>2, <2>1 DEF EnqueueRefused, Flags, Conserved, PacketsConserved, usbVars
  <2> QED BY <2>2, <2>3
<1>3. CASE DropFrame
  <2>1. pos' \in Nat
    BY <1>3, MessageFacts DEF DropFrame, AfterDrop
  <2>2. TypeOK'
    BY <1>3, <2>1 DEF DropFrame, TypeOK, usbVars, stackVars
  <2>3. Flags' /\ Conserved'
    BY <1>3 DEF DropFrame, Flags, Conserved, PacketsConserved, usbVars, stackVars
  <2> QED BY <2>2, <2>3
<1>4. CASE FinishBuffer
  <2>1. cur \in Buffers
    BY <1>4 DEF FinishBuffer, LoopOver, TypeOK
  <2>2. /\ reads' \in Seq(Buffers) /\ content' \in [Buffers -> Seq(Messages)]
        /\ deaf' \in SUBSET Buffers
    BY <1>4, <2>1, RearmType DEF FinishBuffer
  <2>3. enqueueRequested' \in BOOLEAN /\ unheard' \in BOOLEAN
    BY <1>4 DEF FinishBuffer, RequestEnqueue, TypeOK
  <2>4. TypeOK'
    BY <1>4, <2>2, <2>3, SMT DEF FinishBuffer, TypeOK
  <2>5. Flags'
    BY <1>4 DEF FinishBuffer, LoopOver, Flags
  <2>6. Conserved'
    BY <1>4 DEF FinishBuffer, Conserved, PacketsConserved
  <2> QED BY <2>4, <2>5, <2>6
<1> QED BY <1>1, <1>2, <1>3, <1>4 DEF ParseLoop

LEMMA TakeReadFacts ==
  ASSUME TypeOK, NEW status \in {"data", "error", "gone", "aborted"}, TakeRead(status)
  PROVE  /\ Head(reads) \in Buffers /\ reads' \in Seq(Buffers) /\ done' \in Seq(Completions)
<1>1. Head(reads) \in Buffers /\ Tail(reads) \in Seq(Buffers)
  BY TailFacts DEF TakeRead, TypeOK
<1>2. [buf |-> Head(reads), status |-> status] \in Completions
  BY <1>1 DEF Completions
<1>3. Append(done, [buf |-> Head(reads), status |-> status]) \in Seq(Completions)
  BY <1>2, AppendFacts DEF TypeOK
<1> QED BY <1>1, <1>3 DEF TakeRead

LEMMA OutsideType ==
  ASSUME TypeInv, Outside
  PROVE  TypeInv'
<1> USE DEF TypeInv
<1>0. PoolCapacity \in Nat /\ Len(rxQueue) \in Nat /\ Len(<<>>) = 0 /\ <<>> \in Seq(Frames)
  BY BufferFacts, LenProperties, EmptySeq DEF TypeOK
<1>1. CASE ReadData
  <2>1. PICK shape \in Shapes :
          /\ sent' = sent + FramesIn(shape, Len(shape)) /\ sent' <= MaxFrames
          /\ content' = [content EXCEPT ![Head(reads)] = Batch(shape)]
    BY <1>1 DEF ReadData
  <2>2. Batch(shape) \in Seq(Messages) /\ sent' \in 0 .. MaxFrames
    BY <2>1, BatchFacts DEF TypeOK
  <2>3. Head(reads) \in Buffers /\ reads' \in Seq(Buffers) /\ done' \in Seq(Completions)
    BY <1>1, TakeReadFacts DEF ReadData
  <2>4. content' \in [Buffers -> Seq(Messages)]
    BY <2>1, <2>2, <2>3 DEF TypeOK
  <2>5. TypeOK'
    BY <1>1, <2>2, <2>3, <2>4 DEF ReadData, TypeOK, stackVars
  <2>6. Flags' /\ Conserved'
    BY <1>1 DEF ReadData, TakeRead, Flags, Conserved, PacketsConserved, stackVars
  <2> QED BY <2>5, <2>6
<1>2. CASE ReadFails
  <2>1. reads' \in Seq(Buffers) /\ done' \in Seq(Completions)
    BY <1>2, TakeReadFacts DEF ReadFails
  <2>2. TypeOK'
    BY <1>2, <2>1 DEF ReadFails, TypeOK, stackVars
  <2>3. Flags' /\ Conserved'
    BY <1>2 DEF ReadFails, TakeRead, Flags, Conserved, PacketsConserved, stackVars
  <2> QED BY <2>2, <2>3
<1>3. CASE StackFetches
  <2>1. stack' \in 0 .. PoolCapacity
    BY <1>0, <1>3, SMT DEF StackFetches, TypeOK, Conserved, PacketsConserved
  <2>2. TypeOK'
    BY <1>0, <1>3, <2>1 DEF StackFetches, TypeOK, usbVars
  <2>3. Flags'
    BY <1>3 DEF StackFetches, Flags, usbVars
  <2>4. Conserved'
    BY <1>0, <1>3, SMT DEF StackFetches, TypeOK, Conserved, PacketsConserved
  <2> QED BY <2>2, <2>3, <2>4
<1>4. CASE StackTakes
  <2>1. free' \in 0 .. PoolCapacity /\ stack' \in 0 .. PoolCapacity
    BY <1>0, <1>4, SMT DEF StackTakes, TypeOK, Conserved, PacketsConserved
  <2>2. TypeOK'
    BY <1>4, <2>1 DEF StackTakes, TypeOK, usbVars
  <2>3. Flags'
    BY <1>4 DEF StackTakes, Flags, usbVars
  <2>4. Conserved'
    <3>1. free \in Nat /\ stack \in Nat /\ Len(rxQueue) \in Nat
      BY <1>0, SMT DEF TypeOK
    <3>2. ~(0 > 0)
      BY SMT
    <3>3. allocated /\ allocated'
      BY <1>4, <3>2 DEF StackTakes, Conserved
    <3>4. free + Len(rxQueue) + stack = PoolCapacity
      BY <3>3 DEF Conserved, PacketsConserved
    <3>5. free' + Len(rxQueue') + stack' = PoolCapacity
      BY <1>0, <1>4, <3>1, <3>4, SMT DEF StackTakes
    <3> QED BY <3>3, <3>5 DEF Conserved, PacketsConserved
  <2> QED BY <2>2, <2>3, <2>4
<1>5. CASE StackReturns
  <2>1. free' \in 0 .. PoolCapacity /\ stack' \in 0 .. PoolCapacity
    BY <1>0, <1>5, SMT DEF StackReturns, TypeOK, Conserved, PacketsConserved
  <2>2. TypeOK'
    BY <1>5, <2>1 DEF StackReturns, TypeOK, usbVars
  <2>3. Flags'
    BY <1>5 DEF StackReturns, Flags, usbVars
  <2>4. Conserved'
    <3>1. free \in Nat /\ stack \in Nat /\ Len(rxQueue) \in Nat
      BY <1>0, SMT DEF TypeOK
    <3>2. ~(0 > 0)
      BY SMT
    <3>3. allocated /\ allocated'
      BY <1>5, <3>2 DEF StackReturns, Conserved
    <3>4. free + Len(rxQueue) + stack = PoolCapacity
      BY <3>3 DEF Conserved, PacketsConserved
    <3>5. free' + Len(rxQueue') + stack' = PoolCapacity
      BY <1>0, <1>5, <3>1, <3>4, SMT DEF StackReturns
    <3> QED BY <3>3, <3>5 DEF Conserved, PacketsConserved
  <2> QED BY <2>2, <2>3, <2>4
<1>6. CASE Unplug
  BY <1>6 DEF Unplug, usbVars, stackVars, TypeOK, Flags, Conserved, PacketsConserved
<1> QED BY <1>1, <1>2, <1>3, <1>4, <1>5, <1>6 DEF Outside

LEMMA StutterType ==
  ASSUME TypeInv, UNCHANGED vars
  PROVE  TypeInv'
BY DEF TypeInv, vars, usbVars, stackVars, TypeOK, Flags, Conserved, PacketsConserved

LEMMA TypeInvariance == Spec => []TypeInv
<1>1. TypeInv /\ [Next]_vars => TypeInv'
  BY StartStopType, DispatchType, ParseLoopType, OutsideType, StutterType DEF Next
<1> QED BY <1>1, InitType, PTL DEF Spec

\* Every variable keeps its type: in particular the pool never holds more
\* packets than its capacity, whatever is dropped, refused or returned.
THEOREM TypeCorrect == Spec => []TypeOK
<1>1. TypeInv => TypeOK
  BY DEF TypeInv
<1> QED BY <1>1, TypeInvariance, PTL

\* A packet is in the pool, in the receive queue or with the network stack:
\* none is lost and none is in two places.
THEOREM PacketsAlwaysConserved == Spec => []PacketsConserved
<1>1. TypeInv => PacketsConserved
  BY DEF TypeInv, Conserved
<1> QED BY <1>1, TypeInvariance, PTL

----------------------------------------------------------------------------
(***************************************************************************)
(* Frames in the receive queue are announced.  The queue is empty until    *)
(* the driver runs.                                                        *)
(***************************************************************************)
AnnounceInv ==
  /\ QueuedFramesAnnounced
  /\ allocated /\ ~running /\ ~stopping => rxQueue = <<>>

LEMMA AnnounceStep ==
  ASSUME TypeInv, AnnounceInv, [Next]_vars
  PROVE  AnnounceInv'
<1> USE DEF AnnounceInv, QueuedFramesAnnounced
<1>1. CASE Allocate
  BY <1>1 DEF Allocate, TypeInv, Flags, Conserved
<1>2. CASE ScheduleInboundReads
  BY <1>2 DEF ScheduleInboundReads, stackVars
<1>3. CASE StartBails
  BY <1>3 DEF StartBails
<1>4. CASE StopBegins
  BY <1>4 DEF StopBegins
<1>5. CASE Release
  BY <1>5 DEF Release
<1>6. CASE IgnoreCompletion
  BY <1>6 DEF IgnoreCompletion, stackVars
<1>7. CASE ReadFailed
  BY <1>7 DEF ReadFailed, stackVars
<1>8. CASE ReadSucceeded
  <2>1. Head(done).buf \in Buffers
    BY <1>8, HeadFacts DEF ReadSucceeded, TypeInv
  <2> QED BY <1>8, <2>1, NoBufferAssumption DEF ReadSucceeded
<1>9. CASE EnqueuePacket
  BY <1>9 DEF EnqueuePacket, More, TypeInv, Flags
<1>10. CASE EnqueueRefused
  BY <1>10 DEF EnqueueRefused, More, TypeInv, Flags
<1>11. CASE DropFrame
  BY <1>11 DEF DropFrame, More, TypeInv, Flags, stackVars
<1>12. CASE FinishBuffer
  BY <1>12 DEF FinishBuffer, RequestEnqueue, LoopOver, TypeInv, Flags
<1>13. CASE ReadData \/ ReadFails
  BY <1>13 DEF ReadData, ReadFails, stackVars
<1>14. CASE StackFetches
  BY <1>14 DEF StackFetches
<1>15. CASE StackTakes \/ StackReturns
  BY <1>15 DEF StackTakes, StackReturns
<1>16. CASE Unplug \/ UNCHANGED vars
  BY <1>16 DEF Unplug, stackVars, vars
<1> QED BY <1>1, <1>2, <1>3, <1>4, <1>5, <1>6, <1>7, <1>8, <1>9, <1>10, <1>11, <1>12, <1>13,
           <1>14, <1>15, <1>16 DEF Next, StartStop, Dispatch, ParseLoop, Outside

\* No frame waits in the receive queue of a running driver with nobody told of
\* it: a parse error does not strand the frames before it.
THEOREM QueuedFramesAlwaysAnnounced == Spec => []QueuedFramesAnnounced
<1>1. Init => AnnounceInv
  BY DEF Init, AnnounceInv, QueuedFramesAnnounced
<1>2. TypeInv /\ AnnounceInv /\ [Next]_vars => AnnounceInv'
  BY AnnounceStep
<1>3. AnnounceInv => QueuedFramesAnnounced
  BY DEF AnnounceInv
<1> QED BY <1>1, <1>2, <1>3, TypeInvariance, PTL DEF Spec

----------------------------------------------------------------------------
(***************************************************************************)
(* Each IN buffer is in exactly one place.  Between an allocation and the  *)
(* end of Start none is anywhere, and no completion of a buffer is left    *)
(* over from an earlier session but aborted ones.                          *)
(***************************************************************************)
UniqueReads == \A i, j \in DOMAIN reads : reads[i] = reads[j] => i = j
UniqueLive  == \A i, j \in Live : done[i].buf = done[j].buf => i = j
Placed ==
  /\ Outstanding \cup Posted \cup Parsed \cup deaf = Buffers
  /\ Outstanding \cap (Posted \cup Parsed \cup deaf) = {}
  /\ Posted \cap (Parsed \cup deaf) = {} /\ Parsed \cap deaf = {}
InOnePlace == Placed /\ UniqueReads /\ UniqueLive
NoneYet == reads = <<>> /\ Live = {} /\ deaf = {} /\ cur = NoBuffer

PlaceInv ==
  /\ running => InOnePlace
  /\ allocated /\ ~running /\ ~stopping => NoneYet

\* A completion leaves the dispatch queue.
LEMMA DispatchPlaces ==
  ASSUME TypeOK, done # <<>>, done' = Tail(done)
  PROVE  /\ Live = {} => Live' = {}
         /\ UniqueLive => UniqueLive'
         /\ Head(done).status = "aborted" => Posted' = Posted
         /\ Head(done).status # "aborted" =>
              /\ Posted = Posted' \cup {Head(done).buf}
              /\ UniqueLive => Head(done).buf \notin Posted'
<1>1. /\ Head(done) = done[1] /\ 1 \in DOMAIN done
      /\ \A i \in DOMAIN done' : i \in Nat /\ i > 0 /\ i + 1 \in DOMAIN done /\ done'[i] = done[i + 1]
      /\ \A i \in DOMAIN done : i \in Nat /\ (i # 1 => i - 1 \in DOMAIN done')
  BY TailFacts DEF TypeOK
<1>2. \A i \in Live' : i \in Nat /\ i > 0 /\ i + 1 \in Live /\ i + 1 # 1 /\ done'[i] = done[i + 1]
  BY <1>1, SMT DEF Live
<1>3. ASSUME NEW i \in Live, i # 1
      PROVE  i - 1 \in Live' /\ done'[i - 1] = done[i]
  <2>1. i \in DOMAIN done /\ i \in Nat /\ i - 1 \in DOMAIN done' /\ done[i].status # "aborted"
    BY <1>1, <1>3 DEF Live
  <2>2. done'[i - 1] = done[(i - 1) + 1] /\ (i - 1) + 1 = i
    BY <1>1, <2>1, SMT
  <2>3. done'[i - 1] = done[i]
    BY <2>2
  <2> QED BY <2>1, <2>3 DEF Live
<1>4. 1 \in Live <=> Head(done).status # "aborted"
  BY <1>1 DEF Live
<1>5. Posted' = {done[i].buf : i \in Live \ {1}}
  <2>1. \A i \in Live' : i + 1 \in Live \ {1} /\ done'[i].buf = done[i + 1].buf
    BY <1>2
  <2>2. \A i \in Live \ {1} : i - 1 \in Live' /\ done'[i - 1].buf = done[i].buf
    BY <1>3
  <2>3. Posted' \subseteq {done[i].buf : i \in Live \ {1}}
    BY <2>1 DEF Posted
  <2>4. {done[i].buf : i \in Live \ {1}} \subseteq Posted'
    BY <2>2 DEF Posted
  <2> QED BY <2>3, <2>4
<1>6. Live = {} => Live' = {}
  BY <1>2
<1>7. UniqueLive => UniqueLive'
  <2> SUFFICES ASSUME UniqueLive, NEW i \in Live', NEW j \in Live', done'[i].buf = done'[j].buf
               PROVE  i = j
    BY DEF UniqueLive
  <2>1. i + 1 \in Live /\ j + 1 \in Live /\ done[i + 1].buf = done[j + 1].buf /\ i \in Nat /\ j \in Nat
    BY <1>2
  <2>2. i + 1 = j + 1
    BY <2>1 DEF UniqueLive
  <2> QED BY <2>1, <2>2, SMT
<1>8. Head(done).status = "aborted" => Posted' = Posted
  BY <1>4, <1>5 DEF Posted
<1>9. Head(done).status # "aborted" => Posted = Posted' \cup {Head(done).buf}
  <2> SUFFICES ASSUME Head(done).status # "aborted"
               PROVE  Posted = Posted' \cup {done[1].buf}
    BY <1>1
  <2>1. 1 \in Live
    BY <1>4
  <2>2. Posted \subseteq Posted' \cup {done[1].buf}
    BY <1>5 DEF Posted
  <2>3. Posted' \cup {done[1].buf} \subseteq Posted
    BY <1>5, <2>1 DEF Posted
  <2> QED BY <2>2, <2>3
<1>10. Head(done).status # "aborted" /\ UniqueLive => Head(done).buf \notin Posted'
  BY <1>1, <1>4, <1>5 DEF UniqueLive
<1> QED BY <1>6, <1>7, <1>8, <1>9, <1>10

\* A read completes.
LEMMA TakeReadPlaces ==
  ASSUME TypeOK, NEW status \in {"data", "error", "gone"}, TakeRead(status)
  PROVE  /\ UniqueReads => UniqueReads' /\ Head(reads) \notin Outstanding'
         /\ Outstanding = Outstanding' \cup {Head(reads)}
         /\ Posted' = Posted \cup {Head(reads)}
         /\ UniqueLive /\ Head(reads) \notin Posted => UniqueLive'
<1>1. /\ Head(reads) = reads[1] /\ 1 \in DOMAIN reads /\ Head(reads) \in Buffers
      /\ \A i \in DOMAIN reads' :
           i \in Nat /\ i > 0 /\ i + 1 \in DOMAIN reads /\ reads'[i] = reads[i + 1]
      /\ \A i \in DOMAIN reads : i \in Nat /\ (i # 1 => i - 1 \in DOMAIN reads')
  BY TailFacts DEF TypeOK, TakeRead
<1>2. UniqueReads => UniqueReads'
  <2> SUFFICES ASSUME UniqueReads, NEW i \in DOMAIN reads', NEW j \in DOMAIN reads',
                      reads'[i] = reads'[j]
               PROVE  i = j
    BY DEF UniqueReads
  <2>1. i + 1 \in DOMAIN reads /\ j + 1 \in DOMAIN reads /\ reads[i + 1] = reads[j + 1]
    BY <1>1
  <2>2. i + 1 = j + 1 /\ i \in Nat /\ j \in Nat
    BY <1>1, <2>1 DEF UniqueReads
  <2> QED BY <2>2, SMT
<1>3. \A i \in DOMAIN reads' : i + 1 \in DOMAIN reads \ {1}
  BY <1>1, SMT
<1>4. \A i \in DOMAIN reads \ {1} : i - 1 \in DOMAIN reads' /\ reads'[i - 1] = reads[i]
  <2> SUFFICES ASSUME NEW i \in DOMAIN reads \ {1}
               PROVE  i - 1 \in DOMAIN reads' /\ reads'[i - 1] = reads[i]
    OBVIOUS
  <2>1. i \in Nat /\ i - 1 \in DOMAIN reads' /\ (i - 1) + 1 = i
    BY <1>1, SMT
  <2>2. reads'[i - 1] = reads[(i - 1) + 1]
    BY <1>1, <2>1
  <2> QED BY <2>1, <2>2
<1>5. Outstanding' = {reads[i] : i \in DOMAIN reads \ {1}}
  BY <1>1, <1>3, <1>4 DEF Outstanding, Range
<1>6. Outstanding = Outstanding' \cup {Head(reads)}
  BY <1>1, <1>5 DEF Outstanding, Range
<1>7. UniqueReads => Head(reads) \notin Outstanding'
  BY <1>1, <1>5 DEF UniqueReads
<1> DEFINE c == [buf |-> Head(reads), status |-> status]
<1>8. c \in Completions /\ c.buf = Head(reads) /\ c.status # "aborted"
  BY <1>1 DEF Completions
<1>9. done' = Append(done, c)
  BY DEF TakeRead
<1> HIDE DEF c
<1>10. /\ DOMAIN done' = DOMAIN done \cup {Len(done) + 1} /\ Len(done) + 1 \notin DOMAIN done
       /\ done'[Len(done) + 1] = c
       /\ \A i \in DOMAIN done : done'[i] = done[i]
  BY <1>8, <1>9, AppendFacts DEF TypeOK
<1>11. Live' = Live \cup {Len(done) + 1} /\ \A i \in Live : done'[i] = done[i]
  BY <1>8, <1>10 DEF Live
<1>12. Posted' = Posted \cup {Head(reads)}
  BY <1>8, <1>10, <1>11 DEF Posted
<1>13. UniqueLive /\ Head(reads) \notin Posted => UniqueLive'
  <2> SUFFICES ASSUME UniqueLive, Head(reads) \notin Posted,
                      NEW i \in Live', NEW j \in Live', done'[i].buf = done'[j].buf
               PROVE  i = j
    BY DEF UniqueLive
  <2>1. \A k \in Live : done'[k].buf \in Posted /\ done'[k].buf # Head(reads)
    BY <1>11 DEF Posted
  <2>2. done'[Len(done) + 1].buf = Head(reads)
    BY <1>8, <1>10
  <2>3. CASE i \in Live /\ j \in Live
    BY <1>11, <2>3 DEF UniqueLive
  <2>4. CASE i \notin Live \/ j \notin Live
    BY <1>11, <2>1, <2>2, <2>4
  <2> QED BY <2>3, <2>4
<1> QED BY <1>2, <1>6, <1>7, <1>12, <1>13

\* A buffer is queued again, or its read is refused.
LEMMA RearmPlaces ==
  ASSUME TypeOK, NEW b \in Buffers, Rearm(b), UniqueReads, b \notin Outstanding
  PROVE  /\ UniqueReads'
         /\ \/ Outstanding' = Outstanding \cup {b} /\ deaf' = deaf
            \/ Outstanding' = Outstanding /\ deaf' = deaf \cup {b}
<1>1. CASE reads' = Append(reads, b) /\ UNCHANGED deaf
  <2>1. /\ DOMAIN reads' = DOMAIN reads \cup {Len(reads) + 1}
        /\ Len(reads) + 1 \notin DOMAIN reads
        /\ reads'[Len(reads) + 1] = b
        /\ \A i \in DOMAIN reads : reads'[i] = reads[i]
    BY <1>1, AppendFacts DEF TypeOK
  <2>2. Outstanding' = Outstanding \cup {b}
    BY <2>1 DEF Outstanding, Range
  <2>3. UniqueReads'
    <3> SUFFICES ASSUME NEW i \in DOMAIN reads', NEW j \in DOMAIN reads', reads'[i] = reads'[j]
                 PROVE  i = j
      BY DEF UniqueReads
    <3>1. \A k \in DOMAIN reads : reads'[k] # b
      BY <2>1 DEF Outstanding, Range
    <3>2. CASE i \in DOMAIN reads /\ j \in DOMAIN reads
      BY <2>1, <3>2 DEF UniqueReads
    <3>3. CASE i \notin DOMAIN reads \/ j \notin DOMAIN reads
      BY <2>1, <3>1, <3>3
    <3> QED BY <3>2, <3>3
  <2> QED BY <1>1, <2>2, <2>3
<1>2. CASE deaf' = deaf \cup {b} /\ UNCHANGED <<reads, content>>
  BY <1>2 DEF UniqueReads, Outstanding
<1> QED BY <1>1, <1>2 DEF Rearm

LEMMA PlacesUnchanged ==
  ASSUME UNCHANGED <<reads, done, cur, deaf>>
  PROVE  /\ InOnePlace' <=> InOnePlace
         /\ NoneYet' <=> NoneYet
BY DEF InOnePlace, Placed, UniqueReads, UniqueLive, NoneYet, Outstanding, Live, Posted, Parsed

LEMMA PlaceStartStop ==
  ASSUME TypeInv, PlaceInv, StartStop
  PROVE  PlaceInv'
<1>1. CASE Allocate
  <2>1. Live = {}
    BY <1>1 DEF Allocate, Live
  <2>2. Live' = {} /\ reads' = <<>> /\ deaf' = {} /\ cur' = NoBuffer
    BY <1>1, <2>1 DEF Allocate, QueueFree, Live, TypeInv, Flags
  <2>3. ~running'
    BY <1>1 DEF Allocate, TypeInv, Flags
  <2> QED BY <2>2, <2>3 DEF PlaceInv, NoneYet
<1>2. CASE ScheduleInboundReads
  <2>1. Live = {} /\ deaf = {} /\ cur = NoBuffer
    BY <1>2 DEF ScheduleInboundReads, PlaceInv, NoneYet
  <2>2. Live' = {} /\ deaf' = {} /\ cur' = NoBuffer
    BY <1>2, <2>1 DEF ScheduleInboundReads, Live
  <2>3. /\ DOMAIN reads' = 1 .. NInBufs /\ \A i \in 1 .. NInBufs : reads'[i] = i - 1
    <3>1. NInBufs \in 0 .. NInBufs
      BY BufferFacts, SMT
    <3> QED BY <1>2, <3>1, FirstBuffersFacts DEF ScheduleInboundReads
  <2>4. Outstanding' = Buffers
    <3>1. \A b \in Buffers : b + 1 \in 1 .. NInBufs /\ (b + 1) - 1 = b
      BY BufferFacts, SMT DEF Buffers
    <3>2. \A i \in 1 .. NInBufs : i - 1 \in Buffers
      BY BufferFacts, SMT DEF Buffers
    <3>3. \A b \in Buffers : reads'[b + 1] = b
      BY <2>3, <3>1
    <3> QED BY <2>3, <3>1, <3>2, <3>3 DEF Outstanding, Range
  <2>5. UniqueReads'
    <3> SUFFICES ASSUME NEW i \in 1 .. NInBufs, NEW j \in 1 .. NInBufs, reads'[i] = reads'[j]
                 PROVE  i = j
      BY <2>3 DEF UniqueReads
    <3>1. i - 1 = j - 1
      BY <2>3
    <3> QED BY <3>1, BufferFacts, SMT
  <2>6. Posted' = {} /\ Parsed' = {} /\ UniqueLive'
    BY <2>2 DEF Posted, Parsed, UniqueLive
  <2>7. running' /\ InOnePlace'
    BY <1>2, <2>2, <2>4, <2>5, <2>6 DEF ScheduleInboundReads, InOnePlace, Placed
  <2> QED BY <2>7 DEF PlaceInv
<1>3. CASE StartBails \/ StopBegins
  BY <1>3 DEF StartBails, StopBegins, PlaceInv
<1>4. CASE Release
  BY <1>4 DEF Release, PlaceInv, TypeInv, Flags
<1> QED BY <1>1, <1>2, <1>3, <1>4 DEF StartStop

LEMMA PlaceDispatch ==
  ASSUME TypeInv, PlaceInv, Dispatch
  PROVE  PlaceInv'
<1>0. /\ done # <<>> /\ done' = Tail(done) /\ Head(done) \in Completions
      /\ Head(done).buf \in Buffers /\ cur = NoBuffer /\ Parsed = {} /\ TypeOK
      /\ UNCHANGED <<running, allocated, stopping>>
  <2>1. done # <<>> /\ done' = Tail(done) /\ cur = NoBuffer
        /\ UNCHANGED <<running, allocated, stopping>>
    BY DEF Dispatch, IgnoreCompletion, ReadFailed, ReadSucceeded, QueueFree
  <2> QED BY <2>1, HeadFacts DEF Parsed, TypeInv
<1>1. CASE ~running
  <2>1. IgnoreCompletion /\ reads' = reads /\ deaf' = deaf /\ cur' = cur
    BY <1>1 DEF Dispatch, IgnoreCompletion, ReadFailed, ReadSucceeded, EarlyReturn
  <2>2. Live = {} => Live' = {}
    BY <1>0, DispatchPlaces
  <2>3. ~running'
    BY <1>0, <1>1
  <2>4. NoneYet => NoneYet'
    BY <2>1, <2>2 DEF NoneYet
  <2> QED BY <1>0, <1>1, <2>3, <2>4 DEF PlaceInv
<1>2. CASE running
  <2>1. InOnePlace /\ running'
    BY <1>0, <1>2 DEF PlaceInv
  <2>2. UniqueReads /\ UniqueLive /\ UniqueLive' /\ Placed
    BY <1>0, <2>1, DispatchPlaces DEF InOnePlace
  <2>3. CASE IgnoreCompletion
    <3>1. reads' = reads /\ cur' = cur
      BY <2>3 DEF IgnoreCompletion, EarlyReturn
    <3>2. Outstanding' = Outstanding /\ Parsed' = {} /\ UniqueReads'
      BY <1>0, <2>2, <3>1 DEF Outstanding, Parsed, UniqueReads
    <3>3. CASE Head(done).status = "gone"
      <4>1. deaf' = deaf \cup {Head(done).buf}
        BY <1>2, <2>3, <3>3 DEF IgnoreCompletion, EarlyReturn
      <4>2. Posted = Posted' \cup {Head(done).buf} /\ Head(done).buf \notin Posted'
        BY <1>0, <2>2, <3>3, DispatchPlaces
      <4>3. Placed'
        BY <1>0, <2>2, <3>2, <4>1, <4>2 DEF Placed
      <4> QED BY <2>1, <2>2, <3>2, <4>3 DEF PlaceInv, InOnePlace
    <3>4. CASE Head(done).status # "gone"
      <4>1. deaf' = deaf /\ Head(done).status = "aborted"
        BY <1>2, <2>3, <3>4 DEF IgnoreCompletion, EarlyReturn, Ignored
      <4>2. Posted' = Posted
        BY <1>0, <4>1, DispatchPlaces
      <4>3. Placed'
        BY <1>0, <2>2, <3>2, <4>1, <4>2 DEF Placed
      <4> QED BY <2>1, <2>2, <3>2, <4>3 DEF PlaceInv, InOnePlace
    <3> QED BY <3>3, <3>4
  <2>4. CASE ReadFailed
    <3>1. /\ Rearm(Head(done).buf) /\ Head(done).status # "aborted" /\ cur' = cur
      BY <2>4 DEF ReadFailed, AfterError
    <3>2. Posted = Posted' \cup {Head(done).buf} /\ Head(done).buf \notin Posted'
      BY <1>0, <2>2, <3>1, DispatchPlaces
    <3>3. Head(done).buf \notin Outstanding
      BY <2>2, <3>2 DEF Placed
    <3>4. /\ UniqueReads'
          /\ \/ Outstanding' = Outstanding \cup {Head(done).buf} /\ deaf' = deaf
             \/ Outstanding' = Outstanding /\ deaf' = deaf \cup {Head(done).buf}
      BY <1>0, <2>2, <3>1, <3>3, RearmPlaces
    <3>5. Parsed' = {}
      BY <1>0, <3>1 DEF Parsed
    <3>6. Placed'
      BY <1>0, <2>2, <3>2, <3>4, <3>5 DEF Placed
    <3> QED BY <2>1, <2>2, <3>4, <3>6 DEF PlaceInv, InOnePlace
  <2>5. CASE ReadSucceeded
    <3>1. /\ Head(done).status # "aborted" /\ cur' = Head(done).buf
          /\ reads' = reads /\ deaf' = deaf
      BY <2>5 DEF ReadSucceeded
    <3>2. Posted = Posted' \cup {Head(done).buf} /\ Head(done).buf \notin Posted'
      BY <1>0, <2>2, <3>1, DispatchPlaces
    <3>3. Parsed' = {Head(done).buf}
      BY <1>0, <3>1, NoBufferAssumption DEF Parsed
    <3>4. Outstanding' = Outstanding /\ UniqueReads'
      BY <2>2, <3>1 DEF Outstanding, UniqueReads
    <3>5. Placed'
      BY <1>0, <2>2, <3>1, <3>2, <3>3, <3>4 DEF Placed
    <3> QED BY <2>1, <2>2, <3>4, <3>5 DEF PlaceInv, InOnePlace
  <2> QED BY <2>3, <2>4, <2>5 DEF Dispatch
<1> QED BY <1>1, <1>2

LEMMA PlaceParseLoop ==
  ASSUME TypeInv, PlaceInv, ParseLoop
  PROVE  PlaceInv'
<1>1. cur # NoBuffer /\ cur \in Buffers /\ running /\ TypeOK
  BY DEF ParseLoop, EnqueuePacket, EnqueueRefused, DropFrame, FinishBuffer, More, LoopOver,
         TypeInv, TypeOK, Flags
<1>2. InOnePlace /\ running' /\ Parsed = {cur}
  BY <1>1 DEF PlaceInv, Parsed, ParseLoop, EnqueuePacket, EnqueueRefused, DropFrame, FinishBuffer
<1>3. CASE EnqueuePacket \/ EnqueueRefused \/ DropFrame
  <2>1. UNCHANGED <<reads, done, cur, deaf>>
    BY <1>3 DEF EnqueuePacket, EnqueueRefused, DropFrame, usbVars
  <2> QED BY <1>2, <2>1, PlacesUnchanged DEF PlaceInv
<1>4. CASE FinishBuffer
  <2>1. Rearm(cur) /\ cur' = NoBuffer /\ done' = done
    BY <1>4 DEF FinishBuffer
  <2>2. Placed /\ UniqueReads /\ UniqueLive /\ cur \notin Outstanding
    BY <1>2 DEF InOnePlace, Placed
  <2>3. /\ UniqueReads'
        /\ \/ Outstanding' = Outstanding \cup {cur} /\ deaf' = deaf
           \/ Outstanding' = Outstanding /\ deaf' = deaf \cup {cur}
    BY <1>1, <2>1, <2>2, RearmPlaces
  <2>4. Posted' = Posted /\ UniqueLive' /\ Parsed' = {}
    BY <2>1, <2>2 DEF Posted, Live, UniqueLive, Parsed
  <2>5. Placed'
    BY <1>2, <2>2, <2>3, <2>4 DEF Placed
  <2> QED BY <1>2, <2>3, <2>4, <2>5 DEF PlaceInv, InOnePlace
<1> QED BY <1>3, <1>4 DEF ParseLoop

LEMMA PlaceOutside ==
  ASSUME TypeInv, PlaceInv, Outside
  PROVE  PlaceInv'
<1>1. UNCHANGED <<running, allocated, stopping, cur, deaf>> /\ TypeOK
  BY DEF Outside, ReadData, ReadFails, StackFetches, StackTakes, StackReturns, Unplug, TypeInv
<1>2. CASE ReadData \/ ReadFails
  <2>1. PICK status \in {"data", "error", "gone"} : TakeRead(status)
    BY <1>2 DEF ReadData, ReadFails
  <2>2. ~NoneYet
    BY <2>1 DEF NoneYet, TakeRead
  <2>3. CASE running
    <3>1. Placed /\ UniqueReads /\ UniqueLive
      BY <2>3 DEF PlaceInv, InOnePlace
    <3>2. /\ UniqueReads' /\ Head(reads) \notin Outstanding'
          /\ Outstanding = Outstanding' \cup {Head(reads)}
          /\ Posted' = Posted \cup {Head(reads)}
      BY <1>1, <2>1, <3>1, TakeReadPlaces
    <3>3. Head(reads) \notin Posted
      BY <3>1, <3>2 DEF Placed
    <3>4. UniqueLive'
      BY <1>1, <2>1, <3>1, <3>3, TakeReadPlaces
    <3>5. Parsed' = Parsed
      BY <1>1 DEF Parsed
    <3>6. Placed'
      BY <1>1, <3>1, <3>2, <3>5 DEF Placed
    <3> QED BY <1>1, <2>3, <3>2, <3>4, <3>6 DEF PlaceInv, InOnePlace
  <2> QED BY <1>1, <2>2, <2>3 DEF PlaceInv
<1>3. CASE StackFetches \/ StackTakes \/ StackReturns \/ Unplug
  <2>1. UNCHANGED <<reads, done, cur, deaf>>
    BY <1>3 DEF StackFetches, StackTakes, StackReturns, Unplug, usbVars
  <2> QED BY <1>1, <2>1, PlacesUnchanged DEF PlaceInv
<1> QED BY <1>2, <1>3 DEF Outside

LEMMA PlaceStep == TypeInv /\ PlaceInv /\ [Next]_vars => PlaceInv'
<1>1. UNCHANGED vars /\ PlaceInv => PlaceInv'
  <2> SUFFICES ASSUME UNCHANGED vars, PlaceInv PROVE PlaceInv'
    OBVIOUS
  <2>1. UNCHANGED <<reads, done, cur, deaf>> /\ UNCHANGED <<running, allocated, stopping>>
    BY DEF vars, usbVars
  <2> QED BY <2>1, PlacesUnchanged DEF PlaceInv
<1> QED BY <1>1, PlaceStartStop, PlaceDispatch, PlaceParseLoop, PlaceOutside DEF Next

\* While the driver runs, in every session, each IN buffer is at the controller,
\* in one completion, in the callback, or lost to a refused or gone read: two
\* reads never fill the same memory, and none fills it while it is parsed.
THEOREM EachBufferAlwaysInOnePlace == Spec => []EachBufferInOnePlace
<1>1. Init => PlaceInv
  BY DEF Init, PlaceInv
<1>2. TypeInv /\ PlaceInv /\ [Next]_vars => PlaceInv'
  BY PlaceStep
<1>3. PlaceInv => EachBufferInOnePlace
  BY DEF PlaceInv, InOnePlace, Placed, UniqueReads, UniqueLive, EachBufferInOnePlace
<1> QED BY <1>1, <1>2, <1>3, TypeInvariance, PTL DEF Spec

----------------------------------------------------------------------------
(***************************************************************************)
(* What FlattenSeq makes of a sequence that gains or loses an element.  It *)
(* is a recursive function, so that it has a value at all, and what value, *)
(* is shown from the least number for which it would not.                  *)
(***************************************************************************)
LEMMA LeastNumber ==
  ASSUME NEW T \in SUBSET Nat, T # {}
  PROVE  \E n \in T : \A m \in T : n <= m
<1>1. PICK n \in T : \A m \in T : <<m, n>> \notin OpToRel(<, Nat)
  BY NatLessThanWellFounded, WFMin
<1>2. \A m \in T : ~(m < n)
  BY <1>1 DEF OpToRel
<1> QED BY <1>2, SMT

\* f[i] is the first i sequences of s, one after the other.
RunOn(s, S) ==
  {f \in [0 .. Len(s) -> Seq(S)] :
     f[0] = <<>> /\ \A i \in 1 .. Len(s) : f[i] = f[i - 1] \o s[i]}

LEMMA FlattenIs ==
  ASSUME NEW S, NEW s \in Seq(Seq(S)), NEW f \in RunOn(s, S)
  PROVE  FlattenSeq(s) = f[Len(s)]
<1>0. /\ Len(s) \in Nat /\ s \in [1 .. Len(s) -> Seq(S)]
      /\ f \in [0 .. Len(s) -> Seq(S)] /\ f[0] = <<>>
      /\ \A i \in 1 .. Len(s) : f[i] = f[i - 1] \o s[i]
  BY LenProperties DEF RunOn
<1>1. CASE Len(s) = 0
  BY <1>0, <1>1, EmptySeq DEF FlattenSeq
<1>2. CASE Len(s) # 0
  <2> DEFINE Def(g) == [i \in 1 .. Len(s) |-> IF i = 1 THEN s[i] ELSE g[i - 1] \o s[i]]
             F == CHOOSE g : g = Def(g)
             h == [i \in 1 .. Len(s) |-> f[i]]
  <2>1. FlattenSeq(s) = F[Len(s)]
    BY <1>2 DEF FlattenSeq
  <2>2. h = Def(h)
    <3> SUFFICES ASSUME NEW i \in 1 .. Len(s)
                 PROVE  h[i] = IF i = 1 THEN s[i] ELSE h[i - 1] \o s[i]
      OBVIOUS
    <3>1. h[i] = f[i] /\ f[i] = f[i - 1] \o s[i]
      BY <1>0
    <3>2. CASE i = 1
      <4>1. f[i - 1] = <<>>
        BY <1>0, <3>2, SMT
      <4>2. s[i] \in Seq(S)
        BY <1>0
      <4>3. <<>> \o s[i] = s[i]
        BY <4>2, ConcatEmptySeq
      <4> QED BY <3>1, <3>2, <4>1, <4>3
    <3>3. CASE i # 1
      <4>1. i - 1 \in 1 .. Len(s)
        BY <1>0, <3>3, SMT
      <4>2. h[i - 1] = f[i - 1]
        BY <4>1
      <4> QED BY <3>1, <3>3, <4>2
    <3> QED BY <3>2, <3>3
  <2>3. F = Def(F)
    <3> HIDE DEF Def, h
    <3> QED BY <2>2
  <2>4. \A i \in 1 .. Len(s) : F[i] = IF i = 1 THEN s[i] ELSE F[i - 1] \o s[i]
    <3> HIDE DEF F
    <3> QED BY <2>3
  <2> HIDE DEF F, Def, h
  <2> DEFINE Wrong == {i \in 1 .. Len(s) : F[i] # f[i]}
  <2>5. Wrong = {}
    <3> SUFFICES ASSUME Wrong # {} PROVE FALSE
      OBVIOUS
    <3>1. Wrong \in SUBSET Nat
      BY <1>0, SMT
    <3>2. PICK n \in Wrong : \A m \in Wrong : n <= m
      <4> HIDE DEF Wrong
      <4> QED BY <3>1, LeastNumber
    <3>3. n \in 1 .. Len(s) /\ F[n] # f[n] /\ f[n] = f[n - 1] \o s[n]
      BY <1>0, <3>2
    <3>4. CASE n = 1
      <4>1. f[n - 1] = <<>> /\ s[n] \in Seq(S)
        BY <1>0, <3>3, <3>4, SMT
      <4> QED BY <2>4, <3>3, <3>4, <4>1, ConcatEmptySeq
    <3>5. CASE n # 1
      <4>1. n - 1 \in 1 .. Len(s) /\ ~(n <= n - 1)
        BY <1>0, <3>3, <3>5, SMT
      <4>2. F[n - 1] = f[n - 1]
        BY <3>2, <4>1
      <4> QED BY <2>4, <3>3, <3>5, <4>2
    <3> QED BY <3>4, <3>5
  <2>6. Len(s) \in 1 .. Len(s)
    BY <1>0, <1>2, SMT
  <2> QED BY <2>1, <2>5, <2>6
<1> QED BY <1>1, <1>2

\* Every s has one.
LEMMA PrefixesExist ==
  ASSUME NEW S, NEW s \in Seq(Seq(S))
  PROVE  RunOn(s, S) # {}
<1> DEFINE Up(n) == {f \in [0 .. n -> Seq(S)] :
                       f[0] = <<>> /\ \A i \in 1 .. n : f[i] = f[i - 1] \o s[i]}
           Stuck == {n \in 0 .. Len(s) : Up(n) = {}}
<1>0. Len(s) \in Nat /\ s \in [1 .. Len(s) -> Seq(S)] /\ <<>> \in Seq(S)
  BY LenProperties, EmptySeq
<1>1. Stuck = {}
  <2> SUFFICES ASSUME Stuck # {} PROVE FALSE
    OBVIOUS
  <2>1. Stuck \in SUBSET Nat
    <3>1. 0 .. Len(s) \subseteq Nat
      BY <1>0, SMT
    <3> QED BY <3>1
  <2>2. PICK n \in Stuck : \A m \in Stuck : n <= m
    <3> HIDE DEF Stuck
    <3> QED BY <2>1, LeastNumber
  <2>3. n \in 0 .. Len(s) /\ Up(n) = {}
    BY <2>2
  <2>4. CASE n = 0
    <3>1. [i \in 0 .. 0 |-> <<>>] \in Up(0)
      BY <1>0, SMT
    <3> QED BY <2>3, <2>4, <3>1
  <2>5. CASE n # 0
    <3>1. n - 1 \in 0 .. Len(s) /\ ~(n <= n - 1) /\ n \in 1 .. Len(s) /\ n \in Nat
      BY <1>0, <2>3, <2>5, SMT
    <3>2. PICK f \in Up(n - 1) : TRUE
      BY <2>2, <3>1
    <3> DEFINE g == [i \in 0 .. n |-> IF i = n THEN f[n - 1] \o s[n] ELSE f[i]]
    <3>3. f \in [0 .. n - 1 -> Seq(S)] /\ f[0] = <<>>
          /\ \A i \in 1 .. n - 1 : f[i] = f[i - 1] \o s[i]
      BY <3>2
    <3>4. /\ n - 1 \in 0 .. n - 1 /\ 0 # n /\ 0 \in 0 .. n
          /\ \A i \in 0 .. n : i # n => i \in 0 .. n - 1
          /\ \A i \in 1 .. n : i - 1 # n /\ i - 1 \in 0 .. n /\ i \in 0 .. n
          /\ \A i \in 1 .. n : i # n => i \in 1 .. n - 1
      BY <3>1, SMT
    <3>5. f[n - 1] \o s[n] \in Seq(S)
      BY <1>0, <3>1, <3>3, <3>4, ConcatProperties
    <3>6. g \in [0 .. n -> Seq(S)]
      BY <3>3, <3>4, <3>5
    <3>7. g[0] = <<>>
      BY <3>3, <3>4
    <3>8. ASSUME NEW i \in 1 .. n PROVE g[i] = g[i - 1] \o s[i]
      <4>1. g[i - 1] = f[i - 1]
        BY <3>4
      <4>2. CASE i = n
        BY <3>4, <4>1, <4>2
      <4>3. CASE i # n
        BY <3>3, <3>4, <4>1, <4>3
      <4> QED BY <4>2, <4>3
    <3>9. g \in Up(n)
      BY <3>6, <3>7, <3>8
    <3> QED BY <2>3, <3>9
  <2> QED BY <2>4, <2>5
<1>2. Len(s) \in 0 .. Len(s) /\ RunOn(s, S) = Up(Len(s))
  BY <1>0, SMT DEF RunOn
<1> QED BY <1>1, <1>2

LEMMA FlattenType ==
  ASSUME NEW S, NEW s \in Seq(Seq(S))
  PROVE  FlattenSeq(s) \in Seq(S)
<1>1. PICK f \in RunOn(s, S) : TRUE
  BY PrefixesExist
<1>2. Len(s) \in Nat /\ f \in [0 .. Len(s) -> Seq(S)]
  BY LenProperties DEF RunOn
<1>3. Len(s) \in 0 .. Len(s)
  BY <1>2, SMT
<1> QED BY <1>1, <1>2, <1>3, FlattenIs

\* One more sequence at the end.
LEMMA FlattenAppend ==
  ASSUME NEW S, NEW s \in Seq(Seq(S)), NEW e \in Seq(S)
  PROVE  FlattenSeq(Append(s, e)) = FlattenSeq(s) \o e
<1> DEFINE n == Len(s)
           t == Append(s, e)
<1>1. PICK f \in RunOn(s, S) : TRUE
  BY PrefixesExist
<1>2. /\ n \in Nat /\ f \in [0 .. n -> Seq(S)] /\ f[0] = <<>>
      /\ \A i \in 1 .. n : f[i] = f[i - 1] \o s[i]
  BY LenProperties DEF RunOn
<1>3. /\ t \in Seq(Seq(S)) /\ Len(t) = n + 1 /\ t[n + 1] = e
      /\ \A i \in 1 .. n : t[i] = s[i]
  BY AppendProperties
<1> HIDE DEF n, t
<1> DEFINE g == [i \in 0 .. n + 1 |-> IF i = n + 1 THEN f[n] \o e ELSE f[i]]
<1>4. /\ n \in 0 .. n /\ 0 # n + 1 /\ 0 \in 0 .. n + 1 /\ n + 1 \in 0 .. n + 1
      /\ \A i \in 0 .. n + 1 : i # n + 1 => i \in 0 .. n
      /\ \A i \in 1 .. n + 1 : i - 1 # n + 1 /\ i - 1 \in 0 .. n + 1 /\ i \in 0 .. n + 1
      /\ \A i \in 1 .. n + 1 : i # n + 1 => i \in 1 .. n
      /\ (n + 1) - 1 = n
  BY <1>2, SMT
<1>5. f[n] \o e \in Seq(S)
  BY <1>2, <1>4, ConcatProperties
<1>6. g \in [0 .. n + 1 -> Seq(S)] /\ g[0] = <<>>
  BY <1>2, <1>4, <1>5
<1>7. ASSUME NEW i \in 1 .. n + 1 PROVE g[i] = g[i - 1] \o t[i]
  <2>1. g[i - 1] = f[i - 1]
    BY <1>4
  <2>2. CASE i = n + 1
    BY <1>3, <1>4, <2>1, <2>2
  <2>3. CASE i # n + 1
    BY <1>2, <1>3, <1>4, <2>1, <2>3
  <2> QED BY <2>2, <2>3
<1>8. g \in RunOn(t, S)
  BY <1>3, <1>6, <1>7 DEF RunOn
<1>9. FlattenSeq(t) = g[n + 1] /\ FlattenSeq(s) = f[n]
  BY <1>1, <1>3, <1>8, FlattenIs DEF n
<1> QED BY <1>4, <1>9 DEF t

\* The first sequence comes first.
LEMMA FlattenTail ==
  ASSUME NEW S
  PROVE  \A s \in Seq(Seq(S)) : s # <<>> => FlattenSeq(s) = Head(s) \o FlattenSeq(Tail(s))
<1>0. \A a, b, c \in Seq(S) : (a \o b) \o c = a \o (b \o c)
  <2> SUFFICES ASSUME NEW a \in Seq(S), NEW b \in Seq(S), NEW c \in Seq(S)
               PROVE  (a \o b) \o c = a \o (b \o c)
    OBVIOUS
  <2> QED BY ConcatAssociative
<1> SUFFICES ASSUME NEW s \in Seq(Seq(S)), s # <<>>
             PROVE  FlattenSeq(s) = Head(s) \o FlattenSeq(Tail(s))
  OBVIOUS
<1> DEFINE n == Len(s)
           t == Tail(s)
<1>1. PICK f \in RunOn(t, S) : TRUE
  BY PrefixesExist, HeadTailProperties
<1>2. /\ n \in Nat /\ n > 0 /\ t \in Seq(Seq(S)) /\ Len(t) = n - 1
      /\ \A i \in 1 .. n - 1 : t[i] = s[i + 1]
      /\ Head(s) = s[1] /\ s[1] \in Seq(S)
  <2>1. n \in Nat /\ n > 0 /\ s \in [1 .. n -> Seq(S)]
    BY LenProperties, EmptySeq, SMT
  <2>2. t \in Seq(Seq(S)) /\ Len(t) = n - 1 /\ \A i \in 1 .. Len(t) : t[i] = s[i + 1]
    BY HeadTailProperties
  <2>3. 1 \in 1 .. n
    BY <2>1, SMT
  <2> QED BY <2>1, <2>2, <2>3, SMT
<1>3. /\ f \in [0 .. n - 1 -> Seq(S)] /\ f[0] = <<>>
      /\ \A i \in 1 .. n - 1 : f[i] = f[i - 1] \o t[i]
  BY <1>2 DEF RunOn
<1> HIDE DEF n, t
<1> DEFINE g == [i \in 0 .. n |-> IF i = 0 THEN <<>> ELSE s[1] \o f[i - 1]]
<1>4. /\ 0 \in 0 .. n /\ n \in 0 .. n /\ n # 0 /\ n - 1 \in 0 .. n - 1 /\ 0 \in 0 .. n - 1
      /\ \A i \in 0 .. n : i # 0 => i - 1 \in 0 .. n - 1
      /\ \A i \in 1 .. n : i \in 0 .. n /\ i # 0 /\ i - 1 \in 0 .. n
      /\ \A i \in 1 .. n : i # 1 => i - 1 # 0 /\ i - 1 \in 1 .. n - 1 /\ (i - 1) + 1 = i
                                    /\ (i - 1) - 1 \in 0 .. n - 1 /\ i - 1 \in 0 .. n - 1
  BY <1>2, SMT
<1>5. \A i \in 0 .. n - 1 : s[1] \o f[i] \in Seq(S)
  BY <1>2, <1>3, ConcatProperties
<1>6. g \in [0 .. n -> Seq(S)] /\ g[0] = <<>>
  BY <1>4, <1>5, EmptySeq
<1>7. ASSUME NEW i \in 1 .. n PROVE g[i] = g[i - 1] \o s[i]
  <2>1. g[i] = s[1] \o f[i - 1]
    BY <1>4
  <2>2. CASE i = 1
    <3>1. f[i - 1] = <<>> /\ g[i - 1] = <<>>
      BY <1>3, <1>6, <2>2, SMT
    <3> QED BY <1>2, <2>1, <2>2, <3>1, ConcatEmptySeq
  <2>3. CASE i # 1
    <3>1. g[i - 1] = s[1] \o f[(i - 1) - 1]
      BY <1>4, <2>3
    <3>2. i - 1 \in 1 .. n - 1 /\ t[i - 1] = s[i]
      <4>1. i - 1 \in 1 .. n - 1 /\ (i - 1) + 1 = i
        BY <1>4, <2>3
      <4> QED BY <1>2, <4>1
    <3> DEFINE h == f[(i - 1) - 1]
    <3>3. f[i - 1] = h \o s[i]
      BY <1>3, <3>2
    <3>4. s[i] \in Seq(S) /\ s[1] \in Seq(S)
      BY <1>2, LenProperties DEF n
    <3>5. h \in Seq(S)
      BY <1>3, <1>4, <2>3
    <3> HIDE DEF h
    <3>6. (s[1] \o h) \o s[i] = s[1] \o (h \o s[i])
      BY <1>0, <3>4, <3>5
    <3> QED BY <2>1, <3>1, <3>3, <3>6 DEF h
  <2> QED BY <2>2, <2>3
<1>8. g \in RunOn(s, S)
  BY <1>6, <1>7 DEF RunOn, n
<1>9. FlattenSeq(s) = g[n] /\ FlattenSeq(t) = f[n - 1]
  BY <1>1, <1>2, <1>8, FlattenIs DEF n
<1> QED BY <1>2, <1>4, <1>9 DEF t

\* Nothing but empty sequences.
LEMMA FlattenNothing ==
  ASSUME NEW S, NEW s \in Seq(Seq(S)), \A i \in 1 .. Len(s) : s[i] = <<>>
  PROVE  FlattenSeq(s) = <<>>
<1> DEFINE g == [i \in 0 .. Len(s) |-> <<>>]
<1>0. Len(s) \in Nat /\ <<>> \in Seq(S)
  BY LenProperties, EmptySeq
<1>1. /\ 0 \in 0 .. Len(s) /\ Len(s) \in 0 .. Len(s)
      /\ \A i \in 1 .. Len(s) : i \in 0 .. Len(s) /\ i - 1 \in 0 .. Len(s)
  BY <1>0, SMT
<1>2. g \in [0 .. Len(s) -> Seq(S)] /\ g[0] = <<>> /\ g[Len(s)] = <<>>
  BY <1>0, <1>1
<1>3. ASSUME NEW i \in 1 .. Len(s) PROVE g[i] = g[i - 1] \o s[i]
  <2>1. <<>> \o <<>> = <<>>
    BY <1>0, ConcatEmptySeq
  <2> QED BY <1>1, <2>1
<1>4. g \in RunOn(s, S)
  BY <1>2, <1>3 DEF RunOn
<1> QED BY <1>2, <1>4, FlattenIs

----------------------------------------------------------------------------
(***************************************************************************)
(* The frames of a buffer the parser will take.                            *)
(***************************************************************************)
GoodCount(m) == Cardinality({i \in DOMAIN m : \A j \in 1 .. i : m[j] # Bad})

LEMMA GoodCountFacts ==
  ASSUME NEW m \in Seq(Messages)
  PROVE  /\ Len(m) \in Nat /\ GoodCount(m) \in 0 .. Len(m)
         /\ \A i \in 1 .. GoodCount(m) : m[i] \in Frames
         /\ GoodCount(m) < Len(m) => m[GoodCount(m) + 1] = Bad
<1> DEFINE Goods == {i \in DOMAIN m : \A j \in 1 .. i : m[j] # Bad}
           Bads  == {i \in 1 .. Len(m) : m[i] = Bad}
<1>0. Len(m) \in Nat /\ DOMAIN m = 1 .. Len(m) /\ \A i \in 1 .. Len(m) : m[i] \in Messages
  BY LenProperties
<1>1. \A n \in Nat : Cardinality(1 .. n) = n
  <2> SUFFICES ASSUME NEW n \in Nat PROVE Cardinality(1 .. n) = n
    OBVIOUS
  <2> QED BY FS_Interval, SMT
<1>2. PICK n \in 0 .. Len(m) : /\ \A i \in 1 .. n : m[i] # Bad
                               /\ n < Len(m) => m[n + 1] = Bad
  <2>1. CASE Bads = {}
    BY <1>0, <2>1, SMT
  <2>2. CASE Bads # {}
    <3>1. Bads \in SUBSET Nat
      <4>1. 1 .. Len(m) \subseteq Nat
        BY <1>0, SMT
      <4> QED BY <4>1
    <3>2. PICK k \in Bads : \A i \in Bads : k <= i
      <4> HIDE DEF Bads
      <4> QED BY <2>2, <3>1, LeastNumber
    <3>3. /\ k \in 1 .. Len(m) /\ m[k] = Bad /\ k - 1 \in 0 .. Len(m) /\ (k - 1) + 1 = k
          /\ \A i \in 1 .. k - 1 : i \in 1 .. Len(m) /\ ~(k <= i)
      BY <1>0, <3>2, SMT
    <3>4. \A i \in 1 .. k - 1 : m[i] # Bad
      BY <3>2, <3>3
    <3> QED BY <3>3, <3>4
  <2> QED BY <2>1, <2>2
<1>3. Goods = 1 .. n
  <2>1. /\ n \in Nat /\ \A i \in 1 .. n : i \in 1 .. Len(m) /\ \A j \in 1 .. i : j \in 1 .. n
        /\ \A i \in 1 .. Len(m) : i \notin 1 .. n => n + 1 \in 1 .. i /\ n < Len(m)
    BY <1>0, SMT
  <2>2. \A i \in 1 .. n : i \in Goods
    BY <1>0, <1>2, <2>1
  <2>3. \A i \in Goods : i \in 1 .. n
    BY <1>0, <1>2, <2>1
  <2> QED BY <2>2, <2>3
<1>4. GoodCount(m) = n
  <2> HIDE DEF Goods
  <2>1. n \in Nat
    BY <1>0, SMT
  <2>2. Cardinality(Goods) = n
    BY <1>1, <1>3, <2>1
  <2> QED BY <2>2 DEF GoodCount, Goods
<1>5. \A i \in 1 .. n : m[i] \in Frames
  <2>1. \A i \in 1 .. n : i \in 1 .. Len(m)
    BY <1>0, SMT
  <2> QED BY <1>0, <1>2, <2>1 DEF Messages
<1> QED BY <1>0, <1>2, <1>4, <1>5

LEMMA GoodFramesFacts ==
  ASSUME NEW m \in Seq(Messages), NEW k \in Nat
  PROVE  /\ GoodFrames(m, k) \in Seq(Frames)
         /\ k >= GoodCount(m) => GoodFrames(m, k) = <<>>
         /\ k < GoodCount(m) => /\ GoodFrames(m, k) # <<>>
                                /\ Head(GoodFrames(m, k)) = m[k + 1]
                                /\ Tail(GoodFrames(m, k)) = GoodFrames(m, k + 1)
<1> DEFINE n == GoodCount(m)
<1>0. /\ Len(m) \in Nat /\ n \in 0 .. Len(m) /\ n \in Int /\ k + 1 \in Int
      /\ \A i \in k + 1 .. n : m[i] \in Frames
  <2>1. Len(m) \in Nat /\ n \in 0 .. Len(m) /\ \A i \in 1 .. n : m[i] \in Frames
    BY GoodCountFacts
  <2>2. n \in Int /\ k + 1 \in Int /\ \A i \in k + 1 .. n : i \in 1 .. n
    BY <2>1, SMT
  <2> QED BY <2>1, <2>2
<1>1. GoodFrames(m, k) = SubSeq(m, k + 1, n) /\ GoodFrames(m, k + 1) = SubSeq(m, (k + 1) + 1, n)
  BY DEF GoodFrames, GoodCount
<1> HIDE DEF n
<1>2. /\ SubSeq(m, k + 1, n) \in Seq(Frames)
      /\ Len(SubSeq(m, k + 1, n)) = IF k + 1 <= n THEN n - (k + 1) + 1 ELSE 0
  BY <1>0, SubSeqProperties
<1>3. CASE k >= n
  <2>1. n < k + 1
    BY <1>0, <1>3, SMT
  <2>2. SubSeq(m, k + 1, n) = <<>>
    BY <1>0, <2>1, SubSeqEmpty
  <2>3. ~(k < n)
    BY <1>0, <1>3, SMT
  <2> QED BY <1>1, <1>2, <2>2, <2>3 DEF n
<1>4. CASE k < n
  <2>1. k + 1 \in 1 .. Len(m) /\ n \in (k + 1) .. Len(m) /\ ~(k >= n)
    BY <1>0, <1>4, SMT
  <2>2. Head(SubSeq(m, k + 1, n)) = m[k + 1] /\ Tail(SubSeq(m, k + 1, n)) = SubSeq(m, (k + 1) + 1, n)
    BY <2>1, HeadTailOfSubSeq
  <2>3. Len(SubSeq(m, k + 1, n)) # 0
    BY <1>0, <1>2, <1>4, SMT
  <2>4. SubSeq(m, k + 1, n) # <<>>
    BY <2>3, EmptySeq
  <2> QED BY <1>1, <1>2, <2>1, <2>2, <2>4 DEF n
<1> QED BY <1>0, <1>3, <1>4, SMT

\* The turn of the loop at pos: a frame is the next of the good ones, a message
\* that fails ends them.
LEMMA TurnFacts ==
  ASSUME NEW m \in Seq(Messages), NEW k \in Nat, k <= GoodCount(m)
  PROVE  /\ k < Len(m) /\ m[k + 1] # Bad => k < GoodCount(m) /\ k + 1 <= GoodCount(m)
         /\ (k < Len(m) => m[k + 1] = Bad) => k >= GoodCount(m)
<1> DEFINE n == GoodCount(m)
<1>1. /\ Len(m) \in Nat /\ n \in 0 .. Len(m) /\ k <= n
      /\ \A i \in 1 .. n : m[i] # Bad
      /\ n < Len(m) => m[n + 1] = Bad
  <2>1. \A f \in Frames : f # Bad
    BY BufferFacts, SMT DEF Frames, Bad
  <2> QED BY <2>1, GoodCountFacts
<1>2. /\ k < Len(m) /\ m[k + 1] # Bad => k < n /\ k + 1 <= n
      /\ (k < Len(m) => m[k + 1] = Bad) => k >= n
  <2> HIDE DEF n
  <2>1. CASE k = n
    BY <1>1, <2>1, SMT
  <2>2. CASE k # n
    <3>1. k < n /\ k + 1 <= n /\ k < Len(m) /\ k + 1 \in 1 .. n
      BY <1>1, <2>2, SMT
    <3> QED BY <1>1, <3>1
  <2> QED BY <2>1, <2>2
<1> QED BY <1>2

----------------------------------------------------------------------------
(***************************************************************************)
(* The pending frames: those of the buffer being parsed, then those of     *)
(* each completion in turn.                                                *)
(***************************************************************************)
Now   == IF cur = NoBuffer THEN <<>> ELSE GoodFrames(content[cur], pos)
Parts == [i \in DOMAIN done |->
            IF done[i].status = "data" THEN GoodFrames(content[done[i].buf], 0) ELSE <<>>]

\* The loop never runs past the good frames of its buffer.
ParseInv == cur # NoBuffer => pos <= GoodCount(content[cur])

LEMMA PendingIs == Pending = IF running THEN Now \o FlattenSeq(Parts) ELSE <<>>
BY DEF Pending, Now, Parts

PartsOK ==
  /\ Now \in Seq(Frames) /\ Parts \in Seq(Seq(Frames)) /\ FlattenSeq(Parts) \in Seq(Frames)
  /\ Len(Parts) = Len(done) /\ DOMAIN Parts = DOMAIN done

LEMMA PartsType == TypeOK => PartsOK
<1> SUFFICES ASSUME TypeOK PROVE PartsOK
  OBVIOUS
<1>0. Len(done) \in Nat /\ DOMAIN done = 1 .. Len(done) /\ done \in [1 .. Len(done) -> Completions]
  BY LenProperties DEF TypeOK
<1>1. \A b \in Buffers : content[b] \in Seq(Messages)
  BY DEF TypeOK
<1>2. <<>> \in Seq(Frames) /\ 0 \in Nat
  BY SMT
<1>3. \A b \in Buffers, k \in Nat : GoodFrames(content[b], k) \in Seq(Frames)
  BY <1>1, GoodFramesFacts
<1>4. \A i \in 1 .. Len(done) : done[i].buf \in Buffers
  BY <1>0 DEF Completions
<1>5. Parts \in [1 .. Len(done) -> Seq(Frames)]
  BY <1>0, <1>2, <1>3, <1>4 DEF Parts
<1>6. Parts \in Seq(Seq(Frames)) /\ Len(Parts) = Len(done) /\ DOMAIN Parts = DOMAIN done
  BY <1>0, <1>5, FunctionIsSeq
<1>7. Now \in Seq(Frames)
  BY <1>2, <1>3 DEF Now, TypeOK
<1> QED BY <1>6, <1>7, FlattenType DEF PartsOK

LEMMA PartsTypeNext == TypeOK' => PartsOK'
BY PartsType, PTL

LEMMA PartsStay ==
  ASSUME TypeOK, done' = done, \A b \in Posted : content'[b] = content[b]
  PROVE  Parts' = Parts
<1>1. \A i \in DOMAIN done : done[i].status = "data" => content'[done[i].buf] = content[done[i].buf]
  BY DEF Posted, Live
<1> QED BY <1>1 DEF Parts

\* A completion leaves the dispatch queue.
LEMMA PartsLeave ==
  ASSUME TypeOK, done # <<>>, done' = Tail(done), TypeOK',
         \A b \in Posted' : content'[b] = content[b]
  PROVE  FlattenSeq(Parts) =
           (IF Head(done).status = "data" THEN GoodFrames(content[Head(done).buf], 0) ELSE <<>>)
             \o FlattenSeq(Parts')
<1>1. /\ Head(done) = done[1] /\ 1 \in DOMAIN done
      /\ \A i \in DOMAIN Tail(done) : i + 1 \in DOMAIN done /\ Tail(done)[i] = done[i + 1]
  BY TailFacts DEF TypeOK
<1>2. /\ Parts \in Seq(Seq(Frames)) /\ Len(Parts) = Len(done) /\ DOMAIN Parts = DOMAIN done
      /\ Parts' \in Seq(Seq(Frames)) /\ Len(Parts') = Len(done') /\ DOMAIN Parts' = DOMAIN done'
  BY PartsType, PartsTypeNext DEF PartsOK
<1>3. Parts # <<>>
  <2>1. Len(done) # 0
    BY EmptySeq DEF TypeOK
  <2> QED BY <1>2, <2>1, EmptySeq
<1>4. /\ Tail(Parts) \in Seq(Seq(Frames)) /\ Len(Tail(Parts)) = Len(Parts) - 1
      /\ \A i \in 1 .. Len(Tail(Parts)) : Tail(Parts)[i] = Parts[i + 1]
  BY <1>2, <1>3, HeadTailProperties
<1>5. Len(done') = Len(done) - 1 /\ DOMAIN done' = 1 .. Len(done')
  BY HeadTailProperties, LenProperties DEF TypeOK
<1>6. \A i \in DOMAIN done' : done'[i].status = "data" => content'[done'[i].buf] = content[done'[i].buf]
  BY DEF Posted, Live
<1>7. \A i \in DOMAIN done' : Parts'[i] = Parts[i + 1]
  <2> SUFFICES ASSUME NEW i \in DOMAIN done' PROVE Parts'[i] = Parts[i + 1]
    OBVIOUS
  <2>1. Parts'[i] = IF done'[i].status = "data" THEN GoodFrames(content'[done'[i].buf], 0) ELSE <<>>
    BY DEF Parts
  <2>2. i + 1 \in DOMAIN done /\ done'[i] = done[i + 1]
    BY <1>1
  <2>3. Parts[i + 1] = IF done[i + 1].status = "data"
                         THEN GoodFrames(content[done[i + 1].buf], 0) ELSE <<>>
    BY <2>2 DEF Parts
  <2> QED BY <1>6, <2>1, <2>2, <2>3
<1>8. Tail(Parts) = Parts'
  <2>1. Len(Tail(Parts)) = Len(Parts')
    BY <1>2, <1>4, <1>5
  <2>2. \A i \in 1 .. Len(Tail(Parts)) : Tail(Parts)[i] = Parts'[i]
    BY <1>2, <1>4, <1>5, <1>7, <2>1
  <2> QED BY <1>2, <1>4, <2>1, <2>2, SeqEqual
<1>9. Head(Parts) = Parts[1]
  BY <1>2, <1>3, EmptySeq, SMT
<1>10. Parts[1] = IF Head(done).status = "data" THEN GoodFrames(content[Head(done).buf], 0) ELSE <<>>
  BY <1>1 DEF Parts
<1>11. FlattenSeq(Parts) = Head(Parts) \o FlattenSeq(Tail(Parts))
  BY <1>2, <1>3, FlattenTail
<1> QED BY <1>8, <1>9, <1>10, <1>11

\* A read completes.
LEMMA PartsArrive ==
  ASSUME TypeOK, TypeOK', NEW status \in {"data", "error", "gone"}, TakeRead(status),
         \A b \in Posted : content'[b] = content[b]
  PROVE  FlattenSeq(Parts') =
           FlattenSeq(Parts)
             \o (IF status = "data" THEN GoodFrames(content'[Head(reads)], 0) ELSE <<>>)
<1> DEFINE c == [buf |-> Head(reads), status |-> status]
           e == IF status = "data" THEN GoodFrames(content'[Head(reads)], 0) ELSE <<>>
<1>1. Head(reads) \in Buffers
  BY TailFacts DEF TypeOK, TakeRead
<1>2. c \in Completions /\ c.buf = Head(reads) /\ c.status = status
  BY <1>1 DEF Completions
<1>3. done' = Append(done, c)
  BY DEF TakeRead
<1>4. e \in Seq(Frames)
  <2>1. content'[Head(reads)] \in Seq(Messages) /\ 0 \in Nat /\ <<>> \in Seq(Frames)
    BY <1>1, SMT DEF TypeOK
  <2> QED BY <2>1, GoodFramesFacts
<1> HIDE DEF c
<1>5. /\ DOMAIN done' = DOMAIN done \cup {Len(done) + 1} /\ Len(done) + 1 \notin DOMAIN done
      /\ done'[Len(done) + 1] = c /\ Len(done') = Len(done) + 1
      /\ \A i \in DOMAIN done : done'[i] = done[i]
  <2>1. done \in Seq(Completions)
    BY DEF TypeOK
  <2>2. c \in Completions
    BY <1>2
  <2> QED BY <1>3, <2>1, <2>2, AppendFacts
<1>6. /\ Parts \in Seq(Seq(Frames)) /\ Len(Parts) = Len(done) /\ DOMAIN Parts = DOMAIN done
      /\ Parts' \in Seq(Seq(Frames)) /\ Len(Parts') = Len(done') /\ DOMAIN Parts' = DOMAIN done'
  BY PartsType, PartsTypeNext DEF PartsOK
<1>7. Parts'[Len(done) + 1] = e
  BY <1>2, <1>5 DEF Parts
<1>8. \A i \in DOMAIN done : done[i].status = "data" => content'[done[i].buf] = content[done[i].buf]
  BY DEF Posted, Live
<1>9. \A i \in DOMAIN done : Parts'[i] = Parts[i]
  BY <1>5, <1>8 DEF Parts
<1> HIDE DEF e
<1>10. /\ Append(Parts, e) \in Seq(Seq(Frames)) /\ Len(Append(Parts, e)) = Len(Parts) + 1
       /\ DOMAIN Append(Parts, e) = DOMAIN Parts \cup {Len(Parts) + 1}
       /\ Append(Parts, e)[Len(Parts) + 1] = e
       /\ \A i \in DOMAIN Parts : Append(Parts, e)[i] = Parts[i]
  BY <1>4, <1>6, AppendFacts
<1>11. Parts' = Append(Parts, e)
  <2>1. \A i \in DOMAIN Parts' : Parts'[i] = Append(Parts, e)[i]
    BY <1>5, <1>6, <1>7, <1>9, <1>10
  <2>2. 1 .. Len(Parts') = DOMAIN Parts' /\ Len(Parts') = Len(Append(Parts, e))
    BY <1>5, <1>6, <1>10, LenProperties
  <2> QED BY <1>6, <1>10, <2>1, <2>2, SeqEqual
<1>12. FlattenSeq(Append(Parts, e)) = FlattenSeq(Parts) \o e
  BY <1>4, <1>6, FlattenAppend
<1> QED BY <1>11, <1>12 DEF e

----------------------------------------------------------------------------
(***************************************************************************)
(* Each step of the receive path is a step of FrameFlow, or leaves its     *)
(* variables alone.                                                        *)
(***************************************************************************)
FlowInv == TypeInv /\ PlaceInv /\ ParseInv

FlowStep == [Flow!Next]_Flow!vars

\* What pends after a step in which the buffers of completions keep their frames.
LEMMA PendingStays ==
  ASSUME TypeInv, UNCHANGED <<running, done, cur, pos>>, \A b \in Posted : content'[b] = content[b],
         cur # NoBuffer => content'[cur] = content[cur]
  PROVE  Pending' = Pending
<1>1. Parts' = Parts
  BY PartsStay DEF TypeInv
<1>2. Now' = Now
  BY DEF Now
<1> QED BY <1>1, <1>2 DEF Pending, Now, Parts

LEMMA ConcatFacts ==
  ASSUME NEW S, NEW s \in Seq(S), NEW t \in Seq(S), s # <<>>
  PROVE  s \o t # <<>> /\ Head(s \o t) = Head(s) /\ Tail(s \o t) = Tail(s) \o t
OBVIOUS

\* A longer sequence of pending frames.
LEMMA PrefixFacts ==
  ASSUME NEW S, NEW s \in Seq(S), NEW t \in Seq(S)
  PROVE  s \o t \in Seq(S) /\ \E n \in 0 .. Len(s \o t) : s = SubSeq(s \o t, 1, n)
<1>1. /\ s \o t \in Seq(S) /\ Len(s \o t) = Len(s) + Len(t) /\ Len(s) \in Nat /\ Len(t) \in Nat
  BY ConcatProperties, LenProperties
<1>2. Len(s) \in 0 .. Len(s \o t)
  BY <1>1, SMT
<1>3. s = SubSeq(s \o t, 1, Len(s))
  <2>1. CASE s = <<>>
    BY <2>1, SubSeqEmpty, EmptySeq, SMT
  <2>2. CASE s # <<>>
    <3>1. 1 \in 1 .. Len(s) /\ Len(s) \in 1 .. Len(s)
      BY <1>1, <2>2, EmptySeq, SMT
    <3> QED BY <3>1, SubSeqOfConcat1, SubSeqFull
  <2> QED BY <2>1, <2>2
<1> QED BY <1>1, <1>2, <1>3

LEMMA LongerPending ==
  ASSUME NEW S
  PROVE  \A a, b, c \in Seq(S) : a \o b \in Seq(S) /\ a \o (b \o c) = (a \o b) \o c
<1> SUFFICES ASSUME NEW a \in Seq(S), NEW b \in Seq(S), NEW c \in Seq(S)
             PROVE  a \o b \in Seq(S) /\ a \o (b \o c) = (a \o b) \o c
  OBVIOUS
<1> QED BY ConcatProperties, ConcatAssociative

LEMMA StartStopFlow ==
  ASSUME FlowInv, TypeOK', StartStop
  PROVE  FlowStep /\ ParseInv'
<1>0. TypeInv /\ PlaceInv /\ TypeOK
  BY DEF FlowInv, TypeInv
<1>1. cur = NoBuffer /\ cur' = NoBuffer /\ queued' = queued
  BY DEF StartStop, Allocate, ScheduleInboundReads, StartBails, StopBegins, Release, QueueFree,
     stackVars
<1>2. ParseInv'
  BY <1>1 DEF ParseInv
<1>3. CASE Allocate \/ StartBails \/ Release
  <2>1. ~running /\ ~running'
    BY <1>0, <1>3 DEF Allocate, StartBails, Release, TypeInv, Flags
  <2>2. running' = running
    BY <1>0, <1>3, <2>1 DEF Allocate, StartBails, Release, TypeOK
  <2>3. Pending' = Pending
    BY <2>1 DEF Pending
  <2> QED BY <1>1, <1>2, <2>2, <2>3 DEF FlowStep, Flow!vars
<1>4. CASE ScheduleInboundReads
  <2>1. ~running /\ running' /\ Live' = {} /\ TypeOK'
    BY <1>0, <1>4 DEF ScheduleInboundReads, PlaceInv, NoneYet, Live
  <2>2. \A i \in DOMAIN done' : done'[i].status # "data"
    BY <2>1 DEF Live
  <2>3. Parts' \in Seq(Seq(Frames)) /\ DOMAIN Parts' = 1 .. Len(Parts') /\ DOMAIN Parts' = DOMAIN done'
    BY PartsTypeNext, LenProperties DEF PartsOK
  <2>4. \A i \in 1 .. Len(Parts') : Parts'[i] = <<>>
    BY <2>2, <2>3 DEF Parts
  <2>5. FlattenSeq(Parts') = <<>>
    BY <2>3, <2>4, FlattenNothing
  <2>6. Now' = <<>>
    BY <1>1 DEF Now
  <2>7. <<>> \o <<>> = <<>>
    BY ConcatEmptySeq, EmptySeq
  <2>8. Pending' = <<>> /\ Pending = <<>>
    BY <2>1, <2>5, <2>6, <2>7 DEF Pending, Now, Parts
  <2> QED BY <1>1, <1>2, <2>1, <2>8 DEF FlowStep, Flow!Next, Flow!Open
<1>5. CASE StopBegins
  <2>1. running /\ ~running' /\ Pending' = <<>>
    BY <1>5 DEF StopBegins, Pending
  <2> QED BY <1>1, <1>2, <2>1 DEF FlowStep, Flow!Next, Flow!Cut
<1> QED BY <1>3, <1>4, <1>5 DEF StartStop

LEMMA RearmKeeps ==
  ASSUME TypeOK, NEW b, Rearm(b)
  PROVE  \A x \in Buffers : x # b => content'[x] = content[x]
BY DEF Rearm, TypeOK

LEMMA DispatchFlow ==
  ASSUME FlowInv, TypeOK', Dispatch
  PROVE  FlowStep /\ ParseInv'
<1>0. /\ TypeInv /\ PlaceInv /\ TypeOK /\ cur = NoBuffer /\ done # <<>> /\ done' = Tail(done)
      /\ running' = running /\ queued' = queued
      /\ Head(done) \in Completions /\ Head(done).buf \in Buffers
  <2>1. /\ TypeInv /\ PlaceInv /\ TypeOK /\ cur = NoBuffer /\ done # <<>> /\ done' = Tail(done)
        /\ running' = running /\ queued' = queued
    BY DEF FlowInv, TypeInv, Dispatch, IgnoreCompletion, ReadFailed, ReadSucceeded, QueueFree, stackVars
  <2> QED BY <2>1, HeadFacts
<1>1. ParseInv'
  <2>1. CASE ReadSucceeded
    <3>1. cur' \in Buffers /\ pos' = 0 /\ content'[cur'] \in Seq(Messages)
      BY <1>0, <2>1 DEF ReadSucceeded, TypeOK
    <3>2. GoodCount(content'[cur']) \in 0 .. Len(content'[cur'])
      BY <3>1, GoodCountFacts
    <3>3. pos' <= GoodCount(content'[cur'])
      <4>1. Len(content'[cur']) \in Nat
        BY <3>1, LenProperties
      <4> QED BY <3>1, <3>2, <4>1, SMT
    <3> QED BY <3>3 DEF ParseInv, GoodCount
  <2>2. CASE ~ReadSucceeded
    BY <1>0, <2>2 DEF Dispatch, IgnoreCompletion, ReadFailed, ParseInv
  <2> QED BY <2>1, <2>2
<1>2. CASE ~running
  BY <1>0, <1>1, <1>2 DEF FlowStep, Flow!vars, Pending
<1>3. CASE running
  <2> DEFINE first == IF Head(done).status = "data"
                        THEN GoodFrames(content[Head(done).buf], 0) ELSE <<>>
  <2>0. UniqueLive /\ Placed
    BY <1>0, <1>3 DEF PlaceInv, InOnePlace
  <2>1. \A b \in Posted' : content'[b] = content[b]
    <3>1. CASE IgnoreCompletion \/ ReadSucceeded
      BY <3>1 DEF IgnoreCompletion, ReadSucceeded, EarlyReturn
    <3>2. CASE ReadFailed
      <4>1. Rearm(Head(done).buf) /\ Head(done).status # "aborted"
        BY <3>2 DEF ReadFailed, AfterError
      <4>2. Head(done).buf \notin Posted' /\ Posted' \subseteq Posted
        BY <1>0, <2>0, <4>1, DispatchPlaces
      <4>3. Posted' \subseteq Buffers
        BY <2>0, <4>2 DEF Placed
      <4> QED BY <1>0, <4>1, <4>2, <4>3, RearmKeeps
    <3> QED BY <3>1, <3>2 DEF Dispatch
  <2>2. FlattenSeq(Parts) = first \o FlattenSeq(Parts')
    BY <1>0, <2>1, PartsLeave
  <2>3. FlattenSeq(Parts) \in Seq(Frames) /\ FlattenSeq(Parts') \in Seq(Frames)
    BY <1>0, PartsType, PartsTypeNext DEF PartsOK
  <2>4. \A s \in Seq(Frames) : <<>> \o s = s
    BY ConcatEmptySeq
  <2>5. Pending = FlattenSeq(Parts)
    BY <1>0, <1>3, <2>3, <2>4, PendingIs DEF Now
  <2>6. Pending' = Now' \o FlattenSeq(Parts')
    BY <1>0, <1>3 DEF Pending, Now, Parts
  <2>7. Now' = first
    <3>1. CASE ReadSucceeded
      BY <1>0, <3>1, NoBufferAssumption DEF ReadSucceeded, Now
    <3>2. CASE IgnoreCompletion \/ ReadFailed
      <4>1. Head(done).status # "data" /\ cur' = NoBuffer
        BY <1>0, <1>3, <3>2 DEF IgnoreCompletion, ReadFailed, Ignored
      <4> QED BY <4>1 DEF Now
    <3> QED BY <3>1, <3>2 DEF Dispatch
  <2> HIDE DEF first
  <2>8. Pending' = Pending
    BY <2>2, <2>5, <2>6, <2>7
  <2> QED BY <1>0, <1>1, <2>8 DEF FlowStep, Flow!vars
<1> QED BY <1>2, <1>3

LEMMA ParseLoopFlow ==
  ASSUME FlowInv, TypeOK', ParseLoop
  PROVE  FlowStep /\ ParseInv'
<1> DEFINE m == content[cur]
           rest == FlattenSeq(Parts)
<1>0. /\ TypeInv /\ PlaceInv /\ TypeOK /\ cur # NoBuffer /\ cur \in Buffers
      /\ running /\ running' = running
      /\ done' = done
  <2>1. cur # NoBuffer /\ done' = done /\ running' = running
    BY DEF ParseLoop, EnqueuePacket, EnqueueRefused, DropFrame, FinishBuffer, More, LoopOver, usbVars
  <2> QED BY <2>1 DEF FlowInv, TypeInv, Flags, TypeOK
<1>1. /\ m \in Seq(Messages) /\ pos \in Nat /\ pos <= GoodCount(m)
      /\ rest \in Seq(Frames)
  BY <1>0, PartsType DEF FlowInv, ParseInv, TypeOK, PartsOK
<1>2. Pending = GoodFrames(m, pos) \o rest
  BY <1>0, PendingIs DEF Now
<1>3. GoodFrames(m, pos) \in Seq(Frames)
  BY <1>1, GoodFramesFacts
<1>4. cur \notin Posted
  BY <1>0 DEF PlaceInv, InOnePlace, Placed, Parsed
<1>5. CASE EnqueuePacket \/ EnqueueRefused \/ DropFrame
  <2>1. /\ pos < Len(m) /\ m[pos + 1] # Bad /\ m[pos + 1] = Message
        /\ pos' = pos + 1 /\ content' = content /\ cur' = cur
    BY <1>5 DEF EnqueuePacket, EnqueueRefused, DropFrame, AfterDrop, More, Message, usbVars
  <2>2. pos < GoodCount(m) /\ pos + 1 <= GoodCount(m)
    BY <1>1, <2>1, TurnFacts
  <2>3. ParseInv'
    BY <2>1, <2>2 DEF ParseInv, GoodCount
  <2>4. /\ GoodFrames(m, pos) # <<>> /\ Head(GoodFrames(m, pos)) = Message
        /\ Tail(GoodFrames(m, pos)) = GoodFrames(m, pos + 1)
    BY <1>1, <2>1, <2>2, GoodFramesFacts
  <2>5. /\ Pending # <<>> /\ Head(Pending) = Message
        /\ Tail(Pending) = GoodFrames(m, pos + 1) \o rest
    <3> DEFINE g == GoodFrames(m, pos)
    <3>1. g \in Seq(Frames) /\ rest \in Seq(Frames) /\ g # <<>>
      BY <1>1, <1>3, <2>4
    <3> HIDE DEF g, rest
    <3>2. g \o rest # <<>> /\ Head(g \o rest) = Head(g) /\ Tail(g \o rest) = Tail(g) \o rest
      BY <3>1, ConcatFacts
    <3>3. Pending = g \o rest
      BY <1>2 DEF g
    <3>4. Head(g) = Message /\ Tail(g) = GoodFrames(m, pos + 1)
      BY <2>4 DEF g
    <3> QED BY <3>2, <3>3, <3>4
  <2>6. Parts' = Parts
    BY <1>0, <2>1, PartsStay
  <2>7. Pending' = GoodFrames(m, pos + 1) \o rest
    BY <1>0, <2>1, <2>6 DEF Pending, Now, Parts
  <2>8. CASE EnqueuePacket
    <3>1. queued' = Append(queued, Message)
      BY <2>8 DEF EnqueuePacket
    <3> QED BY <1>0, <2>3, <2>5, <2>7, <3>1 DEF FlowStep, Flow!Next, Flow!Deliver
  <2>9. CASE EnqueueRefused \/ DropFrame
    <3>1. queued' = queued
      BY <2>9 DEF EnqueueRefused, DropFrame, stackVars
    <3> QED BY <1>0, <2>3, <2>5, <2>7, <3>1 DEF FlowStep, Flow!Next, Flow!Drop
  <2> QED BY <1>5, <2>8, <2>9
<1>6. CASE FinishBuffer
  <2>1. Rearm(cur) /\ cur' = NoBuffer /\ queued' = queued /\ (pos < Len(m) => m[pos + 1] = Bad)
    BY <1>6 DEF FinishBuffer, LoopOver, More, Message
  <2>2. pos >= GoodCount(m)
    BY <1>1, <2>1, TurnFacts
  <2>3. GoodFrames(m, pos) = <<>>
    BY <1>1, <2>2, GoodFramesFacts
  <2>4. \A b \in Posted : content'[b] = content[b]
    <3>1. Posted \subseteq Buffers
      BY <1>0 DEF PlaceInv, InOnePlace, Placed
    <3> QED BY <1>0, <1>4, <2>1, <3>1, RearmKeeps
  <2>5. Parts' = Parts
    BY <1>0, <2>4, PartsStay
  <2>6. Pending' = Pending
    <3>1. Pending' = <<>> \o rest
      BY <1>0, <2>1, <2>5 DEF Pending, Now, Parts
    <3> QED BY <1>2, <2>3, <3>1
  <2>7. ParseInv'
    BY <2>1 DEF ParseInv
  <2> QED BY <1>0, <2>1, <2>6, <2>7 DEF FlowStep, Flow!vars
<1> QED BY <1>5, <1>6 DEF ParseLoop

LEMMA OutsideFlow ==
  ASSUME FlowInv, TypeOK', Outside
  PROVE  FlowStep /\ ParseInv'
<1>0. /\ TypeInv /\ PlaceInv /\ TypeOK /\ UNCHANGED <<running, cur, pos, queued>>
  BY DEF FlowInv, TypeInv, Outside, ReadData, ReadFails, StackFetches, StackTakes, StackReturns,
     Unplug, stackVars
<1>1. CASE StackFetches \/ StackTakes \/ StackReturns \/ Unplug
  <2>1. done' = done /\ content' = content
    BY <1>1 DEF StackFetches, StackTakes, StackReturns, Unplug, usbVars
  <2>2. Pending' = Pending
    BY <1>0, <2>1, PendingStays
  <2>3. ParseInv'
    BY <1>0, <2>1 DEF FlowInv, ParseInv, GoodCount
  <2> QED BY <1>0, <2>2, <2>3 DEF FlowStep, Flow!vars
<1>2. CASE ReadData \/ ReadFails
  <2>1. PICK status \in {"data", "error", "gone"} :
          /\ TakeRead(status)
          /\ \A x \in Buffers : x # Head(reads) => content'[x] = content[x]
    BY <1>0, <1>2 DEF ReadData, ReadFails, TypeOK
  <2>2. CASE ~running
    <3>1. ParseInv'
      BY <1>0, <2>2 DEF TypeInv, Flags, ParseInv
    <3> QED BY <1>0, <2>2, <3>1 DEF FlowStep, Flow!vars, Pending
  <2>3. CASE running
    <3> DEFINE e == IF status = "data" THEN GoodFrames(content'[Head(reads)], 0) ELSE <<>>
    <3>1. Placed
      BY <1>0, <2>3 DEF PlaceInv, InOnePlace
    <3>2. Head(reads) \in Outstanding /\ Head(reads) \in Buffers
      <4>1. Head(reads) \in Outstanding
        BY <1>0, <2>1, TakeReadPlaces
      <4> QED BY <3>1, <4>1 DEF Placed
    <3>3. Head(reads) \notin Posted /\ (cur # NoBuffer => Head(reads) # cur) /\ Posted \subseteq Buffers
      BY <3>1, <3>2 DEF Placed, Parsed
    <3>4. \A b \in Posted : content'[b] = content[b]
      BY <2>1, <3>3
    <3>5. cur # NoBuffer => content'[cur] = content[cur]
      BY <1>0, <2>1, <3>3 DEF TypeOK
    <3>6. FlattenSeq(Parts') = FlattenSeq(Parts) \o e
      BY <1>0, <2>1, <3>4, PartsArrive
    <3>7. Now' = Now
      BY <1>0, <3>5 DEF Now
    <3>8. e \in Seq(Frames)
      <4>1. content'[Head(reads)] \in Seq(Messages) /\ 0 \in Nat /\ <<>> \in Seq(Frames)
        BY <3>2, SMT DEF TypeOK
      <4> QED BY <4>1, GoodFramesFacts
    <3>9. Now \in Seq(Frames) /\ FlattenSeq(Parts) \in Seq(Frames)
      BY <1>0, PartsType DEF PartsOK
    <3>10. Pending = Now \o FlattenSeq(Parts) /\ Pending' = Now \o FlattenSeq(Parts')
      BY <1>0, <2>3, <3>7 DEF Pending, Now, Parts
    <3> HIDE DEF e
    <3>11. Pending \in Seq(Frames) /\ Pending' = Pending \o e
      BY <3>6, <3>8, <3>9, <3>10, LongerPending
    <3>12. Flow!Receive
      BY <1>0, <2>3, <3>8, <3>11, PrefixFacts DEF Flow!Receive
    <3>13. ParseInv'
      BY <1>0, <3>5 DEF FlowInv, ParseInv, GoodCount
    <3> QED BY <3>12, <3>13 DEF FlowStep, Flow!Next
  <2> QED BY <2>2, <2>3
<1> QED BY <1>1, <1>2 DEF Outside

\* The frames of a buffer are decided in the order the device sent them, each
\* once, however reads, completions and parsing interleave and whatever the
\* faults: it is queued, or dropped (no packet for it, or the receive queue
\* refuses it), or cut off by Stop.  DataReadComplete_Impl and
\* processInboundBuffer keep what FrameFlow promises.
THEOREM FramesFlow == Spec => ImplementsFlow
<1>1. Init => Flow!Init
  BY DEF Init, Flow!Init, Pending
<1>2. Init => PlaceInv /\ ParseInv
  BY DEF Init, PlaceInv, ParseInv
<1>3. TypeInv /\ PlaceInv /\ [Next]_vars => PlaceInv'
  BY PlaceStep
<1>4. FlowInv /\ TypeOK' /\ [Next]_vars => FlowStep /\ ParseInv'
  <2>1. FlowInv /\ UNCHANGED vars => FlowStep /\ ParseInv'
    <3> SUFFICES ASSUME FlowInv, UNCHANGED vars PROVE FlowStep /\ ParseInv'
      OBVIOUS
    <3>1. UNCHANGED <<running, done, cur, pos, content, queued>>
      BY DEF vars, usbVars, stackVars
    <3>2. Pending' = Pending
      BY <3>1 DEF Pending
    <3>3. ParseInv'
      BY <3>1 DEF FlowInv, ParseInv, GoodCount
    <3> QED BY <3>1, <3>2, <3>3 DEF FlowStep, Flow!vars
  <2> QED BY <2>1, StartStopFlow, DispatchFlow, ParseLoopFlow, OutsideFlow DEF Next
<1>5. TypeInv => TypeOK
  BY DEF TypeInv
<1> QED BY <1>1, <1>2, <1>3, <1>4, <1>5, TypeInvariance, PTL
        DEF Spec, FlowInv, FlowStep, ImplementsFlow, Flow!Spec

===========================================================================
