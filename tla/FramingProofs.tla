--------------------------- MODULE FramingProofs ---------------------------
(***************************************************************************)
(* Theorems about the framing arithmetic, for every size of header and     *)
(* buffer that SizeAssumption and MpsAssumption allow.                     *)
(***************************************************************************)
EXTENDS Framing, TLAPS

\* The limit is never above the payload a buffer holds, and below an ordinary
\* frame only when the buffer is (RNDISProtocolCore.cpp 43-52).
LEMMA ClampBounds ==
  ASSUME NEW devMax \in Nat, NEW payloadMax \in Nat
  PROVE  /\ Clamp(devMax, payloadMax) \in Nat
         /\ Clamp(devMax, payloadMax) <= payloadMax
         /\ Smaller(HdrLen + EthMax, payloadMax) <= Clamp(devMax, payloadMax)
BY SizeAssumption, SMT DEF Clamp, Smaller

\* Two neighbouring numbers are not both multiples of a modulus above 1.
LEMMA NoTwoMultiples ==
  ASSUME NEW n \in Nat, NEW m \in Nat, m > 1, n % m = 0
  PROVE  (n + 1) % m # 0
<1> DEFINE q == n \div m
           r == (n + 1) \div m
<1>1. q \in Int /\ r \in Int
  BY SMT
<1>2. n = m * q
  BY SMT
<1>3. SUFFICES ASSUME (n + 1) % m = 0 PROVE FALSE
  OBVIOUS
<1>4. n + 1 = m * r
  BY <1>3, SMT
<1>5. m * (r - q) = 1
  BY <1>1, <1>2, <1>4, SMT
<1> HIDE DEF q, r
<1>6. r - q \in Int
  BY <1>1
<1>7. CASE r - q <= 0
  BY <1>5, <1>6, <1>7, SMT
<1>8. CASE r - q >= 1
  BY <1>5, <1>6, <1>8, SMT
<1> QED BY <1>6, <1>7, <1>8, SMT

\* A submission is the message and at most one byte, and ends with a short
\* packet (TetherKitDriver.cpp 970-979).
LEMMA ShortPacket ==
  ASSUME NEW len \in Nat
  PROVE  /\ SubmitLen(len) \in Nat
         /\ SubmitLen(len) <= len + 1 /\ len <= SubmitLen(len)
         /\ SubmitLen(len) % Mps # 0
<1>1. CASE len % Mps = 0
  BY <1>1, NoTwoMultiples, MpsAssumption, SMT DEF SubmitLen
<1>2. CASE len % Mps # 0
  BY <1>2, SMT DEF SubmitLen
<1> QED BY <1>1, <1>2

\* fixupMacMulticastBit yields a unicast octet and touches only its two low
\* bits (RNDISProtocolCore.cpp 54-61).
THEOREM FixupMacIsUnicast ==
  ASSUME NEW octet \in 0 .. 255
  PROVE  /\ FixupMac(octet) \in 0 .. 255 /\ FixupMac(octet) % 2 = 0
         /\ FixupMac(octet) \div 4 = octet \div 4
         /\ FixupMac(octet) = octet \/ FixupMac(octet) % 4 = 2
BY SMT DEF FixupMac

----------------------------------------------------------------------------
(***************************************************************************)
(* The inductive invariant.  SubmissionsFit needs the bound on maxOut that *)
(* Clamp gives; PayloadsInside needs to know that the parser has moved     *)
(* past every message it delivered from.                                   *)
(***************************************************************************)
OutInv ==
  /\ maxOut = 0 => frame.eth = 0
  /\ maxOut # 0 => /\ maxOut <= OutBufPayloadMax
                   /\ Smaller(HdrLen + EthMax, OutBufPayloadMax) <= maxOut
  /\ SubmissionsFit
  /\ OrdinaryFramesSent

InInv ==
  /\ window.end <= pos /\ window.msgEnd <= pos
  /\ PayloadsInside
  /\ ParseIsBounded

\* A frame is only consumed, and an answer only held, after rndisInit; the answer
\* has passed the tests of rndisQuery on what the buffer can hold.
MacInv ==
  /\ (haveMac \/ answer # NoAnswer) => maxOut # 0
  /\ AddressFromAnswer

Inv == TypeOK /\ OutInv /\ MacInv /\ InInv

LEMMA ConstantFacts == OutBufPayloadMax \in Nat /\ Fields \subseteq Nat
BY SizeAssumption, SMT DEF OutBufPayloadMax, Fields

\* The parts share no variable but maxOut: a step of one leaves the other parts of
\* the invariant as they were.
LEMMA OutFrame == OutInv /\ UNCHANGED outVars => OutInv'
BY DEF OutInv, SubmissionsFit, OrdinaryFramesSent, outVars

LEMMA MacFrame == MacInv /\ UNCHANGED <<maxOut, macVars>> => MacInv'
BY DEF MacInv, AddressFromAnswer, WindowEnd, macVars

LEMMA InFrame == InInv /\ UNCHANGED inVars => InInv'
BY DEF InInv, PayloadsInside, ParseIsBounded, inVars

LEMMA InitInv == Init => Inv
<1> SUFFICES ASSUME Init PROVE Inv
  OBVIOUS
<1>1. TypeOK
  <2>1. answer \in Answers \cup {NoAnswer} /\ haveMac \in BOOLEAN
    BY DEF Init
  <2>2. maxOut \in Nat /\ frame \in [eth : Nat, submitted : Nat] /\ turns \in Nat
    BY SMT DEF Init
  <2>3. total \in 0 .. InBufSize /\ pos \in 0 .. total
    BY SizeAssumption, SMT DEF Init
  <2>4. window \in [first : Nat, end : Nat, msg : Nat, msgEnd : Nat, prev : Nat]
    BY SMT DEF Init, NoWindow
  <2>5. result \in Results \cup {"idle", "parsing"}
    BY DEF Init
  <2> QED BY <2>1, <2>2, <2>3, <2>4, <2>5 DEF TypeOK
<1>2. OutInv
  BY DEF Init, OutInv, SubmissionsFit, OrdinaryFramesSent
<1>3. InInv
  BY SizeAssumption, SMT DEF Init, InInv, PayloadsInside, ParseIsBounded, NoWindow
<1>4. MacInv
  BY DEF Init, MacInv, AddressFromAnswer
<1> QED BY <1>1, <1>2, <1>3, <1>4 DEF Inv

LEMMA InitCompletesInv ==
  ASSUME NEW devMax \in Fields, Inv, InitCompletes(devMax)
  PROVE  Inv'
<1> USE DEF Inv
<1>1. /\ maxOut = 0 /\ maxOut' = Clamp(devMax, OutBufPayloadMax)
      /\ frame' = frame /\ UNCHANGED <<macVars, inVars>>
  BY DEF InitCompletes
<1>2. /\ maxOut' \in Nat /\ maxOut' <= OutBufPayloadMax
      /\ Smaller(HdrLen + EthMax, OutBufPayloadMax) <= maxOut'
  BY <1>1, ClampBounds, ConstantFacts
<1>3. TypeOK'
  BY <1>1, <1>2 DEF TypeOK, macVars, inVars
<1>4. frame.eth = 0 /\ SubmissionsFit
  BY <1>1 DEF OutInv
<1>5. OutInv'
  BY <1>1, <1>2, <1>4, SMT DEF OutInv, SubmissionsFit, OrdinaryFramesSent
<1>6. answer = NoAnswer /\ ~haveMac
  BY <1>1 DEF MacInv
<1>7. MacInv'
  BY <1>1, <1>6 DEF MacInv, AddressFromAnswer, macVars
<1> QED BY <1>1, <1>3, <1>5, <1>7, InFrame

\* An answer that passes, unless its sum wraps, holds the address it is said to.
LEMMA GoodAnswer ==
  ASSUME NEW a \in Answers, ReadFromBuffer(a), ValidWindow(a), HoldsAddress(a),
         WindowEnd(a) <= FieldMax
  PROVE  /\ OfsBase + a.offset + MacLen <= a.received
         /\ a.over \/ OffsetPos < a.received
<1>1. /\ a.received \in Nat /\ a.len \in Nat /\ a.offset \in Nat
      /\ OfsBase \in Nat /\ MacLen \in Nat /\ MacLen > 0 /\ FieldMax \in Nat
      /\ OffsetPos \in Nat /\ LenPos \in Nat /\ QueryOffset \in Nat
      /\ OffsetPos < OfsBase + QueryOffset
  <2>1. a.received \in MinResponse .. CmdBufSize /\ a.len \in Fields /\ a.offset \in Fields
    BY DEF Answers
  <2>2. a.received \in Nat
    BY <2>1, QueryAssumption, SMT
  <2>3. a.len \in Nat /\ a.offset \in Nat
    BY <2>1, ConstantFacts
  <2> QED BY <2>2, <2>3, SizeAssumption, QueryAssumption, SMT
<1>2. WindowEnd(a) \in Nat /\ WindowEnd(a) = OfsBase + a.offset + a.len
  BY <1>1, SMT DEF WindowEnd
<1>3. Wrapped(WindowEnd(a)) = WindowEnd(a)
  <2> DEFINE n == WindowEnd(a)
             m == FieldMax + 1
  <2>1. n \in Nat /\ m \in Nat /\ m > 0 /\ n < m
    BY <1>1, <1>2, SMT
  <2> HIDE DEF n, m
  <2>2. n % m = n
    BY <2>1, SMT
  <2> QED BY <2>2 DEF n, m, Wrapped
<1>4. OfsBase + a.offset + a.len <= a.received /\ MacLen <= a.len
  BY <1>2, <1>3 DEF ValidWindow, HoldsAddress
<1>5. OfsBase + a.offset + MacLen <= a.received
  BY <1>1, <1>4, SMT
<1>6. ~a.over /\ a.received <= OffsetPos => FALSE
  <2> SUFFICES ASSUME ~a.over, a.received <= OffsetPos PROVE FALSE
    OBVIOUS
  <2>1. a.offset = QueryOffset
    BY DEF ReadFromBuffer
  <2> QED BY <1>1, <1>4, <2>1, SMT
<1> QED BY <1>1, <1>5, <1>6, SMT

LEMMA QueryAddressInv ==
  ASSUME NEW a \in Answers, Inv, QueryAddress(a)
  PROVE  Inv'
<1> USE DEF Inv
<1>1. maxOut # 0 /\ answer' = a /\ UNCHANGED <<outVars, haveMac, inVars>>
  BY DEF QueryAddress
<1>2. TypeOK'
  BY <1>1 DEF TypeOK, outVars, inVars
<1>3. MacInv'
  <2>1. ReadFromBuffer(a) /\ ValidWindow(a) /\ HoldsAddress(a)
    BY DEF QueryAddress
  <2>2. AddressFromAnswer'
    BY <1>1, <2>1, GoodAnswer DEF AddressFromAnswer, WindowEnd
  <2> QED BY <1>1, <2>2 DEF MacInv, outVars
<1> QED BY <1>1, <1>2, <1>3, OutFrame, InFrame

LEMMA CopyAddressInv ==
  ASSUME Inv, CopyAddress
  PROVE  Inv'
<1> USE DEF Inv
<1>1. answer # NoAnswer /\ answer' = NoAnswer /\ haveMac' = TRUE /\ UNCHANGED <<outVars, inVars>>
  BY DEF CopyAddress
<1>2. TypeOK'
  BY <1>1 DEF TypeOK, outVars, inVars
<1>3. MacInv'
  BY <1>1 DEF MacInv, AddressFromAnswer, outVars
<1> QED BY <1>1, <1>2, <1>3, OutFrame, InFrame

LEMMA ConsumeFrameInv ==
  ASSUME NEW eth \in Fields, Inv, ConsumeFrame(eth)
  PROVE  Inv'
<1> USE DEF Inv
<1>1. maxOut # 0 /\ maxOut' = maxOut /\ UNCHANGED <<macVars, inVars>> /\ MacInv'
  BY MacFrame DEF ConsumeFrame, MacInv
<1>2. eth \in Nat /\ HdrLen + eth \in Nat /\ OutBufPayloadMax \in Nat
  BY ConstantFacts, SizeAssumption, SMT
<1>3. maxOut \in Nat /\ maxOut <= OutBufPayloadMax
      /\ Smaller(HdrLen + EthMax, OutBufPayloadMax) <= maxOut
  BY <1>1 DEF OutInv, TypeOK
<1>4. CASE HdrLen + eth > maxOut
  <2>1. frame' = [eth |-> eth, submitted |-> 0]
    BY <1>4 DEF ConsumeFrame
  <2>2. TypeOK'
    BY <1>1, <1>2, <2>1 DEF TypeOK, macVars, inVars
  <2>3. OrdinaryFramesSent'
    BY <1>1, <1>2, <1>3, <1>4, <2>1, SizeAssumption, SMT DEF OrdinaryFramesSent, Smaller
  <2>4. OutInv'
    BY <1>1, <1>3, <2>1, <2>3 DEF OutInv, SubmissionsFit
  <2> QED BY <1>1, <2>2, <2>4, InFrame
<1>5. CASE ~(HdrLen + eth > maxOut)
  <2> DEFINE len == SubmitLen(HdrLen + eth)
  <2>1. frame' = [eth |-> eth, submitted |-> len]
    BY <1>5 DEF ConsumeFrame
  <2>2. len \in Nat /\ len <= HdrLen + eth + 1 /\ HdrLen + eth <= len /\ len % Mps # 0
    BY <1>2, ShortPacket
  <2> HIDE DEF len
  <2>3. TypeOK'
    BY <1>1, <1>2, <2>1, <2>2 DEF TypeOK, macVars, inVars
  <2>4. len # 0
    BY <1>2, <2>2, SizeAssumption, ConstantFacts, SMT
  <2>5. len <= OutBufSize
    BY <1>2, <1>3, <1>5, <2>2, SizeAssumption, SMT DEF OutBufPayloadMax
  <2>6. OutInv'
    BY <1>1, <1>3, <2>1, <2>2, <2>4, <2>5 DEF OutInv, SubmissionsFit, OrdinaryFramesSent
  <2> QED BY <1>1, <2>3, <2>6, InFrame
<1> QED BY <1>4, <1>5

LEMMA ReceiveInv ==
  ASSUME NEW n \in 0 .. InBufSize, Inv, Receive(n)
  PROVE  Inv'
<1> USE DEF Inv
<1>1. TypeOK'
  BY SizeAssumption, SMT DEF Receive, TypeOK, NoWindow, outVars, macVars
<1>2. OutInv' /\ MacInv'
  BY OutFrame, MacFrame DEF Receive, outVars
<1>3. InInv'
  BY SizeAssumption, SMT DEF Receive, InInv, PayloadsInside, ParseIsBounded, NoWindow
<1> QED BY <1>1, <1>2, <1>3

LEMMA ParseStopsInv ==
  ASSUME Inv, ParseEnds \/ \E h \in Headers : ParseRejects(h)
  PROVE  Inv'
<1> USE DEF Inv
<1>1. /\ UNCHANGED <<outVars, macVars, total, pos, window, turns>>
      /\ result' \in Results
  <2>1. CASE ParseEnds
    BY <2>1 DEF ParseEnds, Results
  <2>2. CASE \E h \in Headers : ParseRejects(h)
    BY <2>2 DEF ParseRejects, Results
  <2> QED BY <2>1, <2>2
<1>2. TypeOK'
  BY <1>1 DEF TypeOK, outVars, macVars
<1>3. OutInv' /\ MacInv'
  BY <1>1, OutFrame, MacFrame DEF outVars
<1>4. InInv'
  BY <1>1 DEF InInv, PayloadsInside, ParseIsBounded
<1> QED BY <1>2, <1>3, <1>4

LEMMA ParseMessageInv ==
  ASSUME NEW h \in Headers, Inv, ParseMessage(h)
  PROVE  Inv'
<1> USE DEF Inv
<1>1. h.msgLen \in Nat /\ h.dataOfs \in Nat /\ h.dataLen \in Nat
  BY ConstantFacts DEF Headers
<1>2. total \in Nat /\ pos \in Nat /\ pos <= total /\ total <= InBufSize
  BY SizeAssumption, SMT DEF TypeOK
<1>3. h.msgLen <= total - pos /\ OfsBase + h.dataOfs + h.dataLen <= h.msgLen
      /\ HdrLen <= h.msgLen /\ pos' = pos + h.msgLen /\ turns' = turns + 1
      /\ UNCHANGED <<outVars, macVars, total, result>>
  BY DEF ParseMessage, ValidMsgLen, ValidDataBounds
<1>4. pos' \in 0 .. total' /\ total' \in 0 .. InBufSize
  BY <1>1, <1>2, <1>3, SizeAssumption, SMT
<1>5. OutInv' /\ MacInv'
  BY <1>3, OutFrame, MacFrame DEF outVars
<1>6. turns' \in Nat /\ ParseIsBounded'
  <2>1. turns \in Nat /\ turns * HdrLen <= pos /\ HdrLen \in Nat
    BY SizeAssumption DEF TypeOK, InInv, ParseIsBounded
  <2>2. (turns + 1) * HdrLen = turns * HdrLen + HdrLen /\ turns * HdrLen \in Nat
    BY <2>1, SMT
  <2>3. (turns + 1) * HdrLen <= pos + h.msgLen
    BY <1>1, <1>2, <1>3, <2>1, <2>2, SMT
  <2> QED BY <1>3, <2>1, <2>3 DEF ParseIsBounded
<1>7. CASE h.dataLen = 0
  <2>1. window' = window
    BY <1>7 DEF ParseMessage
  <2>2. TypeOK'
    BY <1>3, <1>4, <1>6, <2>1 DEF TypeOK, outVars, macVars
  <2>3. InInv'
    BY <1>1, <1>2, <1>3, <1>6, <2>1, SMT DEF InInv, PayloadsInside, TypeOK
  <2> QED BY <1>5, <2>2, <2>3
<1>8. CASE h.dataLen # 0
  <2> DEFINE start == pos + OfsBase + h.dataOfs
  <2>1. window' = [first |-> start, end |-> start + h.dataLen, msg |-> pos,
                   msgEnd |-> pos + h.msgLen, prev |-> window.end]
    BY <1>8 DEF ParseMessage
  <2>2. /\ start \in Nat /\ start + h.dataLen \in Nat /\ pos + h.msgLen \in Nat
        /\ pos <= start /\ start < start + h.dataLen
        /\ start + h.dataLen <= pos + h.msgLen /\ pos + h.msgLen <= total
    BY <1>1, <1>2, <1>3, <1>8, SizeAssumption, SMT
  <2>3. window.end \in Nat /\ window.end <= pos
    BY DEF TypeOK, InInv
  <2> HIDE DEF start
  <2>4. TypeOK'
    BY <1>2, <1>3, <1>4, <1>6, <2>1, <2>2, <2>3 DEF TypeOK, outVars, macVars
  <2>5. window.end <= start
    BY <1>2, <2>2, <2>3, SMT
  <2>6. InInv'
    BY <1>3, <1>6, <2>1, <2>2, <2>5 DEF InInv, PayloadsInside
  <2> QED BY <1>5, <2>4, <2>6
<1> QED BY <1>7, <1>8

LEMMA NextInv == Inv /\ [Next]_vars => Inv'
<1> SUFFICES ASSUME Inv, [Next]_vars PROVE Inv'
  OBVIOUS
<1>1. CASE \E devMax \in Fields : InitCompletes(devMax)
  BY <1>1, InitCompletesInv
<1>2. CASE \E eth \in Fields : ConsumeFrame(eth)
  BY <1>2, ConsumeFrameInv
<1>3. CASE \E n \in 0 .. InBufSize : Receive(n)
  BY <1>3, ReceiveInv
<1>4. CASE ParseStep
  BY <1>4, ParseStopsInv, ParseMessageInv DEF ParseStep
<1>5. CASE (\E a \in Answers : QueryAddress(a)) \/ CopyAddress
  BY <1>5, QueryAddressInv, CopyAddressInv
<1>6. CASE UNCHANGED vars
  <2>1. TypeOK'
    BY <1>6 DEF vars, outVars, macVars, inVars, Inv, TypeOK
  <2> QED BY <1>6, <2>1, OutFrame, MacFrame, InFrame DEF vars, outVars, Inv
<1> QED BY <1>1, <1>2, <1>3, <1>4, <1>5, <1>6 DEF Next

----------------------------------------------------------------------------
THEOREM InvHolds == Spec => []Inv
<1>1. Init => Inv
  BY InitInv
<1>2. Inv /\ [Next]_vars => Inv'
  BY NextInv
<1> QED BY <1>1, <1>2, PTL DEF Spec

\* The positions stay in the buffer and the lengths are lengths.
THEOREM TypeCorrect == Spec => []TypeOK
<1>1. Inv => TypeOK
  BY DEF Inv
<1> QED BY <1>1, InvHolds, PTL

\* consumeTxPackets never writes or submits past the OUT buffer, and every
\* transfer ends with a short packet, whatever limit the device reported.
THEOREM SubmissionsAlwaysFit == Spec => []SubmissionsFit
<1>1. Inv => SubmissionsFit
  BY DEF Inv, OutInv
<1> QED BY <1>1, InvHolds, PTL

\* The floor of clampMaxTransferSize keeps ordinary frames from being dropped.
THEOREM OrdinaryFramesAlwaysSent == Spec => []OrdinaryFramesSent
<1>1. Inv => OrdinaryFramesSent
  BY DEF Inv, OutInv
<1> QED BY <1>1, InvHolds, PTL

\* rndisQuery accepts no window that ends past the answer received, nor one that
\* the request left in the buffer, as long as offset and len do not wrap.
THEOREM AddressAlwaysFromAnswer == Spec => []AddressFromAnswer
<1>1. Inv => AddressFromAnswer
  BY DEF Inv, MacInv
<1> QED BY <1>1, InvHolds, PTL

\* parseInboundBuffer hands out only bytes of the message it is at, in order.
THEOREM PayloadsAlwaysInside == Spec => []PayloadsInside
<1>1. Inv => PayloadsInside
  BY DEF Inv, InInv
<1> QED BY <1>1, InvHolds, PTL

\* parseInboundBuffer ends within n / HdrLen turns of its loop on n bytes.
THEOREM ParseAlwaysBounded == Spec => []ParseIsBounded
<1>1. Inv => ParseIsBounded
  BY DEF Inv, InInv
<1> QED BY <1>1, InvHolds, PTL
=============================================================================
