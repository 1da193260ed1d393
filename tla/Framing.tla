------------------------------ MODULE Framing ------------------------------
(***************************************************************************)
(* The RNDIS framing arithmetic: clampMaxTransferSize, parseInboundBuffer  *)
(* and fixupMacMulticastBit of RNDISProtocolCore.cpp, the length and       *)
(* short-packet rule of consumeTxPackets, and the window of a query answer *)
(* that holds the MAC address.  Bytes are abstracted to lengths and        *)
(* positions.  Only the sum that rndisQuery computes in 32 bits can wrap:  *)
(* a received message is no longer than the IN buffer, and the bounds test *)
(* of the parser is done in 64 bits.                                       *)
(***************************************************************************)
EXTENDS Integers

CONSTANTS
  HdrLen,      \* sizeof(rndis_data_hdr), 44
  OfsBase,     \* where data_offset counts from in a message, 8
  EthMax,      \* ETHERNET_MTU + 14, the longest ordinary frame
  OutBufSize,  \* OUT_BUF_SIZE, 4097
  InBufSize,   \* IN_BUF_SIZE, 16384
  Mps,         \* outPipeMaxPacketSize
  CmdBufSize,  \* RNDIS_CMD_BUF_SZ, 1024
  MinResponse, \* kMinResponseBytes, 12
  LenPos,      \* where len begins in a query and in its answer, 16
  OffsetPos,   \* where offset begins, 20
  QueryOffset, \* the offset a query carries, 20
  MacLen,      \* bytes of a MAC address, 6
  FieldMax     \* bound: largest value of a 32-bit field, 2^32 - 1

ASSUME SizeAssumption ==
  /\ HdrLen \in Nat \ {0} /\ OfsBase \in Nat /\ EthMax \in Nat
  /\ OutBufSize \in Nat \ {0} /\ InBufSize \in Nat /\ FieldMax \in Nat
  /\ OfsBase <= HdrLen
\* openDataInterface replaces 0; an endpoint that moves one byte at a time
\* could not end a transfer with a short packet.
ASSUME MpsAssumption == Mps \in Nat /\ Mps > 1

\* The request leaves an offset behind that no answer without one reaches.
ASSUME QueryAssumption ==
  /\ CmdBufSize \in Nat /\ MinResponse \in Nat \ {0} /\ LenPos \in Nat /\ OffsetPos \in Nat
  /\ QueryOffset \in Nat /\ MacLen \in Nat \ {0} /\ CmdBufSize <= FieldMax
  /\ LenPos <= OffsetPos /\ OffsetPos < OfsBase + QueryOffset

Fields == 0 .. FieldMax
OutBufPayloadMax == OutBufSize - 1   \* OUT_BUF_PAYLOAD_MAX

Smaller(a, b) == IF a < b THEN a ELSE b

----------------------------------------------------------------------------
(***************************************************************************)
(* Sending.                                                                *)
(***************************************************************************)
\* Faulty variants, for the mutation runs: no floor; no terminating byte.
Clamp_NoFloor(devMax, payloadMax) == Smaller(devMax, payloadMax)
SubmitLen_NoPad(len) == len

\* clampMaxTransferSize.
Clamp(devMax, payloadMax) ==
  LET v == Smaller(devMax, payloadMax)
      floor == HdrLen + EthMax
  IN IF v < floor THEN Smaller(floor, payloadMax) ELSE v

\* The length submitted for a message of len bytes: one more byte when the
\* last packet would be full, so that the transfer ends with a short packet.
SubmitLen(len) == IF len % Mps = 0 THEN len + 1 ELSE len

\* fixupMacMulticastBit on the first octet: the multicast bit is cleared and
\* the locally-administered bit set, when the multicast bit was set.
FixupMac(octet) ==
  IF octet % 2 = 0 THEN octet
  ELSE IF octet % 4 = 1 THEN octet + 1 ELSE octet - 1

----------------------------------------------------------------------------
(***************************************************************************)
(* Receiving: one turn of the loop of parseInboundBuffer.                  *)
(***************************************************************************)
Headers == [isPacket : BOOLEAN, msgLen : Fields, dataOfs : Fields, dataLen : Fields]

\* Faulty variants: a message may be shorter than its header; it may be longer
\* than what is left; the end of the data is not tested.
ValidMsgLen_NoFloor(h, size) == h.msgLen <= size
ValidMsgLen_NoCeiling(h, size) == HdrLen <= h.msgLen
ValidDataBounds_NoSum(h) == h.dataOfs <= h.msgLen /\ h.dataLen <= h.msgLen

ValidMsgLen(h, size) == HdrLen <= h.msgLen /\ h.msgLen <= size
ValidDataBounds(h) ==
  /\ h.dataOfs <= h.msgLen /\ h.dataLen <= h.msgLen
  /\ OfsBase + h.dataOfs + h.dataLen <= h.msgLen

----------------------------------------------------------------------------
(***************************************************************************)
(* The answer to a query.  msg_len equals the bytes received: rndisCommand *)
(* has tested it.                                                          *)
(***************************************************************************)
Answers == [received : MinResponse .. CmdBufSize, len : Fields, offset : Fields,
            over : BOOLEAN]   \* an earlier answer to this query was passed over

\* What len and offset can be, read from a buffer that holds the answer over the
\* request, and over the answers passed over.  Where the answer does not reach
\* and no other did, the request is read: it has the OID in the place of status,
\* which is not a success, no len, and QueryOffset.
ReadFromBuffer(a) ==
  a.over \/ /\ LenPos <= a.received
            /\ a.received = LenPos => a.len = 0
            /\ a.received <= OffsetPos => a.offset = QueryOffset

WindowEnd(a) == OfsBase + a.offset + a.len
Wrapped(n) == n % (FieldMax + 1)

\* A faulty variant: the window is held against the buffer only.
ValidWindow_BufferOnly(a) == Wrapped(WindowEnd(a)) <= CmdBufSize

\* The tests of rndisQuery and queryMacAddress.
ValidWindow(a) ==
  /\ Wrapped(WindowEnd(a)) <= a.received /\ Wrapped(WindowEnd(a)) <= CmdBufSize
HoldsAddress(a) == MacLen <= a.len

VARIABLES
  maxOut,   \* maxOutTransferSize; 0 before rndisInit
  answer,   \* locals of queryMacAddress: the answer rndisQuery found good
  haveMac,  \* queryMacAddress has set macAddr
  frame,    \* the last frame consumed: length, and the length submitted or 0
  total,    \* bytes received into the IN buffer
  pos,      \* how far the parser has come (buf); size is total - pos
  window,   \* the last payload passed to the callback, with its message
  turns,    \* history: good messages of this parse
  result    \* "idle", "parsing", or the ParseResult

outVars == <<maxOut, frame>>
macVars == <<answer, haveMac>>
inVars  == <<total, pos, window, turns, result>>
vars == <<outVars, macVars, inVars>>

Results == {"OK", "TRUNCATED_HEADER", "WRONG_MSG_TYPE", "INVALID_MSG_LEN",
            "INVALID_DATA_BOUNDS"}
NoAnswer == [received |-> 0, len |-> 0, offset |-> 0, over |-> FALSE]
NoWindow == [first |-> 0, end |-> 0, msg |-> 0, msgEnd |-> 0, prev |-> 0]

TypeOK ==
  /\ maxOut \in Nat
  /\ answer \in Answers \cup {NoAnswer} /\ haveMac \in BOOLEAN
  /\ frame \in [eth : Nat, submitted : Nat]
  /\ total \in 0 .. InBufSize /\ pos \in 0 .. total
  /\ window \in [first : Nat, end : Nat, msg : Nat, msgEnd : Nat, prev : Nat]
  /\ turns \in Nat /\ result \in Results \cup {"idle", "parsing"}

Init ==
  /\ maxOut = 0 /\ answer = NoAnswer /\ haveMac = FALSE /\ frame = [eth |-> 0, submitted |-> 0]
  /\ total = 0 /\ pos = 0 /\ window = NoWindow /\ turns = 0 /\ result = "idle"

\* rndisInit takes the limit from the device's answer.
InitCompletes(devMax) ==
  /\ maxOut = 0 /\ maxOut' = Clamp(devMax, OutBufPayloadMax)
  /\ UNCHANGED <<frame, macVars, inVars>>

\* rndisQuery returns the window of an answer that passes its tests; after any
\* other the current address is asked for instead of the permanent one, or
\* Start fails.
QueryAddress(a) ==
  /\ maxOut # 0 /\ ~haveMac /\ answer = NoAnswer
  /\ ReadFromBuffer(a) /\ ValidWindow(a) /\ HoldsAddress(a)
  /\ answer' = a
  /\ UNCHANGED <<outVars, haveMac, inVars>>

\* queryMacAddress copies the first bytes of the window.
CopyAddress ==
  /\ answer # NoAnswer /\ answer' = NoAnswer /\ haveMac' = TRUE
  /\ UNCHANGED <<outVars, inVars>>

\* consumeTxPackets takes a frame of eth bytes: too long is dropped.
ConsumeFrame(eth) ==
  /\ haveMac
  /\ frame' = [eth |-> eth,
               submitted |-> IF HdrLen + eth > maxOut THEN 0 ELSE SubmitLen(HdrLen + eth)]
  /\ UNCHANGED <<maxOut, macVars, inVars>>

\* DataReadComplete_Impl hands n bytes to parseInboundBuffer.
Receive(n) ==
  /\ haveMac /\ result # "parsing" /\ n > 0
  /\ total' = n /\ pos' = 0 /\ window' = NoWindow /\ turns' = 0 /\ result' = "parsing"
  /\ UNCHANGED <<outVars, macVars>>

\* The loop ends: nothing is left, or less than a header.
ParseEnds ==
  /\ result = "parsing" /\ total - pos < HdrLen
  /\ result' = IF pos = total THEN "OK" ELSE "TRUNCATED_HEADER"
  /\ UNCHANGED <<outVars, macVars, total, pos, window, turns>>

\* A header that fails a test ends the parse; what was delivered stays so.
ParseRejects(h) ==
  /\ result = "parsing" /\ total - pos >= HdrLen
  /\ result' = IF ~h.isPacket THEN "WRONG_MSG_TYPE"
               ELSE IF ~ValidMsgLen(h, total - pos) THEN "INVALID_MSG_LEN"
               ELSE IF ~ValidDataBounds(h) THEN "INVALID_DATA_BOUNDS" ELSE "parsing"
  /\ result' # "parsing"
  /\ UNCHANGED <<outVars, macVars, total, pos, window, turns>>

\* A good message: its payload, if any, is delivered and the loop moves on.
ParseMessage(h) ==
  /\ result = "parsing" /\ total - pos >= HdrLen
  /\ h.isPacket /\ ValidMsgLen(h, total - pos) /\ ValidDataBounds(h)
  /\ window' = IF h.dataLen = 0 THEN window
               ELSE [first |-> pos + OfsBase + h.dataOfs,
                     end |-> pos + OfsBase + h.dataOfs + h.dataLen,
                     msg |-> pos, msgEnd |-> pos + h.msgLen, prev |-> window.end]
  /\ pos' = pos + h.msgLen /\ turns' = turns + 1
  /\ UNCHANGED <<outVars, macVars, total, result>>

ParseStep == ParseEnds \/ \E h \in Headers : ParseRejects(h) \/ ParseMessage(h)

Next ==
  \/ \E devMax \in Fields : InitCompletes(devMax)
  \/ (\E a \in Answers : QueryAddress(a)) \/ CopyAddress
  \/ \E eth \in Fields : ConsumeFrame(eth)
  \/ \E n \in 0 .. InBufSize : Receive(n)
  \/ ParseStep

Spec == Init /\ [][Next]_vars

----------------------------------------------------------------------------
(***************************************************************************)
(* Properties.                                                             *)
(***************************************************************************)
\* Whatever limit the device reports, a submission fits the OUT buffer, the
\* terminating byte included, and ends with a short packet.
SubmissionsFit ==
  frame.submitted # 0 => /\ frame.submitted <= OutBufSize
                         /\ frame.submitted % Mps # 0

\* No limit a device reports makes the driver drop an ordinary Ethernet frame,
\* given buffers that hold one.
OrdinaryFramesSent ==
  HdrLen + EthMax <= OutBufPayloadMax /\ maxOut # 0 /\ frame.eth > 0 /\ frame.eth <= EthMax
    => frame.submitted # 0

\* The address is copied from bytes that this answer brought: the window ends
\* inside it, and it is never one that the request left in the buffer.  Not so
\* when the sum of a device's offset and len is past 2^32: it wraps.
AddressFromAnswer ==
  answer # NoAnswer /\ WindowEnd(answer) <= FieldMax =>
    /\ OfsBase + answer.offset + MacLen <= answer.received
    /\ answer.over \/ OffsetPos < answer.received

\* A payload handed to the callback lies inside its own message, the message
\* inside the bytes received, and payloads follow each other without overlap.
PayloadsInside ==
  window # NoWindow =>
    /\ window.prev <= window.first /\ window.first < window.end
    /\ window.msg <= window.first /\ window.end <= window.msgEnd
    /\ window.msgEnd <= total

\* Every turn of the loop that goes on uses up a header at least, so a parse of
\* n bytes ends within n / HdrLen turns, whatever the lengths in the messages.
ParseIsBounded == turns * HdrLen <= pos
=============================================================================
