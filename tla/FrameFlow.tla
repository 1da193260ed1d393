---------------------------- MODULE FrameFlow ----------------------------
(***************************************************************************)
(* What the receive path promises about Ethernet frames: those the device  *)
(* has sent are queued for the network stack in the order they came, each  *)
(* at most once, unless the driver drops one or is stopped.  The driver    *)
(* drops a frame when it has no packet for it, or the receive queue        *)
(* refuses the packet; when that may be is left open here.                 *)
(* RxPath implements this specification with inBufs, DataReadComplete_Impl *)
(* and processInboundBuffer of TetherKitDriver.cpp.                        *)
(***************************************************************************)
EXTENDS Naturals, Sequences

CONSTANT Frames

VARIABLES
  up,       \* the driver takes frames
  pending,  \* frames received and not yet decided, in the order they came
  queued    \* frames queued for the stack so far
vars == <<up, pending, queued>>

Init == ~up /\ pending = <<>> /\ queued = <<>>

Open == ~up /\ up' /\ UNCHANGED <<pending, queued>>

\* A transfer brings some frames, possibly none.
Receive ==
  /\ up /\ pending' \in Seq(Frames)
  /\ \E n \in 0 .. Len(pending') : pending = SubSeq(pending', 1, n)
  /\ UNCHANGED <<up, queued>>

Deliver ==
  /\ pending # <<>> /\ pending' = Tail(pending)
  /\ queued' = Append(queued, Head(pending)) /\ UNCHANGED up

\* The driver has no packet for the frame, or the receive queue refuses it.
Drop == pending # <<>> /\ pending' = Tail(pending) /\ UNCHANGED <<up, queued>>

\* The driver is stopped.
Cut == up /\ ~up' /\ pending' = <<>> /\ UNCHANGED queued

Next == Open \/ Receive \/ Deliver \/ Drop \/ Cut

Spec == Init /\ [][Next]_vars
==========================================================================
