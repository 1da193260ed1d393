---------------------------- MODULE BufferPool ----------------------------
(***************************************************************************)
(* What the transmit path promises about the OUT buffers of one session:   *)
(* a buffer is handed out only while it is free, and only a buffer that is *)
(* out is given back.  A buffer whose transfer is cut off is withdrawn for *)
(* the rest of the session.  TxPath implements this specification with     *)
(* outBufStack and numFreeOutBufs of TetherKitDriver.cpp.                  *)
(***************************************************************************)
EXTENDS TLAPS

CONSTANT Buffers

VARIABLES free, out
vars == <<free, out>>

Init == free = {} /\ out = {}

\* allocateTransferResources fills the pool.
Fill == free = {} /\ out = {} /\ free' = Buffers /\ out' = {}

\* A frame is copied into b and submitted.
Take(b) == b \in free /\ free' = free \ {b} /\ out' = out \cup {b}

\* The transfer from b has completed.
Give(b) == b \in out /\ out' = out \ {b} /\ free' = free \cup {b}

\* The transfer from b was cut off by a device that is gone.
Withdraw(b) == b \in out /\ out' = out \ {b} /\ UNCHANGED free

\* Stop_Impl drops the pool.
Empty == free' = {} /\ out' = {}

Next == Fill \/ Empty \/ \E b \in Buffers : Take(b) \/ Give(b) \/ Withdraw(b)

Spec == Init /\ [][Next]_vars

\* No buffer is free and in use at once.
Exclusive == free \subseteq Buffers /\ out \subseteq Buffers /\ free \cap out = {}

\* The pool never has a buffer free and in use at once.
THEOREM AlwaysExclusive == Spec => []Exclusive
<1>1. Init => Exclusive
  BY DEF Init, Exclusive
<1>2. Exclusive /\ [Next]_vars => Exclusive'
  <2> SUFFICES ASSUME Exclusive, [Next]_vars PROVE Exclusive'
    OBVIOUS
  <2>1. CASE UNCHANGED vars \/ Fill \/ Empty
    BY <2>1 DEF Exclusive, vars, Fill, Empty
  <2>2. ASSUME NEW b \in Buffers, Take(b) \/ Give(b) \/ Withdraw(b) PROVE Exclusive'
    BY <2>2 DEF Exclusive, Take, Give, Withdraw
  <2> QED BY <2>1, <2>2 DEF Next
<1> QED BY <1>1, <1>2, PTL DEF Spec
=============================================================================
