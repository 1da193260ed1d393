---------------------------- MODULE MCTxPath ----------------------------
(***************************************************************************)
(* Instances of TxPath for TLC: three frames, one of them oversized.       *)
(***************************************************************************)
EXTENDS TxPath

CONSTANTS p1, p2, p3

MCPackets  == {p1, p2, p3}
MCOversize == {p3}
=========================================================================
