---------------------------- MODULE MCReadyHeap ----------------------------
(***************************************************************************)
(* ReadyHeap on a small instance.                                          *)
(***************************************************************************)
EXTENDS ReadyHeap

CONSTANTS t1, t2, t3
============================================================================
