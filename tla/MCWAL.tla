------------------------------- MODULE MCWAL -------------------------------
(***************************************************************************)
(* WAL by itself on a small instance: two calls of Append over a channel   *)
(* with room for one request.                                              *)
(***************************************************************************)
EXTENDS WALProperties

CONSTANTS r1, r2

TwoCalls == {r1, r2}
============================================================================
