----------------------------- MODULE MCShutdown ----------------------------
(***************************************************************************)
(* Shutdown on a small instance: an Enqueue, an operation under the mutex  *)
(* and a sweep, over a channel with room for one request.                  *)
(***************************************************************************)
EXTENDS Shutdown

CONSTANTS e1, l1, s1

Calls == {e1, l1, s1}
============================================================================
