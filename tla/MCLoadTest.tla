---------------------------- MODULE MCLoadTest -----------------------------
(***************************************************************************)
(* LoadTest on a small instance.                                           *)
(***************************************************************************)
EXTENDS LoadTest

CONSTANTS a, b, c1, c2

\* Every Enqueue call has a key of its own.
OwnKey == [id \in Ids |-> id]

OneProducer == {<<a, b>>}
============================================================================
