------------------------------ MODULE MCQueue ------------------------------
(***************************************************************************)
(* Queue on small instances.  The Enqueue calls are model values; which of *)
(* them share an idempotency key is chosen here, by name.                  *)
(***************************************************************************)
EXTENDS QueueLifecycle

CONSTANTS a, b, c, k

\* a and b carry the same key, any other call none.
SharedKey == [id \in Ids |-> IF id \in {a, b} THEN k ELSE NoKey]

\* No call carries a key.
Unkeyed == [id \in Ids |-> NoKey]
============================================================================
