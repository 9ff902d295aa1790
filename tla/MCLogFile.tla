----------------------------- MODULE MCLogFile -----------------------------
(***************************************************************************)
(* LogFile on a small instance: a record of each operation, with and       *)
(* without an idempotency key, over digits to the base 16.                 *)
(***************************************************************************)
EXTENDS LogFile

Record(op, fields) == [op |-> op, fields |-> fields]

OneOfEach ==
  {Record("enqueue", <<UUID(1), <<>>, <<Byte(7)>>, UnixNano(1), <<0>>>>),
   Record("enqueue", <<UUID(2), <<Byte(3)>>, <<>>, UnixNano(2), <<1>>>>),
   Record("dequeue", <<UUID(1), UnixNano(3), <<Byte(0)>>>>),
   Record("dead", <<UUID(1), <<2>>, UnixNano(4)>>)}
  \cup {Record(op, <<UUID(1)>>) : op \in {"ack", "retry", "requeue", "purge"}}
============================================================================
