----------------------------- MODULE TaskStore -----------------------------
(***************************************************************************)
(* The in-memory state of a Queue (internal/queue/queue.go), the log       *)
(* records that change it (internal/queue/record.go), and recovery:        *)
(* applyRecord applied to every record of the log, in order.               *)
(*                                                                         *)
(* Data abstraction.  A task is its ID.  Each ID stands for one call of    *)
(* Enqueue and for the UUID that call mints, so the idempotency key the    *)
(* call is made with is a constant of the ID.  The heap of ready tasks is  *)
(* the multiset of its entries: one *Task may sit in it more than once.    *)
(* Payload, Priority, EnqueuedAt, Owner and FailedAt steer no transition.  *)
(*                                                                         *)
(* An operator whose comment says "Broken" is a plausible mistake in the   *)
(* definition after it, kept to show that the properties notice it.        *)
(***************************************************************************)
EXTENDS Integers, Sequences, FiniteSets

CONSTANTS
  Ids,        \* the calls of Enqueue, and the task IDs they mint
  KeyOf,      \* the idempotency key each call is made with
  NoKey,      \* the empty key, which opts out of deduplication
  None,       \* absence from the map of idempotency keys
  MaxRetries  \* Queue.maxRetries

Keys == {KeyOf[id] : id \in Ids} \cup {NoKey}

ASSUME StoreAssumption ==
  /\ DOMAIN KeyOf = Ids
  /\ None \notin Ids
  /\ MaxRetries \in Nat

----------------------------------------------------------------------------
\* Log records.  OperationDequeue exists in the wire format but no code path
\* appends one: Dequeue is memory only.

Operations == {"enqueue", "ack", "retry", "dead", "requeue", "purge"}

Record == [op : Operations, id : Ids, retries : Nat]

EncodeRecord(op, id) == [op |-> op, id |-> id, retries |-> 0]

\* Only DEAD carries a retry count: the absolute count, not a delta.
DeadRecord(id, n) == [op |-> "dead", id |-> id, retries |-> n]

----------------------------------------------------------------------------
\* The Queue struct and the fields of its tasks.

TaskState == {"unknown", "ready", "inflight", "done", "dead"}

Memory ==
  [ready           : [Ids -> Nat],
   index           : SUBSET Ids,
   indexOfInflight : SUBSET Ids,
   indexOfIdemKeys : [Keys -> Ids \cup {None}],
   dlq             : SUBSET Ids,
   retries         : [Ids -> Nat],
   status          : [Ids -> TaskState],
   panicked        : BOOLEAN]   \* replay dereferenced a nil *Task

EmptyMemory ==
  [ready           |-> [id \in Ids |-> 0],
   index           |-> {},
   indexOfInflight |-> {},
   indexOfIdemKeys |-> [k \in Keys |-> None],
   dlq             |-> {},
   retries         |-> [id \in Ids |-> 0],
   status          |-> [id \in Ids |-> "unknown"],
   panicked        |-> FALSE]

\* Enqueue's deduplication test, shared by the fast path, the second look
\* after the append, and replay.
KeyTaken(m, id) ==
  KeyOf[id] # NoKey /\ m.indexOfIdemKeys[KeyOf[id]] # None

\* A task enters ready, index and the key map.
Insert(m, id) ==
  [m EXCEPT !.ready[id] = @ + 1,
            !.index = @ \cup {id},
            !.indexOfIdemKeys[KeyOf[id]] = id,
            !.retries[id] = 0,
            !.status[id] = "ready"]

----------------------------------------------------------------------------
\* applyRecord: the effect of one record during replay.

\* The first entry for id leaves the slice, if there is one.
DropFromReady(m, id) ==
  IF m.ready[id] > 0 THEN [m.ready EXCEPT ![id] = @ - 1] ELSE m.ready

Panic(m) == [m EXCEPT !.panicked = TRUE]

\* Broken: replay does not rebuild the key map.
ReplayEnqueueForgetsKey(m, id) ==
  IF KeyTaken(m, id) THEN m
  ELSE [Insert(m, id) EXCEPT !.indexOfIdemKeys = m.indexOfIdemKeys]

ReplayEnqueue(m, id) == IF KeyTaken(m, id) THEN m ELSE Insert(m, id)

\* Broken: an acked task stays on the ready slice.
ReplayAckKeepsReady(m, id) == [m EXCEPT !.index = @ \ {id}]

ReplayAck(m, id) ==
  [m EXCEPT !.index = @ \ {id}, !.ready = DropFromReady(m, id)]

\* Broken: the retry is not counted.
ReplayRetryNoBump(m, id) ==
  IF id \notin m.index THEN Panic(m)
  ELSE [m EXCEPT !.status[id] = "ready", !.indexOfInflight = @ \ {id}]

ReplayRetry(m, id) ==
  IF id \notin m.index THEN Panic(m)
  ELSE [m EXCEPT !.retries[id] = @ + 1,
                 !.status[id] = "ready",
                 !.indexOfInflight = @ \ {id}]

\* Broken: the dead task stays live.
ReplayDeadKeepsIndex(m, id, n) ==
  IF id \notin m.index THEN Panic(m)
  ELSE [m EXCEPT !.ready = DropFromReady(m, id),
                 !.status[id] = "dead",
                 !.retries[id] = n,
                 !.dlq = @ \cup {id},
                 !.indexOfInflight = @ \ {id}]

\* Broken: the dead task is not put in the DLQ.
ReplayDeadNoDLQ(m, id, n) ==
  IF id \notin m.index THEN Panic(m)
  ELSE [m EXCEPT !.ready = DropFromReady(m, id),
                 !.status[id] = "dead",
                 !.retries[id] = n,
                 !.indexOfInflight = @ \ {id},
                 !.index = @ \ {id}]

ReplayDead(m, id, n) ==
  IF id \notin m.index THEN Panic(m)
  ELSE [m EXCEPT !.ready = DropFromReady(m, id),
                 !.status[id] = "dead",
                 !.retries[id] = n,
                 !.dlq = @ \cup {id},
                 !.indexOfInflight = @ \ {id},
                 !.index = @ \ {id}]

\* Broken: the retry history is not reset.
ReplayRequeueKeepsRetries(m, id) ==
  IF id \notin m.dlq THEN Panic(m)
  ELSE [m EXCEPT !.status[id] = "ready",
                 !.dlq = @ \ {id},
                 !.index = @ \cup {id},
                 !.ready[id] = @ + 1]

ReplayRequeue(m, id) ==
  IF id \notin m.dlq THEN Panic(m)
  ELSE [m EXCEPT !.status[id] = "ready",
                 !.retries[id] = 0,
                 !.dlq = @ \ {id},
                 !.index = @ \cup {id},
                 !.ready[id] = @ + 1]

ReplayPurge(m, id) == [m EXCEPT !.dlq = @ \ {id}]

\* A panic unwinds out of NewQueue: no later record is applied.
ApplyRecord(m, r) ==
  IF m.panicked THEN m
  ELSE CASE r.op = "enqueue" -> ReplayEnqueue(m, r.id)
         [] r.op = "ack"     -> ReplayAck(m, r.id)
         [] r.op = "retry"   -> ReplayRetry(m, r.id)
         [] r.op = "dead"    -> ReplayDead(m, r.id, r.retries)
         [] r.op = "requeue" -> ReplayRequeue(m, r.id)
         [] OTHER            -> ReplayPurge(m, r.id)

\* WAL.Replay(q.applyRecord): the memory after the records of the log, in
\* order.  rebuilt[n] is the memory after the first n of them.
Replay(log) ==
  LET apply(r) == [m \in Memory |-> ApplyRecord(m, r)]
      rebuilt[n \in 0..Len(log)] ==
        IF n = 0 THEN EmptyMemory ELSE apply(log[n])[rebuilt[n - 1]]
  IN  rebuilt[Len(log)]
============================================================================
