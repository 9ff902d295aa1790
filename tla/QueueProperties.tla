-------------------------- MODULE QueueProperties --------------------------
(***************************************************************************)
(* What makes the queue correct.  Which of these hold depends on what the  *)
(* callers do (Disciplined, SerialKeys) and on what failed Appends leave   *)
(* behind (CleanFaults, MaxFaults); README.md says which run checks which  *)
(* of them under what.                                                     *)
(***************************************************************************)
EXTENDS Queue

\* Memory as it will be once the operation that holds the mutex returns.
PendingApplied ==
  CASE pend.op = "ack"     -> AckEffect(q, pend.id)
    [] pend.op = "retry"   -> RetryEffect(q, pend.id)
    [] pend.op = "dead"    -> DeadEffect(q, pend.id)
    [] pend.op = "requeue" -> RequeueEffect(q, pend.id)
    [] pend.op = "purge"   -> PurgeEffect(q, pend.id)
    [] OTHER               -> q

\* Enqueue calls whose record is durable and whose task is not in memory yet.
Committing == {id \in Ids : call[id] = "commit"}

Logged(op, id) == \E n \in 1..Len(log) : log[n].op = op /\ log[n].id = id

\* An Ack of the task returned nil, in this run of the process or before it.
Acked(id) == Logged("ack", id) /\ ~(pend.op = "ack" /\ pend.id = id)

\* No task is lost: whatever the callers, the sweeper, crashes and failed
\* Appends did, a task that is in q.index is on the heap, where Dequeue finds
\* it, or in flight, where the sweeper does.
NoLostTask ==
  \A id \in q.index : q.ready[id] > 0 \/ id \in q.indexOfInflight

\* A task is never live and dead at once, so RequeueDead and PurgeDeadTask
\* cannot touch a task that workers can still be handed.
LiveNotDead == q.index \cap q.dlq = {}

\* The key map owns the tasks: a keyed task that is live or dead is the one
\* its idempotency key leads to.  Hence no two tasks in the queue share a key,
\* whatever Enqueue calls raced, failed or were cut short by a crash.
KeyOwnsTask ==
  \A id \in q.index \cup q.dlq :
    KeyOf[id] # NoKey => q.indexOfIdemKeys[KeyOf[id]] = id

\* While callers keep to their leases a task is in one place: once on the
\* heap, or in flight, or in the DLQ, with the Status that says so, and
\* q.index knows exactly the first two kinds.  In particular no two entries of
\* the heap are one task, so no task is handed to two workers at once.
OnePlace ==
  proc = "up" =>
    \A id \in Ids :
      LET places == q.ready[id] + (IF id \in q.indexOfInflight THEN 1 ELSE 0)
                                + (IF id \in q.dlq THEN 1 ELSE 0)
      IN  /\ places = IF id \in q.index \cup q.dlq THEN 1 ELSE 0
          /\ id \in q.dlq <=> q.status[id] = "dead" /\ places = 1
          /\ id \in q.indexOfInflight <=> q.status[id] = "inflight"
          /\ q.ready[id] > 0 <=> q.status[id] = "ready" /\ id \in q.index

\* A task whose Ack returned nil is gone: it is not known, not on the heap,
\* not in flight and not dead, and no crash and replay brings it back.
AckedIsGone ==
  \A id \in Ids : Acked(id) =>
    id \notin q.index \cup q.indexOfInflight \cup q.dlq /\ q.ready[id] = 0

\* Dequeue never hands out a task whose Ack returned nil.
AckedNotRedelivered == [][\A id \in Ids : Acked(id) => ~Dequeue(id)]_vars

\* The retry budget: a live task has used at most maxRetries retries, and a
\* task is in the DLQ exactly with the attempt that went over, also after the
\* counts have been rebuilt from RETRY deltas and the absolute count of DEAD.
RetryBudget ==
  /\ \A id \in q.index : q.retries[id] <= MaxRetries
  /\ \A id \in q.dlq : q.retries[id] = MaxRetries + 1

\* Write-ahead logging: at every moment the process may die, replaying the
\* log rebuilds what memory holds once the operations in progress are applied:
\* the same live tasks, dead tasks, retry counts and idempotency keys.
RecoveryAgrees ==
  proc = "up" =>
    LET then == Replay(log)
        now  == PendingApplied
    IN  /\ ~then.panicked
        /\ then.index = now.index \cup Committing
        /\ then.dlq = now.dlq
        /\ \A id \in then.index \cup then.dlq : then.retries[id] = now.retries[id]
        /\ \A k \in Keys \ {NoKey} :
             \/ then.indexOfIdemKeys[k] = now.indexOfIdemKeys[k]
             \/ then.indexOfIdemKeys[k] \in {id \in Committing : KeyOf[id] = k}

\* Memory is never ahead of the log, whatever failed, raced or crashed: the
\* tasks, deaths, acknowledgements and retries that it knows, and the IDs that
\* Enqueue returned, have their records in the file.  A failed Append may have
\* put the log ahead of memory; the call that saw the error must not have put
\* memory ahead of the log.
WriteAhead ==
  \A id \in Ids :
    /\ id \in q.index \cup q.dlq => Logged("enqueue", id)
    /\ q.status[id] = "dead" => Logged("dead", id)
    /\ q.status[id] = "done" => Logged("ack", id)
    /\ q.retries[id] > 0 => Logged("retry", id) \/ Logged("dead", id)
    /\ call[id] = "done" => Logged("enqueue", ret[id])

\* Recovery: NewQueue rebuilds the queue from any log the queue wrote.
RecoverySucceeds == proc # "panicked"

\* Calls of Enqueue with one idempotency key that returned nil returned one
\* task ID, before and after any crash, as long as no two of them overlap.
OneTaskPerKey ==
  \A a, b \in Ids :
    /\ KeyOf[a] = KeyOf[b] /\ KeyOf[a] # NoKey
    /\ call[a] = "done" /\ call[b] = "done"
    => ret[a] = ret[b]

\* Until the process first dies that also holds of calls that overlap: the
\* loser of the race for a key returns the winner's ID, not its own.
RacersAgree == crashes = 0 => OneTaskPerKey

\* The ID that Enqueue returned is one that recovery will know, unless the
\* task was acknowledged or purged: a crash loses no accepted task.
AcceptedSurvives ==
  \A id \in Ids :
    LET task == ret[id]
    IN  call[id] = "done" /\ ~Logged("ack", task) /\ ~Logged("purge", task)
        => task \in Replay(log).index \cup Replay(log).dlq

\* A lease that has run out is reclaimed: the task leaves the in-flight map,
\* is handed out again or is settled, though an entry that cannot be retried
\* (of a task that was acknowledged late and handed out once more) ends each
\* pass of the sweeper that comes to it.
LeaseReclaimed ==
  \A id \in Ids :
    id \in expired \cap q.index ~> id \notin expired \cap q.index

\* With workers that poll, every live task is settled, and so is a revived
\* one: acknowledged, or in the DLQ after maxRetries retries, even if every
\* worker dies over it, so a poison task cannot circulate for ever and none is
\* forgotten, by a crash and recovery neither.
EveryTaskSettles ==
  \A id \in Ids : id \in q.index ~> proc = "up" /\ id \notin q.index
============================================================================
