------------------------------- MODULE Queue -------------------------------
(***************************************************************************)
(* The durable task queue (internal/queue/queue.go): every public          *)
(* operation, the lease sweeper, crashes and recovery, over the log that   *)
(* the WAL promises (see DurableLog and WAL for that promise).             *)
(*                                                                         *)
(* Atomicity follows q.mu.  An operation that holds the mutex across       *)
(* wal.Append is two steps: the record becomes durable, then memory        *)
(* changes and the mutex is released; between them other goroutines may    *)
(* append (Enqueue appends without the mutex) and the process may crash.   *)
(* Enqueue is three: look the key up, append unlocked, look again and      *)
(* insert.  Dequeue logs nothing and is one step.                          *)
(*                                                                         *)
(* Time is abstracted to what the code compares it with: whether a lease   *)
(* lies in the past and whether a task's AvailableAt lies in the future.   *)
(***************************************************************************)
EXTENDS TaskStore

CONSTANTS
  Disciplined,  \* callers Ack/Retry only while the task is leased
  SerialKeys,   \* no two overlapping Enqueue calls with one key
  CleanFaults,  \* an Append that fails has written nothing
  MaxFaults,    \* bound: failed Appends
  MaxCrashes,   \* bound: crashes
  MaxRequeues   \* bound: RequeueDead calls

ASSUME QueueAssumption ==
  /\ Disciplined \in BOOLEAN /\ SerialKeys \in BOOLEAN /\ CleanFaults \in BOOLEAN
  /\ MaxFaults \in Nat /\ MaxCrashes \in Nat /\ MaxRequeues \in Nat

VARIABLES
  q,         \* the Queue struct
  log,       \* the records a Replay of the WAL file would return
  delayed,   \* tasks whose AvailableAt is in the future (backoff)
  expired,   \* leased tasks whose LeaseUntil is in the past
  mu,        \* who holds q.mu across a step: "free", "caller", "sweeper"
  pend,      \* what the holder has made durable and not yet applied
  todo,      \* the entries of indexOfInflight a Sweeper pass has yet to visit
  call,      \* where each call of Enqueue is
  ret,       \* the ID each call of Enqueue returned
  proc,      \* the process: "up", "down", "panicked"
  faults, crashes, requeues  \* counters for the bounds

vars == <<q, log, delayed, expired, mu, pend, todo, call, ret, proc,
          faults, crashes, requeues>>

counters == <<faults, crashes, requeues>>

Idle == [op |-> "none", id |-> None, retries |-> 0]

CallStates == {"idle", "append", "commit", "done", "failed", "lost"}

TypeOK ==
  /\ q \in Memory
  /\ log \in Seq(Record)
  /\ delayed \subseteq Ids /\ expired \subseteq Ids /\ todo \subseteq Ids
  /\ mu \in {"free", "caller", "sweeper"}
  /\ pend \in Record \cup {Idle}
  /\ call \in [Ids -> CallStates]
  /\ ret \in [Ids -> Ids \cup {None}]
  /\ proc \in {"up", "down", "panicked"}
  /\ faults \in Nat /\ crashes \in Nat /\ requeues \in Nat

\* NewQueue on a path that does not exist yet: an empty log, replayed.
Init ==
  /\ q = EmptyMemory
  /\ log = <<>>
  /\ delayed = {} /\ expired = {} /\ todo = {}
  /\ mu = "free" /\ pend = Idle
  /\ call = [id \in Ids |-> "idle"]
  /\ ret = [id \in Ids |-> None]
  /\ proc = "up"
  /\ faults = 0 /\ crashes = 0 /\ requeues = 0

Unlocked == proc = "up" /\ mu = "free"

\* The log after an Append of r that returned an error.  The frame may have
\* reached the file whole all the same: fsync failed after the write.
AfterFault(r) == IF CleanFaults THEN {log} ELSE {log, Append(log, r)}

----------------------------------------------------------------------------
\* Enqueue.

SameKeyBusy(id) ==
  \E other \in Ids \ {id} :
    /\ KeyOf[other] = KeyOf[id] /\ KeyOf[id] # NoKey
    /\ call[other] \in {"append", "commit"}

\* Fast path: the key is known, the existing ID is returned.
EnqueueDedup(id) ==
  /\ Unlocked /\ call[id] = "idle"
  /\ KeyTaken(q, id)
  /\ call' = [call EXCEPT ![id] = "done"]
  /\ ret' = [ret EXCEPT ![id] = q.indexOfIdemKeys[KeyOf[id]]]
  /\ UNCHANGED <<q, log, delayed, expired, mu, pend, todo, proc, counters>>

\* The key is new: the task is built, the mutex released, Append called.
EnqueueBegin(id) ==
  /\ Unlocked /\ call[id] = "idle"
  /\ ~KeyTaken(q, id)
  /\ SerialKeys => ~SameKeyBusy(id)
  /\ call' = [call EXCEPT ![id] = "append"]
  /\ UNCHANGED <<q, log, delayed, expired, mu, pend, todo, ret, proc, counters>>

EnqueueAppend(id) ==
  /\ proc = "up" /\ call[id] = "append"
  /\ log' = Append(log, EncodeRecord("enqueue", id))
  /\ call' = [call EXCEPT ![id] = "commit"]
  /\ UNCHANGED <<q, delayed, expired, mu, pend, todo, ret, proc, counters>>

\* Append returned an error, and so does Enqueue.
EnqueueFails(id) ==
  /\ proc = "up" /\ call[id] = "append"
  /\ faults < MaxFaults /\ faults' = faults + 1
  /\ log' \in AfterFault(EncodeRecord("enqueue", id))
  /\ call' = [call EXCEPT ![id] = "failed"]
  /\ UNCHANGED <<q, delayed, expired, mu, pend, todo, ret, proc, crashes, requeues>>

\* Broken: the key is not looked up again after the append.
EnqueueCommitNoRecheck(id) ==
  /\ Unlocked /\ call[id] = "commit"
  /\ q' = Insert(q, id)
  /\ ret' = [ret EXCEPT ![id] = id]
  /\ call' = [call EXCEPT ![id] = "done"]
  /\ UNCHANGED <<log, delayed, expired, mu, pend, todo, proc, counters>>

\* Under the mutex again: another call may have won the key meanwhile.
EnqueueCommit(id) ==
  /\ Unlocked /\ call[id] = "commit"
  /\ IF KeyTaken(q, id)
     THEN /\ ret' = [ret EXCEPT ![id] = q.indexOfIdemKeys[KeyOf[id]]]
          /\ UNCHANGED q
     ELSE /\ ret' = [ret EXCEPT ![id] = id]
          /\ q' = Insert(q, id)
  /\ call' = [call EXCEPT ![id] = "done"]
  /\ UNCHANGED <<log, delayed, expired, mu, pend, todo, proc, counters>>

----------------------------------------------------------------------------
\* Dequeue: the root of the heap, if it is due, goes to a worker under a
\* lease.  Which due task is the root is ReadyHeap's subject.

\* Broken: the lease is not entered in the in-flight map.
DequeueEffectNoLease(m, id) ==
  [m EXCEPT !.ready[id] = @ - 1, !.status[id] = "inflight"]

DequeueEffect(m, id) ==
  [m EXCEPT !.ready[id] = @ - 1,
            !.status[id] = "inflight",
            !.indexOfInflight = @ \cup {id}]

\* Broken: the heap is popped without a look at its length.
DequeueNoCheck(id) ==
  /\ Unlocked
  /\ q' = DequeueEffect(q, id)
  /\ expired' = expired \ {id}
  /\ UNCHANGED <<log, delayed, mu, pend, todo, call, ret, proc, counters>>

Dequeue(id) ==
  /\ Unlocked
  /\ q.ready[id] > 0 /\ id \notin delayed
  /\ q' = DequeueEffect(q, id)
  /\ expired' = expired \ {id}
  /\ UNCHANGED <<log, delayed, mu, pend, todo, call, ret, proc, counters>>

----------------------------------------------------------------------------
\* Operations that hold the mutex across Append.  Each is guarded by the
\* lookup the code makes; when the lookup fails the call returns an error
\* and changes nothing.

\* A caller's Ack or Retry.  The code checks only q.index; a caller that
\* keeps to its lease calls only while the task is in flight.
MayCall(id) == Disciplined => id \in q.indexOfInflight

\* Broken: one retry too many.
RetryRecordOffByOne(id) ==
  IF q.retries[id] > MaxRetries
  THEN DeadRecord(id, q.retries[id] + 1)
  ELSE EncodeRecord("retry", id)

\* retryLocked decides between another attempt and the dead-letter queue.
RetryRecord(id) ==
  IF q.retries[id] + 1 > MaxRetries
  THEN DeadRecord(id, q.retries[id] + 1)
  ELSE EncodeRecord("retry", id)

\* Broken: a failed append is taken for a good one.
CallerAppendsUnchecked(r) ==
  /\ Unlocked
  /\ \/ /\ log' = Append(log, r)
        /\ UNCHANGED faults
     \/ /\ faults < MaxFaults /\ faults' = faults + 1
        /\ log' \in AfterFault(r)
  /\ pend' = r /\ mu' = "caller"
  /\ UNCHANGED <<q, delayed, expired, todo, call, ret, proc, crashes>>

\* A caller locks q.mu and appends r.  On success it still holds the mutex;
\* on an error it returns with memory untouched.
CallerAppends(r) ==
  /\ Unlocked
  /\ \/ /\ log' = Append(log, r)
        /\ pend' = r /\ mu' = "caller"
        /\ UNCHANGED faults
     \/ /\ faults < MaxFaults /\ faults' = faults + 1
        /\ log' \in AfterFault(r)
        /\ UNCHANGED <<pend, mu>>
  /\ UNCHANGED <<q, delayed, expired, todo, call, ret, proc, crashes>>

Ack(id) ==
  /\ id \in q.index /\ MayCall(id)
  /\ CallerAppends(EncodeRecord("ack", id))
  /\ UNCHANGED requeues

Retry(id) ==
  /\ id \in q.index /\ MayCall(id)
  /\ CallerAppends(RetryRecord(id))
  /\ UNCHANGED requeues

RequeueDead(id) ==
  /\ id \in q.dlq
  /\ requeues < MaxRequeues /\ requeues' = requeues + 1
  /\ CallerAppends(EncodeRecord("requeue", id))

PurgeDeadTask(id) ==
  /\ id \in q.dlq
  /\ CallerAppends(EncodeRecord("purge", id))
  /\ UNCHANGED requeues

----------------------------------------------------------------------------
\* The memory changes that follow a durable record.

AckEffect(m, id) ==
  [m EXCEPT !.status[id] = "done",
            !.indexOfInflight = @ \ {id},
            !.index = @ \ {id}]

\* Broken: the task is not pushed back on the heap.
RetryEffectNoPush(m, id) ==
  [m EXCEPT !.status[id] = "ready",
            !.retries[id] = @ + 1,
            !.indexOfInflight = @ \ {id}]

RetryEffect(m, id) ==
  [m EXCEPT !.status[id] = "ready",
            !.ready[id] = @ + 1,
            !.retries[id] = @ + 1,
            !.indexOfInflight = @ \ {id}]

\* Broken: the early return of the dead branch skips the common tail.
DeadEffectSkipsTail(m, id) ==
  [m EXCEPT !.status[id] = "dead",
            !.dlq = @ \cup {id},
            !.index = @ \ {id}]

DeadEffect(m, id) ==
  [m EXCEPT !.status[id] = "dead",
            !.dlq = @ \cup {id},
            !.index = @ \ {id},
            !.retries[id] = @ + 1,
            !.indexOfInflight = @ \ {id}]

RequeueEffect(m, id) ==
  [m EXCEPT !.status[id] = "ready",
            !.retries[id] = 0,
            !.dlq = @ \ {id},
            !.index = @ \cup {id},
            !.ready[id] = @ + 1]

PurgeEffect(m, id) == [m EXCEPT !.dlq = @ \ {id}]

\* The pending operation is over.  A caller unlocks; the sweeper goes on to
\* the next entry with the mutex held.
Release ==
  /\ pend' = Idle
  /\ mu' = IF mu = "caller" THEN "free" ELSE mu
  /\ todo' = todo \ {pend.id}
  /\ UNCHANGED <<log, call, ret, proc, counters>>

Applies(op) == proc = "up" /\ pend.op = op

AckReturns ==
  /\ Applies("ack")
  /\ q' = AckEffect(q, pend.id)
  /\ expired' = expired \ {pend.id}
  /\ Release /\ UNCHANGED delayed

\* generateBackoff draws from [0, ceiling): the task may be due at once.
RetryReturns ==
  /\ Applies("retry")
  /\ q' = RetryEffect(q, pend.id)
  /\ expired' = expired \ {pend.id}
  /\ delayed' \in {delayed \cup {pend.id}, delayed \ {pend.id}}
  /\ Release

DeadReturns ==
  /\ Applies("dead")
  /\ q' = DeadEffect(q, pend.id)
  /\ expired' = expired \ {pend.id}
  /\ Release /\ UNCHANGED delayed

RequeueReturns ==
  /\ Applies("requeue")
  /\ q' = RequeueEffect(q, pend.id)
  /\ delayed' = delayed \ {pend.id}
  /\ Release /\ UNCHANGED expired

PurgeReturns ==
  /\ Applies("purge")
  /\ q' = PurgeEffect(q, pend.id)
  /\ Release /\ UNCHANGED <<delayed, expired>>

----------------------------------------------------------------------------
\* Sweeper: one pass over indexOfInflight with the mutex held throughout.
\* Go visits the entries of a map in no particular order.

SweepBegin ==
  /\ Unlocked
  /\ mu' = "sweeper" /\ todo' = q.indexOfInflight
  /\ UNCHANGED <<q, log, delayed, expired, pend, call, ret, proc, counters>>

Sweeping == proc = "up" /\ mu = "sweeper" /\ pend = Idle

\* Broken: an expired lease may be passed over.
SweepKeepAny(id) ==
  /\ Sweeping /\ id \in todo
  /\ todo' = todo \ {id}
  /\ UNCHANGED <<q, log, delayed, expired, mu, pend, call, ret, proc, counters>>

SweepKeep(id) ==
  /\ Sweeping /\ id \in todo
  /\ id \notin expired
  /\ todo' = todo \ {id}
  /\ UNCHANGED <<q, log, delayed, expired, mu, pend, call, ret, proc, counters>>

SweepRetry(id) ==
  /\ Sweeping /\ id \in todo
  /\ id \in expired /\ id \in q.index
  /\ log' = Append(log, RetryRecord(id))
  /\ pend' = RetryRecord(id)
  /\ UNCHANGED <<q, delayed, expired, mu, todo, call, ret, proc, counters>>

\* retryLocked returned an error, because the task is not in q.index or the
\* Append failed: the pass ends there.
SweepAbort(id) ==
  /\ Sweeping /\ id \in todo
  /\ id \in expired
  /\ \/ /\ id \notin q.index
        /\ UNCHANGED <<log, faults>>
     \/ /\ id \in q.index
        /\ faults < MaxFaults /\ faults' = faults + 1
        /\ log' \in AfterFault(RetryRecord(id))
  /\ mu' = "free" /\ todo' = {}
  /\ UNCHANGED <<q, delayed, expired, pend, call, ret, proc, crashes, requeues>>

SweepEnd ==
  /\ Sweeping /\ todo = {}
  /\ mu' = "free"
  /\ UNCHANGED <<q, log, delayed, expired, pend, todo, call, ret, proc, counters>>

----------------------------------------------------------------------------
\* Time, crashes and recovery.

LeaseExpires(id) ==
  /\ proc = "up" /\ id \in q.indexOfInflight \ expired
  /\ expired' = expired \cup {id}
  /\ UNCHANGED <<q, log, delayed, mu, pend, todo, call, ret, proc, counters>>

BackoffElapses(id) ==
  /\ proc = "up" /\ id \in delayed
  /\ delayed' = delayed \ {id}
  /\ UNCHANGED <<q, log, expired, mu, pend, todo, call, ret, proc, counters>>

\* Everything but the file is gone; calls in progress never return.
Crash ==
  /\ proc = "up"
  /\ crashes < MaxCrashes /\ crashes' = crashes + 1
  /\ proc' = "down"
  /\ q' = EmptyMemory
  /\ delayed' = {} /\ expired' = {} /\ todo' = {}
  /\ mu' = "free" /\ pend' = Idle
  /\ call' = [id \in Ids |-> IF call[id] \in {"append", "commit"}
                             THEN "lost" ELSE call[id]]
  /\ UNCHANGED <<log, ret, faults, requeues>>

\* NewQueue: open the log, replay it, serve.  No other goroutine can reach
\* the queue before NewQueue returns, so the replay is one step.
NewQueue ==
  /\ proc = "down"
  /\ LET m == Replay(log)
     IN  IF m.panicked
         THEN proc' = "panicked" /\ UNCHANGED q
         ELSE proc' = "up" /\ q' = m
  /\ UNCHANGED <<log, delayed, expired, mu, pend, todo, call, ret, counters>>

----------------------------------------------------------------------------

EnqueueStep(id) ==
  \/ EnqueueDedup(id) \/ EnqueueBegin(id)
  \/ EnqueueAppend(id) \/ EnqueueFails(id) \/ EnqueueCommit(id)

CallerStep(id) ==
  Dequeue(id) \/ Ack(id) \/ Retry(id) \/ RequeueDead(id) \/ PurgeDeadTask(id)

Returns ==
  AckReturns \/ RetryReturns \/ DeadReturns \/ RequeueReturns \/ PurgeReturns

SweepVisit(id) == SweepKeep(id) \/ SweepRetry(id) \/ SweepAbort(id)

TimePasses(id) == LeaseExpires(id) \/ BackoffElapses(id)

Next ==
  \/ \E id \in Ids : EnqueueStep(id)
  \/ \E id \in Ids : CallerStep(id)
  \/ Returns
  \/ SweepBegin \/ SweepEnd
  \/ \E id \in Ids : SweepVisit(id)
  \/ \E id \in Ids : TimePasses(id)
  \/ Crash \/ NewQueue

Spec == Init /\ [][Next]_vars

\* What the code's scheduling guarantees.  A goroutine inside an operation
\* keeps running.  The ticker never stops, and a Go mutex in starvation mode
\* is handed to its longest waiter, so a sweep that keeps finding the mutex
\* held is started all the same; so is the second half of an Enqueue.  A pass
\* ranges over a map from a random entry, so an entry that every pass might
\* reach is reached by one of them, though others end before it.  Time
\* passes.  Nothing obliges a caller to call, or a crash to happen; a process
\* that is down is restarted by whoever runs it.
Fairness ==
  /\ WF_vars(Returns)
  /\ SF_vars(SweepBegin) /\ WF_vars(SweepEnd)
  /\ \A id \in Ids :
       /\ SF_vars(SweepVisit(id))
       /\ WF_vars(TimePasses(id))
       /\ WF_vars(EnqueueAppend(id)) /\ SF_vars(EnqueueCommit(id))
  /\ WF_vars(NewQueue)

FairSpec == Spec /\ Fairness

\* Workers that poll: a task that keeps being due is dequeued sooner or later
\* (the heap hands out the soonest-available task first).  They may all die
\* before they Ack or Retry anything.
WorkersPoll == \A id \in Ids : SF_vars(Dequeue(id))

PolledSpec == FairSpec /\ WorkersPoll

============================================================================
