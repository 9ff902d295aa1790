----------------------------- MODULE ReadyHeap -----------------------------
(***************************************************************************)
(* The ready heap (internal/queue/heap.go) with the algorithms of          *)
(* container/heap it runs under, and every operation of the queue that     *)
(* pushes, pops or changes the key of a task on it.                        *)
(*                                                                         *)
(* The heap holds *Task pointers, so its order is that of the tasks'       *)
(* current AvailableAt and EnqueuedAt.  A late Retry or the revival of a   *)
(* dead task may change the key of a task that is still on the heap, and   *)
(* push it a second time.  Time counts from 1; 0 is time.Time{}.  The log  *)
(* and its failures are Queue's subject: a restart finds the live tasks.   *)
(***************************************************************************)
EXTENDS Integers, Sequences, FiniteSets, SequencesExt

CONSTANTS
  Tasks,
  MaxRetries,  \* Queue.maxRetries
  BaseDelay, MaxDelay,  \* of generateBackoff, in ticks
  MaxTime,     \* bound: the clock
  MaxLate,     \* bound: Ack and Retry calls for a task that is not in flight
  MaxRevivals, \* bound: RequeueDead calls
  MaxRestarts  \* bound: crashes followed by NewQueue

ASSUME HeapAssumption ==
  /\ MaxRetries \in Nat /\ BaseDelay \in Nat \ {0} /\ MaxDelay \in Nat \ {0}
  /\ MaxTime \in Nat \ {0} /\ MaxLate \in Nat /\ MaxRevivals \in Nat /\ MaxRestarts \in Nat

VARIABLES
  ready,       \* q.ready: the slice, its first entry the root
  availableAt, \* Task.AvailableAt
  enqueuedAt,  \* Task.EnqueuedAt
  retries,     \* Task.Retries
  life,        \* new, built (Enqueue is appending), live, dead, gone
  inflight,    \* q.indexOfInflight
  now,
  rekeyed,     \* a key has changed under an entry of the heap
  late, revivals, restarts  \* counters for the bounds

vars == <<ready, availableAt, enqueuedAt, retries, life, inflight, now,
          rekeyed, late, revivals, restarts>>

OnHeap == Range(ready)

TypeOK ==
  /\ ready \in Seq(Tasks)
  /\ availableAt \in [Tasks -> 0..MaxTime] /\ enqueuedAt \in [Tasks -> 0..MaxTime]
  /\ retries \in [Tasks -> 0..(MaxRetries + 1)]
  /\ life \in [Tasks -> {"new", "built", "live", "dead", "gone"}]
  /\ inflight \subseteq Tasks
  /\ now \in 1..MaxTime
  /\ rekeyed \in BOOLEAN
  /\ late \in 0..MaxLate /\ revivals \in 0..MaxRevivals /\ restarts \in 0..MaxRestarts

----------------------------------------------------------------------------
\* heap.go and container/heap, on a slice that starts at 1.  at and since are
\* the AvailableAt and EnqueuedAt the comparison sees.

Less(at, since, s, t) ==
  IF at[s] # at[t] THEN at[s] < at[t] ELSE since[s] < since[t]

Swap(h, i, j) == [h EXCEPT ![i] = h[j], ![j] = h[i]]

\* A loop over the slice: the slice, and the index it has come to.
Loop == [slice : Seq(Tasks), at : Nat]

\* The slice after n turns of a loop.  A turn that breaks changes nothing, and
\* no loop over n entries takes more turns than that.
After(n, turn, start) ==
  LET after[k \in 0..n] == IF k = 0 THEN start ELSE turn[after[k - 1]]
  IN  after[n].slice

\* One turn of up: the entry at p.at changes places with its parent, unless it
\* is not less.
Climb(at, since) ==
  [p \in Loop |->
     LET parent == p.at \div 2
     IN  IF parent = 0 \/ ~Less(at, since, p.slice[p.at], p.slice[parent]) THEN p
         ELSE [slice |-> Swap(p.slice, parent, p.at), at |-> parent]]

\* up: the entry at the end climbs.
Up(at, since, h) == After(Len(h), Climb(at, since), [slice |-> h, at |-> Len(h)])

\* One turn of down: the entry at p.at changes places with its lesser child
\* within the first n, unless that is not less.
Sink(at, since, n) ==
  [p \in Loop |->
     LET left  == 2 * p.at
         child == IF left < n /\ Less(at, since, p.slice[left + 1], p.slice[left])
                  THEN left + 1 ELSE left
     IN  IF left > n \/ ~Less(at, since, p.slice[child], p.slice[p.at]) THEN p
         ELSE [slice |-> Swap(p.slice, p.at, child), at |-> child]]

\* down: the entry at k sinks.
Down(at, since, h, k, n) == After(Len(h), Sink(at, since, n), [slice |-> h, at |-> k])

Push(at, since, h, t) == Up(at, since, Append(h, t))

\* Broken: the root does not change places with the last entry.
PopNoSwap(h) == Front(Down(availableAt, enqueuedAt, h, 1, Len(h) - 1))

\* heap.Pop takes the root: it changes places with the last entry, which
\* sinks; the slice is cut by one.
Pop(h) ==
  Front(Down(availableAt, enqueuedAt, Swap(h, 1, Len(h)), 1, Len(h) - 1))

\* Broken: the slice is left in the order of the log.
HeapInitSkipped(at, since, h) == h

\* One turn of heap.Init: the entry at p.at sinks.
Settle(at, since) ==
  [p \in Loop |->
     IF p.at = 0 THEN p
     ELSE [slice |-> Down(at, since, p.slice, p.at, Len(p.slice)), at |-> p.at - 1]]

\* heap.Init settles the parents, the last one first.
HeapInit(at, since, h) ==
  After(Len(h), Settle(at, since), [slice |-> h, at |-> Len(h) \div 2])

----------------------------------------------------------------------------

Init ==
  /\ ready = <<>>
  /\ availableAt = [t \in Tasks |-> 0] /\ enqueuedAt = [t \in Tasks |-> 0]
  /\ retries = [t \in Tasks |-> 0]
  /\ life = [t \in Tasks |-> "new"] /\ inflight = {}
  /\ now = 1 /\ rekeyed = FALSE
  /\ late = 0 /\ revivals = 0 /\ restarts = 0

counters == <<late, revivals, restarts>>

\* Enqueue takes EnqueuedAt, then appends without the mutex: tasks reach the
\* heap in another order than that of their EnqueuedAt.
EnqueueBuilds(t) ==
  /\ life[t] = "new"
  /\ life' = [life EXCEPT ![t] = "built"]
  /\ enqueuedAt' = [enqueuedAt EXCEPT ![t] = now]
  /\ UNCHANGED <<ready, availableAt, retries, inflight, now, rekeyed, counters>>

EnqueueInserts(t) ==
  /\ life[t] = "built"
  /\ life' = [life EXCEPT ![t] = "live"]
  /\ ready' = Push(availableAt, enqueuedAt, ready, t)
  /\ UNCHANGED <<availableAt, enqueuedAt, retries, inflight, now, rekeyed, counters>>

Dequeue ==
  /\ ready # <<>> /\ availableAt[ready[1]] <= now
  /\ ready' = Pop(ready)
  /\ inflight' = inflight \cup {ready[1]}
  /\ UNCHANGED <<availableAt, enqueuedAt, retries, life, now, rekeyed, counters>>

\* The code lets a caller Ack or Retry any task in q.index, leased or not.
Calls(t) ==
  /\ life[t] = "live"
  /\ late' = IF t \in inflight THEN late ELSE late + 1
  /\ late' <= MaxLate
  /\ UNCHANGED <<revivals, restarts>>

Ack(t) ==
  /\ Calls(t)
  /\ life' = [life EXCEPT ![t] = "gone"]
  /\ inflight' = inflight \ {t}
  /\ UNCHANGED <<ready, availableAt, enqueuedAt, retries, now, rekeyed>>

\* generateBackoff: full jitter below an exponential ceiling, capped.  The
\* clock's bound also bounds what it draws.
Backoff(n) ==
  LET exp == BaseDelay * 2^n
  IN  {d \in 0..((IF exp > MaxDelay THEN MaxDelay ELSE exp) - 1) : now + d <= MaxTime}

\* AvailableAt changes and t is pushed, whether or not it is on the heap.
Repush(t, at) ==
  /\ availableAt' = [availableAt EXCEPT ![t] = at]
  /\ ready' = Push(availableAt', enqueuedAt, ready, t)
  /\ rekeyed' = (rekeyed \/ t \in OnHeap)

\* Broken: one retry too many.
RetryOffByOne(t) ==
  /\ Calls(t) /\ retries[t] <= MaxRetries
  /\ \E d \in Backoff(retries[t]) : Repush(t, now + d)
  /\ retries' = [retries EXCEPT ![t] = @ + 1]
  /\ inflight' = inflight \ {t}
  /\ UNCHANGED <<enqueuedAt, life, now>>

\* Broken: the task is not pushed back.
RetryForgetsPush(t) ==
  /\ Calls(t) /\ retries[t] + 1 <= MaxRetries
  /\ \E d \in Backoff(retries[t]) :
       availableAt' = [availableAt EXCEPT ![t] = now + d]
  /\ retries' = [retries EXCEPT ![t] = @ + 1]
  /\ inflight' = inflight \ {t}
  /\ UNCHANGED <<ready, enqueuedAt, life, now, rekeyed>>

\* retryLocked, for a worker or the sweeper, early or late.
Retry(t) ==
  /\ Calls(t) /\ retries[t] + 1 <= MaxRetries
  /\ \E d \in Backoff(retries[t]) : Repush(t, now + d)
  /\ retries' = [retries EXCEPT ![t] = @ + 1]
  /\ inflight' = inflight \ {t}
  /\ UNCHANGED <<enqueuedAt, life, now>>

RetryDies(t) ==
  /\ Calls(t) /\ retries[t] + 1 > MaxRetries
  /\ life' = [life EXCEPT ![t] = "dead"]
  /\ retries' = [retries EXCEPT ![t] = @ + 1]
  /\ inflight' = inflight \ {t}
  /\ UNCHANGED <<ready, availableAt, enqueuedAt, now, rekeyed>>

RequeueDead(t) ==
  /\ life[t] = "dead"
  /\ revivals < MaxRevivals /\ revivals' = revivals + 1
  /\ life' = [life EXCEPT ![t] = "live"]
  /\ retries' = [retries EXCEPT ![t] = 0]
  /\ Repush(t, 0)
  /\ UNCHANGED <<enqueuedAt, inflight, now, late, restarts>>

\* A crash, and NewQueue: replay leaves one entry for each live task, in the
\* order of their ENQUEUE and REQUEUE records; a retried task is due now, any
\* other at once.  An Enqueue that was cut short may have left its record.
Restart ==
  /\ restarts < MaxRestarts /\ restarts' = restarts + 1
  /\ \E logged \in SUBSET {t \in Tasks : life[t] = "built"} :
       LET live == {t \in Tasks : life[t] = "live"} \cup logged
       IN  /\ life' = [t \in Tasks |-> IF t \in live THEN "live"
                                       ELSE IF life[t] = "built" THEN "gone"
                                       ELSE life[t]]
           /\ availableAt' = [t \in Tasks |-> IF retries[t] > 0 THEN now ELSE 0]
           /\ \E slice \in SetToSeqs(live) :
                ready' = HeapInit(availableAt', enqueuedAt, slice)
  /\ inflight' = {} /\ rekeyed' = FALSE
  /\ UNCHANGED <<enqueuedAt, retries, now, late, revivals>>

Tick ==
  /\ now < MaxTime
  /\ now' = now + 1
  /\ UNCHANGED <<ready, availableAt, enqueuedAt, retries, life, inflight, rekeyed, counters>>

Next ==
  \/ \E t \in Tasks :
       \/ EnqueueBuilds(t) \/ EnqueueInserts(t) \/ Ack(t)
       \/ Retry(t) \/ RetryDies(t) \/ RequeueDead(t)
  \/ Dequeue \/ Restart \/ Tick

\* Workers poll and time passes.
Spec == Init /\ [][Next]_vars /\ WF_vars(Dequeue) /\ WF_vars(Tick)

----------------------------------------------------------------------------
\* What Dequeue relies on.

\* "If the root is not yet due, nothing is" (heap.go), and the root is what
\* Dequeue hands out: no entry comes before it, in the order of AvailableAt
\* and then EnqueuedAt, after any pushes, pops and restarts.  A key that
\* changes under an entry suspends this until the next restart.
RootIsSoonest ==
  ~rekeyed =>
    \A i \in 2..Len(ready) : ~Less(availableAt, enqueuedAt, ready[i], ready[1])

\* No operation drops an entry from the slice: a live task is on the heap or
\* in flight, even when entries are out of order or doubled.
NoEntryFallsOut ==
  \A t \in Tasks : life[t] = "live" => t \in OnHeap \cup inflight

\* An entry on the heap is handed out (or its task settled first), even if a
\* late Retry has put a task that is not due yet above it: out of order, the
\* heap delays a task, it does not strand it.
EventuallyServed ==
  \A t \in Tasks : t \in OnHeap ~> t \in inflight \/ life[t] # "live"
============================================================================
