# Gojobs: a verification project

Gojobs is an in-process task queue (`internal/queue`). Every operation that
changes the queue, except Dequeue, is written to a write-ahead log and fsync'd
before memory changes; a restart rebuilds memory from the log. This directory
holds TLA+ modules for it, TLC configurations that check them on small
instances, and proofs of theorems that TLAPS checks for every instance.

## 1. Inventory

| Component | State | Operations | Hard behaviour | What makes it correct |
|---|---|---|---|---|
| **Queue** `queue.go` | `ready` heap, `index`, `indexOfInflight`, `indexOfIdemKeys`, `q.mu` | Enqueue, Dequeue, Ack, Retry | Enqueue drops the mutex for its append; late Ack/Retry after the lease; failed appends | no task lost, one task per key, an acked task is gone, the retry budget holds |
| **Dead-letter queue** `queue.go` | `dlq` | RequeueDead, PurgeDeadTask (and accessors that only copy) | a dead task that still has an entry on the heap | live and dead are disjoint; a revival has a fresh budget, also after replay |
| **Lease sweeper** `queue.go` | `LeaseUntil` of in-flight tasks | Sweeper, runSweeper | races workers for the mutex; one error ends a pass | every expired lease is reclaimed |
| **Recovery** `queue.go` | rebuilt from the log | NewQueue, applyRecord | Dequeue is not logged; RETRY is a delta, DEAD is absolute; several ENQUEUE records for one key | replay agrees with memory at every moment a crash may happen |
| **WAL** `wal.go` | request channel, batch, file, fsync'd prefix | Append, run, Close, OpenWAL, Replay | group commit, failed writes and fsyncs, torn frames, Close during a batch | nil from Append means durable and replayable; every Append and Close returns |
| **Record codec** `record.go`, frames in `wal.go` | none | encode/decode per operation | 32-bit length fields, torn or zero-filled bytes | decode inverts encode; a torn frame is never taken for a record |
| **Ready heap** `heap.go` | slice ordered by (AvailableAt, EnqueuedAt) | Less, Push, Pop, heap.Init | a *Task on the heap whose key changes | the root is the soonest task |
| **Shutdown** `Queue.Close` | `stop`, `wg`, `writerDone` | Close, runSweeper | sweeper mid-pass, callers mid-append | Close returns, the log is complete |
| **Load test** `cmd/loadtest/workload.go`, `store.go` | effect store, counters, stop channel | producers, consumers, drain, verdict | consumers that fail before or after the effect, or stop on an error; leases that outlive them | PASS is true, FAIL has a cause, the drain ends |
| Load test reporting, wizard, `cmd/taskq` | none shared | formatting, prompts, a demo | none | out of scope |

**Interaction.** Callers, the sweeper and recovery share the Queue struct under
`q.mu`. Every logged operation calls `wal.Append`, which sends a request on a
buffered channel to the one writer goroutine and waits for its reply. Ack,
Retry, RequeueDead, PurgeDeadTask and the sweeper hold `q.mu` for all of that;
Enqueue does not. `NewQueue` feeds `wal.Replay` into `applyRecord`.

The hazards that follow are listed, each at its line, in `PROJECT.json`.

## 2. Modules

```
TaskStore ── Queue ── QueueProperties ─┬─ QueueLifecycle ── MCQueue     (TLC)
                                       │     └ INSTANCE TaskLifecycle
                                       ├─ LoadTest ── MCLoadTest        (TLC)
                                       └─ QueueProofs                   (TLAPS)
WAL ── WALProperties ─┬─ Shutdown ── MCShutdown                         (TLC)
          │           ├─ MCWAL                                          (TLC)
          │           └─ WALProofs                                      (TLAPS)
          └ INSTANCE DurableLog
ReadyHeap ─┬─ MCReadyHeap                                               (TLC)
           └─ ReadyHeapProofs                                           (TLAPS)
LogFile ─┬─ MCLogFile                                                   (TLC)
         └─ LogFileProofs                                               (TLAPS)

QueueProofs + QueueLifecycle ── QueueRecoveryProofs ── QueueDisciplineProofs
QueueDisciplineProofs + LoadTest ── LoadTestProofs
WALProofs + Shutdown ── ShutdownProofs
```

**TaskStore**: the Queue struct as a record (`Memory`), the log records, one
operator per case of `applyRecord`, and `Replay`, which applies them in order.
A task is its ID. The heap is the multiset of its entries (`ready[id]` is a
count), because a late Retry can push one `*Task` twice. `status` and `retries`
are fields of the task and outlive its removal from the maps, as in the code.
A nil `*Task` dereferenced by replay is `panicked`. `OperationDequeue` has a
wire format and a replay case, and nothing ever appends it: it is left out.

**Queue**: the operations, the sweeper, time, crashes and restarts.

| Code | Actions |
|---|---|
| `Enqueue` | `EnqueueDedup` (fast path), `EnqueueBegin` (look, unlock), `EnqueueAppend` / `EnqueueFails`, `EnqueueCommit` (lock, look again, insert) |
| `Dequeue` | `Dequeue` |
| `Ack`, `Retry`, `RequeueDead`, `PurgeDeadTask` | the action of that name: lookup and durable record, or a failed append; then `AckReturns`, `RetryReturns` or `DeadReturns`, `RequeueReturns`, `PurgeReturns`: memory changes and the mutex is released |
| `retryLocked` | `RetryRecord` chooses RETRY or DEAD; `RetryEffect`, `DeadEffect` include the tail common to both branches |
| `Sweeper` | `SweepBegin`, then `SweepKeep`, `SweepRetry`, `SweepAbort` per entry in any order, `SweepEnd`; the mutex is held throughout |
| lease and backoff clocks | `LeaseExpires`, `BackoffElapses`; a backoff of zero is possible, so `RetryReturns` may leave the task due |
| process | `Crash` (everything but the log is gone, calls in progress are lost), `NewQueue` |

A failed append may have left its record in the file: `AfterFault` is the choice
that `EnqueueFails`, `SweepAbort` and the failing branch of `CallerAppends` have.
Three Boolean constants say what the queue may rely on. `Disciplined`: Ack and
Retry are called only for a task that is in flight (the code does not check
that). `SerialKeys`: Enqueue calls with one key do not overlap. `CleanFaults`: an
append that fails has written nothing. The properties that need one of them are
checked with it; what happens without it is checked as well.

**WAL**: callers of Append, the channel, the writer goroutine step by step
(receive, drain, write each frame, fsync, reply), failures of Write and Sync,
Close, the panic of a send on a closed channel, crashes that keep the fsync'd
prefix and any part of the rest, and OpenWAL on what is left. A frame is whole
or torn, and Replay is sure of what precedes the first torn one.

**Shutdown** composes the WAL with those who call it: an Enqueue, which appends
without `q.mu`, an Ack or its like, which holds it across the Append, the
sweeper goroutine, and `Queue.Close`.

| Code | Actions |
|---|---|
| `runSweeper` | `Tick` and `Stopped`, both possible when both channels are ready; `SweepLocks`, `SweepAppends`, `SweepEnds` |
| `Ack`, `Retry`, `RequeueDead`, `PurgeDeadTask` | `LockedAppends`, then `HolderResumes` (unlock) |
| `Enqueue` | `EnqueueAppends` |
| `Queue.Close` | `QueueClose` (`close(q.stop)`), `SweeperAwaited` (`q.wg.Wait()`, then the WAL's `Close`), `QueueCloseReturns` |
| process | `ProcessEnds` (crash, or a panic of a send on the closed channel), `NewQueue` |

**ReadyHeap**: the slice of `heap.go` under the algorithms of `container/heap`
(`Up`, `Down`, `Push`, `Pop`, `HeapInit`), and every operation that pushes, pops
or changes a key. The three `for` loops of `container/heap` are one operator,
`After`, over the body of each (`Climb`, `Sink`, `Settle`), so that one lemma
about loops serves them all. The heap holds pointers, so a late Retry or a revival changes
`AvailableAt` under an entry that is still there, and pushes the task again;
`rekeyed` remembers that. Time is a counter; `Backoff` is the range
`generateBackoff` draws from. `Restart` leaves one entry per live task in any
order and runs `HeapInit`.

**LogFile**: the bytes. A file is a sequence of tokens: tags, payload bytes and
the digits of a `uint32` one by one, a UUID, a time stamp and a CRC as one token
each. The encoders and decoders are the lists of fields they write and read;
`DecodeFrame`, `DecodeRecord` and `Replay` follow `wal.go` and `record.go`,
misaligned reads included. Each loop of the code (over the fields of a payload,
over the digits of a number, over the frames of a file) is a recursive function
of the turn, so that it can be reasoned about. `WriteFrame`, `TearFrame` (cut
between any two tokens) and `ZeroFill` build every file of up to `MaxFrames`
parts.

**LoadTest** composes the queue with the load test: `Produces`; `Takes`,
`Succeeds`, `Fails` (before the effect), `Crashes` (after it), `GivesUp` (a call
returned an error) for consumers; `DrainBegins`, `DrainChecks`,
`DrainFindsNothing`, `DrainListsDead`, `DrainRequeues`, `DrainLoops`,
`DrainTimesOut` for `drain`, which takes tasks like a consumer that never fails; `Judges` for the verdict.
Each is conjoined with the step of `Queue` that the call makes, so the sweeper,
the mutex, leases, backoff and failed Appends are the real ones. `late` and
`timedOut` are history: what may excuse a FAIL.

**TaskLifecycle** is the abstract specification of a task (absent, live, dead,
done, purged, with its failed attempts) that knows neither log nor crash;
**QueueLifecycle** has the refinement mapping. **DurableLog** is the abstract
log; `WALProperties!ImplementsDurableLog` maps the file to it, and `Queue`
takes its variable `log` to behave this way: a record joins at the end during
the call, a nil return means it stays, an error or a crash leaves it open.
The two levels meet in the whole frames of the file; that Replay does not reach
all of them behind a torn one is `torn_tail`.

Operators marked "Broken" are plausible mistakes; `PROJECT.json` lists which
property notices which of them when it takes the place of the real definition.

## 3. Runs

| Run | Instance | Shows |
|---|---|---|
| `queue_core` | 3 Enqueue calls, 2 with one key; leases kept; 1 crash, 1 revival | `OnePlace`, `AckedIsGone`, `AcceptedSurvives`, `RecoveryAgrees`, types; `OneTaskPerKey`, for calls that do not overlap (`SerialKeys`) |
| `queue_late` | 2 calls with one key; Ack and Retry at any time; 2 retries, 2 crashes, 1 revival, 1 failed append that writes nothing | `RecoveryAgrees` and `RetryBudget` hold for late calls and failed appends too; the queue implements `TaskLifecycle`; `EveryTaskSettles` |
| `queue_anything` | 2 calls with one key that may overlap; late calls; 1 failed append that may leave its record, 1 crash, 1 revival | what holds without any assumption: `NoLostTask`, `LiveNotDead`, `KeyOwnsTask`, `WriteAhead` (memory is never ahead of the log, also when an append failed), and until the first crash `RacersAgree` |
| `queue_fair` | 2 tasks, no retries, Ack and Retry at any time; polling workers; 1 crash | `LeaseReclaimed` and `EveryTaskSettles`, though entries that cannot be retried end passes of the sweeper |
| `shutdown` | an Enqueue, an Ack and a sweep; 1 slot, 1 fault, 2 crashes, torn frames, Close at any time | `SweeperNeverPanics`, `SweeperStops`, `CloseReturnsWhenQuiet`; of the WAL `OkIsDurable`, `GoodPrefixKept`, `AppendReturns`, refinement of `DurableLog` |
| `ready_heap` | 3 tasks, 1 retry, 2 ticks, 1 late call, 1 revival, 1 restart | `RootIsSoonest`, `NoEntryFallsOut`, `EventuallyServed` |
| `log_file` | 8 records of all 7 operations, files of up to 3 frames | `ReadsGoodPrefix`, `InventsNothing`, `RefusesOnlyZeros`, `CutBodyRejected` |
| `load_test` | 1 producer with 2 tasks, 2 consumers, no retries (a failure kills), 1 fault | `PassIsSound`, `FailHasACause`, `RedeliveriesAddUp`, `RunEnds` |

Runs that end in a violation, each a place where the code does not do what a
comment, a test or the repository's README says (quoted under "findings"):

| Run | What TLC finds |
|---|---|
| `late_ack` | Ack of a task that is on the heap succeeds and leaves it there, and Dequeue hands the acknowledged task out. TLC's trace is the test's case, a task that nobody has leased; a worker's Ack after the sweeper has put its task back does the same. Replay of the same log would have removed it. |
| `key_race` | Two overlapping Enqueue calls with one key log two records; memory keeps the one logged second, replay the one logged first; a RETRY of the kept one makes the next NewQueue panic. |
| `torn_tail` | A crash tears the last frame, the file is reopened and appended to; Append returns nil for a record that Replay never reaches. |
| `close_hangs` | Close while the writer drains a batch: a closed channel is always ready, the drain loop never ends. |

A fifth disagreement of this kind has no run of its own. `wal.go:119` says of a
frame whose caller saw an error that "Idempotency keys make that recoverable
(the retry dedups)". The failed call entered no key in memory, so the retry logs
a second record and returns its ID; replay keeps the first record, and the
restarted queue does not know the ID the producer holds. `AcceptedSurvives`
fails in `queue_core`'s instance once `MaxFaults` is 1 and `CleanFaults` is
FALSE; it holds there with `CleanFaults` TRUE (three minutes; the run itself has
no failed append).

What the passing runs say about damage and disorder, beyond the names:

- A late Retry puts the heap out of order until the next restart: a due task may
  wait below a root that is not due. It is delayed, not lost (`EventuallyServed`).
- Bytes behind a torn frame are read as if they belonged to it. A record that
  was torn may come back whole because what it lacked is what the following
  bytes begin with; nothing that was not written is ever read (`InventsNothing`,
  for a checksum that tells all bodies apart).
- The one kind of damage that stops the queue from opening is a header of zeros:
  length 0, checksum 0, a valid frame with an empty body. `RefusesOnlyZeros`
  says that nothing else does; it does not say that this is right.
- `Close` does hang, or a caller panics, when an Append overlaps it
  (`close_hangs`); with none it always returns, and never because of the sweeper.
- The load test's FAIL without a timeout needs a lease that ran out under a busy
  client, or a failed Append.

**Bounds.** `MaxCrashes`, `MaxFaults`, `MaxRequeues` and their like cap what
would otherwise repeat without end; every log and every counter is finite
because retries are bounded by `MaxRetries` (1 in most runs: one RETRY and then
DEAD, the two branches and the boundary between them). Two tasks are enough for
one to be swept, retried or dead while another is handed out; a third, without a
key, joins two that share one. One crash at any step covers every cut between
a record and its effect; in the WAL two crashes cover a file that is opened,
appended to and torn again. A channel with one slot makes senders block and
batches hold several frames, with three callers. Three tasks, one of them twice
on the heap, give a root, two children and a fourth entry below them. Three
parts of a file are a good frame, a damaged one and what is appended behind it.
In `load_test` the drain can always revive what is dead: with no retries a task
dies at most once before its Ack or the end of the drain, and one revival may
fail, so `MaxRequeues = 3` is never reached in want of more. Its invariants
also hold with `MaxRetries = 1` and one consumer, where late Acks leave entries
behind on the heap (939 thousand states; too many for its liveness property).
In `queue_anything` deadlock is not checked, because a process whose recovery
panics does stop; nor in `ready_heap` and `log_file`, whose clock and file are
full at some point.

**Fairness** (`Queue!Fairness`). A goroutine inside an operation goes on (weak
fairness of the effects, the sweep and the append); the ticker never stops and
a Go mutex in starvation mode goes to its longest waiter (strong fairness of
`SweepBegin` and `EnqueueCommit`); a pass ranges over a map from a random entry,
so an entry that every pass might reach is reached by some pass (strong fairness
of `SweepVisit`); time passes; a process that is down is restarted. No caller is
obliged to call. `WorkersPoll` adds, for `queue_fair` and `queue_late`, that a
task which is due again and again is dequeued (consumers poll in a loop, and the
heap hands out the soonest task first); nothing says that a worker survives to
Ack. In the WAL the writer runs, a blocked sender is served in turn (Go channels
queue their senders), and Close proceeds when `writerDone` is closed; `Shutdown`
adds that `select` picks at random among ready cases, so a closed `stop` is
noticed though ticks keep coming. In `ReadyHeap` workers poll and the clock
ticks. In `LoadTest` some goroutine of the test that can go on does, the sweeper
gets its turns and time passes; nothing is assumed of the drain's deadline.

## 4. Theorems

Every theorem below holds for every value of the constants that satisfies the
named assumptions of the modules (`StoreAssumption`, `QueueAssumption`,
`WALAssumption`, `ShutdownAssumption`, `HeapAssumption`, `LoadTestAssumption`,
`SizeAssumption`, `InputsAssumption`): any number of tasks, calls, clients,
channel slots and frames, any retry budget, any records, and any bound on
crashes, failures and revivals. `LoadTestAssumption` says that no two produced
tasks share a key, as `workload.go:107` makes them. `SizeAssumption` asks for a
base of at least 2 and a width of at least 1; the code's numbers have 4 digits to
the base 256. `InputsAssumption` says that what is appended are records of the
seven operations whose lengths, priorities and counts fit in a `uint32`. The
encoders do not check that: a payload of 4 GiB would be framed with a wrong
length (`PutUint32` drops the high digits, as the conversion in the code does).

### What is proved

| Theorem | Statement | Under |
|---|---|---|
| **`QueueProofs`** | | |
| `Invariance` | `[]IndInv` | |
| `TypeCorrect`, `NoTaskIsLost`, `NoTaskIsLiveAndDead`, `KeysOwnTheirTasks` | `[]TypeOK`, `[]NoLostTask`, `[]LiveNotDead`, `[]KeyOwnsTask` | |
| `RacingCallsAgree` | `[]RacersAgree` | |
| **`QueueRecoveryProofs`** | | |
| `RecoveryInvariance`, `RecoveryIsExact`, `RecoveryNeverPanics` | `[]RecInv`, `[]RecoveryAgrees`, `[]RecoverySucceeds` | `Benign` |
| `RetriesAreBounded` | `[]RetryBudget` | `Benign` |
| `NoAcceptedTaskIsLost`, `EnqueueIsIdempotent` | `[]AcceptedSurvives`, `[]OneTaskPerKey` | `Benign` |
| `QueueImplementsLifecycle` | `Spec => ImplementsLifecycle` | `Benign` |
| **`QueueDisciplineProofs`** | | |
| `DisciplineInvariance`, `EachTaskIsInOnePlace` | `[]DiscInv`, `[]OnePlace` | `Disciplined` |
| `AckedTasksAreGone`, `AckedTasksAreNotRedelivered` | `[]AckedIsGone`, `AckedNotRedelivered` | `Disciplined`, `Benign` |
| `LogIsWrittenAhead` | `[]WriteAhead` | |
| **`WALProofs`** | | |
| `WALInvariance`, `WALTypeCorrect` | `[]WInv`, `[]TypeOK` | |
| `DurabilityHolds`, `GoodPrefixIsKept` | `[]OkIsDurable`, `GoodPrefixKept` | |
| `WALImplementsDurableLog` | `Spec => ImplementsDurableLog` | |
| **`ShutdownProofs`** | | |
| `ShutdownUsesWAL`, `ShutdownKeepsTheLog` | `ShutdownSpec => Spec`, and what follows from `WALProofs` | |
| `ShutdownInvariance`, `ShutdownTypeCorrect`, `SweeperDoesNotPanic` | `[]ShutInv`, `[]ShutdownTypeOK`, `[]SweeperNeverPanics` | |
| **`LoadTestProofs`** | | |
| `LoadUsesQueue`, `LoadInvariance`, `LoadTypeCorrect` | `LoadSpec => Spec`, `[]LoadInv`, `[]LoadTypeOK` | |
| `PassMeansDone`, `FailureHasACause`, `RedeliveriesAreExact` | `[]PassIsSound`, `[]FailHasACause`, `[]RedeliveriesAddUp` | |
| **`ReadyHeapProofs`** | | |
| `HeapInvariance`, `HeapTypeCorrect` | `[]HeapInv`, `[]TypeOK` | |
| `RootIsTheSoonest`, `NoEntryIsDropped` | `[]RootIsSoonest`, `[]NoEntryFallsOut` | |
| **`LogFileProofs`** | | |
| `LayoutInvariance` | `[]Layout` | |
| `GoodPrefixIsRead`, `NothingIsInvented` | `[]ReadsGoodPrefix`, `[]InventsNothing` | |
| `OnlyZerosAreRefused`, `CutBodiesAreRejected` | `[]RefusesOnlyZeros`, `[]CutBodyRejected` | |

`Benign` is `SerialKeys /\ (CleanFaults \/ MaxFaults = 0)`: Enqueue calls with
one key do not overlap, and Appends may fail as often as they like but write
nothing when they do. Recovery needs both halves: `key_race` is the
counterexample to `RecoverySucceeds` without the first, and the retry after a
failed Append (section 3) the one to `AcceptedSurvives` without the second. No
record other than ENQUEUE is better off: an ACK, DEAD, REQUEUE or PURGE that is in the log
though its Append failed leaves the task where memory does not have it, and the
next operation may append a record for which replay finds no task.
`Disciplined` callers Ack and Retry only what is
in flight; `late_ack` shows what is lost without it. Late callers are allowed
wherever `Disciplined` is not named.

### Along which argument

**The queue.** `IndInv` is `TypeOK`, `Sound(q)`, `LogSound(log, call)`, `Fresh`
and `Held`. None of the properties is inductive alone. A recovery replaces
memory by `Replay(log)`, so the invariant must say of `Replay(log)` what it says
of memory, after every append (`LogSound`). The properties also need each other:
an entry leaves the heap only when its task leaves `index`, a task may be
inserted because no record names it yet (`Fresh`), and an effect may be applied
because the record's lookup still holds while the mutex is held (`Held`).

`Replay` is a recursive function over the log. Its induction is moved into the
behaviour: `LogSound` carries a sequence of memories that satisfies the recursive
equation and is the only one that does (`Rebuilt`). One more record extends it
by one memory, uniquely (`RebuiltAppend`), so `Replay(Append(l, r))` is `r`
applied to `Replay(l)` (`ReplayAppend`). From there each action has its lemma.

`RecInv` is the write-ahead argument. `Agrees(Replay(log), After(q, pend),
Committing)`: replay builds memory with the operation in progress applied, plus
the Enqueue calls that have appended and not yet inserted. An append changes the
left side, a return the right side, and each record's replay has to do what the
operation's effect does. For that the invariant also carries that at most one
call per key is in progress (`Serial`), that a task has no retries before it is
inserted (`Unretried`: RETRY is a delta), and the budget of both memories (DEAD
is absolute). `Accounts` and `History` follow IDs and keys through the log.
`QueueImplementsLifecycle` then maps every append of a record to the step of
`TaskLifecycle` it stands for and every other step, crash and recovery included,
to a stutter.

`DiscInv` says that every task of memory and of `Replay(log)` is in one place
(`InPlace`), and that the tasks an Ack, a Retry or a sweep is working on are
leased: a disciplined lookup is still true when the effect is applied.

`LogIsWrittenAhead` needs none of these hypotheses. `AheadInv` says that the
records in the log account for memory, for `Replay(log)`, since a crash puts it in
the place of memory, and for the calls in progress (`Backed`, `CallsBacked`): an
operation that still has to change memory has its record, and so has the owner of
every key, whose ID the fast path of Enqueue returns. A failed Append at most
makes the log longer, and a longer log accounts for more.

**The WAL.** `WInv` follows a request: in the channel or in the batch, once, its
caller waiting (`Queues`); what the phase of the writer says of `batch` and
`pos` (`Phases`); what has been written of the batch has its frames in the file,
and a caller that saw nil has one in the fsync'd part (`Frames`). The mapping to
`DurableLog` takes the whole frames in order; the proof follows what a write, a
torn write and the cut of a crash do to that sequence.

**Shutdown and the load test** are compositions, so each first shows that its
steps are steps of the module it composes with (`ShutdownUsesWAL`,
`LoadUsesQueue`): every theorem about that module then holds of it. `ShutInv`
adds that the sweeper holds the mutex during its Append (`SweepHolds`) and has
exited before `Queue.Close` reaches the WAL (`Order`). `LoadInv` counts: only
produced tasks are in the queue, in a client's hands or in the effect store, and
what is settled has its effect and its ACK record (`Contents`); `stats.acked` is
the number of settled tasks (`AckedCounts`); a delivery is acked, retried,
crashed, refused or in a client's hands (`Deliveries`). While no lease has run
out under a client, every task is in its place and a client alone holds the
lease of its task (`InTime`), so that its calls cannot fail.

**The heap.** `RootIsSoonest` needs the whole slice to be a heap (`Ordered`),
and that tasks not yet inserted are not on it (`Unseen`), because Enqueue sets
their key. What the loops compute is an induction over data. The library's
induction theorems are out of the provers' reach, but the existence of minimal
elements is stated for sets: a non-empty set of naturals has a least element
(`LeastNatural`). `LoopEnds` uses it on the first turn that goes wrong: a loop
whose turns keep a set of states and lower a rank, or change nothing, has come
to rest in that set within as many turns as its first rank. Each loop then has
an invariant of its own: for `up` a heap but for the climbing entry
(`Climbing`), for `down` but for the sinking one (`Sinking`), for `Init` a heap
from `at + 1` on. `PushKeepsTheHeap`, `PopKeepsTheHeap` and `HeapInitMakesAHeap`
are the contracts of `container/heap`; `RootFirst` walks from the least bad
index to its parent.

**The bytes.** The properties of `LogFile` are about what functions of the file
return, so the inductive invariant is about the file alone: `Layout`, one piece
for each entry of the history, in its order, each a whole frame, a beginning of
one, or zeros. That is easily kept; the work is in what follows from it, again
by the least turn at which a claim fails (`Induction`, `LoopStays`; `LoopExists`
shows that a loop of the code has its values).

The codec comes first. `NumberRoundTrip`: `Uint32` inverts `PutUint32` below
`Base ^ Width`. `FieldRead`: at the encoding of a field the decoder reads that
field and stands behind it, or fails if the body ends within it.
`RecordRoundTrip`: decoding gives back the record, and fails on every proper
beginning of it. `CutBodiesAreRejected` is its second half.

Then the frames. A checksum token occurs in a file only where a header was
written, and determines the record (`ChecksumFound`), so `decodeFrame` accepts
two things only, wherever the reader is: a header of zeros, or, at the start of
a frame, the whole body of that frame's record (`Accepted`). The reader is
therefore always at the start of a frame or about to stop. It need not be at the
start of the *next* frame: a torn frame that is completed by the bytes behind it
swallows them. What it swallows holds no checksum, so it holds no complete header
and the reader cannot have passed a whole frame (`Explains`, kept by
`ReadingExplained`). That gives `NothingIsInvented` and `OnlyZerosAreRefused`;
`GoodPrefixIsRead` needs one turn per whole frame (`GoodTurns`) and that no turn
takes back what was read (`ReadingGrows`). The checksum is a perfect one here:
all of this is up to collisions of CRC-32.

### What is only model-checked

- Liveness under fairness (`LeaseReclaimed`, `EveryTaskSettles`, `AppendReturns`,
  `SweeperStops`, `CloseReturnsWhenQuiet`, `EventuallyServed`, `RunEnds`): out of
  the prover's reach.
- The four disagreements of section 3 that have a run, which are counterexamples.

## 5. Not modelled

- In `Queue`, the order of the ready heap: `Dequeue` may hand out any due task.
  `ReadyHeap` has the order. A heap that is out of order may also make `Dequeue`
  find nothing though a task is due; in `Queue` that is a Dequeue not called.
- The bits of a UUID, of a time stamp and of a CRC; collisions of the checksum;
  the memory `decodeFrame` allocates for a length it misreads.
- A second call of `Close`, which panics on the closed `stop` channel.
- `Priority` and `Owner`, which no transition depends on (they are fields of the
  codec), and `FailedAt`, which orders `ListDeadTasks`.
- Errors of `os.OpenFile`, `Stat` and reads in `Replay`: NewQueue returns them
  before there is a queue.
- Of the load test: flags and the wizard, latency samples, percentiles (ranks
  of floating-point products), tables and JSON lines, and a WAL file pinned with
  `-wal` and used twice. They share no state with the queue or with each other.
- The demo command.

## 6. Plan

The modelling and the proofs planned are done. What could follow is a version of
`Queue` over a WAL that halts on its first error, which `wal.go` calls "a later
concern": with it `CleanFaults` would no longer be a hypothesis.
