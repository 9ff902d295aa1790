------------------------------ MODULE Shutdown -----------------------------
(***************************************************************************)
(* Who calls the write-ahead log, and how a Queue is shut down: the        *)
(* sweeper goroutine with its ticker and stop channel (runSweeper),        *)
(* operations that hold q.mu across Append, Enqueue, which does not, and   *)
(* Queue.Close, composed with the goroutines and the file of WAL.          *)
(*                                                                         *)
(* A record of SweepRecords is the one a sweep appends for a task whose    *)
(* lease is over, one of LockedRecords belongs to an Ack, Retry,           *)
(* RequeueDead or PurgeDeadTask, any other to an Enqueue.  What the        *)
(* operations do to the queue's maps is Queue's subject.                   *)
(***************************************************************************)
EXTENDS WALProperties

CONSTANTS SweepRecords, LockedRecords, Sweeper

EnqueueRecords == Records \ (SweepRecords \cup LockedRecords)

ASSUME ShutdownAssumption ==
  /\ SweepRecords \subseteq Records /\ LockedRecords \subseteq Records
  /\ SweepRecords \cap LockedRecords = {}
  /\ Sweeper \notin Records \cup {Nil}

VARIABLES
  stop,     \* q.stop has been closed
  sweeper,  \* where runSweeper is
  mu,       \* q.mu: Nil when free, else the Append it is held across, or Sweeper
  closing   \* where Queue.Close is: before q.wg.Wait() or q.wal.Close() returns

queueVars == <<stop, sweeper, mu, closing>>

allVars == <<vars, queueVars>>

ShutdownTypeOK ==
  /\ TypeOK
  /\ stop \in BOOLEAN
  /\ sweeper \in {"select", "lock", "pass", "exited"}
  /\ mu \in Records \cup {Nil, Sweeper}
  /\ closing \in {"idle", "sweeper", "wal", "done"}

Fresh ==
  /\ stop' = FALSE /\ sweeper' = "select" /\ mu' = Nil /\ closing' = "idle"

Up == writer # "dead"

ShutdownInit ==
  /\ Init
  /\ stop = FALSE /\ sweeper = "select" /\ mu = Nil /\ closing = "idle"

----------------------------------------------------------------------------
\* Callers.

\* Enqueue builds its record under the mutex and appends without it.
EnqueueAppends(r) ==
  /\ r \in EnqueueRecords /\ mu = Nil
  /\ AppendBegins(r)
  /\ UNCHANGED queueVars

LockedAppends(r) ==
  /\ r \in LockedRecords /\ mu = Nil
  /\ mu' = r
  /\ AppendBegins(r)
  /\ UNCHANGED <<stop, sweeper, closing>>

\* Broken: the early return on an error skips the unlock.
HolderLeaksLock(r) ==
  /\ mu = r /\ caller[r] \in {"ok", "err"}
  /\ mu' = IF caller[r] = "err" THEN mu
           ELSE IF r \in SweepRecords THEN Sweeper ELSE Nil
  /\ sweeper' = IF r \in SweepRecords /\ caller[r] = "err" THEN "select" ELSE sweeper
  /\ UNCHANGED <<vars, stop, closing>>

\* The holder of the mutex goes on: a caller unlocks, a sweep visits the next
\* entry, or ends with the first error.
HolderResumes(r) ==
  /\ mu = r /\ caller[r] \in {"ok", "err"}
  /\ IF r \in SweepRecords /\ caller[r] = "ok"
     THEN mu' = Sweeper /\ UNCHANGED sweeper
     ELSE /\ mu' = Nil
          /\ sweeper' = IF r \in SweepRecords THEN "select" ELSE sweeper
  /\ UNCHANGED <<vars, stop, closing>>

----------------------------------------------------------------------------
\* runSweeper.  When the ticker has fired and stop is closed, select takes
\* either case.

Tick ==
  /\ Up /\ sweeper = "select"
  /\ sweeper' = "lock"
  /\ UNCHANGED <<vars, stop, mu, closing>>

SweepLocks ==
  /\ sweeper = "lock" /\ mu = Nil
  /\ sweeper' = "pass" /\ mu' = Sweeper
  /\ UNCHANGED <<vars, stop, closing>>

SweepAppends(r) ==
  /\ r \in SweepRecords /\ mu = Sweeper
  /\ mu' = r
  /\ AppendBegins(r)
  /\ UNCHANGED <<stop, sweeper, closing>>

SweepEnds ==
  /\ mu = Sweeper
  /\ mu' = Nil /\ sweeper' = "select"
  /\ UNCHANGED <<vars, stop, closing>>

Stopped ==
  /\ Up /\ sweeper = "select" /\ stop
  /\ sweeper' = "exited"
  /\ UNCHANGED <<vars, stop, mu, closing>>

----------------------------------------------------------------------------
\* Queue.Close: close(q.stop), q.wg.Wait(), q.wal.Close().

QueueClose ==
  /\ Up /\ closing = "idle"
  /\ stop' = TRUE /\ closing' = "sweeper"
  /\ UNCHANGED <<vars, sweeper, mu>>

\* Broken: the WAL is closed without waiting for the sweeper.
SweeperNotAwaited ==
  /\ closing = "sweeper"
  /\ closing' = "wal"
  /\ Close
  /\ UNCHANGED <<stop, sweeper, mu>>

SweeperAwaited ==
  /\ closing = "sweeper" /\ sweeper = "exited"
  /\ closing' = "wal"
  /\ Close
  /\ UNCHANGED <<stop, sweeper, mu>>

QueueCloseReturns ==
  /\ closing = "wal"
  /\ closing' = "done"
  /\ CloseReturns
  /\ UNCHANGED <<stop, sweeper, mu>>

----------------------------------------------------------------------------

WriterRuns == WriterStep /\ UNCHANGED queueVars

Sends(r) == Send(r) /\ UNCHANGED queueVars

\* The process ends; whoever runs it starts it again.
ProcessEnds ==
  /\ Crash \/ \E r \in Records : SendPanics(r)
  /\ Fresh

NewQueue == OpenWAL /\ Fresh

ShutdownNext ==
  \/ \E r \in Records :
       \/ EnqueueAppends(r) \/ LockedAppends(r) \/ SweepAppends(r)
       \/ Sends(r) \/ HolderResumes(r)
  \/ WriterRuns
  \/ Tick \/ SweepLocks \/ SweepEnds \/ Stopped
  \/ QueueClose \/ SweeperAwaited \/ QueueCloseReturns
  \/ ProcessEnds \/ NewQueue

\* Goroutines that can run do.  Go's select picks among the ready cases at
\* random, so a closed stop channel is noticed though ticks keep coming; its
\* mutex goes to the longest waiter in starvation mode, and a channel serves
\* blocked senders in turn.  Nobody has to call anything.
ShutdownFairness ==
  /\ WF_allVars(WriterRuns)
  /\ \A r \in Records : SF_allVars(Sends(r)) /\ WF_allVars(HolderResumes(r))
  /\ SF_allVars(SweepLocks) /\ WF_allVars(SweepEnds) /\ SF_allVars(Stopped)
  /\ WF_allVars(SweeperAwaited) /\ WF_allVars(QueueCloseReturns)

ShutdownSpec == ShutdownInit /\ [][ShutdownNext]_allVars /\ ShutdownFairness

----------------------------------------------------------------------------
\* What shutting down promises.

\* wal.go says of the send on a closed channel that "Queue.Close enforces this
\* by stopping the sweeper first": no sweep is ever in the middle of an
\* Append when the channel is closed, so the sweeper never panics.
SweeperNeverPanics ==
  \A r \in SweepRecords : InProgress(r) => ~closed

\* Once Close has closed q.stop the sweeper goroutine ends, even if ticks are
\* due, a caller holds the mutex, or a sweep is waiting for an fsync.
SweeperStops == stop ~> sweeper = "exited" \/ ~stop

\* Queue.Close returns unless a caller's Append overlaps it.
CloseReturnsWhenQuiet ==
  closing \in {"sweeper", "wal"} ~>
    \/ closing \in {"idle", "done"}
    \/ \E r \in Records : InProgress(r)
============================================================================
