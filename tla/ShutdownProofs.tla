--------------------------- MODULE ShutdownProofs --------------------------
(***************************************************************************)
(* What holds while a Queue is shut down, for any number of calls, any     *)
(* channel capacity, any failures and any crashes.  The callers, the       *)
(* sweeper and Queue.Close use the write-ahead log as WAL lets them, so    *)
(* what WALProofs shows carries over; and the sweeper is never inside an   *)
(* Append when the channel is closed.                                      *)
(***************************************************************************)
EXTENDS Shutdown, WALProofs

\* Every step is a step of the write-ahead log or leaves it alone.
LEMMA ShutdownStepIsWALStep ==
  ASSUME [ShutdownNext]_allVars
  PROVE  [Next]_vars
<1>1. CASE \E r \in Records : EnqueueAppends(r) \/ LockedAppends(r) \/ SweepAppends(r)
  BY <1>1 DEF EnqueueAppends, LockedAppends, SweepAppends, Next
<1>2. CASE \E r \in Records : Sends(r)
  BY <1>2 DEF Sends, Next
<1>3. CASE \E r \in Records : HolderResumes(r)
  BY <1>3 DEF HolderResumes
<1>4. CASE WriterRuns
  BY <1>4 DEF WriterRuns, Next
<1>5. CASE Tick \/ SweepLocks \/ SweepEnds \/ Stopped \/ QueueClose
  BY <1>5 DEF Tick, SweepLocks, SweepEnds, Stopped, QueueClose
<1>6. CASE SweeperAwaited \/ QueueCloseReturns
  BY <1>6 DEF SweeperAwaited, QueueCloseReturns, Next
<1>7. CASE ProcessEnds \/ NewQueue
  BY <1>7 DEF ProcessEnds, NewQueue, Next
<1>8. CASE UNCHANGED allVars
  BY <1>8 DEF allVars
<1> QED
  BY <1>1, <1>2, <1>3, <1>4, <1>5, <1>6, <1>7, <1>8 DEF ShutdownNext

\* The queue's goroutines keep to the rules of the write-ahead log.
THEOREM ShutdownUsesWAL == ShutdownSpec => Spec
<1>1. ShutdownInit => Init
  BY DEF ShutdownInit
<1>2. [ShutdownNext]_allVars => [Next]_vars
  BY ShutdownStepIsWALStep
<1> QED
  BY <1>1, <1>2, PTL DEF ShutdownSpec, Spec

\* Through a shutdown, too, an Append that returned nil is durable, a torn tail
\* costs nobody else, and the log is the one the queue was promised.
THEOREM ShutdownKeepsTheLog ==
  ShutdownSpec => []OkIsDurable /\ GoodPrefixKept /\ ImplementsDurableLog
BY ShutdownUsesWAL, DurabilityHolds, GoodPrefixIsKept, WALImplementsDurableLog, PTL

----------------------------------------------------------------------------

\* A record of a sweep is being appended only by the sweep that holds the mutex.
SweepHolds == \A r \in SweepRecords : InProgress(r) => mu = r /\ writer # "dead"

\* The mutex is the sweeper's only while runSweeper is in a pass, and the channel is
\* closed only when runSweeper has returned.
Order ==
  /\ mu \in SweepRecords \cup {Sweeper} => sweeper = "pass"
  /\ closed \/ closer # "idle" => closing \in {"wal", "done"}
  /\ closing \in {"wal", "done"} => sweeper = "exited"

\* The types of the queue's variables.
QueueTypes ==
  /\ stop \in BOOLEAN
  /\ sweeper \in {"select", "lock", "pass", "exited"}
  /\ mu \in Records \cup {Nil, Sweeper}
  /\ closing \in {"idle", "sweeper", "wal", "done"}

ShutInv == QueueTypes /\ SweepHolds /\ Order

\* The holders of the mutex are told apart.
LEMMA Holders ==
  /\ Nil \notin SweepRecords \cup {Sweeper}
  /\ \A r \in SweepRecords : r \in Records /\ r # Sweeper /\ r # Nil
  /\ \A r \in LockedRecords : r \notin SweepRecords \cup {Sweeper}
BY WALAssumption, ShutdownAssumption

\* A call of Append that begins, or goes on to wait.
LEMMA AppendKeepsSweepHolds ==
  ASSUME TypeOK, ShutInv, NEW r \in Records, AppendBegins(r),
         mu' = mu \/ (mu \in {Nil, Sweeper} /\ mu' = r), r \in SweepRecords => mu' = r
  PROVE  SweepHolds'
<1>1. /\ writer # "dead" /\ writer' = writer /\ caller' = [caller EXCEPT ![r] = "sending"]
      /\ caller \in [Records -> CallerStates]
  BY DEF AppendBegins, TypeOK
<1>2. ASSUME NEW s \in SweepRecords, s # r, InProgress(s)' PROVE mu' = s
  <2>1. InProgress(s) /\ s \in Records
    BY <1>1, <1>2, Holders DEF InProgress
  <2>2. mu = s
    BY <2>1 DEF ShutInv, SweepHolds
  <2> QED
    BY <2>2, Holders
<1> QED
  BY <1>1, <1>2 DEF SweepHolds

\* Steps of the log in which no call begins.
LEMMA LogKeepsSweepHolds ==
  ASSUME ShutInv, mu' = mu, writer' # "dead",
         \A r \in Records : InProgress(r)' => InProgress(r)
  PROVE  SweepHolds'
BY Holders DEF ShutInv, SweepHolds

\* The callers' steps.
LEMMA CallersKeepShutInv ==
  ASSUME TypeOK, ShutInv, NEW r \in Records,
         EnqueueAppends(r) \/ LockedAppends(r) \/ SweepAppends(r)
  PROVE  ShutInv'
<1>1. /\ AppendBegins(r) /\ UNCHANGED <<stop, sweeper, closing>>
      /\ \/ r \in EnqueueRecords /\ mu = Nil /\ mu' = mu
         \/ r \in LockedRecords /\ mu = Nil /\ mu' = r
         \/ r \in SweepRecords /\ mu = Sweeper /\ mu' = r
  BY DEF EnqueueAppends, LockedAppends, SweepAppends, queueVars
<1>2. UNCHANGED <<closed, closer>>
  BY <1>1 DEF AppendBegins
<1>3. SweepHolds'
  BY <1>1, AppendKeepsSweepHolds, Holders DEF EnqueueRecords
<1>4. QueueTypes'
  BY <1>1 DEF ShutInv, QueueTypes
<1>5. Order'
  BY <1>1, <1>2, Holders DEF ShutInv, Order
<1> QED
  BY <1>3, <1>4, <1>5 DEF ShutInv

\* The steps of the log's own goroutines.
LEMMA LogKeepsShutInv ==
  ASSUME TypeOK, ShutInv, WriterRuns \/ \E r \in Records : Sends(r)
  PROVE  ShutInv'
<1>1. UNCHANGED queueVars /\ (WriterStep \/ \E r \in Records : Send(r))
  BY DEF WriterRuns, Sends
<1>2. UNCHANGED <<stop, sweeper, mu, closing>>
  BY <1>1 DEF queueVars
<1>3. UNCHANGED <<closed, closer>>
  BY <1>1 DEF WriterStep, Receive, Exit, Drain, DrainClosed, Drained, Write, WriteFails,
              Sync, SyncFails, Reply, Send
<1>4. ASSUME WriterStep PROVE writer' # "dead" /\ \A s \in Records : InProgress(s)' => InProgress(s)
  <2>1. CASE Reply
    BY <2>1 DEF Reply, InProgress
  <2>2. CASE ~Reply
    <3>1. caller' = caller
      BY <1>4, <2>2 DEF WriterStep, Receive, Exit, Drain, DrainClosed, Drained, Write,
                        WriteFails, Sync, SyncFails
    <3>2. writer' # "dead"
      BY <1>4, <2>2 DEF WriterStep, Receive, Exit, Drain, DrainClosed, Drained, Write,
                        WriteFails, Sync, SyncFails
    <3> QED
      BY <3>1, <3>2 DEF InProgress
  <2> QED
    BY <2>1, <2>2
<1>5. ASSUME NEW r \in Records, Send(r) PROVE SweepHolds'
  <2>1. /\ caller[r] = "sending" /\ caller' = [caller EXCEPT ![r] = "waiting"]
        /\ writer' = writer /\ caller \in [Records -> CallerStates]
    BY <1>5 DEF Send, TypeOK
  <2>2. \A s \in Records : InProgress(s)' => InProgress(s)
    BY <2>1 DEF InProgress
  <2> QED
    BY <1>2, <2>1, <2>2, Holders DEF ShutInv, SweepHolds
<1>6. SweepHolds'
  BY <1>1, <1>2, <1>4, <1>5, LogKeepsSweepHolds
<1>7. QueueTypes' /\ Order'
  BY <1>2, <1>3 DEF ShutInv, QueueTypes, Order
<1> QED
  BY <1>6, <1>7 DEF ShutInv

\* The steps of the sweeper, of the holder of the mutex, and of Queue.Close.
LEMMA QueueKeepsShutInv ==
  ASSUME TypeOK, ShutInv,
         \/ \E r \in Records : HolderResumes(r)
         \/ Tick \/ SweepLocks \/ SweepEnds \/ Stopped
         \/ QueueClose \/ SweeperAwaited \/ QueueCloseReturns \/ UNCHANGED allVars
  PROVE  ShutInv'
<1>1. UNCHANGED <<caller, writer>>
  BY DEF HolderResumes, Tick, SweepLocks, SweepEnds, Stopped, QueueClose, SweeperAwaited,
         QueueCloseReturns, Close, CloseReturns, allVars, vars
<1>2. \A r : InProgress(r)' <=> InProgress(r)
  BY <1>1 DEF InProgress
<1>3. ASSUME NEW r \in Records, HolderResumes(r) PROVE ShutInv'
  <2>1. /\ mu = r /\ ~InProgress(r) /\ UNCHANGED <<closed, closer, stop, closing>>
        /\ \/ r \in SweepRecords /\ mu' = Sweeper /\ sweeper' = sweeper
           \/ r \in SweepRecords /\ mu' = Nil /\ sweeper' = "select"
           \/ r \notin SweepRecords /\ mu' = Nil /\ sweeper' = sweeper
    BY <1>3 DEF HolderResumes, InProgress, vars
  <2>2. SweepHolds'
    BY <1>1, <1>2, <2>1 DEF ShutInv, SweepHolds
  <2>3. QueueTypes'
    BY <2>1 DEF ShutInv, QueueTypes
  <2>4. Order'
    BY <2>1, Holders DEF ShutInv, Order
  <2> QED
    BY <2>2, <2>3, <2>4 DEF ShutInv
<1>4. CASE Tick \/ Stopped
  <2>1. /\ sweeper = "select" /\ sweeper' \in {"lock", "exited"}
        /\ UNCHANGED <<closed, closer, stop, mu, closing>>
    BY <1>4 DEF Tick, Stopped, vars
  <2> QED
    BY <1>1, <1>2, <2>1, Holders DEF ShutInv, SweepHolds, QueueTypes, Order
<1>5. CASE SweepLocks \/ SweepEnds
  <2>1. /\ \/ sweeper = "lock" /\ mu = Nil /\ mu' = Sweeper /\ sweeper' = "pass"
           \/ mu = Sweeper /\ mu' = Nil /\ sweeper' = "select"
        /\ UNCHANGED <<closed, closer, stop, closing>>
    BY <1>5 DEF SweepLocks, SweepEnds, vars
  <2> QED
    BY <1>1, <1>2, <2>1, Holders DEF ShutInv, SweepHolds, QueueTypes, Order
<1>6. CASE QueueClose
  <2>1. /\ closing = "idle" /\ stop' = TRUE /\ closing' = "sweeper"
        /\ UNCHANGED <<closed, closer, sweeper, mu>>
    BY <1>6 DEF QueueClose, vars
  <2> QED
    BY <1>1, <1>2, <2>1 DEF ShutInv, SweepHolds, QueueTypes, Order
<1>7. CASE SweeperAwaited \/ QueueCloseReturns
  <2>1. /\ sweeper = "exited" /\ closing' \in {"wal", "done"} /\ UNCHANGED <<stop, sweeper, mu>>
    BY <1>7 DEF SweeperAwaited, QueueCloseReturns, ShutInv, Order
  <2> QED
    BY <1>1, <1>2, <2>1 DEF ShutInv, SweepHolds, QueueTypes, Order
<1>8. CASE UNCHANGED allVars
  BY <1>1, <1>2, <1>8 DEF allVars, vars, queueVars, ShutInv, SweepHolds, QueueTypes, Order
<1> QED
  BY <1>3, <1>4, <1>5, <1>6, <1>7, <1>8

\* The process ends, or a new Queue is opened on the file.
LEMMA RestartKeepsShutInv ==
  ASSUME TypeOK, WInv, ShutInv, ProcessEnds \/ NewQueue
  PROVE  ShutInv'
<1>1. stop' = FALSE /\ sweeper' = "select" /\ mu' = Nil /\ closing' = "idle"
  BY DEF ProcessEnds, NewQueue, Fresh
<1>2. closed' = FALSE /\ closer' = "idle"
  BY DEF ProcessEnds, NewQueue, Crash, SendPanics, ProcessDies, OpenWAL
<1>3. \A r \in SweepRecords : ~InProgress(r)'
  <2>1. CASE ProcessEnds
    <3>1. caller' = [r \in Records |-> IF caller[r] \in {"sending", "waiting"}
                                       THEN "lost" ELSE caller[r]]
      BY <2>1 DEF ProcessEnds, Crash, SendPanics, ProcessDies
    <3> QED
      BY <3>1, Holders DEF InProgress
  <2>2. CASE NewQueue
    <3>1. caller' = caller /\ (writer = "dead" \/ closer = "done")
      BY <2>2 DEF NewQueue, OpenWAL
    <3>2. closer = "done" => sweeper = "exited"
      BY DEF ShutInv, Order
    <3>3. \A r \in SweepRecords : ~InProgress(r)
      BY <3>1, <3>2 DEF ShutInv, SweepHolds, Order
    <3> QED
      BY <3>1, <3>3 DEF InProgress
  <2> QED
    BY <2>1, <2>2
<1> QED
  BY <1>1, <1>2, <1>3, Holders DEF ShutInv, SweepHolds, QueueTypes, Order

\* The invariant of the shutdown.
THEOREM ShutdownInvariance == ShutdownSpec => []ShutInv
<1>1. ShutdownInit => ShutInv
  BY Holders DEF ShutdownInit, Init, ShutInv, SweepHolds, QueueTypes, Order, InProgress
<1>2. WInv /\ ShutInv /\ [ShutdownNext]_allVars => ShutInv'
  <2> SUFFICES ASSUME WInv, ShutInv, [ShutdownNext]_allVars PROVE ShutInv'
    OBVIOUS
  <2>1. TypeOK
    BY DEF WInv
  <2> QED
    BY <2>1, CallersKeepShutInv, LogKeepsShutInv, QueueKeepsShutInv, RestartKeepsShutInv
       DEF ShutdownNext
<1> QED
  BY <1>1, <1>2, ShutdownUsesWAL, WALInvariance, PTL DEF ShutdownSpec

\* Every variable of the queue and of its log has its type.
THEOREM ShutdownTypeCorrect == ShutdownSpec => []ShutdownTypeOK
<1>1. WInv /\ ShutInv => ShutdownTypeOK
  BY DEF WInv, ShutInv, QueueTypes, ShutdownTypeOK
<1> QED
  BY <1>1, ShutdownUsesWAL, WALInvariance, ShutdownInvariance, PTL

\* The sweeper never sends on the closed channel: Queue.Close waits for runSweeper
\* to return before it closes the log, and runSweeper does not return in a pass.
THEOREM SweeperDoesNotPanic == ShutdownSpec => []SweeperNeverPanics
<1>1. ShutInv => SweeperNeverPanics
  BY DEF ShutInv, SweepHolds, Order, SweeperNeverPanics
<1> QED
  BY <1>1, ShutdownInvariance, PTL
============================================================================
