-------------------------------- MODULE WAL --------------------------------
(***************************************************************************)
(* The write-ahead log (internal/queue/wal.go): producers that call        *)
(* Append, the buffered channel of requests, the single writer goroutine   *)
(* with its group commit, Close, crashes, and OpenWAL with Replay.         *)
(*                                                                         *)
(* Data abstraction.  A record is one call of Append.  The file is the     *)
(* sequence of the frames that were written to it, each whole or torn: a   *)
(* torn frame is any proper, non-empty prefix of its bytes.  Replay is     *)
(* sure of the frames before the first torn one; LogFile has the bytes,    *)
(* and what little may be read beyond.  The first `synced` frames survive  *)
(* a crash.                                                                *)
(***************************************************************************)
EXTENDS Integers, Sequences, FiniteSets

CONSTANTS
  Records,    \* the calls of Append
  Nil,        \* what a receive from a closed channel yields
  Cap,        \* capacity of the channel (1024 in the code)
  MaxFaults,  \* bound: failed Write and Sync calls
  MaxCrashes  \* bound: crashes

ASSUME WALAssumption ==
  /\ Nil \notin Records
  /\ Cap \in Nat \ {0}
  /\ MaxFaults \in Nat /\ MaxCrashes \in Nat

VARIABLES
  caller,    \* where each call of Append is
  requests,  \* the buffer of the channel w.requests
  closed,    \* w.requests has been closed
  writer,    \* where the writer goroutine is
  batch,     \* the requests of the current batch
  pos,       \* how many frames of the batch have been written
  batchErr,  \* the error every caller of the batch will get
  file,      \* the frames in the file
  synced,    \* how many of them are durable
  closer,    \* where the call of Close is
  faults, crashes  \* counters for the bounds

vars == <<caller, requests, closed, writer, batch, pos, batchErr, file,
          synced, closer, faults, crashes>>

Frame == [rec : Records, whole : BOOLEAN]

CallerStates == {"idle", "sending", "waiting", "ok", "err", "lost"}

TypeOK ==
  /\ caller \in [Records -> CallerStates]
  /\ requests \in Seq(Records) /\ Len(requests) <= Cap
  /\ closed \in BOOLEAN
  /\ writer \in {"recv", "drain", "write", "reply", "exited", "dead"}
  /\ batch \in Seq(Records \cup {Nil})
  /\ pos \in 0..Len(batch)
  /\ batchErr \in BOOLEAN
  /\ file \in Seq(Frame)
  /\ synced \in 0..Len(file)
  /\ closer \in {"idle", "waiting", "done"}
  /\ faults \in Nat /\ crashes \in Nat

\* What Replay is sure to hand to its caller: the records before the first
\* torn frame.
Readable(f) ==
  LET good == CHOOSE n \in 0..Len(f) :
                /\ \A i \in 1..n : f[i].whole
                /\ n < Len(f) => ~f[n + 1].whole
  IN  [i \in 1..good |-> f[i].rec]

ReadableSet(f) == {Readable(f)[i] : i \in DOMAIN Readable(f)}

\* OpenWAL on a path that does not exist yet.
Init ==
  /\ caller = [r \in Records |-> "idle"]
  /\ requests = <<>> /\ closed = FALSE
  /\ writer = "recv" /\ batch = <<>> /\ pos = 0 /\ batchErr = FALSE
  /\ file = <<>> /\ synced = 0
  /\ closer = "idle"
  /\ faults = 0 /\ crashes = 0

diskVars == <<file, synced>>
batchVars == <<batch, pos, batchErr>>

----------------------------------------------------------------------------
\* Append: submit the request, wait for the reply.

AppendBegins(r) ==
  /\ writer # "dead" /\ caller[r] = "idle"
  /\ caller' = [caller EXCEPT ![r] = "sending"]
  /\ UNCHANGED <<requests, closed, writer, batchVars, diskVars, closer, faults, crashes>>

\* Broken: the send does not block on a full buffer.
SendNeverBlocks(r) ==
  /\ caller[r] = "sending" /\ ~closed
  /\ requests' = Append(requests, r)
  /\ caller' = [caller EXCEPT ![r] = "waiting"]
  /\ UNCHANGED <<closed, writer, batchVars, diskVars, closer, faults, crashes>>

\* The send blocks while the buffer is full.
Send(r) ==
  /\ caller[r] = "sending"
  /\ ~closed /\ Len(requests) < Cap
  /\ requests' = Append(requests, r)
  /\ caller' = [caller EXCEPT ![r] = "waiting"]
  /\ UNCHANGED <<closed, writer, batchVars, diskVars, closer, faults, crashes>>

----------------------------------------------------------------------------
\* run: the writer goroutine.

\* `for first := range w.requests`.
Receive ==
  /\ writer = "recv" /\ requests # <<>>
  /\ batch' = <<Head(requests)>> /\ requests' = Tail(requests)
  /\ writer' = "drain"
  /\ UNCHANGED <<caller, closed, pos, batchErr, diskVars, closer, faults, crashes>>

\* The range loop ends on a closed, empty channel; writerDone is closed.
Exit ==
  /\ writer = "recv" /\ requests = <<>> /\ closed
  /\ writer' = "exited"
  /\ UNCHANGED <<caller, requests, closed, batchVars, diskVars, closer, faults, crashes>>

Drain ==
  /\ writer = "drain" /\ requests # <<>>
  /\ batch' = Append(batch, Head(requests)) /\ requests' = Tail(requests)
  /\ UNCHANGED <<caller, closed, writer, pos, batchErr, diskVars, closer, faults, crashes>>

\* A closed channel is always ready to receive from, and yields nil: select
\* never takes its default.  The batch grows without end; one nil stands for
\* all of them.
DrainClosed ==
  /\ writer = "drain" /\ requests = <<>> /\ closed
  /\ batch' = IF batch[Len(batch)] = Nil THEN batch ELSE Append(batch, Nil)
  /\ UNCHANGED <<caller, requests, closed, writer, pos, batchErr, diskVars, closer, faults, crashes>>

Drained ==
  /\ writer = "drain" /\ requests = <<>> /\ ~closed
  /\ writer' = "write"
  /\ UNCHANGED <<caller, requests, closed, batchVars, diskVars, closer, faults, crashes>>

Write ==
  /\ writer = "write" /\ pos < Len(batch)
  /\ file' = Append(file, [rec |-> batch[pos + 1], whole |-> TRUE])
  /\ pos' = pos + 1
  /\ UNCHANGED <<caller, requests, closed, writer, batch, batchErr, synced, closer, faults, crashes>>

\* A short or failed Write: the rest of the batch is skipped, the fsync too.
WriteFails ==
  /\ writer = "write" /\ pos < Len(batch)
  /\ faults < MaxFaults /\ faults' = faults + 1
  /\ \/ UNCHANGED file
     \/ file' = Append(file, [rec |-> batch[pos + 1], whole |-> FALSE])
  /\ batchErr' = TRUE
  /\ writer' = "reply"
  /\ UNCHANGED <<caller, requests, closed, batch, pos, synced, closer, crashes>>

\* Broken: callers are told without an fsync.
SyncSkipped ==
  /\ writer = "write" /\ pos = Len(batch)
  /\ writer' = "reply"
  /\ UNCHANGED <<caller, requests, closed, batchVars, diskVars, closer, faults, crashes>>

\* One fsync makes the whole batch durable.
Sync ==
  /\ writer = "write" /\ pos = Len(batch)
  /\ synced' = Len(file)
  /\ writer' = "reply"
  /\ UNCHANGED <<caller, requests, closed, batchVars, file, closer, faults, crashes>>

\* Broken: the error of Sync is dropped.
SyncFailsSilently ==
  /\ writer = "write" /\ pos = Len(batch)
  /\ faults < MaxFaults /\ faults' = faults + 1
  /\ writer' = "reply"
  /\ UNCHANGED <<caller, requests, closed, batchVars, diskVars, closer, crashes>>

SyncFails ==
  /\ writer = "write" /\ pos = Len(batch)
  /\ faults < MaxFaults /\ faults' = faults + 1
  /\ batchErr' = TRUE
  /\ writer' = "reply"
  /\ UNCHANGED <<caller, requests, closed, batch, pos, diskVars, closer, crashes>>

InBatch(r) == \E i \in 1..Len(batch) : batch[i] = r

\* Broken: only the caller that started the batch is answered.
ReplyFirstOnly ==
  /\ writer = "reply"
  /\ caller' = [caller EXCEPT ![batch[1]] = IF batchErr THEN "err" ELSE "ok"]
  /\ batch' = <<>> /\ pos' = 0 /\ batchErr' = FALSE
  /\ writer' = "recv"
  /\ UNCHANGED <<requests, closed, diskVars, closer, faults, crashes>>

\* Every caller of the batch gets the one outcome.  The reply channels are
\* buffered, so no caller can hold the writer up.
Reply ==
  /\ writer = "reply"
  /\ caller' = [r \in Records |-> IF InBatch(r)
                                  THEN IF batchErr THEN "err" ELSE "ok"
                                  ELSE caller[r]]
  /\ batch' = <<>> /\ pos' = 0 /\ batchErr' = FALSE
  /\ writer' = "recv"
  /\ UNCHANGED <<requests, closed, diskVars, closer, faults, crashes>>

----------------------------------------------------------------------------
\* Close, crash, and opening the file again.

\* Broken: the channel is left open.
CloseLeavesChannelOpen ==
  /\ writer # "dead" /\ closer = "idle"
  /\ closer' = "waiting"
  /\ UNCHANGED <<caller, requests, closed, writer, batchVars, diskVars, faults, crashes>>

Close ==
  /\ writer # "dead" /\ closer = "idle"
  /\ closed' = TRUE /\ closer' = "waiting"
  /\ UNCHANGED <<caller, requests, writer, batchVars, diskVars, faults, crashes>>

CloseReturns ==
  /\ closer = "waiting" /\ writer = "exited"
  /\ closer' = "done"
  /\ UNCHANGED <<caller, requests, closed, writer, batchVars, diskVars, faults, crashes>>

\* The file keeps what was fsync'd and any number of the frames behind it,
\* the last of them perhaps in part.
Surviving ==
  {SubSeq(file, 1, n) : n \in synced..Len(file)}
  \cup {Append(SubSeq(file, 1, n), [file[n + 1] EXCEPT !.whole = FALSE]) :
          n \in synced..(Len(file) - 1)}

\* The goroutines, the channel and the batch are gone.
ProcessDies ==
  /\ caller' = [r \in Records |-> IF caller[r] \in {"sending", "waiting"}
                                  THEN "lost" ELSE caller[r]]
  /\ requests' = <<>> /\ closed' = FALSE
  /\ batch' = <<>> /\ pos' = 0 /\ batchErr' = FALSE
  /\ writer' = "dead" /\ closer' = "idle"
  /\ UNCHANGED faults

Crash ==
  /\ writer # "dead"
  /\ crashes < MaxCrashes /\ crashes' = crashes + 1
  /\ file' \in Surviving /\ synced' = Len(file')
  /\ ProcessDies

\* A send on a closed channel panics, which ends the process.  The page cache
\* is the kernel's and outlives it.
SendPanics(r) ==
  /\ caller[r] = "sending" /\ closed
  /\ ProcessDies
  /\ UNCHANGED <<diskVars, crashes>>

\* Broken: the file is truncated on opening.
OpenWALTruncates ==
  /\ \/ writer = "dead"
     \/ closer = "done" /\ \A r \in Records : caller[r] # "sending"
  /\ requests' = <<>> /\ closed' = FALSE /\ closer' = "idle"
  /\ writer' = "recv" /\ batch' = <<>> /\ pos' = 0 /\ batchErr' = FALSE
  /\ file' = <<>> /\ synced' = 0
  /\ UNCHANGED <<caller, faults, crashes>>

\* OpenWAL: the file is opened for appending as it is, a torn tail included.
OpenWAL ==
  /\ \/ writer = "dead"
     \/ closer = "done" /\ \A r \in Records : caller[r] # "sending"
  /\ requests' = <<>> /\ closed' = FALSE /\ closer' = "idle"
  /\ writer' = "recv" /\ batch' = <<>> /\ pos' = 0 /\ batchErr' = FALSE
  /\ UNCHANGED <<caller, diskVars, faults, crashes>>

----------------------------------------------------------------------------

WriterStep ==
  \/ Receive \/ Exit \/ Drain \/ DrainClosed \/ Drained
  \/ Write \/ WriteFails \/ Sync \/ SyncFails \/ Reply

Next ==
  \/ \E r \in Records : AppendBegins(r) \/ Send(r) \/ SendPanics(r)
  \/ WriterStep
  \/ Close \/ CloseReturns
  \/ Crash \/ OpenWAL

Spec == Init /\ [][Next]_vars

\* The writer goroutine is never blocked for good except on its channel, a
\* sender waiting for room in the buffer is served in turn, and Close goes on
\* when the writer is done.
Fairness ==
  /\ WF_vars(WriterStep)
  /\ \A r \in Records : SF_vars(Send(r))
  /\ WF_vars(CloseReturns)

FairSpec == Spec /\ Fairness

============================================================================
