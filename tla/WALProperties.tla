--------------------------- MODULE WALProperties ---------------------------
(***************************************************************************)
(* What makes the write-ahead log correct.                                 *)
(***************************************************************************)
EXTENDS WAL

InProgress(r) == caller[r] \in {"sending", "waiting"}

\* Durability: when Append has returned nil the record is in the fsync'd part
\* of the file and Replay reaches it, then and after any crash and reopening,
\* as wal.go promises.  A torn frame before it breaks the promise.
OkIsReplayed ==
  \A r \in Records : caller[r] = "ok" => r \in ReadableSet(SubSeq(file, 1, synced))

\* Durability as far as the code keeps it: while no frame in the fsync'd part
\* of the file is torn.
OkIsDurable == (\A i \in 1..synced : file[i].whole) => OkIsReplayed

\* A torn tail costs nobody else: a record whose caller was told it is durable
\* and which Replay can reach stays within Replay's reach whatever is torn,
\* fails or is appended later.
GoodPrefixKept ==
  [][\A r \in Records :
       caller[r] = "ok" /\ r \in ReadableSet(file) => r \in ReadableSet(file')]_vars

\* Every Append returns, or dies with the process, unless the log is closed
\* under it: no caller is left waiting by a full buffer, a failed batch, or a
\* batch it was not part of.
AppendReturns ==
  \A r \in Records :
    InProgress(r) ~> caller[r] \in {"ok", "err", "lost"} \/ closed

\* Close returns, with what was still queued drained and fsync'd.
CloseTerminates == closer = "waiting" ~> closer # "waiting"

\* The records of the whole frames of a file, in order: kept[n] has those of
\* the first n frames.
Recorded(f) ==
  LET kept[n \in 0..Len(f)] ==
        IF n = 0 THEN <<>>
        ELSE IF f[n].whole THEN Append(kept[n - 1], f[n].rec) ELSE kept[n - 1]
  IN  kept[Len(f)]

\* What each call of Append returned, if it did.
Outcome == [r \in Records |-> IF caller[r] \in {"ok", "err", "lost"}
                              THEN caller[r] ELSE "open"]

\* The promise the queue builds on, for the whole frames of the file.
Promise == INSTANCE DurableLog WITH log <- Recorded(file), outcome <- Outcome

\* The channel, the writer, group commit, crashes and reopening implement an
\* append-only log that forgets no acknowledged record.
ImplementsDurableLog == Promise!Spec
============================================================================
