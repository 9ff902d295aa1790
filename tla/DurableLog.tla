---------------------------- MODULE DurableLog -----------------------------
(***************************************************************************)
(* What wal.Append and wal.Replay promise the queue: one log.  A record    *)
(* lands at its end at some moment of the call that submits it; a call     *)
(* that returns nil has its record in the log for good; a call that fails, *)
(* or is cut short by a crash, may or may not.  Queue takes exactly this   *)
(* for its variable log.                                                   *)
(***************************************************************************)
EXTENDS Integers, Sequences

CONSTANT Records

VARIABLES
  log,     \* what a Replay would return
  outcome  \* what each call of Append returned, if it did

vars == <<log, outcome>>

InLog(r, l) == \E i \in 1..Len(l) : l[i] = r

Init == log = <<>> /\ outcome = [r \in Records |-> "open"]

Land(r) ==
  /\ outcome[r] = "open" /\ ~InLog(r, log)
  /\ log' = Append(log, r)
  /\ UNCHANGED outcome

\* Some calls return together, all with the same result.
Return(R, result) ==
  /\ \A r \in R : outcome[r] = "open" /\ (result = "ok" => InLog(r, log))
  /\ outcome' = [r \in Records |-> IF r \in R THEN result ELSE outcome[r]]
  /\ UNCHANGED log

\* A crash ends the calls in R, and may take records at the end of the log
\* back, acknowledged ones never.
Crash(n, R) ==
  /\ log' = SubSeq(log, 1, n)
  /\ \A r \in Records : outcome[r] = "ok" => InLog(r, log')
  /\ \A r \in R : outcome[r] = "open"
  /\ outcome' = [r \in Records |-> IF r \in R THEN "lost" ELSE outcome[r]]

Next ==
  \/ \E r \in Records : Land(r)
  \/ \E R \in SUBSET Records : Return(R, "ok") \/ Return(R, "err")
  \/ \E n \in 0..Len(log), R \in SUBSET Records : Crash(n, R)

Spec == Init /\ [][Next]_vars
============================================================================
