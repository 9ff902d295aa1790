--------------------------- MODULE TaskLifecycle ---------------------------
(***************************************************************************)
(* What the queue promises about a task, with no log, no memory and no     *)
(* crash in sight: it is accepted once, fails at most MaxRetries times and *)
(* then once more into the dead-letter queue, is finished once, and leaves *)
(* the dead-letter queue only by a revival with a fresh budget or a purge. *)
(* The detailed Queue implements this across crashes and recoveries.       *)
(***************************************************************************)
EXTENDS Integers

CONSTANTS Ids, MaxRetries

VARIABLES
  life,     \* where each task is in its life
  attempts  \* failed attempts since it was accepted or revived

vars == <<life, attempts>>

Init ==
  /\ life = [id \in Ids |-> "absent"]
  /\ attempts = [id \in Ids |-> 0]

Move(id, from, to, n) ==
  /\ life[id] = from
  /\ life' = [life EXCEPT ![id] = to]
  /\ attempts' = [attempts EXCEPT ![id] = n]

Accept(id) == Move(id, "absent", "live", 0)

Finish(id) == Move(id, "live", "done", 0)

FailAgain(id) ==
  attempts[id] < MaxRetries /\ Move(id, "live", "live", attempts[id] + 1)

FailForGood(id) ==
  attempts[id] = MaxRetries /\ Move(id, "live", "dead", MaxRetries + 1)

Revive(id) == Move(id, "dead", "live", 0)

Purge(id) == Move(id, "dead", "purged", 0)

Next ==
  \E id \in Ids :
    \/ Accept(id) \/ Finish(id) \/ FailAgain(id)
    \/ FailForGood(id) \/ Revive(id) \/ Purge(id)

Spec == Init /\ [][Next]_vars
============================================================================
