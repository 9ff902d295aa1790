-------------------------- MODULE QueueLifecycle ---------------------------
(***************************************************************************)
(* Queue implements TaskLifecycle.  The life of a task is read off memory  *)
(* while the process is up (with the operations in progress applied) and   *)
(* off a replay of the log while it is down, so a crash and a recovery are *)
(* stuttering steps only if the log and memory agree at every moment.      *)
(***************************************************************************)
EXTENDS QueueProperties

View == IF proc = "up" THEN PendingApplied ELSE Replay(log)

Lives(m) ==
  [id \in Ids |->
     CASE id \in m.index \cup Committing -> "live"
       [] id \in m.dlq \ Committing      -> "dead"
       [] OTHER -> IF Logged("ack", id) THEN "done"
                   ELSE IF Logged("purge", id) THEN "purged" ELSE "absent"]

Attempts(m) ==
  [id \in Ids |-> IF id \in m.index \cup m.dlq \cup Committing
                  THEN m.retries[id] ELSE 0]

Lifecycle == INSTANCE TaskLifecycle
  WITH life <- Lives(View), attempts <- Attempts(View)

\* Every step of the queue, a crash and a recovery included, is a step of the
\* task's life cycle or changes nothing of it: no crash loses, revives,
\* repeats or forgives an attempt of an accepted task.
ImplementsLifecycle == Lifecycle!Spec
============================================================================
