------------------------------ MODULE LoadTest -----------------------------
(***************************************************************************)
(* The load test (cmd/loadtest/workload.go): producers, consumers that     *)
(* fail in two ways, the drain and the verdict, composed with the Queue    *)
(* they drive.  Each step of a client is a step of its own conjoined with  *)
(* the step of Queue that the call makes.                                  *)
(*                                                                         *)
(* Each member of Ids is one Enqueue call, with a key of its own.  A check *)
(* of the stop channel and the call that follows it are one step, and so   *)
(* are an effect and the Ack behind it: effects and counters are read only *)
(* once every goroutine has returned.                                      *)
(***************************************************************************)
EXTENDS QueueProperties

CONSTANTS
  Producers,  \* for each producer the sequence of its Enqueue calls
  Consumers,
  Drainer     \* the goroutine of run, once the load window is over

Clients == Consumers \cup {Drainer}

ASSUME LoadTestAssumption ==
  /\ Drainer \notin Consumers
  /\ \A i, j \in Ids : KeyOf[i] = KeyOf[j] => i = j
  /\ Producers \subseteq Seq(Ids)
  /\ \A id \in Ids : \E p \in Producers : \E i \in DOMAIN p : p[i] = id

VARIABLES
  stopped,   \* the stop channel has been closed
  pc,        \* where each client is
  task,      \* the task each client has been handed
  applied,   \* the keys in the effect store
  stats,     \* the counters of runStats; errors is a history of its own
  snapshot,  \* what is left of the drain's list of dead tasks
  verdict,
  timedOut,  \* the drain reached its deadline
  late       \* a lease ran out while a client was busy with the task

clientVars ==
  <<stopped, pc, task, applied, stats, snapshot, verdict, timedOut, late>>

allVars == <<vars, clientVars>>

Stats == [delivered : Nat, acked : Nat, retried : Nat, crashed : Nat, errors : Nat]

LoadTypeOK ==
  /\ TypeOK
  /\ stopped \in BOOLEAN /\ timedOut \in BOOLEAN /\ late \in BOOLEAN
  /\ pc \in [Clients -> {"poll", "have", "ack", "retry", "exited", "wait",
                         "check", "pull", "list", "replay", "requeue"}]
  /\ task \in [Clients -> Ids \cup {None}]
  /\ applied \subseteq Ids /\ snapshot \subseteq Ids
  /\ stats \in Stats
  /\ verdict \in {"none", "pass", "fail"}

Produced == {id \in Ids : call[id] = "done"}

produced == Cardinality(Produced)

LoadInit ==
  /\ Init
  /\ stopped = FALSE
  /\ pc = [c \in Clients |-> IF c = Drainer THEN "wait" ELSE "poll"]
  /\ task = [c \in Clients |-> None]
  /\ applied = {} /\ snapshot = {}
  /\ stats = [delivered |-> 0, acked |-> 0, retried |-> 0, crashed |-> 0, errors |-> 0]
  /\ verdict = "none" /\ timedOut = FALSE /\ late = FALSE

\* The effect store counts an effect once, however often it arrives.
Apply(id) == applied' = applied \cup {id}

Distinct == Cardinality(applied)

\* The accessors of the DLQ copy it under the mutex.
ListDeadTasks == q.dlq

DLQLen == Cardinality(ListDeadTasks)

\* What buildRecord reports.
Redeliveries == stats.delivered - produced

Goes(c, to) == pc' = [pc EXCEPT ![c] = to]

Count(counter) == stats' = [stats EXCEPT ![counter] = @ + 1]

----------------------------------------------------------------------------
\* The queue's own steps, and the load window.

\* A producer starts its next Enqueue when the one before returned nil and
\* the window is open; an error ends it.
Produces(id) ==
  /\ EnqueueStep(id)
  /\ call[id] = "idle" =>
       /\ ~stopped
       /\ \A p \in Producers : \A j \in DOMAIN p :
            p[j] = id => \A i \in 1..(j - 1) : call[p[i]] = "done"
  /\ UNCHANGED clientVars

Sweeps == (SweepBegin \/ SweepEnd) /\ UNCHANGED clientVars

SweepsTask(id) == SweepVisit(id) /\ UNCHANGED clientVars

Busy(id) == \E c \in Clients : task[c] = id

ClockTicks(id) ==
  /\ TimePasses(id)
  /\ late' = (late \/ (LeaseExpires(id) /\ Busy(id)))
  /\ UNCHANGED <<stopped, pc, task, applied, stats, snapshot, verdict, timedOut>>

CloseWindow ==
  /\ ~stopped /\ stopped' = TRUE
  /\ UNCHANGED <<vars, pc, task, applied, stats, snapshot, verdict, timedOut, late>>

----------------------------------------------------------------------------
\* Consumers and the drain handle tasks alike, but that the drain never fails.

Takes(c, id) ==
  /\ \/ c \in Consumers /\ pc[c] = "poll" /\ ~stopped
     \/ c = Drainer /\ pc[c] = "pull"
  /\ Dequeue(id)
  /\ Goes(c, "have") /\ task' = [task EXCEPT ![c] = id]
  /\ Count("delivered")
  /\ UNCHANGED <<stopped, applied, snapshot, verdict, timedOut, late>>

\* The call has an error to report: the consumer, or the drain, ends.
GivesUp(c) ==
  /\ Goes(c, "exited") /\ Count("errors")
  /\ task' = [task EXCEPT ![c] = None]

\* The lookup and the append of c's Ack or Retry: c waits for its return, or
\* has an error from the append.
Proceeds(c, to) ==
  IF mu' = "caller" THEN Goes(c, to) /\ UNCHANGED <<stats, task>> ELSE GivesUp(c)

\* The queue does not know the task: the sweeper or another client settled it.
NotFound(c) ==
  /\ Unlocked /\ task[c] \notin q.index
  /\ GivesUp(c)
  /\ UNCHANGED vars

\* Success: the effect is applied, then the task acknowledged.
Succeeds(c) ==
  /\ pc[c] = "have"
  /\ Apply(task[c])
  /\ \/ Ack(task[c]) /\ Proceeds(c, "ack")
     \/ NotFound(c)
  /\ UNCHANGED <<stopped, snapshot, verdict, timedOut, late>>

\* The handler fails before its effect.
Fails(c) ==
  /\ c \in Consumers /\ pc[c] = "have"
  /\ \/ Retry(task[c]) /\ Proceeds(c, "retry")
     \/ NotFound(c)
  /\ UNCHANGED <<stopped, applied, snapshot, verdict, timedOut, late>>

\* The handler crashes after its effect: the task stays leased.
Crashes(c) ==
  /\ c \in Consumers /\ pc[c] = "have"
  /\ Apply(task[c])
  /\ Goes(c, "poll") /\ task' = [task EXCEPT ![c] = None]
  /\ Count("crashed")
  /\ UNCHANGED <<vars, stopped, snapshot, verdict, timedOut, late>>

ConsumerStops(c) ==
  /\ c \in Consumers /\ pc[c] = "poll" /\ stopped
  /\ Goes(c, "exited")
  /\ UNCHANGED <<vars, stopped, task, applied, stats, snapshot, verdict, timedOut, late>>

\* Broken: a retry is not counted.
CallReturnsUncounted ==
  /\ Returns
  /\ IF mu = "sweeper" THEN UNCHANGED <<pc, task, stats>>
     ELSE \E c \in Clients :
            /\ pc[c] \in {"ack", "retry", "requeue"}
            /\ Goes(c, IF c \in Consumers THEN "poll"
                       ELSE IF pc[c] = "ack" THEN "pull" ELSE "replay")
            /\ IF pc[c] = "ack" THEN Count("acked") ELSE UNCHANGED stats
            /\ task' = [task EXCEPT ![c] = None]
  /\ UNCHANGED <<stopped, applied, snapshot, verdict, timedOut, late>>

\* The call that holds the mutex returns nil to its client.
CallReturns ==
  /\ Returns
  /\ IF mu = "sweeper" THEN UNCHANGED <<pc, task, stats>>
     ELSE \E c \in Clients :
            /\ pc[c] \in {"ack", "retry", "requeue"}
            /\ Goes(c, IF c \in Consumers THEN "poll"
                       ELSE IF pc[c] = "ack" THEN "pull" ELSE "replay")
            /\ CASE pc[c] = "ack"   -> Count("acked")
                 [] pc[c] = "retry" -> Count("retried")
                 [] OTHER           -> UNCHANGED stats
            /\ task' = [task EXCEPT ![c] = None]
  /\ UNCHANGED <<stopped, applied, snapshot, verdict, timedOut, late>>

----------------------------------------------------------------------------
\* drain, and the verdict.

DrainGoes(from, to) ==
  /\ pc[Drainer] = from /\ Goes(Drainer, to)
  /\ UNCHANGED <<task, applied, stats, late, stopped>>

\* wg.Wait: producers and consumers have returned.
DrainBegins ==
  /\ stopped /\ \A c \in Consumers : pc[c] = "exited"
  /\ \A id \in Ids : call[id] \notin {"append", "commit"}
  /\ DrainGoes("wait", "check")
  /\ UNCHANGED <<vars, snapshot, verdict, timedOut>>

\* Broken: the drain ends when every effect has landed.
DrainChecksEffects ==
  /\ DrainGoes("check", IF Distinct < produced THEN "pull" ELSE "exited")
  /\ UNCHANGED <<vars, snapshot, verdict, timedOut>>

DrainChecks ==
  /\ DrainGoes("check", IF stats.acked < produced THEN "pull" ELSE "exited")
  /\ UNCHANGED <<vars, snapshot, verdict, timedOut>>

DrainTimesOut ==
  /\ stats.acked < produced
  /\ DrainGoes("check", "exited")
  /\ timedOut' = TRUE
  /\ UNCHANGED <<vars, snapshot, verdict>>

NothingDue == \A id \in Ids : q.ready[id] = 0 \/ id \in delayed

\* Dequeue has nothing to hand out: the drain stops pulling.
DrainFindsNothing ==
  /\ Unlocked /\ NothingDue
  /\ DrainGoes("pull", "list")
  /\ UNCHANGED <<vars, snapshot, verdict, timedOut>>

\* Broken: the DLQ is not replayed.
DrainSkipsDead ==
  /\ Unlocked
  /\ DrainGoes("list", "check")
  /\ UNCHANGED <<vars, snapshot, verdict, timedOut>>

\* ListDeadTasks copies the DLQ.
DrainListsDead ==
  /\ Unlocked
  /\ DrainGoes("list", "replay")
  /\ snapshot' = ListDeadTasks
  /\ UNCHANGED <<vars, verdict, timedOut>>

\* A task that cannot be requeued is passed over.
DrainRequeues(id) ==
  /\ id \in snapshot /\ snapshot' = snapshot \ {id}
  /\ \/ RequeueDead(id) /\ DrainGoes("replay", IF mu' = "caller" THEN "requeue" ELSE "replay")
     \/ /\ Unlocked /\ id \notin q.dlq /\ UNCHANGED vars
        /\ DrainGoes("replay", "replay")
  /\ UNCHANGED <<verdict, timedOut>>

\* The pass is over; the sleep before the next one is where time passes.
DrainLoops ==
  /\ snapshot = {} /\ DrainGoes("replay", "check")
  /\ UNCHANGED <<vars, snapshot, verdict, timedOut>>

\* Broken: the verdict looks at effects only.
JudgesEffects ==
  /\ Unlocked /\ pc[Drainer] = "exited" /\ verdict = "none"
  /\ verdict' = IF Distinct = produced /\ DLQLen = 0 THEN "pass" ELSE "fail"
  /\ UNCHANGED <<vars, stopped, pc, task, applied, stats, snapshot, timedOut, late>>

Judges ==
  /\ Unlocked /\ pc[Drainer] = "exited" /\ verdict = "none"
  /\ verdict' = IF Distinct = produced /\ stats.acked = produced /\ DLQLen = 0
                THEN "pass" ELSE "fail"
  /\ UNCHANGED <<vars, stopped, pc, task, applied, stats, snapshot, timedOut, late>>

\* realMain reports and closes the queue: nothing of the test runs any more.
Reported == verdict # "none" /\ UNCHANGED allVars

----------------------------------------------------------------------------

ClientStep(c) ==
  \/ \E id \in Ids : Takes(c, id)
  \/ Succeeds(c) \/ Fails(c) \/ Crashes(c) \/ ConsumerStops(c)

DrainStep ==
  \/ DrainBegins \/ DrainChecks \/ DrainFindsNothing \/ DrainListsDead
  \/ \E id \in Ids : DrainRequeues(id)
  \/ DrainLoops \/ Judges

TestStep ==
  \/ \E id \in Ids : Produces(id)
  \/ \E c \in Clients : ClientStep(c)
  \/ CallReturns \/ DrainStep

LoadNext ==
  \/ /\ verdict = "none"
     /\ \/ TestStep \/ Sweeps
        \/ \E id \in Ids : SweepsTask(id) \/ ClockTicks(id)
        \/ CloseWindow \/ DrainTimesOut
  \/ Reported

\* The test is not stopped while one of its goroutines can go on, the sweeper
\* gets its turns (for SweepsTask see Queue's Fairness), and time passes.
\* Nothing is assumed of the drain's deadline: conservation must come without
\* it.
LoadSpec ==
  /\ LoadInit /\ [][LoadNext]_allVars
  /\ SF_allVars(TestStep) /\ SF_allVars(Sweeps)
  /\ \A id \in Ids : SF_allVars(SweepsTask(id))
  /\ WF_allVars(\E id \in Ids : ClockTicks(id))

----------------------------------------------------------------------------
\* What the load test's verdict is worth.

\* PASS means what it says, however late the clients were: every task that
\* was produced has been acknowledged, its effect has landed, and the queue
\* holds nothing, live or dead.
PassIsSound ==
  verdict = "pass" =>
    /\ \A id \in Produced : Acked(id) /\ id \in applied
    /\ q.index \cup q.dlq = {}

\* FAIL is never a false alarm: unless the drain ran out of time, a client
\* outlived a lease or an Append failed, a run ends in PASS.
FailHasACause == verdict = "fail" => timedOut \/ late \/ faults > 0

\* The counters of a passing run tell the truth about redelivery: what
\* buildRecord reports as redeliveries (delivered - produced) is the number of
\* deliveries that were retried, crashed or refused.
RedeliveriesAddUp ==
  verdict = "pass" =>
    Redeliveries = stats.retried + stats.crashed + stats.errors

\* The run ends: once the window is closed the drain brings every task to its
\* Ack, with dead ones revived and crashed leases run out, before any deadline
\* forces it.
RunEnds == stopped ~> verdict # "none"
============================================================================
