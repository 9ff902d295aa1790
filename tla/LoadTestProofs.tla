--------------------------- MODULE LoadTestProofs --------------------------
(***************************************************************************)
(* What the verdict of the load test is worth, for any number of tasks,    *)
(* producers and consumers, any retry budget and any failures of Append.   *)
(* The load test drives a Queue as Queue's specification lets it, so what  *)
(* QueueProofs shows carries over; beyond that its counters are tied to    *)
(* what the queue holds, and callers who are in time are disciplined ones. *)
(***************************************************************************)
EXTENDS LoadTest, QueueDisciplineProofs, FiniteSetTheorems

\* The client is inside a call that holds the mutex.
Calling(c) == pc[c] \in {"ack", "retry", "requeue"}

\* The tasks that were produced and that the queue holds no more.
Settled == Produced \ Known(q)

\* The clients that have been handed a task and have not returned from it.
Holding == {c \in Clients : task[c] # None}

\* The types of the clients' variables.
ClientTypes ==
  /\ stopped \in BOOLEAN /\ timedOut \in BOOLEAN /\ late \in BOOLEAN
  /\ pc \in [Clients -> {"poll", "have", "ack", "retry", "exited", "wait",
                         "check", "pull", "list", "replay", "requeue"}]
  /\ task \in [Clients -> Ids \cup {None}]
  /\ applied \subseteq Ids /\ snapshot \subseteq Ids
  /\ stats \in Stats
  /\ verdict \in {"none", "pass", "fail"}

\* Where the clients are: a client has a task exactly while it handles one, and the
\* drain starts when every other goroutine has returned.
Stages ==
  /\ proc = "up"
  /\ \A c \in Clients : task[c] # None <=> pc[c] \in {"have", "ack", "retry"}
  /\ \A c \in Consumers : pc[c] \in {"poll", "have", "ack", "retry", "exited"}
  /\ pc[Drainer] \notin {"poll", "retry"}
  /\ pc[Drainer] # "wait" =>
       /\ stopped /\ \A c \in Consumers : pc[c] = "exited"
       /\ \A id \in Ids : call[id] \notin {"append", "commit"}
  /\ verdict # "none" => pc[Drainer] = "exited"

\* The mutex: a client inside a call is the one the pending operation belongs to.
Calls ==
  /\ \A c \in Clients : Calling(c) =>
       /\ mu = "caller"
       /\ \A d \in Clients : Calling(d) => d = c
       /\ pc[c] = "ack" => /\ pend.op = "ack" /\ pend.id = task[c]
                           /\ pend.id \in applied /\ Logged("ack", pend.id)
       /\ pc[c] = "retry" => pend.op \in {"retry", "dead"} /\ pend.id = task[c]
       /\ pc[c] = "requeue" => pend.op = "requeue"
  /\ mu = "sweeper" => pend.op \in {"none", "retry", "dead"}

\* Only a call of Enqueue that has returned nil has put a task in the queue, a worker's
\* hands or the effect store; and only an Ack has taken it out.
Contents ==
  /\ Known(q) \subseteq Produced
  /\ \A id \in Ids : q.indexOfIdemKeys[KeyOf[id]] # None => id \in Produced
  /\ \A id \in Ids : q.ready[id] > 0 => id \in Produced
  /\ \A c \in Clients : task[c] # None => task[c] \in Produced
  /\ applied \subseteq Produced
  /\ \A id \in Settled : id \in applied /\ Logged("ack", id)

\* acked counts the tasks that are settled ...
AckedCounts == IsFiniteSet(Produced) /\ stats.acked = Cardinality(Settled)

\* ... and a delivery was acknowledged, retried, crashed, refused, or is being handled.
Deliveries ==
  /\ IsFiniteSet(Holding)
  /\ stats.delivered =
       stats.acked + stats.retried + stats.crashed + stats.errors + Cardinality(Holding)

\* While no client outlived a lease, each task is in its place and each client holds
\* the lease of its task, alone.
InTime ==
  ~late =>
    /\ InPlace(q) /\ Leased
    /\ mu = "sweeper" /\ pend # Idle => pend.id \in expired
    /\ \A c \in Clients : task[c] # None =>
         /\ task[c] \in q.indexOfInflight \ expired
         /\ \A d \in Clients : task[d] = task[c] => d = c

\* What can make a run fail.
Cause == timedOut \/ late \/ faults > 0

\* The verdict, and the drain that leads to it.
Verdicts ==
  /\ pc[Drainer] = "exited" => Cause \/ stats.acked = produced
  /\ verdict = "pass" => stats.acked = produced
  /\ verdict = "fail" => Cause

\* The inductive invariant of the load test, on top of IndInv.
LoadInv ==
  /\ ClientTypes /\ Stages /\ Calls /\ Contents
  /\ AckedCounts /\ Deliveries /\ InTime /\ Verdicts

----------------------------------------------------------------------------

\* Every step of the load test is a step of the queue or leaves it alone.
LEMMA LoadStepIsQueueStep ==
  ASSUME TypeOK, [LoadNext]_allVars
  PROVE  [Next]_vars
<1>1. q.index \subseteq Ids /\ q.dlq \subseteq Ids
  BY DEF TypeOK, Memory
<1>2. CASE \E id \in Ids : Produces(id)
  BY <1>2 DEF Produces, Next
<1>3. ASSUME NEW c \in Clients, ClientStep(c) PROVE [Next]_vars
  <2>1. CASE \E id \in Ids : Takes(c, id)
    BY <2>1 DEF Takes, CallerStep, Next
  <2>2. CASE Succeeds(c)
    BY <1>1, <2>2 DEF Succeeds, NotFound, Ack, CallerStep, Next
  <2>3. CASE Fails(c)
    BY <1>1, <2>3 DEF Fails, NotFound, Retry, CallerStep, Next
  <2>4. CASE Crashes(c) \/ ConsumerStops(c)
    BY <2>4 DEF Crashes, ConsumerStops
  <2> QED
    BY <1>3, <2>1, <2>2, <2>3, <2>4 DEF ClientStep
<1>4. CASE CallReturns
  BY <1>4 DEF CallReturns, Next
<1>5. CASE DrainStep
  <2>1. CASE \E id \in Ids : DrainRequeues(id)
    BY <2>1 DEF DrainRequeues, CallerStep, Next
  <2>2. CASE \/ DrainBegins \/ DrainChecks \/ DrainFindsNothing
             \/ DrainListsDead \/ DrainLoops \/ Judges
    BY <2>2 DEF DrainBegins, DrainChecks, DrainFindsNothing, DrainListsDead, DrainLoops,
                Judges
  <2> QED
    BY <1>5, <2>1, <2>2 DEF DrainStep
<1>6. CASE Sweeps \/ \E id \in Ids : SweepsTask(id) \/ ClockTicks(id)
  BY <1>6 DEF Sweeps, SweepsTask, ClockTicks, Next
<1>7. CASE CloseWindow \/ DrainTimesOut \/ Reported \/ UNCHANGED allVars
  BY <1>7 DEF CloseWindow, DrainTimesOut, Reported, allVars
<1> QED
  BY <1>2, <1>3, <1>4, <1>5, <1>6, <1>7 DEF LoadNext, TestStep

\* What QueueProofs shows of any queue holds of the one under load.
LEMMA LoadKeepsIndInv == LoadInit /\ [][LoadNext]_allVars => []IndInv
<1>1. LoadInit => IndInv
  BY InitIndInv DEF LoadInit
<1>2. IndInv /\ [LoadNext]_allVars => IndInv'
  <2>1. IndInv => TypeOK
    BY DEF IndInv
  <2> QED
    BY <2>1, LoadStepIsQueueStep, StepKeepsIndInv
<1> QED
  BY <1>1, <1>2, PTL

\* The load test drives the queue as the queue's specification lets its callers: every
\* theorem about Queue is one about the queue under load.
THEOREM LoadUsesQueue == LoadSpec => Spec
<1>1. LoadInit => Init
  BY DEF LoadInit
<1>2. IndInv /\ [LoadNext]_allVars => [Next]_vars
  BY LoadStepIsQueueStep DEF IndInv
<1> QED
  BY <1>1, <1>2, LoadKeepsIndInv, PTL DEF LoadSpec, Spec

----------------------------------------------------------------------------

\* A counter of runStats goes up by one, and no other changes.
LEMMA Counts ==
  ASSUME stats \in Stats
  PROVE  /\ Count("delivered") => stats' = [stats EXCEPT !.delivered = @ + 1]
         /\ Count("acked") => stats' = [stats EXCEPT !.acked = @ + 1]
         /\ Count("retried") => stats' = [stats EXCEPT !.retried = @ + 1]
         /\ Count("crashed") => stats' = [stats EXCEPT !.crashed = @ + 1]
         /\ Count("errors") => stats' = [stats EXCEPT !.errors = @ + 1]
BY DEF Count, Stats

\* The drain is a client, and no consumer.
LEMMA DrainerIs == Drainer \in Clients /\ Drainer \notin Consumers /\ Consumers \subseteq Clients
BY LoadTestAssumption DEF Clients

\* acked never exceeds produced; when it reaches it, the queue is empty and every
\* effect has landed.
LEMMA AckedAtMost ==
  ASSUME ClientTypes, Contents, AckedCounts
  PROVE  /\ stats.acked \in Nat /\ produced \in Nat /\ stats.acked <= produced
         /\ stats.acked = produced => Known(q) = {} /\ applied = Produced
<1>1. Settled \in SUBSET Produced
  BY DEF Settled
<1>2. /\ Cardinality(Settled) <= Cardinality(Produced)
      /\ Cardinality(Produced) = Cardinality(Settled) => Produced = Settled
  BY <1>1, FS_Subset DEF AckedCounts
<1>3. Cardinality(Produced) \in Nat
  BY FS_CardinalityType DEF AckedCounts
<1>4. stats.acked \in Nat
  BY DEF ClientTypes, Stats
<1>5. Produced = Settled => Known(q) = {} /\ applied = Produced
  BY DEF Settled, Contents
<1> QED
  BY <1>2, <1>3, <1>4, <1>5 DEF AckedCounts, produced

\* A client that moves on between its calls.
LEMMA MovesKeep ==
  ASSUME LoadInv, UNCHANGED <<vars, task, applied, stats, late>>,
         \A c \in Clients : Calling(c) \/ Calling(c)' => pc'[c] = pc[c]
  PROVE  Calls' /\ Contents' /\ AckedCounts' /\ Deliveries' /\ InTime'
<1>1. UNCHANGED <<q, log, expired, mu, pend, todo, call, task, applied, stats, late>>
  BY DEF vars
<1>2. Calls'
  BY <1>1 DEF LoadInv, Calls, Calling, Logged
<1>3. Produced' = Produced /\ Settled' = Settled /\ Holding' = Holding
  BY <1>1 DEF Produced, Settled, Holding, Known
<1>4. Contents'
  BY <1>1, <1>3 DEF LoadInv, Contents, Known, Logged
<1>5. AckedCounts' /\ Deliveries'
  BY <1>1, <1>3 DEF LoadInv, AckedCounts, Deliveries
<1>6. InTime'
  BY <1>1 DEF LoadInv, InTime, InPlace, Leased
<1> QED
  BY <1>2, <1>4, <1>5, <1>6

\* The load window closes; a consumer stops.
LEMMA WindowKeepsLoadInv ==
  ASSUME LoadInv, verdict = "none", CloseWindow \/ \E c \in Clients : ConsumerStops(c)
  PROVE  LoadInv'
<1>1. UNCHANGED <<vars, task, applied, stats, snapshot, verdict, timedOut, late>>
  BY DEF CloseWindow, ConsumerStops
<1>2. UNCHANGED <<call, proc, faults>> /\ produced' = produced
  BY <1>1 DEF vars, produced, Produced
<1>3. CASE CloseWindow
  <2>1. stopped' = TRUE /\ pc' = pc
    BY <1>3 DEF CloseWindow
  <2>2. ClientTypes' /\ Stages'
    BY <1>1, <1>2, <2>1 DEF LoadInv, ClientTypes, Stages
  <2>3. Verdicts'
    BY <1>1, <1>2, <2>1 DEF LoadInv, Verdicts, Cause
  <2>4. Calls' /\ Contents' /\ AckedCounts' /\ Deliveries' /\ InTime'
    BY <1>1, <2>1, MovesKeep
  <2> QED
    BY <2>2, <2>3, <2>4 DEF LoadInv
<1>4. ASSUME NEW c \in Clients, ConsumerStops(c) PROVE LoadInv'
  <2>1. /\ c \in Consumers /\ c # Drainer /\ pc[c] = "poll" /\ stopped' = stopped
        /\ pc' = [pc EXCEPT ![c] = "exited"]
    BY <1>4, DrainerIs DEF ConsumerStops, Goes
  <2>2. ClientTypes'
    BY <1>1, <2>1 DEF LoadInv, ClientTypes
  <2>3. Stages'
    BY <1>1, <1>2, <2>1, DrainerIs DEF LoadInv, ClientTypes, Stages
  <2>4. Verdicts'
    BY <1>1, <1>2, <2>1, DrainerIs DEF LoadInv, ClientTypes, Verdicts, Cause
  <2>5. Calls' /\ Contents' /\ AckedCounts' /\ Deliveries' /\ InTime'
    BY <1>1, <2>1, MovesKeep DEF LoadInv, ClientTypes, Calling
  <2> QED
    BY <2>2, <2>3, <2>4, <2>5 DEF LoadInv
<1> QED
  BY <1>3, <1>4

\* The drain begins, looks at its counters, runs out of time, lists the DLQ or starts
\* over: it touches neither the queue nor a counter.
LEMMA DrainMovesKeepLoadInv ==
  ASSUME LoadInv, TypeOK, verdict = "none",
         \/ DrainBegins \/ DrainChecks \/ DrainTimesOut
         \/ DrainFindsNothing \/ DrainListsDead \/ DrainLoops
  PROVE  LoadInv'
<1>1. UNCHANGED <<vars, task, applied, stats, verdict, late, stopped>>
  BY DEF DrainBegins, DrainChecks, DrainTimesOut, DrainFindsNothing, DrainListsDead,
         DrainLoops, DrainGoes
<1>2. UNCHANGED <<q, call, proc, faults>> /\ produced' = produced
  BY <1>1 DEF vars, produced, Produced
<1>3. PICK from, to \in {"wait", "check", "pull", "list", "replay", "exited"} :
        /\ pc[Drainer] = from /\ pc' = [pc EXCEPT ![Drainer] = to]
        /\ from # "exited" /\ to # "wait"
        /\ from = "wait" => /\ stopped /\ \A c \in Consumers : pc[c] = "exited"
                            /\ \A id \in Ids : call[id] \notin {"append", "commit"}
        /\ timedOut' = timedOut \/ timedOut' = TRUE
        /\ to = "exited" => timedOut' = TRUE \/ ~(stats.acked < produced)
  BY DEF DrainBegins, DrainChecks, DrainTimesOut, DrainFindsNothing, DrainListsDead,
         DrainLoops, DrainGoes, Goes
<1>4. snapshot' \subseteq Ids
  BY DEF DrainBegins, DrainChecks, DrainTimesOut, DrainFindsNothing, DrainListsDead,
         DrainLoops, ListDeadTasks,
         TypeOK, Memory, LoadInv, ClientTypes
<1>5. ClientTypes'
  BY <1>1, <1>3, <1>4 DEF LoadInv, ClientTypes
<1>6. Stages'
  <2>1. \A c \in Consumers : pc'[c] = pc[c]
    BY <1>3, DrainerIs DEF LoadInv, ClientTypes
  <2>2. pc'[Drainer] = to
    BY <1>3, DrainerIs DEF LoadInv, ClientTypes
  <2>3. \A c \in Clients : c \in Consumers \/ c = Drainer
    BY DEF Clients
  <2> QED
    BY <1>1, <1>2, <1>3, <2>1, <2>2, <2>3 DEF LoadInv, Stages
<1>7. Verdicts'
  <2>1. pc'[Drainer] = to
    BY <1>3, DrainerIs DEF LoadInv, ClientTypes
  <2>2. ~(stats.acked < produced) => stats.acked = produced
    BY AckedAtMost DEF LoadInv
  <2> QED
    BY <1>1, <1>2, <1>3, <2>1, <2>2 DEF Verdicts, Cause
<1>8. Calls' /\ Contents' /\ AckedCounts' /\ Deliveries' /\ InTime'
  <2>1. \A c \in Clients : Calling(c) \/ Calling(c)' => pc'[c] = pc[c]
    BY <1>3 DEF LoadInv, ClientTypes, Calling
  <2> QED
    BY <1>1, <2>1, MovesKeep
<1> QED
  BY <1>5, <1>6, <1>7, <1>8 DEF LoadInv

\* The verdict: a run that reached acked = produced passes, so one that fails has a
\* cause.
LEMMA JudgesKeepsLoadInv ==
  ASSUME LoadInv, Judges
  PROVE  LoadInv'
<1>1. /\ UNCHANGED <<vars, stopped, pc, task, applied, stats, snapshot, timedOut, late>>
      /\ pc[Drainer] = "exited" /\ verdict = "none"
      /\ verdict' = IF Distinct = produced /\ stats.acked = produced /\ DLQLen = 0
                    THEN "pass" ELSE "fail"
  BY DEF Judges
<1>2. UNCHANGED <<q, call, proc, faults>> /\ produced' = produced
  BY <1>1 DEF vars, produced, Produced
<1>3. ClientTypes' /\ Stages'
  BY <1>1, <1>2 DEF LoadInv, ClientTypes, Stages
<1>4. stats.acked = produced => Distinct = produced /\ DLQLen = 0
  <2>1. stats.acked = produced => q.dlq = {} /\ applied = Produced
    BY AckedAtMost DEF LoadInv, Known
  <2> QED
    BY <2>1, FS_EmptySet DEF Distinct, produced, DLQLen, ListDeadTasks
<1>5. Verdicts'
  BY <1>1, <1>2, <1>4 DEF LoadInv, Verdicts, Cause
<1>6. Calls' /\ Contents' /\ AckedCounts' /\ Deliveries' /\ InTime'
  BY <1>1, MovesKeep
<1> QED
  BY <1>3, <1>5, <1>6 DEF LoadInv

----------------------------------------------------------------------------

\* The log only grows, and what it holds stays in it.
LEMMA LoggedStays ==
  ASSUME IndInv, [Next]_vars
  PROVE  \A op, id : Logged(op, id) => Logged(op, id)'
<1>1. log \in Seq(Record)
  BY DEF IndInv, TypeOK
<1>2. CASE log' = log
  BY <1>2 DEF Logged
<1>3. ASSUME NEW r \in Record, log' = Append(log, r)
      PROVE  \A op, id : Logged(op, id) => Logged(op, id)'
  BY <1>1, <1>3, LoggedAppend
<1> QED
  BY <1>2, <1>3, LogStep

\* Enqueue: a task is produced in the step that puts it in the queue, because every
\* call has a key of its own.
LEMMA ProducesKeepsLoadInv ==
  ASSUME LoadInv, IndInv, NEW id \in Ids, Produces(id)
  PROVE  LoadInv'
<1>1. EnqueueStep(id) /\ UNCHANGED clientVars /\ [Next]_vars
  BY DEF Produces, Next
<1>2. /\ UNCHANGED <<stopped, pc, task, applied, stats, snapshot, verdict, timedOut, late>>
      /\ UNCHANGED <<expired, mu, pend, todo, proc>>
      /\ pc[Drainer] = "wait"
  <2>1. pc[Drainer] = "wait"
    <3>1. call[id] \in {"append", "commit"} \/ ~stopped
      BY DEF Produces, EnqueueStep, EnqueueDedup, EnqueueBegin, EnqueueAppend, EnqueueFails,
             EnqueueCommit
    <3> QED
      BY <3>1 DEF LoadInv, Stages
  <2> QED
    BY <1>1, <2>1 DEF clientVars, EnqueueStep, EnqueueDedup, EnqueueBegin, EnqueueAppend,
                      EnqueueFails, EnqueueCommit
<1>3. ClientTypes' /\ Stages' /\ Verdicts'
  <2>1. verdict = "none"
    BY <1>2 DEF LoadInv, Stages, ClientTypes
  <2> QED
    BY <1>2, <2>1 DEF LoadInv, ClientTypes, Stages, Verdicts
<1>4. Calls' /\ Deliveries'
  <2>1. Holding' = Holding
    BY <1>2 DEF Holding
  <2>2. \A x : Logged("ack", x) => Logged("ack", x)'
    BY <1>1, LoggedStays
  <2> QED
    BY <1>2, <2>1, <2>2 DEF LoadInv, Calls, Calling, Deliveries
<1>5. InTime'
  <2> SUFFICES ASSUME ~late PROVE InTime'
    BY <1>2 DEF InTime
  <2>1. InPlace(q') /\ Leased'
    BY <1>1, EnqueueKeepsPlaces DEF LoadInv, InTime
  <2>2. InPlace(q)' <=> InPlace(q')
    BY DEF InPlace
  <2>3. q'.indexOfInflight = q.indexOfInflight
    BY <1>1 DEF EnqueueStep, EnqueueDedup, EnqueueBegin, EnqueueAppend, EnqueueFails,
                EnqueueCommit, Insert, IndInv, TypeOK, Memory
  <2> QED
    BY <1>2, <2>1, <2>2, <2>3 DEF LoadInv, InTime
<1>6. id \notin Produced /\ id \notin Known(q) /\ ~KeyTaken(q, id)
  <2>1. call[id] \in {"idle", "append", "commit"}
    BY <1>1 DEF EnqueueStep, EnqueueDedup, EnqueueBegin, EnqueueAppend, EnqueueFails,
                EnqueueCommit
  <2> QED
    BY <2>1 DEF IndInv, Fresh, Produced, LoadInv, Contents, KeyTaken
<1>7. \A x : Logged("ack", x) => Logged("ack", x)'
  BY <1>1, LoggedStays
<1>8. CASE call'[id] # "done"
  <2>1. q' = q /\ call' = [call EXCEPT ![id] = call'[id]]
    BY <1>1, <1>8 DEF EnqueueStep, EnqueueDedup, EnqueueBegin, EnqueueAppend, EnqueueFails,
                      EnqueueCommit, IndInv, TypeOK
  <2>2. Produced' = Produced
    BY <1>6, <1>8, <2>1 DEF Produced, IndInv, TypeOK
  <2>3. Settled' = Settled
    BY <2>1, <2>2 DEF Settled, Known
  <2>4. Contents'
    BY <1>2, <1>7, <2>1, <2>2, <2>3 DEF LoadInv, Contents, Known
  <2>5. AckedCounts'
    BY <1>2, <2>2, <2>3 DEF LoadInv, AckedCounts
  <2> QED
    BY <1>3, <1>4, <1>5, <2>4, <2>5 DEF LoadInv
<1>9. CASE call'[id] = "done"
  <2>1. q' = Insert(q, id) /\ call' = [call EXCEPT ![id] = "done"]
    BY <1>1, <1>6, <1>9 DEF EnqueueStep, EnqueueDedup, EnqueueBegin, EnqueueAppend,
                            EnqueueFails, EnqueueCommit, IndInv, TypeOK
  <2>2. Produced' = Produced \cup {id}
    BY <2>1 DEF Produced, IndInv, TypeOK
  <2>3. /\ q'.index = q.index \cup {id} /\ q'.dlq = q.dlq
        /\ q'.ready = [q.ready EXCEPT ![id] = @ + 1]
        /\ q'.indexOfIdemKeys = [q.indexOfIdemKeys EXCEPT ![KeyOf[id]] = id]
        /\ q.ready \in [Ids -> Nat] /\ q.indexOfIdemKeys \in [Keys -> Ids \cup {None}]
    BY <2>1 DEF Insert, IndInv, TypeOK, Memory
  <2>4. Known(q)' = Known(q) \cup {id} /\ Settled' = Settled
    BY <1>6, <2>2, <2>3 DEF Settled, Known
  <2>5. \A x \in Ids : q'.indexOfIdemKeys[KeyOf[x]] # None => x \in Produced'
    BY <2>2, <2>3, LoadTestAssumption, KeyInKeys DEF LoadInv, Contents
  <2>6. \A x \in Ids : q'.ready[x] > 0 => x \in Produced'
    BY <2>2, <2>3 DEF LoadInv, Contents
  <2>7. Contents'
    BY <1>2, <1>7, <2>2, <2>4, <2>5, <2>6 DEF LoadInv, Contents
  <2>8. AckedCounts'
    BY <1>2, <2>2, <2>4, FS_AddElement DEF LoadInv, AckedCounts
  <2> QED
    BY <1>3, <1>4, <1>5, <2>7, <2>8 DEF LoadInv
<1> QED
  BY <1>8, <1>9

\* Steps of the sweeper and the clock that change neither the heap, the maps and the
\* DLQ nor the calls of Enqueue.
LEMMA QueueMovesKeep ==
  ASSUME LoadInv, IndInv, [Next]_vars, UNCHANGED <<q, call, task, applied, stats>>
  PROVE  Contents' /\ AckedCounts' /\ Deliveries' /\ produced' = produced
<1>1. Produced' = Produced /\ Settled' = Settled /\ Holding' = Holding
  BY DEF Produced, Settled, Holding, Known
<1>2. \A x : Logged("ack", x) => Logged("ack", x)'
  BY LoggedStays
<1>3. Contents'
  BY <1>1, <1>2 DEF LoadInv, Contents, Known
<1>4. AckedCounts' /\ Deliveries'
  BY <1>1 DEF LoadInv, AckedCounts, Deliveries
<1> QED
  BY <1>1, <1>3, <1>4 DEF produced

\* A pass of the sweeper: it takes back leases that have run out, never that of a
\* client that is in time.
LEMMA SweepsKeepLoadInv ==
  ASSUME LoadInv, IndInv, Sweeps \/ \E id \in Ids : SweepsTask(id)
  PROVE  LoadInv'
<1>1. /\ SweepBegin \/ SweepEnd \/ \E id \in Ids : SweepVisit(id)
      /\ UNCHANGED <<stopped, pc, task, applied, stats, snapshot, verdict, timedOut, late>>
  BY DEF Sweeps, SweepsTask, clientVars
<1>2. /\ [Next]_vars /\ UNCHANGED <<q, call, proc, expired>>
      /\ faults' \in {faults, faults + 1} /\ proc = "up"
  BY <1>1 DEF Next, SweepBegin, SweepEnd, SweepVisit, SweepKeep, SweepRetry, SweepAbort,
              Unlocked, Sweeping, IndInv, TypeOK, counters
<1>3. Contents' /\ AckedCounts' /\ Deliveries' /\ produced' = produced
  BY <1>1, <1>2, QueueMovesKeep
<1>4. ClientTypes' /\ Stages'
  BY <1>1, <1>2 DEF LoadInv, ClientTypes, Stages
<1>5. Verdicts'
  <2>1. faults > 0 => faults' > 0
    BY <1>2 DEF IndInv, TypeOK
  <2> QED
    BY <1>1, <1>3, <2>1 DEF LoadInv, Verdicts, Cause
<1>6. /\ mu # "caller" /\ mu' # "caller"
      /\ mu' = "sweeper" => pend' = Idle \/ \E id \in Ids : pend' = RetryRecord(id) /\ id \in expired
  BY <1>1 DEF SweepBegin, SweepEnd, SweepVisit, SweepKeep, SweepRetry, SweepAbort,
              Unlocked, Sweeping, IndInv, Held
<1>7. /\ mu' = "sweeper" => pend'.op \in {"none", "retry", "dead"}
      /\ mu' = "sweeper" /\ pend' # Idle => pend'.id \in expired
  BY <1>6, RetryRecordIs DEF Idle, IndInv
<1>8. Calls'
  BY <1>1, <1>6, <1>7 DEF LoadInv, Calls, Calling
<1>9. InTime'
  <2> SUFFICES ASSUME ~late PROVE InTime'
    BY <1>1 DEF InTime
  <2>1. InPlace(q') /\ Leased'
    BY <1>1, SweepKeepsPlaces DEF LoadInv, InTime
  <2>2. InPlace(q)' <=> InPlace(q')
    BY DEF InPlace
  <2> QED
    BY <1>1, <1>2, <1>7, <2>1, <2>2 DEF LoadInv, InTime
<1> QED
  BY <1>3, <1>4, <1>5, <1>8, <1>9 DEF LoadInv

\* Time passes: either the lease that runs out is nobody's, or a client is late.
LEMMA ClockKeepsLoadInv ==
  ASSUME LoadInv, IndInv, NEW id \in Ids, ClockTicks(id)
  PROVE  LoadInv'
<1>1. /\ TimePasses(id) /\ UNCHANGED <<stopped, pc, task, applied, stats, snapshot, verdict, timedOut>>
      /\ late' = (late \/ (LeaseExpires(id) /\ Busy(id)))
  BY DEF ClockTicks
<1>2. /\ [Next]_vars /\ UNCHANGED <<q, mu, pend, todo, call, proc, faults>>
      /\ expired' = expired \/ (expired' = expired \cup {id} /\ LeaseExpires(id))
  BY <1>1 DEF Next, TimePasses, LeaseExpires, BackoffElapses, counters
<1>3. Contents' /\ AckedCounts' /\ Deliveries' /\ produced' = produced
  BY <1>1, <1>2, QueueMovesKeep
<1>4. ClientTypes'
  <2>1. late' \in BOOLEAN
    BY <1>1
  <2> QED
    BY <1>1, <2>1 DEF LoadInv, ClientTypes
<1>5. Stages' /\ Calls'
  <2>1. \A x : Logged("ack", x) => Logged("ack", x)'
    BY <1>2, LoggedStays
  <2> QED
    BY <1>1, <1>2, <2>1 DEF LoadInv, Stages, Calls, Calling
<1>6. Verdicts'
  BY <1>1, <1>2, <1>3 DEF LoadInv, Verdicts, Cause
<1>7. InTime'
  <2> SUFFICES ASSUME ~late' PROVE InTime'
    BY DEF InTime
  <2>1. ~late /\ (expired' = expired \/ (expired' = expired \cup {id} /\ ~Busy(id)))
    BY <1>1, <1>2
  <2>2. \A c \in Clients : task[c] \in expired' => task[c] \in expired
    BY <2>1 DEF Busy
  <2> QED
    BY <1>1, <1>2, <2>1, <2>2 DEF LoadInv, InTime, InPlace, Leased
<1> QED
  BY <1>3, <1>4, <1>5, <1>6, <1>7 DEF LoadInv

----------------------------------------------------------------------------

\* A client that handles a task, or the drain in a call, is not done: nor is the run.
LEMMA NotDone ==
  ASSUME LoadInv, NEW c \in Clients, pc[c] \notin {"poll", "exited", "wait"}
  PROVE  /\ verdict = "none" /\ pc[Drainer] # "exited"
         /\ c # Drainer => c \in Consumers /\ pc[Drainer] = "wait"
BY DEF LoadInv, Stages, ClientTypes, Clients

\* A client is handed a task ...
LEMMA HoldingAdds ==
  ASSUME LoadInv, NEW c \in Clients, NEW id \in Ids, task[c] = None,
         task' = [task EXCEPT ![c] = id]
  PROVE  IsFiniteSet(Holding') /\ Cardinality(Holding') = Cardinality(Holding) + 1
<1>1. Holding' = Holding \cup {c} /\ c \notin Holding
  BY StoreAssumption DEF LoadInv, ClientTypes, Holding
<1> QED
  BY <1>1, FS_AddElement DEF LoadInv, Deliveries

\* ... and is done with it.
LEMMA HoldingDrops ==
  ASSUME LoadInv, NEW c \in Clients, task' = [task EXCEPT ![c] = None]
  PROVE  /\ IsFiniteSet(Holding') /\ Cardinality(Holding) \in Nat
         /\ Cardinality(Holding') = IF task[c] = None THEN Cardinality(Holding)
                                    ELSE Cardinality(Holding) - 1
<1>1. Holding' = Holding \ {c} /\ (c \in Holding <=> task[c] # None)
  BY DEF LoadInv, ClientTypes, Holding
<1> QED
  BY <1>1, FS_RemoveElement, FS_CardinalityType DEF LoadInv, Deliveries

\* Dequeue hands a task to a client.
LEMMA TakesKeepsLoadInv ==
  ASSUME LoadInv, IndInv, NEW c \in Clients, NEW id \in Ids, Takes(c, id)
  PROVE  LoadInv'
<1>1. /\ Dequeue(id) /\ pc' = [pc EXCEPT ![c] = "have"] /\ task' = [task EXCEPT ![c] = id]
      /\ UNCHANGED <<stopped, applied, snapshot, verdict, timedOut, late>>
      /\ \/ c \in Consumers /\ pc[c] = "poll" /\ ~stopped
         \/ c = Drainer /\ pc[c] = "pull"
  BY DEF Takes, Goes
<1>2. stats' = [stats EXCEPT !.delivered = @ + 1] /\ stats \in Stats
  BY Counts DEF Takes, LoadInv, ClientTypes
<1>3. /\ mu = "free" /\ pend = Idle /\ UNCHANGED <<mu, pend, log, call, proc, faults>>
      /\ q.ready[id] > 0 /\ expired' = expired \ {id}
      /\ q'.index = q.index /\ q'.dlq = q.dlq
      /\ q'.indexOfIdemKeys = q.indexOfIdemKeys
      /\ q'.ready = [q.ready EXCEPT ![id] = @ - 1] /\ q.ready \in [Ids -> Nat]
      /\ q'.indexOfInflight = q.indexOfInflight \cup {id}
  BY <1>1 DEF Dequeue, DequeueEffect, Unlocked, counters, IndInv, Held, TypeOK, Memory
<1>4. task[c] = None /\ verdict = "none" /\ pc'[Drainer] # "exited"
  <2>1. c \in Consumers => pc[Drainer] = "wait" /\ c # Drainer
    BY <1>1, DrainerIs DEF LoadInv, Stages
  <2>2. pc'[Drainer] # "exited" /\ pc[Drainer] # "exited"
    BY <1>1, <2>1, DrainerIs DEF LoadInv, ClientTypes
  <2> QED
    BY <1>1, <2>2 DEF LoadInv, Stages, ClientTypes
<1>5. ClientTypes'
  BY <1>1, <1>2 DEF LoadInv, ClientTypes, Stats
<1>6. Stages'
  <2>1. id # None
    BY StoreAssumption
  <2> QED
    BY <1>1, <1>3, <1>4, <2>1, DrainerIs DEF LoadInv, ClientTypes, Stages
<1>7. Calls'
  BY <1>1, <1>3 DEF LoadInv, ClientTypes, Calls, Calling
<1>8. Produced' = Produced /\ Settled' = Settled
  BY <1>3 DEF Produced, Settled, Known
<1>9. Contents'
  BY <1>1, <1>3, <1>8 DEF LoadInv, ClientTypes, Contents, Known, Logged
<1>10. AckedCounts'
  BY <1>2, <1>8 DEF LoadInv, AckedCounts, Stats
<1>11. Deliveries'
  <2>1. /\ IsFiniteSet(Holding') /\ Cardinality(Holding') = Cardinality(Holding) + 1
        /\ Cardinality(Holding) \in Nat
    BY <1>1, <1>4, HoldingAdds, FS_CardinalityType DEF LoadInv, Deliveries
  <2>2. /\ stats'.delivered = stats.delivered + 1
        /\ UNCHANGED <<stats.acked, stats.retried, stats.crashed, stats.errors>>
    BY <1>2 DEF Stats
  <2>3. stats \in Stats
    BY <1>2
  <2> QED
    BY <2>1, <2>2, <2>3 DEF LoadInv, Deliveries, Stats
<1>12. InTime'
  <2> SUFFICES ASSUME ~late PROVE InTime'
    BY <1>1 DEF InTime
  <2>1. InPlace(q') /\ Leased'
    BY <1>1, DequeueKeepsPlaces DEF LoadInv, InTime
  <2>2. InPlace(q)' <=> InPlace(q')
    BY DEF InPlace
  <2>3. id \notin q.indexOfInflight
    BY <1>3 DEF LoadInv, InTime, InPlace
  <2>4. \A d \in Clients : task[d] # id
    BY <2>3, StoreAssumption DEF LoadInv, InTime
  <2>5. \A d \in Clients : task'[d] = IF d = c THEN id ELSE task[d]
    BY <1>1 DEF LoadInv, ClientTypes
  <2> QED
    BY <1>1, <1>3, <2>1, <2>2, <2>4, <2>5 DEF LoadInv, InTime
<1>13. Verdicts'
  BY <1>1, <1>4 DEF Verdicts
<1> QED
  BY <1>5, <1>6, <1>7, <1>9, <1>10, <1>11, <1>12, <1>13 DEF LoadInv

\* A client gives its task up between two calls: the handler crashed after its effect,
\* or the call had an error to report.
LEMMA DropsKeepsLoadInv ==
  ASSUME LoadInv, IndInv, [Next]_vars, NEW c \in Clients, pc[c] = "have",
         NEW to \in {"poll", "exited"}, pc' = [pc EXCEPT ![c] = to],
         to = "poll" => c \in Consumers,
         task' = [task EXCEPT ![c] = None],
         applied' \in {applied, applied \cup {task[c]}},
         Count("crashed") \/ Count("errors"),
         UNCHANGED <<q, expired, mu, pend, todo, call, proc>>,
         UNCHANGED <<stopped, snapshot, verdict, timedOut, late>>,
         c = Drainer => Cause'
  PROVE  LoadInv'
<1>1. /\ stats \in Stats /\ task \in [Clients -> Ids \cup {None}]
      /\ stats' \in {[stats EXCEPT !.crashed = @ + 1], [stats EXCEPT !.errors = @ + 1]}
  BY Counts DEF LoadInv, ClientTypes
<1>2. /\ task[c] \in Ids /\ task[c] # None /\ task[c] \in Produced
      /\ verdict = "none" /\ pc[Drainer] # "exited" /\ (c # Drainer => pc[Drainer] = "wait")
      /\ c = Drainer \/ c \in Consumers
  BY <1>1, NotDone DEF LoadInv, Stages, Contents, Clients
<1>3. ClientTypes'
  <2>1. stats' \in Stats /\ applied' \subseteq Ids
    BY <1>1, <1>2 DEF LoadInv, ClientTypes, Stats
  <2> QED
    BY <2>1 DEF LoadInv, ClientTypes
<1>4. Stages'
  BY <1>1, <1>2, DrainerIs DEF LoadInv, ClientTypes, Stages
<1>5. \A x : Logged("ack", x) => Logged("ack", x)'
  BY LoggedStays
<1>6. Calls'
  <2>1. \A d \in Clients : Calling(d)' => Calling(d) /\ pc'[d] = pc[d] /\ task'[d] = task[d]
    BY <1>1 DEF LoadInv, ClientTypes, Calling
  <2>2. applied \subseteq applied'
    OBVIOUS
  <2> QED
    BY <1>5, <2>1, <2>2 DEF LoadInv, Calls
<1>7. Produced' = Produced /\ Settled' = Settled
  BY DEF Produced, Settled, Known
<1>8. Contents'
  BY <1>1, <1>2, <1>5, <1>7 DEF LoadInv, Contents, Known
<1>9. AckedCounts'
  BY <1>1, <1>7 DEF LoadInv, AckedCounts, Stats
<1>10. Deliveries'
  <2>1. /\ IsFiniteSet(Holding') /\ Cardinality(Holding') = Cardinality(Holding) - 1
        /\ Cardinality(Holding) \in Nat
    BY <1>2, HoldingDrops
  <2>2. /\ UNCHANGED <<stats.delivered, stats.acked, stats.retried>>
        /\ \/ stats'.crashed = stats.crashed + 1 /\ stats'.errors = stats.errors
           \/ stats'.crashed = stats.crashed /\ stats'.errors = stats.errors + 1
    BY <1>1 DEF Stats
  <2>3. stats \in Stats
    BY <1>1
  <2> QED
    BY <2>1, <2>2, <2>3 DEF LoadInv, Deliveries, Stats
<1>11. InTime'
  <2>1. \A d \in Clients : task'[d] # None => task'[d] = task[d]
    BY <1>1
  <2> QED
    BY <2>1 DEF LoadInv, InTime, InPlace, Leased
<1>12. Verdicts'
  <2>1. pc'[Drainer] = "exited" => c = Drainer
    BY <1>2 DEF LoadInv, ClientTypes
  <2> QED
    BY <1>2, <2>1 DEF Verdicts
<1> QED
  BY <1>3, <1>4, <1>6, <1>8, <1>9, <1>10, <1>11, <1>12 DEF LoadInv

\* A call has appended its record and holds the mutex.
LEMMA CallBeginsKeepsLoadInv ==
  ASSUME LoadInv, IndInv, [Next]_vars, NEW c \in Clients, mu = "free", mu' = "caller",
         NEW to \in {"ack", "retry", "requeue"}, pc' = [pc EXCEPT ![c] = to],
         to # "requeue" => pc[c] = "have" /\ pend'.id = task[c],
         to = "ack" => /\ pend'.op = "ack" /\ applied' = applied \cup {task[c]}
                       /\ Logged("ack", pend.id)',
         to = "retry" => c \in Consumers /\ pend'.op \in {"retry", "dead"},
         to = "requeue" => c = Drainer /\ pc[c] = "replay" /\ pend'.op = "requeue",
         to # "ack" => applied' = applied,
         snapshot' \subseteq Ids,
         UNCHANGED <<q, expired, todo, call, proc, faults>>,
         UNCHANGED <<stopped, task, stats, verdict, timedOut, late>>
  PROVE  LoadInv'
<1>1. /\ verdict = "none" /\ pc[Drainer] # "exited" /\ (c # Drainer => pc[Drainer] = "wait")
      /\ c = Drainer \/ c \in Consumers
  BY NotDone DEF Clients
<1>2. to # "requeue" => task[c] \in Ids /\ task[c] # None /\ task[c] \in Produced
  BY DEF LoadInv, Stages, ClientTypes, Contents
<1>3. ClientTypes'
  <2>1. applied' \subseteq Ids
    BY <1>2 DEF LoadInv, ClientTypes
  <2> QED
    BY <2>1 DEF LoadInv, ClientTypes
<1>4. Stages'
  BY <1>1, DrainerIs DEF LoadInv, ClientTypes, Stages
<1>5. Calls'
  <2>1. \A d \in Clients : Calling(d)' => d = c
    BY DEF LoadInv, ClientTypes, Calls, Calling
  <2>2. pc'[c] = to
    BY DEF LoadInv, ClientTypes
  <2>3. /\ to = "ack" => /\ pend'.op = "ack" /\ pend'.id = task'[c]
                         /\ pend'.id \in applied' /\ Logged("ack", pend.id)'
        /\ to = "retry" => pend'.op \in {"retry", "dead"} /\ pend'.id = task'[c]
        /\ to = "requeue" => pend'.op = "requeue"
    OBVIOUS
  <2>4. mu' # "sweeper"
    OBVIOUS
  <2> QED
    BY <2>1, <2>2, <2>3, <2>4 DEF Calls
<1>6. Produced' = Produced /\ Settled' = Settled /\ Holding' = Holding
  BY DEF Produced, Settled, Known, Holding
<1>7. Contents'
  <2>1. \A x : Logged("ack", x) => Logged("ack", x)'
    BY LoggedStays
  <2> QED
    BY <1>2, <1>6, <2>1 DEF LoadInv, Contents, Known
<1>8. AckedCounts' /\ Deliveries'
  BY <1>6 DEF LoadInv, AckedCounts, Deliveries
<1>9. InTime'
  <2>1. ~late /\ to # "requeue" => pend'.id \in q.indexOfInflight
    BY <1>2 DEF LoadInv, InTime
  <2>2. ~late => Leased'
    BY <2>1 DEF Leased
  <2>3. InPlace(q)' <=> InPlace(q)
    BY DEF InPlace
  <2> QED
    BY <2>2, <2>3 DEF LoadInv, InTime
<1>10. Verdicts'
  <2>1. pc'[Drainer] # "exited"
    BY <1>1 DEF LoadInv, ClientTypes
  <2> QED
    BY <1>1, <2>1 DEF Verdicts
<1> QED
  BY <1>3, <1>4, <1>5, <1>7, <1>8, <1>9, <1>10 DEF LoadInv

\* The handler's three outcomes.
LEMMA HandlesKeepsLoadInv ==
  ASSUME LoadInv, IndInv, [Next]_vars, NEW c \in Clients,
         Succeeds(c) \/ Fails(c) \/ Crashes(c)
  PROVE  LoadInv'
<1>1. /\ pc[c] = "have" /\ applied' \in {applied, applied \cup {task[c]}}
      /\ UNCHANGED <<stopped, snapshot, verdict, timedOut, late>>
  BY DEF Succeeds, Fails, Crashes, Apply
<1>2. task[c] \in Ids
  BY <1>1 DEF LoadInv, Stages, ClientTypes
<1>3. CASE Crashes(c)
  <2>1. /\ UNCHANGED <<q, expired, mu, pend, todo, call, proc>>
        /\ pc' = [pc EXCEPT ![c] = "poll"] /\ c \in Consumers
        /\ task' = [task EXCEPT ![c] = None] /\ Count("crashed")
    BY <1>3 DEF Crashes, Goes, vars
  <2> QED
    BY <1>1, <2>1, DropsKeepsLoadInv, DrainerIs
<1>4. ASSUME NotFound(c) PROVE LoadInv'
  <2>1. /\ UNCHANGED <<q, expired, mu, pend, todo, call, proc>>
        /\ pc' = [pc EXCEPT ![c] = "exited"]
        /\ task' = [task EXCEPT ![c] = None] /\ Count("errors")
    BY <1>4 DEF NotFound, GivesUp, Goes, vars
  <2>2. late
    <3>1. task[c] \notin q.index
      BY <1>4 DEF NotFound
    <3>2. task[c] # None
      BY <1>2, StoreAssumption
    <3> QED
      BY <3>1, <3>2 DEF LoadInv, InTime, InPlace
  <2>3. Cause'
    BY <1>1, <2>2 DEF Cause
  <2> QED
    BY <1>1, <2>1, <2>3, DropsKeepsLoadInv
<1>5. ASSUME NEW r \in Record, r.id = task[c], CallerAppends(r), NEW to \in {"ack", "retry"},
             Proceeds(c, to),
             to = "ack" => r.op = "ack" /\ applied' = applied \cup {task[c]},
             to = "retry" => c \in Consumers /\ r.op \in {"retry", "dead"} /\ applied' = applied
      PROVE  LoadInv'
  <2>1. mu = "free" /\ UNCHANGED <<q, expired, todo, call, proc>>
    BY <1>5 DEF CallerAppends, Unlocked
  <2>2. CASE mu' = "caller"
    <3>1. /\ pend' = r /\ log' = Append(log, r) /\ UNCHANGED <<faults, stats, task>>
          /\ pc' = [pc EXCEPT ![c] = to]
      BY <1>5, <2>1, <2>2 DEF CallerAppends, Proceeds, Goes
    <3>2. r.op = "ack" => Logged("ack", pend.id)'
      <4>1. log \in Seq(Record)
        BY DEF IndInv, TypeOK
      <4>2. r.op = "ack" => Logged("ack", r.id)'
        BY <3>1, <4>1, LoggedAppend
      <4> QED
        BY <3>1, <4>2 DEF Logged
    <3>3. snapshot' \subseteq Ids
      BY <1>1 DEF LoadInv, ClientTypes
    <3> QED
      BY <1>1, <1>5, <2>1, <2>2, <3>1, <3>2, <3>3, CallBeginsKeepsLoadInv
  <2>3. CASE mu' # "caller"
    <3>1. /\ faults' = faults + 1 /\ UNCHANGED <<pend, mu>>
          /\ pc' = [pc EXCEPT ![c] = "exited"]
          /\ task' = [task EXCEPT ![c] = None] /\ Count("errors")
      BY <1>5, <2>3 DEF CallerAppends, Proceeds, GivesUp, Goes
    <3>2. Cause'
      BY <3>1 DEF Cause, IndInv, TypeOK
    <3> QED
      BY <1>1, <2>1, <3>1, <3>2, DropsKeepsLoadInv
  <2> QED
    BY <2>2, <2>3
<1>6. CASE Succeeds(c)
  <2>1. ASSUME Ack(task[c]), Proceeds(c, "ack") PROVE LoadInv'
    <3> DEFINE r == EncodeRecord("ack", task[c])
    <3>1. r \in Record /\ r.op = "ack" /\ r.id = task[c]
      BY <1>2, EncodedRecord DEF Operations
    <3>2. CallerAppends(r) /\ applied' = applied \cup {task[c]}
      BY <1>6, <2>1 DEF Ack, Succeeds, Apply
    <3> HIDE DEF r
    <3> QED
      BY <1>5, <2>1, <3>1, <3>2
  <2> QED
    BY <1>4, <1>6, <2>1 DEF Succeeds
<1>7. CASE Fails(c)
  <2>1. ASSUME Retry(task[c]), Proceeds(c, "retry") PROVE LoadInv'
    <3> DEFINE r == RetryRecord(task[c])
    <3>1. r \in Record /\ r.op \in {"retry", "dead"} /\ r.id = task[c]
      BY <1>2, RetryRecordIs DEF IndInv
    <3>2. CallerAppends(r) /\ applied' = applied /\ c \in Consumers
      BY <1>7, <2>1 DEF Retry, Fails
    <3> HIDE DEF r
    <3> QED
      BY <1>5, <2>1, <3>1, <3>2
  <2> QED
    BY <1>4, <1>7, <2>1 DEF Fails
<1> QED
  BY <1>3, <1>6, <1>7

\* The drain revives a dead task, or passes it over.
LEMMA RequeuesKeepsLoadInv ==
  ASSUME LoadInv, IndInv, [Next]_vars, NEW id \in Ids, DrainRequeues(id)
  PROVE  LoadInv'
<1>1. /\ pc[Drainer] = "replay" /\ snapshot' \subseteq Ids
      /\ UNCHANGED <<task, applied, stats, late, stopped, verdict, timedOut>>
  BY DEF DrainRequeues, DrainGoes, LoadInv, ClientTypes
<1>2. CASE mu = "free" /\ mu' = "caller"
  <2> DEFINE r == EncodeRecord("requeue", id)
  <2>1. RequeueDead(id) /\ pc' = [pc EXCEPT ![Drainer] = "requeue"]
    BY <1>2 DEF DrainRequeues, DrainGoes, Goes, vars
  <2>2. r.op = "requeue" /\ CallerAppends(r)
    BY <2>1 DEF RequeueDead, EncodeRecord
  <2>3. pend' = r /\ UNCHANGED <<q, expired, todo, call, proc, faults>>
    BY <1>2, <2>2 DEF CallerAppends
  <2> HIDE DEF r
  <2> QED
    BY <1>1, <1>2, <2>1, <2>2, <2>3, CallBeginsKeepsLoadInv, DrainerIs
<1>3. CASE ~(mu = "free" /\ mu' = "caller")
  <2>1. /\ pc' = [pc EXCEPT ![Drainer] = "replay"]
        /\ UNCHANGED <<q, expired, mu, pend, todo, call, proc>>
        /\ faults' = faults \/ faults' = faults + 1
    BY <1>3 DEF DrainRequeues, DrainGoes, Goes, vars, RequeueDead, CallerAppends, Unlocked
  <2>2. pc' = pc
    BY <1>1, <2>1 DEF LoadInv, ClientTypes
  <2>3. Contents' /\ AckedCounts' /\ Deliveries' /\ produced' = produced
    BY <1>1, <2>1, QueueMovesKeep
  <2>4. ClientTypes' /\ Stages'
    BY <1>1, <2>1, <2>2 DEF LoadInv, ClientTypes, Stages
  <2>5. Calls'
    <3>1. \A x : Logged("ack", x) => Logged("ack", x)'
      BY LoggedStays
    <3> QED
      BY <1>1, <2>1, <2>2, <3>1 DEF LoadInv, Calls, Calling
  <2>6. InTime'
    BY <1>1, <2>1 DEF LoadInv, InTime, InPlace, Leased
  <2>7. Verdicts'
    BY <1>1, <2>2 DEF LoadInv, Stages, ClientTypes, Verdicts
  <2> QED
    BY <2>3, <2>4, <2>5, <2>6, <2>7 DEF LoadInv
<1> QED
  BY <1>2, <1>3

\* What the return of the pending operation does to the queue: only an Ack settles a
\* task.
LEMMA ReturnsSettle ==
  ASSUME IndInv, Contents, Returns, pend.op # "purge"
  PROVE  /\ Produced' = Produced /\ log' = log
         /\ pend.op = "ack" => /\ Settled' = Settled \cup {pend.id}
                               /\ pend.id \in Produced \ Settled
         /\ pend.op # "ack" => Settled' = Settled
         /\ Known(q)' \subseteq Produced
         /\ q'.indexOfIdemKeys = q.indexOfIdemKeys
         /\ \A id \in Ids : q'.ready[id] > 0 => id \in Produced
<1> DEFINE id == pend.id
<1>1. /\ q' = After(q, pend) /\ log' = log /\ call' = call
      /\ pend \in Record /\ pend.op \in {"ack", "retry", "dead", "requeue", "purge"}
      /\ id \in Known(q)
  BY ReturnsApply
<1>2. /\ q \in Memory /\ q.ready \in [Ids -> Nat] /\ q.index \cap q.dlq = {} /\ id \in Ids
      /\ pend.op = "ack" => id \in q.index
      /\ q'.indexOfIdemKeys = q.indexOfIdemKeys
  BY <1>1, KeysKept DEF IndInv, TypeOK, Memory, Sound, Held, Record
<1>3. /\ Known(q') = IF pend.op = "ack" THEN Known(q) \ {id} ELSE Known(q)
      /\ q'.ready = q.ready \/ q'.ready = [q.ready EXCEPT ![id] = @ + 1]
  <2>1. CASE pend.op = "ack"
    <3>1. q' = AckEffect(q, id)
      BY <1>1, <2>1 DEF After
    <3> QED
      BY <1>1, <1>2, <2>1, <3>1 DEF AckEffect, Memory, Known
  <2>2. CASE pend.op = "retry"
    <3>1. q' = RetryEffect(q, id)
      BY <1>1, <2>2 DEF After
    <3> QED
      BY <1>1, <1>2, <2>2, <3>1 DEF RetryEffect, Memory, Known
  <2>3. CASE pend.op = "dead"
    <3>1. q' = DeadEffect(q, id)
      BY <1>1, <2>3 DEF After
    <3> QED
      BY <1>1, <1>2, <2>3, <3>1 DEF DeadEffect, Memory, Known
  <2>4. CASE pend.op = "requeue"
    <3>1. q' = RequeueEffect(q, id)
      BY <1>1, <2>4 DEF After
    <3> QED
      BY <1>1, <1>2, <2>4, <3>1 DEF RequeueEffect, Memory, Known
  <2> QED
    BY <1>1, <2>1, <2>2, <2>3, <2>4
<1>4. Produced' = Produced /\ Known(q)' = Known(q')
  BY <1>1 DEF Produced, Known
<1>5. id \in Produced /\ Known(q) \subseteq Produced
  BY <1>1 DEF Contents
<1>6. \A x \in Ids : q'.ready[x] > 0 => x \in Produced
  BY <1>2, <1>3, <1>5 DEF Contents
<1>7. /\ pend.op = "ack" => Settled' = Settled \cup {id} /\ id \notin Settled
      /\ pend.op # "ack" => Settled' = Settled
  BY <1>1, <1>3, <1>4, <1>5 DEF Settled
<1> QED
  BY <1>1, <1>2, <1>3, <1>4, <1>5, <1>6, <1>7

\* An Ack, a retry or a death ends the lease of its task, a revival ends none.
LEMMA InFlightAfter ==
  ASSUME IndInv, Returns
  PROVE  q'.indexOfInflight = IF pend.op \in {"ack", "retry", "dead"}
                              THEN q.indexOfInflight \ {pend.id} ELSE q.indexOfInflight
<1>1. q \in Memory
  BY DEF IndInv, TypeOK
<1>2. CASE AckReturns
  BY <1>1, <1>2 DEF AckReturns, Applies, AckEffect, Memory
<1>3. CASE RetryReturns
  BY <1>1, <1>3 DEF RetryReturns, Applies, RetryEffect, Memory
<1>4. CASE DeadReturns
  BY <1>1, <1>4 DEF DeadReturns, Applies, DeadEffect, Memory
<1>5. CASE RequeueReturns
  BY <1>1, <1>5 DEF RequeueReturns, Applies, RequeueEffect, Memory
<1>6. CASE PurgeReturns
  BY <1>1, <1>6 DEF PurgeReturns, Applies, PurgeEffect, Memory
<1> QED
  BY <1>2, <1>3, <1>4, <1>5, <1>6 DEF Returns

\* The sweeper's retry returns: the task was nobody's, unless a client is late.
LEMMA SweeperReturnsKeepsLoadInv ==
  ASSUME LoadInv, IndInv, CallReturns, mu = "sweeper"
  PROVE  LoadInv'
<1>1. /\ Returns
      /\ UNCHANGED <<pc, task, stats, stopped, applied, snapshot, verdict, timedOut, late>>
  BY DEF CallReturns
<1>2. /\ pend.op \in {"retry", "dead"} /\ pend' = Idle
      /\ proc' = "up" /\ call' = call
  BY <1>1, ReturnsApply DEF LoadInv, Calls
<1>3. /\ mu' = "sweeper" /\ expired' \subseteq expired /\ faults' = faults
  BY <1>1, <1>2 DEF Returns, AckReturns, RetryReturns, DeadReturns, RequeueReturns,
                    PurgeReturns, Release, counters
<1>4. /\ Produced' = Produced /\ Settled' = Settled /\ log' = log
      /\ Known(q)' \subseteq Produced /\ q'.indexOfIdemKeys = q.indexOfIdemKeys
      /\ \A id \in Ids : q'.ready[id] > 0 => id \in Produced
  BY <1>1, <1>2, ReturnsSettle DEF LoadInv
<1>5. ClientTypes' /\ Stages'
  BY <1>1, <1>2 DEF LoadInv, ClientTypes, Stages
<1>6. Calls'
  BY <1>1, <1>2, <1>3 DEF LoadInv, Calls, Calling, Idle
<1>7. Contents'
  BY <1>1, <1>4 DEF LoadInv, Contents, Logged
<1>8. AckedCounts' /\ Deliveries' /\ produced' = produced
  BY <1>1, <1>4 DEF LoadInv, AckedCounts, Deliveries, Holding, produced
<1>9. Verdicts'
  BY <1>1, <1>3, <1>8 DEF LoadInv, Verdicts, Cause
<1>10. InTime'
  <2> SUFFICES ASSUME ~late PROVE InTime'
    BY <1>1 DEF InTime
  <2>1. InPlace(q') /\ Leased'
    BY <1>1, ReturnsKeepPlaces DEF LoadInv, InTime
  <2>2. InPlace(q)' <=> InPlace(q')
    BY DEF InPlace
  <2>3. q'.indexOfInflight = q.indexOfInflight \ {pend.id}
    BY <1>1, <1>2, InFlightAfter
  <2>4. pend.id \in expired
    BY <1>2 DEF LoadInv, InTime, Idle
  <2> QED
    BY <1>1, <1>2, <1>3, <2>1, <2>2, <2>3, <2>4 DEF LoadInv, InTime
<1> QED
  BY <1>5, <1>6, <1>7, <1>8, <1>9, <1>10 DEF LoadInv

\* A client's call returns nil, and is counted.
LEMMA ClientReturnsKeepsLoadInv ==
  ASSUME LoadInv, IndInv, CallReturns, mu # "sweeper"
  PROVE  LoadInv'
<1>1. PICK c \in Clients :
        /\ Calling(c)
        /\ pc' = [pc EXCEPT ![c] = IF c \in Consumers THEN "poll"
                                   ELSE IF pc[c] = "ack" THEN "pull" ELSE "replay"]
        /\ CASE pc[c] = "ack"   -> Count("acked")
             [] pc[c] = "retry" -> Count("retried")
             [] OTHER           -> UNCHANGED stats
        /\ task' = [task EXCEPT ![c] = None]
  BY DEF CallReturns, Calling, Goes
<1>2. Returns /\ UNCHANGED <<stopped, applied, snapshot, verdict, timedOut, late>>
  BY DEF CallReturns
<1>3. /\ mu = "caller" /\ \A d \in Clients : Calling(d) => d = c
      /\ pc[c] = "ack" => /\ pend.op = "ack" /\ pend.id = task[c]
                          /\ pend.id \in applied /\ Logged("ack", pend.id)
      /\ pc[c] = "retry" => pend.op \in {"retry", "dead"} /\ pend.id = task[c]
      /\ pc[c] = "requeue" => pend.op = "requeue"
      /\ pc[c] \in {"ack", "retry", "requeue"}
  BY <1>1 DEF LoadInv, Calls, Calling
<1>4. pend' = Idle /\ proc' = "up" /\ call' = call
  BY <1>2, ReturnsApply
<1>5. mu' = "free" /\ expired' \subseteq expired /\ faults' = faults
  BY <1>2, <1>3 DEF Returns, AckReturns, RetryReturns, DeadReturns, RequeueReturns,
                    PurgeReturns, Release, counters
<1>6. /\ Produced' = Produced /\ log' = log
      /\ pend.op = "ack" => Settled' = Settled \cup {pend.id} /\ pend.id \in Produced \ Settled
      /\ pend.op # "ack" => Settled' = Settled
      /\ Known(q)' \subseteq Produced /\ q'.indexOfIdemKeys = q.indexOfIdemKeys
      /\ \A id \in Ids : q'.ready[id] > 0 => id \in Produced
  BY <1>2, <1>3, ReturnsSettle DEF LoadInv
<1>7. /\ verdict = "none" /\ pc[Drainer] # "exited" /\ (c # Drainer => pc[Drainer] = "wait")
      /\ c = Drainer \/ c \in Consumers
  BY <1>3, NotDone DEF Clients
<1>8. /\ stats \in Stats /\ task \in [Clients -> Ids \cup {None}]
      /\ stats' = IF pc[c] = "ack" THEN [stats EXCEPT !.acked = @ + 1]
                  ELSE IF pc[c] = "retry" THEN [stats EXCEPT !.retried = @ + 1] ELSE stats
  BY <1>1, <1>3, Counts DEF LoadInv, ClientTypes
<1>9. ClientTypes'
  <2>1. stats' \in Stats
    BY <1>8 DEF Stats
  <2> QED
    BY <1>1, <1>2, <2>1 DEF LoadInv, ClientTypes
<1>10. Stages'
  BY <1>1, <1>2, <1>3, <1>4, <1>7, DrainerIs DEF LoadInv, ClientTypes, Stages
<1>11. Calls'
  <2>1. \A d \in Clients : ~Calling(d)'
    BY <1>1, <1>3 DEF LoadInv, ClientTypes, Calling
  <2> QED
    BY <1>5, <2>1 DEF Calls
<1>12. Contents'
  BY <1>2, <1>3, <1>6, <1>1, <1>8 DEF LoadInv, Contents, Logged
<1>13. AckedCounts'
  <2>1. IsFiniteSet(Settled)
    BY FS_Subset DEF Settled, LoadInv, AckedCounts
  <2>2. CASE pc[c] = "ack"
    <3>1. stats'.acked = stats.acked + 1
      BY <1>8, <2>2 DEF Stats
    <3>2. Cardinality(Settled') = Cardinality(Settled) + 1
      BY <1>3, <1>6, <2>1, <2>2, FS_AddElement
    <3> QED
      BY <1>6, <3>1, <3>2 DEF LoadInv, AckedCounts
  <2>3. CASE pc[c] # "ack"
    <3>1. stats'.acked = stats.acked
      BY <1>8, <2>3 DEF Stats
    <3>2. Settled' = Settled
      BY <1>3, <1>6, <2>3
    <3> QED
      BY <1>6, <3>1, <3>2 DEF LoadInv, AckedCounts
  <2> QED
    BY <2>2, <2>3
<1>14. Deliveries'
  <2>1. /\ IsFiniteSet(Holding') /\ Cardinality(Holding) \in Nat
        /\ Cardinality(Holding') = IF pc[c] = "requeue" THEN Cardinality(Holding)
                                   ELSE Cardinality(Holding) - 1
    BY <1>1, <1>3, HoldingDrops DEF LoadInv, Stages
  <2>2. /\ UNCHANGED <<stats.delivered, stats.crashed, stats.errors>>
        /\ stats'.acked = IF pc[c] = "ack" THEN stats.acked + 1 ELSE stats.acked
        /\ stats'.retried = IF pc[c] = "retry" THEN stats.retried + 1 ELSE stats.retried
    BY <1>8 DEF Stats
  <2>3. /\ stats.delivered \in Nat /\ stats.acked \in Nat /\ stats.retried \in Nat
        /\ stats.crashed \in Nat /\ stats.errors \in Nat
    BY <1>8 DEF Stats
  <2> QED
    BY <1>3, <2>1, <2>2, <2>3 DEF LoadInv, Deliveries
<1>15. Verdicts'
  <2>1. pc'[Drainer] # "exited"
    BY <1>1, <1>7 DEF LoadInv, ClientTypes
  <2> QED
    BY <1>2, <1>7, <2>1 DEF Verdicts
<1>16. InTime'
  <2> SUFFICES ASSUME ~late PROVE InTime'
    BY <1>2 DEF InTime
  <2>1. InPlace(q') /\ Leased'
    BY <1>2, ReturnsKeepPlaces DEF LoadInv, InTime
  <2>2. InPlace(q)' <=> InPlace(q')
    BY DEF InPlace
  <2>3. q'.indexOfInflight = IF pc[c] = "requeue" THEN q.indexOfInflight
                             ELSE q.indexOfInflight \ {task[c]}
    BY <1>2, <1>3, InFlightAfter
  <2>4. \A d \in Clients : task'[d] # None => d # c /\ task'[d] = task[d]
    BY <1>1, <1>8
  <2>5. \A d \in Clients : task[d] # None /\ d # c =>
          task[d] \in q.indexOfInflight \ expired /\ task[d] # task[c]
    BY DEF LoadInv, InTime
  <2>6. \A d \in Clients : task'[d] # None =>
          /\ task'[d] \in q'.indexOfInflight \ expired'
          /\ \A e \in Clients : task'[e] = task'[d] => e = d
    BY <1>5, <2>3, <2>4, <2>5 DEF LoadInv, InTime
  <2> QED
    BY <1>2, <1>5, <2>1, <2>2, <2>6 DEF InTime
<1> QED
  BY <1>9, <1>10, <1>11, <1>12, <1>13, <1>14, <1>15, <1>16 DEF LoadInv

----------------------------------------------------------------------------

\* Every step of the load test preserves the invariant.
LEMMA StepKeepsLoadInv ==
  ASSUME LoadInv, IndInv, [LoadNext]_allVars
  PROVE  LoadInv'
<1>1. [Next]_vars /\ TypeOK
  BY LoadStepIsQueueStep DEF IndInv
<1>2. CASE \E id \in Ids : Produces(id)
  BY <1>2, ProducesKeepsLoadInv
<1>3. CASE Sweeps \/ \E id \in Ids : SweepsTask(id)
  BY <1>3, SweepsKeepLoadInv
<1>4. CASE \E id \in Ids : ClockTicks(id)
  BY <1>4, ClockKeepsLoadInv
<1>5. ASSUME verdict = "none", NEW c \in Clients, ClientStep(c) PROVE LoadInv'
  <2>1. CASE \E id \in Ids : Takes(c, id)
    BY <2>1, TakesKeepsLoadInv
  <2>2. CASE Succeeds(c) \/ Fails(c) \/ Crashes(c)
    BY <1>1, <2>2, HandlesKeepsLoadInv
  <2>3. CASE ConsumerStops(c)
    BY <1>5, <2>3, WindowKeepsLoadInv
  <2> QED
    BY <1>5, <2>1, <2>2, <2>3 DEF ClientStep
<1>6. CASE CallReturns
  BY <1>6, SweeperReturnsKeepsLoadInv, ClientReturnsKeepsLoadInv
<1>7. ASSUME verdict = "none", DrainStep \/ DrainTimesOut PROVE LoadInv'
  <2>1. CASE \E id \in Ids : DrainRequeues(id)
    BY <1>1, <2>1, RequeuesKeepsLoadInv
  <2>2. CASE Judges
    BY <2>2, JudgesKeepsLoadInv
  <2>3. CASE \/ DrainBegins \/ DrainChecks \/ DrainTimesOut
             \/ DrainFindsNothing \/ DrainListsDead \/ DrainLoops
    BY <1>1, <1>7, <2>3, DrainMovesKeepLoadInv
  <2> QED
    BY <1>7, <2>1, <2>2, <2>3 DEF DrainStep
<1>8. CASE verdict = "none" /\ CloseWindow
  BY <1>8, WindowKeepsLoadInv
<1>9. CASE UNCHANGED allVars
  <2>1. UNCHANGED <<vars, stopped, pc, task, applied, stats, snapshot, verdict, timedOut, late>>
    BY <1>9 DEF allVars, clientVars
  <2>2. UNCHANGED <<call, proc, faults>> /\ produced' = produced
    BY <2>1 DEF vars, produced, Produced
  <2>3. ClientTypes' /\ Stages' /\ Verdicts'
    BY <2>1, <2>2 DEF LoadInv, ClientTypes, Stages, Verdicts, Cause
  <2>4. Calls' /\ Contents' /\ AckedCounts' /\ Deliveries' /\ InTime'
    BY <2>1, MovesKeep
  <2> QED
    BY <2>3, <2>4 DEF LoadInv
<1> QED
  BY <1>2, <1>3, <1>4, <1>5, <1>6, <1>7, <1>8, <1>9 DEF LoadNext, TestStep, Reported

\* A load test that starts on an empty queue.
LEMMA InitLoadInv == LoadInit => LoadInv
<1> SUFFICES ASSUME LoadInit PROVE LoadInv
  OBVIOUS
<1>1. Produced = {} /\ Settled = {} /\ Holding = {}
  BY DEF LoadInit, Init, Produced, Settled, Holding
<1>2. ClientTypes
  BY DEF LoadInit, ClientTypes, Stats
<1>3. Stages /\ Calls
  BY DrainerIs DEF LoadInit, Init, Stages, Calls, Calling, Clients
<1>4. Contents
  <2>1. /\ Known(q) = {} /\ \A id \in Ids : q.ready[id] = 0
        /\ \A id \in Ids : q.indexOfIdemKeys[KeyOf[id]] = None
    BY KeyInKeys DEF LoadInit, Init, EmptyMemory, Known
  <2> QED
    BY <1>1, <2>1 DEF LoadInit, Contents
<1>5. AckedCounts /\ Deliveries
  BY <1>1, FS_EmptySet DEF LoadInit, AckedCounts, Deliveries
<1>6. InTime
  BY EmptyInPlace DEF LoadInit, Init, InTime, Leased, Idle
<1>7. Verdicts
  BY DrainerIs DEF LoadInit, Verdicts
<1> QED
  BY <1>2, <1>3, <1>4, <1>5, <1>6, <1>7 DEF LoadInv

\* The inductive invariant of the load test: its counters are tied to what the queue
\* holds, and clients that are in time hold the leases of their tasks.
THEOREM LoadInvariance == LoadSpec => []LoadInv
<1>1. LoadInv /\ IndInv /\ [LoadNext]_allVars => LoadInv'
  BY StepKeepsLoadInv
<1> QED
  BY <1>1, InitLoadInv, LoadKeepsIndInv, PTL DEF LoadSpec

\* The queue and the load test's goroutines keep their types.
THEOREM LoadTypeCorrect == LoadSpec => []LoadTypeOK
<1>1. LoadInv /\ IndInv => LoadTypeOK
  BY DEF LoadInv, IndInv, ClientTypes, LoadTypeOK
<1> QED
  BY <1>1, LoadInvariance, LoadKeepsIndInv, PTL DEF LoadSpec

\* PASS is sound, however late the clients were and whatever Appends failed: acked
\* reaches produced only when every produced task has been acknowledged, its effect has
\* landed, and the queue is empty.
THEOREM PassMeansDone == LoadSpec => []PassIsSound
<1>1. LoadInv /\ IndInv => PassIsSound
  <2> SUFFICES ASSUME LoadInv, IndInv, verdict = "pass"
               PROVE  /\ \A id \in Produced : Acked(id) /\ id \in applied
                      /\ q.index \cup q.dlq = {}
    BY DEF PassIsSound
  <2>1. Known(q) = {} /\ applied = Produced
    BY AckedAtMost DEF LoadInv, Verdicts
  <2>2. Settled = Produced
    BY <2>1 DEF Settled
  <2>3. \A id \in Produced : ~(pend.op = "ack" /\ pend.id = id)
    BY <2>1 DEF IndInv, Held, Known
  <2>4. \A id \in Produced : Acked(id) /\ id \in applied
    BY <2>2, <2>3 DEF LoadInv, Contents, Acked
  <2> QED
    BY <2>1, <2>4 DEF Known
<1> QED
  BY <1>1, LoadInvariance, LoadKeepsIndInv, PTL DEF LoadSpec

\* FAIL is never a false alarm: clients that kept to their leases are disciplined
\* callers, who find every task they Ack, so a drain that was not cut short ends with
\* acked = produced, an empty queue and every effect.
THEOREM FailureHasACause == LoadSpec => []FailHasACause
<1>1. LoadInv => FailHasACause
  BY DEF LoadInv, Verdicts, Cause, FailHasACause
<1> QED
  BY <1>1, LoadInvariance, PTL

\* The redeliveries that buildRecord reports for a passing run are the deliveries that
\* were retried, crashed or refused: no client is left with a task when the drain ends.
THEOREM RedeliveriesAreExact == LoadSpec => []RedeliveriesAddUp
<1>1. LoadInv => RedeliveriesAddUp
  <2> SUFFICES ASSUME LoadInv, verdict = "pass"
               PROVE  Redeliveries = stats.retried + stats.crashed + stats.errors
    BY DEF RedeliveriesAddUp
  <2>1. \A c \in Clients : task[c] = None
    BY DEF LoadInv, Stages, Clients
  <2>2. Holding = {} /\ Cardinality(Holding) = 0
    BY <2>1, FS_EmptySet DEF Holding
  <2>3. stats.acked = produced
    BY DEF LoadInv, Verdicts
  <2>4. /\ stats.delivered \in Nat /\ stats.acked \in Nat /\ stats.retried \in Nat
        /\ stats.crashed \in Nat /\ stats.errors \in Nat
    BY DEF LoadInv, ClientTypes, Stats
  <2> QED
    BY <2>2, <2>3, <2>4 DEF LoadInv, Deliveries, Redeliveries
<1> QED
  BY <1>1, LoadInvariance, PTL
============================================================================
