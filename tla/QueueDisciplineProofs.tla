----------------------- MODULE QueueDisciplineProofs -----------------------
(***************************************************************************)
(* What the queue gives callers that Ack and Retry a task only while they  *)
(* hold its lease: a task is in one place at a time, whatever Enqueue      *)
(* calls race, Appends fail and crashes happen; and, where a failed Append *)
(* writes nothing and nobody races for a key, an acknowledged task is gone *)
(* for good.  LateAck.cfg shows that callers who are late lose both.       *)
(* Last, what any caller has: the log is never behind memory.              *)
(***************************************************************************)
EXTENDS QueueRecoveryProofs

\* OnePlace, for any memory: a live task is in flight or once on the heap, and
\* its Status says which; a dead one is neither.
InPlace(m) ==
  /\ m.indexOfInflight \subseteq m.index
  /\ \A id \in Ids :
       /\ m.ready[id] = IF id \in m.index \ m.indexOfInflight THEN 1 ELSE 0
       /\ id \in m.indexOfInflight <=> m.status[id] = "inflight"
       /\ id \in m.index \ m.indexOfInflight => m.status[id] = "ready"
       /\ id \in m.dlq => m.status[id] = "dead"

\* The empty queue.
LEMMA EmptyInPlace == InPlace(EmptyMemory)
BY DEF InPlace, EmptyMemory

\* A new task enters the heap once.
LEMMA InsertInPlace ==
  ASSUME NEW m \in Memory, InPlace(m), NEW id \in Ids, id \notin Known(m)
  PROVE  InPlace(Insert(m, id))
<1> DEFINE new == Insert(m, id)
<1>1. /\ new.ready = [m.ready EXCEPT ![id] = @ + 1]
      /\ new.index = m.index \cup {id} /\ new.dlq = m.dlq
      /\ new.indexOfInflight = m.indexOfInflight
      /\ new.status = [m.status EXCEPT ![id] = "ready"]
  BY DEF Insert, Memory
<1>2. m.ready \in [Ids -> Nat] /\ m.status \in [Ids -> TaskState]
  BY DEF Memory
<1> HIDE DEF new
<1>3. InPlace(new)
  BY <1>1, <1>2 DEF InPlace, Known
<1> QED
  BY <1>3 DEF new

\* A replayed record leaves each task where its status says.
LEMMA ApplyInPlace ==
  ASSUME NEW m, Sound(m), m.indexOfInflight = {}, InPlace(m), NEW r \in Record,
         r.op = "enqueue" => r.id \notin Known(m)
  PROVE  InPlace(ApplyRecord(m, r))
<1> DEFINE id == r.id
<1>1. id \in Ids /\ r.retries \in Nat /\ m \in Memory /\ m.index \cap m.dlq = {}
  BY DEF Record, Sound
<1>2. /\ m.ready \in [Ids -> Nat] /\ m.status \in [Ids -> TaskState]
      /\ m.index \subseteq Ids /\ m.dlq \subseteq Ids
  BY <1>1 DEF Memory
<1> HIDE DEF id
<1>3. InPlace(Panic(m))
  <2>1. /\ Panic(m).index = m.index /\ Panic(m).dlq = m.dlq
        /\ Panic(m).indexOfInflight = m.indexOfInflight
        /\ Panic(m).ready = m.ready /\ Panic(m).status = m.status
    BY <1>1 DEF Panic, Memory
  <2> QED
    BY <2>1 DEF InPlace
<1>4. r.op = "enqueue" => InPlace(ReplayEnqueue(m, id))
  BY <1>1, InsertInPlace DEF ReplayEnqueue, id
<1>5. DropFromReady(m, id) = IF id \in m.index THEN [m.ready EXCEPT ![id] = 0] ELSE m.ready
  BY <1>1, <1>2 DEF DropFromReady, InPlace
<1>6. InPlace(ReplayAck(m, id))
  <2> DEFINE new == ReplayAck(m, id)
  <2>1. /\ new.index = m.index \ {id} /\ new.dlq = m.dlq /\ new.status = m.status
        /\ new.indexOfInflight = {} /\ new.ready = DropFromReady(m, id)
    BY <1>1 DEF ReplayAck, Memory
  <2> HIDE DEF new
  <2>2. InPlace(new)
    BY <1>1, <1>2, <1>5, <2>1 DEF InPlace
  <2> QED
    BY <2>2 DEF new
<1>7. InPlace(ReplayRetry(m, id))
  <2> DEFINE new == ReplayRetry(m, id)
  <2>1. CASE id \in m.index
    <3>1. /\ new.index = m.index /\ new.dlq = m.dlq /\ new.indexOfInflight = {}
          /\ new.status = [m.status EXCEPT ![id] = "ready"] /\ new.ready = m.ready
      BY <1>1, <2>1 DEF ReplayRetry, Memory
    <3> HIDE DEF new
    <3>2. InPlace(new)
      BY <1>1, <1>2, <2>1, <3>1 DEF InPlace
    <3> QED
      BY <3>2 DEF new
  <2> QED
    BY <1>3, <2>1 DEF ReplayRetry
<1>8. InPlace(ReplayDead(m, id, r.retries))
  <2> DEFINE new == ReplayDead(m, id, r.retries)
  <2>1. CASE id \in m.index
    <3>1. /\ new.index = m.index \ {id} /\ new.dlq = m.dlq \cup {id}
          /\ new.indexOfInflight = {} /\ new.ready = DropFromReady(m, id)
          /\ new.status = [m.status EXCEPT ![id] = "dead"]
      BY <1>1, <2>1 DEF ReplayDead, Memory
    <3> HIDE DEF new
    <3>2. InPlace(new)
      BY <1>1, <1>2, <1>5, <2>1, <3>1 DEF InPlace
    <3> QED
      BY <3>2 DEF new
  <2> QED
    BY <1>3, <2>1 DEF ReplayDead
<1>9. InPlace(ReplayRequeue(m, id))
  <2> DEFINE new == ReplayRequeue(m, id)
  <2>1. CASE id \in m.dlq
    <3>1. /\ new.index = m.index \cup {id} /\ new.dlq = m.dlq \ {id}
          /\ new.indexOfInflight = {} /\ new.ready = [m.ready EXCEPT ![id] = @ + 1]
          /\ new.status = [m.status EXCEPT ![id] = "ready"]
      BY <1>1, <2>1 DEF ReplayRequeue, Memory
    <3> HIDE DEF new
    <3>2. InPlace(new)
      BY <1>1, <1>2, <2>1, <3>1 DEF InPlace
    <3> QED
      BY <3>2 DEF new
  <2> QED
    BY <1>3, <2>1 DEF ReplayRequeue
<1>10. InPlace(ReplayPurge(m, id))
  <2> DEFINE new == ReplayPurge(m, id)
  <2>1. /\ new.index = m.index /\ new.dlq = m.dlq \ {id} /\ new.status = m.status
        /\ new.indexOfInflight = {} /\ new.ready = m.ready
    BY <1>1 DEF ReplayPurge, Memory
  <2> HIDE DEF new
  <2>2. InPlace(new)
    BY <2>1 DEF InPlace
  <2> QED
    BY <2>2 DEF new
<1> QED
  BY <1>4, <1>6, <1>7, <1>8, <1>9, <1>10, Zenon DEF ApplyRecord, id

\* Returning leaves each task where its status says, if the task of an Ack or a
\* Retry was leased.
LEMMA AfterInPlace ==
  ASSUME NEW m \in Memory, InPlace(m), m.index \cap m.dlq = {},
         NEW r \in Record, r.op # "enqueue",
         r.op \in {"ack", "retry", "dead"} => r.id \in m.indexOfInflight,
         r.op \in {"requeue", "purge"} => r.id \in m.dlq
  PROVE  /\ InPlace(After(m, r))
         /\ After(m, r).indexOfInflight = IF r.op \in {"ack", "retry", "dead"}
                                          THEN m.indexOfInflight \ {r.id}
                                          ELSE m.indexOfInflight
<1> DEFINE id == r.id
           new == After(m, r)
<1>1. /\ id \in Ids /\ r.op \in {"ack", "retry", "dead", "requeue", "purge"}
      /\ m.ready \in [Ids -> Nat] /\ m.status \in [Ids -> TaskState]
      /\ m.index \subseteq Ids /\ m.dlq \subseteq Ids
  BY DEF Record, Operations, Memory
<1>2. CASE r.op = "ack"
  <2>1. /\ new.index = m.index \ {id} /\ new.dlq = m.dlq /\ new.ready = m.ready
        /\ new.indexOfInflight = m.indexOfInflight \ {id}
        /\ new.status = [m.status EXCEPT ![id] = "done"]
    BY <1>2 DEF After, AckEffect, Memory
  <2> HIDE DEF new, id
  <2>2. id \in m.indexOfInflight
    BY <1>2 DEF id
  <2>3. InPlace(new)
    BY <1>1, <2>1, <2>2 DEF InPlace
  <2> QED
    BY <1>2, <2>1, <2>3 DEF new, id
<1>3. CASE r.op = "retry"
  <2>1. /\ new.index = m.index /\ new.dlq = m.dlq
        /\ new.ready = [m.ready EXCEPT ![id] = @ + 1]
        /\ new.indexOfInflight = m.indexOfInflight \ {id}
        /\ new.status = [m.status EXCEPT ![id] = "ready"]
    <3>1. new = RetryEffect(m, id)
      BY <1>3 DEF After
    <3> QED
      BY <3>1 DEF RetryEffect, Memory
  <2> HIDE DEF new, id
  <2>2. id \in m.indexOfInflight
    BY <1>3 DEF id
  <2>3. InPlace(new)
    BY <1>1, <2>1, <2>2 DEF InPlace
  <2> QED
    BY <1>3, <2>1, <2>3 DEF new, id
<1>4. CASE r.op = "dead"
  <2>1. /\ new.index = m.index \ {id} /\ new.dlq = m.dlq \cup {id} /\ new.ready = m.ready
        /\ new.indexOfInflight = m.indexOfInflight \ {id}
        /\ new.status = [m.status EXCEPT ![id] = "dead"]
    <3>1. new = DeadEffect(m, id)
      BY <1>4 DEF After
    <3> QED
      BY <3>1 DEF DeadEffect, Memory
  <2> HIDE DEF new, id
  <2>2. id \in m.indexOfInflight
    BY <1>4 DEF id
  <2>3. InPlace(new)
    BY <1>1, <2>1, <2>2 DEF InPlace
  <2> QED
    BY <1>4, <2>1, <2>3 DEF new, id
<1>5. CASE r.op = "requeue"
  <2>1. /\ new.index = m.index \cup {id} /\ new.dlq = m.dlq \ {id}
        /\ new.ready = [m.ready EXCEPT ![id] = @ + 1]
        /\ new.indexOfInflight = m.indexOfInflight
        /\ new.status = [m.status EXCEPT ![id] = "ready"]
    <3>1. new = RequeueEffect(m, id)
      BY <1>5 DEF After
    <3> QED
      BY <3>1 DEF RequeueEffect, Memory
  <2> HIDE DEF new, id
  <2>2. id \in m.dlq
    BY <1>5 DEF id
  <2>3. InPlace(new)
    BY <1>1, <2>1, <2>2 DEF InPlace
  <2> QED
    BY <1>5, <2>1, <2>3 DEF new, id
<1>6. CASE r.op = "purge"
  <2>1. /\ new.index = m.index /\ new.dlq = m.dlq \ {id} /\ new.ready = m.ready
        /\ new.indexOfInflight = m.indexOfInflight /\ new.status = m.status
    <3>1. new = PurgeEffect(m, id)
      BY <1>6 DEF After
    <3> QED
      BY <3>1 DEF PurgeEffect, Memory
  <2> HIDE DEF new, id
  <2>2. InPlace(new)
    BY <2>1 DEF InPlace
  <2> QED
    BY <1>6, <2>1, <2>2 DEF new, id
<1> QED
  BY <1>1, <1>2, <1>3, <1>4, <1>5, <1>6

----------------------------------------------------------------------------

\* The task of an Ack, a Retry or a sweep in progress is leased, and so is every
\* task the sweeper has yet to visit.
Leased ==
  /\ pend.op \in {"ack", "retry", "dead"} => pend.id \in q.indexOfInflight
  /\ mu = "sweeper" => todo \subseteq q.indexOfInflight

\* The inductive invariant of disciplined callers, on top of IndInv.
DiscInv == InPlace(q) /\ InPlace(Replay(log)) /\ Leased

\* What a step can add to the log.
LEMMA LogStep ==
  ASSUME IndInv, [Next]_vars
  PROVE  \/ log' = log
         \/ \E r \in Record : /\ log' = Append(log, r)
                              /\ r.op = "enqueue" => r.id \notin Known(Replay(log))
<1>0. TypeOK
  BY DEF IndInv
<1>1. ASSUME NEW id \in Ids, EnqueueStep(id), log' # log
      PROVE  \E r \in Record : /\ log' = Append(log, r)
                               /\ r.op = "enqueue" => r.id \notin Known(Replay(log))
  <2> DEFINE r == EncodeRecord("enqueue", id)
  <2>1. r \in Record /\ r.id = id
    BY EncodedRecord DEF Operations
  <2>2. log' = Append(log, r) /\ call[id] = "append"
    BY <1>1 DEF EnqueueStep, EnqueueDedup, EnqueueBegin, EnqueueAppend, EnqueueFails,
                EnqueueCommit, AfterFault
  <2>3. id \notin Known(Replay(log))
    BY <2>2 DEF IndInv, LogSound
  <2> HIDE DEF r
  <2> QED
    BY <2>1, <2>2, <2>3
<1>2. ASSUME NEW op \in {"ack", "requeue", "purge"}, NEW id \in Ids
      PROVE  EncodeRecord(op, id) \in Record /\ EncodeRecord(op, id).op # "enqueue"
  BY EncodedRecord DEF Operations
<1>3. \A id \in Ids : RetryRecord(id) \in Record /\ RetryRecord(id).op # "enqueue"
  BY <1>0, RetryRecordIs
<1>4. ASSUME NEW r \in Record, r.op # "enqueue", log' \in {log, Append(log, r)}
      PROVE  \/ log' = log
             \/ \E s \in Record : /\ log' = Append(log, s)
                                  /\ s.op = "enqueue" => s.id \notin Known(Replay(log))
  BY <1>4
<1>5. ASSUME NEW id \in Ids, CallerStep(id), log' # log
      PROVE  \E r \in Record : /\ r.op # "enqueue" /\ log' \in {log, Append(log, r)}
  <2>1. CASE Dequeue(id)
    BY <1>5, <2>1 DEF Dequeue
  <2>2. CASE Ack(id)
    BY <1>2, <2>2 DEF Ack, CallerAppends, AfterFault
  <2>3. CASE Retry(id)
    BY <1>3, <2>3 DEF Retry, CallerAppends, AfterFault
  <2>4. CASE RequeueDead(id)
    BY <1>2, <2>4 DEF RequeueDead, CallerAppends, AfterFault
  <2>5. CASE PurgeDeadTask(id)
    BY <1>2, <2>5 DEF PurgeDeadTask, CallerAppends, AfterFault
  <2> QED
    BY <1>5, <2>1, <2>2, <2>3, <2>4, <2>5 DEF CallerStep
<1>6. ASSUME NEW id \in Ids, SweepVisit(id), log' # log
      PROVE  \E r \in Record : /\ r.op # "enqueue" /\ log' \in {log, Append(log, r)}
  BY <1>3, <1>6 DEF SweepVisit, SweepKeep, SweepRetry, SweepAbort, AfterFault
<1>7. Returns => log' = log
  BY ReturnsApply
<1>8. SweepBegin \/ SweepEnd \/ Crash \/ NewQueue \/ UNCHANGED vars
      \/ (\E id \in Ids : TimePasses(id)) => log' = log
  BY DEF SweepBegin, SweepEnd, Crash, NewQueue, vars, TimePasses, LeaseExpires, BackoffElapses
<1> QED
  BY <1>1, <1>4, <1>5, <1>6, <1>7, <1>8 DEF Next

\* Whatever is appended, a replay of the log puts each task in one place.
LEMMA LogInPlace ==
  ASSUME IndInv, InPlace(Replay(log)), [Next]_vars
  PROVE  InPlace(Replay(log))'
<1>1. CASE log' = log
  BY <1>1
<1>2. ASSUME NEW r \in Record, log' = Append(log, r),
             r.op = "enqueue" => r.id \notin Known(Replay(log))
      PROVE  InPlace(Replay(log))'
  <2>1. Replay(log') = ApplyRecord(Replay(log), r)
    BY <1>2, LogGrows
  <2>2. Sound(Replay(log)) /\ Replay(log).indexOfInflight = {}
    BY DEF IndInv, LogSound
  <2>3. InPlace(ApplyRecord(Replay(log), r))
    BY <1>2, <2>2, ApplyInPlace
  <2>4. InPlace(Replay(log))' <=> InPlace(Replay(log'))
    BY DEF InPlace
  <2> QED
    BY <2>1, <2>3, <2>4
<1> QED
  BY <1>1, <1>2, LogStep

----------------------------------------------------------------------------

\* The steps that leave the heap, the in-flight map, the DLQ and the operation in
\* progress as they are.
LEMMA QuietKeepsPlaces ==
  ASSUME InPlace(q), Leased, UNCHANGED <<q, pend, mu, todo>>
  PROVE  InPlace(q') /\ Leased'
BY DEF Leased

\* Enqueue puts a task nobody knows on the heap.
LEMMA EnqueueKeepsPlaces ==
  ASSUME IndInv, InPlace(q), Leased, NEW id \in Ids, EnqueueStep(id)
  PROVE  InPlace(q') /\ Leased'
<1>1. CASE UNCHANGED <<q, pend, mu, todo>>
  BY <1>1, QuietKeepsPlaces
<1>2. CASE q' # q
  <2>1. /\ Unlocked /\ call[id] = "commit" /\ q' = Insert(q, id)
        /\ UNCHANGED <<mu, pend, todo>>
    BY <1>2 DEF EnqueueStep, EnqueueDedup, EnqueueBegin, EnqueueAppend, EnqueueFails,
                EnqueueCommit
  <2>2. q \in Memory /\ id \notin Known(q) /\ mu = "free" /\ pend = Idle
    BY <2>1 DEF IndInv, TypeOK, Fresh, Held, Unlocked
  <2>3. InPlace(q')
    BY <2>1, <2>2, InsertInPlace
  <2>4. Leased'
    BY <2>1, <2>2 DEF Leased, Idle
  <2> QED
    BY <2>3, <2>4
<1> QED
  BY <1>1, <1>2 DEF EnqueueStep, EnqueueDedup, EnqueueBegin, EnqueueAppend, EnqueueFails,
                    EnqueueCommit

\* Dequeue moves a task from the heap to the in-flight map.
LEMMA DequeueKeepsPlaces ==
  ASSUME IndInv, InPlace(q), Leased, NEW id \in Ids, Dequeue(id)
  PROVE  InPlace(q') /\ Leased'
<1>1. /\ q \in Memory /\ pend = Idle /\ mu = "free" /\ q.ready[id] > 0
      /\ q' = DequeueEffect(q, id) /\ UNCHANGED <<mu, pend, todo>> /\ q.index \cap q.dlq = {}
  BY DEF Dequeue, Unlocked, IndInv, Held, TypeOK, Sound
<1>2. /\ q'.index = q.index /\ q'.dlq = q.dlq
      /\ q'.ready = [q.ready EXCEPT ![id] = @ - 1]
      /\ q'.status = [q.status EXCEPT ![id] = "inflight"]
      /\ q'.indexOfInflight = q.indexOfInflight \cup {id}
  BY <1>1 DEF DequeueEffect, Memory
<1>3. q.ready \in [Ids -> Nat] /\ q.status \in [Ids -> TaskState]
  BY <1>1 DEF Memory
<1>4. id \in q.index \ q.indexOfInflight /\ q.ready[id] = 1
  BY <1>1 DEF InPlace
<1>5. InPlace(q')
  BY <1>1, <1>2, <1>3, <1>4 DEF InPlace
<1>6. Leased'
  BY <1>1 DEF Leased, Idle
<1> QED
  BY <1>5, <1>6

\* An Append by a disciplined caller finds its task leased; if it fails, nothing
\* in memory has changed.
LEMMA CallerKeepsPlaces ==
  ASSUME IndInv, InPlace(q), Leased, Disciplined, NEW id \in Ids, CallerStep(id)
  PROVE  InPlace(q') /\ Leased'
<1>1. ASSUME NEW r, CallerAppends(r),
             r.op \in {"ack", "retry", "dead"} => r.id \in q.indexOfInflight
      PROVE  InPlace(q') /\ Leased'
  <2>1. q' = q /\ Unlocked /\ todo' = todo
    BY <1>1 DEF CallerAppends
  <2>2. (pend' = r /\ mu' = "caller") \/ UNCHANGED <<pend, mu>>
    BY <1>1 DEF CallerAppends
  <2>3. Leased'
    BY <1>1, <2>1, <2>2 DEF Leased
  <2> QED
    BY <2>1, <2>3
<1>2. CASE Ack(id)
  <2> DEFINE r == EncodeRecord("ack", id)
  <2>1. CallerAppends(r) /\ r.id = id /\ id \in q.indexOfInflight
    BY <1>2 DEF Ack, MayCall, EncodeRecord
  <2> HIDE DEF r
  <2> QED
    BY <1>1, <2>1
<1>3. CASE Retry(id)
  <2> DEFINE r == RetryRecord(id)
  <2>1. CallerAppends(r) /\ r.id = id /\ id \in q.indexOfInflight
    BY <1>3, RetryRecordIs DEF Retry, MayCall, IndInv
  <2> HIDE DEF r
  <2> QED
    BY <1>1, <2>1
<1>4. CASE RequeueDead(id) \/ PurgeDeadTask(id)
  <2>1. PICK op \in {"requeue", "purge"} : CallerAppends(EncodeRecord(op, id))
    BY <1>4 DEF RequeueDead, PurgeDeadTask
  <2> DEFINE r == EncodeRecord(op, id)
  <2>2. CallerAppends(r) /\ r.op \notin {"ack", "retry", "dead"}
    BY <2>1 DEF EncodeRecord
  <2> HIDE DEF r
  <2> QED
    BY <1>1, <2>2
<1> QED
  BY <1>2, <1>3, <1>4, DequeueKeepsPlaces DEF CallerStep

\* Returning takes the leased task where its new status says, and off the list of
\* those the sweeper has yet to visit.
LEMMA ReturnsKeepPlaces ==
  ASSUME IndInv, InPlace(q), Leased, Returns
  PROVE  InPlace(q') /\ Leased'
<1>1. /\ q' = After(q, pend) /\ pend' = Idle /\ pend \in Record
      /\ pend.op \in {"ack", "retry", "dead", "requeue", "purge"}
  BY ReturnsApply
<1>2. todo' = todo \ {pend.id} /\ (mu' = "sweeper" => mu = "sweeper")
  BY DEF Returns, AckReturns, RetryReturns, DeadReturns, RequeueReturns, PurgeReturns, Release
<1>3. /\ q \in Memory /\ q.index \cap q.dlq = {}
      /\ pend.op \in {"ack", "retry", "dead"} => pend.id \in q.indexOfInflight
      /\ pend.op \in {"requeue", "purge"} => pend.id \in q.dlq
  BY DEF IndInv, TypeOK, Sound, Held, Leased
<1>4. /\ InPlace(q')
      /\ q'.indexOfInflight = IF pend.op \in {"ack", "retry", "dead"}
                              THEN q.indexOfInflight \ {pend.id} ELSE q.indexOfInflight
  <2>1. pend.op # "enqueue"
    BY <1>1
  <2> QED
    BY <1>1, <1>3, <2>1, AfterInPlace
<1>5. Leased'
  BY <1>1, <1>2, <1>4 DEF Leased, Idle
<1> QED
  BY <1>4, <1>5

\* The sweeper visits what was in flight when its pass began and is so still.
LEMMA SweepKeepsPlaces ==
  ASSUME IndInv, InPlace(q), Leased,
         SweepBegin \/ SweepEnd \/ \E id \in Ids : SweepVisit(id)
  PROVE  InPlace(q') /\ Leased'
<1>1. q' = q
  BY DEF SweepBegin, SweepEnd, SweepVisit, SweepKeep, SweepRetry, SweepAbort
<1>2. CASE SweepBegin \/ SweepEnd
  BY <1>1, <1>2 DEF SweepBegin, SweepEnd, Leased
<1>3. ASSUME NEW id \in Ids, SweepVisit(id) PROVE Leased'
  <2>1. CASE SweepKeep(id) \/ SweepAbort(id)
    BY <1>1, <2>1 DEF SweepKeep, SweepAbort, Leased
  <2>2. CASE SweepRetry(id)
    <3>1. id \in q.indexOfInflight /\ UNCHANGED <<mu, todo>> /\ pend' = RetryRecord(id)
      BY <2>2 DEF SweepRetry, Sweeping, Leased
    <3>2. RetryRecord(id).id = id
      BY RetryRecordIs DEF IndInv
    <3> QED
      BY <1>1, <3>1, <3>2 DEF Leased
  <2> QED
    BY <1>3, <2>1, <2>2 DEF SweepVisit
<1> QED
  BY <1>1, <1>2, <1>3

\* Every step of a queue with disciplined callers keeps each task in its place.
LEMMA StepKeepsPlaces ==
  ASSUME IndInv, DiscInv, Disciplined, [Next]_vars
  PROVE  InPlace(q') /\ Leased'
<1>1. InPlace(q) /\ Leased /\ InPlace(Replay(log))
  BY DEF DiscInv
<1>2. CASE \E id \in Ids : TimePasses(id)
  BY <1>1, <1>2, QuietKeepsPlaces DEF TimePasses, LeaseExpires, BackoffElapses
<1>3. CASE Crash
  BY <1>3, EmptyInPlace DEF Crash, Leased, Idle
<1>4. CASE NewQueue
  <2>1. (q' = q \/ q' = Replay(log)) /\ UNCHANGED <<pend, mu, todo>> /\ proc # "up"
    BY <1>4 DEF NewQueue
  <2>2. mu = "free" /\ pend = Idle
    BY <2>1 DEF IndInv, Held
  <2>3. Leased'
    BY <2>1, <2>2 DEF Leased, Idle
  <2> QED
    BY <1>1, <2>1, <2>3
<1>5. CASE UNCHANGED vars
  BY <1>1, <1>5, QuietKeepsPlaces DEF vars
<1> QED
  BY <1>1, <1>2, <1>3, <1>4, <1>5, EnqueueKeepsPlaces, CallerKeepsPlaces, ReturnsKeepPlaces,
     SweepKeepsPlaces DEF Next

\* The inductive invariant of disciplined callers, with failed Appends, Enqueue
\* calls racing for a key, and crashes.
THEOREM DisciplineInvariance == ASSUME Disciplined PROVE Spec => []DiscInv
<1>1. Init => DiscInv
  BY EmptyInPlace, ReplayEmpty DEF Init, DiscInv, Leased, Idle
<1>2. IndInv /\ DiscInv /\ [Next]_vars => DiscInv'
  <2> SUFFICES ASSUME IndInv, DiscInv, [Next]_vars PROVE DiscInv'
    OBVIOUS
  <2>1. InPlace(Replay(log))'
    BY LogInPlace DEF DiscInv
  <2>2. InPlace(q') /\ Leased'
    BY StepKeepsPlaces
  <2>3. InPlace(q)' <=> InPlace(q')
    BY DEF InPlace
  <2> QED
    BY <2>1, <2>2, <2>3 DEF DiscInv
<1> QED
  BY <1>1, <1>2, Invariance, PTL DEF Spec

\* While callers keep to their leases a task is once on the heap, or in flight, or
\* in the DLQ: no two workers hold one task, however Enqueue calls race, Appends
\* fail and the process crashes.
THEOREM EachTaskIsInOnePlace == ASSUME Disciplined PROVE Spec => []OnePlace
<1>1. IndInv /\ DiscInv => OnePlace
  <2> SUFFICES ASSUME IndInv, DiscInv, NEW id \in Ids
               PROVE  LET places == q.ready[id]
                                      + (IF id \in q.indexOfInflight THEN 1 ELSE 0)
                                      + (IF id \in q.dlq THEN 1 ELSE 0)
                      IN  /\ places = IF id \in q.index \cup q.dlq THEN 1 ELSE 0
                          /\ id \in q.dlq <=> q.status[id] = "dead" /\ places = 1
                          /\ id \in q.indexOfInflight <=> q.status[id] = "inflight"
                          /\ q.ready[id] > 0 <=> q.status[id] = "ready" /\ id \in q.index
    BY DEF OnePlace
  <2>1. q.index \cap q.dlq = {} /\ InPlace(q)
    BY DEF IndInv, Sound, DiscInv
  <2>2. /\ q.indexOfInflight \subseteq q.index
        /\ q.ready[id] = IF id \in q.index \ q.indexOfInflight THEN 1 ELSE 0
        /\ id \in q.indexOfInflight <=> q.status[id] = "inflight"
        /\ id \in q.index \ q.indexOfInflight => q.status[id] = "ready"
        /\ id \in q.dlq => q.status[id] = "dead"
    BY <2>1 DEF InPlace
  <2> QED
    BY <2>1, <2>2
<1> QED
  BY <1>1, Invariance, DisciplineInvariance, PTL

----------------------------------------------------------------------------

\* A dead task that is being purged was not acknowledged, and a process that is not
\* up knows no task.
AckInv ==
  /\ pend.op = "purge" => ~Logged("ack", pend.id)
  /\ proc # "up" => Known(q) = {}

\* While nobody holds the mutex across an Append, memory knows no task with an ACK
\* in the log.
LEMMA IdleAckedUnknown ==
  ASSUME IndInv, RecInv, History, proc = "up", pend = Idle
  PROVE  \A id \in Ids : Logged("ack", id) => id \notin Known(q)
<1>1. Agrees(Replay(log), q, Committing)
  BY AfterIdle DEF RecInv
<1> QED
  BY <1>1 DEF Agrees, Known, History

\* The steps of Enqueue log no ACK and touch no operation in progress.
LEMMA EnqueueKeepsAckInv ==
  ASSUME IndInv, AckInv, NEW id \in Ids, EnqueueStep(id)
  PROVE  AckInv'
<1>1. proc = "up" /\ proc' = "up" /\ pend' = pend
  BY DEF EnqueueStep, EnqueueDedup, EnqueueBegin, EnqueueAppend, EnqueueFails,
         EnqueueCommit, Unlocked
<1>2. CASE log' = log
  BY <1>1, <1>2 DEF AckInv, Logged
<1>3. CASE log' # log
  <2> DEFINE r == EncodeRecord("enqueue", id)
  <2>1. r \in Record /\ r.op = "enqueue" /\ log \in Seq(Record)
    BY EncodedRecord DEF Operations, IndInv, TypeOK
  <2>2. log' = Append(log, r)
    BY <1>3 DEF EnqueueStep, EnqueueDedup, EnqueueBegin, EnqueueAppend, EnqueueFails,
                EnqueueCommit, AfterFault
  <2> HIDE DEF r
  <2>3. \A task : Logged("ack", task)' <=> Logged("ack", task)
    BY <2>1, <2>2, LoggedAppend
  <2> QED
    BY <1>1, <2>3 DEF AckInv
<1> QED
  BY <1>2, <1>3

\* The step in which a PURGE is logged finds its task dead, hence not acknowledged.
LEMMA RecordKeepsAckInv ==
  ASSUME IndInv, RecInv, History, NEW r \in Record, HolderAppends(r)
  PROVE  AckInv'
<1>1. proc = "up" /\ proc' = "up" /\ pend = Idle /\ pend' = r /\ log' = Append(log, r)
  BY DEF HolderAppends
<1>2. r.op = "purge" => ~Logged("ack", r.id)
  BY <1>1, IdleAckedUnknown DEF HolderAppends, Known, Record
<1>3. \A task : Logged("ack", task)' <=> Logged("ack", task) \/ (r.op = "ack" /\ r.id = task)
  BY <1>1, LoggedAppend DEF IndInv, TypeOK
<1> QED
  BY <1>1, <1>2, <1>3 DEF AckInv

\* AckInv is invariant.
LEMMA AckInvariance == ASSUME Benign PROVE Spec => []AckInv
<1>1. Init => AckInv
  BY DEF Init, AckInv, Idle
<1>2. IndInv /\ RecInv /\ History /\ AckInv /\ [Next]_vars => AckInv'
  <2> SUFFICES ASSUME IndInv, RecInv, History, AckInv, [Next]_vars PROVE AckInv'
    OBVIOUS
  <2>1. CASE Returns
    BY <2>1, ReturnsApply DEF AckInv, Idle
  <2>2. CASE \E id \in Ids : Dequeue(id)
    BY <2>2, DequeueFields DEF AckInv, Logged
  <2>3. CASE Crash
    BY <2>3 DEF Crash, AckInv, Idle, EmptyMemory, Known
  <2>4. CASE NewQueue
    BY <2>4 DEF NewQueue, AckInv, Logged
  <2>5. CASE NothingRecorded
    BY <2>5 DEF NothingRecorded, AckInv, Logged
  <2> QED
    BY <2>1, <2>2, <2>3, <2>4, <2>5, StepKinds, EnqueueKeepsAckInv, RecordKeepsAckInv
<1> QED
  BY <1>1, <1>2, Invariance, RecoveryInvariance, AccountsInvariance, PTL DEF Spec

\* A task whose Ack returned nil is unknown to memory.
LEMMA AckedUnknown ==
  ASSUME IndInv, RecInv, History, AckInv, NEW id \in Ids, Acked(id)
  PROVE  id \notin Known(q)
<1>1. Logged("ack", id) /\ ~(pend.op = "ack" /\ pend.id = id)
  BY DEF Acked
<1>2. CASE proc # "up"
  BY <1>2 DEF AckInv
<1>3. CASE proc = "up" /\ pend = Idle
  BY <1>1, <1>3, IdleAckedUnknown
<1>4. CASE proc = "up" /\ pend # Idle
  <2> DEFINE new == After(q, pend)
  <2>1. q \in Memory /\ pend \in Record
    BY <1>4 DEF IndInv, TypeOK
  <2>2. id \notin new.index /\ id \notin new.dlq
    BY <1>1, <1>4 DEF RecInv, Agrees, History, Known
  <2>3. CASE pend.op = "enqueue"
    BY <2>2, <2>3 DEF After, Known
  <2>4. CASE pend.op # "enqueue"
    <3>1. /\ new.index = IF pend.op \in {"ack", "dead"} THEN q.index \ {pend.id}
                         ELSE IF pend.op = "requeue" THEN q.index \cup {pend.id}
                         ELSE q.index
          /\ new.dlq = IF pend.op = "dead" THEN q.dlq \cup {pend.id}
                       ELSE IF pend.op \in {"requeue", "purge"} THEN q.dlq \ {pend.id}
                       ELSE q.dlq
      BY <2>1, <2>4, AfterFields
    <3>2. pend.op = "purge" => pend.id # id
      BY <1>1 DEF AckInv
    <3> HIDE DEF new
    <3> QED
      BY <1>1, <2>2, <3>1, <3>2 DEF Known
  <2> QED
    BY <2>3, <2>4
<1> QED
  BY <1>2, <1>3, <1>4

\* A task whose Ack returned nil is not live, not on the heap, not in flight and
\* not dead, and no crash and replay brings it back.
THEOREM AckedTasksAreGone ==
  ASSUME Disciplined, Benign PROVE Spec => []AckedIsGone
<1>1. IndInv /\ RecInv /\ History /\ AckInv /\ DiscInv => AckedIsGone
  <2> SUFFICES ASSUME IndInv, RecInv, History, AckInv, DiscInv, NEW id \in Ids, Acked(id)
               PROVE  /\ id \notin q.index \cup q.indexOfInflight \cup q.dlq
                      /\ q.ready[id] = 0
    BY DEF AckedIsGone
  <2>1. id \notin Known(q)
    BY AckedUnknown
  <2> QED
    BY <2>1 DEF DiscInv, InPlace, Known
<1> QED
  BY <1>1, Invariance, RecoveryInvariance, AccountsInvariance, AckInvariance,
     DisciplineInvariance, PTL

\* No step of Dequeue hands out a task whose Ack returned nil.
THEOREM AckedTasksAreNotRedelivered ==
  ASSUME Disciplined, Benign PROVE Spec => AckedNotRedelivered
<1>1. AckedIsGone => [\A id \in Ids : Acked(id) => ~Dequeue(id)]_vars
  BY DEF AckedIsGone, Dequeue
<1> QED
  BY <1>1, AckedTasksAreGone, PTL DEF AckedNotRedelivered

----------------------------------------------------------------------------
\* The log is written ahead of memory, whatever the callers do, whichever
\* Enqueue calls race, whatever a failed Append leaves in the log and whenever
\* the process crashes.

\* The log l holds a record op of the task.
InLog(l, op, id) == \E n \in 1..Len(l) : l[n].op = op /\ l[n].id = id

\* The records of l account for what the memory m says of the task.
TaskBacked(m, l, id) ==
  /\ id \in Known(m) => InLog(l, "enqueue", id)
  /\ m.status[id] = "dead" => InLog(l, "dead", id)
  /\ m.status[id] = "done" => InLog(l, "ack", id)
  /\ m.retries[id] > 0 => InLog(l, "retry", id) \/ InLog(l, "dead", id)

\* They account for every task, and for the owner of every idempotency key.
Backed(m, l) ==
  /\ \A id \in Ids : TaskBacked(m, l, id)
  /\ \A k \in Keys :
       m.indexOfIdemKeys[k] # None => InLog(l, "enqueue", m.indexOfIdemKeys[k])

\* A longer log holds one record more.
LEMMA InLogAppend ==
  ASSUME NEW l \in Seq(Record), NEW r \in Record
  PROVE  /\ \A op, id : InLog(l, op, id) => InLog(Append(l, r), op, id)
         /\ InLog(Append(l, r), r.op, r.id)
<1> DEFINE new == Append(l, r)
<1>1. /\ Len(new) = Len(l) + 1 /\ new[Len(l) + 1] = r /\ Len(l) \in Nat
      /\ \A n \in 1..Len(l) : new[n] = l[n]
  OBVIOUS
<1> HIDE DEF new
<1>2. 1..Len(l) \subseteq 1..Len(new) /\ Len(l) + 1 \in 1..Len(new)
  BY <1>1
<1>3. /\ \A op, id : InLog(l, op, id) => InLog(new, op, id)
      /\ InLog(new, r.op, r.id)
  BY <1>1, <1>2 DEF InLog
<1> QED
  BY <1>3 DEF new

\* What a log accounts for, one that holds its records does too.
LEMMA BackedGrows ==
  ASSUME NEW m, NEW l, NEW l2, Backed(m, l),
         \A op, id : InLog(l, op, id) => InLog(l2, op, id)
  PROVE  Backed(m, l2)
BY DEF Backed, TaskBacked

\* The empty queue needs no record.
LEMMA EmptyBacked == ASSUME NEW l PROVE Backed(EmptyMemory, l)
BY DEF Backed, TaskBacked, EmptyMemory, Known

\* A change of one task that its records account for, and that gives no key to
\* another task.
LEMMA BackedChange ==
  ASSUME NEW m, NEW new, NEW l, NEW id \in Ids, Backed(m, l), TaskBacked(new, l, id),
         \A other \in Ids \ {id} :
           /\ other \in Known(new) => other \in Known(m)
           /\ new.status[other] = m.status[other]
           /\ new.retries[other] = m.retries[other],
         \A k \in Keys : \/ new.indexOfIdemKeys[k] = m.indexOfIdemKeys[k]
                         \/ new.indexOfIdemKeys[k] = id /\ InLog(l, "enqueue", id)
  PROVE  Backed(new, l)
<1>1. ASSUME NEW other \in Ids PROVE TaskBacked(new, l, other)
  BY <1>1 DEF Backed, TaskBacked
<1>2. ASSUME NEW k \in Keys, new.indexOfIdemKeys[k] # None
      PROVE  InLog(l, "enqueue", new.indexOfIdemKeys[k])
  BY <1>2 DEF Backed
<1> QED
  BY <1>1, <1>2 DEF Backed

\* A task enters memory after its ENQUEUE record entered the log.
LEMMA InsertBacked ==
  ASSUME NEW m \in Memory, NEW l, Backed(m, l), NEW id \in Ids, InLog(l, "enqueue", id)
  PROVE  Backed(Insert(m, id), l)
<1> DEFINE new == Insert(m, id)
<1>1. /\ new.index = m.index \cup {id} /\ new.dlq = m.dlq
      /\ new.retries = [m.retries EXCEPT ![id] = 0]
      /\ new.status = [m.status EXCEPT ![id] = "ready"]
      /\ new.indexOfIdemKeys = [m.indexOfIdemKeys EXCEPT ![KeyOf[id]] = id]
  BY DEF Insert, Memory
<1>2. /\ m.retries \in [Ids -> Nat] /\ m.status \in [Ids -> TaskState]
      /\ m.indexOfIdemKeys \in [Keys -> Ids \cup {None}] /\ KeyOf[id] \in Keys
  BY KeyInKeys DEF Memory
<1> HIDE DEF new
<1>3. TaskBacked(new, l, id)
  BY <1>1, <1>2 DEF TaskBacked
<1>4. \A other \in Ids \ {id} :
        /\ other \in Known(new) => other \in Known(m)
        /\ new.status[other] = m.status[other]
        /\ new.retries[other] = m.retries[other]
  BY <1>1, <1>2 DEF Known
<1>5. \A k \in Keys : \/ new.indexOfIdemKeys[k] = m.indexOfIdemKeys[k]
                      \/ new.indexOfIdemKeys[k] = id /\ InLog(l, "enqueue", id)
  BY <1>1, <1>2
<1>6. Backed(new, l)
  BY <1>3, <1>4, <1>5, BackedChange
<1> QED
  BY <1>6 DEF new

\* The memories m and new differ in one task, and agree on the keys.
OneTaskDiffers(m, new, id) ==
  /\ \A other \in Ids \ {id} :
       /\ other \in Known(new) => other \in Known(m)
       /\ new.status[other] = m.status[other]
       /\ new.retries[other] = m.retries[other]
  /\ new.indexOfIdemKeys = m.indexOfIdemKeys

\* Each operation, and each replayed record but ENQUEUE, touches its task alone.
LEMMA EffectsDiffer ==
  ASSUME NEW m \in Memory, NEW id \in Ids, NEW n \in Nat
  PROVE  /\ OneTaskDiffers(m, AckEffect(m, id), id)
         /\ OneTaskDiffers(m, RetryEffect(m, id), id)
         /\ OneTaskDiffers(m, DeadEffect(m, id), id)
         /\ OneTaskDiffers(m, RequeueEffect(m, id), id)
         /\ OneTaskDiffers(m, PurgeEffect(m, id), id)
         /\ OneTaskDiffers(m, DequeueEffect(m, id), id)
         /\ OneTaskDiffers(m, Panic(m), id)
         /\ OneTaskDiffers(m, ReplayAck(m, id), id)
         /\ OneTaskDiffers(m, ReplayRetry(m, id), id)
         /\ OneTaskDiffers(m, ReplayDead(m, id, n), id)
         /\ OneTaskDiffers(m, ReplayRequeue(m, id), id)
         /\ OneTaskDiffers(m, ReplayPurge(m, id), id)
<1>0. m.retries \in [Ids -> Nat] /\ m.status \in [Ids -> TaskState]
  BY DEF Memory
<1>1. OneTaskDiffers(m, AckEffect(m, id), id)
  BY <1>0 DEF AckEffect, OneTaskDiffers, Known, Memory
<1>2. OneTaskDiffers(m, RetryEffect(m, id), id)
  BY <1>0 DEF RetryEffect, OneTaskDiffers, Known, Memory
<1>3. OneTaskDiffers(m, DeadEffect(m, id), id)
  BY <1>0 DEF DeadEffect, OneTaskDiffers, Known, Memory
<1>4. OneTaskDiffers(m, RequeueEffect(m, id), id)
  BY <1>0 DEF RequeueEffect, OneTaskDiffers, Known, Memory
<1>5. OneTaskDiffers(m, PurgeEffect(m, id), id)
  BY <1>0 DEF PurgeEffect, OneTaskDiffers, Known, Memory
<1>6. OneTaskDiffers(m, DequeueEffect(m, id), id)
  BY <1>0 DEF DequeueEffect, OneTaskDiffers, Known, Memory
<1>7. OneTaskDiffers(m, Panic(m), id)
  BY <1>0 DEF Panic, OneTaskDiffers, Known, Memory
<1>8. OneTaskDiffers(m, ReplayAck(m, id), id)
  BY <1>0 DEF ReplayAck, OneTaskDiffers, Known, Memory
<1>9. OneTaskDiffers(m, ReplayRetry(m, id), id)
  BY <1>0 DEF ReplayRetry, Panic, OneTaskDiffers, Known, Memory
<1>10. OneTaskDiffers(m, ReplayDead(m, id, n), id)
  BY <1>0 DEF ReplayDead, Panic, OneTaskDiffers, Known, Memory
<1>11. OneTaskDiffers(m, ReplayRequeue(m, id), id)
  BY <1>0 DEF ReplayRequeue, Panic, OneTaskDiffers, Known, Memory
<1>12. OneTaskDiffers(m, ReplayPurge(m, id), id)
  BY <1>0 DEF ReplayPurge, OneTaskDiffers, Known, Memory
<1> QED
  BY <1>1, <1>2, <1>3, <1>4, <1>5, <1>6, <1>7, <1>8, <1>9, <1>10, <1>11, <1>12

\* A change of one task that its records account for.
LEMMA BackedDiffers ==
  ASSUME NEW m, NEW new, NEW l, NEW id \in Ids, Backed(m, l),
         OneTaskDiffers(m, new, id), TaskBacked(new, l, id)
  PROVE  Backed(new, l)
<1>1. \A k \in Keys : new.indexOfIdemKeys[k] = m.indexOfIdemKeys[k]
  BY DEF OneTaskDiffers
<1> QED
  BY <1>1, BackedChange DEF OneTaskDiffers

\* An operation changes memory after its record entered the log.
LEMMA AfterBacked ==
  ASSUME NEW m \in Memory, NEW l, Backed(m, l), NEW r \in Record, r.op # "enqueue",
         InLog(l, r.op, r.id), InLog(l, "enqueue", r.id)
  PROVE  Backed(After(m, r), l)
<1> DEFINE id == r.id
<1>1. id \in Ids /\ r.op \in {"ack", "retry", "dead", "requeue", "purge"}
  BY DEF Record, Operations
<1>2. /\ m.retries \in [Ids -> Nat] /\ m.status \in [Ids -> TaskState]
      /\ TaskBacked(m, l, id) /\ 0 \in Nat
  BY <1>1 DEF Memory, Backed
<1>3. r.op = "ack" => Backed(AckEffect(m, id), l)
  <2>1. ASSUME r.op = "ack" PROVE TaskBacked(AckEffect(m, id), l, id)
    BY <1>1, <1>2, <2>1 DEF TaskBacked, AckEffect, Memory, Known
  <2> QED
    BY <1>1, <1>2, <2>1, EffectsDiffer, BackedDiffers
<1>4. r.op = "retry" => Backed(RetryEffect(m, id), l)
  <2>1. ASSUME r.op = "retry" PROVE TaskBacked(RetryEffect(m, id), l, id)
    BY <1>1, <1>2, <2>1 DEF TaskBacked, RetryEffect, Memory, Known
  <2> QED
    BY <1>1, <1>2, <2>1, EffectsDiffer, BackedDiffers
<1>5. r.op = "dead" => Backed(DeadEffect(m, id), l)
  <2>1. ASSUME r.op = "dead" PROVE TaskBacked(DeadEffect(m, id), l, id)
    BY <1>1, <1>2, <2>1 DEF TaskBacked, DeadEffect, Memory, Known
  <2> QED
    BY <1>1, <1>2, <2>1, EffectsDiffer, BackedDiffers
<1>6. r.op = "requeue" => Backed(RequeueEffect(m, id), l)
  <2>1. ASSUME r.op = "requeue" PROVE TaskBacked(RequeueEffect(m, id), l, id)
    BY <1>1, <1>2, <2>1 DEF TaskBacked, RequeueEffect, Memory, Known
  <2> QED
    BY <1>1, <1>2, <2>1, EffectsDiffer, BackedDiffers
<1>7. r.op = "purge" => Backed(PurgeEffect(m, id), l)
  <2>1. TaskBacked(PurgeEffect(m, id), l, id)
    BY <1>1, <1>2 DEF TaskBacked, PurgeEffect, Memory, Known
  <2> QED
    BY <1>1, <1>2, <2>1, EffectsDiffer, BackedDiffers
<1> HIDE DEF id
<1> QED
  BY <1>1, <1>3, <1>4, <1>5, <1>6, <1>7 DEF After, id

\* A replayed record leaves nothing that the records up to it do not account for.
LEMMA ApplyBacked ==
  ASSUME NEW m \in Memory, NEW l, Backed(m, l), NEW r \in Record, InLog(l, r.op, r.id)
  PROVE  Backed(ApplyRecord(m, r), l)
<1> DEFINE id == r.id
           n == r.retries
<1>1. id \in Ids /\ n \in Nat /\ r.op \in Operations
  BY DEF Record
<1>2. /\ m.retries \in [Ids -> Nat] /\ m.status \in [Ids -> TaskState]
      /\ TaskBacked(m, l, id)
  BY <1>1 DEF Memory, Backed
<1>3. r.op = "enqueue" => Backed(ReplayEnqueue(m, id), l)
  BY <1>1, InsertBacked DEF ReplayEnqueue
<1>4. Backed(ReplayAck(m, id), l)
  <2>1. TaskBacked(ReplayAck(m, id), l, id)
    BY <1>1, <1>2 DEF TaskBacked, ReplayAck, Memory, Known
  <2> QED
    BY <1>1, <2>1, EffectsDiffer, BackedDiffers
<1>5. r.op = "retry" => Backed(ReplayRetry(m, id), l)
  <2>1. ASSUME r.op = "retry" PROVE TaskBacked(ReplayRetry(m, id), l, id)
    BY <1>1, <1>2, <2>1 DEF TaskBacked, ReplayRetry, Panic, Memory, Known
  <2> QED
    BY <1>1, <2>1, EffectsDiffer, BackedDiffers
<1>6. r.op = "dead" => Backed(ReplayDead(m, id, n), l)
  <2>1. ASSUME r.op = "dead" PROVE TaskBacked(ReplayDead(m, id, n), l, id)
    BY <1>1, <1>2, <2>1 DEF TaskBacked, ReplayDead, Panic, Memory, Known
  <2> QED
    BY <1>1, <2>1, EffectsDiffer, BackedDiffers
<1>7. Backed(ReplayRequeue(m, id), l)
  <2>1. TaskBacked(ReplayRequeue(m, id), l, id)
    BY <1>1, <1>2 DEF TaskBacked, ReplayRequeue, Panic, Memory, Known
  <2> QED
    BY <1>1, <2>1, EffectsDiffer, BackedDiffers
<1>8. Backed(ReplayPurge(m, id), l)
  <2>1. TaskBacked(ReplayPurge(m, id), l, id)
    BY <1>1, <1>2 DEF TaskBacked, ReplayPurge, Memory, Known
  <2> QED
    BY <1>1, <2>1, EffectsDiffer, BackedDiffers
<1> HIDE DEF id, n
<1> QED
  BY <1>3, <1>4, <1>5, <1>6, <1>7, <1>8, Zenon DEF ApplyRecord, id, n

\* Dequeue logs nothing and changes nothing that a record accounts for.
LEMMA DequeueBacked ==
  ASSUME NEW m \in Memory, NEW l, Backed(m, l), NEW id \in Ids
  PROVE  Backed(DequeueEffect(m, id), l)
<1>1. /\ m.retries \in [Ids -> Nat] /\ m.status \in [Ids -> TaskState]
      /\ TaskBacked(m, l, id) /\ 0 \in Nat
  BY DEF Memory, Backed
<1>2. TaskBacked(DequeueEffect(m, id), l, id)
  BY <1>1 DEF TaskBacked, DequeueEffect, Memory, Known
<1> QED
  BY <1>1, <1>2, EffectsDiffer, BackedDiffers

\* What the operation in progress and the Enqueue calls need of the log.
CallsBacked ==
  /\ pend # Idle => InLog(log, pend.op, pend.id) /\ InLog(log, "enqueue", pend.id)
  /\ \A id \in Ids :
       /\ call[id] = "commit" => InLog(log, "enqueue", id)
       /\ call[id] = "done" => InLog(log, "enqueue", ret[id])

\* The inductive invariant: the log accounts for memory, for what a replay of it
\* would rebuild, and for the calls in progress.
AheadInv == Backed(q, log) /\ Backed(Replay(log), log) /\ CallsBacked

\* A step leaves every record in the log, and what a replay rebuilds accounted for.
LEMMA LogStaysBacked ==
  ASSUME IndInv, AheadInv, [Next]_vars
  PROVE  /\ \A op, id : InLog(log, op, id) => InLog(log', op, id)
         /\ Backed(Replay(log'), log')
<1>1. CASE log' = log
  BY <1>1 DEF AheadInv
<1>2. ASSUME NEW r \in Record, log' = Append(log, r)
      PROVE  /\ \A op, id : InLog(log, op, id) => InLog(log', op, id)
             /\ Backed(Replay(log'), log')
  <2>1. log \in Seq(Record)
    BY DEF IndInv, TypeOK
  <2>2. /\ \A op, id : InLog(log, op, id) => InLog(log', op, id)
        /\ InLog(log', r.op, r.id)
    BY <1>2, <2>1, InLogAppend
  <2>3. Backed(Replay(log), log')
    BY <2>2, BackedGrows DEF AheadInv
  <2>4. Replay(log') = ApplyRecord(Replay(log), r) /\ Replay(log) \in Memory
    BY <1>2, LogGrows
  <2>5. Backed(ApplyRecord(Replay(log), r), log')
    BY <2>2, <2>3, <2>4, ApplyBacked
  <2> QED
    BY <2>2, <2>4, <2>5
<1> QED
  BY <1>1, <1>2, LogStep

\* Enqueue inserts after it appended, and returns the ID of a logged task.
LEMMA EnqueueKeepsAhead ==
  ASSUME IndInv, Backed(q, log), CallsBacked, NEW id \in Ids, EnqueueStep(id),
         \A op, x : InLog(log, op, x) => InLog(log', op, x)
  PROVE  Backed(q', log') /\ CallsBacked'
<1>1. /\ q \in Memory /\ log \in Seq(Record) /\ call \in [Ids -> CallStates]
      /\ ret \in [Ids -> Ids \cup {None}] /\ KeyOf[id] \in Keys
  BY KeyInKeys DEF IndInv, TypeOK
<1>2. Backed(q, log')
  BY BackedGrows
<1>3. ASSUME pend' = pend,
             \A other \in Ids \ {id} : call'[other] = call[other] /\ ret'[other] = ret[other],
             call'[id] = "commit" => InLog(log', "enqueue", id),
             call'[id] = "done" => InLog(log', "enqueue", ret'[id])
      PROVE  CallsBacked'
  BY <1>3 DEF CallsBacked
<1>4. CASE EnqueueDedup(id)
  <2>1. InLog(log', "enqueue", q.indexOfIdemKeys[KeyOf[id]])
    BY <1>1, <1>2, <1>4 DEF EnqueueDedup, KeyTaken, Backed
  <2> QED
    BY <1>1, <1>2, <1>3, <1>4, <2>1 DEF EnqueueDedup
<1>5. CASE EnqueueBegin(id)
  BY <1>1, <1>2, <1>3, <1>5 DEF EnqueueBegin
<1>6. CASE EnqueueAppend(id)
  <2>1. EncodeRecord("enqueue", id) \in Record /\ EncodeRecord("enqueue", id).op = "enqueue"
        /\ EncodeRecord("enqueue", id).id = id
    BY EncodedRecord DEF Operations
  <2>2. InLog(log', "enqueue", id)
    BY <1>1, <1>6, <2>1, InLogAppend DEF EnqueueAppend
  <2> QED
    BY <1>1, <1>2, <1>3, <1>6, <2>2 DEF EnqueueAppend
<1>7. CASE EnqueueFails(id)
  BY <1>1, <1>2, <1>3, <1>7 DEF EnqueueFails
<1>8. CASE EnqueueCommit(id)
  <2>1. InLog(log', "enqueue", id)
    BY <1>8 DEF EnqueueCommit, CallsBacked
  <2>2. CASE KeyTaken(q, id)
    <3>1. InLog(log', "enqueue", q.indexOfIdemKeys[KeyOf[id]])
      BY <1>1, <1>2, <2>2 DEF KeyTaken, Backed
    <3> QED
      BY <1>1, <1>2, <1>3, <1>8, <2>2, <3>1 DEF EnqueueCommit
  <2>3. CASE ~KeyTaken(q, id)
    <3>1. Backed(Insert(q, id), log')
      BY <1>1, <1>2, <2>1, InsertBacked
    <3> QED
      BY <1>1, <1>3, <1>8, <2>1, <2>3, <3>1 DEF EnqueueCommit
  <2> QED
    BY <2>2, <2>3
<1> QED
  BY <1>4, <1>5, <1>6, <1>7, <1>8 DEF EnqueueStep

\* A step that appends a record of a task memory knows and leaves memory alone.
LEMMA AppendKeepsAhead ==
  ASSUME IndInv, Backed(q, log), CallsBacked, NEW r \in Record, r.id \in Known(q),
         \A op, x : InLog(log, op, x) => InLog(log', op, x),
         \/ log' = Append(log, r) /\ pend' = r
         \/ pend' = pend,
         UNCHANGED <<q, call, ret>>
  PROVE  Backed(q', log') /\ CallsBacked'
<1>1. log \in Seq(Record) /\ r.id \in Ids
  BY DEF IndInv, TypeOK, Record
<1>2. Backed(q', log')
  BY BackedGrows
<1>3. InLog(log', "enqueue", r.id)
  BY <1>1 DEF Backed, TaskBacked
<1>4. pend' = r => InLog(log', pend'.op, pend'.id) \/ pend' = pend
  BY <1>1, InLogAppend
<1>5. CASE pend' = pend
  BY <1>2, <1>5 DEF CallsBacked
<1>6. CASE pend' # pend
  BY <1>2, <1>3, <1>4, <1>6 DEF CallsBacked
<1> QED
  BY <1>5, <1>6

\* A caller appends before it changes memory, or changes what no record is about.
LEMMA CallerKeepsAhead ==
  ASSUME IndInv, Backed(q, log), CallsBacked, NEW id \in Ids, CallerStep(id),
         \A op, x : InLog(log, op, x) => InLog(log', op, x)
  PROVE  Backed(q', log') /\ CallsBacked'
<1>0. TypeOK /\ q \in Memory
  BY DEF IndInv, TypeOK
<1>1. ASSUME NEW r \in Record, r.id = id, id \in Known(q), CallerAppends(r)
      PROVE  Backed(q', log') /\ CallsBacked'
  <2>1. /\ \/ log' = Append(log, r) /\ pend' = r
           \/ pend' = pend
        /\ UNCHANGED <<q, call, ret>>
    BY <1>1 DEF CallerAppends
  <2> QED
    BY <1>1, <2>1, AppendKeepsAhead
<1>2. \A op \in Operations : EncodeRecord(op, id) \in Record /\ EncodeRecord(op, id).id = id
  BY EncodedRecord
<1>3. CASE Dequeue(id)
  <2>1. /\ q' = DequeueEffect(q, id) /\ UNCHANGED <<pend, call, ret, log>>
    BY <1>3 DEF Dequeue
  <2>2. Backed(q', log')
    BY <1>0, <2>1, DequeueBacked
  <2> QED
    BY <2>1, <2>2 DEF CallsBacked
<1>4. CASE Ack(id)
  BY <1>1, <1>2, <1>4 DEF Ack, Known, Operations
<1>5. CASE Retry(id)
  BY <1>0, <1>1, <1>5, RetryRecordIs DEF Retry, Known
<1>6. CASE RequeueDead(id)
  BY <1>1, <1>2, <1>6 DEF RequeueDead, Known, Operations
<1>7. CASE PurgeDeadTask(id)
  BY <1>1, <1>2, <1>7 DEF PurgeDeadTask, Known, Operations
<1> QED
  BY <1>3, <1>4, <1>5, <1>6, <1>7 DEF CallerStep

\* The other steps: an operation applies its record, the sweeper appends, the
\* process crashes and recovers.
LEMMA OthersKeepAhead ==
  ASSUME IndInv, AheadInv, [Next]_vars,
         \A op, x : InLog(log, op, x) => InLog(log', op, x),
         ~\E id \in Ids : EnqueueStep(id) \/ CallerStep(id)
  PROVE  Backed(q', log') /\ CallsBacked'
<1> Backed(q, log) /\ Backed(Replay(log), log) /\ CallsBacked
  BY DEF AheadInv
<1>1. CASE Returns
  <2>1. /\ q' = After(q, pend) /\ pend' = Idle /\ log' = log /\ call' = call /\ ret' = ret
        /\ pend \in Record /\ pend.op \in {"ack", "retry", "dead", "requeue", "purge"}
        /\ q \in Memory
    BY <1>1, ReturnsApply DEF IndInv, TypeOK
  <2>2. InLog(log, pend.op, pend.id) /\ InLog(log, "enqueue", pend.id)
    BY <2>1 DEF CallsBacked, Idle
  <2>3. Backed(After(q, pend), log)
    BY <2>1, <2>2, AfterBacked
  <2> QED
    BY <2>1, <2>3 DEF CallsBacked
<1>2. CASE \E id \in Ids : SweepVisit(id)
  <2> PICK id \in Ids : SweepVisit(id)
    BY <1>2
  <2>1. RetryRecord(id) \in Record /\ RetryRecord(id).id = id
    BY RetryRecordIs DEF IndInv
  <2>2. CASE SweepRetry(id)
    BY <2>1, <2>2, AppendKeepsAhead DEF SweepRetry, Known
  <2>3. CASE SweepKeep(id) \/ SweepAbort(id)
    <3>1. UNCHANGED <<q, pend, call, ret>>
      BY <2>3 DEF SweepKeep, SweepAbort
    <3>2. Backed(q', log')
      BY <3>1, BackedGrows
    <3> QED
      BY <3>1, <3>2 DEF CallsBacked
  <2> QED
    BY <2>2, <2>3 DEF SweepVisit
<1>3. CASE Crash
  <2>1. q' = EmptyMemory /\ pend' = Idle /\ UNCHANGED <<log, ret>>
        /\ \A id \in Ids : call'[id] \in {"lost", call[id]} /\ call'[id] # "commit"
    BY <1>3 DEF Crash
  <2>2. Backed(q', log')
    BY <2>1, EmptyBacked
  <2> QED
    BY <2>1, <2>2 DEF CallsBacked
<1>4. CASE NewQueue
  <2>1. q' \in {q, Replay(log)} /\ UNCHANGED <<log, pend, call, ret>>
    BY <1>4 DEF NewQueue
  <2>2. Backed(q', log')
    BY <2>1
  <2> QED
    BY <2>1, <2>2 DEF CallsBacked
<1>5. CASE SweepBegin \/ SweepEnd \/ UNCHANGED vars \/ \E id \in Ids : TimePasses(id)
  <2>1. UNCHANGED <<q, log, pend, call, ret>>
    BY <1>5 DEF SweepBegin, SweepEnd, vars, TimePasses, LeaseExpires, BackoffElapses
  <2> QED
    BY <2>1 DEF CallsBacked
<1> QED
  BY <1>1, <1>2, <1>3, <1>4, <1>5 DEF Next

\* Every step keeps the log ahead of memory.
LEMMA StepKeepsAhead == IndInv /\ AheadInv /\ [Next]_vars => AheadInv'
<1> SUFFICES ASSUME IndInv, AheadInv, [Next]_vars PROVE AheadInv'
  OBVIOUS
<1>1. Backed(q, log) /\ CallsBacked
  BY DEF AheadInv
<1>2. /\ \A op, id : InLog(log, op, id) => InLog(log', op, id)
      /\ Backed(Replay(log'), log')
  BY LogStaysBacked
<1>3. Backed(q', log') /\ CallsBacked'
  BY <1>1, <1>2, EnqueueKeepsAhead, CallerKeepsAhead, OthersKeepAhead
<1> QED
  BY <1>2, <1>3 DEF AheadInv, CallsBacked

\* The log is written ahead of memory: what memory says of a task, and what a
\* call of Enqueue returned, has its record in the log, whatever Appends failed.
THEOREM LogIsWrittenAhead == Spec => []WriteAhead
<1>1. Init => AheadInv
  <2> SUFFICES ASSUME Init PROVE AheadInv
    OBVIOUS
  <2>1. q = EmptyMemory /\ Replay(log) = EmptyMemory /\ pend = Idle
        /\ \A id \in Ids : call[id] = "idle"
    BY ReplayEmpty DEF Init
  <2> QED
    BY <2>1, EmptyBacked DEF AheadInv, CallsBacked
<1>2. AheadInv => WriteAhead
  BY DEF AheadInv, CallsBacked, Backed, TaskBacked, WriteAhead, InLog, Logged, Known
<1> QED
  BY <1>1, <1>2, StepKeepsAhead, Invariance, PTL DEF Spec
============================================================================
