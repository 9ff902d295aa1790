------------------------ MODULE QueueRecoveryProofs ------------------------
(***************************************************************************)
(* What holds of the queue across crashes, for every number of tasks, any  *)
(* keys, any retry budget, any number of crashes and callers that may be   *)
(* late, with any number of failed Appends, as long as an Append that      *)
(* fails has written nothing and no two Enqueue calls with one key overlap *)
(* (KeyRace.cfg shows that the second is needed).                          *)
(*                                                                         *)
(* The heart of it is Agrees: at every moment the memory a Replay of the   *)
(* log would build is the memory the process has, with the operation in    *)
(* progress applied and the Enqueue calls that have appended inserted.     *)
(***************************************************************************)
EXTENDS QueueProofs, QueueLifecycle

\* Nobody races for an idempotency key, and an Append that fails leaves no trace.
Benign == SerialKeys /\ (CleanFaults \/ MaxFaults = 0)

\* Memory once the operation that appended r has returned.
After(m, r) ==
  CASE r.op = "ack"     -> AckEffect(m, r.id)
    [] r.op = "retry"   -> RetryEffect(m, r.id)
    [] r.op = "dead"    -> DeadEffect(m, r.id)
    [] r.op = "requeue" -> RequeueEffect(m, r.id)
    [] r.op = "purge"   -> PurgeEffect(m, r.id)
    [] OTHER            -> m

\* A rebuilt memory agrees with memory, up to the Enqueue calls in C, which
\* have appended and not yet inserted.
Agrees(then, now, C) ==
  /\ then.index = now.index \cup C
  /\ then.dlq = now.dlq
  /\ \A id \in then.index \cup then.dlq : then.retries[id] = now.retries[id]
  /\ \A k \in Keys \ {NoKey} :
       \/ then.indexOfIdemKeys[k] = now.indexOfIdemKeys[k]
       \/ then.indexOfIdemKeys[k] \in {id \in C : KeyOf[id] = k}

\* The retry budget of the tasks of a memory.
Budget(m) ==
  /\ \A id \in m.index : m.retries[id] <= MaxRetries
  /\ \A id \in m.dlq : m.retries[id] = MaxRetries + 1

----------------------------------------------------------------------------

\* What the end of Enqueue and applyRecord's ENQUEUE do to the fields that recovery
\* is about.
LEMMA InsertFields ==
  ASSUME NEW m \in Memory, NEW id \in Ids
  PROVE  /\ Insert(m, id).index = m.index \cup {id}
         /\ Insert(m, id).dlq = m.dlq
         /\ Insert(m, id).retries = [m.retries EXCEPT ![id] = 0]
         /\ Insert(m, id).indexOfIdemKeys = [m.indexOfIdemKeys EXCEPT ![KeyOf[id]] = id]
         /\ Insert(m, id).panicked = m.panicked
BY DEF Insert, Memory

\* What a replayed record does to them, if its task is where the record expects it.
LEMMA ApplyFields ==
  ASSUME NEW m \in Memory, NEW r \in Record, r.op # "enqueue", ~m.panicked,
         r.op \in {"retry", "dead"} => r.id \in m.index,
         r.op = "requeue" => r.id \in m.dlq
  PROVE  LET new == ApplyRecord(m, r)
         IN  /\ new.index = IF r.op \in {"ack", "dead"} THEN m.index \ {r.id}
                            ELSE IF r.op = "requeue" THEN m.index \cup {r.id}
                            ELSE m.index
             /\ new.dlq = IF r.op = "dead" THEN m.dlq \cup {r.id}
                          ELSE IF r.op \in {"requeue", "purge"} THEN m.dlq \ {r.id}
                          ELSE m.dlq
             /\ new.retries = CASE r.op = "retry" -> [m.retries EXCEPT ![r.id] = @ + 1]
                                [] r.op = "dead" -> [m.retries EXCEPT ![r.id] = r.retries]
                                [] r.op = "requeue" -> [m.retries EXCEPT ![r.id] = 0]
                                [] OTHER -> m.retries
             /\ new.indexOfIdemKeys = m.indexOfIdemKeys
             /\ ~new.panicked
<1>1. r.op \in {"ack", "retry", "dead", "requeue", "purge"}
  BY DEF Record, Operations
<1>2. CASE r.op = "ack"
  <2>1. ApplyRecord(m, r) = ReplayAck(m, r.id)
    BY <1>2 DEF ApplyRecord
  <2> QED
    BY <1>2, <2>1 DEF ReplayAck, Memory
<1>3. CASE r.op = "retry"
  <2>1. ApplyRecord(m, r) = ReplayRetry(m, r.id)
    BY <1>3 DEF ApplyRecord
  <2> QED
    BY <1>3, <2>1 DEF ReplayRetry, Memory
<1>4. CASE r.op = "dead"
  <2>1. ApplyRecord(m, r) = ReplayDead(m, r.id, r.retries)
    BY <1>4 DEF ApplyRecord
  <2> QED
    BY <1>4, <2>1 DEF ReplayDead, Memory
<1>5. CASE r.op = "requeue"
  <2>1. ApplyRecord(m, r) = ReplayRequeue(m, r.id)
    BY <1>5 DEF ApplyRecord
  <2> QED
    BY <1>5, <2>1 DEF ReplayRequeue, Memory
<1>6. CASE r.op = "purge"
  <2>1. ApplyRecord(m, r) = ReplayPurge(m, r.id)
    BY <1>6 DEF ApplyRecord
  <2> QED
    BY <1>6, <2>1 DEF ReplayPurge, Memory
<1> QED
  BY <1>1, <1>2, <1>3, <1>4, <1>5, <1>6

\* What the operation that appended a record does to them when it returns.
LEMMA AfterFields ==
  ASSUME NEW m \in Memory, NEW r \in Record, r.op # "enqueue"
  PROVE  LET new == After(m, r)
         IN  /\ new.index = IF r.op \in {"ack", "dead"} THEN m.index \ {r.id}
                            ELSE IF r.op = "requeue" THEN m.index \cup {r.id}
                            ELSE m.index
             /\ new.dlq = IF r.op = "dead" THEN m.dlq \cup {r.id}
                          ELSE IF r.op \in {"requeue", "purge"} THEN m.dlq \ {r.id}
                          ELSE m.dlq
             /\ new.retries = CASE r.op \in {"retry", "dead"} ->
                                     [m.retries EXCEPT ![r.id] = @ + 1]
                                [] r.op = "requeue" -> [m.retries EXCEPT ![r.id] = 0]
                                [] OTHER -> m.retries
             /\ new.indexOfIdemKeys = m.indexOfIdemKeys
<1>1. r.op \in {"ack", "retry", "dead", "requeue", "purge"}
  BY DEF Record, Operations
<1>2. CASE r.op = "ack"
  <2>1. After(m, r) = AckEffect(m, r.id)
    BY <1>2 DEF After
  <2> QED
    BY <1>2, <2>1 DEF AckEffect, Memory
<1>3. CASE r.op = "retry"
  <2>1. After(m, r) = RetryEffect(m, r.id)
    BY <1>3 DEF After
  <2> QED
    BY <1>3, <2>1 DEF RetryEffect, Memory
<1>4. CASE r.op = "dead"
  <2>1. After(m, r) = DeadEffect(m, r.id)
    BY <1>4 DEF After
  <2> QED
    BY <1>4, <2>1 DEF DeadEffect, Memory
<1>5. CASE r.op = "requeue"
  <2>1. After(m, r) = RequeueEffect(m, r.id)
    BY <1>5 DEF After
  <2> QED
    BY <1>5, <2>1 DEF RequeueEffect, Memory
<1>6. CASE r.op = "purge"
  <2>1. After(m, r) = PurgeEffect(m, r.id)
    BY <1>6 DEF After
  <2> QED
    BY <1>6, <2>1 DEF PurgeEffect, Memory
<1> QED
  BY <1>1, <1>2, <1>3, <1>4, <1>5, <1>6

----------------------------------------------------------------------------

\* Write-ahead: appending the record of an operation that has passed its lookup
\* keeps replay in agreement with what memory will be when the operation returns.
LEMMA AgreesAppend ==
  ASSUME NEW then \in Memory, NEW m \in Memory, NEW C \in SUBSET Ids,
         Agrees(then, m, C), ~then.panicked, C \cap Known(m) = {},
         m.index \cap m.dlq = {},
         NEW r \in Record, r.op # "enqueue",
         r.op \in {"ack", "retry", "dead"} => r.id \in m.index,
         r.op \in {"requeue", "purge"} => r.id \in m.dlq,
         r.op = "dead" => r.retries = m.retries[r.id] + 1
  PROVE  /\ Agrees(ApplyRecord(then, r), After(m, r), C)
         /\ ~ApplyRecord(then, r).panicked
<1> DEFINE t == ApplyRecord(then, r)
           a == After(m, r)
           id == r.id
<1>1. /\ id \in Ids /\ id \notin C
      /\ r.op \in {"ack", "retry", "dead", "requeue", "purge"}
  BY DEF Record, Operations, Known
<1>2. /\ r.op \in {"retry", "dead"} => id \in then.index
      /\ r.op = "requeue" => id \in then.dlq
  BY DEF Agrees
<1>3. /\ then.index \subseteq Ids /\ then.dlq \subseteq Ids
      /\ then.retries \in [Ids -> Nat] /\ m.retries \in [Ids -> Nat]
  BY DEF Memory
<1>t. /\ t.index = IF r.op \in {"ack", "dead"} THEN then.index \ {id}
                   ELSE IF r.op = "requeue" THEN then.index \cup {id}
                   ELSE then.index
      /\ t.dlq = IF r.op = "dead" THEN then.dlq \cup {id}
                 ELSE IF r.op \in {"requeue", "purge"} THEN then.dlq \ {id}
                 ELSE then.dlq
      /\ t.retries = CASE r.op = "retry" -> [then.retries EXCEPT ![id] = @ + 1]
                       [] r.op = "dead" -> [then.retries EXCEPT ![id] = r.retries]
                       [] r.op = "requeue" -> [then.retries EXCEPT ![id] = 0]
                       [] OTHER -> then.retries
      /\ t.indexOfIdemKeys = then.indexOfIdemKeys
      /\ ~t.panicked
  BY <1>2, ApplyFields
<1>a. /\ a.index = IF r.op \in {"ack", "dead"} THEN m.index \ {id}
                   ELSE IF r.op = "requeue" THEN m.index \cup {id}
                   ELSE m.index
      /\ a.dlq = IF r.op = "dead" THEN m.dlq \cup {id}
                 ELSE IF r.op \in {"requeue", "purge"} THEN m.dlq \ {id}
                 ELSE m.dlq
      /\ a.retries = CASE r.op \in {"retry", "dead"} -> [m.retries EXCEPT ![id] = @ + 1]
                       [] r.op = "requeue" -> [m.retries EXCEPT ![id] = 0]
                       [] OTHER -> m.retries
      /\ a.indexOfIdemKeys = m.indexOfIdemKeys
  BY AfterFields
<1> HIDE DEF t, a, id
<1>4. t.index = a.index \cup C /\ t.dlq = a.dlq
  BY <1>1, <1>t, <1>a DEF Agrees
<1>5. ASSUME NEW x \in t.index \cup t.dlq
      PROVE  t.retries[x] = a.retries[x]
  <2>1. x \in Ids /\ x \in then.index \cup then.dlq
    BY <1>1, <1>2, <1>3, <1>t DEF Agrees, id
  <2>2. then.retries[x] = m.retries[x]
    BY <2>1 DEF Agrees
  <2>3. r.op = "dead" => r.retries = m.retries[id] + 1
    BY DEF id
  <2> QED
    BY <1>1, <1>3, <1>t, <1>a, <2>1, <2>2, <2>3
<1>6. Agrees(t, a, C)
  BY <1>t, <1>a, <1>4, <1>5 DEF Agrees
<1> QED
  BY <1>6, <1>t DEF t, a

\* The ENQUEUE record of a call whose key replay does not know yet.
LEMMA AgreesEnqueue ==
  ASSUME NEW then \in Memory, NEW m \in Memory, NEW C \in SUBSET Ids,
         Agrees(then, m, C), ~then.panicked,
         NEW id \in Ids, ~KeyTaken(then, id), m.retries[id] = 0
  PROVE  LET new == ApplyRecord(then, EncodeRecord("enqueue", id))
         IN  /\ Agrees(new, m, C \cup {id}) /\ ~new.panicked
             /\ new = Insert(then, id)
<1>1. ApplyRecord(then, EncodeRecord("enqueue", id)) = Insert(then, id)
  BY DEF ApplyRecord, EncodeRecord, ReplayEnqueue
<1> DEFINE t == Insert(then, id)
<1>2. /\ t.index = then.index \cup {id} /\ t.dlq = then.dlq
      /\ t.retries = [then.retries EXCEPT ![id] = 0]
      /\ t.indexOfIdemKeys = [then.indexOfIdemKeys EXCEPT ![KeyOf[id]] = id]
      /\ t.panicked = then.panicked
  BY InsertFields
<1>3. /\ then.index \subseteq Ids /\ then.dlq \subseteq Ids
      /\ then.retries \in [Ids -> Nat]
      /\ then.indexOfIdemKeys \in [Keys -> Ids \cup {None}]
  BY DEF Memory
<1> HIDE DEF t
<1>4. \A x \in t.index \cup t.dlq : t.retries[x] = m.retries[x]
  BY <1>2, <1>3 DEF Agrees
<1>5. \A k \in Keys \ {NoKey} :
        \/ t.indexOfIdemKeys[k] = m.indexOfIdemKeys[k]
        \/ t.indexOfIdemKeys[k] \in {x \in C \cup {id} : KeyOf[x] = k}
  BY <1>2, <1>3, KeyInKeys DEF Agrees
<1>6. Agrees(t, m, C \cup {id})
  BY <1>2, <1>4, <1>5 DEF Agrees
<1> QED
  BY <1>1, <1>2, <1>6 DEF t

\* An Enqueue call inserts its task, which replay has had since the append.
LEMMA AgreesCommit ==
  ASSUME NEW then \in Memory, NEW m \in Memory, NEW C \in SUBSET Ids,
         Agrees(then, m, C), Owned(then), NEW id \in C, m.retries[id] = 0
  PROVE  Agrees(then, Insert(m, id), C \ {id})
<1> DEFINE a == Insert(m, id)
<1>2. /\ a.index = m.index \cup {id} /\ a.dlq = m.dlq
      /\ a.retries = [m.retries EXCEPT ![id] = 0]
      /\ a.indexOfIdemKeys = [m.indexOfIdemKeys EXCEPT ![KeyOf[id]] = id]
  BY InsertFields
<1>3. /\ m.retries \in [Ids -> Nat] /\ id \in Ids /\ KeyOf[id] \in Keys
      /\ m.indexOfIdemKeys \in [Keys -> Ids \cup {None}]
  BY KeyInKeys DEF Memory
<1> HIDE DEF a
<1>4. then.index = a.index \cup (C \ {id}) /\ then.dlq = a.dlq
  BY <1>2 DEF Agrees
<1>5. \A x \in then.index \cup then.dlq : then.retries[x] = a.retries[x]
  BY <1>2, <1>3 DEF Agrees, Memory
<1>6. ASSUME NEW k \in Keys \ {NoKey}
      PROVE  \/ then.indexOfIdemKeys[k] = a.indexOfIdemKeys[k]
             \/ then.indexOfIdemKeys[k] \in {x \in C \ {id} : KeyOf[x] = k}
  <2>1. CASE k = KeyOf[id]
    BY <1>2, <1>3, <1>4, <2>1 DEF Owned
  <2>2. CASE k # KeyOf[id]
    BY <1>2, <1>3, <2>2 DEF Agrees
  <2> QED
    BY <2>1, <2>2
<1> QED
  BY <1>4, <1>5, <1>6 DEF Agrees, a

----------------------------------------------------------------------------

\* Of the Enqueue calls in progress at most one has a given key, and its key
\* leads to no task yet.
Serial ==
  \A id \in Ids :
    call[id] \in {"append", "commit"} /\ KeyOf[id] # NoKey =>
      /\ q.indexOfIdemKeys[KeyOf[id]] = None
      /\ ~SameKeyBusy(id)

\* A task that is not in memory, or not in the log, has no retry counted.
Unretried ==
  \A id \in Ids :
    /\ call[id] \in {"idle", "append"} => Replay(log).retries[id] = 0
    /\ call[id] \in {"idle", "append", "commit"} => q.retries[id] = 0

\* The inductive invariant of recovery, on top of IndInv.
RecInv ==
  /\ ~Replay(log).panicked
  /\ proc = "up" => Agrees(Replay(log), After(q, pend), Committing)
  /\ Serial
  /\ Unretried
  /\ Budget(q) /\ Budget(Replay(log))

\* With no operation in progress nothing is pending.
LEMMA AfterIdle == ASSUME NEW m PROVE After(m, Idle) = m
BY DEF After, Idle

\* RecoveryAgrees speaks of the same memory.
LEMMA AfterIsPendingApplied == PendingApplied = After(q, pend)
BY DEF PendingApplied, After

\* One more record in the log is one more call of applyRecord.
LEMMA LogGrows ==
  ASSUME IndInv, NEW r \in Record
  PROVE  /\ Replay(Append(log, r)) = ApplyRecord(Replay(log), r)
         /\ Replay(log) \in Memory /\ Owned(Replay(log))
         /\ Replay(log).index \cap Replay(log).dlq = {}
         /\ \A id \in Ids : call[id] \in {"idle", "append"} => id \notin Known(Replay(log))
<1>1. /\ log \in Seq(Record) /\ \E st : Rebuilt(st, log)
      /\ Sound(Replay(log)) /\ Replay(log) \in Memory
      /\ \A id \in Ids : call[id] \in {"idle", "append"} => id \notin Known(Replay(log))
  BY DEF IndInv, TypeOK, LogSound, Sound
<1> QED
  BY <1>1, ReplayAppend DEF Sound

\* A queue on a new log.
LEMMA InitRecInv == Init => RecInv
<1> SUFFICES ASSUME Init PROVE RecInv
  OBVIOUS
<1>1. Replay(log) = EmptyMemory /\ After(q, pend) = EmptyMemory /\ q = EmptyMemory
  BY ReplayEmpty, AfterIdle DEF Init
<1>2. Committing = {}
  BY DEF Init, Committing
<1>3. Agrees(EmptyMemory, EmptyMemory, {})
  BY DEF Agrees
<1>4. ~EmptyMemory.panicked /\ Budget(EmptyMemory)
      /\ \A id \in Ids : EmptyMemory.retries[id] = 0
  BY DEF EmptyMemory, Budget
<1>5. Serial
  BY DEF Serial, Init
<1> QED
  BY <1>1, <1>2, <1>3, <1>4, <1>5 DEF RecInv, Unretried

\* The holder of the mutex has looked its task up and appends r: the first half of
\* Ack, Retry, RequeueDead and PurgeDeadTask, and of the sweeper's retries.
HolderAppends(r) ==
  /\ proc = "up" /\ pend = Idle
  /\ r.op # "enqueue"
  /\ r.op \in {"ack", "retry", "dead"} => r.id \in q.index
  /\ r.op \in {"requeue", "purge"} => r.id \in q.dlq
  /\ r.op = "retry" => q.retries[r.id] + 1 <= MaxRetries
  /\ r.op = "dead" => r.retries = q.retries[r.id] + 1 /\ r.retries = MaxRetries + 1
  /\ log' = Append(log, r) /\ pend' = r
  /\ UNCHANGED <<q, call, ret, proc>>

\* Time passes, a pass of the sweeper begins, goes on or ends, an Append fails,
\* nothing happens.
NothingRecorded == UNCHANGED <<q, log, pend, call, ret, proc>>

\* Appending a record keeps the invariant: replay moves ahead of memory by exactly
\* the operation that is now in progress.
LEMMA RecordKeepsRecInv ==
  ASSUME IndInv, RecInv, NEW r \in Record, HolderAppends(r)
  PROVE  RecInv'
<1> USE DEF HolderAppends
<1> DEFINE then == Replay(log)
           new == ApplyRecord(then, r)
<1>1. /\ Replay(log') = new
      /\ then \in Memory /\ Owned(then) /\ then.index \cap then.dlq = {}
  BY LogGrows
<1>2. /\ Agrees(then, q, Committing) /\ ~then.panicked
      /\ Budget(q) /\ Budget(then) /\ Serial /\ Unretried
  BY AfterIdle DEF RecInv
<1>3. /\ q \in Memory /\ q.index \cap q.dlq = {} /\ Committing \in SUBSET Ids
      /\ Committing \cap Known(q) = {} /\ r.id \in Ids /\ r.id \in Known(q)
  BY DEF IndInv, Sound, Fresh, Committing, Record, Operations, Known
<1>4. Agrees(new, After(q, r), Committing) /\ ~new.panicked
  BY <1>1, <1>2, <1>3, AgreesAppend
<1>5. /\ r.op \in {"retry", "dead"} => r.id \in then.index
      /\ r.op = "requeue" => r.id \in then.dlq
      /\ r.op \in {"ack", "retry", "dead", "requeue", "purge"}
      /\ r.id \in then.index \cup then.dlq
  BY <1>2, <1>3 DEF Agrees, Record, Operations, Known
<1>6. /\ new.index = IF r.op \in {"ack", "dead"} THEN then.index \ {r.id}
                     ELSE IF r.op = "requeue" THEN then.index \cup {r.id}
                     ELSE then.index
      /\ new.dlq = IF r.op = "dead" THEN then.dlq \cup {r.id}
                   ELSE IF r.op \in {"requeue", "purge"} THEN then.dlq \ {r.id}
                   ELSE then.dlq
      /\ new.retries = CASE r.op = "retry" -> [then.retries EXCEPT ![r.id] = @ + 1]
                         [] r.op = "dead" -> [then.retries EXCEPT ![r.id] = r.retries]
                         [] r.op = "requeue" -> [then.retries EXCEPT ![r.id] = 0]
                         [] OTHER -> then.retries
  BY <1>1, <1>2, <1>5, ApplyFields
<1>7. then.retries \in [Ids -> Nat] /\ then.index \subseteq Ids /\ then.dlq \subseteq Ids
  BY <1>1 DEF Memory
<1>8. then.retries[r.id] = q.retries[r.id]
  BY <1>2, <1>5 DEF Agrees
<1> HIDE DEF then, new
<1>9. Budget(new)
  <2>1. ASSUME NEW x \in new.index PROVE new.retries[x] <= MaxRetries
    BY <2>1, <1>1, <1>2, <1>3, <1>5, <1>6, <1>7, <1>8, StoreAssumption DEF Budget
  <2>2. ASSUME NEW x \in new.dlq PROVE new.retries[x] = MaxRetries + 1
    BY <2>2, <1>1, <1>2, <1>3, <1>5, <1>6, <1>7, <1>8, StoreAssumption DEF Budget
  <2> QED
    BY <2>1, <2>2 DEF Budget
<1>10. Unretried'
  <2>1. call[r.id] \notin {"idle", "append"}
    BY <1>3 DEF IndInv, Fresh
  <2>2. \A x \in Ids \ {r.id} : new.retries[x] = then.retries[x]
    BY <1>5, <1>6, <1>7
  <2> QED
    BY <1>1, <1>2, <2>1, <2>2 DEF Unretried, then
<1>11. Serial' /\ Committing' = Committing
  BY <1>2 DEF Serial, SameKeyBusy, Committing
<1> QED
  BY <1>1, <1>2, <1>4, <1>9, <1>10, <1>11 DEF RecInv

\* The operation in progress touches only its own task, which memory knows.
LEMMA PendingFields ==
  ASSUME IndInv
  PROVE  /\ After(q, pend) \in Memory
         /\ After(q, pend).indexOfIdemKeys = q.indexOfIdemKeys
         /\ \A id \in Ids : id \notin Known(q) =>
              After(q, pend).retries[id] = q.retries[id]
<1>1. q \in Memory /\ pend \in Record \cup {Idle}
  BY DEF IndInv, TypeOK
<1>2. CASE pend = Idle
  BY <1>1, <1>2, AfterIdle
<1>3. CASE pend.op = "enqueue"
  <2>1. After(q, pend) = q
    BY <1>3 DEF After
  <2> QED
    BY <1>1, <2>1
<1>4. CASE pend \in Record /\ pend.op # "enqueue"
  <2>1. /\ pend.op \in {"ack", "retry", "dead", "requeue", "purge"}
        /\ pend.id \in Ids /\ pend.id \in Known(q)
        /\ q.retries \in [Ids -> Nat]
    BY <1>1, <1>4 DEF Record, Operations, IndInv, Held, Known, Memory
  <2>2. After(q, pend) \in Memory
    <3>1. /\ AckEffect(q, pend.id) \in Memory /\ RetryEffect(q, pend.id) \in Memory
          /\ DeadEffect(q, pend.id) \in Memory /\ RequeueEffect(q, pend.id) \in Memory
          /\ PurgeEffect(q, pend.id) \in Memory
      BY <1>1, <2>1, EffectsInMemory
    <3> QED
      BY <2>1, <3>1 DEF After
  <2>3. /\ After(q, pend).indexOfIdemKeys = q.indexOfIdemKeys
        /\ After(q, pend).retries =
             CASE pend.op \in {"retry", "dead"} -> [q.retries EXCEPT ![pend.id] = @ + 1]
               [] pend.op = "requeue" -> [q.retries EXCEPT ![pend.id] = 0]
               [] OTHER -> q.retries
    BY <1>1, <1>4, AfterFields
  <2>4. \A id \in Ids : id \notin Known(q) => After(q, pend).retries[id] = q.retries[id]
    BY <2>1, <2>3
  <2> QED
    BY <2>2, <2>3, <2>4
<1> QED
  BY <1>1, <1>2, <1>3, <1>4

\* A step that leaves memory, the log and the operation in progress alone, while
\* the Enqueue calls move on without one of them appending or inserting.
LEMMA CallsKeepRecInv ==
  ASSUME IndInv, RecInv, q' = q, log' = log, pend' = pend,
         proc' = "up" => proc = "up", Committing' = Committing, Serial',
         \A id \in Ids : call'[id] \in {"idle", "append"} => call[id] \in {"idle", "append"},
         \A id \in Ids : call'[id] \in {"idle", "append", "commit"} =>
                           call[id] \in {"idle", "append", "commit"}
  PROVE  RecInv'
<1>1. Unretried'
  BY DEF RecInv, Unretried
<1> QED
  BY <1>1 DEF RecInv

\* The key of an Enqueue call that is about to append is as new to replay as it is
\* to memory.
LEMMA KeyIsNew ==
  ASSUME IndInv, RecInv, proc = "up", NEW id \in Ids, call[id] = "append"
  PROVE  ~KeyTaken(Replay(log), id)
<1>1. Agrees(Replay(log), After(q, pend), Committing) /\ Serial
  BY DEF RecInv
<1>2. KeyOf[id] # NoKey => /\ q.indexOfIdemKeys[KeyOf[id]] = None
                           /\ {x \in Committing : KeyOf[x] = KeyOf[id]} = {}
  BY <1>1 DEF Serial, SameKeyBusy, Committing
<1>3. After(q, pend).indexOfIdemKeys = q.indexOfIdemKeys /\ KeyOf[id] \in Keys
  BY PendingFields, KeyInKeys
<1> QED
  BY <1>1, <1>2, <1>3 DEF Agrees, KeyTaken

\* An Append that fails leaves the log as it was.
LEMMA FaultLeavesLog ==
  ASSUME Benign, faults \in Nat, faults < MaxFaults, NEW r, log' \in AfterFault(r)
  PROVE  log' = log
BY QueueAssumption DEF Benign, AfterFault

\* The steps of Enqueue.
LEMMA EnqueueKeepsRecInv ==
  ASSUME IndInv, RecInv, Benign, NEW id \in Ids, EnqueueStep(id)
  PROVE  RecInv'
<1> DEFINE then == Replay(log)
<1>0. /\ q \in Memory /\ call \in [Ids -> CallStates] /\ faults \in Nat
      /\ Committing \in SUBSET Ids
  BY DEF IndInv, TypeOK, Committing
<1>r. /\ Serial /\ Unretried /\ Budget(q) /\ Budget(then) /\ ~then.panicked
      /\ proc = "up" => Agrees(then, After(q, pend), Committing)
  BY DEF RecInv
<1>1. CASE EnqueueDedup(id)
  <2>1. Committing' = Committing
    BY <1>0, <1>1 DEF EnqueueDedup, Committing
  <2>2. Serial'
    BY <1>0, <1>1, <1>r DEF EnqueueDedup, Serial, SameKeyBusy
  <2> QED
    BY <1>0, <1>1, <2>1, <2>2, CallsKeepRecInv DEF EnqueueDedup
<1>2. CASE EnqueueBegin(id)
  <2>1. Committing' = Committing
    BY <1>0, <1>2 DEF EnqueueBegin, Committing
  <2>2. Serial'
    <3> SUFFICES ASSUME NEW x \in Ids, call'[x] \in {"append", "commit"}, KeyOf[x] # NoKey
                 PROVE  q'.indexOfIdemKeys[KeyOf[x]] = None /\ ~SameKeyBusy(x)'
      BY DEF Serial
    <3>1. /\ ~KeyTaken(q, id) /\ ~SameKeyBusy(id) /\ q' = q
          /\ call' = [call EXCEPT ![id] = "append"] /\ call[id] = "idle"
      BY <1>2 DEF EnqueueBegin, Benign
    <3>2. CASE x = id
      BY <1>0, <3>1, <3>2 DEF KeyTaken, SameKeyBusy
    <3>3. CASE x # id
      <4>1. call[x] \in {"append", "commit"} /\ KeyOf[x] # KeyOf[id]
        BY <1>0, <3>1, <3>3 DEF SameKeyBusy
      <4> QED
        BY <1>0, <1>r, <3>1, <4>1 DEF Serial, SameKeyBusy
    <3> QED
      BY <3>2, <3>3
  <2> QED
    BY <1>0, <1>2, <2>1, <2>2, CallsKeepRecInv DEF EnqueueBegin
<1>3. CASE EnqueueAppend(id)
  <2> DEFINE r == EncodeRecord("enqueue", id)
             new == ApplyRecord(then, r)
  <2>1. /\ proc = "up" /\ proc' = proc /\ call[id] = "append" /\ q' = q /\ pend' = pend
        /\ call' = [call EXCEPT ![id] = "commit"] /\ log' = Append(log, r)
        /\ r \in Record
    BY <1>3, EncodedRecord DEF EnqueueAppend, Operations
  <2>2. /\ Replay(log') = new /\ then \in Memory /\ Owned(then)
        /\ id \notin Known(then)
    BY <2>1, LogGrows
  <2>3. Agrees(then, After(q, pend), Committing)
    BY <1>r, <2>1
  <2>4. /\ After(q, pend) \in Memory /\ After(q, pend).retries[id] = 0
        /\ After(q, pend).indexOfIdemKeys = q.indexOfIdemKeys
    <3>1. q.retries[id] = 0 /\ id \notin Known(q)
      BY <1>r, <2>1 DEF Unretried, IndInv, Fresh
    <3> QED
      BY <3>1, PendingFields
  <2>5. ~KeyTaken(then, id)
    BY <2>1, KeyIsNew
  <2>6. /\ Agrees(new, After(q, pend), Committing \cup {id}) /\ ~new.panicked
        /\ new = Insert(then, id)
    BY <1>0, <1>r, <2>2, <2>3, <2>4, <2>5, AgreesEnqueue
  <2>7. Committing' = Committing \cup {id}
    BY <1>0, <2>1 DEF Committing
  <2>8. Serial'
    BY <1>0, <1>r, <2>1 DEF Serial, SameKeyBusy
  <2>9. /\ new.index = then.index \cup {id} /\ new.dlq = then.dlq
        /\ new.retries = [then.retries EXCEPT ![id] = 0]
        /\ then.retries \in [Ids -> Nat] /\ then.index \subseteq Ids /\ then.dlq \subseteq Ids
    <3> HIDE DEF new, then
    <3>1. then.retries \in [Ids -> Nat] /\ then.index \subseteq Ids /\ then.dlq \subseteq Ids
      BY <2>2 DEF Memory
    <3>2. then \in Memory /\ new = Insert(then, id)
      BY <2>2, <2>6
    <3> QED
      BY <3>1, <3>2, InsertFields
  <2> HIDE DEF new, then
  <2>10. Budget(new)
    BY <1>r, <2>2, <2>9, StoreAssumption DEF Budget, Known
  <2>11. Unretried'
    <3>1. \A x \in Ids : call'[x] \in {"idle", "append"} =>
            call[x] \in {"idle", "append"} /\ new.retries[x] = then.retries[x]
      BY <1>0, <2>1, <2>9
    <3>2. \A x \in Ids : call'[x] \in {"idle", "append", "commit"} =>
            call[x] \in {"idle", "append", "commit"}
      BY <1>0, <2>1
    <3> QED
      BY <1>r, <2>1, <2>2, <3>1, <3>2 DEF Unretried, then
  <2> QED
    BY <1>r, <2>1, <2>2, <2>6, <2>7, <2>8, <2>10, <2>11 DEF RecInv
<1>4. CASE EnqueueFails(id)
  <2>1. log' = log
    BY <1>0, <1>4, FaultLeavesLog DEF EnqueueFails
  <2>2. Committing' = Committing
    BY <1>0, <1>4 DEF EnqueueFails, Committing
  <2>3. Serial'
    BY <1>0, <1>4, <1>r DEF EnqueueFails, Serial, SameKeyBusy
  <2> QED
    BY <1>0, <1>4, <2>1, <2>2, <2>3, CallsKeepRecInv DEF EnqueueFails
<1>5. CASE EnqueueCommit(id)
  <2> DEFINE new == Insert(q, id)
  <2>1. /\ proc = "up" /\ pend = Idle /\ call[id] = "commit" /\ log' = log
        /\ pend' = pend /\ call' = [call EXCEPT ![id] = "done"]
    BY <1>5 DEF EnqueueCommit, Unlocked, IndInv, Held
  <2>2. ~KeyTaken(q, id)
    BY <1>r, <2>1 DEF Serial, KeyTaken
  <2>3. q' = new
    BY <1>5, <2>2 DEF EnqueueCommit
  <2>4. /\ Agrees(then, q, Committing) /\ q.retries[id] = 0 /\ id \in Committing
        /\ then \in Memory /\ Owned(then)
    BY <1>r, <2>1, AfterIdle DEF Unretried, Committing, IndInv, LogSound, Sound
  <2>5. Agrees(then, new, Committing \ {id})
    BY <1>0, <2>4, AgreesCommit
  <2>6. Committing' = Committing \ {id}
    BY <1>0, <2>1 DEF Committing
  <2>7. After(q', pend') = q'
    BY <2>1, AfterIdle
  <2>8. /\ new.index = q.index \cup {id} /\ new.dlq = q.dlq
        /\ new.retries = [q.retries EXCEPT ![id] = 0]
        /\ new.indexOfIdemKeys = [q.indexOfIdemKeys EXCEPT ![KeyOf[id]] = id]
        /\ q.retries \in [Ids -> Nat] /\ q.index \subseteq Ids /\ q.dlq \subseteq Ids
        /\ q.indexOfIdemKeys \in [Keys -> Ids \cup {None}]
    BY <1>0, InsertFields DEF Memory
  <2> HIDE DEF new, then
  <2>9. Budget(new)
    <3>1. id \notin q.dlq
      BY <2>1 DEF IndInv, Fresh, Known
    <3> QED
      BY <1>r, <2>8, <3>1, StoreAssumption DEF Budget
  <2>10. Unretried'
    BY <1>0, <1>r, <2>1, <2>3, <2>8 DEF Unretried
  <2>11. Serial'
    <3> SUFFICES ASSUME NEW x \in Ids, call'[x] \in {"append", "commit"}, KeyOf[x] # NoKey
                 PROVE  q'.indexOfIdemKeys[KeyOf[x]] = None /\ ~SameKeyBusy(x)'
      BY DEF Serial
    <3>1. x # id /\ call[x] \in {"append", "commit"} /\ KeyOf[x] \in Keys
      BY <1>0, <2>1, KeyInKeys
    <3>2. q.indexOfIdemKeys[KeyOf[x]] = None /\ ~SameKeyBusy(x)
      BY <1>r, <3>1 DEF Serial
    <3>3. KeyOf[x] # KeyOf[id]
      BY <2>1, <3>1, <3>2 DEF SameKeyBusy
    <3> QED
      BY <1>0, <2>1, <2>3, <2>8, <3>1, <3>2, <3>3 DEF SameKeyBusy
  <2> QED
    BY <1>r, <2>1, <2>3, <2>5, <2>6, <2>7, <2>9, <2>10, <2>11 DEF RecInv, then
<1> QED
  BY <1>1, <1>2, <1>3, <1>4, <1>5 DEF EnqueueStep

\* retryLocked counts the attempt, or sends the task that has used its budget to
\* the DLQ with the count that went over.
LEMMA RetryRecordBudget ==
  ASSUME IndInv, Budget(q), NEW id \in q.index
  PROVE  LET r == RetryRecord(id)
         IN  /\ r.op = "retry" => q.retries[r.id] + 1 <= MaxRetries
             /\ r.op = "dead" => r.retries = q.retries[r.id] + 1 /\ r.retries = MaxRetries + 1
<1>1. q.retries[id] \in Nat /\ q.retries[id] <= MaxRetries
  BY DEF IndInv, TypeOK, Memory, Budget
<1> QED
  BY <1>1, StoreAssumption DEF RetryRecord, DeadRecord, EncodeRecord

\* What a step of the queue can be, as far as recovery is concerned.
LEMMA StepKinds ==
  ASSUME IndInv, RecInv, Benign, [Next]_vars
  PROVE  \/ \E id \in Ids : EnqueueStep(id)
         \/ \E r \in Record : HolderAppends(r)
         \/ Returns
         \/ \E id \in Ids : Dequeue(id)
         \/ Crash
         \/ NewQueue
         \/ NothingRecorded
<1>0. faults \in Nat /\ TypeOK /\ Budget(q)
  BY DEF IndInv, TypeOK, RecInv
<1>1. ASSUME NEW r \in Record, CallerAppends(r)
      PROVE  \/ /\ proc = "up" /\ pend = Idle /\ log' = Append(log, r) /\ pend' = r
                /\ UNCHANGED <<q, call, ret, proc>>
             \/ NothingRecorded
  <2>1. CASE faults < MaxFaults /\ log' \in AfterFault(r) /\ UNCHANGED <<pend, mu>>
    <3>1. log' = log
      BY <1>0, <2>1, FaultLeavesLog
    <3> QED
      BY <1>1, <2>1, <3>1 DEF CallerAppends, NothingRecorded
  <2>2. CASE log' = Append(log, r) /\ pend' = r
    BY <1>1, <2>2 DEF CallerAppends, Unlocked, IndInv, Held
  <2> QED
    BY <1>1, <2>1, <2>2 DEF CallerAppends
<1>2. ASSUME NEW op \in {"ack", "requeue", "purge"}, NEW id \in Ids,
             CallerAppends(EncodeRecord(op, id)),
             op = "ack" => id \in q.index, op \in {"requeue", "purge"} => id \in q.dlq
      PROVE  NothingRecorded \/ \E r \in Record : HolderAppends(r)
  <2> DEFINE r == EncodeRecord(op, id)
  <2>1. r \in Record /\ r.op = op /\ r.id = id
    BY EncodedRecord DEF Operations
  <2> HIDE DEF r
  <2>2. CallerAppends(r)
    BY <1>2 DEF r
  <2> QED
    BY <1>1, <1>2, <2>1, <2>2 DEF HolderAppends
<1>3. ASSUME NEW id \in q.index, proc = "up", pend = Idle,
             log' = Append(log, RetryRecord(id)), pend' = RetryRecord(id),
             UNCHANGED <<q, call, ret, proc>>
      PROVE  \E r \in Record : HolderAppends(r)
  <2> DEFINE r == RetryRecord(id)
  <2>0. id \in Ids
    BY <1>0 DEF TypeOK, Memory
  <2>1. r \in Record /\ r.op \in {"retry", "dead"} /\ r.id = id
    BY <1>0, <2>0, RetryRecordIs
  <2>2. /\ r.op = "retry" => q.retries[r.id] + 1 <= MaxRetries
        /\ r.op = "dead" => r.retries = q.retries[r.id] + 1 /\ r.retries = MaxRetries + 1
    BY <1>0, RetryRecordBudget
  <2>3. log' = Append(log, r) /\ pend' = r
    BY <1>3
  <2> HIDE DEF r
  <2> QED
    BY <1>3, <2>1, <2>2, <2>3 DEF HolderAppends
<1>4. ASSUME NEW id \in Ids, CallerStep(id)
      PROVE  Dequeue(id) \/ NothingRecorded \/ \E r \in Record : HolderAppends(r)
  <2>1. CASE Ack(id)
    BY <1>2, <2>1 DEF Ack
  <2>2. CASE Retry(id)
    <3>1. id \in q.index /\ RetryRecord(id) \in Record /\ CallerAppends(RetryRecord(id))
      BY <1>0, <2>2, RetryRecordIs DEF Retry
    <3> QED
      BY <1>1, <1>3, <3>1
  <2>3. CASE RequeueDead(id)
    BY <1>2, <2>3 DEF RequeueDead
  <2>4. CASE PurgeDeadTask(id)
    BY <1>2, <2>4 DEF PurgeDeadTask
  <2> QED
    BY <1>4, <2>1, <2>2, <2>3, <2>4 DEF CallerStep
<1>5. ASSUME NEW id \in Ids, SweepVisit(id)
      PROVE  NothingRecorded \/ \E r \in Record : HolderAppends(r)
  <2>1. CASE SweepKeep(id)
    BY <2>1 DEF SweepKeep, NothingRecorded
  <2>2. CASE SweepAbort(id)
    <3>1. log' = log
      BY <1>0, <2>2, FaultLeavesLog DEF SweepAbort
    <3> QED
      BY <2>2, <3>1 DEF SweepAbort, NothingRecorded
  <2>3. CASE SweepRetry(id)
    BY <1>3, <2>3 DEF SweepRetry, Sweeping
  <2> QED
    BY <1>5, <2>1, <2>2, <2>3 DEF SweepVisit
<1>6. SweepBegin \/ SweepEnd \/ (\E id \in Ids : TimePasses(id)) \/ UNCHANGED vars
        => NothingRecorded
  BY DEF SweepBegin, SweepEnd, TimePasses, LeaseExpires, BackoffElapses, vars, NothingRecorded
<1> QED
  BY <1>4, <1>5, <1>6 DEF Next

\* Dequeue changes nothing that recovery is about.
LEMMA DequeueFields ==
  ASSUME IndInv, NEW id \in Ids, Dequeue(id)
  PROVE  /\ q'.index = q.index /\ q'.dlq = q.dlq /\ q'.retries = q.retries
         /\ q'.indexOfIdemKeys = q.indexOfIdemKeys
         /\ After(q, pend) = q /\ After(q', pend') = q'
         /\ proc = "up" /\ UNCHANGED <<log, call, ret, pend, proc>>
<1>1. q' = DequeueEffect(q, id) /\ q \in Memory /\ pend = Idle /\ pend' = pend
  BY DEF Dequeue, Unlocked, IndInv, Held, TypeOK
<1>2. /\ q'.index = q.index /\ q'.dlq = q.dlq /\ q'.retries = q.retries
      /\ q'.indexOfIdemKeys = q.indexOfIdemKeys
  BY <1>1 DEF DequeueEffect, Memory
<1>3. After(q, pend) = q /\ After(q', pend') = q'
  BY <1>1, AfterIdle
<1> QED
  BY <1>2, <1>3 DEF Dequeue, Unlocked

\* Dequeue.
LEMMA DequeueKeepsRecInv ==
  ASSUME IndInv, RecInv, NEW id \in Ids, Dequeue(id)
  PROVE  RecInv'
<1>1. /\ q'.index = q.index /\ q'.dlq = q.dlq /\ q'.retries = q.retries
      /\ q'.indexOfIdemKeys = q.indexOfIdemKeys
      /\ After(q, pend) = q /\ After(q', pend') = q'
      /\ proc = "up" /\ UNCHANGED <<log, call, ret, pend, proc>>
  BY DequeueFields
<1>2. Agrees(Replay(log), q', Committing)
  BY <1>1 DEF RecInv, Agrees
<1>3. Serial' /\ Unretried' /\ Budget(q') /\ Committing' = Committing
  BY <1>1 DEF RecInv, Serial, SameKeyBusy, Unretried, Budget, Committing
<1> QED
  BY <1>1, <1>2, <1>3 DEF RecInv

\* Returning is what RecInv already speaks of: memory becomes After(q, pend).
LEMMA ReturnsApply ==
  ASSUME IndInv, Returns
  PROVE  /\ q' = After(q, pend) /\ pend' = Idle /\ log' = log /\ call' = call
         /\ proc = "up" /\ proc' = "up" /\ ret' = ret
         /\ pend \in Record /\ pend.op \in {"ack", "retry", "dead", "requeue", "purge"}
         /\ pend.id \in Known(q)
<1>1. /\ proc = "up" /\ pend.op \in {"ack", "retry", "dead", "requeue", "purge"}
      /\ q' = After(q, pend)
  BY DEF Returns, AckReturns, RetryReturns, DeadReturns, RequeueReturns, PurgeReturns,
         Applies, After
<1>2. Release
  BY DEF Returns, AckReturns, RetryReturns, DeadReturns, RequeueReturns, PurgeReturns
<1>3. pend \in Record /\ pend.id \in Known(q)
  BY <1>1 DEF IndInv, TypeOK, Idle, Held, Known
<1> QED
  BY <1>1, <1>2, <1>3 DEF Release

\* The second half of the operations that append.
LEMMA ReturnsKeepRecInv ==
  ASSUME IndInv, RecInv, Returns
  PROVE  RecInv'
<1> DEFINE new == After(q, pend)
           then == Replay(log)
<1>1. /\ q' = new /\ pend' = Idle /\ log' = log /\ call' = call
      /\ proc = "up" /\ proc' = "up" /\ pend.id \in Known(q)
  BY ReturnsApply
<1>2. /\ new \in Memory /\ new.indexOfIdemKeys = q.indexOfIdemKeys
      /\ \A id \in Ids : id \notin Known(q) => new.retries[id] = q.retries[id]
  BY PendingFields
<1>3. Agrees(then, new, Committing) /\ Budget(then) /\ Serial /\ Unretried /\ ~then.panicked
  BY <1>1 DEF RecInv
<1>4. After(q', pend') = q' /\ Committing' = Committing
  BY <1>1, AfterIdle DEF Committing
<1> HIDE DEF new, then
<1>5. Budget(new)
  BY <1>3 DEF Agrees, Budget
<1>6. Unretried'
  <2>1. \A id \in Ids : call[id] \in {"idle", "append", "commit"} =>
          id \notin Known(q) /\ q.retries[id] = 0
    BY <1>3 DEF IndInv, Fresh, Unretried
  <2> QED
    BY <1>1, <1>2, <1>3, <2>1 DEF Unretried
<1>7. Serial'
  BY <1>1, <1>2, <1>3 DEF Serial, SameKeyBusy
<1> QED
  BY <1>1, <1>3, <1>4, <1>5, <1>6, <1>7 DEF RecInv, then

\* Time, the sweeper's other steps, and stuttering.
LEMMA QuietKeepsRecInv ==
  ASSUME IndInv, RecInv, NothingRecorded
  PROVE  RecInv'
<1>1. Committing' = Committing /\ Serial'
  BY DEF NothingRecorded, Committing, RecInv, Serial, SameKeyBusy
<1> QED
  BY <1>1, CallsKeepRecInv DEF NothingRecorded

\* A crash: nothing is claimed of memory until the log has been replayed.
LEMMA CrashKeepsRecInv ==
  ASSUME IndInv, RecInv, Crash
  PROVE  RecInv'
<1>1. /\ q' = EmptyMemory /\ log' = log /\ proc' = "down"
      /\ call' = [id \in Ids |-> IF call[id] \in {"append", "commit"}
                                 THEN "lost" ELSE call[id]]
  BY DEF Crash
<1>2. Budget(EmptyMemory) /\ \A id \in Ids : EmptyMemory.retries[id] = 0
  BY DEF EmptyMemory, Budget
<1>3. Serial' /\ Unretried'
  BY <1>1, <1>2 DEF RecInv, Serial, Unretried
<1> QED
  BY <1>1, <1>2, <1>3 DEF RecInv

\* Recovery: memory becomes the memory that was in agreement all along.
LEMMA NewQueueKeepsRecInv ==
  ASSUME IndInv, RecInv, NewQueue
  PROVE  RecInv' /\ proc' = "up" /\ q' = Replay(log)
<1> DEFINE then == Replay(log)
<1>1. /\ q' = then /\ log' = log /\ pend' = pend /\ call' = call
      /\ proc' = "up" /\ pend = Idle
      /\ \A id \in Ids : call[id] \notin {"append", "commit"}
  BY DEF NewQueue, RecInv, IndInv, Held
<1>2. Committing' = {} /\ After(q', pend') = then
  BY <1>1, AfterIdle DEF Committing
<1> HIDE DEF then
<1>3. Agrees(then, then, {})
  BY DEF Agrees
<1>4. Serial'
  BY <1>1 DEF Serial
<1>5. Unretried'
  BY <1>1 DEF RecInv, Unretried, then
<1> QED
  BY <1>1, <1>2, <1>3, <1>4, <1>5 DEF RecInv, then

\* Recovery's invariant holds in every reachable state.
THEOREM RecoveryInvariance == ASSUME Benign PROVE Spec => []RecInv
<1>1. IndInv /\ RecInv /\ [Next]_vars => RecInv'
  <2> SUFFICES ASSUME IndInv, RecInv, [Next]_vars PROVE RecInv'
    OBVIOUS
  <2> QED
    BY StepKinds, EnqueueKeepsRecInv, RecordKeepsRecInv, ReturnsKeepRecInv,
       DequeueKeepsRecInv, CrashKeepsRecInv, NewQueueKeepsRecInv, QuietKeepsRecInv
<1> QED
  BY <1>1, InitRecInv, Invariance, PTL DEF Spec

\* Write-ahead logging is right: at whatever moment the process dies, replaying the
\* log rebuilds the tasks, the dead tasks, their retry counts and the keys that
\* memory holds once the operations in progress are applied.
THEOREM RecoveryIsExact == ASSUME Benign PROVE Spec => []RecoveryAgrees
<1>1. RecInv => RecoveryAgrees
  BY AfterIsPendingApplied DEF RecInv, Agrees, RecoveryAgrees
<1> QED
  BY <1>1, RecoveryInvariance, PTL

\* No record of the log ever makes NewQueue dereference a task it does not find:
\* recovery succeeds from any log such a queue wrote.
THEOREM RecoveryNeverPanics == ASSUME Benign PROVE Spec => []RecoverySucceeds
<1>1. Init => RecoverySucceeds
  BY DEF Init, RecoverySucceeds
<1>2. IndInv /\ RecInv /\ RecoverySucceeds /\ [Next]_vars => RecoverySucceeds'
  <2> SUFFICES ASSUME IndInv, RecInv, RecoverySucceeds, [Next]_vars
               PROVE  RecoverySucceeds'
    OBVIOUS
  <2>1. CASE \E id \in Ids : EnqueueStep(id)
    BY <2>1 DEF RecoverySucceeds, EnqueueStep, EnqueueDedup, EnqueueBegin, EnqueueAppend,
                EnqueueFails, EnqueueCommit
  <2>2. CASE NewQueue
    BY <2>2, NewQueueKeepsRecInv DEF RecoverySucceeds
  <2> QED
    BY StepKinds, <2>1, <2>2, ReturnsApply
       DEF RecoverySucceeds, HolderAppends, Dequeue, Crash, NothingRecorded
<1> QED
  BY <1>1, <1>2, Invariance, RecoveryInvariance, PTL DEF Spec

\* A live task has used at most maxRetries retries and a dead one exactly one more,
\* whatever mixture of Retry calls, sweeps, crashes and replays led there.
THEOREM RetriesAreBounded == ASSUME Benign PROVE Spec => []RetryBudget
<1>1. RecInv => RetryBudget
  BY DEF RecInv, Budget, RetryBudget
<1> QED
  BY <1>1, RecoveryInvariance, PTL

----------------------------------------------------------------------------

\* A task is accounted for: recovery knows it, or it was finished or purged.
Accounted(id) ==
  id \in Known(Replay(log)) \/ Logged("ack", id) \/ Logged("purge", id)

\* Every key recovery knows, and every ID Enqueue returned, leads to a task that
\* is accounted for; the ID returned is the one the key leads to.
Accounts ==
  /\ \A k \in Keys \ {NoKey} :
       Replay(log).indexOfIdemKeys[k] # None => Accounted(Replay(log).indexOfIdemKeys[k])
  /\ \A id \in Ids : call[id] = "done" =>
       /\ ret[id] \in Ids /\ Accounted(ret[id])
       /\ KeyOf[id] # NoKey => Replay(log).indexOfIdemKeys[KeyOf[id]] = ret[id]

\* The log has no record of a task before its ENQUEUE, and none brings back a
\* task that was acknowledged.
History ==
  /\ \A id \in Ids : call[id] \in {"idle", "append"} =>
       \A n \in 1..Len(log) : log[n].id # id
  /\ \A id \in Ids : Logged("ack", id) => id \notin Known(Replay(log))

\* What is logged stays logged.
LEMMA LoggedAppend ==
  ASSUME log \in Seq(Record), NEW r \in Record, log' = Append(log, r)
  PROVE  \A op, id : Logged(op, id)' <=> Logged(op, id) \/ (r.op = op /\ r.id = id)
<1>1. /\ Len(log') = Len(log) + 1 /\ log'[Len(log) + 1] = r /\ Len(log) \in Nat
      /\ \A n \in 1..Len(log) : log'[n] = log[n]
  OBVIOUS
<1>2. ASSUME NEW op, NEW id
      PROVE  Logged(op, id)' <=> Logged(op, id) \/ (r.op = op /\ r.id = id)
  <2>1. \A n \in 1..Len(log') : n \in 1..Len(log) \/ n = Len(log) + 1
    BY <1>1
  <2>2. 1..Len(log) \subseteq 1..Len(log') /\ Len(log) + 1 \in 1..Len(log')
    BY <1>1
  <2> QED
    BY <1>1, <2>1, <2>2 DEF Logged
<1> QED
  BY <1>2

\* A record other than ENQUEUE takes a task out of recovery's reach only if it is
\* that task's ACK or PURGE.
LEMMA RecordKeepsAccounts ==
  ASSUME IndInv, RecInv, Accounts, History, NEW r \in Record, HolderAppends(r)
  PROVE  Accounts' /\ History'
<1> USE DEF HolderAppends
<1> DEFINE then == Replay(log)
           new == Replay(log')
<1>1. /\ new = ApplyRecord(then, r) /\ then \in Memory /\ then.index \cap then.dlq = {}
  BY LogGrows
<1>2. Agrees(then, q, Committing) /\ ~then.panicked
  BY AfterIdle DEF RecInv
<1>3. /\ r.op \in {"ack", "retry", "dead"} => r.id \in then.index
      /\ r.op \in {"requeue", "purge"} => r.id \in then.dlq
      /\ r.op \in {"ack", "retry", "dead", "requeue", "purge"}
      /\ r.id \in Ids /\ r.id \in Known(q)
  BY <1>2 DEF Agrees, Record, Operations, Known
<1>4. /\ new.index = IF r.op \in {"ack", "dead"} THEN then.index \ {r.id}
                     ELSE IF r.op = "requeue" THEN then.index \cup {r.id}
                     ELSE then.index
      /\ new.dlq = IF r.op = "dead" THEN then.dlq \cup {r.id}
                   ELSE IF r.op \in {"requeue", "purge"} THEN then.dlq \ {r.id}
                   ELSE then.dlq
      /\ new.indexOfIdemKeys = then.indexOfIdemKeys
  <2>1. /\ r.op \in {"retry", "dead"} => r.id \in then.index
        /\ r.op = "requeue" => r.id \in then.dlq
    BY <1>3
  <2> HIDE DEF then, new
  <2> QED
    BY <1>1, <1>2, <2>1, ApplyFields
<1> HIDE DEF then, new
<1>5. \A op, id : Logged(op, id)' <=> Logged(op, id) \/ (r.op = op /\ r.id = id)
  BY LoggedAppend DEF IndInv, TypeOK
<1>6. \A id : Accounted(id) => Accounted(id)'
  BY <1>3, <1>4, <1>5 DEF Accounted, Known, then, new
<1>7. Accounts'
  BY <1>4, <1>6 DEF Accounts, then, new
<1>8. \A id \in Ids : Logged("ack", id)' => id \notin Known(new)
  BY <1>1, <1>3, <1>4, <1>5 DEF History, Known, then
<1>9. \A id \in Ids : call[id] \in {"idle", "append"} => \A n \in 1..Len(log') : log'[n].id # id
  <2>1. call[r.id] \notin {"idle", "append"}
    BY <1>3 DEF IndInv, Fresh
  <2>2. \A n \in 1..Len(log') : log'[n] = r \/ (n \in 1..Len(log) /\ log'[n] = log[n])
    <3>1. log \in Seq(Record)
      BY DEF IndInv, TypeOK
    <3> QED
      BY <3>1
  <2> QED
    BY <2>1, <2>2 DEF History
<1> QED
  BY <1>7, <1>8, <1>9 DEF History, new

\* A step that does not touch the log, where no Enqueue call returns.
LEMMA QuietKeepsAccounts ==
  ASSUME Accounts, History, log' = log, ret' = ret,
         \A id \in Ids : /\ call'[id] = "done" => call[id] = "done"
                         /\ call'[id] \in {"idle", "append"} => call[id] \in {"idle", "append"}
  PROVE  Accounts' /\ History'
<1>1. \A op, id : Logged(op, id)' <=> Logged(op, id)
  BY DEF Logged
<1>2. \A id : Accounted(id)' <=> Accounted(id)
  BY <1>1 DEF Accounted
<1>3. Accounts'
  BY <1>2 DEF Accounts
<1>4. History'
  BY <1>1 DEF History
<1> QED
  BY <1>3, <1>4

\* While no operation is in progress a key that memory knows leads replay to the
\* same task: the Enqueue call that could make a difference has not begun.
LEMMA SameKeys ==
  ASSUME IndInv, RecInv, proc = "up", pend = Idle, NEW id \in Ids, KeyTaken(q, id)
  PROVE  Replay(log).indexOfIdemKeys[KeyOf[id]] = q.indexOfIdemKeys[KeyOf[id]]
<1>1. Agrees(Replay(log), q, Committing) /\ Serial
  BY AfterIdle DEF RecInv
<1>2. KeyOf[id] \in Keys \ {NoKey} /\ q.indexOfIdemKeys[KeyOf[id]] # None
  BY KeyInKeys DEF KeyTaken
<1>3. {x \in Committing : KeyOf[x] = KeyOf[id]} = {}
  BY <1>1, <1>2 DEF Serial, Committing
<1> QED
  BY <1>1, <1>2, <1>3 DEF Agrees

\* The steps of Enqueue.
LEMMA EnqueueKeepsAccounts ==
  ASSUME IndInv, RecInv, Accounts, History, Benign, NEW id \in Ids, EnqueueStep(id)
  PROVE  Accounts' /\ History'
<1> DEFINE then == Replay(log)
           key == KeyOf[id]
<1>0. /\ call \in [Ids -> CallStates] /\ ret \in [Ids -> Ids \cup {None}]
      /\ faults \in Nat /\ log \in Seq(Record)
      /\ then \in Memory /\ Owned(then) /\ key \in Keys
  BY KeyInKeys DEF IndInv, TypeOK, LogSound, Sound
<1>ret. ASSUME NEW t \in Ids, log' = log, ret' = [ret EXCEPT ![id] = t], Accounted(t),
               call' = [call EXCEPT ![id] = "done"],
               key # NoKey => then.indexOfIdemKeys[key] = t
        PROVE  Accounts' /\ History'
  <2>1. \A op, x : Logged(op, x)' <=> Logged(op, x)
    BY <1>ret DEF Logged
  <2>2. \A x : Accounted(x)' <=> Accounted(x)
    BY <1>ret, <2>1 DEF Accounted
  <2>3. \A x \in Ids : /\ x # id => call'[x] = call[x] /\ ret'[x] = ret[x]
                       /\ ret'[id] = t /\ call'[id] = "done"
    BY <1>0, <1>ret
  <2>4. Accounts'
    BY <1>ret, <2>2, <2>3 DEF Accounts
  <2>5. History'
    BY <1>ret, <2>1, <2>3 DEF History
  <2> QED
    BY <2>4, <2>5
<1>1. CASE EnqueueDedup(id)
  <2>1. /\ proc = "up" /\ pend = Idle /\ KeyTaken(q, id) /\ log' = log
        /\ call' = [call EXCEPT ![id] = "done"]
        /\ ret' = [ret EXCEPT ![id] = q.indexOfIdemKeys[key]]
    BY <1>1 DEF EnqueueDedup, Unlocked, IndInv, Held
  <2>2. then.indexOfIdemKeys[key] = q.indexOfIdemKeys[key]
    BY <2>1, SameKeys
  <2>3. q.indexOfIdemKeys[key] \in Ids /\ key # NoKey
    BY <1>0, <2>1 DEF KeyTaken, IndInv, TypeOK, Memory
  <2>4. Accounted(q.indexOfIdemKeys[key])
    BY <1>0, <2>2, <2>3, StoreAssumption DEF Accounts
  <2> QED
    BY <1>ret, <2>1, <2>2, <2>3, <2>4
<1>2. CASE EnqueueBegin(id)
  BY <1>0, <1>2, QuietKeepsAccounts DEF EnqueueBegin
<1>3. CASE EnqueueAppend(id)
  <2> DEFINE r == EncodeRecord("enqueue", id)
             new == Replay(log')
  <2>1. /\ proc = "up" /\ call[id] = "append" /\ ret' = ret
        /\ call' = [call EXCEPT ![id] = "commit"] /\ log' = Append(log, r)
        /\ r \in Record /\ r.op = "enqueue" /\ r.id = id
    BY <1>3, EncodedRecord DEF EnqueueAppend, Operations
  <2>2. new = ApplyRecord(then, r) /\ id \notin Known(then)
    BY <2>1, LogGrows
  <2>3. Agrees(then, After(q, pend), Committing) /\ ~then.panicked /\ Serial
    BY <2>1 DEF RecInv
  <2>4. ~KeyTaken(then, id)
    BY <2>1, KeyIsNew
  <2>5. new = Insert(then, id)
    BY <2>2, <2>3, <2>4 DEF ApplyRecord, EncodeRecord, ReplayEnqueue
  <2> HIDE DEF new, then
  <2>6. /\ Known(new) = Known(then) \cup {id}
        /\ new.indexOfIdemKeys = [then.indexOfIdemKeys EXCEPT ![key] = id]
        /\ then.indexOfIdemKeys \in [Keys -> Ids \cup {None}]
    <3>1. then.indexOfIdemKeys \in [Keys -> Ids \cup {None}]
      BY <1>0 DEF Memory
    <3>2. then \in Memory /\ new = Insert(then, id)
      BY <1>0, <2>5
    <3>3. /\ new.index = then.index \cup {id} /\ new.dlq = then.dlq
          /\ new.indexOfIdemKeys = [then.indexOfIdemKeys EXCEPT ![key] = id]
      BY <3>2, InsertFields
    <3> QED
      BY <3>1, <3>3 DEF Known
  <2>7. \A op, x : Logged(op, x)' <=> Logged(op, x) \/ (op = "enqueue" /\ x = id)
    BY <1>0, <2>1, LoggedAppend
  <2>8. \A x : Accounted(x) => Accounted(x)'
    BY <2>6, <2>7 DEF Accounted, then, new
  <2>9. Accounted(id)'
    BY <2>6 DEF Accounted, new
  <2>10. \A x \in Ids : call'[x] = "done" => call[x] = "done" /\ x # id
    BY <1>0, <2>1
  <2>11. \A k \in Keys \ {NoKey} : \A t :
           new.indexOfIdemKeys[k] = t /\ t # None => Accounted(t)'
    BY <1>0, <2>6, <2>8, <2>9 DEF Accounts, then
  <2>12. ASSUME NEW x \in Ids, call'[x] = "done"
         PROVE  /\ ret'[x] \in Ids /\ Accounted(ret[x])'
                /\ KeyOf[x] # NoKey => new.indexOfIdemKeys[KeyOf[x]] = ret'[x]
    <3>1. /\ ret[x] \in Ids /\ Accounted(ret[x])
          /\ KeyOf[x] # NoKey => then.indexOfIdemKeys[KeyOf[x]] = ret[x]
      BY <2>10, <2>12 DEF Accounts, then
    <3>2. KeyOf[x] \in Keys
      BY KeyInKeys
    <3>3. KeyOf[x] # NoKey => KeyOf[x] # key
      BY <2>4, <3>1, StoreAssumption DEF KeyTaken
    <3>4. KeyOf[x] # NoKey => new.indexOfIdemKeys[KeyOf[x]] = ret[x]
      BY <2>6, <3>1, <3>2, <3>3
    <3>5. Accounted(ret[x])'
      BY <2>1, <2>8, <3>1
    <3> QED
      BY <2>1, <3>1, <3>4, <3>5
  <2>13. Accounts'
    BY <2>11, <2>12 DEF Accounts, new
  <2>14. History'
    <3>1. \A x \in Ids : Logged("ack", x)' => x \notin Known(new)
      <4>1. ~Logged("ack", id)
        BY <2>1 DEF History, Logged
      <4> QED
        BY <2>6, <2>7, <4>1 DEF History, then
    <3>2. \A n \in 1..Len(log') : log'[n].id = id \/ (n \in 1..Len(log) /\ log'[n] = log[n])
      BY <1>0, <2>1
    <3>3. \A x \in Ids : call'[x] \in {"idle", "append"} =>
            call[x] \in {"idle", "append"} /\ x # id
      BY <1>0, <2>1
    <3> QED
      BY <3>1, <3>2, <3>3 DEF History, new
  <2> QED
    BY <2>13, <2>14
<1>4. CASE EnqueueFails(id)
  <2>1. log' = log
    BY <1>0, <1>4, FaultLeavesLog DEF EnqueueFails
  <2> QED
    BY <1>0, <1>4, <2>1, QuietKeepsAccounts DEF EnqueueFails
<1>5. CASE EnqueueCommit(id)
  <2>1. /\ proc = "up" /\ pend = Idle /\ call[id] = "commit" /\ log' = log
        /\ call' = [call EXCEPT ![id] = "done"]
    BY <1>5 DEF EnqueueCommit, Unlocked, IndInv, Held
  <2>2. ~KeyTaken(q, id)
    BY <2>1 DEF RecInv, Serial, KeyTaken
  <2>3. ret' = [ret EXCEPT ![id] = id]
    BY <1>5, <2>2 DEF EnqueueCommit
  <2>4. id \in then.index
    BY <2>1, AfterIdle DEF RecInv, Agrees, Committing
  <2>5. Accounted(id) /\ (key # NoKey => then.indexOfIdemKeys[key] = id)
    BY <1>0, <2>4 DEF Accounted, Known, Owned
  <2> QED
    BY <1>ret, <2>1, <2>3, <2>5
<1> QED
  BY <1>1, <1>2, <1>3, <1>4, <1>5 DEF EnqueueStep

\* What is accounted for stays so.
LEMMA AccountsInvariance == ASSUME Benign PROVE Spec => [](Accounts /\ History)
<1>1. Init => Accounts /\ History
  <2> SUFFICES ASSUME Init PROVE Accounts /\ History
    OBVIOUS
  <2>1. Replay(log) = EmptyMemory /\ log = <<>>
    BY ReplayEmpty DEF Init
  <2>2. \A k \in Keys : EmptyMemory.indexOfIdemKeys[k] = None
    BY DEF EmptyMemory
  <2>3. Accounts
    BY <2>1, <2>2 DEF Accounts, Init
  <2>4. History
    BY <2>1 DEF History, Logged
  <2> QED
    BY <2>3, <2>4
<1>2. IndInv /\ RecInv /\ (Accounts /\ History) /\ [Next]_vars => (Accounts /\ History)'
  <2> SUFFICES ASSUME IndInv, RecInv, Accounts, History, [Next]_vars
               PROVE  Accounts' /\ History'
    OBVIOUS
  <2>1. CASE Crash
    BY <2>1, QuietKeepsAccounts DEF Crash, IndInv, TypeOK
  <2>2. CASE NewQueue
    BY <2>2, QuietKeepsAccounts DEF NewQueue
  <2>3. CASE Returns
    BY <2>3, ReturnsApply, QuietKeepsAccounts
  <2>4. CASE NothingRecorded \/ \E id \in Ids : Dequeue(id)
    BY <2>4, QuietKeepsAccounts DEF NothingRecorded, Dequeue
  <2> QED
    BY StepKinds, EnqueueKeepsAccounts, RecordKeepsAccounts, <2>1, <2>2, <2>3, <2>4
<1> QED
  BY <1>1, <1>2, Invariance, RecoveryInvariance, PTL DEF Spec

\* A crash loses no accepted task: the ID that Enqueue returned is one that
\* recovery knows until its ACK or PURGE is logged, for a call that deduplicated
\* on a key as much as for one that inserted.
THEOREM NoAcceptedTaskIsLost == ASSUME Benign PROVE Spec => []AcceptedSurvives
<1>1. Accounts => AcceptedSurvives
  BY DEF Accounts, Accounted, AcceptedSurvives, Known
<1> QED
  BY <1>1, AccountsInvariance, PTL

\* Enqueue is idempotent: all calls with one key that returned nil, before and
\* after any crash, returned one task ID.
THEOREM EnqueueIsIdempotent == ASSUME Benign PROVE Spec => []OneTaskPerKey
<1>1. Accounts => OneTaskPerKey
  BY DEF Accounts, OneTaskPerKey
<1> QED
  BY <1>1, AccountsInvariance, PTL

----------------------------------------------------------------------------

\* The life of a task as the log alone tells it, m being the memory it rebuilds.
LifeOf(m) ==
  [id \in Ids |-> IF id \in m.index THEN "live"
                  ELSE IF id \in m.dlq THEN "dead"
                  ELSE IF Logged("ack", id) THEN "done"
                  ELSE IF Logged("purge", id) THEN "purged" ELSE "absent"]

TriesOf(m) == [id \in Ids |-> IF id \in Known(m) THEN m.retries[id] ELSE 0]

\* The refinement mapping reads a task's life off memory while the process is up;
\* agreement makes it a function of the log, which no crash touches.
LEMMA LifeIsLogged ==
  ASSUME IndInv, RecInv
  PROVE  /\ Lives(View) = LifeOf(Replay(log))
         /\ Attempts(View) = TriesOf(Replay(log))
<1> DEFINE then == Replay(log)
           now == View
<1>1. then.index \cap then.dlq = {}
  BY DEF IndInv, LogSound, Sound
<1>2. Agrees(then, now, Committing)
  <2>1. CASE proc = "up"
    BY <2>1, AfterIsPendingApplied DEF RecInv, View
  <2>2. CASE proc # "up"
    <3>1. Committing = {}
      BY <2>2 DEF IndInv, Held, Committing
    <3>2. now = then
      BY <2>2 DEF View
    <3> QED
      BY <3>1, <3>2 DEF Agrees
  <2> QED
    BY <2>1, <2>2
<1> HIDE DEF then, now
<1>3. /\ now.index \cup Committing = then.index
      /\ now.dlq = then.dlq
      /\ now.dlq \ Committing = then.dlq
      /\ now.index \cup now.dlq \cup Committing = Known(then)
      /\ \A id \in Known(then) : now.retries[id] = then.retries[id]
  BY <1>1, <1>2 DEF Agrees, Known
<1>4. Lives(now) = LifeOf(then)
  <2>1. ASSUME NEW id \in Ids PROVE Lives(now)[id] = LifeOf(then)[id]
    <3>1. CASE id \in then.index
      BY <1>1, <1>3, <3>1 DEF Lives, LifeOf
    <3>2. CASE id \in then.dlq
      BY <1>1, <1>3, <3>2 DEF Lives, LifeOf
    <3>3. CASE id \notin Known(then)
      BY <1>3, <3>3 DEF Lives, LifeOf, Known
    <3> QED
      BY <3>1, <3>2, <3>3 DEF Known
  <2> QED
    BY <2>1 DEF Lives, LifeOf
<1>5. Attempts(now) = TriesOf(then)
  <2>1. \A id \in Ids : Attempts(now)[id] = TriesOf(then)[id]
    BY <1>3 DEF Attempts, TriesOf
  <2> QED
    BY <2>1 DEF Attempts, TriesOf
<1> QED
  BY <1>4, <1>5 DEF then, now

\* Some task moves from one stage of its life to another.
LEMMA LifeMoves ==
  ASSUME NEW id \in Ids, NEW from, NEW to, NEW n,
         LifeOf(Replay(log))[id] = from,
         LifeOf(Replay(log))' = [LifeOf(Replay(log)) EXCEPT ![id] = to],
         TriesOf(Replay(log))' = [TriesOf(Replay(log)) EXCEPT ![id] = n],
         Lives(View) = LifeOf(Replay(log)), Attempts(View) = TriesOf(Replay(log)),
         Lives(View)' = LifeOf(Replay(log))', Attempts(View)' = TriesOf(Replay(log))'
  PROVE  Lifecycle!Move(id, from, to, n)
BY DEF Lifecycle!Move

\* A record that is appended with the mutex held is one step of its task's life.
LEMMA RecordIsLifeStep ==
  ASSUME IndInv, RecInv, History, NEW r \in Record, HolderAppends(r),
         Lives(View)' = LifeOf(Replay(log))', Attempts(View)' = TriesOf(Replay(log))'
  PROVE  Lifecycle!Next
<1> USE DEF HolderAppends
<1> DEFINE then == Replay(log)
           new == Replay(log')
           id == r.id
<1>1. new = ApplyRecord(then, r) /\ then \in Memory /\ then.index \cap then.dlq = {}
  BY LogGrows
<1>2. Agrees(then, q, Committing) /\ ~then.panicked /\ Budget(then)
  BY AfterIdle DEF RecInv
<1>3. /\ r.op \in {"ack", "retry", "dead"} => id \in then.index
      /\ r.op \in {"requeue", "purge"} => id \in then.dlq
      /\ r.op \in {"ack", "retry", "dead", "requeue", "purge"}
      /\ id \in Ids /\ then.retries[id] = q.retries[id]
  BY <1>2 DEF Agrees, Record, Operations
<1>4. /\ new.index = IF r.op \in {"ack", "dead"} THEN then.index \ {id}
                     ELSE IF r.op = "requeue" THEN then.index \cup {id}
                     ELSE then.index
      /\ new.dlq = IF r.op = "dead" THEN then.dlq \cup {id}
                   ELSE IF r.op \in {"requeue", "purge"} THEN then.dlq \ {id}
                   ELSE then.dlq
      /\ new.retries = CASE r.op = "retry" -> [then.retries EXCEPT ![id] = @ + 1]
                         [] r.op = "dead" -> [then.retries EXCEPT ![id] = r.retries]
                         [] r.op = "requeue" -> [then.retries EXCEPT ![id] = 0]
                         [] OTHER -> then.retries
  <2>1. /\ r.op \in {"retry", "dead"} => r.id \in then.index
        /\ r.op = "requeue" => r.id \in then.dlq
    BY <1>3
  <2> HIDE DEF then, new
  <2> QED
    BY <1>1, <1>2, <2>1, ApplyFields
<1>5. then.retries \in [Ids -> Nat] /\ then.retries[id] \in Nat
  BY <1>1, <1>3 DEF Memory
<1> HIDE DEF then, new
<1>6. \A op, x : Logged(op, x)' <=> Logged(op, x) \/ (r.op = op /\ r.id = x)
  BY LoggedAppend DEF IndInv, TypeOK
<1>7. ~Logged("ack", id)
  BY <1>3 DEF History, Known, then
<1> DEFINE L == LifeOf(then)
           T == TriesOf(then)
           to == CASE r.op = "ack" -> "done"
                   [] r.op = "dead" -> "dead"
                   [] r.op = "purge" -> "purged"
                   [] OTHER -> "live"
           n == CASE r.op = "retry" -> then.retries[id] + 1
                  [] r.op = "dead" -> r.retries
                  [] OTHER -> 0
<1>8. LifeOf(then)' = [L EXCEPT ![id] = to]
  <2> DEFINE L2 == [x \in Ids |-> IF x \in new.index THEN "live"
                                  ELSE IF x \in new.dlq THEN "dead"
                                  ELSE IF Logged("ack", x)' THEN "done"
                                  ELSE IF Logged("purge", x)' THEN "purged" ELSE "absent"]
  <2>1. LifeOf(then)' = L2
    BY DEF LifeOf, then, new
  <2>2. ASSUME NEW x \in Ids PROVE L2[x] = [L EXCEPT ![id] = to][x]
    <3>1. CASE x # id
      <4>1. /\ x \in new.index <=> x \in then.index
            /\ x \in new.dlq <=> x \in then.dlq
            /\ Logged("ack", x)' <=> Logged("ack", x)
            /\ Logged("purge", x)' <=> Logged("purge", x)
        BY <1>3, <1>4, <1>6, <3>1
      <4> QED
        BY <3>1, <4>1 DEF LifeOf
    <3>2. CASE x = id
      <4>1. [L EXCEPT ![id] = to][x] = to
        BY <1>3, <3>2 DEF LifeOf
      <4>2. L2[x] = to
        BY <1>1, <1>3, <1>4, <1>6, <1>7, <3>2
      <4> QED
        BY <4>1, <4>2
    <3> QED
      BY <3>1, <3>2
  <2> QED
    BY <2>1, <2>2 DEF LifeOf
<1>9. TriesOf(then)' = [T EXCEPT ![id] = n]
  <2> DEFINE T2 == [x \in Ids |-> IF x \in Known(new) THEN new.retries[x] ELSE 0]
  <2>1. TriesOf(then)' = T2
    BY DEF TriesOf, Known, then, new
  <2>2. ASSUME NEW x \in Ids PROVE T2[x] = [T EXCEPT ![id] = n][x]
    <3>1. CASE x # id
      <4>1. /\ x \in Known(new) <=> x \in Known(then)
            /\ new.retries[x] = then.retries[x]
        BY <1>3, <1>4, <1>5, <3>1 DEF Known
      <4> QED
        BY <3>1, <4>1 DEF TriesOf
    <3>2. CASE x = id
      <4>1. [T EXCEPT ![id] = n][x] = n
        BY <1>3, <3>2 DEF TriesOf
      <4>2. T2[x] = n
        BY <1>1, <1>3, <1>4, <1>5, <3>2 DEF Known
      <4> QED
        BY <4>1, <4>2
    <3> QED
      BY <3>1, <3>2
  <2> QED
    BY <2>1, <2>2 DEF TriesOf
<1>10. /\ L[id] = IF r.op \in {"ack", "retry", "dead"} THEN "live" ELSE "dead"
       /\ T[id] = then.retries[id]
  BY <1>1, <1>3 DEF LifeOf, TriesOf, Known
<1>11. Lives(View) = L /\ Attempts(View) = T
  BY LifeIsLogged DEF then
<1>12. Lifecycle!Move(id, L[id], to, n)
  <2> HIDE DEF L, T, to, n
  <2>1. LifeOf(then)' = [LifeOf(then) EXCEPT ![id] = to] /\ TriesOf(then)' = [TriesOf(then) EXCEPT ![id] = n]
    BY <1>8, <1>9 DEF L, T
  <2>2. LifeOf(then)[id] = L[id]
    BY DEF L
  <2> QED
    BY <1>3, <1>11, <2>1, <2>2, LifeMoves DEF then, L, T
<1>13. CASE r.op = "ack"
  BY <1>3, <1>10, <1>12, <1>13 DEF Lifecycle!Next, Lifecycle!Finish
<1>14. CASE r.op = "retry"
  <2>1. Attempts(View)[id] < MaxRetries /\ n = Attempts(View)[id] + 1 /\ to = "live"
    BY <1>3, <1>5, <1>10, <1>11, <1>14, StoreAssumption
  <2> QED
    BY <1>3, <1>10, <1>12, <1>14, <2>1 DEF Lifecycle!Next, Lifecycle!FailAgain
<1>15. CASE r.op = "dead"
  <2>1. Attempts(View)[id] = MaxRetries /\ n = MaxRetries + 1 /\ to = "dead"
    BY <1>3, <1>5, <1>10, <1>11, <1>15, StoreAssumption
  <2> QED
    BY <1>3, <1>10, <1>12, <1>15, <2>1 DEF Lifecycle!Next, Lifecycle!FailForGood
<1>16. CASE r.op = "requeue"
  BY <1>3, <1>10, <1>12, <1>16 DEF Lifecycle!Next, Lifecycle!Revive
<1>17. CASE r.op = "purge"
  BY <1>3, <1>10, <1>12, <1>17 DEF Lifecycle!Next, Lifecycle!Purge
<1> QED
  BY <1>3, <1>13, <1>14, <1>15, <1>16, <1>17

\* The append of an ENQUEUE record is the moment the task is accepted.
LEMMA EnqueueIsAccept ==
  ASSUME IndInv, RecInv, History, NEW id \in Ids, EnqueueAppend(id),
         Lives(View)' = LifeOf(Replay(log))', Attempts(View)' = TriesOf(Replay(log))'
  PROVE  Lifecycle!Next
<1> DEFINE then == Replay(log)
           new == Replay(log')
           r == EncodeRecord("enqueue", id)
<1>0. /\ then \in Memory /\ log \in Seq(Record) /\ KeyOf[id] \in Keys
  BY KeyInKeys DEF IndInv, TypeOK, LogSound, Sound
<1>1. /\ proc = "up" /\ call[id] = "append" /\ log' = Append(log, r)
      /\ r \in Record /\ r.op = "enqueue" /\ r.id = id
  BY EncodedRecord DEF EnqueueAppend, Operations
<1>2. new = ApplyRecord(then, r) /\ id \notin Known(then)
  BY <1>1, LogGrows
<1>3. Agrees(then, After(q, pend), Committing) /\ ~then.panicked /\ Serial
  BY <1>1 DEF RecInv
<1>4. ~KeyTaken(then, id)
  BY <1>1, KeyIsNew
<1>5. new = Insert(then, id)
  BY <1>2, <1>3, <1>4 DEF ApplyRecord, EncodeRecord, ReplayEnqueue
<1> HIDE DEF new, then
<1>6. /\ new.index = then.index \cup {id} /\ new.dlq = then.dlq
      /\ new.retries = [then.retries EXCEPT ![id] = 0]
  <2>1. then \in Memory /\ new = Insert(then, id)
    BY <1>0, <1>5
  <2> QED
    BY <2>1, InsertFields
<1>7. then.retries \in [Ids -> Nat]
  BY <1>0 DEF Memory
<1>8. \A op, x : Logged(op, x)' <=> Logged(op, x) \/ (op = "enqueue" /\ x = id)
  BY <1>0, <1>1, LoggedAppend
<1>9. \A op : ~Logged(op, id)
  BY <1>1 DEF History, Logged
<1>10. LifeOf(then)' = [LifeOf(then) EXCEPT ![id] = "live"]
  <2> DEFINE L2 == [x \in Ids |-> IF x \in new.index THEN "live"
                                  ELSE IF x \in new.dlq THEN "dead"
                                  ELSE IF Logged("ack", x)' THEN "done"
                                  ELSE IF Logged("purge", x)' THEN "purged" ELSE "absent"]
  <2>1. LifeOf(then)' = L2
    BY DEF LifeOf, then, new
  <2>2. ASSUME NEW x \in Ids PROVE L2[x] = [LifeOf(then) EXCEPT ![id] = "live"][x]
    <3>1. CASE x # id
      <4>1. /\ x \in new.index <=> x \in then.index
            /\ x \in new.dlq <=> x \in then.dlq
            /\ Logged("ack", x)' <=> Logged("ack", x)
            /\ Logged("purge", x)' <=> Logged("purge", x)
        BY <1>6, <1>8, <3>1
      <4> QED
        BY <3>1, <4>1 DEF LifeOf
    <3>2. CASE x = id
      BY <1>6, <3>2 DEF LifeOf
    <3> QED
      BY <3>1, <3>2
  <2> QED
    BY <2>1, <2>2 DEF LifeOf
<1>11. TriesOf(then)' = [TriesOf(then) EXCEPT ![id] = 0]
  <2> DEFINE T2 == [x \in Ids |-> IF x \in Known(new) THEN new.retries[x] ELSE 0]
  <2>1. TriesOf(then)' = T2
    BY DEF TriesOf, Known, then, new
  <2>2. \A x \in Ids : T2[x] = [TriesOf(then) EXCEPT ![id] = 0][x]
    BY <1>6, <1>7 DEF TriesOf, Known
  <2> QED
    BY <2>1, <2>2 DEF TriesOf
<1>12. LifeOf(then)[id] = "absent"
  BY <1>2, <1>9 DEF LifeOf, Known
<1>13. Lives(View) = LifeOf(then) /\ Attempts(View) = TriesOf(then)
  BY LifeIsLogged DEF then
<1>14. Lifecycle!Move(id, "absent", "live", 0)
  BY <1>10, <1>11, <1>12, <1>13, LifeMoves DEF then
<1> QED
  BY <1>14 DEF Lifecycle!Next, Lifecycle!Accept

\* A step that appends nothing, a crash and a recovery among them, leaves every
\* task's life as it is.
LEMMA NoRecordNoLifeStep ==
  ASSUME IndInv, RecInv, log' = log,
         Lives(View)' = LifeOf(Replay(log))', Attempts(View)' = TriesOf(Replay(log))'
  PROVE  UNCHANGED Lifecycle!vars
<1>1. \A op, id : Logged(op, id)' <=> Logged(op, id)
  BY DEF Logged
<1>2. LifeOf(Replay(log))' = LifeOf(Replay(log))
  BY <1>1 DEF LifeOf
<1>3. TriesOf(Replay(log))' = TriesOf(Replay(log))
  BY DEF TriesOf, Known
<1>4. Lives(View)' = Lives(View) /\ Attempts(View)' = Attempts(View)
  BY <1>2, <1>3, LifeIsLogged
<1> QED
  BY <1>4 DEF Lifecycle!vars

\* The queue, with its log, its memory, its mutex, its sweeper and its crashes,
\* implements the life cycle of tasks that has none of them.
THEOREM QueueImplementsLifecycle == ASSUME Benign PROVE Spec => ImplementsLifecycle
<1>1. Init => Lifecycle!Init
  <2> SUFFICES ASSUME Init PROVE Lifecycle!Init
    OBVIOUS
  <2>1. Replay(log) = EmptyMemory /\ log = <<>>
    BY ReplayEmpty DEF Init
  <2>2. EmptyMemory.index = {} /\ EmptyMemory.dlq = {}
    BY DEF EmptyMemory
  <2>3. \A op, id : ~Logged(op, id)
    BY <2>1 DEF Logged
  <2>4. /\ LifeOf(Replay(log)) = [id \in Ids |-> "absent"]
        /\ TriesOf(Replay(log)) = [id \in Ids |-> 0]
    BY <2>1, <2>2, <2>3 DEF LifeOf, TriesOf, Known
  <2>5. Lives(View) = LifeOf(Replay(log)) /\ Attempts(View) = TriesOf(Replay(log))
    BY InitIndInv, InitRecInv, LifeIsLogged
  <2> QED
    BY <2>4, <2>5 DEF Lifecycle!Init
<1>2. IndInv /\ RecInv => /\ Lives(View) = LifeOf(Replay(log))
                          /\ Attempts(View) = TriesOf(Replay(log))
  BY LifeIsLogged
<1>3. /\ IndInv /\ RecInv /\ (Accounts /\ History) /\ [Next]_vars
      /\ (Lives(View) = LifeOf(Replay(log)) /\ Attempts(View) = TriesOf(Replay(log)))'
      => [Lifecycle!Next]_(Lifecycle!vars)
  <2> SUFFICES ASSUME IndInv, RecInv, History, [Next]_vars,
                      Lives(View)' = LifeOf(Replay(log))',
                      Attempts(View)' = TriesOf(Replay(log))'
               PROVE  Lifecycle!Next \/ UNCHANGED Lifecycle!vars
    OBVIOUS
  <2>1. ASSUME NEW id \in Ids, EnqueueStep(id)
        PROVE  EnqueueAppend(id) \/ log' = log
    <3>1. faults \in Nat
      BY DEF IndInv, TypeOK
    <3>2. EnqueueFails(id) => log' = log
      BY <3>1, FaultLeavesLog DEF EnqueueFails
    <3> QED
      BY <2>1, <3>2 DEF EnqueueStep, EnqueueDedup, EnqueueBegin, EnqueueCommit
  <2>2. \/ \E id \in Ids : EnqueueAppend(id)
        \/ \E r \in Record : HolderAppends(r)
        \/ log' = log
    BY StepKinds, <2>1, ReturnsApply DEF Dequeue, Crash, NewQueue, NothingRecorded
  <2> QED
    BY <2>2, EnqueueIsAccept, RecordIsLifeStep, NoRecordNoLifeStep
<1> QED
  BY <1>1, <1>2, <1>3, Invariance, RecoveryInvariance, AccountsInvariance, PTL
     DEF Spec, ImplementsLifecycle, Lifecycle!Spec
============================================================================
