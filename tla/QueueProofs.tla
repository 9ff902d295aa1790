---------------------------- MODULE QueueProofs ----------------------------
(***************************************************************************)
(* What holds of the queue for every number of tasks, any assignment of    *)
(* idempotency keys, any retry budget, any callers, racing Enqueue calls,  *)
(* any failed Appends and any crashes: the types, NoLostTask, LiveNotDead, *)
(* KeyOwnsTask and RacersAgree.                                            *)
(*                                                                         *)
(* A crash replaces memory by Replay(log), so the invariant must speak of  *)
(* Replay(log) at every moment the log grows.  Replay is recursive over    *)
(* the log; the induction that unfolds it is the induction over the        *)
(* behaviour: the invariant carries that the log has exactly one sequence  *)
(* of rebuilt memories, and one more record extends that sequence by one   *)
(* (RebuiltAppend), whence Replay(Append(l, r)) is r applied to Replay(l). *)
(***************************************************************************)
EXTENDS QueueProperties, TLAPS

\* st lists the memories that replay passes through, the empty one first.
Rebuilds(st, l) ==
  st = [n \in 0..Len(l) |->
          IF n = 0 THEN EmptyMemory
          ELSE [m \in Memory |-> ApplyRecord(m, l[n])][st[n - 1]]]

\* ... and it is the only such list.
Rebuilt(st, l) == Rebuilds(st, l) /\ \A other : Rebuilds(other, l) => other = st

\* Replay returns the last memory of that list.
LEMMA ReplayIsLast ==
  ASSUME NEW l, NEW st, Rebuilt(st, l)
  PROVE  Replay(l) = st[Len(l)]
<1> DEFINE pick == CHOOSE f : Rebuilds(f, l)
<1>1. Rebuilds(pick, l)
  BY DEF Rebuilt
<1>2. pick = st
  BY <1>1 DEF Rebuilt
<1>3. Replay(l) = pick[Len(l)]
  BY DEF Replay, Rebuilds
<1> QED
  BY <1>2, <1>3

\* A record appended to the log (wal.Append) extends the list of rebuilt memories
\* by one, and the list is still the only one.
LEMMA RebuiltAppend ==
  ASSUME NEW l \in Seq(Record), NEW r \in Record, NEW st, Rebuilt(st, l)
  PROVE  \E next : /\ Rebuilt(next, Append(l, r))
                   /\ next[Len(l) + 1] = [m \in Memory |-> ApplyRecord(m, r)][st[Len(l)]]
<1> DEFINE k == Len(l)
           l2 == Append(l, r)
           Step(m, x) == [y \in Memory |-> ApplyRecord(y, x)][m]
           next == [n \in 0..(k + 1) |-> IF n = k + 1 THEN Step(st[k], r) ELSE st[n]]
<1>1. /\ k \in Nat /\ Len(l2) = k + 1 /\ l2[k + 1] = r
      /\ \A n \in 1..k : l2[n] = l[n]
  OBVIOUS
<1>2. Rebuilds(st, l)
  BY DEF Rebuilt
<1> HIDE DEF k, l2, Step
<1>3. st = [n \in 0..k |-> IF n = 0 THEN EmptyMemory ELSE Step(st[n - 1], l[n])]
  BY <1>2 DEF Rebuilds, Step, k
<1>4. \A n \in 0..k : st[n] = IF n = 0 THEN EmptyMemory ELSE Step(st[n - 1], l[n])
  BY <1>3, Zenon
<1>5. \A n \in 0..(k + 1) :
        next[n] = IF n = 0 THEN EmptyMemory ELSE Step(next[n - 1], l2[n])
  <2> SUFFICES ASSUME NEW n \in 0..(k + 1)
               PROVE  next[n] = IF n = 0 THEN EmptyMemory ELSE Step(next[n - 1], l2[n])
    OBVIOUS
  <2>1. CASE n = 0
    BY <2>1, <1>1, <1>4
  <2>2. CASE n \in 1..k
    <3>1. n \in 0..k /\ n # 0 /\ n # k + 1 /\ n - 1 \in 0..(k + 1) /\ n - 1 # k + 1
      BY <2>2, <1>1
    <3>2. next[n] = st[n] /\ next[n - 1] = st[n - 1] /\ l2[n] = l[n]
      BY <3>1, <2>2, <1>1
    <3> QED
      BY <3>1, <3>2, <1>4
  <2>3. CASE n = k + 1
    <3>1. next[n] = Step(st[k], r) /\ next[n - 1] = st[k] /\ n # 0 /\ l2[n] = r
      BY <2>3, <1>1
    <3> QED
      BY <3>1
  <2> QED
    BY <2>1, <2>2, <2>3, <1>1
<1>6. Rebuilds(next, l2)
  <2>1. next = [n \in 0..(k + 1) |->
                  IF n = 0 THEN EmptyMemory ELSE Step(next[n - 1], l2[n])]
    BY <1>5
  <2> QED
    BY <2>1, <1>1 DEF Rebuilds, Step
<1>7. ASSUME NEW other, Rebuilds(other, l2)
      PROVE  other = next
  <2>1. other = [n \in 0..(k + 1) |->
                   IF n = 0 THEN EmptyMemory ELSE Step(other[n - 1], l2[n])]
    BY <1>7, <1>1 DEF Rebuilds, Step
  <2>2. \A n \in 0..(k + 1) :
          other[n] = IF n = 0 THEN EmptyMemory ELSE Step(other[n - 1], l2[n])
    BY <2>1, Zenon
  <2> DEFINE front == [n \in 0..k |-> other[n]]
  <2>3. \A n \in 0..k :
          front[n] = IF n = 0 THEN EmptyMemory ELSE Step(front[n - 1], l[n])
    <3> SUFFICES ASSUME NEW n \in 0..k
                 PROVE  front[n] = IF n = 0 THEN EmptyMemory ELSE Step(front[n - 1], l[n])
      OBVIOUS
    <3>1. n \in 0..(k + 1) /\ front[n] = other[n]
      BY <1>1
    <3>2. CASE n = 0
      BY <3>1, <3>2, <2>2
    <3>3. CASE n # 0
      <4>1. n \in 1..k /\ n - 1 \in 0..k
        BY <3>3, <1>1
      <4>2. front[n - 1] = other[n - 1] /\ l2[n] = l[n]
        BY <4>1, <1>1
      <4> QED
        BY <3>1, <3>3, <4>2, <2>2
    <3> QED
      BY <3>2, <3>3
  <2>4. Rebuilds(front, l)
    <3>1. front = [n \in 0..k |->
                     IF n = 0 THEN EmptyMemory ELSE Step(front[n - 1], l[n])]
      BY <2>3
    <3> QED
      BY <3>1 DEF Rebuilds, Step, k
  <2>5. front = st
    BY <2>4 DEF Rebuilt
  <2>6. \A n \in 0..k : other[n] = st[n]
    BY <2>5
  <2>7. other[k + 1] = Step(st[k], r)
    <3>1. k + 1 \in 0..(k + 1) /\ k + 1 # 0 /\ (k + 1) - 1 = k /\ k \in 0..k
      BY <1>1
    <3> QED
      BY <3>1, <2>2, <2>6, <1>1
  <2>8. \A n \in 0..(k + 1) : other[n] = next[n]
    BY <2>6, <2>7, <1>1
  <2> QED
    BY <2>1, <2>8
<1>8. next[k + 1] = Step(st[k], r)
  BY <1>1
<1>9. Rebuilt(next, l2)
  BY <1>6, <1>7 DEF Rebuilt
<1> QED
  BY <1>8, <1>9 DEF Step, k, l2

\* Recovery is incremental: replaying a log with one more record is replaying the
\* log and then calling applyRecord on that record.
LEMMA ReplayAppend ==
  ASSUME NEW l \in Seq(Record), NEW r \in Record,
         \E st : Rebuilt(st, l), Replay(l) \in Memory
  PROVE  /\ \E st : Rebuilt(st, Append(l, r))
         /\ Replay(Append(l, r)) = ApplyRecord(Replay(l), r)
<1>1. PICK st : Rebuilt(st, l)
  OBVIOUS
<1>2. PICK next : /\ Rebuilt(next, Append(l, r))
                  /\ next[Len(l) + 1] = [m \in Memory |-> ApplyRecord(m, r)][st[Len(l)]]
  BY <1>1, RebuiltAppend
<1>3. Replay(l) = st[Len(l)]
  BY <1>1, ReplayIsLast
<1>4. Replay(Append(l, r)) = next[Len(l) + 1]
  <2>1. Len(Append(l, r)) = Len(l) + 1
    OBVIOUS
  <2> QED
    BY <1>2, <2>1, ReplayIsLast
<1> QED
  BY <1>2, <1>3, <1>4

\* Replaying an empty log gives the empty queue.
LEMMA ReplayEmpty ==
  /\ \E st : Rebuilt(st, <<>>)
  /\ Replay(<<>>) = EmptyMemory
<1> DEFINE st == [n \in {0} |-> EmptyMemory]
<1>1. ASSUME NEW other PROVE Rebuilds(other, <<>>) <=> other = st
  <2>1. 0..Len(<<>>) = {0}
    OBVIOUS
  <2>2. [n \in {0} |-> IF n = 0 THEN EmptyMemory
                       ELSE [m \in Memory |-> ApplyRecord(m, <<>>[n])][other[n - 1]]] = st
    <3> HIDE DEF Memory
    <3> QED
      BY Zenon
  <2> QED
    BY <2>1, <2>2 DEF Rebuilds
<1>2. Rebuilt(st, <<>>)
  BY <1>1 DEF Rebuilt
<1>3. Replay(<<>>) = st[0]
  <2>1. Len(<<>>) = 0
    OBVIOUS
  <2> QED
    BY <1>2, <2>1, ReplayIsLast
<1> QED
  BY <1>2, <1>3

----------------------------------------------------------------------------

\* NoLostTask, KeyOwnsTask and the rest of what is kept of a memory.
Placed(m) == \A id \in m.index : m.ready[id] > 0 \/ id \in m.indexOfInflight

Owned(m) ==
  \A id \in m.index \cup m.dlq :
    KeyOf[id] # NoKey => m.indexOfIdemKeys[KeyOf[id]] = id

Sound(m) ==
  /\ m \in Memory
  /\ Placed(m)
  /\ m.index \cap m.dlq = {}
  /\ Owned(m)

\* The tasks a memory knows, live or dead.
Known(m) == m.index \cup m.dlq

\* The key of every Enqueue call is in the domain of the key map.
LEMMA KeyInKeys == ASSUME NEW id \in Ids PROVE KeyOf[id] \in Keys
BY DEF Keys

\* The empty queue is sound.
LEMMA EmptySound ==
  Sound(EmptyMemory) /\ EmptyMemory.indexOfInflight = {} /\ Known(EmptyMemory) = {}
BY DEF Sound, Placed, Owned, Known, EmptyMemory, Memory, TaskState

\* Every change that an operation or applyRecord makes to the Queue struct gives a
\* well-typed one.
LEMMA EffectsInMemory ==
  ASSUME NEW m \in Memory, NEW id \in Ids, NEW n \in Nat
  PROVE  /\ Insert(m, id) \in Memory
         /\ Panic(m) \in Memory
         /\ ReplayAck(m, id) \in Memory
         /\ ReplayRetry(m, id) \in Memory
         /\ ReplayDead(m, id, n) \in Memory
         /\ ReplayRequeue(m, id) \in Memory
         /\ ReplayPurge(m, id) \in Memory
         /\ m.ready[id] > 0 => DequeueEffect(m, id) \in Memory
         /\ AckEffect(m, id) \in Memory
         /\ RetryEffect(m, id) \in Memory
         /\ DeadEffect(m, id) \in Memory
         /\ RequeueEffect(m, id) \in Memory
         /\ PurgeEffect(m, id) \in Memory
<1> DEFINE pushed == [m.ready EXCEPT ![id] = m.ready[id] + 1]
           popped == [m.ready EXCEPT ![id] = m.ready[id] - 1]
           dropped == DropFromReady(m, id)
           keyed == [m.indexOfIdemKeys EXCEPT ![KeyOf[id]] = id]
           bumped == [m.retries EXCEPT ![id] = m.retries[id] + 1]
           reset == [m.retries EXCEPT ![id] = 0]
           counted == [m.retries EXCEPT ![id] = n]
           ready == [m.status EXCEPT ![id] = "ready"]
           leased == [m.status EXCEPT ![id] = "inflight"]
           done == [m.status EXCEPT ![id] = "done"]
           dead == [m.status EXCEPT ![id] = "dead"]
           live == m.index \cup {id}
           gone == m.index \ {id}
           buried == m.dlq \cup {id}
           raised == m.dlq \ {id}
           taken == m.indexOfInflight \cup {id}
           freed == m.indexOfInflight \ {id}
<1>1. /\ m.ready \in [Ids -> Nat] /\ m.retries \in [Ids -> Nat]
      /\ m.status \in [Ids -> TaskState]
      /\ m.indexOfIdemKeys \in [Keys -> Ids \cup {None}]
  BY DEF Memory
<1>2. {"ready", "inflight", "done", "dead"} \subseteq TaskState
  BY DEF TaskState
<1>3. /\ pushed \in [Ids -> Nat] /\ bumped \in [Ids -> Nat]
      /\ dropped \in [Ids -> Nat]
      /\ m.ready[id] > 0 => popped \in [Ids -> Nat]
  BY <1>1 DEF DropFromReady
<1>4. keyed \in [Keys -> Ids \cup {None}]
  BY <1>1, KeyInKeys
<1>5. /\ reset \in [Ids -> Nat] /\ counted \in [Ids -> Nat]
      /\ ready \in [Ids -> TaskState] /\ leased \in [Ids -> TaskState]
      /\ done \in [Ids -> TaskState] /\ dead \in [Ids -> TaskState]
      /\ live \in SUBSET Ids /\ gone \in SUBSET Ids
      /\ buried \in SUBSET Ids /\ raised \in SUBSET Ids
      /\ taken \in SUBSET Ids /\ freed \in SUBSET Ids
  BY <1>1, <1>2 DEF Memory
<1>6. Insert(m, id) = [m EXCEPT !.ready = pushed, !.index = live,
                                !.indexOfIdemKeys = keyed, !.retries = reset,
                                !.status = ready]
  BY DEF Insert
<1>7. id \in m.index => ReplayRetry(m, id) =
             [m EXCEPT !.retries = bumped, !.status = ready,
                       !.indexOfInflight = freed]
  BY DEF ReplayRetry
<1>8. id \in m.index => ReplayDead(m, id, n) =
             [m EXCEPT !.ready = dropped, !.status = dead,
                       !.retries = counted, !.dlq = buried,
                       !.indexOfInflight = freed, !.index = gone]
  BY DEF ReplayDead
<1>9. /\ ReplayRequeue(m, id) = IF id \notin m.dlq THEN Panic(m) ELSE RequeueEffect(m, id)
      /\ RequeueEffect(m, id) =
           [m EXCEPT !.status = ready, !.retries = reset,
                     !.dlq = raised, !.index = live, !.ready = pushed]
  BY DEF ReplayRequeue, RequeueEffect
<1>10. DequeueEffect(m, id) = [m EXCEPT !.ready = popped, !.status = leased,
                                        !.indexOfInflight = taken]
  BY DEF DequeueEffect
<1>11. AckEffect(m, id) = [m EXCEPT !.status = done,
                                    !.indexOfInflight = freed, !.index = gone]
  BY DEF AckEffect
<1>12. RetryEffect(m, id) = [m EXCEPT !.status = ready, !.ready = pushed,
                                      !.retries = bumped, !.indexOfInflight = freed]
  BY DEF RetryEffect
<1>13. DeadEffect(m, id) = [m EXCEPT !.status = dead, !.dlq = buried,
                                     !.index = gone, !.retries = bumped,
                                     !.indexOfInflight = freed]
  BY DEF DeadEffect
<1>14. ReplayAck(m, id) = [m EXCEPT !.index = gone, !.ready = dropped]
  BY DEF ReplayAck
<1> HIDE DEF pushed, popped, dropped, keyed, bumped, reset, counted,
             ready, leased, done, dead, live, gone, buried, raised, taken, freed
<1>15. Panic(m) \in Memory
  BY DEF Panic, Memory
<1>16. Insert(m, id) \in Memory
  BY <1>3, <1>4, <1>5, <1>6 DEF Memory
<1>17. ReplayRetry(m, id) \in Memory
  <2>1. CASE id \in m.index
    BY <2>1, <1>3, <1>5, <1>7 DEF Memory
  <2>2. CASE id \notin m.index
    BY <2>2, <1>15 DEF ReplayRetry
  <2> QED
    BY <2>1, <2>2
<1>18. ReplayDead(m, id, n) \in Memory
  <2>1. CASE id \in m.index
    BY <2>1, <1>3, <1>5, <1>8 DEF Memory
  <2>2. CASE id \notin m.index
    BY <2>2, <1>15 DEF ReplayDead
  <2> QED
    BY <2>1, <2>2
<1>19. RequeueEffect(m, id) \in Memory
  BY <1>3, <1>5, <1>9 DEF Memory
<1>20. ReplayRequeue(m, id) \in Memory
  BY <1>9, <1>15, <1>19
<1>21. m.ready[id] > 0 => DequeueEffect(m, id) \in Memory
  BY <1>3, <1>5, <1>10 DEF Memory
<1>22. AckEffect(m, id) \in Memory
  BY <1>5, <1>11 DEF Memory
<1>23. RetryEffect(m, id) \in Memory
  BY <1>3, <1>5, <1>12 DEF Memory
<1>24. DeadEffect(m, id) \in Memory
  BY <1>3, <1>5, <1>13 DEF Memory
<1>25. ReplayAck(m, id) \in Memory
  BY <1>3, <1>5, <1>14 DEF Memory
<1>26. ReplayPurge(m, id) \in Memory /\ PurgeEffect(m, id) \in Memory
  BY DEF ReplayPurge, PurgeEffect, Memory
<1> QED
  BY <1>15, <1>16, <1>17, <1>18, <1>19, <1>20, <1>21, <1>22, <1>23, <1>24, <1>25, <1>26

\* Inserting a task nobody knows under a key nobody has (the end of Enqueue, the
\* ENQUEUE case of applyRecord) keeps a memory sound.
LEMMA InsertSound ==
  ASSUME NEW m, Sound(m), NEW id \in Ids, id \notin Known(m), ~KeyTaken(m, id)
  PROVE  /\ Sound(Insert(m, id))
         /\ Insert(m, id).indexOfInflight = m.indexOfInflight
         /\ Known(Insert(m, id)) = Known(m) \cup {id}
<1> DEFINE new == Insert(m, id)
<1>1. KeyOf[id] \in Keys
  BY KeyInKeys
<1>2. /\ new \in Memory
      /\ new.ready = [m.ready EXCEPT ![id] = @ + 1]
      /\ new.index = m.index \cup {id}
      /\ new.indexOfInflight = m.indexOfInflight
      /\ new.indexOfIdemKeys = [m.indexOfIdemKeys EXCEPT ![KeyOf[id]] = id]
      /\ new.dlq = m.dlq
  <2>1. m \in Memory
    BY DEF Sound
  <2>2. new \in Memory
    BY <2>1, EffectsInMemory
  <2> QED
    BY <2>1, <2>2 DEF Insert, Memory
<1> HIDE DEF new
<1>3. Placed(new)
  BY <1>2 DEF Placed, Sound, Memory
<1>4. new.index \cap new.dlq = {}
  BY <1>2 DEF Sound, Known
<1>5. Owned(new)
  <2> SUFFICES ASSUME NEW x \in new.index \cup new.dlq, KeyOf[x] # NoKey
               PROVE  new.indexOfIdemKeys[KeyOf[x]] = x
    BY DEF Owned
  <2>1. x \in Ids /\ KeyOf[x] \in Keys
    BY <1>2, KeyInKeys DEF Memory
  <2>2. m.indexOfIdemKeys \in [Keys -> Ids \cup {None}]
    BY DEF Sound, Memory
  <2>3. CASE x = id
    BY <2>3, <2>2, <1>1, <1>2
  <2>4. CASE x # id
    <3>1. x \in m.index \cup m.dlq
      BY <2>4, <1>2
    <3>2. m.indexOfIdemKeys[KeyOf[x]] = x
      BY <3>1 DEF Sound, Owned
    <3>3. KeyOf[x] # KeyOf[id]
      BY <3>2, <2>1, StoreAssumption DEF KeyTaken
    <3> QED
      BY <3>2, <3>3, <2>1, <2>2, <1>1, <1>2
  <2> QED
    BY <2>3, <2>4
<1> QED
  BY <1>2, <1>3, <1>4, <1>5 DEF new, Sound, Known

\* A change that leaves the key map alone and makes no new task known keeps a
\* memory sound if it keeps every live task placed.
LEMMA SoundAgain ==
  ASSUME NEW m, Sound(m), NEW new \in Memory,
         new.indexOfIdemKeys = m.indexOfIdemKeys,
         Known(new) \subseteq Known(m),
         new.index \cap new.dlq = {}, Placed(new)
  PROVE  Sound(new)
BY DEF Sound, Owned, Known

\* applyRecord keeps a memory sound, provided an ENQUEUE record is of a task that
\* is not known yet.
LEMMA ApplyRecordSound ==
  ASSUME NEW m, Sound(m), m.indexOfInflight = {}, NEW r \in Record,
         r.op = "enqueue" => r.id \notin Known(m)
  PROVE  /\ Sound(ApplyRecord(m, r))
         /\ ApplyRecord(m, r).indexOfInflight = {}
         /\ Known(ApplyRecord(m, r)) \subseteq Known(m) \cup {r.id}
<1> DEFINE id == r.id
           Good(new) == /\ Sound(new) /\ new.indexOfInflight = {}
                        /\ Known(new) \subseteq Known(m) \cup {id}
<1>1. id \in Ids /\ r.retries \in Nat /\ m \in Memory
  BY DEF Record, Sound
<1> HIDE DEF id
<1>2. \A x \in m.index : m.ready[x] > 0
  BY DEF Sound, Placed
<1>3. Good(m)
  OBVIOUS
<1>4. Good(Panic(m))
  <2>1. Panic(m) \in Memory
    BY <1>1, EffectsInMemory
  <2>2. /\ Panic(m).index = m.index /\ Panic(m).dlq = m.dlq
        /\ Panic(m).indexOfIdemKeys = m.indexOfIdemKeys
        /\ Panic(m).indexOfInflight = m.indexOfInflight
        /\ Panic(m).ready = m.ready
    BY <1>1 DEF Panic, Memory
  <2> QED
    BY <2>1, <2>2, SoundAgain DEF Sound, Placed, Known
<1>5. r.op = "enqueue" => Good(ReplayEnqueue(m, id))
  BY <1>1, <1>3, InsertSound DEF ReplayEnqueue, id
<1>6. Good(ReplayAck(m, id))
  <2> DEFINE new == ReplayAck(m, id)
  <2>1. new \in Memory
    BY <1>1, EffectsInMemory
  <2>2. /\ new.index = m.index \ {id} /\ new.dlq = m.dlq
        /\ new.indexOfIdemKeys = m.indexOfIdemKeys
        /\ new.indexOfInflight = m.indexOfInflight
        /\ \A x \in Ids \ {id} : new.ready[x] = m.ready[x]
    BY <1>1 DEF ReplayAck, DropFromReady, Memory
  <2> HIDE DEF new
  <2>3. Placed(new)
    BY <2>1, <2>2, <1>2 DEF Placed, Memory
  <2>4. Good(new)
    BY <2>1, <2>2, <2>3, SoundAgain DEF Sound, Known
  <2> QED
    BY <2>4 DEF new
<1>7. Good(ReplayRetry(m, id))
  <2> DEFINE new == ReplayRetry(m, id)
  <2>1. new \in Memory
    BY <1>1, EffectsInMemory
  <2>2. CASE id \in m.index
    <3>1. /\ new.index = m.index /\ new.dlq = m.dlq
          /\ new.indexOfIdemKeys = m.indexOfIdemKeys
          /\ new.indexOfInflight = {}
          /\ new.ready = m.ready
      BY <1>1, <2>2 DEF ReplayRetry, Memory
    <3> HIDE DEF new
    <3>2. Placed(new)
      BY <3>1, <1>2 DEF Placed
    <3>3. Good(new)
      BY <2>1, <3>1, <3>2, SoundAgain DEF Sound, Known
    <3> QED
      BY <3>3 DEF new
  <2>3. CASE id \notin m.index
    BY <2>3, <1>4 DEF ReplayRetry
  <2> QED
    BY <2>2, <2>3
<1>8. Good(ReplayDead(m, id, r.retries))
  <2> DEFINE new == ReplayDead(m, id, r.retries)
  <2>1. new \in Memory
    BY <1>1, EffectsInMemory
  <2>2. CASE id \in m.index
    <3>1. /\ new.index = m.index \ {id} /\ new.dlq = m.dlq \cup {id}
          /\ new.indexOfIdemKeys = m.indexOfIdemKeys
          /\ new.indexOfInflight = {}
          /\ \A x \in Ids \ {id} : new.ready[x] = m.ready[x]
      BY <1>1, <2>2 DEF ReplayDead, DropFromReady, Memory
    <3> HIDE DEF new
    <3>2. Placed(new)
      BY <2>1, <3>1, <1>2 DEF Placed, Memory
    <3>3. Good(new)
      BY <2>1, <2>2, <3>1, <3>2, SoundAgain DEF Sound, Known
    <3> QED
      BY <3>3 DEF new
  <2>3. CASE id \notin m.index
    BY <2>3, <1>4 DEF ReplayDead
  <2> QED
    BY <2>2, <2>3
<1>9. Good(ReplayRequeue(m, id))
  <2> DEFINE new == ReplayRequeue(m, id)
  <2>1. new \in Memory
    BY <1>1, EffectsInMemory
  <2>2. CASE id \in m.dlq
    <3>1. /\ new.index = m.index \cup {id} /\ new.dlq = m.dlq \ {id}
          /\ new.indexOfIdemKeys = m.indexOfIdemKeys
          /\ new.indexOfInflight = {}
          /\ new.ready = [m.ready EXCEPT ![id] = @ + 1]
      BY <1>1, <2>2 DEF ReplayRequeue, Memory
    <3> HIDE DEF new
    <3>2. Placed(new)
      BY <3>1, <1>1, <1>2 DEF Placed, Memory
    <3>3. Good(new)
      BY <2>1, <2>2, <3>1, <3>2, SoundAgain DEF Sound, Known
    <3> QED
      BY <3>3 DEF new
  <2>3. CASE id \notin m.dlq
    BY <2>3, <1>4 DEF ReplayRequeue
  <2> QED
    BY <2>2, <2>3
<1>10. Good(ReplayPurge(m, id))
  <2> DEFINE new == ReplayPurge(m, id)
  <2>1. new \in Memory
    BY <1>1, EffectsInMemory
  <2>2. /\ new.index = m.index /\ new.dlq = m.dlq \ {id}
        /\ new.indexOfIdemKeys = m.indexOfIdemKeys
        /\ new.indexOfInflight = m.indexOfInflight /\ new.ready = m.ready
    BY <1>1 DEF ReplayPurge, Memory
  <2> HIDE DEF new
  <2>3. Placed(new)
    BY <2>2, <1>2 DEF Placed
  <2>4. Good(new)
    BY <2>1, <2>2, <2>3, SoundAgain DEF Sound, Known
  <2> QED
    BY <2>4 DEF new
<1> HIDE DEF Good
<1>11. Good(ApplyRecord(m, r))
  <2>1. CASE m.panicked
    BY <2>1, <1>3 DEF ApplyRecord
  <2>2. CASE ~m.panicked
    BY <2>2, <1>5, <1>6, <1>7, <1>8, <1>9, <1>10, Zenon DEF ApplyRecord, id
  <2> QED
    BY <2>1, <2>2
<1> QED
  BY <1>11 DEF Good, id

----------------------------------------------------------------------------

\* Replaying the log gives a sound memory with nothing in flight that knows no
\* task whose Enqueue call, as c has them, has not appended it.
LogSound(l, c) ==
  /\ \E st : Rebuilt(st, l)
  /\ Sound(Replay(l)) /\ Replay(l).indexOfInflight = {}
  /\ \A id \in Ids : c[id] \in {"idle", "append"} => id \notin Known(Replay(l))

\* The log stays sound when a record is appended: an ENQUEUE of a call that was
\* still appending, or a record of a task whose Enqueue call got further.
LEMMA LogSoundAppend ==
  ASSUME NEW l \in Seq(Record), NEW r \in Record, NEW c, NEW c2, LogSound(l, c),
         r.op = "enqueue" => c[r.id] \in {"idle", "append"},
         c2[r.id] \notin {"idle", "append"},
         \A id \in Ids : c2[id] \in {"idle", "append"} => c[id] \in {"idle", "append"}
  PROVE  LogSound(Append(l, r), c2)
<1> DEFINE m == Replay(l)
<1>1. \E st : Rebuilt(st, l)
  BY DEF LogSound
<1>2. Sound(m) /\ m.indexOfInflight = {} /\ m \in Memory
  BY DEF LogSound, Sound
<1>3. r.id \in Ids
  BY DEF Record
<1>4. r.op = "enqueue" => r.id \notin Known(m)
  BY <1>3 DEF LogSound
<1>5. /\ \E st : Rebuilt(st, Append(l, r))
      /\ Replay(Append(l, r)) = ApplyRecord(m, r)
  BY <1>1, <1>2, ReplayAppend
<1> HIDE DEF m
<1>6. /\ Sound(ApplyRecord(m, r))
      /\ ApplyRecord(m, r).indexOfInflight = {}
      /\ Known(ApplyRecord(m, r)) \subseteq Known(m) \cup {r.id}
  BY <1>2, <1>4, ApplyRecordSound
<1>7. \A id \in Ids : c2[id] \in {"idle", "append"} => id \notin Known(ApplyRecord(m, r))
  BY <1>6 DEF LogSound, m
<1> QED
  BY <1>5, <1>6, <1>7 DEF LogSound

\* The log stays sound when Enqueue calls move on.
LEMMA LogSoundCalls ==
  ASSUME NEW l, NEW c, NEW c2, LogSound(l, c),
         \A id \in Ids : c2[id] \in {"idle", "append"} => c[id] \in {"idle", "append"}
  PROVE  LogSound(l, c2)
BY DEF LogSound

\* The task of an Enqueue call that has not inserted it is unknown to memory.
Fresh ==
  \A id \in Ids : call[id] \in {"idle", "append", "commit"} => id \notin Known(q)

\* The operation that holds the mutex has passed its lookup; nothing holds it
\* and no Enqueue is in progress when the process is not up.
Held ==
  /\ mu = "free" => pend = Idle
  /\ pend.op \in {"ack", "retry", "dead"} => pend.id \in q.index
  /\ pend.op \in {"requeue", "purge"} => pend.id \in q.dlq
  /\ proc # "up" => /\ mu = "free"
                    /\ \A id \in Ids : call[id] \notin {"append", "commit"}

\* The inductive invariant.
IndInv == TypeOK /\ Sound(q) /\ LogSound(log, call) /\ Fresh /\ Held

\* A queue on a new log satisfies the invariant.
LEMMA InitIndInv == Init => IndInv
<1> SUFFICES ASSUME Init PROVE IndInv
  OBVIOUS
<1>1. Sound(q) /\ Known(q) = {}
  BY EmptySound DEF Init
<1>2. TypeOK
  <2>1. q \in Memory
    BY <1>1 DEF Sound
  <2> QED
    BY <2>1 DEF Init, TypeOK, CallStates
<1>3. LogSound(log, call)
  BY ReplayEmpty, EmptySound DEF Init, LogSound
<1>4. Fresh
  BY <1>1 DEF Fresh
<1>5. Held
  BY DEF Init, Held, Idle
<1> QED
  BY <1>1, <1>2, <1>3, <1>4, <1>5 DEF IndInv

\* encodeRecord gives a record of its operation and task.
LEMMA EncodedRecord ==
  ASSUME NEW op \in Operations, NEW id \in Ids
  PROVE  /\ EncodeRecord(op, id) \in Record
         /\ EncodeRecord(op, id).op = op /\ EncodeRecord(op, id).id = id
BY DEF EncodeRecord, Record

\* retryLocked appends a RETRY or a DEAD record of the task it was called for.
LEMMA RetryRecordIs ==
  ASSUME TypeOK, NEW id \in Ids
  PROVE  /\ RetryRecord(id) \in Record
         /\ RetryRecord(id).op \in {"retry", "dead"} /\ RetryRecord(id).id = id
<1>1. q.retries[id] + 1 \in Nat
  BY DEF TypeOK, Memory
<1> QED
  BY <1>1 DEF RetryRecord, DeadRecord, EncodeRecord, Record, Operations

\* A record of a task that memory knows (every record but ENQUEUE is appended
\* after such a lookup, with the mutex held) keeps the log sound.
LEMMA LogSoundKnown ==
  ASSUME IndInv, NEW r \in Record, r.op # "enqueue", r.id \in Known(q)
  PROVE  LogSound(Append(log, r), call) /\ Append(log, r) \in Seq(Record)
<1>1. log \in Seq(Record) /\ r.id \in Ids
  BY DEF IndInv, TypeOK, Record
<1>2. call[r.id] \notin {"idle", "append"}
  BY <1>1 DEF IndInv, Fresh
<1> QED
  BY <1>1, <1>2, LogSoundAppend DEF IndInv

\* The steps of Enqueue preserve the invariant, racing or failing calls included:
\* the second look at the key map is what keeps KeyOwnsTask.
LEMMA EnqueueKeepsIndInv ==
  ASSUME IndInv, NEW id \in Ids, EnqueueStep(id)
  PROVE  IndInv'
<1> USE DEF IndInv
<1>1. CASE EnqueueDedup(id)
  <2>1. q.indexOfIdemKeys[KeyOf[id]] \in Ids \cup {None}
    BY KeyInKeys DEF TypeOK, Memory
  <2>2. TypeOK'
    BY <1>1, <2>1 DEF EnqueueDedup, TypeOK, CallStates, counters
  <2>calls. \A x \in Ids : call'[x] \in {"idle", "append"} => call[x] \in {"idle", "append"}
    BY <1>1 DEF EnqueueDedup, TypeOK
  <2>3. LogSound(log, call')
    BY <2>calls, LogSoundCalls
  <2> QED
    BY <1>1, <2>2, <2>3 DEF EnqueueDedup, TypeOK, Fresh, Held, Unlocked
<1>2. CASE EnqueueBegin(id)
  <2>1. TypeOK'
    BY <1>2 DEF EnqueueBegin, TypeOK, CallStates, counters
  <2>calls. \A x \in Ids : call'[x] \in {"idle", "append"} => call[x] \in {"idle", "append"}
    BY <1>2 DEF EnqueueBegin, TypeOK
  <2>2. LogSound(log, call')
    BY <2>calls, LogSoundCalls
  <2> QED
    BY <1>2, <2>1, <2>2 DEF EnqueueBegin, TypeOK, Fresh, Held, Unlocked
<1>3. CASE EnqueueAppend(id)
  <2> DEFINE r == EncodeRecord("enqueue", id)
  <2>1. r \in Record /\ r.op = "enqueue" /\ r.id = id
    BY EncodedRecord DEF Operations
  <2> HIDE DEF r
  <2>2. log' = Append(log, r) /\ log' \in Seq(Record)
    BY <1>3, <2>1 DEF EnqueueAppend, TypeOK, r
  <2>3. TypeOK'
    BY <1>3, <2>2 DEF EnqueueAppend, TypeOK, CallStates, counters
  <2>calls. \A x \in Ids : call'[x] \in {"idle", "append"} => call[x] \in {"idle", "append"}
    BY <1>3 DEF EnqueueAppend, TypeOK
  <2>own. call[id] \in {"idle", "append"} /\ call'[id] \notin {"idle", "append"}
    BY <1>3 DEF EnqueueAppend, TypeOK
  <2>4. LogSound(log', call')
    <3>1. log \in Seq(Record)
      BY DEF TypeOK
    <3>2. LogSound(Append(log, r), call')
      BY <2>1, <2>calls, <2>own, <3>1, LogSoundAppend
    <3> QED
      BY <2>2, <3>2
  <2> QED
    BY <1>3, <2>3, <2>4 DEF EnqueueAppend, TypeOK, Fresh, Held
<1>4. CASE EnqueueFails(id)
  <2> DEFINE r == EncodeRecord("enqueue", id)
  <2>1. r \in Record /\ r.op = "enqueue" /\ r.id = id
    BY EncodedRecord DEF Operations
  <2> HIDE DEF r
  <2>2. log' \in {log, Append(log, r)} /\ log' \in Seq(Record)
    BY <1>4, <2>1 DEF EnqueueFails, AfterFault, TypeOK, r
  <2>3. TypeOK'
    BY <1>4, <2>2 DEF EnqueueFails, TypeOK, CallStates
  <2>calls. \A x \in Ids : call'[x] \in {"idle", "append"} => call[x] \in {"idle", "append"}
    BY <1>4 DEF EnqueueFails, TypeOK
  <2>own. call[id] \in {"idle", "append"} /\ call'[id] \notin {"idle", "append"}
    BY <1>4 DEF EnqueueFails, TypeOK
  <2>4. LogSound(log, call') /\ LogSound(Append(log, r), call')
    <3>1. log \in Seq(Record)
      BY DEF TypeOK
    <3> QED
      BY <2>1, <2>calls, <2>own, <3>1, LogSoundAppend, LogSoundCalls
  <2> QED
    BY <1>4, <2>2, <2>3, <2>4 DEF EnqueueFails, TypeOK, Fresh, Held
<1>5. CASE EnqueueCommit(id)
  <2>1. CASE KeyTaken(q, id)
    <3>1. q.indexOfIdemKeys[KeyOf[id]] \in Ids \cup {None}
      BY KeyInKeys DEF TypeOK, Memory
    <3>2. TypeOK'
      BY <1>5, <2>1, <3>1 DEF EnqueueCommit, TypeOK, CallStates, counters
    <3>calls. \A x \in Ids : call'[x] \in {"idle", "append"} => call[x] \in {"idle", "append"}
      BY <1>5 DEF EnqueueCommit, TypeOK
    <3>3. LogSound(log, call')
      BY <3>calls, LogSoundCalls
    <3> QED
      BY <1>5, <2>1, <3>2, <3>3 DEF EnqueueCommit, TypeOK, Fresh, Held, Unlocked
  <2>2. CASE ~KeyTaken(q, id)
    <3>1. id \notin Known(q)
      BY <1>5 DEF EnqueueCommit, Fresh
    <3>2. /\ Sound(Insert(q, id))
          /\ Known(Insert(q, id)) = Known(q) \cup {id}
      BY <2>2, <3>1, InsertSound
    <3>3. q' = Insert(q, id) /\ Sound(q') /\ Known(q') = Known(q) \cup {id} /\ q' \in Memory
      BY <1>5, <2>2, <3>2 DEF EnqueueCommit, Sound
    <3>4. TypeOK'
      BY <1>5, <2>2, <3>3 DEF EnqueueCommit, TypeOK, CallStates, counters
    <3>calls. \A x \in Ids : call'[x] \in {"idle", "append"} => call[x] \in {"idle", "append"}
      BY <1>5 DEF EnqueueCommit, TypeOK
    <3>5. LogSound(log, call')
      BY <3>calls, LogSoundCalls
    <3>6. Fresh'
      BY <1>5, <3>3 DEF EnqueueCommit, TypeOK, Fresh
    <3>7. Held'
      BY <1>5 DEF EnqueueCommit, TypeOK, Held, Unlocked, Idle
    <3> QED
      BY <1>5, <3>3, <3>4, <3>5, <3>6, <3>7 DEF EnqueueCommit
  <2> QED
    BY <2>1, <2>2
<1> QED
  BY <1>1, <1>2, <1>3, <1>4, <1>5 DEF EnqueueStep

\* The first half of Ack, Retry, RequeueDead and PurgeDeadTask (lock, look up,
\* Append, which may fail) preserves the invariant.
LEMMA CallerAppendsKeepsIndInv ==
  ASSUME IndInv, NEW r \in Record, CallerAppends(r), requeues' \in Nat,
         \/ r.op \in {"ack", "retry", "dead"} /\ r.id \in q.index
         \/ r.op \in {"requeue", "purge"} /\ r.id \in q.dlq
  PROVE  IndInv'
<1> USE DEF IndInv
<1>1. /\ LogSound(log, call) /\ log \in Seq(Record)
      /\ LogSound(Append(log, r), call) /\ Append(log, r) \in Seq(Record)
  BY LogSoundKnown DEF TypeOK, Known
<1>2. log' \in {log, Append(log, r)} /\ call' = call /\ q' = q /\ proc' = "up"
  BY DEF CallerAppends, AfterFault, Unlocked
<1>3. LogSound(log', call') /\ log' \in Seq(Record)
  BY <1>1, <1>2
<1>4. TypeOK'
  BY <1>3 DEF CallerAppends, TypeOK
<1>5. Held'
  BY DEF CallerAppends, Held, Unlocked
<1>6. Fresh'
  BY <1>2 DEF Fresh
<1> QED
  BY <1>2, <1>3, <1>4, <1>5, <1>6

\* Dequeue, and the first half of the operations that append, preserve it.
LEMMA CallerKeepsIndInv ==
  ASSUME IndInv, NEW id \in Ids, CallerStep(id)
  PROVE  IndInv'
<1>0. TypeOK /\ requeues \in Nat
  BY DEF IndInv, TypeOK
<1>1. CASE Dequeue(id)
  <2> DEFINE new == DequeueEffect(q, id)
  <2>1. q \in Memory /\ Sound(q) /\ q.ready[id] > 0 /\ q' = new
    BY <1>1 DEF IndInv, Sound, Dequeue
  <2>2. new \in Memory
    BY <2>1, EffectsInMemory
  <2>3. /\ new.index = q.index /\ new.dlq = q.dlq
        /\ new.indexOfIdemKeys = q.indexOfIdemKeys
        /\ new.indexOfInflight = q.indexOfInflight \cup {id}
        /\ \A x \in Ids \ {id} : new.ready[x] = q.ready[x]
    BY <2>1 DEF DequeueEffect, Memory
  <2> HIDE DEF new
  <2>4. Placed(new)
    BY <2>1, <2>3 DEF Sound, Placed, Memory
  <2>5. Sound(new) /\ Known(new) = Known(q)
    BY <2>1, <2>2, <2>3, <2>4, SoundAgain DEF Sound, Known
  <2>6. TypeOK'
    BY <1>0, <1>1, <2>1, <2>2 DEF Dequeue, TypeOK, counters
  <2>7. Held'
    BY <1>1 DEF IndInv, Held, Dequeue, Unlocked, Idle
  <2>8. Fresh'
    BY <1>1, <2>1, <2>5 DEF IndInv, Fresh, Dequeue
  <2> QED
    BY <1>1, <2>1, <2>5, <2>6, <2>7, <2>8 DEF IndInv, Dequeue
<1>2. CASE Ack(id)
  <2> DEFINE r == EncodeRecord("ack", id)
  <2>1. r \in Record /\ r.op = "ack" /\ r.id = id
    BY EncodedRecord DEF Operations
  <2>2. id \in q.index /\ CallerAppends(r) /\ requeues' \in Nat
    BY <1>0, <1>2 DEF Ack
  <2> QED
    BY <2>1, <2>2, CallerAppendsKeepsIndInv
<1>3. CASE Retry(id)
  <2> DEFINE r == RetryRecord(id)
  <2>1. r \in Record /\ r.op \in {"retry", "dead"} /\ r.id = id
    BY <1>0, RetryRecordIs
  <2>2. id \in q.index /\ CallerAppends(r) /\ requeues' \in Nat
    BY <1>0, <1>3 DEF Retry
  <2> HIDE DEF r
  <2> QED
    BY <2>1, <2>2, CallerAppendsKeepsIndInv
<1>4. CASE RequeueDead(id)
  <2> DEFINE r == EncodeRecord("requeue", id)
  <2>1. r \in Record /\ r.op = "requeue" /\ r.id = id
    BY EncodedRecord DEF Operations
  <2>2. id \in q.dlq /\ CallerAppends(r) /\ requeues' \in Nat
    BY <1>0, <1>4 DEF RequeueDead
  <2> HIDE DEF r
  <2> QED
    BY <2>1, <2>2, CallerAppendsKeepsIndInv
<1>5. CASE PurgeDeadTask(id)
  <2> DEFINE r == EncodeRecord("purge", id)
  <2>1. r \in Record /\ r.op = "purge" /\ r.id = id
    BY EncodedRecord DEF Operations
  <2>2. id \in q.dlq /\ CallerAppends(r) /\ requeues' \in Nat
    BY <1>0, <1>5 DEF PurgeDeadTask
  <2> HIDE DEF r
  <2> QED
    BY <2>1, <2>2, CallerAppendsKeepsIndInv
<1> QED
  BY <1>1, <1>2, <1>3, <1>4, <1>5 DEF CallerStep

\* An operation returns: if memory takes a sound value in which no new task is
\* known, the invariant holds after the mutex is released or kept by the sweeper.
LEMMA ReleaseKeepsIndInv ==
  ASSUME IndInv, proc = "up", Release, Sound(q'), Known(q') \subseteq Known(q),
         delayed' \subseteq Ids, expired' \subseteq Ids
  PROVE  IndInv'
<1>1. q' \in Memory
  BY DEF Sound
<1>2. TypeOK'
  BY <1>1 DEF IndInv, TypeOK, Release, counters
<1>3. Fresh'
  BY DEF IndInv, Fresh, Release
<1>4. Held'
  BY DEF IndInv, Held, Release, Idle
<1> QED
  BY <1>2, <1>3, <1>4 DEF IndInv, Release

\* The second half of every operation that appends preserves the invariant.
LEMMA ReturnsKeepIndInv ==
  ASSUME IndInv, Returns
  PROVE  IndInv'
<1> DEFINE id == pend.id
<1>1. /\ q \in Memory /\ Sound(q) /\ Placed(q) /\ q.index \cap q.dlq = {}
      /\ delayed \subseteq Ids /\ expired \subseteq Ids /\ proc = "up"
  BY DEF IndInv, Sound, TypeOK, Returns, Applies, AckReturns, RetryReturns,
         DeadReturns, RequeueReturns, PurgeReturns
<1>2. id \in Ids
  BY DEF IndInv, TypeOK, Record, Idle, Returns, Applies, AckReturns, RetryReturns,
         DeadReturns, RequeueReturns, PurgeReturns
<1>3. /\ pend.op \in {"ack", "retry", "dead"} => id \in q.index
      /\ pend.op \in {"requeue", "purge"} => id \in q.dlq
  BY DEF IndInv, Held
<1> HIDE DEF id
<1>4. CASE AckReturns
  <2>1. q' = AckEffect(q, id) /\ q' \in Memory
    BY <1>1, <1>2, <1>4, EffectsInMemory DEF AckReturns, id
  <2>2. /\ q'.index = q.index \ {id} /\ q'.dlq = q.dlq /\ q'.ready = q.ready
        /\ q'.indexOfIdemKeys = q.indexOfIdemKeys
        /\ q'.indexOfInflight = q.indexOfInflight \ {id}
    BY <1>1, <2>1 DEF AckEffect, Memory
  <2>3. Placed(q')
    BY <1>1, <2>2 DEF Placed
  <2>4. Sound(q') /\ Known(q') \subseteq Known(q)
    BY <1>1, <2>1, <2>2, <2>3, SoundAgain DEF Known
  <2> QED
    BY <1>1, <1>4, <2>4, ReleaseKeepsIndInv DEF AckReturns
<1>5. CASE RetryReturns
  <2>1. q' = RetryEffect(q, id) /\ q' \in Memory
    BY <1>1, <1>2, <1>5, EffectsInMemory DEF RetryReturns, id
  <2>2. /\ q'.index = q.index /\ q'.dlq = q.dlq
        /\ q'.ready = [q.ready EXCEPT ![id] = @ + 1]
        /\ q'.indexOfIdemKeys = q.indexOfIdemKeys
        /\ q'.indexOfInflight = q.indexOfInflight \ {id}
    BY <1>1, <2>1 DEF RetryEffect, Memory
  <2>3. Placed(q')
    BY <1>1, <1>2, <2>2 DEF Placed, Memory
  <2>4. Sound(q') /\ Known(q') \subseteq Known(q)
    BY <1>1, <2>1, <2>2, <2>3, SoundAgain DEF Known
  <2>5. delayed' \subseteq Ids /\ expired' \subseteq Ids
    BY <1>1, <1>2, <1>5 DEF RetryReturns, id
  <2> QED
    BY <1>1, <1>5, <2>4, <2>5, ReleaseKeepsIndInv DEF RetryReturns
<1>6. CASE DeadReturns
  <2>1. q' = DeadEffect(q, id) /\ q' \in Memory /\ id \in q.index
    BY <1>1, <1>2, <1>3, <1>6, EffectsInMemory DEF DeadReturns, Applies, id
  <2>2. /\ q'.index = q.index \ {id} /\ q'.dlq = q.dlq \cup {id} /\ q'.ready = q.ready
        /\ q'.indexOfIdemKeys = q.indexOfIdemKeys
        /\ q'.indexOfInflight = q.indexOfInflight \ {id}
    BY <1>1, <2>1 DEF DeadEffect, Memory
  <2>3. Placed(q')
    BY <1>1, <2>2 DEF Placed
  <2>4. Sound(q') /\ Known(q') \subseteq Known(q)
    BY <1>1, <2>1, <2>2, <2>3, SoundAgain DEF Known
  <2> QED
    BY <1>1, <1>6, <2>4, ReleaseKeepsIndInv DEF DeadReturns
<1>7. CASE RequeueReturns
  <2>1. q' = RequeueEffect(q, id) /\ q' \in Memory /\ id \in q.dlq
    BY <1>1, <1>2, <1>3, <1>7, EffectsInMemory DEF RequeueReturns, Applies, id
  <2>2. /\ q'.index = q.index \cup {id} /\ q'.dlq = q.dlq \ {id}
        /\ q'.ready = [q.ready EXCEPT ![id] = @ + 1]
        /\ q'.indexOfIdemKeys = q.indexOfIdemKeys
        /\ q'.indexOfInflight = q.indexOfInflight
    BY <1>1, <2>1 DEF RequeueEffect, Memory
  <2>3. Placed(q')
    BY <1>1, <1>2, <2>2 DEF Placed, Memory
  <2>4. Sound(q') /\ Known(q') \subseteq Known(q)
    BY <1>1, <2>1, <2>2, <2>3, SoundAgain DEF Known
  <2> QED
    BY <1>1, <1>7, <2>4, ReleaseKeepsIndInv DEF RequeueReturns
<1>8. CASE PurgeReturns
  <2>1. q' = PurgeEffect(q, id) /\ q' \in Memory
    BY <1>1, <1>2, <1>8, EffectsInMemory DEF PurgeReturns, id
  <2>2. /\ q'.index = q.index /\ q'.dlq = q.dlq \ {id} /\ q'.ready = q.ready
        /\ q'.indexOfIdemKeys = q.indexOfIdemKeys
        /\ q'.indexOfInflight = q.indexOfInflight
    BY <1>1, <2>1 DEF PurgeEffect, Memory
  <2>3. Placed(q')
    BY <1>1, <2>2 DEF Placed
  <2>4. Sound(q') /\ Known(q') \subseteq Known(q)
    BY <1>1, <2>1, <2>2, <2>3, SoundAgain DEF Known
  <2> QED
    BY <1>1, <1>8, <2>4, ReleaseKeepsIndInv DEF PurgeReturns
<1> QED
  BY <1>4, <1>5, <1>6, <1>7, <1>8 DEF Returns

\* A pass of the sweeper preserves the invariant, a pass cut short included.
LEMMA SweepKeepsIndInv ==
  ASSUME IndInv, SweepBegin \/ SweepEnd \/ \E id \in Ids : SweepVisit(id)
  PROVE  IndInv'
<1> USE DEF IndInv
<1>1. CASE SweepBegin
  <2>1. q.indexOfInflight \subseteq Ids
    BY DEF TypeOK, Memory
  <2> QED
    BY <1>1, <2>1 DEF SweepBegin, Unlocked, TypeOK, Fresh, Held, counters
<1>2. CASE SweepEnd
  BY <1>2 DEF SweepEnd, Sweeping, TypeOK, Fresh, Held, counters
<1>3. ASSUME NEW id \in Ids, SweepVisit(id)
      PROVE  IndInv'
  <2> DEFINE r == RetryRecord(id)
  <2>1. r \in Record /\ r.op \in {"retry", "dead"} /\ r.id = id
    BY RetryRecordIs
  <2> HIDE DEF r
  <2>2. id \in q.index => LogSound(Append(log, r), call) /\ Append(log, r) \in Seq(Record)
    BY <2>1, LogSoundKnown DEF Known
  <2>3. CASE SweepKeep(id)
    BY <2>3 DEF SweepKeep, Sweeping, TypeOK, Fresh, Held, counters
  <2>4. CASE SweepRetry(id)
    <3>1. id \in q.index /\ log' = Append(log, r) /\ pend' = r /\ call' = call /\ q' = q
      BY <2>4 DEF SweepRetry, r
    <3>2. TypeOK'
      BY <2>1, <2>2, <2>4, <3>1 DEF SweepRetry, TypeOK, counters
    <3>3. Held'
      BY <2>1, <2>4, <3>1 DEF SweepRetry, Sweeping, Held
    <3> QED
      BY <2>2, <3>1, <3>2, <3>3 DEF Fresh
  <2>5. CASE SweepAbort(id)
    <3>1. LogSound(log', call) /\ log' \in Seq(Record) /\ faults' \in Nat
      <4>1. log \in Seq(Record) /\ LogSound(log, call) /\ faults \in Nat
        BY DEF TypeOK
      <4>2. CASE id \notin q.index
        BY <2>5, <4>1, <4>2 DEF SweepAbort
      <4>3. CASE id \in q.index
        <5>1. log' \in {log, Append(log, r)} /\ faults' = faults + 1
          BY <2>5, <4>3 DEF SweepAbort, AfterFault, r
        <5>2. faults' \in Nat
          BY <4>1, <5>1
        <5>3. LogSound(log', call) /\ log' \in Seq(Record)
          BY <2>2, <4>1, <4>3, <5>1, Zenon
        <5> QED
          BY <5>2, <5>3
      <4> QED
        BY <4>2, <4>3
    <3>2. TypeOK'
      BY <2>5, <3>1 DEF SweepAbort, TypeOK
    <3>3. Held'
      BY <2>5 DEF SweepAbort, Sweeping, Held
    <3> QED
      BY <2>5, <3>1, <3>2, <3>3 DEF SweepAbort, Fresh
  <2> QED
    BY <1>3, <2>3, <2>4, <2>5 DEF SweepVisit
<1> QED
  BY <1>1, <1>2, <1>3

\* Leases that run out and backoffs that elapse preserve the invariant.
LEMMA TimeKeepsIndInv ==
  ASSUME IndInv, NEW id \in Ids, TimePasses(id)
  PROVE  IndInv'
BY DEF IndInv, TimePasses, LeaseExpires, BackoffElapses, TypeOK, Fresh, Held, counters

\* A crash preserves the invariant.
LEMMA CrashKeepsIndInv ==
  ASSUME IndInv, Crash
  PROVE  IndInv'
<1>1. q' \in Memory /\ Sound(q') /\ Known(q') = {}
  BY EmptySound DEF Crash, Sound
<1>2. /\ call' \in [Ids -> CallStates]
      /\ \A id \in Ids : call'[id] \notin {"append", "commit"}
      /\ \A id \in Ids : call'[id] \in {"idle", "append"} => call[id] \in {"idle", "append"}
  BY DEF IndInv, TypeOK, Crash, CallStates
<1>3. TypeOK'
  BY <1>1, <1>2 DEF IndInv, TypeOK, Crash
<1>4. LogSound(log, call') /\ log' = log
  BY <1>2, LogSoundCalls DEF IndInv, Crash
<1>5. Fresh'
  BY <1>1 DEF Fresh
<1>6. Held'
  BY <1>2 DEF Crash, Held, Idle
<1> QED
  BY <1>1, <1>3, <1>4, <1>5, <1>6 DEF IndInv

\* Recovery preserves the invariant: this is where the soundness of Replay(log),
\* kept all along, becomes the soundness of memory.
LEMMA NewQueueKeepsIndInv ==
  ASSUME IndInv, NewQueue
  PROVE  IndInv'
<1> DEFINE m == Replay(log)
<1>1. Sound(m) /\ m \in Memory
  BY DEF IndInv, LogSound, Sound
<1>2. \A id \in Ids : call[id] \in {"idle", "append"} => id \notin Known(m)
  BY DEF IndInv, LogSound
<1>3. /\ \A id \in Ids : call[id] \notin {"append", "commit"}
      /\ mu = "free" /\ pend = Idle
  BY DEF IndInv, Held, NewQueue
<1>4. \/ q' = m /\ proc' = "up"
      \/ q' = q /\ proc' = "panicked"
  BY DEF NewQueue
<1> HIDE DEF m
<1>5. Sound(q') /\ q' \in Memory
  BY <1>1, <1>4 DEF IndInv, TypeOK
<1>6. TypeOK'
  BY <1>4, <1>5 DEF IndInv, TypeOK, NewQueue, counters
<1>7. Fresh'
  BY <1>2, <1>3, <1>4 DEF IndInv, Fresh, NewQueue
<1>8. Held'
  BY <1>3, <1>4 DEF Held, NewQueue, Idle
<1> QED
  BY <1>5, <1>6, <1>7, <1>8 DEF IndInv, NewQueue

\* Every step of the queue preserves the invariant.
LEMMA StepKeepsIndInv ==
  ASSUME IndInv, [Next]_vars
  PROVE  IndInv'
<1>1. CASE \E id \in Ids : EnqueueStep(id)
  BY <1>1, EnqueueKeepsIndInv
<1>2. CASE \E id \in Ids : CallerStep(id)
  BY <1>2, CallerKeepsIndInv
<1>3. CASE Returns
  BY <1>3, ReturnsKeepIndInv
<1>4. CASE SweepBegin \/ SweepEnd \/ \E id \in Ids : SweepVisit(id)
  BY <1>4, SweepKeepsIndInv
<1>5. CASE \E id \in Ids : TimePasses(id)
  BY <1>5, TimeKeepsIndInv
<1>6. CASE Crash
  BY <1>6, CrashKeepsIndInv
<1>7. CASE NewQueue
  BY <1>7, NewQueueKeepsIndInv
<1>8. CASE UNCHANGED vars
  BY <1>8 DEF vars, IndInv, TypeOK, Fresh, Held
<1> QED
  BY <1>1, <1>2, <1>3, <1>4, <1>5, <1>6, <1>7, <1>8 DEF Next

\* The inductive invariant holds in every reachable state of the queue.
THEOREM Invariance == Spec => []IndInv
<1>1. IndInv /\ [Next]_vars => IndInv'
  BY StepKeepsIndInv
<1> QED
  BY <1>1, InitIndInv, PTL DEF Spec

\* The Queue struct, the log and the bookkeeping of the calls are always well
\* typed; in particular no pop takes the heap below empty.
THEOREM TypeCorrect == Spec => []TypeOK
<1>1. IndInv => TypeOK
  BY DEF IndInv
<1> QED
  BY <1>1, Invariance, PTL

\* No operation, sweep, failed Append, crash or replay leaves a task in q.index
\* that is neither on the heap nor in flight.
THEOREM NoTaskIsLost == Spec => []NoLostTask
<1>1. IndInv => NoLostTask
  BY DEF IndInv, Sound, Placed, NoLostTask
<1> QED
  BY <1>1, Invariance, PTL

\* No task is in q.index and in q.dlq at once, whatever record was lost, repeated
\* or landed although its Append failed.
THEOREM NoTaskIsLiveAndDead == Spec => []LiveNotDead
<1>1. IndInv => LiveNotDead
  BY DEF IndInv, Sound, LiveNotDead
<1> QED
  BY <1>1, Invariance, PTL

\* The idempotency key of a live or dead task always leads to that task, so two
\* tasks in the queue never share a key, although Enqueue drops the mutex between
\* its first look at the key map and its insertion.
THEOREM KeysOwnTheirTasks == Spec => []KeyOwnsTask
<1>1. IndInv => KeyOwnsTask
  BY DEF IndInv, Sound, Owned, KeyOwnsTask
<1> QED
  BY <1>1, Invariance, PTL

----------------------------------------------------------------------------

\* Until the first crash the process is up, and the ID that a call with a key
\* returned is the one the key leads to.
RaceInv ==
  crashes = 0 =>
    /\ proc = "up"
    /\ \A id \in Ids : call[id] = "done" /\ KeyOf[id] # NoKey =>
         ret[id] # None /\ q.indexOfIdemKeys[KeyOf[id]] = ret[id]

\* No operation but Enqueue writes the key map.
LEMMA KeysKept ==
  ASSUME IndInv, Returns \/ \E id \in Ids : Dequeue(id)
  PROVE  q'.indexOfIdemKeys = q.indexOfIdemKeys /\ UNCHANGED <<call, ret, proc, crashes>>
<1>1. q \in Memory
  BY DEF IndInv, TypeOK
<1>2. CASE \E id \in Ids : Dequeue(id)
  BY <1>1, <1>2 DEF Dequeue, DequeueEffect, Memory, counters
<1>3. CASE Returns
  <2>1. Release
    BY <1>3 DEF Returns, AckReturns, RetryReturns, DeadReturns, RequeueReturns, PurgeReturns
  <2>2. q'.indexOfIdemKeys = q.indexOfIdemKeys
    <3>2. CASE AckReturns
      BY <1>1, <3>2 DEF AckReturns, AckEffect, Memory
    <3>3. CASE RetryReturns
      BY <1>1, <3>3 DEF RetryReturns, RetryEffect, Memory
    <3>4. CASE DeadReturns
      BY <1>1, <3>4 DEF DeadReturns, DeadEffect, Memory
    <3>5. CASE RequeueReturns
      BY <1>1, <3>5 DEF RequeueReturns, RequeueEffect, Memory
    <3>6. CASE PurgeReturns
      BY <1>1, <3>6 DEF PurgeReturns, PurgeEffect, Memory
    <3> QED
      BY <1>3, <3>2, <3>3, <3>4, <3>5, <3>6 DEF Returns
  <2> QED
    BY <2>1, <2>2 DEF Release, counters
<1> QED
  BY <1>2, <1>3

\* An Enqueue call returns the ID its key leads to, and writes only a key that led
\* to no task.
LEMMA EnqueueKeepsRaceInv ==
  ASSUME IndInv, RaceInv, NEW id \in Ids, EnqueueStep(id)
  PROVE  RaceInv'
<1>0. TypeOK /\ crashes' = crashes /\ proc' = proc
  BY DEF IndInv, EnqueueStep, EnqueueDedup, EnqueueBegin, EnqueueAppend, EnqueueFails,
         EnqueueCommit, counters
<1>1. CASE /\ UNCHANGED <<q, ret>> /\ call' = [call EXCEPT ![id] = call'[id]]
           /\ call'[id] # "done"
  BY <1>0, <1>1 DEF RaceInv, TypeOK
<1>2. CASE /\ KeyTaken(q, id) /\ UNCHANGED q
           /\ call' = [call EXCEPT ![id] = "done"]
           /\ ret' = [ret EXCEPT ![id] = q.indexOfIdemKeys[KeyOf[id]]]
  BY <1>0, <1>2 DEF RaceInv, TypeOK, KeyTaken
<1>3. CASE /\ ~KeyTaken(q, id) /\ q' = Insert(q, id)
           /\ call' = [call EXCEPT ![id] = "done"]
           /\ ret' = [ret EXCEPT ![id] = id]
  <2>1. q'.indexOfIdemKeys = [q.indexOfIdemKeys EXCEPT ![KeyOf[id]] = id]
    BY <1>0, <1>3 DEF Insert, TypeOK, Memory
  <2>2. q.indexOfIdemKeys \in [Keys -> Ids \cup {None}] /\ \A x \in Ids : KeyOf[x] \in Keys
    BY <1>0, KeyInKeys DEF TypeOK, Memory
  <2>3. ASSUME NEW x \in Ids, x # id, call[x] = "done", KeyOf[x] # NoKey, crashes = 0
        PROVE  KeyOf[x] # KeyOf[id]
    BY <1>3, <2>3 DEF RaceInv, KeyTaken
  <2>4. call \in [Ids -> CallStates] /\ ret \in [Ids -> Ids \cup {None}] /\ id # None
    BY <1>0, StoreAssumption DEF TypeOK
  <2>5. ASSUME NEW x \in Ids, call'[x] = "done", KeyOf[x] # NoKey, crashes' = 0
        PROVE  ret'[x] # None /\ q'.indexOfIdemKeys[KeyOf[x]] = ret'[x]
    <3>1. CASE x = id
      BY <1>3, <2>1, <2>2, <2>4, <3>1
    <3>2. CASE x # id
      <4>1. call[x] = "done" /\ ret'[x] = ret[x]
        BY <1>3, <2>4, <2>5, <3>2
      <4>2. q'.indexOfIdemKeys[KeyOf[x]] = q.indexOfIdemKeys[KeyOf[x]]
        BY <1>0, <2>1, <2>2, <2>3, <2>5, <3>2, <4>1
      <4> QED
        BY <1>0, <2>5, <4>1, <4>2 DEF RaceInv
    <3> QED
      BY <3>1, <3>2
  <2> QED
    BY <1>0, <2>5 DEF RaceInv
<1>4. call \in [Ids -> CallStates]
  BY <1>0 DEF TypeOK
<1> QED
  BY <1>1, <1>2, <1>3, <1>4 DEF EnqueueStep, EnqueueDedup, EnqueueBegin, EnqueueAppend,
                                EnqueueFails, EnqueueCommit

\* Until the process first dies, calls of Enqueue with one key return one task ID
\* however they overlap: the loser of the race returns the winner's ID.
THEOREM RacingCallsAgree == Spec => []RacersAgree
<1>1. Init => RaceInv
  BY DEF Init, RaceInv
<1>2. IndInv /\ RaceInv /\ [Next]_vars => RaceInv'
  <2> SUFFICES ASSUME IndInv, RaceInv, [Next]_vars PROVE RaceInv'
    OBVIOUS
  <2>1. CASE Returns \/ \E id \in Ids : Dequeue(id)
    BY <2>1, KeysKept DEF RaceInv
  <2>2. CASE UNCHANGED <<q, call, ret, proc, crashes>>
    BY <2>2 DEF RaceInv
  <2>3. CASE Crash
    BY <2>3 DEF Crash, RaceInv, IndInv, TypeOK
  <2>4. CASE NewQueue
    BY <2>4 DEF NewQueue, RaceInv, counters
  <2>5. ASSUME NEW id \in Ids,
               Ack(id) \/ Retry(id) \/ RequeueDead(id) \/ PurgeDeadTask(id)
        PROVE  UNCHANGED <<q, call, ret, proc, crashes>>
    BY <2>5 DEF Ack, Retry, RequeueDead, PurgeDeadTask, CallerAppends
  <2>6. ASSUME SweepBegin \/ SweepEnd \/ UNCHANGED vars
        PROVE  UNCHANGED <<q, call, ret, proc, crashes>>
    BY <2>6 DEF SweepBegin, SweepEnd, vars, counters
  <2>7. ASSUME NEW id \in Ids, SweepVisit(id) \/ TimePasses(id)
        PROVE  UNCHANGED <<q, call, ret, proc, crashes>>
    BY <2>7 DEF SweepVisit, SweepKeep, SweepRetry, SweepAbort, TimePasses, LeaseExpires,
                BackoffElapses, counters
  <2> QED
    BY <2>1, <2>2, <2>3, <2>4, <2>5, <2>6, <2>7, EnqueueKeepsRaceInv DEF Next, CallerStep
<1>3. RaceInv => RacersAgree
  BY DEF RaceInv, RacersAgree, OneTaskPerKey
<1> QED
  BY <1>1, <1>2, <1>3, Invariance, PTL DEF Spec
============================================================================
