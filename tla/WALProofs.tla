----------------------------- MODULE WALProofs -----------------------------
(***************************************************************************)
(* What holds of the write-ahead log for any number of Append calls, any   *)
(* channel capacity, any failed writes and fsyncs, any crashes and any     *)
(* Close: the types, OkIsDurable, GoodPrefixKept, and that it implements   *)
(* DurableLog.                                                             *)
(*                                                                         *)
(* The invariant follows a request on its way: in the channel or in the    *)
(* batch, never in both, its caller waiting; once its frame is written it  *)
(* is among the first pos of the batch; a batch is answered without error  *)
(* only when every frame of it lies in the fsync'd part of the file.       *)
(***************************************************************************)
EXTENDS WALProperties, TLAPS

\* Sequences: what Append and Tail do to the elements.
LEMMA AppendFacts ==
  ASSUME NEW S, NEW s \in Seq(S), NEW x \in S
  PROVE  /\ Append(s, x) \in Seq(S) /\ Len(s) \in Nat /\ Len(Append(s, x)) = Len(s) + 1
         /\ \A i \in 1..Len(s) : Append(s, x)[i] = s[i]
         /\ Append(s, x)[Len(s) + 1] = x
OBVIOUS

\* ... and what is left when the head is taken.
LEMMA TailFacts ==
  ASSUME NEW S, NEW s \in Seq(S), s # <<>>
  PROVE  /\ Tail(s) \in Seq(S) /\ Len(s) \in Nat /\ Len(s) >= 1 /\ Len(Tail(s)) = Len(s) - 1
         /\ Head(s) = s[1] /\ Head(s) \in S
         /\ \A i \in 1..(Len(s) - 1) : Tail(s)[i] = s[i + 1]
OBVIOUS

----------------------------------------------------------------------------

\* The first n frames of the file f have a whole one of the record r.
HasFrame(f, r, n) == \E k \in 1..n : f[k].rec = r /\ f[k].whole

Queued(r) == \E i \in 1..Len(requests) : requests[i] = r

\* A request is in one place, and its caller waits.
Queues ==
  /\ \A r \in Records : Queued(r) \/ InBatch(r) => caller[r] = "waiting"
  /\ \A i, j \in 1..Len(requests) : requests[i] = requests[j] => i = j
  /\ \A i, j \in 1..Len(batch) : batch[i] = batch[j] /\ batch[i] # Nil => i = j
  /\ \A r \in Records : ~(Queued(r) /\ InBatch(r))

\* What the writer has of a batch at each point of its loop.  A nil request can
\* only have come from a closed channel, and then the loop does not get further.
Phases ==
  /\ writer \in {"recv", "exited", "dead"} => batch = <<>>
  /\ writer \in {"recv", "exited", "dead", "drain"} => pos = 0
  /\ writer = "drain" => batch # <<>>
  /\ writer # "reply" => ~batchErr
  /\ (writer = "drain" => ~closed) => batch \in Seq(Records)
  /\ closer = "done" => writer = "exited"

\* Written frames: those of the batch, those of calls that are over, and, for a
\* call that returned nil, one that is durable.
Frames ==
  /\ \A i \in 1..pos : HasFrame(file, batch[i], Len(file))
  /\ writer = "reply" /\ ~batchErr => \A i \in 1..Len(batch) : HasFrame(file, batch[i], synced)
  /\ \A r \in Records : HasFrame(file, r, Len(file)) =>
       /\ caller[r] \notin {"idle", "sending"}
       /\ caller[r] = "waiting" => \E i \in 1..pos : batch[i] = r
  /\ \A r \in Records : caller[r] = "ok" => HasFrame(file, r, synced)

\* The inductive invariant.
WInv == TypeOK /\ Queues /\ Phases /\ Frames

\* A log on a new file.
LEMMA InitWInv == Init => WInv
<1> SUFFICES ASSUME Init PROVE WInv
  OBVIOUS
<1>1. TypeOK
  <2>1. /\ requests = <<>> /\ batch = <<>> /\ file = <<>> /\ Len(<<>>) = 0
        /\ \A S : <<>> \in Seq(S)
    BY DEF Init
  <2>2. requests \in Seq(Records) /\ batch \in Seq(Records \cup {Nil}) /\ file \in Seq(Frame)
    BY <2>1
  <2>3. caller \in [Records -> CallerStates]
    BY DEF Init, CallerStates
  <2>4. Len(requests) <= Cap /\ pos \in 0..Len(batch) /\ synced \in 0..Len(file)
    <3>1. Len(requests) = 0 /\ Len(batch) = 0 /\ Len(file) = 0 /\ pos = 0 /\ synced = 0
      BY <2>1 DEF Init
    <3> QED
      BY <3>1, WALAssumption
  <2>5. closed \in BOOLEAN /\ batchErr \in BOOLEAN
    BY DEF Init
  <2> QED
    BY <2>2, <2>3, <2>4, <2>5 DEF Init, TypeOK
<1>2. Queues
  BY DEF Init, Queues, Queued, InBatch
<1>3. Phases
  BY DEF Init, Phases
<1>4. Frames
  BY DEF Init, Frames, HasFrame
<1> QED
  BY <1>1, <1>2, <1>3, <1>4 DEF WInv

\* Append is called; Close is called or returns; nothing happens.
LEMMA QuietKeepsWInv ==
  ASSUME WInv, UNCHANGED <<requests, writer, batch, pos, batchErr, file, synced>>,
         TypeOK', closed => closed', closer' = "done" => writer = "exited",
         \A r \in Records : \/ caller'[r] = caller[r]
                            \/ caller[r] = "idle" /\ caller'[r] = "sending"
  PROVE  WInv'
<1>1. Queues'
  BY DEF WInv, Queues, Queued, InBatch
<1>2. Phases'
  BY DEF WInv, Phases
<1>3. Frames'
  BY DEF WInv, Frames
<1> QED
  BY <1>1, <1>2, <1>3 DEF WInv

\* A request is sent.
LEMMA SendKeepsWInv ==
  ASSUME WInv, NEW r \in Records, Send(r)
  PROVE  WInv'
<1>1. TypeOK /\ Queues /\ Phases /\ Frames
  BY DEF WInv
<1>2. /\ caller[r] = "sending" /\ requests' = Append(requests, r)
      /\ caller' = [caller EXCEPT ![r] = "waiting"] /\ Len(requests) < Cap
      /\ UNCHANGED <<closed, writer, batch, pos, batchErr, file, synced, closer, faults, crashes>>
  BY DEF Send, batchVars, diskVars
<1>3. caller \in [Records -> CallerStates] /\ requests \in Seq(Records)
  BY <1>1 DEF TypeOK
<1>4. /\ requests' \in Seq(Records) /\ Len(requests) \in Nat /\ Len(requests') = Len(requests) + 1
      /\ \A i \in 1..Len(requests) : requests'[i] = requests[i]
      /\ requests'[Len(requests) + 1] = r
  BY <1>2, <1>3, AppendFacts
<1>5. TypeOK'
  BY <1>1, <1>2, <1>4, WALAssumption DEF TypeOK, CallerStates
<1>6. \A x \in Records : /\ Queued(x)' <=> Queued(x) \/ x = r
                         /\ InBatch(x)' <=> InBatch(x)
  BY <1>2, <1>4 DEF Queued, InBatch
<1>7. ~Queued(r) /\ ~InBatch(r)
  BY <1>1, <1>2 DEF Queues
<1>8. Queues'
  <2>1. \A i, j \in 1..Len(requests') : requests'[i] = requests'[j] => i = j
    BY <1>1, <1>4, <1>7 DEF Queues, Queued
  <2>2. \A x \in Records : Queued(x)' \/ InBatch(x)' => caller'[x] = "waiting"
    BY <1>1, <1>2, <1>3, <1>6 DEF Queues
  <2>3. \A x \in Records : ~(Queued(x)' /\ InBatch(x)')
    BY <1>1, <1>6, <1>7 DEF Queues
  <2> QED
    BY <1>1, <1>2, <2>1, <2>2, <2>3 DEF Queues
<1>9. Phases'
  BY <1>1, <1>2 DEF Phases
<1>10. Frames'
  <2>1. ~HasFrame(file, r, Len(file))
    BY <1>1, <1>2 DEF Frames
  <2> QED
    BY <1>1, <1>2, <1>3, <2>1 DEF Frames
<1> QED
  BY <1>5, <1>8, <1>9, <1>10 DEF WInv

\* The first request of a batch is received, or one more is drained.
LEMMA TakeKeepsWInv ==
  ASSUME WInv, Receive \/ Drain
  PROVE  WInv'
<1> DEFINE h == Head(requests)
<1>1. TypeOK /\ Queues /\ Phases /\ Frames
  BY DEF WInv
<1>2. /\ writer \in {"recv", "drain"} /\ writer' = "drain" /\ requests # <<>>
      /\ requests' = Tail(requests)
      /\ UNCHANGED <<caller, closed, pos, batchErr, file, synced, closer, faults, crashes>>
  BY DEF Receive, Drain, diskVars
<1>3. caller \in [Records -> CallerStates] /\ requests \in Seq(Records) /\ pos = 0
  BY <1>1, <1>2 DEF TypeOK, Phases
<1>4. /\ requests' \in Seq(Records) /\ Len(requests) \in Nat /\ Len(requests) >= 1
      /\ Len(requests') = Len(requests) - 1 /\ h = requests[1] /\ h \in Records
      /\ \A i \in 1..(Len(requests) - 1) : requests'[i] = requests[i + 1]
  BY <1>2, <1>3, TailFacts
<1> HIDE DEF h
<1>5. batch' = Append(batch, h)
  <2>1. CASE Receive
    BY <1>1, <2>1 DEF Receive, Phases, h
  <2>2. CASE Drain
    BY <2>2 DEF Drain, h
  <2> QED
    BY <2>1, <2>2
<1>6. /\ batch' \in Seq(Records \cup {Nil}) /\ Len(batch) \in Nat /\ Len(batch') = Len(batch) + 1
      /\ \A i \in 1..Len(batch) : batch'[i] = batch[i]
      /\ batch'[Len(batch) + 1] = h
  <2>1. batch \in Seq(Records \cup {Nil}) /\ h \in Records \cup {Nil}
    BY <1>1, <1>4 DEF TypeOK
  <2> QED
    BY <1>5, <2>1, AppendFacts
<1>7. TypeOK'
  <2>1. pos' \in 0..Len(batch')
    BY <1>2, <1>3, <1>6
  <2>2. Len(requests') <= Cap
    BY <1>1, <1>4, WALAssumption DEF TypeOK
  <2>3. closed' \in BOOLEAN /\ batchErr' \in BOOLEAN /\ synced' \in 0..Len(file')
    BY <1>1, <1>2 DEF TypeOK
  <2> QED
    BY <1>1, <1>2, <1>4, <1>6, <2>1, <2>2, <2>3 DEF TypeOK
<1>8. /\ Queued(h) /\ \A x \in Records : Queued(x)' => Queued(x) /\ x # h
      /\ \A x \in Records : InBatch(x)' <=> InBatch(x) \/ x = h
  <2>1. Queued(h)
    BY <1>4 DEF Queued
  <2>2. ASSUME NEW x \in Records, Queued(x)' PROVE Queued(x) /\ x # h
    <3>1. PICK i \in 1..Len(requests') : requests'[i] = x
      BY <2>2 DEF Queued
    <3>2. i + 1 \in 1..Len(requests) /\ requests[i + 1] = x /\ i + 1 # 1 /\ 1 \in 1..Len(requests)
      BY <1>4, <3>1
    <3> QED
      BY <1>1, <1>4, <3>2 DEF Queues, Queued
  <2>3. \A x \in Records : InBatch(x)' <=> InBatch(x) \/ x = h
    BY <1>6 DEF InBatch
  <2> QED
    BY <2>1, <2>2, <2>3
<1>9. Queues'
  <2>1. \A i, j \in 1..Len(requests') : requests'[i] = requests'[j] => i = j
    <3> SUFFICES ASSUME NEW i \in 1..Len(requests'), NEW j \in 1..Len(requests'),
                        requests'[i] = requests'[j]
                 PROVE  i = j
      OBVIOUS
    <3>1. /\ i + 1 \in 1..Len(requests) /\ j + 1 \in 1..Len(requests)
          /\ requests[i + 1] = requests[j + 1] /\ i \in Int /\ j \in Int
      BY <1>4
    <3>2. i + 1 = j + 1
      BY <1>1, <3>1 DEF Queues
    <3> QED
      BY <3>1, <3>2
  <2>2. \A i, j \in 1..Len(batch') : batch'[i] = batch'[j] /\ batch'[i] # Nil => i = j
    <3>1. ~InBatch(h)
      BY <1>1, <1>4, <1>8 DEF Queues
    <3> QED
      BY <1>1, <1>6, <3>1 DEF Queues, InBatch
  <2>3. \A x \in Records : Queued(x)' \/ InBatch(x)' => caller'[x] = "waiting"
    BY <1>1, <1>2, <1>8 DEF Queues
  <2>4. \A x \in Records : ~(Queued(x)' /\ InBatch(x)')
    BY <1>1, <1>8 DEF Queues
  <2> QED
    BY <2>1, <2>2, <2>3, <2>4 DEF Queues
<1>10. Phases'
  <2>1. batch' # <<>>
    BY <1>6
  <2>2. ~closed => batch' \in Seq(Records)
    <3>1. ~closed => batch \in Seq(Records)
      BY <1>1 DEF Phases
    <3> QED
      BY <1>4, <1>5, <3>1, AppendFacts
  <2> QED
    BY <1>1, <1>2, <1>3, <2>1, <2>2 DEF Phases
<1>11. Frames'
  BY <1>1, <1>2, <1>3 DEF Frames
<1> QED
  BY <1>7, <1>9, <1>10, <1>11 DEF WInv

\* The range over the channel ends; the select finds nothing more.
LEMMA IdleKeepsWInv ==
  ASSUME WInv, Exit \/ Drained
  PROVE  WInv'
<1>1. TypeOK /\ Queues /\ Phases /\ Frames
  BY DEF WInv
<1>2. /\ UNCHANGED <<caller, requests, closed, batch, pos, batchErr, file, synced, closer,
                     faults, crashes>>
      /\ \/ writer = "recv" /\ writer' = "exited"
         \/ writer = "drain" /\ ~closed /\ writer' = "write"
  BY DEF Exit, Drained, batchVars, diskVars
<1>3. TypeOK'
  BY <1>1, <1>2 DEF TypeOK
<1>4. Queues'
  BY <1>1, <1>2 DEF Queues, Queued, InBatch
<1>5. Phases'
  BY <1>1, <1>2 DEF Phases
<1>6. Frames'
  BY <1>1, <1>2 DEF Frames
<1> QED
  BY <1>3, <1>4, <1>5, <1>6 DEF WInv

\* A closed channel yields nil.
LEMMA DrainClosedKeepsWInv ==
  ASSUME WInv, DrainClosed
  PROVE  WInv'
<1>1. TypeOK /\ Queues /\ Phases /\ Frames
  BY DEF WInv
<1>2. /\ UNCHANGED <<caller, requests, closed, writer, pos, batchErr, file, synced, closer,
                     faults, crashes>>
      /\ writer = "drain" /\ closed /\ pos = 0
      /\ batch' = batch \/ batch' = Append(batch, Nil)
  BY <1>1 DEF DrainClosed, diskVars, Phases
<1>3. CASE batch' = batch
  <2>1. TypeOK'
    BY <1>1, <1>2, <1>3 DEF TypeOK
  <2>2. Queues' /\ Phases'
    BY <1>1, <1>2, <1>3 DEF Queues, Queued, InBatch, Phases
  <2>3. Frames'
    BY <1>1, <1>2, <1>3 DEF Frames
  <2> QED
    BY <2>1, <2>2, <2>3 DEF WInv
<1>4. CASE batch' = Append(batch, Nil)
  <2>1. /\ batch' \in Seq(Records \cup {Nil}) /\ Len(batch) \in Nat
        /\ Len(batch') = Len(batch) + 1
        /\ \A i \in 1..Len(batch) : batch'[i] = batch[i]
        /\ batch'[Len(batch) + 1] = Nil
    <3>1. batch \in Seq(Records \cup {Nil}) /\ Nil \in Records \cup {Nil}
      BY <1>1 DEF TypeOK
    <3> QED
      BY <1>4, <3>1, AppendFacts
  <2>2. TypeOK'
    BY <1>1, <1>2, <2>1 DEF TypeOK
  <2>3. \A x \in Records : InBatch(x)' <=> InBatch(x)
    BY <2>1, WALAssumption DEF InBatch
  <2>4. \A i, j \in 1..Len(batch') : batch'[i] = batch'[j] /\ batch'[i] # Nil => i = j
    BY <1>1, <2>1 DEF Queues
  <2>5. Queues'
    BY <1>1, <1>2, <2>3, <2>4 DEF Queues, Queued
  <2>6. Phases'
    BY <1>1, <1>2, <2>1 DEF Phases
  <2>7. Frames'
    BY <1>1, <1>2 DEF Frames
  <2> QED
    BY <2>2, <2>5, <2>6, <2>7 DEF WInv
<1> QED
  BY <1>2, <1>3, <1>4

----------------------------------------------------------------------------

\* One more frame.
LEMMA FrameAppend ==
  ASSUME NEW f \in Seq(Frame), NEW x \in Frame, NEW r
  PROVE  /\ HasFrame(Append(f, x), r, Len(Append(f, x))) <=>
              HasFrame(f, r, Len(f)) \/ (x.whole /\ x.rec = r)
         /\ \A n \in 0..Len(f) : HasFrame(Append(f, x), r, n) <=> HasFrame(f, r, n)
<1> DEFINE g == Append(f, x)
<1>1. /\ Len(f) \in Nat /\ Len(g) = Len(f) + 1 /\ g[Len(f) + 1] = x
      /\ \A i \in 1..Len(f) : g[i] = f[i]
  BY AppendFacts
<1> HIDE DEF g
<1>2. HasFrame(g, r, Len(g)) <=> HasFrame(f, r, Len(f)) \/ (x.whole /\ x.rec = r)
  BY <1>1 DEF HasFrame
<1>3. \A n \in 0..Len(f) : HasFrame(g, r, n) <=> HasFrame(f, r, n)
  BY <1>1 DEF HasFrame
<1> QED
  BY <1>2, <1>3 DEF g

\* What lies in a prefix lies in the file.
LEMMA FrameInLonger ==
  ASSUME NEW f, NEW r, NEW m \in Nat, NEW n \in Nat, m <= n, HasFrame(f, r, m)
  PROVE  HasFrame(f, r, n)
BY DEF HasFrame

\* A crash leaves a prefix of the file that holds all that was fsync'd, perhaps with
\* a torn frame behind it.
LEMMA CrashLeavesPrefix ==
  ASSUME TypeOK, NEW f \in Surviving
  PROVE  \E n \in synced..Len(file) :
           /\ SubSeq(file, 1, n) \in Seq(Frame)
           /\ \/ f = SubSeq(file, 1, n)
              \/ \E x \in Frame : ~x.whole /\ f = Append(SubSeq(file, 1, n), x)
<1>1. file \in Seq(Frame) /\ synced \in 0..Len(file) /\ Len(file) \in Nat
  BY DEF TypeOK
<1>2. \A n \in synced..Len(file) : SubSeq(file, 1, n) \in Seq(Frame)
  BY <1>1
<1>3. CASE f \in {SubSeq(file, 1, n) : n \in synced..Len(file)}
  BY <1>2, <1>3
<1>4. CASE f \in {Append(SubSeq(file, 1, n), [file[n + 1] EXCEPT !.whole = FALSE]) :
                    n \in synced..(Len(file) - 1)}
  <2>1. PICK n \in synced..(Len(file) - 1) :
          f = Append(SubSeq(file, 1, n), [file[n + 1] EXCEPT !.whole = FALSE])
    BY <1>4
  <2> DEFINE x == [file[n + 1] EXCEPT !.whole = FALSE]
  <2>2. n \in synced..Len(file) /\ n + 1 \in 1..Len(file)
    BY <1>1, <2>1
  <2>3. file[n + 1] \in Frame
    BY <1>1, <2>2
  <2>4. x \in Frame /\ ~x.whole
    BY <2>3 DEF Frame
  <2> QED
    BY <1>2, <2>1, <2>2, <2>4
<1> QED
  BY <1>3, <1>4 DEF Surviving

\* So it loses no durable frame and adds no whole one.
LEMMA CrashKeepsFrames ==
  ASSUME TypeOK, NEW f \in Surviving, NEW r
  PROVE  /\ f \in Seq(Frame)
         /\ HasFrame(f, r, Len(f)) => HasFrame(file, r, Len(file))
         /\ HasFrame(file, r, synced) => HasFrame(f, r, Len(f))
<1>1. PICK n \in synced..Len(file) :
        /\ SubSeq(file, 1, n) \in Seq(Frame)
        /\ \/ f = SubSeq(file, 1, n)
           \/ \E x \in Frame : ~x.whole /\ f = Append(SubSeq(file, 1, n), x)
  BY CrashLeavesPrefix
<1> DEFINE g == SubSeq(file, 1, n)
<1>2. /\ file \in Seq(Frame) /\ synced \in 0..Len(file) /\ Len(file) \in Nat /\ n \in Nat
      /\ synced \in Nat
  BY DEF TypeOK
<1>3. Len(g) = n /\ g \in Seq(Frame) /\ \A i \in 1..n : g[i] = file[i]
  BY <1>1, <1>2
<1> HIDE DEF g
<1>4. HasFrame(g, r, Len(g)) <=> HasFrame(file, r, n)
  BY <1>3 DEF HasFrame
<1>5. f \in Seq(Frame) /\ (HasFrame(f, r, Len(f)) <=> HasFrame(g, r, Len(g)))
  <2>1. CASE f = g
    BY <1>3, <2>1
  <2>2. ASSUME NEW x \in Frame, ~x.whole, f = Append(g, x)
        PROVE  f \in Seq(Frame) /\ (HasFrame(f, r, Len(f)) <=> HasFrame(g, r, Len(g)))
    <3>1. f \in Seq(Frame)
      BY <1>3, <2>2, AppendFacts
    <3> QED
      BY <1>3, <2>2, <3>1, FrameAppend
  <2> QED
    BY <1>1, <2>1, <2>2 DEF g
<1>6. n <= Len(file) /\ synced <= n
  BY <1>1, <1>2
<1> QED
  BY <1>2, <1>4, <1>5, <1>6, FrameInLonger

\* A frame is written, whole or torn, or the write fails before its first byte.
LEMMA WriteKeepsWInv ==
  ASSUME WInv, Write \/ WriteFails
  PROVE  WInv'
<1> DEFINE r == batch[pos + 1]
<1>1. TypeOK /\ Queues /\ Phases /\ Frames
  BY DEF WInv
<1>2. /\ writer = "write" /\ pos < Len(batch)
      /\ UNCHANGED <<caller, requests, closed, batch, synced, closer, crashes>>
  BY DEF Write, WriteFails
<1>3. /\ pos + 1 \in 1..Len(batch) /\ r \in Records /\ pos \in Nat /\ Len(batch) \in Nat
      /\ synced \in 0..Len(file) /\ file \in Seq(Frame) /\ Len(file) \in Nat /\ faults \in Nat
  <2>1. batch \in Seq(Records)
    BY <1>1, <1>2 DEF Phases
  <2>2. pos + 1 \in 1..Len(batch) /\ pos \in Nat /\ Len(batch) \in Nat
    BY <1>1, <1>2, <2>1 DEF TypeOK
  <2> QED
    BY <1>1, <2>1, <2>2 DEF TypeOK
<1>4. \A b \in BOOLEAN : [rec |-> r, whole |-> b] \in Frame
  BY <1>3 DEF Frame
<1>5. InBatch(r) /\ caller[r] = "waiting"
  BY <1>1, <1>3 DEF Queues, InBatch
<1>6. Queues'
  BY <1>1, <1>2 DEF Queues, Queued, InBatch
<1> HIDE DEF r
<1>7. CASE Write
  <2> DEFINE x == [rec |-> r, whole |-> TRUE]
  <2>1. file' = Append(file, x) /\ pos' = pos + 1 /\ UNCHANGED <<writer, batchErr, faults>>
    BY <1>7 DEF Write, r
  <2>2. x \in Frame /\ x.rec = r /\ x.whole
    BY <1>4
  <2> HIDE DEF x
  <2>3. \A y \in Records :
          /\ HasFrame(file', y, Len(file')) <=> HasFrame(file, y, Len(file)) \/ y = r
          /\ HasFrame(file', y, synced') <=> HasFrame(file, y, synced)
    BY <1>2, <1>3, <2>1, <2>2, FrameAppend
  <2>4. TypeOK'
    <3>1. file' \in Seq(Frame) /\ Len(file') = Len(file) + 1
      BY <1>3, <2>1, <2>2, AppendFacts
    <3>2. synced' \in 0..Len(file') /\ pos' \in 0..Len(batch')
      BY <1>2, <1>3, <2>1, <3>1
    <3> QED
      BY <1>1, <1>2, <2>1, <3>1, <3>2 DEF TypeOK
  <2>5. Phases'
    BY <1>1, <1>2, <2>1 DEF Phases
  <2>6. Frames'
    <3>1. \A i \in 1..pos' : i \in 1..pos \/ i = pos + 1
      BY <1>3, <2>1
    <3>2. \A i \in 1..pos : i \in 1..Len(batch) /\ batch[i] \in Records /\ i \in 1..pos'
      <4>1. batch \in Seq(Records)
        BY <1>1, <1>2 DEF Phases
      <4>2. \A i \in 1..pos : i \in 1..Len(batch) /\ i \in 1..pos'
        BY <1>2, <1>3, <2>1
      <4> QED
        BY <4>1, <4>2
    <3>3. \A i \in 1..pos' : HasFrame(file', batch'[i], Len(file'))
      BY <1>1, <1>2, <1>3, <2>3, <3>1, <3>2 DEF Frames, r
    <3>4. r = batch'[pos + 1] /\ pos + 1 \in 1..pos'
      BY <1>2, <1>3, <2>1 DEF r
    <3>5. \A y \in Records : HasFrame(file', y, Len(file')) =>
            /\ caller'[y] \notin {"idle", "sending"}
            /\ caller'[y] = "waiting" => \E i \in 1..pos' : batch'[i] = y
      BY <1>1, <1>2, <1>5, <2>3, <3>2, <3>4 DEF Frames
    <3> QED
      BY <1>1, <1>2, <2>1, <2>3, <3>3, <3>5 DEF Frames
  <2> QED
    BY <1>6, <2>4, <2>5, <2>6 DEF WInv
<1>8. CASE WriteFails
  <2> DEFINE x == [rec |-> r, whole |-> FALSE]
  <2>1. /\ file' = file \/ file' = Append(file, x)
        /\ pos' = pos /\ writer' = "reply" /\ batchErr' = TRUE /\ faults' = faults + 1
    BY <1>8 DEF WriteFails, r
  <2>2. x \in Frame /\ ~x.whole
    BY <1>4
  <2> HIDE DEF x
  <2>3. \A y : /\ HasFrame(file', y, Len(file')) <=> HasFrame(file, y, Len(file))
               /\ HasFrame(file', y, synced') <=> HasFrame(file, y, synced)
    <3>1. CASE file' = file
      BY <1>2, <3>1
    <3>2. CASE file' = Append(file, x)
      BY <1>2, <1>3, <2>2, <3>2, FrameAppend
    <3> QED
      BY <2>1, <3>1, <3>2
  <2>4. TypeOK'
    <3>1. file' \in Seq(Frame) /\ Len(file') \in Nat /\ Len(file') >= Len(file)
      BY <1>3, <2>1, <2>2, AppendFacts
    <3>2. synced' \in 0..Len(file')
      BY <1>2, <1>3, <3>1
    <3> QED
      BY <1>1, <1>2, <1>3, <2>1, <3>1, <3>2 DEF TypeOK
  <2>5. Phases'
    BY <1>1, <1>2, <2>1 DEF Phases
  <2>6. Frames'
    BY <1>1, <1>2, <2>1, <2>3 DEF Frames
  <2> QED
    BY <1>6, <2>4, <2>5, <2>6 DEF WInv
<1> QED
  BY <1>7, <1>8

\* The fsync: with it every frame of the batch is durable, without it the batch
\* gets the error.
LEMMA SyncKeepsWInv ==
  ASSUME WInv, Sync \/ SyncFails
  PROVE  WInv'
<1>1. TypeOK /\ Queues /\ Phases /\ Frames
  BY DEF WInv
<1>2. /\ writer = "write" /\ pos = Len(batch) /\ writer' = "reply"
      /\ UNCHANGED <<caller, requests, closed, batch, pos, file, closer, crashes>>
  BY DEF Sync, SyncFails, batchVars, diskVars
<1>3. /\ synced \in Nat /\ synced <= Len(file) /\ Len(file) \in Nat /\ faults \in Nat
      /\ batch \in Seq(Records)
  BY <1>1, <1>2 DEF TypeOK, Phases
<1>4. \/ synced' = Len(file) /\ UNCHANGED <<batchErr, faults>>
      \/ synced' = synced /\ batchErr' = TRUE /\ faults' = faults + 1
  BY DEF Sync, SyncFails, batchVars, diskVars
<1>5. TypeOK'
  <2>1. synced' \in 0..Len(file') /\ faults' \in Nat
    BY <1>2, <1>3, <1>4
  <2> QED
    BY <1>1, <1>2, <1>4, <2>1 DEF TypeOK
<1>6. Queues'
  BY <1>1, <1>2 DEF Queues, Queued, InBatch
<1>7. Phases'
  BY <1>1, <1>2 DEF Phases
<1>8. Frames'
  <2>1. \A i \in 1..Len(batch) : HasFrame(file, batch[i], Len(file))
    BY <1>1, <1>2 DEF Frames
  <2>2. \A r \in Records : HasFrame(file, r, synced) => HasFrame(file, r, synced')
    BY <1>3, <1>4, FrameInLonger
  <2> QED
    BY <1>1, <1>2, <1>4, <2>1, <2>2 DEF Frames
<1> QED
  BY <1>5, <1>6, <1>7, <1>8 DEF WInv

\* The batch is answered.
LEMMA ReplyKeepsWInv ==
  ASSUME WInv, Reply
  PROVE  WInv'
<1>1. TypeOK /\ Queues /\ Phases /\ Frames
  BY DEF WInv
<1>2. /\ writer = "reply" /\ writer' = "recv" /\ batch' = <<>> /\ pos' = 0 /\ batchErr' = FALSE
      /\ caller' = [r \in Records |-> IF InBatch(r) THEN IF batchErr THEN "err" ELSE "ok"
                                      ELSE caller[r]]
      /\ UNCHANGED <<requests, closed, file, synced, closer, faults, crashes>>
  BY DEF Reply, diskVars
<1>3. TypeOK'
  <2>1. caller' \in [Records -> CallerStates]
    BY <1>1, <1>2 DEF TypeOK, CallerStates
  <2>2. batch' \in Seq(Records \cup {Nil}) /\ pos' \in 0..Len(batch')
    BY <1>2
  <2> QED
    BY <1>1, <1>2, <2>1, <2>2 DEF TypeOK
<1>4. \A r \in Records : ~InBatch(r)' /\ (Queued(r)' <=> Queued(r))
  BY <1>2 DEF InBatch, Queued
<1>5. Queues'
  <2>1. \A r \in Records : Queued(r) => caller'[r] = "waiting"
    BY <1>1, <1>2 DEF Queues
  <2> QED
    BY <1>1, <1>2, <1>4, <2>1 DEF Queues
<1>6. Phases'
  BY <1>1, <1>2 DEF Phases
<1>7. Frames'
  <2>1. \A r \in Records : caller'[r] = "ok" => HasFrame(file, r, synced)
    BY <1>1, <1>2 DEF Frames, InBatch
  <2>2. \A r \in Records : HasFrame(file, r, Len(file)) =>
          caller'[r] \notin {"idle", "sending"} /\ caller'[r] # "waiting"
    <3> SUFFICES ASSUME NEW r \in Records, HasFrame(file, r, Len(file))
                 PROVE  caller'[r] \notin {"idle", "sending", "waiting"}
      OBVIOUS
    <3>1. CASE InBatch(r)
      BY <1>2, <3>1
    <3>2. CASE ~InBatch(r)
      <4>1. ~\E i \in 1..pos : batch[i] = r
        BY <1>1, <3>2 DEF InBatch, TypeOK
      <4> QED
        BY <1>1, <1>2, <3>2, <4>1 DEF Frames
    <3> QED
      BY <3>1, <3>2
  <2> QED
    BY <1>2, <2>1, <2>2 DEF Frames
<1> QED
  BY <1>3, <1>5, <1>6, <1>7 DEF WInv

\* A process without requests and without a batch, on a file that holds every
\* durable record and no whole frame that was not there before.
LEMMA FreshKeepsWInv ==
  ASSUME WInv, requests' = <<>>, batch' = <<>>, pos' = 0, batchErr' = FALSE,
         closed' = FALSE, closer' = "idle", writer' \in {"recv", "dead"},
         file' \in Seq(Frame), synced' \in 0..Len(file'), faults' \in Nat, crashes' \in Nat,
         caller' \in [Records -> CallerStates],
         \A r \in Records : /\ HasFrame(file', r, Len(file')) =>
                                 /\ HasFrame(file, r, Len(file))
                                 /\ caller[r] \notin {"idle", "sending"} =>
                                      caller'[r] \notin {"idle", "sending", "waiting"}
                            /\ caller'[r] = "ok" => caller[r] = "ok"
                            /\ HasFrame(file, r, synced) => HasFrame(file', r, synced')
  PROVE  WInv'
<1>1. Len(<<>>) = 0 /\ \A S : <<>> \in Seq(S)
  OBVIOUS
<1>2. TypeOK'
  <2>1. requests' \in Seq(Records) /\ batch' \in Seq(Records \cup {Nil})
    BY <1>1
  <2>2. Len(requests') <= Cap /\ pos' \in 0..Len(batch')
    BY <1>1, WALAssumption
  <2> QED
    BY <2>1, <2>2 DEF TypeOK
<1>3. Queues'
  BY DEF Queues, Queued, InBatch
<1>4. Phases'
  BY <1>1 DEF Phases
<1>5. Frames'
  BY DEF WInv, Frames
<1> QED
  BY <1>2, <1>3, <1>4, <1>5 DEF WInv

\* The process dies, by a crash or by a send on a closed channel.
LEMMA DeathKeepsWInv ==
  ASSUME WInv, Crash \/ \E r \in Records : SendPanics(r)
  PROVE  WInv'
<1>1. TypeOK /\ Frames
  BY DEF WInv
<1>2. ProcessDies
  BY DEF Crash, SendPanics
<1>3. /\ file' \in Seq(Frame) /\ synced' \in 0..Len(file') /\ crashes' \in Nat
      /\ \A r \in Records : /\ HasFrame(file', r, Len(file')) => HasFrame(file, r, Len(file))
                            /\ HasFrame(file, r, synced) => HasFrame(file', r, synced')
  <2>1. CASE Crash
    <3>1. file' \in Surviving /\ synced' = Len(file') /\ crashes' = crashes + 1
      BY <2>1 DEF Crash
    <3>2. \A f \in Surviving : /\ f \in Seq(Frame)
                               /\ \A r : /\ HasFrame(f, r, Len(f)) => HasFrame(file, r, Len(file))
                                         /\ HasFrame(file, r, synced) => HasFrame(f, r, Len(f))
      BY <1>1, CrashKeepsFrames
    <3>3. file' \in Seq(Frame) /\ crashes' \in Nat
      BY <1>1, <3>1, <3>2 DEF TypeOK
    <3> QED
      BY <3>1, <3>2, <3>3
  <2>2. CASE \E r \in Records : SendPanics(r)
    BY <1>1, <2>2 DEF SendPanics, diskVars, TypeOK
  <2> QED
    BY <2>1, <2>2
<1>4. /\ requests' = <<>> /\ closed' = FALSE /\ batch' = <<>> /\ pos' = 0 /\ batchErr' = FALSE
      /\ writer' = "dead" /\ closer' = "idle" /\ faults' = faults
      /\ caller' = [r \in Records |-> IF caller[r] \in {"sending", "waiting"}
                                      THEN "lost" ELSE caller[r]]
  BY <1>2 DEF ProcessDies
<1>5. caller' \in [Records -> CallerStates] /\ faults' \in Nat
  BY <1>1, <1>4 DEF TypeOK, CallerStates
<1>6. \A r \in Records :
        /\ caller[r] \notin {"idle", "sending"} =>
             caller'[r] \notin {"idle", "sending", "waiting"}
        /\ caller'[r] = "ok" => caller[r] = "ok"
  BY <1>4
<1> QED
  BY <1>3, <1>4, <1>5, <1>6, FreshKeepsWInv

\* The file is opened again: after Close has returned, no request is left behind.
LEMMA OpenKeepsWInv ==
  ASSUME WInv, OpenWAL
  PROVE  WInv'
<1>1. TypeOK /\ Phases /\ Frames
  BY DEF WInv
<1>2. /\ requests' = <<>> /\ closed' = FALSE /\ closer' = "idle" /\ writer' = "recv"
      /\ batch' = <<>> /\ pos' = 0 /\ batchErr' = FALSE
      /\ UNCHANGED <<caller, file, synced, faults, crashes>>
      /\ writer = "dead" \/ closer = "done"
  BY DEF OpenWAL, diskVars
<1>3. pos = 0
  BY <1>1, <1>2 DEF Phases
<1>4. \A r \in Records : HasFrame(file, r, Len(file)) =>
        caller[r] \notin {"idle", "sending", "waiting"}
  BY <1>1, <1>3 DEF Frames
<1>5. /\ caller' \in [Records -> CallerStates] /\ file' \in Seq(Frame)
      /\ synced' \in 0..Len(file') /\ faults' \in Nat /\ crashes' \in Nat
  BY <1>1, <1>2 DEF TypeOK
<1> QED
  BY <1>2, <1>4, <1>5, FreshKeepsWInv

\* Every step keeps the invariant.
LEMMA StepKeepsWInv == ASSUME WInv, [Next]_vars PROVE WInv'
<1>1. TypeOK
  BY DEF WInv
<1>2. ASSUME NEW r \in Records, AppendBegins(r) PROVE WInv'
  <2>1. /\ caller' = [caller EXCEPT ![r] = "sending"] /\ caller[r] = "idle"
        /\ UNCHANGED <<requests, closed, writer, batch, pos, batchErr, file, synced, closer,
                       faults, crashes>>
    BY <1>2 DEF AppendBegins, batchVars, diskVars
  <2>2. TypeOK'
    BY <1>1, <2>1 DEF TypeOK, CallerStates
  <2>3. \A x \in Records : \/ caller'[x] = caller[x]
                           \/ caller[x] = "idle" /\ caller'[x] = "sending"
    BY <1>1, <2>1 DEF TypeOK
  <2>4. closer' = "done" => writer = "exited"
    BY <2>1 DEF WInv, Phases
  <2> QED
    BY <2>1, <2>2, <2>3, <2>4, QuietKeepsWInv
<1>3. CASE Close \/ CloseReturns \/ UNCHANGED vars
  <2>1. /\ UNCHANGED <<caller, requests, writer, batch, pos, batchErr, file, synced, faults, crashes>>
        /\ closed' \in {TRUE, closed} /\ closer' \in {closer, "waiting", "done"}
        /\ closer' = "done" => closer = "done" \/ writer = "exited"
    BY <1>3 DEF Close, CloseReturns, vars, batchVars, diskVars
  <2>2. TypeOK'
    <3>1. closed' \in BOOLEAN
      BY <1>1, <2>1, Zenon DEF TypeOK
    <3>2. closer' \in {"idle", "waiting", "done"}
      BY <1>1, <2>1 DEF TypeOK
    <3> QED
      BY <1>1, <2>1, <3>1, <3>2 DEF TypeOK
  <2>3. closer' = "done" => writer = "exited"
    BY <2>1 DEF WInv, Phases
  <2>4. closed => closed'
    BY <1>3 DEF Close, CloseReturns, vars
  <2> QED
    BY <2>1, <2>2, <2>3, <2>4, QuietKeepsWInv
<1> QED
  BY <1>2, <1>3, SendKeepsWInv, TakeKeepsWInv, IdleKeepsWInv, DrainClosedKeepsWInv,
     WriteKeepsWInv, SyncKeepsWInv, ReplyKeepsWInv, DeathKeepsWInv, OpenKeepsWInv
     DEF Next, WriterStep

\* The inductive invariant of the write-ahead log.
THEOREM WALInvariance == Spec => []WInv
<1>1. Init => WInv
  BY InitWInv
<1>2. WInv /\ [Next]_vars => WInv'
  BY StepKeepsWInv
<1> QED
  BY <1>1, <1>2, PTL DEF Spec

\* Every variable has its type; in particular the channel never holds more than its
\* capacity, and what is fsync'd is a prefix of the file.
THEOREM WALTypeCorrect == Spec => []TypeOK
<1>1. WInv => TypeOK
  BY DEF WInv
<1> QED
  BY <1>1, WALInvariance, PTL

----------------------------------------------------------------------------

\* The first n frames of f are whole and the next one, if any, is torn.
Cut(f, n) ==
  /\ n \in 0..Len(f)
  /\ \A i \in 1..n : f[i].whole
  /\ n < Len(f) => ~f[n + 1].whole

\* Replay reads up to there.
LEMMA ReadableUpToCut ==
  ASSUME NEW f, Len(f) \in Nat, NEW n, Cut(f, n), NEW r
  PROVE  r \in ReadableSet(f) <=> \E i \in 1..n : f[i].rec = r
<1> DEFINE good == CHOOSE k \in 0..Len(f) : /\ \A i \in 1..k : f[i].whole
                                            /\ k < Len(f) => ~f[k + 1].whole
<1>1. Cut(f, good)
  BY DEF Cut
<1> HIDE DEF good
<1>2. good = n
  <2>1. good \in Int /\ n \in Int
    BY <1>1 DEF Cut
  <2>2. ~(good < n)
    BY <1>1 DEF Cut
  <2>3. ~(n < good)
    BY <1>1 DEF Cut
  <2> QED
    BY <2>1, <2>2, <2>3
<1>3. Readable(f) = [i \in 1..n |-> f[i].rec]
  BY <1>2 DEF Readable, good
<1> QED
  BY <1>3 DEF ReadableSet

\* When Append has returned nil and nothing in the fsync'd part of the file is
\* torn, Replay reaches the record, then and after any crash and reopening.
THEOREM DurabilityHolds == Spec => []OkIsDurable
<1>1. WInv => OkIsDurable
  <2> SUFFICES ASSUME WInv, \A i \in 1..synced : file[i].whole,
                      NEW r \in Records, caller[r] = "ok"
               PROVE  r \in ReadableSet(SubSeq(file, 1, synced))
    BY DEF OkIsDurable, OkIsReplayed
  <2> DEFINE f == SubSeq(file, 1, synced)
  <2>1. file \in Seq(Frame) /\ synced \in 0..Len(file) /\ Len(file) \in Nat
    BY DEF WInv, TypeOK
  <2>2. Len(f) = synced /\ \A i \in 1..synced : f[i] = file[i]
    BY <2>1
  <2> HIDE DEF f
  <2>3. Cut(f, synced) /\ Len(f) \in Nat
    BY <2>1, <2>2 DEF Cut
  <2>4. \E i \in 1..synced : f[i].rec = r
    BY <2>2 DEF WInv, Frames, HasFrame
  <2> QED
    BY <2>3, <2>4, ReadableUpToCut DEF f
<1> QED
  BY <1>1, WALInvariance, PTL

\* A frame appended moves the end of what Replay reads no further than itself, and
\* never back.
LEMMA CutAppend ==
  ASSUME NEW f \in Seq(Frame), NEW x \in Frame, NEW n, Cut(f, n)
  PROVE  \E m : Cut(Append(f, x), m) /\ m >= n
<1> DEFINE g == Append(f, x)
<1>1. /\ Len(f) \in Nat /\ Len(g) = Len(f) + 1 /\ g[Len(f) + 1] = x
      /\ \A i \in 1..Len(f) : g[i] = f[i]
  BY AppendFacts
<1>2. n \in 0..Len(f)
  BY DEF Cut
<1> HIDE DEF g
<1>3. CASE n = Len(f) /\ x.whole
  <2>1. Cut(g, n + 1)
    BY <1>1, <1>3 DEF Cut
  <2> QED
    BY <1>2, <2>1 DEF g
<1>4. CASE ~(n = Len(f) /\ x.whole)
  <2>1. Cut(g, n)
    BY <1>1, <1>2, <1>4 DEF Cut
  <2> QED
    BY <1>2, <2>1 DEF g
<1> QED
  BY <1>3, <1>4

\* A prefix of the file is read as far as the file was, or to its end.
LEMMA CutPrefix ==
  ASSUME NEW f \in Seq(Frame), NEW n, Cut(f, n), NEW k \in 0..Len(f)
  PROVE  Cut(SubSeq(f, 1, k), IF n <= k THEN n ELSE k)
<1> DEFINE g == SubSeq(f, 1, k)
<1>1. Len(f) \in Nat /\ Len(g) = k /\ \A i \in 1..k : g[i] = f[i]
  OBVIOUS
<1>2. n \in 0..Len(f)
  BY DEF Cut
<1> HIDE DEF g
<1>3. CASE n <= k
  <2>1. n < k => n + 1 \in 1..k
    BY <1>2
  <2>2. Cut(g, n)
    BY <1>1, <1>2, <1>3, <2>1 DEF Cut
  <2> QED
    BY <1>3, <2>2 DEF g
<1>4. CASE ~(n <= k)
  <2>1. Cut(g, k)
    BY <1>1, <1>2, <1>4 DEF Cut
  <2> QED
    BY <1>4, <2>1 DEF g
<1> QED
  BY <1>3, <1>4

\* What a step does to the file: nothing, one more frame, or a crash.
LEMMA FileSteps ==
  ASSUME WInv, [Next]_vars
  PROVE  \/ file' = file
         \/ \E x \in Frame : file' = Append(file, x)
         \/ file' \in Surviving
<1>1. CASE Write \/ WriteFails
  <2>1. pos + 1 \in 1..Len(batch) /\ batch \in Seq(Records)
    BY <1>1 DEF WInv, TypeOK, Phases, Write, WriteFails
  <2>2. batch[pos + 1] \in Records
    BY <2>1
  <2>3. \A b \in BOOLEAN : [rec |-> batch[pos + 1], whole |-> b] \in Frame
    BY <2>2 DEF Frame
  <2> QED
    BY <1>1, <2>3 DEF Write, WriteFails
<1>2. CASE Crash
  BY <1>2 DEF Crash
<1>3. CASE Receive \/ Exit \/ Drain \/ DrainClosed \/ Drained \/ Sync \/ SyncFails \/ Reply
  BY <1>3 DEF Receive, Exit, Drain, DrainClosed, Drained, Sync, SyncFails, Reply, diskVars
<1>4. CASE \E r \in Records : AppendBegins(r) \/ Send(r) \/ SendPanics(r)
  BY <1>4 DEF AppendBegins, Send, SendPanics, diskVars
<1>5. CASE Close \/ CloseReturns \/ OpenWAL \/ UNCHANGED vars
  BY <1>5 DEF Close, CloseReturns, OpenWAL, vars, diskVars
<1> QED
  BY <1>1, <1>2, <1>3, <1>4, <1>5 DEF Next, WriterStep

\* The file has a first torn frame or none.
HasCut == \E n : Cut(file, n)

\* That much an induction over the steps shows.
LEMMA CutInvariance == Spec => []HasCut
<1>1. Init => HasCut
  <2> SUFFICES ASSUME Init PROVE Cut(file, 0)
    BY DEF HasCut
  <2> QED
    BY DEF Init, Cut
<1>2. WInv /\ HasCut /\ [Next]_vars => HasCut'
  <2> SUFFICES ASSUME WInv, NEW n, Cut(file, n), [Next]_vars PROVE \E m : Cut(file', m)
    BY DEF HasCut, Cut
  <2>1. TypeOK /\ file \in Seq(Frame) /\ synced \in 0..Len(file)
    BY DEF WInv, TypeOK
  <2>2. ASSUME NEW x \in Frame, file' = Append(file, x) PROVE \E m : Cut(file', m)
    BY <2>1, <2>2, CutAppend
  <2>3. ASSUME file' \in Surviving PROVE \E m : Cut(file', m)
    <3>1. \A f \in Surviving : \E k \in synced..Len(file) :
            /\ SubSeq(file, 1, k) \in Seq(Frame)
            /\ \/ f = SubSeq(file, 1, k)
               \/ \E x \in Frame : ~x.whole /\ f = Append(SubSeq(file, 1, k), x)
      BY <2>1, CrashLeavesPrefix
    <3>2. PICK k \in synced..Len(file) :
            /\ SubSeq(file, 1, k) \in Seq(Frame)
            /\ \/ file' = SubSeq(file, 1, k)
               \/ \E x \in Frame : ~x.whole /\ file' = Append(SubSeq(file, 1, k), x)
      BY <2>3, <3>1
    <3>3. k \in 0..Len(file)
      BY <2>1
    <3>4. PICK m : Cut(SubSeq(file, 1, k), m)
      BY <2>1, <3>3, CutPrefix
    <3> QED
      BY <3>2, <3>4, CutAppend
  <2> QED
    BY <2>2, <2>3, FileSteps
<1> QED
  BY <1>1, <1>2, WALInvariance, PTL DEF Spec

\* What Replay reads of an acknowledged record survives a crash: its frame is
\* fsync'd, or a fsync'd frame of it comes before.
LEMMA CrashKeepsReadable ==
  ASSUME WInv, NEW n, Cut(file, n), NEW f \in Surviving, NEW r \in Records,
         caller[r] = "ok", r \in ReadableSet(file)
  PROVE  r \in ReadableSet(f)
<1>1. TypeOK /\ file \in Seq(Frame) /\ synced \in 0..Len(file) /\ Len(file) \in Nat
  BY DEF WInv, TypeOK
<1>2. PICK k \in synced..Len(file) :
        /\ SubSeq(file, 1, k) \in Seq(Frame)
        /\ \/ f = SubSeq(file, 1, k)
           \/ \E x \in Frame : ~x.whole /\ f = Append(SubSeq(file, 1, k), x)
  BY <1>1, CrashLeavesPrefix
<1> DEFINE g == SubSeq(file, 1, k)
           m == IF n <= k THEN n ELSE k
<1>3. k \in 0..Len(file) /\ n \in 0..Len(file)
  BY <1>1 DEF Cut
<1>4. Cut(g, m)
  BY <1>1, <1>3, CutPrefix
<1>5. Len(g) = k /\ \A i \in 1..k : g[i] = file[i]
  BY <1>1, <1>3
<1>6. PICK i \in 1..n : file[i].rec = r
  BY <1>1, ReadableUpToCut
<1>7. PICK j \in 1..synced : file[j].rec = r
  BY DEF WInv, Frames, HasFrame
<1>8. PICK h \in 1..m : g[h].rec = r
  <2>1. CASE i <= k
    <3>1. i \in 1..m /\ i \in 1..k
      BY <1>3, <2>1
    <3> QED
      BY <1>5, <1>6, <3>1
  <2>2. CASE ~(i <= k)
    <3>1. j \in 1..m /\ j \in 1..k
      BY <1>1, <1>2, <1>3, <2>2
    <3> QED
      BY <1>5, <1>7, <3>1
  <2> QED
    BY <2>1, <2>2
<1> HIDE DEF g, m
<1>9. CASE f = g
  BY <1>3, <1>4, <1>5, <1>8, <1>9, ReadableUpToCut
<1>10. ASSUME NEW x \in Frame, f = Append(g, x) PROVE r \in ReadableSet(f)
  <2>1. g \in Seq(Frame) /\ m \in 0..Len(g)
    BY <1>2, <1>4 DEF g, Cut
  <2>2. PICK p : Cut(f, p) /\ p >= m
    BY <1>4, <1>10, <2>1, CutAppend
  <2>3. /\ Len(g) \in Nat /\ Len(f) = Len(g) + 1 /\ \A a \in 1..Len(g) : f[a] = g[a]
    BY <1>10, <2>1, AppendFacts
  <2>4. h \in 1..p /\ h \in 1..Len(g)
    BY <2>1, <2>2, <2>3 DEF Cut
  <2> QED
    BY <1>8, <2>2, <2>3, <2>4, ReadableUpToCut
<1> QED
  BY <1>2, <1>9, <1>10 DEF g

\* A torn tail costs nobody else: what an acknowledged caller's record is to Replay
\* it stays, whatever is torn, fails or is appended in any step.
THEOREM GoodPrefixIsKept == Spec => GoodPrefixKept
<1>1. WInv /\ HasCut /\ [Next]_vars =>
        [\A r \in Records : caller[r] = "ok" /\ r \in ReadableSet(file)
                              => r \in ReadableSet(file')]_vars
  <2> SUFFICES ASSUME WInv, HasCut, [Next]_vars, NEW r \in Records, caller[r] = "ok",
                      r \in ReadableSet(file)
               PROVE  r \in ReadableSet(file')
    OBVIOUS
  <2>1. PICK n : Cut(file, n)
    BY DEF HasCut
  <2>2. file \in Seq(Frame) /\ Len(file) \in Nat
    BY DEF WInv, TypeOK
  <2>3. CASE file' = file
    BY <2>3
  <2>4. ASSUME NEW x \in Frame, file' = Append(file, x) PROVE r \in ReadableSet(file')
    <3>1. PICK m : Cut(file', m) /\ m >= n
      BY <2>1, <2>2, <2>4, CutAppend
    <3>2. PICK i \in 1..n : file[i].rec = r
      BY <2>1, <2>2, ReadableUpToCut
    <3>3. Len(file') = Len(file) + 1 /\ \A a \in 1..Len(file) : file'[a] = file[a]
      BY <2>2, <2>4, AppendFacts
    <3>4. i \in 1..m /\ i \in 1..Len(file)
      BY <2>1, <2>2, <3>1, <3>3 DEF Cut
    <3> QED
      BY <2>2, <3>1, <3>2, <3>3, <3>4, ReadableUpToCut
  <2>5. CASE file' \in Surviving
    <3>1. \A f \in Surviving : r \in ReadableSet(f)
      BY <2>1, CrashKeepsReadable
    <3> QED
      BY <2>5, <3>1
  <2> QED
    BY <2>3, <2>4, <2>5, FileSteps
<1> QED
  BY <1>1, WALInvariance, CutInvariance, PTL DEF Spec, GoodPrefixKept

----------------------------------------------------------------------------

\* One more frame for Recorded: a whole frame adds its record, a torn one nothing.
Grow(s, x) == IF x.whole THEN Append(s, x.rec) ELSE s

\* st lists what the first 0, 1, ... frames of f record.
Keeps(st, f) ==
  st = [n \in 0..Len(f) |->
          IF n = 0 THEN <<>>
          ELSE IF f[n].whole THEN Append(st[n - 1], f[n].rec) ELSE st[n - 1]]

Front(st, n) == [i \in 0..n |-> st[i]]

\* ... and it is the only such list, for f and for each of its prefixes.
Kept(st, f) ==
  /\ Keeps(st, f)
  /\ \A n \in 0..Len(f) : \A other : Keeps(other, SubSeq(f, 1, n)) => other = Front(st, n)

\* Keeps, element by element.
LEMMA KeepsEach ==
  ASSUME NEW st, NEW f \in Seq(Frame)
  PROVE  Keeps(st, f) <=>
           /\ st = Front(st, Len(f))
           /\ st[0] = <<>>
           /\ \A n \in 1..Len(f) : st[n] = Grow(st[n - 1], f[n])
<1> DEFINE L == Len(f)
           Step(n) == IF n = 0 THEN <<>> ELSE Grow(st[n - 1], f[n])
<1>1. L \in Nat
  OBVIOUS
<1>2. Keeps(st, f) <=> st = [n \in 0..L |-> Step(n)]
  BY DEF Keeps, Grow
<1>3. (\A n \in 0..L : st[n] = Step(n)) <=>
        /\ st[0] = <<>>
        /\ \A n \in 1..L : st[n] = Grow(st[n - 1], f[n])
  <2>1. 0 \in 0..L /\ Step(0) = <<>>
    BY <1>1
  <2>2. \A n \in 1..L : n \in 0..L /\ Step(n) = Grow(st[n - 1], f[n])
    BY <1>1
  <2>3. \A n \in 0..L : n = 0 \/ n \in 1..L
    BY <1>1
  <2> HIDE DEF Step
  <2> QED
    BY <2>1, <2>2, <2>3
<1> HIDE DEF L, Step
<1>4. st = [n \in 0..L |-> Step(n)] <=> st = Front(st, L) /\ \A n \in 0..L : st[n] = Step(n)
  BY Zenon DEF Front
<1> QED
  BY <1>2, <1>3, <1>4 DEF L

\* Recorded is the last of the list.
LEMMA RecordedIsLast ==
  ASSUME NEW f \in Seq(Frame), NEW st, Kept(st, f)
  PROVE  Recorded(f) = st[Len(f)]
<1> DEFINE pick == CHOOSE kept : Keeps(kept, f)
<1>1. Keeps(pick, f) /\ Keeps(st, f)
  BY DEF Kept
<1>2. SubSeq(f, 1, Len(f)) = f /\ Len(f) \in 0..Len(f)
  OBVIOUS
<1>3. pick = Front(st, Len(f)) /\ st = Front(st, Len(f))
  BY <1>1, <1>2 DEF Kept
<1>4. Recorded(f) = pick[Len(f)]
  BY DEF Recorded, Keeps
<1> QED
  BY <1>3, <1>4

\* An empty file records nothing.
LEMMA KeptEmpty == \E st : Kept(st, <<>>)
<1> DEFINE st == [i \in 0..0 |-> <<>>]
<1>1. <<>> \in Seq(Frame) /\ Len(<<>>) = 0 /\ 0..0 = {0}
  OBVIOUS
<1>2. ASSUME NEW other PROVE Keeps(other, <<>>) => other = st
  <2>1. Keeps(other, <<>>) => other = Front(other, 0) /\ other[0] = <<>>
    BY <1>1, KeepsEach
  <2> QED
    BY <1>1, <2>1 DEF Front
<1>3. Keeps(st, <<>>)
  BY <1>1, KeepsEach DEF Front
<1>4. Front(st, 0) = st
  BY DEF Front
<1>5. \A n \in 0..Len(<<>>) : n = 0 /\ SubSeq(<<>>, 1, n) = <<>>
  BY <1>1
<1> HIDE DEF st
<1> QED
  BY <1>2, <1>3, <1>4, <1>5 DEF Kept

\* What a prefix of the file records is a prefix of the list.
LEMMA KeptFront ==
  ASSUME NEW f \in Seq(Frame), NEW st, Kept(st, f), NEW k \in 0..Len(f)
  PROVE  Kept(Front(st, k), SubSeq(f, 1, k))
<1> DEFINE g == SubSeq(f, 1, k)
           top == Front(st, k)
<1>1. /\ Len(f) \in Nat /\ g \in Seq(Frame) /\ Len(g) = k
      /\ \A i \in 1..k : g[i] = f[i] /\ i \in 1..Len(f)
      /\ \A n \in 0..k : SubSeq(g, 1, n) = SubSeq(f, 1, n) /\ n \in 0..Len(f)
  OBVIOUS
<1>2. \A i \in 0..k : top[i] = st[i]
  BY DEF Front
<1>3. st[0] = <<>> /\ \A n \in 1..Len(f) : st[n] = Grow(st[n - 1], f[n])
  BY KeepsEach DEF Kept
<1>4. \A n \in 0..k : Front(top, n) = Front(st, n)
  BY <1>1, <1>2 DEF Front
<1>5. top = Front(top, k)
  BY DEF Front
<1> HIDE DEF g, top
<1>6. top[0] = <<>> /\ \A n \in 1..k : top[n] = Grow(top[n - 1], g[n])
  <2>1. \A n \in 1..k : n \in 0..k /\ n - 1 \in 0..k /\ n \in 1..Len(f)
    BY <1>1
  <2>2. 0 \in 0..k
    BY <1>1
  <2> QED
    BY <1>1, <1>2, <1>3, <2>1, <2>2
<1>7. Keeps(top, g)
  BY <1>1, <1>5, <1>6, KeepsEach
<1>8. ASSUME NEW n \in 0..Len(g), NEW other, Keeps(other, SubSeq(g, 1, n))
      PROVE  other = Front(top, n)
  BY <1>1, <1>4, <1>8 DEF Kept
<1>9. Kept(top, g)
  BY <1>7, <1>8 DEF Kept
<1> QED
  BY <1>9 DEF g, top

\* One more frame extends the list by one.
LEMMA KeptAppend ==
  ASSUME NEW f \in Seq(Frame), NEW x \in Frame, NEW st, Kept(st, f)
  PROVE  \E next : /\ Kept(next, Append(f, x))
                   /\ next[Len(f) + 1] = Grow(st[Len(f)], x)
                   /\ \A n \in 0..Len(f) : next[n] = st[n]
<1> DEFINE L == Len(f)
           g == Append(f, x)
           next == [n \in 0..(L + 1) |-> IF n = L + 1 THEN Grow(st[L], x) ELSE st[n]]
<1>1. /\ L \in Nat /\ g \in Seq(Frame) /\ Len(g) = L + 1 /\ g[L + 1] = x
      /\ \A i \in 1..L : g[i] = f[i]
  BY AppendFacts
<1>2. /\ \A n \in 0..L : SubSeq(g, 1, n) = SubSeq(f, 1, n)
      /\ SubSeq(g, 1, L + 1) = g /\ SubSeq(f, 1, L) = f
  BY <1>1
<1>3. /\ st[0] = <<>> /\ \A n \in 1..L : st[n] = Grow(st[n - 1], f[n])
  BY KeepsEach DEF Kept
<1> HIDE DEF L, g
<1>4. next[L + 1] = Grow(st[L], x) /\ \A n \in 0..L : next[n] = st[n]
  BY <1>1
<1>5. /\ next = Front(next, L + 1)
      /\ \A n \in 0..L : Front(next, n) = Front(st, n)
  BY <1>1, <1>4 DEF Front
<1> HIDE DEF next
<1>6. \A n \in 1..(L + 1) : next[n] = Grow(next[n - 1], g[n])
  <2> SUFFICES ASSUME NEW n \in 1..(L + 1) PROVE next[n] = Grow(next[n - 1], g[n])
    OBVIOUS
  <2>1. CASE n = L + 1
    <3>1. n - 1 = L /\ L \in 0..L
      BY <1>1, <2>1
    <3> QED
      BY <1>1, <1>4, <2>1, <3>1
  <2>2. CASE n # L + 1
    <3>1. n \in 1..L /\ n \in 0..L /\ n - 1 \in 0..L
      BY <1>1, <2>2
    <3> QED
      BY <1>1, <1>3, <1>4, <3>1
  <2> QED
    BY <2>1, <2>2
<1>7. Keeps(next, g)
  <2>1. next[0] = <<>>
    <3>1. 0 \in 0..L
      BY <1>1
    <3> QED
      BY <1>3, <1>4, <3>1
  <2> QED
    BY <1>1, <1>5, <1>6, <2>1, KeepsEach
<1>8. ASSUME NEW other, Keeps(other, g) PROVE other = next
  <2> DEFINE front == Front(other, L)
  <2>1. /\ other = Front(other, L + 1) /\ other[0] = <<>>
        /\ \A n \in 1..(L + 1) : other[n] = Grow(other[n - 1], g[n])
    BY <1>1, <1>8, KeepsEach
  <2>2. \A n \in 0..L : front[n] = other[n]
    BY DEF Front
  <2>3. front = Front(front, L)
    BY DEF Front
  <2> HIDE DEF front
  <2>4. Keeps(front, f)
    <3>1. front[0] = <<>>
      <4>1. 0 \in 0..L
        BY <1>1
      <4> QED
        BY <2>1, <2>2, <4>1
    <3>2. \A n \in 1..L : front[n] = Grow(front[n - 1], f[n])
      <4>1. \A n \in 1..L : n \in 0..L /\ n - 1 \in 0..L /\ n \in 1..(L + 1)
        BY <1>1
      <4> QED
        BY <1>1, <2>1, <2>2, <4>1
    <3> QED
      BY <2>3, <3>1, <3>2, KeepsEach DEF L
  <2>5. front = Front(st, L)
    <3>1. L \in 0..L
      BY <1>1
    <3> QED
      BY <1>2, <2>4, <3>1 DEF Kept, L
  <2>6. \A n \in 0..L : other[n] = st[n]
    BY <2>2, <2>5 DEF Front
  <2>7. other[L + 1] = Grow(st[L], x)
    <3>1. L + 1 \in 1..(L + 1) /\ (L + 1) - 1 = L /\ L \in 0..L
      BY <1>1
    <3> QED
      BY <1>1, <2>1, <2>6, <3>1
  <2>8. \A n \in 0..(L + 1) : other[n] = next[n]
    <3>1. \A n \in 0..(L + 1) : n \in 0..L \/ n = L + 1
      BY <1>1
    <3> QED
      BY <1>4, <2>6, <2>7, <3>1
  <2>9. Front(other, L + 1) = Front(next, L + 1)
    BY <2>8 DEF Front
  <2> QED
    BY <1>5, <2>1, <2>9
<1>9. ASSUME NEW n \in 0..Len(g), NEW other, Keeps(other, SubSeq(g, 1, n))
      PROVE  other = Front(next, n)
  <2>1. CASE n = L + 1
    BY <1>2, <1>5, <1>8, <1>9, <2>1
  <2>2. CASE n # L + 1
    <3>1. n \in 0..L
      BY <1>1, <2>2
    <3> QED
      BY <1>2, <1>5, <1>9, <3>1 DEF Kept, L
  <2> QED
    BY <2>1, <2>2
<1>10. Kept(next, g)
  BY <1>7, <1>9 DEF Kept
<1> QED
  BY <1>4, <1>10 DEF L, g

\* What the list says of the file: the records of the whole frames, and each entry
\* a prefix of every later one.
InSeq(r, s) == \E i \in 1..Len(s) : s[i] = r

Starts(s, t) == Len(s) <= Len(t) /\ s = SubSeq(t, 1, Len(s))

Listed(st, f) ==
  \A n \in 0..Len(f) :
    /\ st[n] \in Seq(Records)
    /\ \A r \in Records : InSeq(r, st[n]) <=> HasFrame(f, r, n)
    /\ \A m \in 0..n : Starts(st[m], st[n])

\* The list of an empty file.
LEMMA ListedEmpty ==
  ASSUME NEW st, Kept(st, <<>>)
  PROVE  Listed(st, <<>>)
<1>1. Len(<<>>) = 0 /\ <<>> \in Seq(Frame) /\ <<>> \in Seq(Records)
  OBVIOUS
<1>2. st[0] = <<>>
  BY <1>1, KeepsEach DEF Kept
<1>3. \A n \in 0..Len(<<>>) : n = 0 /\ \A m \in 0..n : m = 0
  BY <1>1
<1>4. Starts(<<>>, <<>>)
  BY DEF Starts
<1>5. \A r : ~InSeq(r, <<>>) /\ ~HasFrame(<<>>, r, 0)
  BY <1>1 DEF InSeq, HasFrame
<1> QED
  BY <1>1, <1>2, <1>3, <1>4, <1>5 DEF Listed

\* The list of a prefix of the file.
LEMMA ListedFront ==
  ASSUME NEW f \in Seq(Frame), NEW st, Listed(st, f), NEW k \in 0..Len(f)
  PROVE  Listed(Front(st, k), SubSeq(f, 1, k))
<1> DEFINE g == SubSeq(f, 1, k)
           top == Front(st, k)
<1>1. Len(f) \in Nat /\ Len(g) = k /\ \A i \in 1..k : g[i] = f[i]
  OBVIOUS
<1>2. \A i \in 0..k : top[i] = st[i]
  BY DEF Front
<1> HIDE DEF g, top
<1>3. \A n \in 0..k : /\ n \in 0..Len(f)
                      /\ \A m \in 0..n : m \in 0..k
  BY <1>1
<1>4. \A n \in 0..k : \A r : HasFrame(g, r, n) <=> HasFrame(f, r, n)
  BY <1>1 DEF HasFrame
<1>5. Listed(top, g)
  BY <1>1, <1>2, <1>3, <1>4 DEF Listed
<1> QED
  BY <1>5 DEF g, top

\* Growing keeps the prefixes.
LEMMA GrowFacts ==
  ASSUME NEW s \in Seq(Records), NEW x \in Frame
  PROVE  /\ Grow(s, x) \in Seq(Records)
         /\ \A r \in Records : InSeq(r, Grow(s, x)) <=> InSeq(r, s) \/ (x.whole /\ x.rec = r)
         /\ \A t \in Seq(Records) : Starts(t, s) => Starts(t, Grow(s, x))
         /\ Starts(s, s) /\ Starts(Grow(s, x), Grow(s, x))
<1> DEFINE t2 == Append(s, x.rec)
<1>1. x.rec \in Records
  BY DEF Frame
<1>2. /\ t2 \in Seq(Records) /\ Len(s) \in Nat /\ Len(t2) = Len(s) + 1
      /\ \A i \in 1..Len(s) : t2[i] = s[i] /\ t2[Len(s) + 1] = x.rec
      /\ t2[Len(s) + 1] = x.rec
  BY <1>1, AppendFacts
<1>3. \A t \in Seq(Records) : Starts(t, t)
  BY DEF Starts
<1>4. \A n \in 0..Len(s) : SubSeq(t2, 1, n) = SubSeq(s, 1, n)
  BY <1>1
<1> HIDE DEF t2
<1>5. \A r \in Records : InSeq(r, t2) <=> InSeq(r, s) \/ x.rec = r
  BY <1>2 DEF InSeq
<1>6. ASSUME NEW t \in Seq(Records), Starts(t, s) PROVE Starts(t, t2)
  <2>1. Len(t) \in 0..Len(s)
    BY <1>2, <1>6 DEF Starts
  <2> QED
    BY <1>2, <1>4, <1>6, <2>1 DEF Starts
<1> QED
  BY <1>2, <1>3, <1>5, <1>6 DEF Grow, t2

\* The list of a file with one more frame.
LEMMA ListedAppend ==
  ASSUME NEW f \in Seq(Frame), NEW x \in Frame, NEW st, Listed(st, f), NEW next,
         next[Len(f) + 1] = Grow(st[Len(f)], x),
         \A n \in 0..Len(f) : next[n] = st[n]
  PROVE  Listed(next, Append(f, x))
<1> DEFINE L == Len(f)
           g == Append(f, x)
<1>1. L \in Nat /\ Len(g) = L + 1 /\ L \in 0..L
  BY AppendFacts
<1>2. \A r \in Records : /\ HasFrame(g, r, L + 1) <=> HasFrame(f, r, L) \/ (x.whole /\ x.rec = r)
                         /\ \A n \in 0..L : HasFrame(g, r, n) <=> HasFrame(f, r, n)
  BY <1>1, FrameAppend
<1>3. /\ \A n \in 0..L : next[n] = st[n] /\ st[n] \in Seq(Records)
      /\ next[L + 1] = Grow(st[L], x)
  BY DEF Listed
<1> HIDE DEF L, g
<1>4. ASSUME NEW n \in 0..(L + 1)
      PROVE  /\ next[n] \in Seq(Records)
             /\ \A r \in Records : InSeq(r, next[n]) <=> HasFrame(g, r, n)
             /\ \A m \in 0..n : Starts(next[m], next[n])
  <2>1. CASE n \in 0..L
    <3>1. \A m \in 0..n : m \in 0..L
      BY <1>1, <2>1
    <3> QED
      BY <1>2, <1>3, <2>1, <3>1 DEF Listed, L
  <2>2. CASE n = L + 1
    <3>1. /\ \A r \in Records : InSeq(r, st[L]) <=> HasFrame(f, r, L)
          /\ \A m \in 0..L : Starts(st[m], st[L])
      BY <1>1 DEF Listed, L
    <3>2. \A m \in 0..n : m \in 0..L \/ m = L + 1
      BY <1>1, <2>2
    <3>3. /\ Grow(st[L], x) \in Seq(Records)
          /\ \A r \in Records : InSeq(r, Grow(st[L], x)) <=>
                                  InSeq(r, st[L]) \/ (x.whole /\ x.rec = r)
          /\ \A t \in Seq(Records) : Starts(t, st[L]) => Starts(t, Grow(st[L], x))
          /\ Starts(Grow(st[L], x), Grow(st[L], x))
      BY <1>1, <1>3, GrowFacts
    <3> QED
      BY <1>2, <1>3, <2>2, <3>1, <3>2, <3>3
  <2> QED
    BY <1>1, <2>1, <2>2
<1> QED
  BY <1>1, <1>4 DEF Listed, g

\* The file has one list of what its prefixes record, and it says the above.
FileListed == \E st : Kept(st, file) /\ Listed(st, file)

\* A frame appended to a file that has such a list.
LEMMA RecordedAppend ==
  ASSUME NEW f \in Seq(Frame), NEW x \in Frame, NEW st, Kept(st, f), Listed(st, f)
  PROVE  /\ Recorded(Append(f, x)) = Grow(Recorded(f), x)
         /\ \E next : Kept(next, Append(f, x)) /\ Listed(next, Append(f, x))
<1>1. PICK next : /\ Kept(next, Append(f, x))
                  /\ next[Len(f) + 1] = Grow(st[Len(f)], x)
                  /\ \A n \in 0..Len(f) : next[n] = st[n]
  BY KeptAppend
<1>2. Listed(next, Append(f, x))
  BY <1>1, ListedAppend
<1>3. Append(f, x) \in Seq(Frame) /\ Len(Append(f, x)) = Len(f) + 1
  BY AppendFacts
<1>4. Recorded(Append(f, x)) = next[Len(f) + 1] /\ Recorded(f) = st[Len(f)]
  BY <1>1, <1>3, RecordedIsLast
<1> QED
  BY <1>1, <1>2, <1>4

\* A crash takes records back at the end only, and no durable one.
LEMMA RecordedCrash ==
  ASSUME TypeOK, NEW st, Kept(st, file), Listed(st, file), NEW f \in Surviving
  PROVE  /\ \E next : Kept(next, f) /\ Listed(next, f)
         /\ \E n \in 0..Len(Recorded(file)) : Recorded(f) = SubSeq(Recorded(file), 1, n)
         /\ \A r \in Records : HasFrame(file, r, synced) => InSeq(r, Recorded(f))
<1>1. file \in Seq(Frame) /\ synced \in 0..Len(file) /\ Len(file) \in Nat
  BY DEF TypeOK
<1>2. PICK k \in synced..Len(file) :
        /\ SubSeq(file, 1, k) \in Seq(Frame)
        /\ \/ f = SubSeq(file, 1, k)
           \/ \E x \in Frame : ~x.whole /\ f = Append(SubSeq(file, 1, k), x)
  BY CrashLeavesPrefix
<1> DEFINE g == SubSeq(file, 1, k)
           top == Front(st, k)
<1>3. k \in 0..Len(file) /\ Len(file) \in 0..Len(file) /\ k \in Nat /\ synced \in Nat /\ synced <= k
  BY <1>1
<1>4. Kept(top, g) /\ Listed(top, g) /\ g \in Seq(Frame) /\ Len(g) = k
  BY <1>1, <1>2, <1>3, KeptFront, ListedFront
<1>5. top[k] = st[k]
  BY <1>3 DEF Front
<1> HIDE DEF g, top
<1>6. Recorded(g) = st[k] /\ Recorded(file) = st[Len(file)]
  BY <1>1, <1>4, <1>5, RecordedIsLast
<1>7. /\ Recorded(f) = Recorded(g)
      /\ \E next : Kept(next, f) /\ Listed(next, f)
  <2>1. CASE f = g
    BY <1>4, <2>1
  <2>2. ASSUME NEW x \in Frame, ~x.whole, f = Append(g, x)
        PROVE  Recorded(f) = Recorded(g) /\ \E next : Kept(next, f) /\ Listed(next, f)
    <3>1. /\ Recorded(Append(g, x)) = Grow(Recorded(g), x)
          /\ \E next : Kept(next, Append(g, x)) /\ Listed(next, Append(g, x))
      BY <1>4, RecordedAppend
    <3> QED
      BY <2>2, <3>1 DEF Grow
  <2> QED
    BY <1>2, <2>1, <2>2 DEF g
<1>8. /\ Starts(st[k], st[Len(file)]) /\ st[k] \in Seq(Records)
      /\ \A r \in Records : InSeq(r, st[k]) <=> HasFrame(file, r, k)
  BY <1>3 DEF Listed
<1>9. Len(st[k]) \in 0..Len(Recorded(file)) /\ st[k] = SubSeq(Recorded(file), 1, Len(st[k]))
  <2>1. st[Len(file)] \in Seq(Records)
    BY <1>3 DEF Listed
  <2>2. Len(st[k]) \in Nat /\ Len(st[Len(file)]) \in Nat
    BY <1>8, <2>1
  <2> QED
    BY <1>6, <1>8, <2>2 DEF Starts
<1>10. \A r \in Records : HasFrame(file, r, synced) => InSeq(r, Recorded(f))
  BY <1>3, <1>6, <1>7, <1>8, FrameInLonger
<1> QED
  BY <1>6, <1>7, <1>9, <1>10

\* An induction over the steps shows that there always is such a list.
LEMMA ListInvariance == Spec => []FileListed
<1>1. Init => FileListed
  BY KeptEmpty, ListedEmpty DEF Init, FileListed
<1>2. WInv /\ FileListed /\ [Next]_vars => FileListed'
  <2> SUFFICES ASSUME WInv, NEW st, Kept(st, file), Listed(st, file), [Next]_vars
               PROVE  \E next : Kept(next, file') /\ Listed(next, file')
    BY DEF FileListed, Kept, Keeps, Front, Listed, HasFrame
  <2>1. TypeOK /\ file \in Seq(Frame)
    BY DEF WInv, TypeOK
  <2>2. ASSUME NEW x \in Frame, file' = Append(file, x)
        PROVE  \E next : Kept(next, file') /\ Listed(next, file')
    BY <2>1, <2>2, RecordedAppend
  <2>3. CASE file' \in Surviving
    <3>1. \A f \in Surviving : \E next : Kept(next, f) /\ Listed(next, f)
      BY <2>1, RecordedCrash
    <3> QED
      BY <2>3, <3>1
  <2> QED
    BY <2>2, <2>3, FileSteps
<1> QED
  BY <1>1, <1>2, WALInvariance, PTL DEF Spec

\* The log of the promise holds the records of the whole frames.
LEMMA RecordedHas ==
  ASSUME WInv, FileListed
  PROVE  /\ Recorded(file) \in Seq(Records)
         /\ \A r \in Records : Promise!InLog(r, Recorded(file)) <=> HasFrame(file, r, Len(file))
<1>1. PICK st : Kept(st, file) /\ Listed(st, file)
  BY DEF FileListed
<1>2. file \in Seq(Frame) /\ Len(file) \in 0..Len(file)
  BY DEF WInv, TypeOK
<1>3. Recorded(file) = st[Len(file)]
  BY <1>1, <1>2, RecordedIsLast
<1> QED
  BY <1>1, <1>2, <1>3 DEF Listed, InSeq, Promise!InLog

\* Calls that begin or are queued have not returned.
LEMMA OutcomeKept ==
  ASSUME \A r \in Records : \/ caller'[r] = caller[r]
                            \/ /\ caller[r] \in {"idle", "sending", "waiting"}
                               /\ caller'[r] \in {"idle", "sending", "waiting"}
  PROVE  Outcome' = Outcome
BY DEF Outcome

\* A whole frame written is a record that lands.
LEMMA WriteLands ==
  ASSUME WInv, FileListed, Write
  PROVE  \E r \in Records : Promise!Land(r)
<1> DEFINE r == batch[pos + 1]
           x == [rec |-> r, whole |-> TRUE]
<1>1. TypeOK /\ Queues /\ Phases /\ Frames
  BY DEF WInv
<1>2. /\ writer = "write" /\ pos < Len(batch) /\ file' = Append(file, x) /\ caller' = caller
  BY DEF Write
<1>3. /\ batch \in Seq(Records) /\ pos \in Nat /\ Len(batch) \in Nat /\ file \in Seq(Frame)
  BY <1>1, <1>2 DEF Phases, TypeOK
<1>4. pos + 1 \in 1..Len(batch) /\ r \in Records
  BY <1>2, <1>3
<1>5. x \in Frame /\ x.whole /\ x.rec = r
  BY <1>4 DEF Frame
<1>6. InBatch(r) /\ caller[r] = "waiting"
  BY <1>1, <1>4 DEF InBatch, Queues
<1>7. ~HasFrame(file, r, Len(file))
  <2> SUFFICES ASSUME HasFrame(file, r, Len(file)) PROVE FALSE
    OBVIOUS
  <2>1. PICK i \in 1..pos : batch[i] = r
    BY <1>1, <1>4, <1>6 DEF Frames
  <2>2. i \in 1..Len(batch) /\ i # pos + 1 /\ r # Nil
    BY <1>2, <1>3, <1>4, WALAssumption
  <2> QED
    BY <1>1, <1>4, <2>1, <2>2 DEF Queues
<1> HIDE DEF r, x
<1>8. Recorded(file') = Append(Recorded(file), r)
  <2>1. PICK st : Kept(st, file) /\ Listed(st, file)
    BY DEF FileListed
  <2>2. Recorded(Append(file, x)) = Grow(Recorded(file), x)
    BY <1>3, <1>5, <2>1, RecordedAppend
  <2> QED
    BY <1>2, <1>5, <2>2 DEF Grow
<1>9. Outcome[r] = "open" /\ Outcome' = Outcome
  BY <1>2, <1>4, <1>6 DEF Outcome
<1>10. ~Promise!InLog(r, Recorded(file))
  BY <1>4, <1>7, RecordedHas
<1>11. Recorded(file)' = Recorded(file')
  BY DEF Recorded
<1>12. Promise!Land(r)
  BY <1>8, <1>9, <1>10, <1>11 DEF Promise!Land
<1> QED
  BY <1>4, <1>12

\* The answer to a batch is the return of its calls.
LEMMA ReplyReturns ==
  ASSUME WInv, FileListed, Reply
  PROVE  \E R \in SUBSET Records : Promise!Return(R, "ok") \/ Promise!Return(R, "err")
<1> DEFINE R == {r \in Records : InBatch(r)}
           result == IF batchErr THEN "err" ELSE "ok"
<1>1. TypeOK /\ Queues /\ Phases /\ Frames
  BY DEF WInv
<1>2. /\ writer = "reply" /\ file' = file
      /\ \A r \in Records : caller'[r] = IF r \in R THEN result ELSE caller[r]
  BY DEF Reply, diskVars
<1>3. \A r \in R : caller[r] = "waiting" /\ Outcome[r] = "open"
  BY <1>1 DEF Queues, Outcome
<1>4. ASSUME ~batchErr, NEW r \in R PROVE Promise!InLog(r, Recorded(file))
  <2>1. HasFrame(file, r, synced)
    BY <1>1, <1>2, <1>4 DEF Frames, InBatch
  <2>2. synced \in Nat /\ Len(file) \in Nat /\ synced <= Len(file)
    BY <1>1 DEF TypeOK
  <2> QED
    BY <2>1, <2>2, FrameInLonger, RecordedHas
<1>5. Outcome' = [r \in Records |-> IF r \in R THEN result ELSE Outcome[r]]
  BY <1>2 DEF Outcome
<1>6. Recorded(file)' = Recorded(file)
  BY <1>2
<1> HIDE DEF R
<1>7. CASE batchErr
  <2>1. Promise!Return(R, "err")
    BY <1>3, <1>5, <1>6, <1>7 DEF Promise!Return
  <2> QED
    BY <2>1 DEF R
<1>8. CASE ~batchErr
  <2>1. Promise!Return(R, "ok")
    BY <1>3, <1>4, <1>5, <1>6, <1>8 DEF Promise!Return
  <2> QED
    BY <2>1 DEF R
<1> QED
  BY <1>7, <1>8

\* The death of the process is a crash of the promise: the calls in progress are
\* lost, acknowledged records are not.
LEMMA DeathIsCrash ==
  ASSUME WInv, FileListed, Crash \/ \E r \in Records : SendPanics(r)
  PROVE  \E n \in 0..Len(Recorded(file)), R \in SUBSET Records : Promise!Crash(n, R)
<1> DEFINE R == {r \in Records : caller[r] \in {"sending", "waiting"}}
<1>1. TypeOK /\ Frames
  BY DEF WInv
<1>2. \A r \in Records : caller'[r] = IF r \in R THEN "lost" ELSE caller[r]
  BY DEF Crash, SendPanics, ProcessDies
<1>3. /\ \A r \in R : Outcome[r] = "open"
      /\ Outcome' = [r \in Records |-> IF r \in R THEN "lost" ELSE Outcome[r]]
  BY <1>2 DEF Outcome
<1>4. \A r \in Records : Outcome[r] = "ok" => HasFrame(file, r, synced)
  BY <1>1 DEF Outcome, Frames
<1>5. Recorded(file)' = Recorded(file')
  BY DEF Recorded
<1>6. PICK n \in 0..Len(Recorded(file)) :
        /\ Recorded(file') = SubSeq(Recorded(file), 1, n)
        /\ \A r \in Records : HasFrame(file, r, synced) => Promise!InLog(r, Recorded(file'))
  <2>1. CASE Crash
    <3>1. PICK st : Kept(st, file) /\ Listed(st, file)
      BY DEF FileListed
    <3>2. \A f \in Surviving :
            /\ \E n \in 0..Len(Recorded(file)) : Recorded(f) = SubSeq(Recorded(file), 1, n)
            /\ \A r \in Records : HasFrame(file, r, synced) => InSeq(r, Recorded(f))
      BY <1>1, <3>1, RecordedCrash
    <3>3. file' \in Surviving
      BY <2>1 DEF Crash
    <3> QED
      BY <3>2, <3>3 DEF InSeq, Promise!InLog
  <2>2. CASE \E r \in Records : SendPanics(r)
    <3>1. file' = file
      BY <2>2 DEF SendPanics, diskVars
    <3>2. /\ Len(Recorded(file)) \in 0..Len(Recorded(file))
          /\ SubSeq(Recorded(file), 1, Len(Recorded(file))) = Recorded(file)
      BY RecordedHas
    <3>3. synced \in Nat /\ Len(file) \in Nat /\ synced <= Len(file)
      BY <1>1 DEF TypeOK
    <3> QED
      BY <3>1, <3>2, <3>3, FrameInLonger, RecordedHas
  <2> QED
    BY <2>1, <2>2
<1> HIDE DEF R
<1>7. Promise!Crash(n, R)
  BY <1>3, <1>4, <1>5, <1>6 DEF Promise!Crash
<1> QED
  BY <1>7 DEF R

\* No other step records anything or returns to anybody.
LEMMA OtherStepsStutter ==
  ASSUME WInv, FileListed, [Next]_vars, ~Write, ~Reply, ~Crash,
         ~\E r \in Records : SendPanics(r)
  PROVE  UNCHANGED <<Recorded(file), Outcome>>
<1>1. TypeOK
  BY DEF WInv
<1>2. ASSUME NEW r \in Records, AppendBegins(r) \/ Send(r)
      PROVE  UNCHANGED <<Recorded(file), Outcome>>
  <2>1. file' = file
    BY <1>2 DEF AppendBegins, Send, diskVars
  <2>2. \A x \in Records : \/ caller'[x] = caller[x]
                           \/ /\ caller[x] \in {"idle", "sending", "waiting"}
                              /\ caller'[x] \in {"idle", "sending", "waiting"}
    BY <1>1, <1>2 DEF AppendBegins, Send, TypeOK
  <2> QED
    BY <2>1, <2>2, OutcomeKept
<1>3. CASE WriteFails
  <2> DEFINE x == [rec |-> batch[pos + 1], whole |-> FALSE]
  <2>1. batch \in Seq(Records) /\ pos + 1 \in 1..Len(batch) /\ file \in Seq(Frame)
    BY <1>3 DEF WriteFails, WInv, Phases, TypeOK
  <2>2. x \in Frame /\ ~x.whole
    BY <2>1 DEF Frame
  <2>3. (file' = file \/ file' = Append(file, x)) /\ caller' = caller
    BY <1>3 DEF WriteFails
  <2> HIDE DEF x
  <2>4. PICK st : Kept(st, file) /\ Listed(st, file)
    BY DEF FileListed
  <2>5. Recorded(Append(file, x)) = Recorded(file)
    BY <2>1, <2>2, <2>4, RecordedAppend DEF Grow
  <2>6. Recorded(file)' = Recorded(file')
    BY DEF Recorded
  <2> QED
    BY <2>3, <2>5, <2>6 DEF Outcome
<1>4. CASE Receive \/ Exit \/ Drain \/ DrainClosed \/ Drained \/ Sync \/ SyncFails
  <2>1. file' = file /\ caller' = caller
    BY <1>4 DEF Receive, Exit, Drain, DrainClosed, Drained, Sync, SyncFails, diskVars
  <2> QED
    BY <2>1 DEF Outcome
<1>5. CASE Close \/ CloseReturns \/ OpenWAL \/ UNCHANGED vars
  <2>1. file' = file /\ caller' = caller
    BY <1>5 DEF Close, CloseReturns, OpenWAL, vars, diskVars
  <2> QED
    BY <2>1 DEF Outcome
<1> QED
  BY <1>2, <1>3, <1>4, <1>5 DEF Next, WriterStep

\* The channel, the writer with its group commit, failed writes and fsyncs, crashes,
\* Close and reopening implement one append-only log that forgets no acknowledged
\* record: the log that Queue is specified over.
THEOREM WALImplementsDurableLog == Spec => ImplementsDurableLog
<1>1. Init => Promise!Init
  <2> SUFFICES ASSUME Init PROVE Promise!Init
    OBVIOUS
  <2>1. Recorded(file) = <<>>
    <3>1. file = <<>> /\ <<>> \in Seq(Frame) /\ Len(<<>>) = 0
      BY DEF Init
    <3>2. PICK st : Kept(st, <<>>)
      BY KeptEmpty
    <3>3. st[0] = <<>> /\ Recorded(<<>>) = st[0]
      BY <3>1, <3>2, KeepsEach, RecordedIsLast DEF Kept
    <3> QED
      BY <3>1, <3>3
  <2>2. Outcome = [r \in Records |-> "open"]
    BY DEF Init, Outcome
  <2> QED
    BY <2>1, <2>2 DEF Promise!Init
<1>2. WInv /\ FileListed /\ [Next]_vars => [Promise!Next]_(Promise!vars)
  <2> SUFFICES ASSUME WInv, FileListed, [Next]_vars
               PROVE  Promise!Next \/ UNCHANGED Promise!vars
    OBVIOUS
  <2>1. CASE Write
    BY <2>1, WriteLands DEF Promise!Next
  <2>2. CASE Reply
    BY <2>2, ReplyReturns DEF Promise!Next
  <2>3. CASE Crash \/ \E r \in Records : SendPanics(r)
    BY <2>3, DeathIsCrash DEF Promise!Next
  <2>4. CASE ~Write /\ ~Reply /\ ~(Crash \/ \E r \in Records : SendPanics(r))
    BY <2>4, OtherStepsStutter DEF Promise!vars
  <2> QED
    BY <2>1, <2>2, <2>3, <2>4
<1> QED
  BY <1>1, <1>2, WALInvariance, ListInvariance, PTL
     DEF Spec, ImplementsDurableLog, Promise!Spec
============================================================================
