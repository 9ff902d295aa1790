-------------------------- MODULE ReadyHeapProofs --------------------------
(***************************************************************************)
(* Theorems about ReadyHeap, for every set of tasks and every bound.       *)
(*                                                                         *)
(* The loops of container/heap are recursive functions.  What they compute *)
(* follows from an invariant of a turn and a number that every turn makes  *)
(* smaller (LoopEnds), by way of the least number at which a statement     *)
(* fails (LeastNatural).                                                   *)
(***************************************************************************)
EXTENDS ReadyHeap, FiniteSetTheorems, WellFoundedInduction, TLAPS

----------------------------------------------------------------------------
\* Loops.

\* A set of natural numbers that is not empty has a least element: what the
\* inductions over indexes and turns rest on.
LEMMA LeastNatural ==
  ASSUME NEW T, T \subseteq Nat, T # {}
  PROVE  \E n \in T : \A m \in T : n <= m
<1> DEFINE R == OpToRel(<, Nat)
<1>1. IsWellFoundedOn(R, Nat)
  BY NatLessThanWellFounded, Zenon
<1>2. \A m, n \in Nat : <<m, n>> \in R <=> m < n
  BY DEF OpToRel
<1> HIDE DEF R
<1>3. PICK n \in T : \A m \in T : ~(<<m, n>> \in R)
  BY <1>1, WFMin
<1>4. ASSUME NEW m \in T
      PROVE  n <= m
  <2>1. m \in Nat /\ n \in Nat /\ ~(m < n)
    BY <1>2, <1>3
  <2> QED
    BY <2>1
<1> QED
  BY <1>4

\* The states a loop goes through: the equation of After.
Turns(n, turn, start, f) ==
  f = [k \in 0..n |-> IF k = 0 THEN start ELSE turn[f[k - 1]]]

\* Every loop of the heap has its sequence of states, however many its turns.
LEMMA TurnsExist ==
  ASSUME NEW turn, NEW start, NEW n \in Nat
  PROVE  \E f : Turns(n, turn, start, f)
<1> DEFINE T == {k \in Nat : ~ \E f : Turns(k, turn, start, f)}
<1>1. T = {}
  <2> SUFFICES ASSUME T # {} PROVE FALSE
    OBVIOUS
  <2>1. T \subseteq Nat
    OBVIOUS
  <2>2. PICK k \in T : \A m \in T : k <= m
    <3> HIDE DEF T
    <3> QED
      BY <2>1, LeastNatural
  <2>3. k # 0
    <3>1. Turns(0, turn, start, [j \in 0..0 |-> start])
      BY DEF Turns
    <3> QED
      BY <3>1
  <2>4. k \in Nat /\ k - 1 \in Nat /\ ~(k <= k - 1)
    BY <2>3
  <2>5. PICK f : Turns(k - 1, turn, start, f)
    BY <2>2, <2>4
  <2> DEFINE g == [j \in 0..k |-> IF j < k THEN f[j] ELSE turn[f[k - 1]]]
  <2>6. Turns(k, turn, start, g)
    <3>1. \A j \in 0..(k - 1) : f[j] = IF j = 0 THEN start ELSE turn[f[j - 1]]
      BY <2>5 DEF Turns
    <3>2. ASSUME NEW j \in 0..k
          PROVE  g[j] = IF j = 0 THEN start ELSE turn[g[j - 1]]
      BY <3>1, <2>4
    <3>3. g = [j \in 0..k |-> g[j]]
      OBVIOUS
    <3> HIDE DEF g
    <3> QED
      BY <3>2, <3>3 DEF Turns
  <2> QED
    BY <2>6
<1> QED
  BY <1>1

\* The turns of a loop keep S, and bring down a rank or change nothing.
Descends(turn, S, rank) ==
  /\ rank \in [S -> Nat]
  /\ \A p \in S : turn[p] \in S
  /\ \A p \in S : turn[p] = p \/ rank[turn[p]] < rank[p]

\* A loop whose turns keep S, and bring down a rank or change nothing, has come
\* to rest within S after as many turns as the rank it starts from: the break
\* of up and down is reached.
LEMMA LoopEnds ==
  ASSUME NEW turn, NEW S, NEW rank, Descends(turn, S, rank),
         NEW start \in S, NEW n \in Nat, rank[start] <= n
  PROVE  \E p \in S : turn[p] = p /\ After(n, turn, start) = p.slice
<1> USE DEF Descends
<1> DEFINE f == CHOOSE g : Turns(n, turn, start, g)
<1>1. Turns(n, turn, start, f)
  BY TurnsExist
<1>2. After(n, turn, start) = f[n].slice
  BY DEF After, Turns
<1> HIDE DEF f
<1>3. \A k \in 0..n : f[k] = IF k = 0 THEN start ELSE turn[f[k - 1]]
  BY <1>1 DEF Turns
<1> DEFINE Good(k) == f[k] \in S /\ (turn[f[k]] = f[k] \/ rank[f[k]] + k <= rank[start])
           T == {k \in 0..n : ~Good(k)}
<1>4. T = {}
  <2> SUFFICES ASSUME T # {} PROVE FALSE
    OBVIOUS
  <2>1. T \subseteq Nat
    OBVIOUS
  <2>2. PICK k \in T : \A m \in T : k <= m
    <3> HIDE DEF T
    <3> QED
      BY <2>1, LeastNatural
  <2>3. k \in 0..n /\ ~Good(k)
    OBVIOUS
  <2>4. k # 0
    <3>1. Good(0)
      BY <1>3
    <3> QED
      BY <3>1
  <2>5. k - 1 \in 0..n /\ ~(k <= k - 1)
    BY <2>3, <2>4
  <2>6. Good(k - 1)
    BY <2>2, <2>5
  <2>7. f[k] = turn[f[k - 1]]
    BY <1>3, <2>3, <2>4
  <2>8. f[k - 1] \in S /\ f[k] \in S
    BY <2>6, <2>7
  <2>9. CASE turn[f[k - 1]] = f[k - 1]
    BY <2>3, <2>7, <2>8, <2>9
  <2>10. CASE turn[f[k - 1]] # f[k - 1]
    <3>1. rank[f[k]] < rank[f[k - 1]]
      BY <2>7, <2>8, <2>10
    <3>2. rank[f[k - 1]] + (k - 1) <= rank[start]
      BY <2>6, <2>10
    <3>3. rank[f[k]] \in Nat /\ rank[f[k - 1]] \in Nat /\ rank[start] \in Nat
      BY <2>8
    <3>4. rank[f[k]] + k <= rank[start]
      BY <3>1, <3>2, <3>3, <2>3
    <3> QED
      BY <3>4, <2>3, <2>8
  <2> QED
    BY <2>9, <2>10
<1>5. Good(n)
  BY <1>4
<1>6. turn[f[n]] = f[n]
  <2> SUFFICES ASSUME turn[f[n]] # f[n] PROVE FALSE
    OBVIOUS
  <2>1. rank[f[n]] \in Nat /\ rank[start] \in Nat /\ rank[turn[f[n]]] \in Nat
    BY <1>5
  <2>2. rank[f[n]] + n <= rank[start]
    BY <1>5
  <2>3. rank[turn[f[n]]] < rank[f[n]]
    BY <1>5
  <2> QED
    BY <2>1, <2>2, <2>3
<1> QED
  BY <1>2, <1>5, <1>6


----------------------------------------------------------------------------
\* The order.

Keys == [Tasks -> 0..MaxTime]

\* Less orders tasks as AvailableAt and then EnqueuedAt do: it is asymmetric,
\* and what is not less than a third through a second is not less than it.
LEMMA LessIsAnOrder ==
  ASSUME NEW at \in Keys, NEW since \in Keys
  PROVE  /\ \A s, t \in Tasks : Less(at, since, s, t) => ~Less(at, since, t, s)
         /\ \A s, t, u \in Tasks :
              ~Less(at, since, s, t) /\ ~Less(at, since, t, u) => ~Less(at, since, s, u)
<1>1. \A t \in Tasks : at[t] \in Int /\ since[t] \in Int
  BY HeapAssumption DEF Keys
<1> QED
  BY <1>1 DEF Less

\* The parents k and above, among the first n entries, do not come after their
\* children.
HeapFrom(at, since, h, k, n) ==
  \A i \in 2..n : i \div 2 >= k => ~Less(at, since, h[i], h[i \div 2])

IsHeap(at, since, h) == HeapFrom(at, since, h, 1, Len(h))

\* Arithmetic of the tree: a node is above its children and below its parent.
LEMMA Halves ==
  ASSUME NEW i \in Nat, NEW j \in Nat
  PROVE  /\ i \div 2 \in Nat
         /\ i >= 1 => i \div 2 < i
         /\ i >= 2 => i \div 2 >= 1
         /\ i \div 2 = j <=> (i = 2 * j \/ i = 2 * j + 1)
OBVIOUS

\* Swap exchanges two entries and keeps the others, so nothing leaves the slice.
LEMMA SwapEntries ==
  ASSUME NEW h \in Seq(Tasks), NEW i \in 1..Len(h), NEW j \in 1..Len(h), i # j
  PROVE  /\ Swap(h, i, j) \in Seq(Tasks)
         /\ Len(Swap(h, i, j)) = Len(h)
         /\ \A k \in 1..Len(h) :
              Swap(h, i, j)[k] = IF k = i THEN h[j] ELSE IF k = j THEN h[i] ELSE h[k]
         /\ Range(Swap(h, i, j)) = Range(h)
<1>1. Swap(h, i, j) \in Seq(Tasks) /\ Len(Swap(h, i, j)) = Len(h)
  BY DEF Swap
<1>2. \A k \in 1..Len(h) :
        Swap(h, i, j)[k] = IF k = i THEN h[j] ELSE IF k = j THEN h[i] ELSE h[k]
  BY DEF Swap
<1>3. Range(Swap(h, i, j)) = Range(h)
  BY <1>1, <1>2 DEF Range
<1> QED
  BY <1>1, <1>2, <1>3

\* The root of a heap comes first: every entry is not less than its parent,
\* and so on up to the root.
LEMMA RootFirst ==
  ASSUME NEW at \in Keys, NEW since \in Keys, NEW h \in Seq(Tasks),
         IsHeap(at, since, h)
  PROVE  \A i \in 2..Len(h) : ~Less(at, since, h[i], h[1])
<1> DEFINE T == {i \in 2..Len(h) : Less(at, since, h[i], h[1])}
<1>1. T = {}
  <2> SUFFICES ASSUME T # {} PROVE FALSE
    OBVIOUS
  <2>1. T \subseteq Nat
    OBVIOUS
  <2>2. PICK i \in T : \A m \in T : i <= m
    <3> HIDE DEF T
    <3> QED
      BY <2>1, LeastNatural
  <2>3. i \in 2..Len(h) /\ Less(at, since, h[i], h[1])
    OBVIOUS
  <2>4. i \in Nat /\ i \div 2 \in 1..Len(h) /\ i \div 2 < i
    BY <2>3, Halves
  <2>5. ~Less(at, since, h[i], h[i \div 2])
    BY <2>3, <2>4 DEF IsHeap, HeapFrom
  <2>6. ~Less(at, since, h[i \div 2], h[1])
    <3>1. CASE i \div 2 = 1
      <4>1. h[1] \in Tasks
        BY <2>3
      <4> QED
        BY <3>1, <4>1, LessIsAnOrder
    <3>2. CASE i \div 2 # 1
      <4>1. i \div 2 \in 2..Len(h) /\ ~(i <= i \div 2)
        BY <2>4, <3>2
      <4>2. i \div 2 \notin T
        BY <2>2, <4>1
      <4> QED
        BY <4>1, <4>2
    <3> QED
      BY <3>1, <3>2
  <2>7. h[i] \in Tasks /\ h[i \div 2] \in Tasks /\ h[1] \in Tasks
    BY <2>3, <2>4
  <2> QED
    BY <2>3, <2>5, <2>6, <2>7, LessIsAnOrder
<1> QED
  BY <1>1

----------------------------------------------------------------------------
\* up.

\* The slice of a loop over h: as long as h, with the same entries.
SameEntries(h, p) ==
  /\ p \in Loop /\ Len(p.slice) = Len(h) /\ Range(p.slice) = Range(h)

\* The heap but for the entry that climbs, whose children are in order with its
\* parent.
Climbing(at, since, p) ==
  /\ \A i \in 2..Len(p.slice) :
       i # p.at => ~Less(at, since, p.slice[i], p.slice[i \div 2])
  /\ \A i \in 2..Len(p.slice) :
       i \div 2 = p.at /\ p.at >= 2 => ~Less(at, since, p.slice[i], p.slice[p.at \div 2])

\* A turn of up changes two entries for each other, one level up, or nothing.
LEMMA ClimbTurn ==
  ASSUME NEW at \in Keys, NEW since \in Keys, NEW p \in Loop,
         p.at \in 1..Len(p.slice)
  PROVE  \/ /\ Climb(at, since)[p] = p
            /\ p.at = 1 \/ ~Less(at, since, p.slice[p.at], p.slice[p.at \div 2])
         \/ /\ Climb(at, since)[p] = [slice |-> Swap(p.slice, p.at \div 2, p.at),
                                      at |-> p.at \div 2]
            /\ p.at >= 2
            /\ Less(at, since, p.slice[p.at], p.slice[p.at \div 2])
<1>1. p.at \in Nat /\ p.at >= 1
  BY DEF Loop
<1>2. p.at \div 2 = 0 <=> p.at = 1
  BY <1>1
<1>3. Climb(at, since)[p] =
        IF p.at \div 2 = 0 \/ ~Less(at, since, p.slice[p.at], p.slice[p.at \div 2]) THEN p
        ELSE [slice |-> Swap(p.slice, p.at \div 2, p.at), at |-> p.at \div 2]
  BY DEF Climb
<1> QED
  BY <1>1, <1>2, <1>3

LEMMA ClimbKeeps ==
  ASSUME NEW at \in Keys, NEW since \in Keys, NEW h \in Seq(Tasks), NEW p,
         SameEntries(h, p), p.at \in 1..Len(h)
  PROVE  LET new == Climb(at, since)[p]
         IN  /\ SameEntries(h, new) /\ new.at \in 1..Len(h)
             /\ new = p \/ new.at < p.at
             /\ Climbing(at, since, p) => Climbing(at, since, new)
<1> DEFINE new == Climb(at, since)[p]
           s   == p.slice
           a   == p.at
           b   == p.at \div 2
<1>1. p \in Loop /\ s \in Seq(Tasks) /\ Len(s) = Len(h) /\ a \in 1..Len(s) /\ a \in Nat
  BY DEF SameEntries, Loop
<1>2. CASE new = p
  BY <1>2
<1>3. CASE /\ new = [slice |-> Swap(s, b, a), at |-> b]
           /\ a >= 2 /\ Less(at, since, s[a], s[b])
  <2>1. b \in 1..Len(s) /\ b < a /\ b \in Nat
    BY <1>1, <1>3, Halves
  <2> DEFINE w == Swap(s, b, a)
  <2>2. /\ w \in Seq(Tasks) /\ Len(w) = Len(s) /\ Range(w) = Range(s)
        /\ \A k \in 1..Len(s) : w[k] = IF k = b THEN s[a] ELSE IF k = a THEN s[b] ELSE s[k]
    <3> HIDE DEF s, a, b
    <3> QED
      BY <1>1, <2>1, SwapEntries
  <2>3. new.slice = w /\ new.at = b
    BY <1>3
  <2>4. SameEntries(h, new) /\ new.at \in 1..Len(h) /\ new.at < p.at
    BY <1>1, <1>3, <2>1, <2>2 DEF SameEntries, Loop
  <2>5. ASSUME Climbing(at, since, p)
        PROVE  Climbing(at, since, new)
    <3>1. \A i \in 2..Len(s) : i # a => ~Less(at, since, s[i], s[i \div 2])
      BY <2>5 DEF Climbing
    <3>2. \A i \in 2..Len(s) : i \div 2 = a => ~Less(at, since, s[i], s[b])
      BY <2>5, <1>3 DEF Climbing
    <3>3. \A i \in 1..Len(s) : s[i] \in Tasks
      BY <1>1
    <3>4. \A i \in 2..Len(s) : i \in Nat /\ i \div 2 \in 1..Len(s) /\ i \div 2 < i
      BY <1>1, Halves
    <3>5. b = a \div 2
      OBVIOUS
    <3> HIDE DEF new, s, a, b, w
    <3>6. ASSUME NEW i \in 2..Len(w), i # b
          PROVE  ~Less(at, since, w[i], w[i \div 2])
      <4>1. i \in 2..Len(s) /\ i \div 2 \in 1..Len(s) /\ i \div 2 < i /\ i \in 1..Len(s)
        BY <2>2, <3>4, <3>6
      <4>2. CASE i = a
        <5>1. w[i] = s[b] /\ w[i \div 2] = s[a]
          BY <2>1, <2>2, <3>5, <4>1, <4>2
        <5> QED
          BY <5>1, <1>1, <1>3, <2>1, <3>3, LessIsAnOrder
      <4>3. CASE i # a /\ i \div 2 = a
        <5>1. w[i] = s[i] /\ w[i \div 2] = s[b]
          BY <2>1, <2>2, <3>6, <4>1, <4>3
        <5> QED
          BY <5>1, <3>2, <4>1, <4>3
      <4>4. CASE i # a /\ i \div 2 = b
        <5>1. w[i] = s[i] /\ w[i \div 2] = s[a]
          BY <2>2, <3>6, <4>1, <4>4
        <5>2. ~Less(at, since, s[i], s[b]) /\ ~Less(at, since, s[b], s[a])
          BY <3>1, <3>3, <4>1, <4>4, <1>1, <1>3, <2>1, LessIsAnOrder
        <5> QED
          BY <5>1, <5>2, <3>3, <1>1, <2>1, <4>1, LessIsAnOrder
      <4>5. CASE i # a /\ i \div 2 # a /\ i \div 2 # b
        <5>1. w[i] = s[i] /\ w[i \div 2] = s[i \div 2]
          BY <2>2, <3>6, <4>1, <4>5
        <5> QED
          BY <5>1, <3>1, <4>1, <4>5
      <4> QED
        BY <4>2, <4>3, <4>4, <4>5
    <3>7. ASSUME NEW i \in 2..Len(w), i \div 2 = b, b >= 2
          PROVE  ~Less(at, since, w[i], w[b \div 2])
      <4>1. i \in 2..Len(s) /\ i \div 2 \in 1..Len(s) /\ i \div 2 < i /\ i \in 1..Len(s)
        BY <2>2, <3>4, <3>7
      <4>2. b \in 2..Len(s) /\ b \div 2 \in 1..Len(s) /\ b \div 2 < b
        BY <2>1, <3>4, <3>7
      <4>3. w[b \div 2] = s[b \div 2]
        BY <2>1, <2>2, <4>2, <1>1
      <4>4. ~Less(at, since, s[b], s[b \div 2])
        BY <3>1, <4>2, <2>1, <1>1
      <4>5. CASE i = a
        <5>1. w[i] = s[b]
          BY <2>1, <2>2, <4>1, <4>5
        <5> QED
          BY <5>1, <4>3, <4>4
      <4>6. CASE i # a
        <5>1. w[i] = s[i]
          BY <2>2, <3>7, <4>1, <4>6
        <5>2. ~Less(at, since, s[i], s[b])
          BY <3>1, <3>7, <4>1, <4>6
        <5> QED
          BY <5>1, <5>2, <4>3, <4>4, <4>1, <4>2, <3>3, <2>1, LessIsAnOrder
      <4> QED
        BY <4>5, <4>6
    <3> QED
      BY <3>6, <3>7, <2>3 DEF Climbing
  <2> QED
    BY <2>4, <2>5
<1>4. new = p \/ (new = [slice |-> Swap(s, b, a), at |-> b] /\ a >= 2 /\ Less(at, since, s[a], s[b]))
  BY <1>1, ClimbTurn
<1> QED
  BY <1>2, <1>3, <1>4

\* heap.Push keeps every entry, adds the new one, and keeps the heap a heap.
LEMMA PushKeepsTheHeap ==
  ASSUME NEW at \in Keys, NEW since \in Keys, NEW h \in Seq(Tasks), NEW t \in Tasks
  PROVE  /\ Push(at, since, h, t) \in Seq(Tasks)
         /\ Range(Push(at, since, h, t)) = Range(h) \cup {t}
         /\ IsHeap(at, since, h) => IsHeap(at, since, Push(at, since, h, t))
<1> DEFINE g     == Append(h, t)
           start == [slice |-> g, at |-> Len(g)]
           S     == {p \in Loop : /\ SameEntries(g, p) /\ p.at \in 1..Len(g)
                                  /\ IsHeap(at, since, h) => Climbing(at, since, p)}
           rank  == [p \in S |-> p.at]
<1>1. /\ g \in Seq(Tasks) /\ Len(g) = Len(h) + 1 /\ Len(g) \in Nat /\ Len(h) \in Nat
      /\ \A i \in 1..Len(h) : g[i] = h[i]
  OBVIOUS
<1>2. Range(g) = Range(h) \cup {t}
  <2>1. g[Len(h) + 1] = t
    OBVIOUS
  <2>2. DOMAIN g = 1..(Len(h) + 1) /\ DOMAIN h = 1..Len(h)
    BY <1>1
  <2> HIDE DEF g
  <2> QED
    BY <1>1, <2>1, <2>2 DEF Range
<1> HIDE DEF g
<1>3. start \in S
  <2>1. start \in Loop /\ SameEntries(g, start) /\ start.at \in 1..Len(g)
    BY <1>1 DEF Loop, SameEntries
  <2>2. ASSUME IsHeap(at, since, h)
        PROVE  Climbing(at, since, start)
    <3>1. ASSUME NEW i \in 2..Len(g), i # Len(g)
          PROVE  ~Less(at, since, g[i], g[i \div 2])
      <4>1. i \in 2..Len(h) /\ i \div 2 \in 1..Len(h) /\ i \in 1..Len(h)
        BY <3>1, <1>1, Halves
      <4> QED
        BY <4>1, <1>1, <2>2 DEF IsHeap, HeapFrom
    <3>2. ASSUME NEW i \in 2..Len(g)
          PROVE  i \div 2 # Len(g)
      BY <1>1, Halves
    <3> QED
      BY <3>1, <3>2 DEF Climbing
  <2> QED
    BY <2>1, <2>2
<1>4. \A p \in S : Climb(at, since)[p] \in S
  <2> SUFFICES ASSUME NEW p \in S PROVE Climb(at, since)[p] \in S
    OBVIOUS
  <2>1. SameEntries(g, p) /\ p.at \in 1..Len(g)
    OBVIOUS
  <2> DEFINE new == Climb(at, since)[p]
  <2>2. /\ SameEntries(g, new) /\ new.at \in 1..Len(g)
        /\ Climbing(at, since, p) => Climbing(at, since, new)
    BY <1>1, <2>1, ClimbKeeps
  <2> HIDE DEF new
  <2>3. new \in Loop
    BY <2>2 DEF SameEntries
  <2>4. new \in S
    BY <2>2, <2>3
  <2> QED
    BY <2>4 DEF new
<1>5. rank \in [S -> Nat]
  BY DEF Loop
<1>6. \A p \in S : Climb(at, since)[p] = p \/ rank[Climb(at, since)[p]] < rank[p]
  <2> SUFFICES ASSUME NEW p \in S
               PROVE  Climb(at, since)[p] = p \/ rank[Climb(at, since)[p]] < rank[p]
    OBVIOUS
  <2>1. SameEntries(g, p) /\ p.at \in 1..Len(g)
    OBVIOUS
  <2>2. Climb(at, since)[p] = p \/ Climb(at, since)[p].at < p.at
    BY <1>1, <2>1, ClimbKeeps
  <2>3. rank[p] = p.at /\ rank[Climb(at, since)[p]] = Climb(at, since)[p].at
    BY <1>4
  <2> QED
    BY <2>2, <2>3
<1>7. rank[start] <= Len(g)
  BY <1>1, <1>3
<1>8. PICK p \in S : Climb(at, since)[p] = p
                     /\ After(Len(g), Climb(at, since), start) = p.slice
  <2> DEFINE turn == Climb(at, since)
             n    == Len(g)
  <2>1. n \in Nat
    BY <1>1
  <2> HIDE DEF S, rank, start, turn, n
  <2>2. rank[start] <= n
    BY <1>7 DEF n
  <2>3. Descends(turn, S, rank)
    BY <1>4, <1>5, <1>6 DEF Descends, turn
  <2>4. \E q \in S : turn[q] = q /\ After(n, turn, start) = q.slice
    BY <1>3, <2>1, <2>2, <2>3, LoopEnds
  <2> QED
    BY <2>4 DEF turn, n
<1>9. Push(at, since, h, t) = p.slice
  BY <1>8 DEF Push, Up, g
<1>10. SameEntries(g, p) /\ p.at \in 1..Len(g) /\ p.slice \in Seq(Tasks) /\ Len(p.slice) = Len(g)
  BY DEF SameEntries, Loop
<1>11. ASSUME IsHeap(at, since, h)
       PROVE  IsHeap(at, since, p.slice)
  <2>1. Climbing(at, since, p)
    BY <1>11
  <2>2. p.at = 1 \/ ~Less(at, since, p.slice[p.at], p.slice[p.at \div 2])
    <3>1. Climb(at, since)[p] # [slice |-> Swap(p.slice, p.at \div 2, p.at), at |-> p.at \div 2]
      <4>1. p.at \in Nat /\ p.at >= 1
        BY <1>10, <1>1
      <4>2. p.at \div 2 # p.at
        BY <4>1
      <4> QED
        BY <1>8, <4>2
    <3> QED
      BY <3>1, <1>10, ClimbTurn
  <2>3. ASSUME NEW i \in 2..Len(p.slice)
        PROVE  ~Less(at, since, p.slice[i], p.slice[i \div 2])
    <3>1. i # 1
      BY <1>1, <1>10
    <3> QED
      BY <2>1, <2>2, <3>1 DEF Climbing
  <2> QED
    BY <2>3 DEF IsHeap, HeapFrom
<1> QED
  BY <1>2, <1>9, <1>10, <1>11 DEF SameEntries

----------------------------------------------------------------------------
\* down.

\* The heap from k on but for the entry that sinks, whose children are in order
\* with its parent.
Sinking(at, since, k, n, p) ==
  /\ \A i \in 2..n : i \div 2 >= k /\ i \div 2 # p.at =>
                       ~Less(at, since, p.slice[i], p.slice[i \div 2])
  /\ \A i \in 2..n : i \div 2 = p.at /\ p.at \div 2 >= k =>
                       ~Less(at, since, p.slice[i], p.slice[p.at \div 2])

\* A turn of down changes an entry for its lesser child, or changes nothing when
\* no child is less.
LEMMA SinkTurn ==
  ASSUME NEW at \in Keys, NEW since \in Keys, NEW p \in Loop,
         NEW n \in 0..Len(p.slice), p.at \in 1..Len(p.slice)
  PROVE  \/ /\ Sink(at, since, n)[p] = p
            /\ \A i \in 2..n : i \div 2 = p.at => ~Less(at, since, p.slice[i], p.slice[p.at])
         \/ \E c \in 2..n :
              /\ c \div 2 = p.at
              /\ Sink(at, since, n)[p] = [slice |-> Swap(p.slice, p.at, c), at |-> c]
              /\ Less(at, since, p.slice[c], p.slice[p.at])
              /\ \A i \in 2..n : i \div 2 = p.at => ~Less(at, since, p.slice[i], p.slice[c])
<1> DEFINE s    == p.slice
           a    == p.at
           left == 2 * p.at
           c    == IF left < n /\ Less(at, since, s[left + 1], s[left]) THEN left + 1 ELSE left
<1>1. s \in Seq(Tasks) /\ a \in Nat /\ a >= 1 /\ n \in Nat /\ n <= Len(s) /\ left \in Nat /\ left >= 2
  BY DEF Loop
<1>2. Sink(at, since, n)[p] =
        IF left > n \/ ~Less(at, since, s[c], s[a]) THEN p
        ELSE [slice |-> Swap(s, a, c), at |-> c]
  BY DEF Sink
<1>3. \A i \in 2..n : i \div 2 = a => i \in 1..Len(s) /\ i >= left /\ (i = left \/ i = left + 1)
  BY <1>1, Halves
<1>4. \A i \in 1..Len(s) : s[i] \in Tasks
  BY <1>1
<1>5. CASE left > n
  BY <1>1, <1>2, <1>3, <1>5
<1>6. CASE ~(left > n)
  <2>1. c \in 2..n /\ c \in 1..Len(s) /\ (c = left \/ c = left + 1)
    BY <1>1, <1>6
  <2>2. c \div 2 = a
    <3>1. c \in Nat /\ (c = 2 * a \/ c = 2 * a + 1)
      BY <1>1, <2>1
    <3> HIDE DEF c, a
    <3> QED
      BY <1>1, <3>1, Halves
  <2>3. \A i \in 2..n : i \div 2 = a => ~Less(at, since, s[i], s[c])
    <3> SUFFICES ASSUME NEW i \in 2..n, i \div 2 = a
                 PROVE  ~Less(at, since, s[i], s[c])
      OBVIOUS
    <3>1. i \in 1..Len(s) /\ (i = left \/ i = left + 1)
      BY <1>3
    <3>2. ~Less(at, since, s[c], s[c])
      BY <1>4, <2>1, LessIsAnOrder
    <3>3. CASE i = c
      BY <3>2, <3>3
    <3>4. CASE c = left + 1 /\ i = left
      <4>1. Less(at, since, s[left + 1], s[left])
        BY <3>4, <1>1
      <4> QED
        BY <4>1, <3>1, <3>4, <2>1, <1>4, LessIsAnOrder
    <3>5. CASE c = left /\ i = left + 1
      <4>1. left < n
        BY <3>5, <1>1
      <4>2. ~Less(at, since, s[left + 1], s[left])
        BY <4>1, <3>5, <1>1
      <4> QED
        BY <4>2, <3>5
    <3> QED
      BY <3>1, <3>3, <3>4, <3>5, <2>1
  <2> HIDE DEF c
  <2>4. CASE Less(at, since, s[c], s[a])
    BY <1>2, <1>6, <2>1, <2>2, <2>3, <2>4
  <2>5. CASE ~Less(at, since, s[c], s[a])
    <3>1. a \in 1..Len(s)
      BY <1>1
    <3>2. \A i \in 2..n : i \div 2 = a => ~Less(at, since, s[i], s[a])
      BY <1>3, <1>4, <2>1, <2>3, <2>5, <3>1, LessIsAnOrder
    <3> QED
      BY <1>2, <2>5, <3>2
  <2> QED
    BY <2>4, <2>5
<1> QED
  BY <1>5, <1>6

LEMMA SinkKeeps ==
  ASSUME NEW at \in Keys, NEW since \in Keys, NEW h \in Seq(Tasks),
         NEW n \in 0..Len(h), NEW k \in 1..Len(h), NEW p,
         SameEntries(h, p), p.at \in k..Len(h)
  PROVE  LET new == Sink(at, since, n)[p]
         IN  /\ SameEntries(h, new) /\ new.at \in k..Len(h)
             /\ new = p \/ new.at > p.at
             /\ \A i \in (n + 1)..Len(h) : new.slice[i] = p.slice[i]
             /\ Sinking(at, since, k, n, p) => Sinking(at, since, k, n, new)
<1> DEFINE new == Sink(at, since, n)[p]
           s   == p.slice
           a   == p.at
<1>1. /\ p \in Loop /\ s \in Seq(Tasks) /\ Len(s) = Len(h) /\ a \in 1..Len(s) /\ a \in Nat
      /\ n \in 0..Len(s) /\ n \in Nat /\ k \in Nat /\ k >= 1 /\ a >= k /\ Len(s) \in Nat
  BY DEF SameEntries, Loop
<1>2. CASE new = p
  BY <1>2
<1>3. ASSUME NEW c \in 2..n, c \div 2 = a,
             new = [slice |-> Swap(s, a, c), at |-> c],
             Less(at, since, s[c], s[a]),
             \A i \in 2..n : i \div 2 = a => ~Less(at, since, s[i], s[c])
      PROVE  /\ SameEntries(h, new) /\ new.at \in k..Len(h) /\ new.at > p.at
             /\ \A i \in (n + 1)..Len(h) : new.slice[i] = s[i]
             /\ Sinking(at, since, k, n, p) => Sinking(at, since, k, n, new)
  <2>1. c \in 1..Len(s) /\ c \in Nat /\ a < c /\ c <= n /\ c >= k
    BY <1>1, <1>3, Halves
  <2> DEFINE w == Swap(s, a, c)
  <2>2. /\ w \in Seq(Tasks) /\ Len(w) = Len(s) /\ Range(w) = Range(s)
        /\ \A i \in 1..Len(s) : w[i] = IF i = a THEN s[c] ELSE IF i = c THEN s[a] ELSE s[i]
    <3> HIDE DEF s, a
    <3> QED
      BY <1>1, <2>1, SwapEntries
  <2>3. new.slice = w /\ new.at = c
    BY <1>3
  <2>4. SameEntries(h, new) /\ new.at \in k..Len(h) /\ new.at > p.at
    BY <1>1, <1>3, <2>1, <2>2 DEF SameEntries, Loop
  <2>5. \A i \in (n + 1)..Len(h) : new.slice[i] = s[i]
    <3> HIDE DEF s, a, w, new
    <3> QED
      BY <1>1, <2>1, <2>2, <2>3
  <2>6. ASSUME Sinking(at, since, k, n, p)
        PROVE  Sinking(at, since, k, n, new)
    <3>1. \A i \in 2..n : i \div 2 >= k /\ i \div 2 # a => ~Less(at, since, s[i], s[i \div 2])
      BY <2>6 DEF Sinking
    <3>2. \A i \in 2..n : i \div 2 = a /\ a \div 2 >= k => ~Less(at, since, s[i], s[a \div 2])
      BY <2>6 DEF Sinking
    <3>3. \A i \in 1..Len(s) : s[i] \in Tasks
      BY <1>1
    <3>4. \A i \in 2..n : i \in Nat /\ i \in 1..Len(s) /\ i \div 2 \in 1..Len(s) /\ i \div 2 < i
      BY <1>1, Halves
    <3> HIDE DEF new, s, a, w
    <3>5. ASSUME NEW i \in 2..n, i \div 2 >= k, i \div 2 # c
          PROVE  ~Less(at, since, w[i], w[i \div 2])
      <4>1. i \in Nat /\ i \in 1..Len(s) /\ i \div 2 \in 1..Len(s) /\ i \div 2 < i
        BY <3>4
      <4>2. CASE i = c
        <5>1. w[i] = s[a] /\ w[i \div 2] = s[c]
          BY <1>3, <2>1, <2>2, <4>1, <4>2
        <5> QED
          BY <5>1, <1>1, <1>3, <2>1, <3>3, LessIsAnOrder
      <4>3. CASE i # c /\ i \div 2 = a
        <5>1. w[i] = s[i] /\ w[i \div 2] = s[c]
          BY <2>2, <4>1, <4>3
        <5> QED
          BY <5>1, <1>3, <4>3
      <4>4. CASE i = a
        <5>1. w[i] = s[c] /\ w[i \div 2] = s[a \div 2]
          BY <2>1, <2>2, <3>5, <4>1, <4>4
        <5>2. ~Less(at, since, s[c], s[a \div 2])
          BY <1>3, <3>2, <3>5, <4>4
        <5> QED
          BY <5>1, <5>2
      <4>5. CASE i # c /\ i # a /\ i \div 2 # a
        <5>1. w[i] = s[i] /\ w[i \div 2] = s[i \div 2]
          BY <2>2, <3>5, <4>1, <4>5
        <5> QED
          BY <5>1, <3>1, <3>5, <4>5
      <4> QED
        BY <4>2, <4>3, <4>4, <4>5
    <3>6. ASSUME NEW i \in 2..n, i \div 2 = c
          PROVE  ~Less(at, since, w[i], w[c \div 2])
      <4>1. i \in Nat /\ i \in 1..Len(s) /\ i > c
        BY <3>4, <3>6
      <4>2. w[i] = s[i] /\ w[c \div 2] = s[c]
        BY <1>1, <1>3, <2>1, <2>2, <4>1
      <4>3. ~Less(at, since, s[i], s[i \div 2])
        BY <3>1, <3>6, <2>1, <1>1
      <4> QED
        BY <3>6, <4>2, <4>3
    <3> QED
      BY <3>5, <3>6, <2>3 DEF Sinking
  <2> QED
    BY <2>4, <2>5, <2>6
<1>4. \/ new = p
      \/ \E c \in 2..n : /\ c \div 2 = a
                         /\ new = [slice |-> Swap(s, a, c), at |-> c]
                         /\ Less(at, since, s[c], s[a])
                         /\ \A i \in 2..n : i \div 2 = a => ~Less(at, since, s[i], s[c])
  BY <1>1, SinkTurn
<1> HIDE DEF new, s
<1>5. CASE new # p
  <2>1. PICK c \in 2..n : /\ c \div 2 = a
                          /\ new = [slice |-> Swap(s, a, c), at |-> c]
                          /\ Less(at, since, s[c], s[a])
                          /\ \A i \in 2..n : i \div 2 = a => ~Less(at, since, s[i], s[c])
    BY <1>4, <1>5
  <2> QED
    BY <1>3, <2>1 DEF new, s
<1> QED
  BY <1>2, <1>5 DEF new, s

\* down keeps every entry, does not touch those from n on, and extends the heap
\* by the parent it starts from.
LEMMA DownExtendsTheHeap ==
  ASSUME NEW at \in Keys, NEW since \in Keys, NEW h \in Seq(Tasks),
         NEW n \in 0..Len(h), NEW k \in 1..Len(h)
  PROVE  LET d == Down(at, since, h, k, n)
         IN  /\ d \in Seq(Tasks) /\ Len(d) = Len(h) /\ Range(d) = Range(h)
             /\ \A i \in (n + 1)..Len(h) : d[i] = h[i]
             /\ HeapFrom(at, since, h, k + 1, n) => HeapFrom(at, since, d, k, n)
<1> DEFINE start == [slice |-> h, at |-> k]
           turn  == Sink(at, since, n)
           S     == {p \in Loop : /\ SameEntries(h, p) /\ p.at \in k..Len(h)
                                  /\ \A i \in (n + 1)..Len(h) : p.slice[i] = h[i]
                                  /\ HeapFrom(at, since, h, k + 1, n) =>
                                       Sinking(at, since, k, n, p)}
           rank  == [p \in S |-> Len(h) - p.at]
<1>1. Len(h) \in Nat /\ k \in Nat /\ k >= 1 /\ n \in Nat /\ n <= Len(h)
  OBVIOUS
<1>2. start \in S
  <2>1. start \in Loop /\ SameEntries(h, start) /\ start.at \in k..Len(h)
    BY <1>1 DEF Loop, SameEntries
  <2>2. \A i \in (n + 1)..Len(h) : start.slice[i] = h[i]
    OBVIOUS
  <2>3. ASSUME HeapFrom(at, since, h, k + 1, n)
        PROVE  Sinking(at, since, k, n, start)
    <3>1. ASSUME NEW i \in 2..n, i \div 2 >= k, i \div 2 # k
          PROVE  ~Less(at, since, h[i], h[i \div 2])
      <4>1. i \div 2 >= k + 1
        BY <1>1, <3>1
      <4> QED
        BY <2>3, <4>1 DEF HeapFrom
    <3>2. ~(k \div 2 >= k)
      BY <1>1
    <3> QED
      BY <3>1, <3>2 DEF Sinking
  <2> QED
    BY <2>1, <2>2, <2>3
<1>3. ASSUME NEW p \in S
      PROVE  turn[p] \in S /\ (turn[p] = p \/ rank[turn[p]] < rank[p])
  <2>1. SameEntries(h, p) /\ p.at \in k..Len(h)
    OBVIOUS
  <2> DEFINE new == turn[p]
  <2>2. /\ SameEntries(h, new) /\ new.at \in k..Len(h)
        /\ new = p \/ new.at > p.at
        /\ \A i \in (n + 1)..Len(h) : new.slice[i] = p.slice[i]
        /\ Sinking(at, since, k, n, p) => Sinking(at, since, k, n, new)
    BY <1>1, <2>1, SinkKeeps
  <2> HIDE DEF new
  <2>3. new \in Loop
    BY <2>2 DEF SameEntries
  <2>4. new \in S
    BY <2>2, <2>3
  <2>5. rank[new] = Len(h) - new.at /\ rank[p] = Len(h) - p.at
    BY <2>4
  <2>6. new = p \/ rank[new] < rank[p]
    BY <1>1, <2>1, <2>2, <2>5
  <2> QED
    BY <2>4, <2>6 DEF new
<1>4. rank \in [S -> Nat]
  <2>1. \A p \in S : Len(h) - p.at \in Nat
    BY <1>1
  <2> QED
    BY <2>1
<1>5. rank[start] <= Len(h)
  BY <1>1, <1>2
<1>6. PICK p \in S : turn[p] = p /\ After(Len(h), turn, start) = p.slice
  <2> DEFINE m == Len(h)
  <2>1. m \in Nat /\ rank[start] <= m
    BY <1>1, <1>5
  <2> HIDE DEF S, rank, start, turn, m
  <2>2. Descends(turn, S, rank)
    BY <1>3, <1>4 DEF Descends
  <2>3. \E q \in S : turn[q] = q /\ After(m, turn, start) = q.slice
    BY <1>2, <2>1, <2>2, LoopEnds
  <2> QED
    BY <2>3 DEF m
<1>7. Down(at, since, h, k, n) = p.slice
  BY <1>6 DEF Down
<1>8. /\ p \in Loop /\ p.slice \in Seq(Tasks) /\ Len(p.slice) = Len(h)
      /\ Range(p.slice) = Range(h) /\ p.at \in 1..Len(p.slice) /\ p.at \in Nat
  BY <1>1 DEF SameEntries, Loop
<1>9. ASSUME HeapFrom(at, since, h, k + 1, n)
      PROVE  HeapFrom(at, since, p.slice, k, n)
  <2>1. Sinking(at, since, k, n, p)
    BY <1>9
  <2>2. \A i \in 2..n : i \div 2 = p.at => ~Less(at, since, p.slice[i], p.slice[p.at])
    <3>1. ASSUME NEW c \in 2..n, c \div 2 = p.at,
                 turn[p] = [slice |-> Swap(p.slice, p.at, c), at |-> c]
          PROVE  FALSE
      <4>1. c # p.at
        BY <3>1
      <4> QED
        BY <1>6, <3>1, <4>1
    <3>2. n \in 0..Len(p.slice)
      BY <1>1, <1>8
    <3>3. \/ \A i \in 2..n : i \div 2 = p.at => ~Less(at, since, p.slice[i], p.slice[p.at])
          \/ \E c \in 2..n :
               /\ c \div 2 = p.at
               /\ turn[p] = [slice |-> Swap(p.slice, p.at, c), at |-> c]
               /\ Less(at, since, p.slice[c], p.slice[p.at])
               /\ \A i \in 2..n : i \div 2 = p.at => ~Less(at, since, p.slice[i], p.slice[c])
      BY <1>8, <3>2, SinkTurn
    <3> QED
      BY <3>1, <3>3
  <2> QED
    BY <2>1, <2>2 DEF Sinking, HeapFrom
<1> QED
  BY <1>7, <1>8, <1>9

----------------------------------------------------------------------------
\* heap.Pop and heap.Init.

\* heap.Pop takes the root off, keeps every other entry, and keeps the heap a
\* heap.
LEMMA PopKeepsTheHeap ==
  ASSUME availableAt \in Keys, enqueuedAt \in Keys,
         NEW h \in Seq(Tasks), h # <<>>
  PROVE  /\ Pop(h) \in Seq(Tasks)
         /\ Range(Pop(h)) \subseteq Range(h)
         /\ Range(h) \subseteq Range(Pop(h)) \cup {h[1]}
         /\ IsHeap(availableAt, enqueuedAt, h) => IsHeap(availableAt, enqueuedAt, Pop(h))
<1> DEFINE n == Len(h)
           w == Swap(h, 1, n)
           d == Down(availableAt, enqueuedAt, w, 1, n - 1)
<1>1. n \in Nat /\ n >= 1 /\ 1 \in 1..n /\ n \in 1..n
  OBVIOUS
<1>2. /\ w \in Seq(Tasks) /\ Len(w) = n /\ Range(w) = Range(h) /\ w[n] = h[1]
      /\ \A i \in 2..(n - 1) : w[i] = h[i]
  <2>1. CASE n = 1
    <3>1. w = h
      BY <1>1, <2>1 DEF Swap
    <3> QED
      BY <1>1, <2>1, <3>1
  <2>2. CASE n # 1
    <3>1. Len(h) = n
      OBVIOUS
    <3> HIDE DEF n
    <3>2. /\ Swap(h, 1, n) \in Seq(Tasks) /\ Len(Swap(h, 1, n)) = Len(h)
          /\ \A k \in 1..Len(h) :
               Swap(h, 1, n)[k] = IF k = 1 THEN h[n] ELSE IF k = n THEN h[1] ELSE h[k]
          /\ Range(Swap(h, 1, n)) = Range(h)
      BY <1>1, <2>2, <3>1, SwapEntries
    <3> HIDE DEF w
    <3> QED
      BY <1>1, <2>2, <3>1, <3>2 DEF w
  <2> QED
    BY <2>1, <2>2
<1> HIDE DEF w
<1>3. n - 1 \in 0..Len(w) /\ 1 \in 1..Len(w)
  BY <1>1, <1>2
<1>4. /\ d \in Seq(Tasks) /\ Len(d) = Len(w) /\ Range(d) = Range(w)
      /\ \A i \in ((n - 1) + 1)..Len(w) : d[i] = w[i]
      /\ HeapFrom(availableAt, enqueuedAt, w, 1 + 1, n - 1) =>
           HeapFrom(availableAt, enqueuedAt, d, 1, n - 1)
  <2> DEFINE m == n - 1
  <2>1. m \in 0..Len(w)
    BY <1>3
  <2> HIDE DEF m, n
  <2>2. LET e == Down(availableAt, enqueuedAt, w, 1, m)
        IN  /\ e \in Seq(Tasks) /\ Len(e) = Len(w) /\ Range(e) = Range(w)
            /\ \A i \in (m + 1)..Len(w) : e[i] = w[i]
            /\ HeapFrom(availableAt, enqueuedAt, w, 1 + 1, m) =>
                 HeapFrom(availableAt, enqueuedAt, e, 1, m)
    BY <1>2, <1>3, <2>1, DownExtendsTheHeap
  <2> QED
    BY <2>2 DEF m
<1>5. Pop(h) = Front(d)
  BY DEF Pop, w
<1> HIDE DEF d, n
<1>6. /\ Front(d) \in Seq(Tasks) /\ Len(Front(d)) = n - 1
      /\ \A i \in 1..(n - 1) : Front(d)[i] = d[i]
  <2>1. Len(d) = n /\ Front(d) = SubSeq(d, 1, n - 1)
    BY <1>2, <1>4 DEF Front
  <2> QED
    BY <1>1, <1>4, <2>1
<1>7. d[n] = h[1]
  BY <1>1, <1>2, <1>4
<1>8. Range(Front(d)) \subseteq Range(h) /\ Range(h) \subseteq Range(Front(d)) \cup {h[1]}
  <2>1. DOMAIN Front(d) = 1..(n - 1) /\ DOMAIN d = 1..n
    BY <1>2, <1>4, <1>6
  <2>2. \A i \in 1..n : i = n \/ i \in 1..(n - 1)
    BY <1>1
  <2>3. Range(Front(d)) = {d[i] : i \in 1..(n - 1)} /\ Range(d) = {d[i] : i \in 1..n}
    BY <2>1, <1>6 DEF Range
  <2>4. 1..(n - 1) \subseteq 1..n
    BY <1>1
  <2>5. Range(d) = Range(h)
    BY <1>2, <1>4
  <2> QED
    BY <1>7, <2>2, <2>3, <2>4, <2>5
<1>9. ASSUME IsHeap(availableAt, enqueuedAt, h)
      PROVE  IsHeap(availableAt, enqueuedAt, Front(d))
  <2>1. HeapFrom(availableAt, enqueuedAt, w, 1 + 1, n - 1)
    <3> SUFFICES ASSUME NEW i \in 2..(n - 1), i \div 2 >= 2
                 PROVE  ~Less(availableAt, enqueuedAt, w[i], w[i \div 2])
      BY DEF HeapFrom
    <3>1. i \in Nat /\ i \div 2 < i /\ i \in 2..n
      BY <1>1, Halves
    <3>2. i \div 2 \in 2..(n - 1) /\ i \div 2 >= 1
      BY <1>1, <3>1
    <3>3. ~Less(availableAt, enqueuedAt, h[i], h[i \div 2])
      BY <1>9, <3>1, <3>2 DEF IsHeap, HeapFrom, n
    <3> QED
      BY <1>2, <3>2, <3>3
  <2>2. HeapFrom(availableAt, enqueuedAt, d, 1, n - 1)
    BY <1>4, <2>1
  <2>3. \A i \in 2..(n - 1) : i \in 1..(n - 1) /\ i \div 2 \in 1..(n - 1)
    BY <1>1, Halves
  <2> QED
    BY <1>6, <2>2, <2>3 DEF IsHeap, HeapFrom
<1> QED
  BY <1>5, <1>6, <1>8, <1>9

\* heap.Init keeps every entry and makes a heap of any slice: its parents settle
\* from the last to the first, each onto a heap.
LEMMA HeapInitMakesAHeap ==
  ASSUME NEW at \in Keys, NEW since \in Keys, NEW h \in Seq(Tasks)
  PROVE  /\ HeapInit(at, since, h) \in Seq(Tasks)
         /\ Range(HeapInit(at, since, h)) = Range(h)
         /\ IsHeap(at, since, HeapInit(at, since, h))
<1> DEFINE n     == Len(h)
           start == [slice |-> h, at |-> n \div 2]
           turn  == Settle(at, since)
           S     == {p \in Loop : /\ SameEntries(h, p) /\ p.at \in 0..n
                                  /\ HeapFrom(at, since, p.slice, p.at + 1, n)}
           rank  == [p \in S |-> p.at]
<1>1. n \in Nat /\ n \div 2 \in 0..n
  BY Halves
<1>2. start \in S
  <2>1. start \in Loop /\ SameEntries(h, start) /\ start.at \in 0..n
    BY <1>1 DEF Loop, SameEntries
  <2>2. ASSUME NEW i \in 2..n
        PROVE  ~(i \div 2 >= n \div 2 + 1)
    BY <1>1
  <2>3. HeapFrom(at, since, h, n \div 2 + 1, n)
    BY <2>2 DEF HeapFrom
  <2> QED
    BY <2>1, <2>3
<1>3. ASSUME NEW p \in S, p.at # 0
      PROVE  turn[p].at = p.at - 1 /\ turn[p] \in S
  <2>1. /\ p \in Loop /\ SameEntries(h, p) /\ p.at \in 0..n /\ p.slice \in Seq(Tasks)
        /\ Len(p.slice) = n /\ HeapFrom(at, since, p.slice, p.at + 1, n)
    BY DEF SameEntries, Loop
  <2>2. p.at \in 1..Len(p.slice) /\ n \in 0..Len(p.slice)
    BY <1>1, <1>3, <2>1
  <2> DEFINE d == Down(at, since, p.slice, p.at, n)
  <2>3. /\ d \in Seq(Tasks) /\ Len(d) = Len(p.slice) /\ Range(d) = Range(p.slice)
        /\ HeapFrom(at, since, p.slice, p.at + 1, n) => HeapFrom(at, since, d, p.at, n)
    <3> DEFINE s == p.slice
               k == p.at
    <3>1. s \in Seq(Tasks) /\ k \in 1..Len(s) /\ n \in 0..Len(s)
      BY <2>1, <2>2
    <3> HIDE DEF s, k, n
    <3>2. LET e == Down(at, since, s, k, n)
          IN  /\ e \in Seq(Tasks) /\ Len(e) = Len(s) /\ Range(e) = Range(s)
              /\ \A i \in (n + 1)..Len(s) : e[i] = s[i]
              /\ HeapFrom(at, since, s, k + 1, n) => HeapFrom(at, since, e, k, n)
      BY <3>1, DownExtendsTheHeap
    <3> QED
      BY <3>2 DEF s, k
  <2> HIDE DEF d
  <2>4. turn[p] = [slice |-> d, at |-> p.at - 1]
    BY <1>3, <2>1 DEF Settle, d
  <2>5. (p.at - 1) + 1 = p.at /\ p.at - 1 \in 0..n
    BY <1>1, <2>2, <2>1
  <2>6. turn[p] \in S
    BY <2>1, <2>3, <2>4, <2>5 DEF SameEntries, Loop
  <2> QED
    BY <2>4, <2>6
<1>4. \A p \in S : p.at = 0 => turn[p] = p
  BY DEF Settle
<1>5. rank \in [S -> Nat]
  BY DEF Loop
<1>6. PICK p \in S : turn[p] = p /\ After(n, turn, start) = p.slice
  <2>1. \A q \in S : turn[q] \in S
    BY <1>3, <1>4
  <2>2. ASSUME NEW q \in S
        PROVE  turn[q] = q \/ rank[turn[q]] < rank[q]
    <3>1. CASE q.at = 0
      BY <1>4, <3>1
    <3>2. CASE q.at # 0
      <4>1. turn[q].at = q.at - 1 /\ turn[q] \in S
        BY <1>3, <3>2
      <4>2. rank[turn[q]] = q.at - 1 /\ rank[q] = q.at /\ q.at \in 0..n
        BY <4>1
      <4> QED
        BY <1>1, <4>2
    <3> QED
      BY <3>1, <3>2
  <2>3. rank[start] <= n
    BY <1>1, <1>2
  <2> DEFINE m == n
  <2>4. m \in Nat /\ rank[start] <= m
    BY <1>1, <2>3
  <2> HIDE DEF S, rank, start, turn, m
  <2>5. Descends(turn, S, rank)
    BY <1>5, <2>1, <2>2 DEF Descends
  <2>6. \E q \in S : turn[q] = q /\ After(m, turn, start) = q.slice
    BY <1>2, <2>4, <2>5, LoopEnds
  <2> QED
    BY <2>6 DEF m
<1>7. HeapInit(at, since, h) = p.slice
  BY <1>6 DEF HeapInit
<1>8. p.at = 0
  <2> SUFFICES ASSUME p.at # 0 PROVE FALSE
    OBVIOUS
  <2>1. turn[p].at = p.at - 1 /\ p.at \in 0..n
    BY <1>3
  <2> QED
    BY <1>1, <1>6, <2>1
<1>9. p.slice \in Seq(Tasks) /\ Len(p.slice) = n /\ Range(p.slice) = Range(h)
  BY DEF SameEntries, Loop
<1>10. HeapFrom(at, since, p.slice, 0 + 1, n)
  BY <1>8
<1> QED
  BY <1>7, <1>9, <1>10 DEF IsHeap

\* What NewQueue hands to heap.Init: a slice with one entry for each of finitely
\* many tasks has all of them.
LEMMA SliceOfAll ==
  ASSUME NEW L \in SUBSET Tasks, IsFiniteSet(L), NEW slice \in SetToSeqs(L)
  PROVE  slice \in Seq(Tasks) /\ Range(slice) = L
<1> DEFINE n == Cardinality(L)
<1>1. n \in Nat
  BY FS_CardinalityType
<1>2. slice \in [1..n -> L] /\ \A i, j \in 1..n : i # j => slice[i] # slice[j]
  BY DEF SetToSeqs
<1> HIDE DEF n
<1>3. slice \in Injection(1..n, L)
  BY <1>2 DEF Injection, IsInjective
<1>4. IsFiniteSet(1..n) /\ Cardinality(1..n) = n
  BY <1>1, FS_Interval
<1>5. slice \in Surjection(1..n, L)
  BY <1>3, <1>4, FS_Injection DEF n
<1>6. Range(slice) = L
  BY <1>2, <1>5 DEF Range, Surjection
<1> QED
  BY <1>1, <1>2, <1>6

----------------------------------------------------------------------------
\* The inductive invariant.

\* Until a key changes under an entry, the whole slice is a heap: the root is
\* the soonest only because every parent comes before its children.
Ordered == ~rekeyed => IsHeap(availableAt, enqueuedAt, ready)

\* A task that no Enqueue has inserted is not on the heap, so taking its
\* EnqueuedAt disturbs nothing.
Unseen == \A t \in Tasks : life[t] \in {"new", "built"} => t \notin OnHeap

\* A task that can be retried has not used up more than its retries.
WithinBudget == \A t \in Tasks : life[t] # "dead" => retries[t] <= MaxRetries

\* Finitely many tasks have ever been built.
FinitelyMany == IsFiniteSet({t \in Tasks : life[t] # "new"})

HeapInv ==
  /\ TypeOK /\ Ordered /\ NoEntryFallsOut /\ Unseen /\ WithinBudget /\ FinitelyMany

LEMMA InitHeapInv == Init => HeapInv
<1> SUFFICES ASSUME Init PROVE HeapInv
  OBVIOUS
<1>1. TypeOK
  <2>1. ready \in Seq(Tasks) /\ inflight \subseteq Tasks
    BY DEF Init
  <2>2. /\ availableAt \in [Tasks -> 0..MaxTime] /\ enqueuedAt \in [Tasks -> 0..MaxTime]
        /\ retries \in [Tasks -> 0..(MaxRetries + 1)] /\ now \in 1..MaxTime
        /\ late \in 0..MaxLate /\ revivals \in 0..MaxRevivals /\ restarts \in 0..MaxRestarts
    BY HeapAssumption DEF Init
  <2>3. life \in [Tasks -> {"new", "built", "live", "dead", "gone"}]
    BY DEF Init
  <2>4. rekeyed \in BOOLEAN
    BY DEF Init
  <2> QED
    BY <2>1, <2>2, <2>3, <2>4 DEF TypeOK
<1>2. Ordered
  BY DEF Init, Ordered, IsHeap, HeapFrom
<1>3. NoEntryFallsOut /\ Unseen
  BY DEF Init, NoEntryFallsOut, Unseen, OnHeap, Range
<1>4. WithinBudget
  BY HeapAssumption DEF Init, WithinBudget
<1>5. FinitelyMany
  <2>1. {t \in Tasks : life[t] # "new"} = {}
    BY DEF Init
  <2> QED
    BY <2>1, FS_EmptySet DEF FinitelyMany
<1> QED
  BY <1>1, <1>2, <1>3, <1>4, <1>5 DEF HeapInv

\* A heap stays one while the keys of its entries do.
LEMMA SameKeysSameHeap ==
  ASSUME NEW at, NEW since, NEW at2, NEW since2, NEW h \in Seq(Tasks),
         \A t \in Range(h) : at2[t] = at[t] /\ since2[t] = since[t],
         IsHeap(at, since, h)
  PROVE  IsHeap(at2, since2, h)
<1> SUFFICES ASSUME NEW i \in 2..Len(h), i \div 2 >= 1
             PROVE  ~Less(at2, since2, h[i], h[i \div 2])
  BY DEF IsHeap, HeapFrom
<1>1. i \in 1..Len(h) /\ i \div 2 \in 1..Len(h)
  BY Halves
<1>2. h[i] \in Range(h) /\ h[i \div 2] \in Range(h)
  BY <1>1 DEF Range
<1>3. ~Less(at, since, h[i], h[i \div 2])
  BY DEF IsHeap, HeapFrom
<1> QED
  BY <1>2, <1>3 DEF Less

\* One more task that has been built leaves them finitely many.
LEMMA OneMoreTask ==
  ASSUME FinitelyMany, life \in [Tasks -> {"new", "built", "live", "dead", "gone"}],
         NEW t \in Tasks, \A s \in Tasks : s # t => (life'[s] # "new" => life[s] # "new")
  PROVE  FinitelyMany'
<1> DEFINE A == {s \in Tasks : life[s] # "new"}
           B == {s \in Tasks : life'[s] # "new"}
<1>1. IsFiniteSet(A \cup {t})
  BY FS_AddElement DEF FinitelyMany
<1>2. B \in SUBSET (A \cup {t})
  OBVIOUS
<1>3. IsFiniteSet(B)
  <2> HIDE DEF A, B
  <2> QED
    BY <1>1, <1>2, FS_Subset
<1> QED
  BY <1>3 DEF FinitelyMany

\* AvailableAt changes and the task is pushed: the heap gains the task and loses
\* nothing, and stays a heap unless the task was on it.
LEMMA RepushKeeps ==
  ASSUME TypeOK, Ordered, NEW t \in Tasks, NEW x \in 0..MaxTime, Repush(t, x)
  PROVE  /\ availableAt' \in Keys /\ ready' \in Seq(Tasks) /\ rekeyed' \in BOOLEAN
         /\ Range(ready') = Range(ready) \cup {t}
         /\ ~rekeyed' => IsHeap(availableAt', enqueuedAt, ready')
<1>1. availableAt \in Keys /\ enqueuedAt \in Keys /\ ready \in Seq(Tasks)
  BY DEF TypeOK, Keys
<1>2. availableAt' \in Keys
  BY <1>1 DEF Repush, Keys
<1>3. ready' = Push(availableAt', enqueuedAt, ready, t)
  BY DEF Repush
<1>4. rekeyed' = (rekeyed \/ t \in OnHeap)
  BY DEF Repush
<1>5. rekeyed' \in BOOLEAN
  BY <1>4
<1> DEFINE at == availableAt'
<1> HIDE DEF at
<1>6. /\ Push(at, enqueuedAt, ready, t) \in Seq(Tasks)
      /\ Range(Push(at, enqueuedAt, ready, t)) = Range(ready) \cup {t}
      /\ IsHeap(at, enqueuedAt, ready) => IsHeap(at, enqueuedAt, Push(at, enqueuedAt, ready, t))
  <2>1. at \in Keys
    BY <1>2 DEF at
  <2> QED
    BY <1>1, <2>1, PushKeepsTheHeap
<1>7. ASSUME ~rekeyed'
      PROVE  IsHeap(at, enqueuedAt, ready)
  <2>1. ~rekeyed /\ t \notin Range(ready)
    BY <1>4, <1>7 DEF OnHeap
  <2>2. IsHeap(availableAt, enqueuedAt, ready)
    BY <2>1 DEF Ordered
  <2>3. \A s \in Range(ready) : at[s] = availableAt[s]
    <3>1. \A s \in Range(ready) : s \in Tasks
      BY <1>1 DEF Range
    <3> QED
      BY <1>1, <2>1, <3>1 DEF Repush, at, Keys
  <2> QED
    BY <1>1, <2>2, <2>3, SameKeysSameHeap
<1> QED
  BY <1>2, <1>3, <1>5, <1>6, <1>7 DEF at

LEMMA EnqueueKeepsHeapInv ==
  ASSUME HeapInv, NEW t \in Tasks, EnqueueBuilds(t) \/ EnqueueInserts(t)
  PROVE  HeapInv'
<1> USE DEF counters
<1>1. TypeOK /\ Ordered /\ NoEntryFallsOut /\ Unseen /\ WithinBudget /\ FinitelyMany
  BY DEF HeapInv
<1>2. ready \in Seq(Tasks) /\ availableAt \in Keys /\ enqueuedAt \in Keys
  BY <1>1 DEF TypeOK, Keys
<1>3. \A s \in Tasks : s # t => life'[s] = life[s]
  BY <1>1 DEF TypeOK, EnqueueBuilds, EnqueueInserts
<1>4. FinitelyMany'
  <2>1. life \in [Tasks -> {"new", "built", "live", "dead", "gone"}]
    BY <1>1 DEF TypeOK
  <2> QED
    BY <1>1, <1>3, <2>1, OneMoreTask
<1>5. WithinBudget'
  <2>1. life[t] # "dead" /\ retries' = retries
    BY DEF EnqueueBuilds, EnqueueInserts
  <2> QED
    BY <1>1, <1>3, <2>1 DEF WithinBudget
<1>6. CASE EnqueueBuilds(t)
  <2>1. /\ life[t] = "new" /\ life'[t] = "built" /\ ready' = ready /\ availableAt' = availableAt
        /\ inflight' = inflight /\ rekeyed' = rekeyed
        /\ enqueuedAt' = [enqueuedAt EXCEPT ![t] = now]
    BY <1>1, <1>6 DEF EnqueueBuilds, TypeOK
  <2>2. TypeOK'
    BY <1>1, <1>6 DEF TypeOK, EnqueueBuilds
  <2>3. t \notin Range(ready)
    BY <1>1, <2>1 DEF Unseen, OnHeap
  <2>4. Ordered'
    <3>1. \A s \in Range(ready) : s \in Tasks
      BY <1>2 DEF Range
    <3>2. \A s \in Range(ready) : availableAt'[s] = availableAt[s] /\ enqueuedAt'[s] = enqueuedAt[s]
      BY <1>2, <2>1, <2>3, <3>1 DEF Keys
    <3>3. ASSUME ~rekeyed
          PROVE  IsHeap(availableAt', enqueuedAt', ready)
      <4>1. IsHeap(availableAt, enqueuedAt, ready)
        BY <1>1, <3>3 DEF Ordered
      <4> QED
        BY <1>2, <3>2, <4>1, SameKeysSameHeap
    <3> QED
      BY <2>1, <3>3 DEF Ordered, IsHeap
  <2>5. NoEntryFallsOut' /\ Unseen'
    BY <1>1, <1>3, <2>1, <2>3 DEF NoEntryFallsOut, Unseen, OnHeap
  <2> QED
    BY <1>4, <1>5, <2>2, <2>4, <2>5 DEF HeapInv
<1>7. CASE EnqueueInserts(t)
  <2>1. /\ life[t] = "built" /\ life'[t] = "live" /\ availableAt' = availableAt
        /\ inflight' = inflight /\ rekeyed' = rekeyed /\ enqueuedAt' = enqueuedAt
        /\ ready' = Push(availableAt, enqueuedAt, ready, t)
    BY <1>1, <1>7 DEF EnqueueInserts, TypeOK
  <2>2. /\ ready' \in Seq(Tasks) /\ Range(ready') = Range(ready) \cup {t}
        /\ IsHeap(availableAt, enqueuedAt, ready) => IsHeap(availableAt, enqueuedAt, ready')
    <3> DEFINE w == Push(availableAt, enqueuedAt, ready, t)
    <3>1. /\ w \in Seq(Tasks) /\ Range(w) = Range(ready) \cup {t}
          /\ IsHeap(availableAt, enqueuedAt, ready) => IsHeap(availableAt, enqueuedAt, w)
      BY <1>2, PushKeepsTheHeap
    <3> HIDE DEF w
    <3>2. ready' = w
      BY <2>1 DEF w
    <3> QED
      BY <3>1, <3>2
  <2>3. TypeOK'
    BY <1>1, <1>7, <2>2 DEF TypeOK, EnqueueInserts
  <2>4. Ordered'
    BY <1>1, <2>1, <2>2 DEF Ordered, IsHeap
  <2>5. NoEntryFallsOut' /\ Unseen'
    BY <1>1, <1>3, <2>1, <2>2 DEF NoEntryFallsOut, Unseen, OnHeap
  <2> QED
    BY <1>4, <1>5, <2>3, <2>4, <2>5 DEF HeapInv
<1> QED
  BY <1>6, <1>7

LEMMA DequeueKeepsHeapInv ==
  ASSUME HeapInv, Dequeue
  PROVE  HeapInv'
<1> USE DEF counters
<1>1. TypeOK /\ Ordered /\ NoEntryFallsOut /\ Unseen /\ WithinBudget /\ FinitelyMany
  BY DEF HeapInv
<1>2. ready \in Seq(Tasks) /\ availableAt \in Keys /\ enqueuedAt \in Keys /\ ready # <<>>
  BY <1>1 DEF TypeOK, Keys, Dequeue
<1>3. /\ ready' = Pop(ready) /\ inflight' = inflight \cup {ready[1]} /\ life' = life
      /\ availableAt' = availableAt /\ enqueuedAt' = enqueuedAt /\ rekeyed' = rekeyed
      /\ retries' = retries
  BY DEF Dequeue
<1>4. /\ ready' \in Seq(Tasks) /\ Range(ready') \subseteq Range(ready)
      /\ Range(ready) \subseteq Range(ready') \cup {ready[1]}
      /\ IsHeap(availableAt, enqueuedAt, ready) => IsHeap(availableAt, enqueuedAt, ready')
  BY <1>2, <1>3, PopKeepsTheHeap
<1>5. ready[1] \in Tasks
  BY <1>2
<1>6. TypeOK'
  BY <1>1, <1>4, <1>5 DEF TypeOK, Dequeue
<1>7. Ordered'
  BY <1>1, <1>3, <1>4 DEF Ordered, IsHeap
<1>8. NoEntryFallsOut' /\ Unseen'
  BY <1>1, <1>3, <1>4 DEF NoEntryFallsOut, Unseen, OnHeap
<1>9. WithinBudget' /\ FinitelyMany'
  BY <1>1, <1>3 DEF WithinBudget, FinitelyMany
<1> QED
  BY <1>6, <1>7, <1>8, <1>9 DEF HeapInv

\* Ack and a fatal Retry take the task out and leave its entries on the heap.
LEMMA SettleKeepsHeapInv ==
  ASSUME HeapInv, NEW t \in Tasks, Ack(t) \/ RetryDies(t)
  PROVE  HeapInv'
<1>1. TypeOK /\ Ordered /\ NoEntryFallsOut /\ Unseen /\ WithinBudget /\ FinitelyMany
  BY DEF HeapInv
<1>2. /\ Calls(t) /\ life[t] = "live" /\ life'[t] \in {"gone", "dead"}
      /\ \A s \in Tasks : s # t => life'[s] = life[s]
      /\ life' \in [Tasks -> {"new", "built", "live", "dead", "gone"}]
  BY <1>1 DEF TypeOK, Ack, RetryDies, Calls
<1>3. /\ ready' = ready /\ availableAt' = availableAt /\ enqueuedAt' = enqueuedAt
      /\ rekeyed' = rekeyed /\ inflight' = inflight \ {t} /\ now' = now
      /\ revivals' = revivals /\ restarts' = restarts
  BY DEF Ack, RetryDies, Calls
<1>4. late' \in 0..MaxLate
  BY <1>1, <1>2, HeapAssumption DEF Calls, TypeOK
<1>5. retries[t] \in 0..MaxRetries /\ retries \in [Tasks -> 0..(MaxRetries + 1)]
  BY <1>1, <1>2, HeapAssumption DEF TypeOK, WithinBudget
<1>6. /\ retries' \in [Tasks -> 0..(MaxRetries + 1)]
      /\ \A s \in Tasks : s # t => retries'[s] = retries[s]
      /\ life'[t] = "gone" => retries'[t] = retries[t]
  <2>1. CASE Ack(t)
    BY <1>5, <2>1 DEF Ack
  <2>2. CASE RetryDies(t)
    <3>1. retries' = [retries EXCEPT ![t] = @ + 1] /\ life'[t] = "dead"
      BY <1>1, <2>2 DEF RetryDies, TypeOK
    <3>2. retries[t] + 1 \in 0..(MaxRetries + 1)
      BY <1>5, HeapAssumption
    <3> QED
      BY <1>5, <3>1, <3>2
  <2> QED
    BY <2>1, <2>2
<1>7. TypeOK'
  BY <1>1, <1>2, <1>3, <1>4, <1>6 DEF TypeOK
<1>8. Ordered'
  BY <1>1, <1>3 DEF Ordered, IsHeap
<1>9. NoEntryFallsOut' /\ Unseen'
  BY <1>1, <1>2, <1>3 DEF NoEntryFallsOut, Unseen, OnHeap
<1>10. WithinBudget'
  BY <1>1, <1>2, <1>6 DEF WithinBudget
<1>11. FinitelyMany'
  <2>1. life \in [Tasks -> {"new", "built", "live", "dead", "gone"}]
    BY <1>1 DEF TypeOK
  <2> QED
    BY <1>1, <1>2, <2>1, OneMoreTask
<1> QED
  BY <1>7, <1>8, <1>9, <1>10, <1>11 DEF HeapInv

\* What Retry and RequeueDead share: the task is live and pushed under a new
\* AvailableAt, with its retries within the budget.
LEMMA RepushKeepsHeapInv ==
  ASSUME HeapInv, NEW t \in Tasks, NEW x \in 0..MaxTime, Repush(t, x),
         life[t] \in {"live", "dead"},
         life' = [life EXCEPT ![t] = "live"],
         retries' \in [Tasks -> 0..(MaxRetries + 1)],
         \A s \in Tasks : s # t => retries'[s] = retries[s],
         retries'[t] <= MaxRetries,
         inflight' = inflight \/ inflight' = inflight \ {t},
         enqueuedAt' = enqueuedAt, now' = now,
         late' \in 0..MaxLate, revivals' \in 0..MaxRevivals, restarts' \in 0..MaxRestarts
  PROVE  HeapInv'
<1>1. TypeOK /\ Ordered /\ NoEntryFallsOut /\ Unseen /\ WithinBudget /\ FinitelyMany
  BY DEF HeapInv
<1>2. /\ availableAt' \in Keys /\ ready' \in Seq(Tasks) /\ rekeyed' \in BOOLEAN
      /\ Range(ready') = Range(ready) \cup {t}
      /\ ~rekeyed' => IsHeap(availableAt', enqueuedAt, ready')
  BY <1>1, RepushKeeps
<1>3. /\ life \in [Tasks -> {"new", "built", "live", "dead", "gone"}]
      /\ life' \in [Tasks -> {"new", "built", "live", "dead", "gone"}]
      /\ life'[t] = "live" /\ \A s \in Tasks : s # t => life'[s] = life[s]
  BY <1>1 DEF TypeOK
<1>4. TypeOK'
  <2>1. inflight' \subseteq Tasks /\ now' \in 1..MaxTime /\ enqueuedAt' \in [Tasks -> 0..MaxTime]
    BY <1>1 DEF TypeOK
  <2> QED
    BY <1>2, <1>3, <2>1 DEF TypeOK, Keys
<1>5. Ordered'
  BY <1>2 DEF Ordered, IsHeap
<1>6. NoEntryFallsOut' /\ Unseen'
  BY <1>1, <1>2, <1>3 DEF NoEntryFallsOut, Unseen, OnHeap
<1>7. WithinBudget'
  BY <1>1, <1>3 DEF WithinBudget
<1>8. FinitelyMany'
  BY <1>1, <1>3, OneMoreTask
<1> QED
  BY <1>4, <1>5, <1>6, <1>7, <1>8 DEF HeapInv

LEMMA RetryKeepsHeapInv ==
  ASSUME HeapInv, NEW t \in Tasks, Retry(t)
  PROVE  HeapInv'
<1>1. TypeOK /\ WithinBudget
  BY DEF HeapInv
<1>2. Calls(t) /\ life[t] = "live" /\ retries[t] + 1 <= MaxRetries
  BY DEF Retry, Calls
<1>3. PICK d \in Backoff(retries[t]) : Repush(t, now + d)
  BY DEF Retry
<1>4. now + d \in 0..MaxTime
  <2>1. d \in Nat /\ now + d <= MaxTime
    BY DEF Backoff
  <2>2. now \in Nat
    BY <1>1, HeapAssumption DEF TypeOK
  <2> QED
    BY <2>1, <2>2, HeapAssumption
<1>5. late' \in 0..MaxLate
  BY <1>1, <1>2, HeapAssumption DEF Calls, TypeOK
<1>6. /\ retries \in [Tasks -> 0..(MaxRetries + 1)] /\ retries[t] \in Nat
      /\ retries' = [retries EXCEPT ![t] = @ + 1]
  BY <1>1, HeapAssumption DEF TypeOK, Retry
<1>7. /\ retries' \in [Tasks -> 0..(MaxRetries + 1)] /\ retries'[t] <= MaxRetries
      /\ \A s \in Tasks : s # t => retries'[s] = retries[s]
  <2>1. retries[t] + 1 \in 0..(MaxRetries + 1)
    BY <1>2, <1>6, HeapAssumption
  <2> QED
    BY <1>2, <1>6, <2>1
<1>8. /\ life' = [life EXCEPT ![t] = "live"] /\ inflight' = inflight \ {t}
      /\ enqueuedAt' = enqueuedAt /\ now' = now
  BY <1>1, <1>2 DEF Retry, TypeOK
<1>9. revivals' \in 0..MaxRevivals /\ restarts' \in 0..MaxRestarts
  BY <1>1, <1>2 DEF Calls, TypeOK
<1> HIDE DEF Repush
<1> QED
  BY <1>2, <1>3, <1>4, <1>5, <1>7, <1>8, <1>9, RepushKeepsHeapInv

LEMMA RequeueDeadKeepsHeapInv ==
  ASSUME HeapInv, NEW t \in Tasks, RequeueDead(t)
  PROVE  HeapInv'
<1>1. TypeOK
  BY DEF HeapInv
<1>2. /\ life[t] = "dead" /\ Repush(t, 0) /\ 0 \in 0..MaxTime
      /\ life' = [life EXCEPT ![t] = "live"] /\ inflight' = inflight
      /\ enqueuedAt' = enqueuedAt /\ now' = now
  BY HeapAssumption DEF RequeueDead
<1>3. /\ retries' \in [Tasks -> 0..(MaxRetries + 1)] /\ retries'[t] <= MaxRetries
      /\ \A s \in Tasks : s # t => retries'[s] = retries[s]
  <2>1. retries \in [Tasks -> 0..(MaxRetries + 1)] /\ retries' = [retries EXCEPT ![t] = 0]
    BY <1>1 DEF TypeOK, RequeueDead
  <2>2. 0 \in 0..(MaxRetries + 1) /\ 0 <= MaxRetries
    BY HeapAssumption
  <2> QED
    BY <2>1, <2>2
<1>4. late' \in 0..MaxLate /\ revivals' \in 0..MaxRevivals /\ restarts' \in 0..MaxRestarts
  BY <1>1, HeapAssumption DEF TypeOK, RequeueDead
<1> QED
  BY <1>2, <1>3, <1>4, RepushKeepsHeapInv

\* heap.Init makes a heap of what replay leaves, in whatever order: one entry
\* for each live task.
LEMMA RestartKeepsHeapInv ==
  ASSUME HeapInv, Restart
  PROVE  HeapInv'
<1>1. TypeOK /\ Unseen /\ WithinBudget /\ FinitelyMany
  BY DEF HeapInv
<1>2. PICK logged \in SUBSET {t \in Tasks : life[t] = "built"} :
        LET live == {t \in Tasks : life[t] = "live"} \cup logged
        IN  /\ life' = [t \in Tasks |-> IF t \in live THEN "live"
                                        ELSE IF life[t] = "built" THEN "gone"
                                        ELSE life[t]]
            /\ availableAt' = [t \in Tasks |-> IF retries[t] > 0 THEN now ELSE 0]
            /\ \E slice \in SetToSeqs(live) :
                 ready' = HeapInit(availableAt', enqueuedAt, slice)
  BY DEF Restart
<1> DEFINE live == {t \in Tasks : life[t] = "live"} \cup logged
           at   == availableAt'
<1>3. /\ life' = [t \in Tasks |-> IF t \in live THEN "live"
                                  ELSE IF life[t] = "built" THEN "gone" ELSE life[t]]
      /\ at = [t \in Tasks |-> IF retries[t] > 0 THEN now ELSE 0]
  BY <1>2
<1>4. PICK slice \in SetToSeqs(live) : ready' = HeapInit(at, enqueuedAt, slice)
  BY <1>2
<1>5. live \in SUBSET Tasks /\ \A t \in live : life[t] \in {"live", "built"}
  OBVIOUS
<1>6. \A t \in Tasks : life[t] = "live" => t \in live
  OBVIOUS
<1> HIDE DEF live
<1>7. IsFiniteSet(live)
  <2> DEFINE A == {t \in Tasks : life[t] # "new"}
  <2>1. live \in SUBSET A
    BY <1>5
  <2>2. IsFiniteSet(A)
    BY <1>1 DEF FinitelyMany
  <2> HIDE DEF A
  <2> QED
    BY <2>1, <2>2, FS_Subset
<1>8. slice \in Seq(Tasks) /\ Range(slice) = live
  BY <1>4, <1>5, <1>7, SliceOfAll
<1>9. at \in Keys /\ enqueuedAt \in Keys /\ now \in 0..MaxTime
  <2>1. now \in 0..MaxTime /\ 0 \in 0..MaxTime /\ enqueuedAt \in Keys
    BY <1>1, HeapAssumption DEF TypeOK, Keys
  <2> QED
    BY <1>3, <2>1 DEF Keys
<1>10. /\ enqueuedAt' = enqueuedAt /\ retries' = retries /\ now' = now /\ inflight' = {}
       /\ rekeyed' = FALSE /\ late' = late /\ revivals' = revivals /\ restarts' \in 0..MaxRestarts
  BY <1>1, HeapAssumption DEF Restart, TypeOK
<1>11. availableAt' = at
  OBVIOUS
<1> HIDE DEF at
<1>12. ready' \in Seq(Tasks) /\ Range(ready') = live /\ IsHeap(at, enqueuedAt, ready')
  <2> DEFINE w == HeapInit(at, enqueuedAt, slice)
  <2>1. w \in Seq(Tasks) /\ Range(w) = Range(slice) /\ IsHeap(at, enqueuedAt, w)
    BY <1>8, <1>9, HeapInitMakesAHeap
  <2>2. ready' = w
    BY <1>4
  <2> HIDE DEF w
  <2> QED
    BY <1>8, <2>1, <2>2
<1>13. /\ life \in [Tasks -> {"new", "built", "live", "dead", "gone"}]
       /\ \A t \in Tasks : life'[t] = IF t \in live THEN "live"
                                      ELSE IF life[t] = "built" THEN "gone" ELSE life[t]
  BY <1>1, <1>3 DEF TypeOK
<1>14. life' \in [Tasks -> {"new", "built", "live", "dead", "gone"}]
  BY <1>3, <1>13
<1>15. TypeOK'
  <2>1. rekeyed' \in BOOLEAN /\ inflight' \subseteq Tasks
    BY <1>10
  <2>2. /\ retries' \in [Tasks -> 0..(MaxRetries + 1)] /\ now' \in 1..MaxTime
        /\ late' \in 0..MaxLate /\ revivals' \in 0..MaxRevivals
    BY <1>1, <1>10 DEF TypeOK
  <2> QED
    BY <1>9, <1>10, <1>11, <1>12, <1>14, <2>1, <2>2 DEF TypeOK, Keys
<1>16. Ordered'
  BY <1>10, <1>11, <1>12 DEF Ordered, IsHeap
<1>17. NoEntryFallsOut' /\ Unseen'
  BY <1>6, <1>12, <1>13 DEF NoEntryFallsOut, Unseen, OnHeap
<1>18. WithinBudget'
  BY <1>1, <1>5, <1>10, <1>13 DEF WithinBudget
<1>19. FinitelyMany'
  <2>1. {t \in Tasks : life'[t] # "new"} = {t \in Tasks : life[t] # "new"}
    BY <1>5, <1>13
  <2> QED
    BY <1>1, <2>1 DEF FinitelyMany
<1> QED
  BY <1>15, <1>16, <1>17, <1>18, <1>19 DEF HeapInv

LEMMA TickKeepsHeapInv ==
  ASSUME HeapInv, Tick
  PROVE  HeapInv'
<1>1. TypeOK'
  BY HeapAssumption DEF HeapInv, TypeOK, Tick, counters
<1>2. (Ordered /\ NoEntryFallsOut /\ Unseen /\ WithinBudget /\ FinitelyMany)'
  BY DEF HeapInv, Tick, Ordered, IsHeap, NoEntryFallsOut, Unseen, OnHeap, WithinBudget,
         FinitelyMany
<1> QED
  BY <1>1, <1>2 DEF HeapInv

LEMMA StepKeepsHeapInv == HeapInv /\ [Next]_vars => HeapInv'
<1> SUFFICES ASSUME HeapInv, [Next]_vars PROVE HeapInv'
  OBVIOUS
<1>1. CASE \E t \in Tasks : EnqueueBuilds(t) \/ EnqueueInserts(t)
  BY <1>1, EnqueueKeepsHeapInv
<1>2. CASE \E t \in Tasks : Ack(t) \/ RetryDies(t)
  BY <1>2, SettleKeepsHeapInv
<1>3. CASE \E t \in Tasks : Retry(t)
  BY <1>3, RetryKeepsHeapInv
<1>4. CASE \E t \in Tasks : RequeueDead(t)
  BY <1>4, RequeueDeadKeepsHeapInv
<1>5. CASE Dequeue
  BY <1>5, DequeueKeepsHeapInv
<1>6. CASE Restart
  BY <1>6, RestartKeepsHeapInv
<1>7. CASE Tick
  BY <1>7, TickKeepsHeapInv
<1>8. CASE UNCHANGED vars
  <2>1. TypeOK'
    BY <1>8 DEF HeapInv, TypeOK, vars
  <2>2. (Ordered /\ NoEntryFallsOut /\ Unseen /\ WithinBudget /\ FinitelyMany)'
    BY <1>8 DEF HeapInv, vars, Ordered, IsHeap, NoEntryFallsOut, Unseen, OnHeap, WithinBudget,
                FinitelyMany
  <2> QED
    BY <2>1, <2>2 DEF HeapInv
<1> QED
  BY <1>1, <1>2, <1>3, <1>4, <1>5, <1>6, <1>7, <1>8 DEF Next

----------------------------------------------------------------------------
\* Theorems.

\* The inductive invariant: types, the whole slice a heap until a key changes
\* under an entry, no live task off the heap and not in flight, tasks not yet
\* inserted off the heap, retries within the budget, finitely many tasks built.
THEOREM HeapInvariance == Spec => []HeapInv
<1> QED
  BY InitHeapInv, StepKeepsHeapInv, PTL DEF Spec

\* Every reachable state is well typed: the loops of up, down and Init never
\* leave the slice, and no task counts more than MaxRetries + 1 retries.
THEOREM HeapTypeCorrect == Spec => []TypeOK
<1>1. HeapInv => TypeOK
  BY DEF HeapInv
<1> QED
  BY <1>1, HeapInvariance, PTL

\* "If the root is not yet due, nothing is" (heap.go): after any pushes, pops and
\* restarts of a heap of any size, no entry comes before the root, unless a late
\* Retry or a revival has changed a key under an entry since the last restart.
THEOREM RootIsTheSoonest == Spec => []RootIsSoonest
<1>1. HeapInv => RootIsSoonest
  <2> SUFFICES ASSUME HeapInv, ~rekeyed
               PROVE  \A i \in 2..Len(ready) :
                        ~Less(availableAt, enqueuedAt, ready[i], ready[1])
    BY DEF RootIsSoonest
  <2>1. availableAt \in Keys /\ enqueuedAt \in Keys /\ ready \in Seq(Tasks)
    BY DEF HeapInv, TypeOK, Keys
  <2>2. IsHeap(availableAt, enqueuedAt, ready)
    BY DEF HeapInv, Ordered
  <2> QED
    BY <2>1, <2>2, RootFirst
<1> QED
  BY <1>1, HeapInvariance, PTL

\* No operation on a heap of any size drops an entry: a live task is on the heap
\* or in flight, though keys change under entries and tasks are pushed twice.
THEOREM NoEntryIsDropped == Spec => []NoEntryFallsOut
<1>1. HeapInv => NoEntryFallsOut
  BY DEF HeapInv
<1> QED
  BY <1>1, HeapInvariance, PTL
============================================================================
