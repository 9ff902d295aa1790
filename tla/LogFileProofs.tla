--------------------------- MODULE LogFileProofs ---------------------------
(***************************************************************************)
(* What recovery reads from a damaged log, for records of any number and   *)
(* size, torn anywhere: the codec gives back what it was given and rejects *)
(* what was cut, and a checksum is found only where a frame was written,   *)
(* so that Replay is always at the start of a frame or about to stop.      *)
(*                                                                         *)
(* The loops of the code are recursive functions; that they exist, and     *)
(* what they return, is shown by looking for the first turn at which the   *)
(* claim fails (LeastNatural).                                             *)
(***************************************************************************)
EXTENDS LogFile, WellFoundedInduction, TLAPS

----------------------------------------------------------------------------
\* Loops.

\* A set of natural numbers that is not empty has a least element.
LEMMA LeastNatural ==
  ASSUME NEW T, T \subseteq Nat, T # {}
  PROVE  \E n \in T : \A m \in T : n <= m
<1> DEFINE R == OpToRel(<, Nat)
<1>1. IsWellFoundedOn(R, Nat)
  BY NatLessThanWellFounded, Zenon
<1>2. \A m, n \in Nat : <<m, n>> \in R <=> m < n
  BY DEF OpToRel
<1> HIDE DEF R
<1>3. PICK n \in T : \A m \in T : ~(<<m, n>> \in R)
  BY <1>1, WFMin
<1>4. ASSUME NEW m \in T
      PROVE  n <= m
  <2>1. m \in Nat /\ n \in Nat /\ ~(m < n)
    BY <1>2, <1>3
  <2> QED
    BY <2>1
<1> QED
  BY <1>4

\* What holds before the first turn of a loop, and after each turn if it held
\* before it, holds after every turn.
LEMMA Induction ==
  ASSUME NEW n \in Nat, NEW G, 0 \in G, \A k \in 1..n : k - 1 \in G => k \in G
  PROVE  \A k \in 0..n : k \in G
<1> DEFINE T == {k \in 0..n : k \notin G}
<1>1. T = {}
  <2> SUFFICES ASSUME T # {} PROVE FALSE
    OBVIOUS
  <2>1. T \subseteq Nat
    OBVIOUS
  <2>2. PICK k \in T : \A m \in T : k <= m
    <3> HIDE DEF T
    <3> QED
      BY <2>1, LeastNatural
  <2>3. k \in 0..n /\ k \notin G /\ k # 0
    OBVIOUS
  <2>4. k \in 1..n /\ k - 1 \in 0..n /\ ~(k <= k - 1)
    BY <2>3
  <2>5. k - 1 \in G
    BY <2>2, <2>4
  <2> QED
    BY <2>3, <2>4, <2>5
<1> QED
  BY <1>1

\* A loop stays where each of its turns stays.
LEMMA LoopStays ==
  ASSUME NEW n \in Nat, NEW S, NEW g, g[0] \in S,
         \A k \in 1..n : g[k - 1] \in S => g[k] \in S
  PROVE  \A k \in 0..n : g[k] \in S
<1> DEFINE G == {k \in 0..n : g[k] \in S}
<1>1. 0 \in G /\ \A k \in 1..n : k - 1 \in G => k \in G
  OBVIOUS
<1>2. \A k \in 0..n : k \in G
  <2> HIDE DEF G
  <2> QED
    BY <1>1, Induction
<1> QED
  BY <1>2

\* The values of a loop of n turns that starts with start.
Turns(n, S, step, start, f) ==
  /\ f \in [0..n -> S]
  /\ f[0] = start
  /\ \A k \in 1..n : f[k] = step[k][f[k - 1]]

\* Every loop of the codec and of Replay has its values.
LEMMA LoopExists ==
  ASSUME NEW n \in Nat, NEW S, NEW start \in S, NEW step \in [1..n -> [S -> S]]
  PROVE  \E f : Turns(n, S, step, start, f)
<1> DEFINE G == {m \in 0..n : \E f : Turns(m, S, step, start, f)}
<1>1. 0 \in G
  <2>1. Turns(0, S, step, start, [j \in 0..0 |-> start])
    BY DEF Turns
  <2> QED
    BY <2>1
<1>2. ASSUME NEW k \in 1..n, k - 1 \in G
      PROVE  k \in G
  <2>1. PICK f : Turns(k - 1, S, step, start, f)
    BY <1>2
  <2> DEFINE g == [j \in 0..k |-> IF j < k THEN f[j] ELSE step[k][f[k - 1]]]
  <2>2. f \in [0..(k - 1) -> S] /\ f[0] = start
    BY <2>1 DEF Turns
  <2>3. \A j \in 1..(k - 1) : f[j] = step[j][f[j - 1]]
    BY <2>1 DEF Turns
  <2>4. f[k - 1] \in S
    BY <2>2
  <2>5. step[k][f[k - 1]] \in S
    BY <2>4
  <2>6. g \in [0..k -> S] /\ g[0] = start
    BY <2>2, <2>5
  <2>7. ASSUME NEW j \in 1..k
        PROVE  g[j] = step[j][g[j - 1]]
    BY <2>3
  <2>8. Turns(k, S, step, start, g)
    <3> HIDE DEF g
    <3> QED
      BY <2>6, <2>7 DEF Turns
  <2> QED
    BY <2>8
<1>3. \A k \in 0..n : k \in G
  <2>1. \A k \in 1..n : k - 1 \in G => k \in G
    BY <1>2
  <2> HIDE DEF G
  <2> QED
    BY <1>1, <2>1, Induction
<1> QED
  BY <1>3

----------------------------------------------------------------------------
\* Numbers.

\* What division by the base leaves.
LEMMA Digits ==
  ASSUME NEW x \in Nat
  PROVE  /\ x \div Base \in Nat /\ x % Base \in 0..(Base - 1)
         /\ x = (x \div Base) * Base + (x % Base)
BY SizeAssumption

IsPower(f) == f = [k \in 0..Width |-> IF k = 0 THEN 1 ELSE f[k - 1] * Base]

\* The powers of the base up to Limit.
LEMMA Powers ==
  \E f : /\ IsPower(f) /\ f[Width] = Limit /\ f[0] = 1
         /\ f \in [0..Width -> Nat \ {0}]
         /\ \A k \in 1..Width : f[k] = f[k - 1] * Base
<1> USE SizeAssumption
<1> DEFINE S == Nat \ {0}
           step == [k \in 1..Width |-> [x \in S |-> x * Base]]
<1>1. step \in [1..Width -> [S -> S]]
  <2>1. \A x \in S : x * Base \in S
    OBVIOUS
  <2> QED
    BY <2>1
<1>2. \E f : Turns(Width, S, step, 1, f)
  <2>1. 1 \in S /\ Width \in Nat
    OBVIOUS
  <2> HIDE DEF S, step
  <2> QED
    BY <1>1, <2>1, LoopExists
<1>3. PICK f : Turns(Width, S, step, 1, f)
  BY <1>2
<1>4. f \in [0..Width -> S] /\ f[0] = 1
  BY <1>3 DEF Turns
<1>5. ASSUME NEW k \in 1..Width
      PROVE  f[k] = f[k - 1] * Base
  <2>1. f[k] = step[k][f[k - 1]]
    BY <1>3 DEF Turns
  <2>2. f[k - 1] \in S
    BY <1>4
  <2> QED
    BY <2>1, <2>2
<1>6. IsPower(f)
  <2>1. f = [k \in 0..Width |-> f[k]]
    BY <1>4
  <2>2. \A k \in 0..Width : f[k] = IF k = 0 THEN 1 ELSE f[k - 1] * Base
    BY <1>4, <1>5
  <2> QED
    BY <2>1, <2>2 DEF IsPower
<1> DEFINE p == CHOOSE g : IsPower(g)
<1>7. IsPower(p) /\ Limit = p[Width]
  <2>1. IsPower(p)
    BY <1>6
  <2>2. Limit = p[Width]
    BY DEF Limit, IsPower
  <2> QED
    BY <2>1, <2>2
<1> HIDE DEF p
<1>8. /\ p[0] = 1 /\ p = [k \in 0..Width |-> p[k]]
      /\ \A k \in 1..Width : p[k] = p[k - 1] * Base
  BY <1>7 DEF IsPower
<1>9. \A k \in 0..Width : p[k] \in S
  <2>1. \A x \in S : x * Base \in S
    OBVIOUS
  <2>2. p[0] \in S /\ Width \in Nat
    BY <1>8
  <2> HIDE DEF S
  <2>3. \A k \in 1..Width : p[k - 1] \in S => p[k] \in S
    BY <1>8, <2>1
  <2> QED
    BY <2>2, <2>3, LoopStays
<1>10. p \in [0..Width -> S]
  BY <1>8, <1>9
<1> QED
  BY <1>7, <1>8, <1>10

\* Limit is a number, and not 0.
LEMMA LimitIsANumber == Limit \in Nat \ {0}
BY Powers, SizeAssumption

IsShifted(n, f) == f = [k \in 0..Width |-> IF k = 0 THEN n ELSE f[k - 1] \div Base]

\* The digits of a number are those of what is left of it after each shift.
LEMMA Shifts ==
  ASSUME NEW n \in Nat
  PROVE  \E f : /\ f \in [0..Width -> Nat] /\ f[0] = n
                /\ \A k \in 1..Width : f[k] = f[k - 1] \div Base
                /\ PutUint32(n) = [i \in 1..Width |-> Byte(f[Width - i] % Base)]
<1> USE SizeAssumption
<1> DEFINE step == [k \in 1..Width |-> [x \in Nat |-> x \div Base]]
<1>1. step \in [1..Width -> [Nat -> Nat]] /\ Width \in Nat
  BY Digits
<1>2. \E f : Turns(Width, Nat, step, n, f)
  <2> HIDE DEF step
  <2> QED
    BY <1>1, LoopExists
<1>3. PICK f : Turns(Width, Nat, step, n, f)
  BY <1>2
<1>4. f \in [0..Width -> Nat] /\ f[0] = n
  BY <1>3 DEF Turns
<1>5. ASSUME NEW k \in 1..Width
      PROVE  f[k] = f[k - 1] \div Base
  <2>1. f[k] = step[k][f[k - 1]]
    BY <1>3 DEF Turns
  <2>2. f[k - 1] \in Nat
    BY <1>4
  <2> QED
    BY <2>1, <2>2
<1>6. IsShifted(n, f)
  <2>1. f = [k \in 0..Width |-> f[k]]
    BY <1>4
  <2>2. \A k \in 0..Width : f[k] = IF k = 0 THEN n ELSE f[k - 1] \div Base
    BY <1>4, <1>5
  <2> QED
    BY <2>1, <2>2 DEF IsShifted
<1> DEFINE p == CHOOSE g : IsShifted(n, g)
<1>7. IsShifted(n, p)
  BY <1>6
<1>8. PutUint32(n) = [i \in 1..Width |-> Byte(p[Width - i] % Base)]
  BY DEF PutUint32, IsShifted
<1> HIDE DEF p
<1>9. /\ p[0] = n /\ p = [k \in 0..Width |-> p[k]]
      /\ \A k \in 1..Width : p[k] = p[k - 1] \div Base
  <2>1. p = [k \in 0..Width |-> IF k = 0 THEN n ELSE p[k - 1] \div Base]
    BY <1>7, Zenon DEF IsShifted
  <2>2. \A k \in 0..Width : p[k] = IF k = 0 THEN n ELSE p[k - 1] \div Base
    BY <2>1, Zenon
  <2>3. 0 \in 0..Width /\ \A k \in 1..Width : k \in 0..Width /\ k # 0
    OBVIOUS
  <2>4. p[0] = n /\ \A k \in 1..Width : p[k] = p[k - 1] \div Base
    BY <2>2, <2>3, Zenon
  <2>5. p = [k \in 0..Width |-> p[k]]
    BY <2>1, Zenon
  <2> QED
    BY <2>4, <2>5, Zenon
<1>10. \A k \in 0..Width : p[k] \in Nat
  <2>1. \A k \in 1..Width : p[k - 1] \in Nat => p[k] \in Nat
    BY <1>9, Digits
  <2> QED
    BY <1>9, <2>1, LoopStays
<1>11. p \in [0..Width -> Nat]
  BY <1>9, <1>10
<1> QED
  BY <1>8, <1>9, <1>11

IsValue(tokens, f) ==
  f = [k \in 0..Len(tokens) |-> IF k = 0 THEN 0 ELSE f[k - 1] * Base + tokens[k][1]]

\* Tokens that are bytes.
Bytes == {Byte(d) : d \in Nat}

\* A number is read digit by digit.
LEMMA Values ==
  ASSUME NEW tokens \in Seq(Bytes)
  PROVE  \E f : /\ f \in [0..Len(tokens) -> Nat] /\ f[0] = 0
                /\ \A k \in 1..Len(tokens) : f[k] = f[k - 1] * Base + tokens[k][1]
                /\ Uint32(tokens) = f[Len(tokens)]
<1> USE SizeAssumption
<1> DEFINE n == Len(tokens)
           step == [k \in 1..n |-> [x \in Nat |-> x * Base + tokens[k][1]]]
<1>0. n \in Nat /\ \A k \in 1..n : tokens[k] \in Bytes
  OBVIOUS
<1>1. \A k \in 1..n : IsByte(tokens[k]) /\ tokens[k][1] \in Nat
  BY <1>0 DEF Bytes, Byte, IsByte
<1>2. ASSUME NEW k \in 1..n, NEW x \in Nat
      PROVE  x * Base + tokens[k][1] \in Nat
  BY <1>1
<1>3. step \in [1..n -> [Nat -> Nat]]
  BY <1>2
<1>4. \E f : Turns(n, Nat, step, 0, f)
  <2> HIDE DEF step, n
  <2> QED
    BY <1>0, <1>3, LoopExists
<1>5. PICK f : Turns(n, Nat, step, 0, f)
  BY <1>4
<1>6. f \in [0..n -> Nat] /\ f[0] = 0
  BY <1>5 DEF Turns
<1>7. ASSUME NEW k \in 1..n
      PROVE  f[k] = f[k - 1] * Base + tokens[k][1]
  <2>1. f[k] = step[k][f[k - 1]]
    BY <1>5 DEF Turns
  <2>2. f[k - 1] \in Nat
    BY <1>6
  <2> QED
    BY <2>1, <2>2
<1>8. IsValue(tokens, f)
  <2>1. f = [k \in 0..n |-> f[k]]
    BY <1>6
  <2>2. \A k \in 0..n : f[k] = IF k = 0 THEN 0 ELSE f[k - 1] * Base + tokens[k][1]
    BY <1>6, <1>7
  <2> QED
    BY <2>1, <2>2 DEF IsValue
<1> DEFINE p == CHOOSE g : IsValue(tokens, g)
<1>9. IsValue(tokens, p)
  BY <1>8
<1>10. Uint32(tokens) = p[n]
  <2>1. \A k \in 1..Len(tokens) : IsByte(tokens[k])
    BY <1>1
  <2> QED
    BY <2>1 DEF Uint32, IsValue
<1> HIDE DEF p
<1>11. /\ p[0] = 0 /\ p = [k \in 0..n |-> p[k]]
       /\ \A k \in 1..n : p[k] = p[k - 1] * Base + tokens[k][1]
  BY <1>9, <1>0 DEF IsValue
<1>12. \A k \in 0..n : p[k] \in Nat
  <2>1. \A k \in 1..n : p[k - 1] \in Nat => p[k] \in Nat
    BY <1>11, <1>2
  <2>2. p[0] \in Nat
    BY <1>11
  <2> HIDE DEF n
  <2> QED
    BY <1>0, <2>1, <2>2, LoopStays
<1>13. p \in [0..n -> Nat]
  BY <1>11, <1>12
<1> QED
  BY <1>10, <1>11, <1>13

\* A number is read as it was put, if it is a uint32.
LEMMA NumberRoundTrip ==
  ASSUME NEW n \in 0..(Limit - 1)
  PROVE  /\ PutUint32(n) \in Seq({Byte(d) : d \in 0..(Base - 1)})
         /\ Len(PutUint32(n)) = Width
         /\ Uint32(PutUint32(n)) = n
<1> USE SizeAssumption
<1>1. PICK power : /\ power[Width] = Limit /\ power[0] = 1
                   /\ power \in [0..Width -> Nat \ {0}]
                   /\ \A k \in 1..Width : power[k] = power[k - 1] * Base
  BY Powers
<1>2. n \in Nat /\ Limit \in Nat /\ n < Limit
  BY <1>1
<1>3. PICK shifted : /\ shifted \in [0..Width -> Nat] /\ shifted[0] = n
                     /\ \A k \in 1..Width : shifted[k] = shifted[k - 1] \div Base
                     /\ PutUint32(n) = [i \in 1..Width |-> Byte(shifted[Width - i] % Base)]
  BY <1>2, Shifts
<1>4. ASSUME NEW i \in 1..Width
      PROVE  shifted[Width - i] \in Nat /\ shifted[Width - i] % Base \in 0..(Base - 1)
  <2>1. Width - i \in 0..Width
    OBVIOUS
  <2>2. shifted[Width - i] \in Nat
    BY <1>3, <2>1
  <2> QED
    BY <2>2, Digits
<1> DEFINE put == PutUint32(n)
<1>5. put \in [1..Width -> {Byte(d) : d \in 0..(Base - 1)}]
  BY <1>3, <1>4
<1>6. put \in Seq({Byte(d) : d \in 0..(Base - 1)}) /\ Len(put) = Width
  <2> HIDE DEF put
  <2> QED
    BY <1>5
<1>7. put \in Seq(Bytes)
  <2>1. {Byte(d) : d \in 0..(Base - 1)} \subseteq Bytes
    BY DEF Bytes
  <2>2. put \in [1..Width -> Bytes]
    BY <1>5, <2>1
  <2> HIDE DEF put
  <2> QED
    BY <2>2
<1>8. PICK value : /\ value \in [0..Width -> Nat] /\ value[0] = 0
                   /\ \A k \in 1..Width : value[k] = value[k - 1] * Base + put[k][1]
                   /\ Uint32(put) = value[Width]
  <2> HIDE DEF put
  <2> QED
    BY <1>6, <1>7, Values
<1>9. \A k \in 1..Width : put[k][1] = shifted[Width - k] % Base
  BY <1>3 DEF Byte
<1>10. shifted[Width] = 0
  <2> DEFINE G == {k \in 0..Width : shifted[k] < power[Width - k]}
  <2>1. 0 \in G
    BY <1>1, <1>2, <1>3
  <2>2. ASSUME NEW k \in 1..Width, k - 1 \in G
        PROVE  k \in G
    <3> DEFINE x == shifted[k - 1]
               y == power[Width - k]
    <3>1. /\ Width - (k - 1) \in 1..Width /\ Width - (k - 1) - 1 = Width - k
          /\ Width - k \in 0..Width /\ k - 1 \in 0..Width
      OBVIOUS
    <3>2. power[Width - (k - 1)] = y * Base /\ y \in Nat
      BY <1>1, <3>1
    <3>3. x \in Nat /\ x < y * Base
      BY <2>2, <3>1, <3>2, <1>3
    <3>4. shifted[k] = x \div Base
      BY <1>3
    <3> HIDE DEF x, y
    <3>5. x \div Base < y
      <4>1. x \div Base \in Nat /\ x % Base \in Nat /\ x = (x \div Base) * Base + (x % Base)
        BY <3>3, Digits
      <4> QED
        BY <3>2, <3>3, <4>1
    <3> QED
      BY <3>4, <3>5 DEF y
  <2>3. \A k \in 0..Width : k \in G
    <3>1. \A k \in 1..Width : k - 1 \in G => k \in G
      BY <2>2
    <3> HIDE DEF G
    <3> QED
      BY <2>1, <3>1, Induction
  <2>4. shifted[Width] < power[0] /\ shifted[Width] \in Nat
    BY <2>3, <1>3
  <2>5. power[0] = 1
    BY <1>1
  <2> QED
    BY <2>4, <2>5
<1>11. \A k \in 0..Width : value[k] = shifted[Width - k]
  <2> DEFINE G == {k \in 0..Width : value[k] = shifted[Width - k]}
  <2>1. 0 \in G
    BY <1>8, <1>10
  <2>2. ASSUME NEW k \in 1..Width, k - 1 \in G
        PROVE  k \in G
    <3> DEFINE x == shifted[Width - k]
    <3>1. /\ Width - (k - 1) \in 1..Width /\ Width - (k - 1) - 1 = Width - k
          /\ Width - k \in 0..Width
      OBVIOUS
    <3>2. x \in Nat /\ shifted[Width - (k - 1)] = x \div Base
      BY <1>3, <3>1
    <3>3. value[k - 1] = x \div Base
      BY <2>2, <3>2
    <3>4. value[k] = (x \div Base) * Base + (x % Base)
      BY <1>8, <1>9, <3>3
    <3>5. x = (x \div Base) * Base + (x % Base)
      BY <3>2, Digits
    <3>6. value[k] = shifted[Width - k]
      BY <3>4, <3>5
    <3> QED
      BY <3>6
  <2>3. \A k \in 1..Width : k - 1 \in G => k \in G
    BY <2>2
  <2>4. \A k \in 0..Width : k \in G
    <3> HIDE DEF G
    <3> QED
      BY <2>1, <2>3, Induction
  <2> QED
    BY <2>4
<1>12. Uint32(put) = n
  BY <1>8, <1>11, <1>3
<1> QED
  BY <1>6, <1>12

----------------------------------------------------------------------------
\* Sequences.

\* Sequences of the same length with the same elements are the same.
LEMMA SameSequence ==
  ASSUME NEW S, NEW s \in Seq(S), NEW t \in Seq(S), Len(s) = Len(t),
         \A i \in 1..Len(s) : s[i] = t[i]
  PROVE  s = t
<1>1. s = [i \in 1..Len(s) |-> s[i]] /\ t = [i \in 1..Len(t) |-> t[i]]
  OBVIOUS
<1> QED
  BY <1>1

\* A sequence of elements of S is one of elements of more than S.
LEMMA WiderSeq ==
  ASSUME NEW S, NEW T, S \subseteq T, NEW s \in Seq(S)
  PROVE  s \in Seq(T)
<1>1. Len(s) \in Nat /\ s = [i \in 1..Len(s) |-> s[i]] /\ \A i \in 1..Len(s) : s[i] \in T
  OBVIOUS
<1>2. s \in [1..Len(s) -> T]
  BY <1>1
<1> QED
  BY <1>1, <1>2

\* p are the n elements of s behind the first m.
IsPart(p, S, s, m, n) ==
  p \in Seq(S) /\ Len(p) = n /\ \A i \in 1..n : p[i] = s[m + i]

\* What SubSeq returns.
LEMMA Part ==
  ASSUME NEW S, NEW s \in Seq(S), NEW m \in Nat, NEW n \in Nat, m + n <= Len(s)
  PROVE  IsPart(SubSeq(s, m + 1, m + n), S, s, m, n)
<1>1. SubSeq(s, m + 1, m + n) \in Seq(S) /\ Len(SubSeq(s, m + 1, m + n)) = n
  OBVIOUS
<1>2. ASSUME NEW i \in 1..n
      PROVE  SubSeq(s, m + 1, m + n)[i] = s[m + i]
  OBVIOUS
<1> QED
  BY <1>1, <1>2 DEF IsPart

\* j is s with t behind it.
IsJoin(j, S, s, t) ==
  /\ j \in Seq(S) /\ Len(j) = Len(s) + Len(t)
  /\ Len(s) \in Nat /\ Len(t) \in Nat
  /\ \A i \in 1..Len(s) : j[i] = s[i]
  /\ \A i \in 1..Len(t) : j[Len(s) + i] = t[i]

\* What concatenation returns.
LEMMA Joined ==
  ASSUME NEW S, NEW s \in Seq(S), NEW t \in Seq(S)
  PROVE  IsJoin(s \o t, S, s, t)
<1>1. \A i \in 1..Len(t) : (s \o t)[Len(s) + i] = t[i]
  OBVIOUS
<1> QED
  BY <1>1 DEF IsJoin

----------------------------------------------------------------------------
\* Tokens.

\* The tokens of a record.
Plain == Bytes \cup {UUID(n) : n \in Nat} \cup {UnixNano(n) : n \in Nat}

\* The tokens of a file.
Token == Plain \cup {<<-3, b>> : b \in Seq(Plain)}

\* A checksum is no token of a record, and two checksums are of the same body
\* if they are the same.
LEMMA Tokens ==
  /\ \A t \in Plain : \A b : t # <<-3, b>>
  /\ \A t \in Token : IsByte(t) => t \in Bytes
  /\ Zero \in Bytes /\ Bytes \subseteq Plain /\ Plain \subseteq Token
<1>1. ASSUME NEW t \in Plain, NEW b
      PROVE  t # <<-3, b>>
  BY DEF Plain, Bytes, Byte, UUID, UnixNano
<1>2. ASSUME NEW t \in Token, IsByte(t)
      PROVE  t \in Bytes
  <2> SUFFICES ASSUME t \notin Bytes PROVE FALSE
    OBVIOUS
  <2>1. \/ \E n \in Nat : t = <<-1, n>>
        \/ \E n \in Nat : t = <<-2, n>>
        \/ \E b \in Seq(Plain) : t = <<-3, b>>
    BY DEF Token, Plain, UUID, UnixNano
  <2>2. \A x, y : Len(<<x, y>>) = 2
    OBVIOUS
  <2>3. Len(t) = 2
    BY <2>1, <2>2
  <2> QED
    BY <1>2, <2>3 DEF IsByte
<1>3. Zero \in Bytes /\ Bytes \subseteq Plain /\ Plain \subseteq Token
  BY DEF Plain, Token, Bytes, Zero
<1> QED
  BY <1>1, <1>2, <1>3

\* Whatever stands where a number is expected is read as a number, and as 0
\* only if it is made of zeros.
LEMMA AnyNumber ==
  ASSUME NEW tokens \in Seq(Token)
  PROVE  /\ Uint32(tokens) \in Nat
         /\ Uint32(tokens) = 0 => \A i \in 1..Len(tokens) : tokens[i] = Zero
<1> USE SizeAssumption
<1>1. CASE \A i \in 1..Len(tokens) : IsByte(tokens[i])
  <2> DEFINE n == Len(tokens)
  <2>1. n \in Nat /\ \A i \in 1..n : tokens[i] \in Bytes
    BY <1>1, Tokens
  <2>2. tokens \in Seq(Bytes)
    BY <2>1
  <2>3. PICK value : /\ value \in [0..n -> Nat] /\ value[0] = 0
                     /\ \A k \in 1..n : value[k] = value[k - 1] * Base + tokens[k][1]
                     /\ Uint32(tokens) = value[n]
    BY <2>2, Values
  <2> HIDE DEF n
  <2>4. ASSUME NEW k \in 1..n, value[k] = 0
        PROVE  value[k - 1] = 0 /\ tokens[k] = Zero
    <3>1. PICK d \in Nat : tokens[k] = Byte(d)
      BY <2>1 DEF Bytes
    <3>2. tokens[k][1] = d
      BY <3>1 DEF Byte
    <3>3. value[k - 1] \in Nat /\ value[k - 1] * Base + d = 0
      <4>1. k - 1 \in 0..n
        BY <2>1
      <4>2. value[k - 1] \in Nat
        BY <2>3, <4>1
      <4>3. value[k] = value[k - 1] * Base + d
        BY <2>3, <3>2
      <4> QED
        BY <2>4, <4>2, <4>3
    <3>4. value[k - 1] * Base \in Nat
      BY <3>3
    <3>5. d = 0 /\ value[k - 1] * Base = 0
      BY <3>3, <3>4
    <3>6. value[k - 1] = 0
      BY <3>3, <3>5
    <3> QED
      BY <3>1, <3>5, <3>6 DEF Zero
  <2>5. ASSUME value[n] = 0
        PROVE  \A k \in 0..n : value[k] = 0
    <3> DEFINE G == {j \in 0..n : value[n - j] = 0}
    <3>1. 0 \in G
      BY <2>1, <2>5
    <3>2. ASSUME NEW j \in 1..n, j - 1 \in G
          PROVE  j \in G
      <4>1. n - (j - 1) \in 1..n /\ n - (j - 1) - 1 = n - j
        BY <2>1
      <4>2. value[n - (j - 1)] = 0
        BY <3>2
      <4>3. value[n - j] = 0
        BY <2>4, <4>1, <4>2
      <4> QED
        BY <4>3
    <3>3. \A j \in 1..n : j - 1 \in G => j \in G
      BY <3>2
    <3>4. \A j \in 0..n : j \in G
      <4> HIDE DEF G
      <4> QED
        BY <2>1, <3>1, <3>3, Induction
    <3>5. ASSUME NEW k \in 0..n
          PROVE  value[k] = 0
      <4>1. n - k \in 0..n /\ n - (n - k) = k
        BY <2>1
      <4> QED
        BY <3>4, <4>1
    <3> QED
      BY <3>5
  <2>6. value[n] = 0 => \A i \in 1..n : tokens[i] = Zero
    <3> SUFFICES ASSUME value[n] = 0, NEW i \in 1..n
                 PROVE  tokens[i] = Zero
      OBVIOUS
    <3>1. value[i] = 0
      BY <2>1, <2>5
    <3> QED
      BY <2>4, <3>1
  <2> QED
    BY <2>1, <2>3, <2>6 DEF n
<1>2. CASE ~ \A i \in 1..Len(tokens) : IsByte(tokens[i])
  <2>1. Uint32(tokens) = Limit
    BY <1>2 DEF Uint32
  <2>2. Limit \in Nat \ {0}
    BY LimitIsANumber
  <2> QED
    BY <2>1, <2>2
<1> QED
  BY <1>1, <1>2

----------------------------------------------------------------------------
\* Fields.

Kinds == {"id", "bytes", "time", "uint32"}

Digit == {Byte(d) : d \in 0..(Base - 1)}

\* What the encoders write for a field of each kind.
LEMMA FieldForms ==
  ASSUME NEW kind \in Kinds, NEW v, IsField(kind, v)
  PROVE  /\ kind \in {"id", "time"} => v \in Plain /\ EncodeField(kind, v) = <<v>>
         /\ kind = "uint32" => \E n \in 0..(Limit - 1) :
              v = <<n>> /\ EncodeField(kind, v) = PutUint32(n)
         /\ kind = "bytes" =>
              /\ v \in Seq(Plain) /\ Len(v) \in 0..(Limit - 1)
              /\ EncodeField(kind, v) = PutUint32(Len(v)) \o v
<1>1. CASE kind \in {"id", "time"}
  <2>1. v \in Plain
    BY <1>1 DEF IsField, Plain
  <2>2. EncodeField(kind, v) = <<v>>
    BY <1>1 DEF EncodeField
  <2> QED
    BY <1>1, <2>1, <2>2
<1>2. CASE kind = "uint32"
  <2>1. v = <<v[1]>> /\ v[1] \in 0..(Limit - 1)
    BY <1>2 DEF IsField
  <2>2. EncodeField(kind, v) = PutUint32(v[1])
    BY <1>2 DEF EncodeField
  <2>3. \E n \in 0..(Limit - 1) : v = <<n>> /\ EncodeField(kind, v) = PutUint32(n)
    BY <2>1, <2>2, Zenon
  <2> QED
    BY <1>2, <2>3
<1>3. CASE kind = "bytes"
  <2>1. v \in Seq(Digit) /\ Len(v) < Limit
    BY <1>3 DEF IsField, Digit
  <2>2. Digit \subseteq Plain
    BY SizeAssumption DEF Digit, Plain, Bytes
  <2>3. v \in Seq(Plain)
    BY <2>1, <2>2, WiderSeq
  <2>4. EncodeField(kind, v) = PutUint32(Len(v)) \o v
    BY <1>3 DEF EncodeField
  <2>5. Limit \in Nat
    BY LimitIsANumber
  <2>6. Len(v) \in 0..(Limit - 1)
    BY <2>1, <2>3, <2>5
  <2> QED
    BY <1>3, <2>3, <2>4, <2>6
<1> QED
  BY <1>1, <1>2, <1>3 DEF Kinds

\* A number takes Width tokens.
LEMMA NumberForm ==
  ASSUME NEW n \in 0..(Limit - 1)
  PROVE  PutUint32(n) \in Seq(Plain) /\ Len(PutUint32(n)) = Width
<1>1. PutUint32(n) \in Seq(Digit) /\ Len(PutUint32(n)) = Width
  BY NumberRoundTrip DEF Digit
<1>2. Digit \subseteq Plain
  BY SizeAssumption DEF Digit, Plain, Bytes
<1> QED
  BY <1>1, <1>2, WiderSeq

\* A field has at least one token, and they are tokens of a record.
LEMMA FieldForm ==
  ASSUME NEW kind \in Kinds, NEW v, IsField(kind, v)
  PROVE  EncodeField(kind, v) \in Seq(Plain) /\ Len(EncodeField(kind, v)) \in Nat \ {0}
<1>1. CASE kind \in {"id", "time"}
  <2>1. v \in Plain /\ EncodeField(kind, v) = <<v>>
    BY <1>1, FieldForms
  <2>2. <<v>> \in Seq(Plain) /\ Len(<<v>>) = 1
    BY <2>1
  <2> QED
    BY <2>1, <2>2
<1>2. CASE kind = "uint32"
  BY <1>2, FieldForms, NumberForm, SizeAssumption
<1>3. CASE kind = "bytes"
  <2>1. /\ v \in Seq(Plain) /\ Len(v) \in 0..(Limit - 1)
        /\ EncodeField(kind, v) = PutUint32(Len(v)) \o v
    BY <1>3, FieldForms
  <2>2. PutUint32(Len(v)) \in Seq(Plain) /\ Len(PutUint32(Len(v))) = Width
    BY <2>1, NumberForm
  <2>3. IsJoin(PutUint32(Len(v)) \o v, Plain, PutUint32(Len(v)), v)
    BY <2>1, <2>2, Joined
  <2> QED
    BY <2>1, <2>2, <2>3, SizeAssumption DEF IsJoin
<1> QED
  BY <1>1, <1>2, <1>3 DEF Kinds

\* The tokens of b behind pos are those of field, as far as b goes.
Follows(b, pos, field) ==
  \A i \in 1..Len(field) : pos + i <= Len(b) => b[pos + i] = field[i]

\* A number that is all there is read back.
LEMMA NumberRead ==
  ASSUME NEW b \in Seq(Plain), NEW pos \in Nat, NEW n \in 0..(Limit - 1),
         pos + Width <= Len(b), \A i \in 1..Width : b[pos + i] = PutUint32(n)[i]
  PROVE  SubSeq(b, pos + 1, pos + Width) = PutUint32(n)
         /\ Uint32(SubSeq(b, pos + 1, pos + Width)) = n
<1> USE SizeAssumption
<1> DEFINE s == SubSeq(b, pos + 1, pos + Width)
           t == PutUint32(n)
<1>1. s \in Seq(Plain) /\ Len(s) = Width /\ \A i \in 1..Width : s[i] = b[pos + i]
  <2>1. Width \in Nat
    OBVIOUS
  <2>2. IsPart(s, Plain, b, pos, Width)
    BY <2>1, Part
  <2> QED
    BY <2>2, Zenon DEF IsPart
<1>2. t \in Seq(Plain) /\ Len(t) = Width
  BY NumberForm
<1>3. \A i \in 1..Width : b[pos + i] = t[i]
  OBVIOUS
<1>4. s = t
  <2> HIDE DEF s, t
  <2> QED
    BY <1>1, <1>2, <1>3, SameSequence
<1> QED
  BY <1>4, NumberRoundTrip

\* What readN returns.
LEMMA ReadNCases ==
  ASSUME NEW b \in Seq(Plain), NEW pos \in Nat, NEW n \in Nat
  PROVE  IF pos + n <= Len(b)
         THEN /\ ReadN(b, pos, n).ok /\ ReadN(b, pos, n).pos = pos + n
              /\ ReadN(b, pos, n).tokens = SubSeq(b, pos + 1, pos + n)
         ELSE ~ReadN(b, pos, n).ok
<1>1. CASE pos + n <= Len(b)
  <2>1. ReadN(b, pos, n) = [ok |-> TRUE, pos |-> pos + n, tokens |-> SubSeq(b, pos + 1, pos + n)]
    BY <1>1 DEF ReadN
  <2> QED
    BY <1>1, <2>1
<1>2. CASE ~(pos + n <= Len(b))
  <2>1. ReadN(b, pos, n) = [ok |-> FALSE, pos |-> pos, tokens |-> <<>>]
    BY <1>2 DEF ReadN
  <2> QED
    BY <1>2, <2>1
<1> QED
  BY <1>1, <1>2

\* A field that is all there is read back as it was written, and one that is
\* not is an error.
LEMMA FieldRead ==
  ASSUME NEW b \in Seq(Plain), NEW pos \in Nat,
         NEW kind \in Kinds, NEW v, IsField(kind, v),
         Follows(b, pos, EncodeField(kind, v))
  PROVE  IF pos + Len(EncodeField(kind, v)) <= Len(b)
         THEN /\ ReadField(b, kind, pos).ok
              /\ ReadField(b, kind, pos).pos = pos + Len(EncodeField(kind, v))
              /\ DecodeField(kind, ReadField(b, kind, pos).tokens) = v
         ELSE ~ReadField(b, kind, pos).ok
<1> USE SizeAssumption
<1> DEFINE F == EncodeField(kind, v)
           r == ReadField(b, kind, pos)
<1>0. Len(b) \in Nat /\ Follows(b, pos, F)
  OBVIOUS
<1>1. CASE kind \in {"id", "time"}
  <2>1. F = <<v>> /\ Len(F) = 1 /\ F[1] = v
    BY <1>1, FieldForms
  <2>2. r = ReadN(b, pos, 1)
    BY <1>1 DEF ReadField
  <2>3. CASE pos + 1 <= Len(b)
    <3>1. b[pos + 1] = v
      BY <1>0, <2>1, <2>3 DEF Follows
    <3>2. r.ok /\ r.pos = pos + 1 /\ r.tokens = SubSeq(b, pos + 1, pos + 1)
      BY <2>2, <2>3, ReadNCases
    <3>3. Len(SubSeq(b, pos + 1, pos + 1)) = 1 /\ SubSeq(b, pos + 1, pos + 1)[1] = b[pos + 1]
      <4>1. IsPart(SubSeq(b, pos + 1, pos + 1), Plain, b, pos, 1)
        BY <2>3, Part
      <4> QED
        BY <4>1 DEF IsPart
    <3>4. r.tokens # <<>> /\ r.tokens[1] = v
      <4>1. Len(r.tokens) = 1 /\ r.tokens[1] = v
        BY <3>1, <3>2, <3>3, Zenon
      <4> HIDE DEF r
      <4> QED
        BY <4>1
    <3>5. DecodeField(kind, r.tokens) = v
      BY <1>1, <3>4 DEF DecodeField
    <3> QED
      BY <2>1, <2>3, <3>2, <3>5
  <2>4. CASE ~(pos + 1 <= Len(b))
    <3>1. ~r.ok
      BY <2>2, <2>4, ReadNCases
    <3> QED
      BY <2>1, <2>4, <3>1
  <2> QED
    BY <2>3, <2>4
<1>2. CASE kind = "uint32"
  <2>1. PICK n \in 0..(Limit - 1) : v = <<n>> /\ F = PutUint32(n)
    BY <1>2, FieldForms
  <2>2. Len(F) = Width
    BY <2>1, NumberForm
  <2>3. r = ReadN(b, pos, Width)
    BY <1>2 DEF ReadField
  <2>4. CASE pos + Width <= Len(b)
    <3>1. \A i \in 1..Width : b[pos + i] = PutUint32(n)[i]
      <4>1. \A i \in 1..Width : i \in 1..Len(F) /\ pos + i <= Len(b)
        BY <1>0, <2>2, <2>4
      <4>2. \A i \in 1..Width : b[pos + i] = F[i]
        BY <1>0, <4>1, Zenon DEF Follows
      <4> QED
        BY <2>1, <4>2, Zenon
    <3>2. r.ok /\ r.pos = pos + Width /\ r.tokens = SubSeq(b, pos + 1, pos + Width)
      BY <2>3, <2>4, ReadNCases
    <3>3. Uint32(r.tokens) = n
      BY <2>4, <3>1, <3>2, NumberRead
    <3>4. DecodeField(kind, r.tokens) = v
      BY <1>2, <2>1, <3>3 DEF DecodeField
    <3> QED
      BY <2>2, <2>4, <3>2, <3>4
  <2>5. CASE ~(pos + Width <= Len(b))
    <3>1. ~r.ok
      BY <2>3, <2>5, ReadNCases
    <3> QED
      BY <2>2, <2>5, <3>1
  <2> QED
    BY <2>4, <2>5
<1>3. CASE kind = "bytes"
  <2>1. /\ v \in Seq(Plain) /\ Len(v) \in 0..(Limit - 1)
        /\ F = PutUint32(Len(v)) \o v
    BY <1>3, FieldForms
  <2> DEFINE n == Len(v)
             P == PutUint32(n)
             prefix == ReadN(b, pos, Width)
  <2>2. P \in Seq(Plain) /\ Len(P) = Width /\ n \in Nat
    BY <2>1, NumberForm
  <2>3. /\ Len(F) = Width + n
        /\ \A i \in 1..Width : F[i] = P[i]
        /\ \A i \in 1..n : F[Width + i] = v[i]
    <3> HIDE DEF P, F
    <3>1. F = P \o v
      BY <2>1 DEF P
    <3>2. IsJoin(P \o v, Plain, P, v)
      BY <2>1, <2>2, Joined
    <3> QED
      BY <2>2, <3>1, <3>2, Zenon DEF IsJoin
  <2>4. r = ReadPrefixed(b, prefix)
    BY <1>3 DEF ReadField
  <2>5. CASE ~(pos + Width <= Len(b))
    <3>1. ~prefix.ok
      BY <2>5, ReadNCases
    <3>2. ~r.ok
      BY <2>4, <3>1 DEF ReadPrefixed
    <3>3. ~(pos + Len(F) <= Len(b))
      BY <1>0, <2>2, <2>3, <2>5
    <3> QED
      BY <3>2, <3>3
  <2>6. CASE pos + Width <= Len(b)
    <3>1. \A i \in 1..Width : b[pos + i] = P[i]
      BY <1>0, <2>2, <2>3, <2>6 DEF Follows
    <3>2. prefix.ok /\ prefix.pos = pos + Width /\ prefix.tokens = SubSeq(b, pos + 1, pos + Width)
      BY <2>6, ReadNCases
    <3>3. Uint32(prefix.tokens) = n
      BY <2>1, <2>6, <3>1, <3>2, NumberRead
    <3>4. r = ReadN(b, pos + Width, n)
      BY <2>4, <3>2, <3>3 DEF ReadPrefixed
    <3> HIDE DEF P, prefix
    <3>5. CASE pos + Width + n <= Len(b)
      <4>1. r.ok /\ r.pos = pos + Width + n /\ r.tokens = SubSeq(b, pos + Width + 1, pos + Width + n)
        <5>1. pos + Width \in Nat /\ (pos + Width) + n <= Len(b)
          BY <3>5
        <5> HIDE DEF n, r
        <5> QED
          BY <2>2, <3>4, <5>1, ReadNCases
      <4>2. /\ r.tokens \in Seq(Plain) /\ Len(r.tokens) = n
            /\ \A i \in 1..n : r.tokens[i] = b[pos + Width + i]
        <5>1. pos + Width \in Nat /\ (pos + Width) + n <= Len(b)
          BY <3>5
        <5>2. IsPart(SubSeq(b, pos + Width + 1, pos + Width + n), Plain, b, pos + Width, n)
          <6> HIDE DEF n
          <6> QED
            BY <2>2, <5>1, Part
        <5> QED
          BY <4>1, <5>2, Zenon DEF IsPart
      <4>3. ASSUME NEW i \in 1..n
            PROVE  r.tokens[i] = v[i]
        <5>1. Width + i \in 1..Len(F) /\ pos + (Width + i) <= Len(b)
              /\ pos + (Width + i) = pos + Width + i
          BY <2>2, <2>3, <3>5
        <5>2. b[pos + (Width + i)] = F[Width + i]
          BY <1>0, <5>1 DEF Follows
        <5> QED
          BY <2>3, <4>2, <5>1, <5>2
      <4>4. r.tokens = v
        <5>1. r.tokens \in Seq(Plain) /\ v \in Seq(Plain) /\ Len(r.tokens) = Len(v)
              /\ \A i \in 1..Len(r.tokens) : r.tokens[i] = v[i]
          BY <2>1, <4>2, <4>3
        <5> HIDE DEF r
        <5> QED
          BY <5>1, SameSequence
      <4>5. DecodeField(kind, r.tokens) = v
        BY <1>3, <4>4 DEF DecodeField
      <4>6. pos + Len(F) <= Len(b) /\ pos + Len(F) = pos + Width + n
        <5> HIDE DEF F, n
        <5> QED
          BY <2>2, <2>3, <3>5
      <4> QED
        BY <4>1, <4>5, <4>6
    <3>6. CASE ~(pos + Width + n <= Len(b))
      <4>1. ~r.ok
        <5>1. pos + Width \in Nat /\ ~((pos + Width) + n <= Len(b))
          BY <3>6
        <5> HIDE DEF n, r
        <5> QED
          BY <2>2, <3>4, <5>1, ReadNCases
      <4> QED
        BY <2>2, <2>3, <3>6, <4>1
    <3> QED
      BY <3>5, <3>6
  <2> QED
    BY <2>5, <2>6
<1> QED
  BY <1>1, <1>2, <1>3 DEF Kinds

----------------------------------------------------------------------------
\* Records.

\* The operation names the fields, the same to the encoder and to the decoder.
LEMMA PayloadKinds ==
  ASSUME NEW r, IsRecord(r)
  PROVE  /\ EncodePayload(r.op) \in Seq(Kinds) /\ Len(EncodePayload(r.op)) \in Nat \ {0}
         /\ DecodePayload(r.op) = EncodePayload(r.op)
         /\ \E tag \in 1..7 :
              /\ tag = CHOOSE i \in DOMAIN OperationType : OperationType[i] = r.op
              /\ OperationType[tag] = r.op
<1>1. r.op \in {"enqueue", "dequeue", "ack", "retry", "dead", "requeue", "purge"}
  BY DEF IsRecord, OperationType
<1> USE DEF EncodePayload, DecodePayload, IDPayload, AckPayload, RetryPayload, RequeuePayload,
            PurgePayload, EncodeEnqueuePayload, DecodeEnqueuePayload, EncodeDequeuePayload,
            DecodeDequeuePayload, EncodeDeadPayload, DecodeDeadPayload
<1>2. /\ DecodePayload(r.op) = EncodePayload(r.op)
      /\ EncodePayload(r.op) \in {<<"id">>, <<"id", "bytes", "bytes", "time", "uint32">>,
                                  <<"id", "time", "bytes">>, <<"id", "uint32", "time">>}
  BY <1>1
<1> HIDE DEF EncodePayload, DecodePayload
<1>3. EncodePayload(r.op) \in Seq(Kinds) /\ Len(EncodePayload(r.op)) \in Nat \ {0}
  <2>1. <<"id">> \in Seq(Kinds) /\ Len(<<"id">>) = 1
    BY DEF Kinds
  <2>2. /\ <<"id", "bytes", "bytes", "time", "uint32">> \in Seq(Kinds)
        /\ Len(<<"id", "bytes", "bytes", "time", "uint32">>) = 5
    BY DEF Kinds
  <2>3. /\ <<"id", "time", "bytes">> \in Seq(Kinds) /\ Len(<<"id", "time", "bytes">>) = 3
        /\ <<"id", "uint32", "time">> \in Seq(Kinds) /\ Len(<<"id", "uint32", "time">>) = 3
    BY DEF Kinds
  <2>4. CASE EncodePayload(r.op) = <<"id">>
    BY <2>1, <2>4
  <2>5. CASE EncodePayload(r.op) = <<"id", "bytes", "bytes", "time", "uint32">>
    BY <2>2, <2>5
  <2>6. CASE EncodePayload(r.op) = <<"id", "time", "bytes">>
    BY <2>3, <2>6
  <2>7. CASE EncodePayload(r.op) = <<"id", "uint32", "time">>
    BY <2>3, <2>7
  <2> QED
    BY <1>2, <2>4, <2>5, <2>6, <2>7
<1>4. DOMAIN OperationType = 1..7
  BY DEF OperationType
<1>5. \E i \in DOMAIN OperationType : OperationType[i] = r.op
  BY DEF IsRecord
<1> QED
  BY <1>2, <1>3, <1>4, <1>5

IsEncoded(kinds, values, f) ==
  f = [k \in 0..Len(kinds) |->
         IF k = 0 THEN <<>> ELSE f[k - 1] \o EncodeField(kinds[k], values[k])]

\* The values are ones the fields can hold.
AreFields(kinds, values) ==
  /\ kinds \in Seq(Kinds)
  /\ \A k \in 1..Len(kinds) : IsField(kinds[k], values[k])

\* f[k] is what the first k fields are encoded as.
Encodings(kinds, values, f) ==
  /\ f \in [0..Len(kinds) -> Seq(Plain)] /\ f[0] = <<>>
  /\ \A k \in 1..Len(kinds) : f[k] = f[k - 1] \o EncodeField(kinds[k], values[k])
  /\ EncodeFields(kinds, values) = f[Len(kinds)]

\* The fields are written one behind the other.
LEMMA Encoded ==
  ASSUME NEW kinds, NEW values, AreFields(kinds, values)
  PROVE  \E f : Encodings(kinds, values, f)
<1> DEFINE n == Len(kinds)
           S == Seq(Plain)
           step == [k \in 1..n |-> [x \in S |-> x \o EncodeField(kinds[k], values[k])]]
<1>0. n \in Nat /\ \A k \in 1..n : kinds[k] \in Kinds /\ IsField(kinds[k], values[k])
  BY DEF AreFields
<1>1. ASSUME NEW k \in 1..n, NEW x \in S
      PROVE  x \o EncodeField(kinds[k], values[k]) \in S
  <2>1. EncodeField(kinds[k], values[k]) \in S
    BY <1>0, FieldForm
  <2> QED
    BY <2>1
<1>2. step \in [1..n -> [S -> S]]
  BY <1>1
<1>3. <<>> \in S
  OBVIOUS
<1>4. \E f : Turns(n, S, step, <<>>, f)
  <2> HIDE DEF n, S, step
  <2> QED
    BY <1>0, <1>2, <1>3, LoopExists
<1>5. PICK f : Turns(n, S, step, <<>>, f)
  BY <1>4
<1>6. f \in [0..n -> S] /\ f[0] = <<>>
  BY <1>5 DEF Turns
<1>7. ASSUME NEW k \in 1..n
      PROVE  f[k] = f[k - 1] \o EncodeField(kinds[k], values[k])
  <2>1. f[k] = step[k][f[k - 1]]
    BY <1>5 DEF Turns
  <2>2. f[k - 1] \in S
    <3>1. k - 1 \in 0..n
      BY <1>0
    <3> HIDE DEF S
    <3> QED
      BY <1>6, <3>1
  <2> HIDE DEF S
  <2> QED
    BY <2>1, <2>2
<1>8. IsEncoded(kinds, values, f)
  <2> HIDE DEF n, S
  <2>1. f = [k \in 0..n |-> f[k]]
    BY <1>6
  <2>2. \A k \in 0..n : f[k] = IF k = 0 THEN <<>> ELSE f[k - 1] \o EncodeField(kinds[k], values[k])
    BY <1>0, <1>6, <1>7
  <2> QED
    BY <2>1, <2>2 DEF IsEncoded, n
<1> DEFINE p == CHOOSE g : IsEncoded(kinds, values, g)
<1>9. IsEncoded(kinds, values, p)
  BY <1>8
<1>10. EncodeFields(kinds, values) = p[n]
  BY DEF EncodeFields, IsEncoded
<1> HIDE DEF p
<1>11. \A k \in 0..n : p[k] = IF k = 0 THEN <<>> ELSE p[k - 1] \o EncodeField(kinds[k], values[k])
  BY <1>9, Zenon DEF IsEncoded
<1>12. p = [k \in 0..n |-> p[k]]
  BY <1>9, Zenon DEF IsEncoded
<1> HIDE DEF n
<1>13. p[0] = <<>> /\ \A k \in 1..n : p[k] = p[k - 1] \o EncodeField(kinds[k], values[k])
  <2>1. 0 \in 0..n /\ \A k \in 1..n : k \in 0..n /\ k # 0
    BY <1>0
  <2> QED
    BY <1>11, <2>1, Zenon
<1>14. \A k \in 0..n : p[k] \in S
  <2>1. \A k \in 1..n : p[k - 1] \in S => p[k] \in S
    BY <1>13, <1>1, Zenon
  <2>2. p[0] \in S
    BY <1>3, <1>13
  <2> HIDE DEF S
  <2> QED
    BY <1>0, <2>1, <2>2, LoopStays
<1>15. p \in [0..n -> S]
  BY <1>12, <1>14, Zenon
<1>16. Encodings(kinds, values, p)
  BY <1>10, <1>13, <1>15, Zenon DEF Encodings, n
<1> QED
  BY <1>16

\* s is what t begins with.
Begins(s, t) == Len(s) <= Len(t) /\ \A i \in 1..Len(s) : s[i] = t[i]

\* What the first fields are encoded as begins the whole encoding.
LEMMA FieldsGrow ==
  ASSUME NEW kinds, NEW values, AreFields(kinds, values), NEW f, Encodings(kinds, values, f)
  PROVE  \A k \in 0..Len(kinds) : Begins(f[k], f[Len(kinds)])
<1> DEFINE n == Len(kinds)
           G == {j \in 0..n : Begins(f[n - j], f[n])}
<1>0. n \in Nat /\ \A k \in 1..n : kinds[k] \in Kinds /\ IsField(kinds[k], values[k])
  BY DEF AreFields
<1>1. /\ f \in [0..n -> Seq(Plain)] /\ f[0] = <<>>
      /\ \A k \in 1..n : f[k] = f[k - 1] \o EncodeField(kinds[k], values[k])
  BY Zenon DEF Encodings
<1> HIDE DEF n
<1>2. 0 \in G
  <2>1. f[n] \in Seq(Plain) /\ n - 0 = n
    BY <1>0, <1>1
  <2>2. Begins(f[n], f[n])
    BY <2>1 DEF Begins
  <2> QED
    BY <1>0, <2>1, <2>2
<1>3. ASSUME NEW j \in 1..n, j - 1 \in G
      PROVE  j \in G
  <2> DEFINE k == n - (j - 1)
             F == EncodeField(kinds[k], values[k])
  <2>1. k \in 1..n /\ k - 1 = n - j /\ k - 1 \in 0..n /\ k \in 0..n /\ n \in 0..n
    BY <1>0
  <2>2. Begins(f[k], f[n])
    BY <1>3
  <2>3. f[k - 1] \in Seq(Plain) /\ f[n] \in Seq(Plain) /\ f[k] = f[k - 1] \o F
    BY <1>1, <2>1
  <2>4. F \in Seq(Plain)
    BY <1>0, <2>1, FieldForm
  <2> HIDE DEF F, k
  <2>5. IsJoin(f[k], Plain, f[k - 1], F)
    BY <2>3, <2>4, Joined
  <2>6. Begins(f[k - 1], f[n])
    BY <2>2, <2>3, <2>4, <2>5 DEF Begins, IsJoin
  <2>7. Begins(f[n - j], f[n])
    BY <2>1, <2>6
  <2> QED
    BY <2>7
<1>4. \A j \in 0..n : j \in G
  <2>1. \A j \in 1..n : j - 1 \in G => j \in G
    BY <1>3
  <2> HIDE DEF G
  <2> QED
    BY <1>0, <1>2, <2>1, Induction
<1>5. ASSUME NEW k \in 0..n
      PROVE  Begins(f[k], f[n])
  <2>1. n - k \in 0..n /\ n - (n - k) = k
    BY <1>0
  <2> QED
    BY <1>4, <2>1
<1> QED
  BY <1>5 DEF n

\* What the decoders read and return, whatever the body holds.
FieldValues == Plain \cup Seq(Plain)
Reads == [ok : BOOLEAN, pos : Nat, tokens : Seq(Plain)]
DecoderStates(op) == [ok : BOOLEAN, op : {op}, pos : Nat, fields : Seq(FieldValues)]

\* Tokens of a record are tokens of a file, and can be read as a number.
LEMMA PlainIsToken ==
  ASSUME NEW tokens \in Seq(Plain)
  PROVE  tokens \in Seq(Token) /\ Uint32(tokens) \in Nat
<1>1. tokens \in Seq(Token)
  BY Tokens, WiderSeq
<1> QED
  BY <1>1, AnyNumber

\* readN returns tokens of the body and a position.
LEMMA ReadNType ==
  ASSUME NEW b \in Seq(Plain), NEW pos \in Nat, NEW n \in Nat
  PROVE  ReadN(b, pos, n) \in Reads
<1>1. CASE pos + n > Len(b)
  BY <1>1 DEF ReadN, Reads
<1>2. CASE ~(pos + n > Len(b))
  <2>1. IsPart(SubSeq(b, pos + 1, pos + n), Plain, b, pos, n)
    BY <1>2, Part
  <2>2. SubSeq(b, pos + 1, pos + n) \in Seq(Plain)
    BY <2>1, Zenon DEF IsPart
  <2>3. pos + n \in Nat
    OBVIOUS
  <2> QED
    BY <1>2, <2>2, <2>3 DEF ReadN, Reads
<1> QED
  BY <1>1, <1>2

\* So does the reading of a field, prefix included.
LEMMA ReadFieldType ==
  ASSUME NEW b \in Seq(Plain), NEW pos \in Nat, NEW kind \in Kinds
  PROVE  ReadField(b, kind, pos) \in Reads
<1> USE SizeAssumption
<1>1. CASE kind = "uint32"
  BY <1>1, ReadNType DEF ReadField
<1>2. CASE kind = "bytes"
  <2> DEFINE prefix == ReadN(b, pos, Width)
  <2>1. ReadField(b, kind, pos) = ReadPrefixed(b, prefix)
    BY <1>2 DEF ReadField
  <2>2. prefix \in Reads
    BY ReadNType
  <2> HIDE DEF prefix
  <2>3. prefix.pos \in Nat /\ prefix.tokens \in Seq(Plain)
    BY <2>2 DEF Reads
  <2>4. Uint32(prefix.tokens) \in Nat
    BY <2>3, PlainIsToken
  <2>5. ReadN(b, prefix.pos, Uint32(prefix.tokens)) \in Reads
    BY <2>3, <2>4, ReadNType
  <2> QED
    BY <2>1, <2>2, <2>5 DEF ReadPrefixed
<1>3. CASE kind \in {"id", "time"}
  BY <1>3, ReadNType DEF ReadField
<1> QED
  BY <1>1, <1>2, <1>3 DEF Kinds

\* A decoded field is a token or a string of bytes.
LEMMA DecodeFieldType ==
  ASSUME NEW kind \in Kinds, NEW tokens \in Seq(Plain)
  PROVE  DecodeField(kind, tokens) \in FieldValues
<1>1. CASE kind = "uint32"
  <2>1. Uint32(tokens) \in Nat
    BY PlainIsToken
  <2>2. <<Uint32(tokens)>> \in Plain
    BY <2>1 DEF Plain, Bytes, Byte
  <2> QED
    BY <1>1, <2>2 DEF DecodeField, FieldValues
<1>2. CASE kind = "bytes"
  BY <1>2 DEF DecodeField, FieldValues
<1>3. CASE kind \in {"id", "time"}
  <2>1. CASE tokens = <<>>
    BY <1>3, <2>1 DEF DecodeField, FieldValues
  <2>2. CASE tokens # <<>>
    <3>1. tokens[1] \in Plain
      BY <2>2
    <3> QED
      BY <1>3, <2>2, <3>1 DEF DecodeField, FieldValues
  <2> QED
    BY <2>1, <2>2
<1> QED
  BY <1>1, <1>2, <1>3 DEF Kinds

\* A decoder goes from one of its states to another.
LEMMA NextFieldType ==
  ASSUME NEW b \in Seq(Plain), NEW kind \in Kinds, NEW op, NEW acc \in DecoderStates(op)
  PROVE  NextField(b, kind, acc) \in DecoderStates(op)
<1> DEFINE r == ReadField(b, kind, acc.pos)
<1>1. acc.pos \in Nat /\ acc.fields \in Seq(FieldValues)
  BY DEF DecoderStates
<1>2. r \in Reads
  BY <1>1, ReadFieldType
<1> HIDE DEF r
<1>3. r.pos \in Nat /\ r.tokens \in Seq(Plain)
  BY <1>2 DEF Reads
<1>4. DecodeField(kind, r.tokens) \in FieldValues
  BY <1>3, DecodeFieldType
<1>5. Append(acc.fields, DecodeField(kind, r.tokens)) \in Seq(FieldValues)
  BY <1>1, <1>4
<1>6. AddField(acc, kind, r) \in DecoderStates(op)
  BY <1>3, <1>5 DEF AddField, DecoderStates
<1> QED
  BY <1>6 DEF NextField, r

IsDecoded(b, op, f) ==
  f = [k \in 0..Len(DecodePayload(op)) |->
         IF k = 0 THEN [ok |-> TRUE, op |-> op, pos |-> 0, fields |-> <<>>]
         ELSE NextField(b, DecodePayload(op)[k], f[k - 1])]

Decodings(b, op, f) ==
  /\ f \in [0..Len(DecodePayload(op)) -> DecoderStates(op)]
  /\ f[0] = [ok |-> TRUE, op |-> op, pos |-> 0, fields |-> <<>>]
  /\ \A k \in 1..Len(DecodePayload(op)) : f[k] = NextField(b, DecodePayload(op)[k], f[k - 1])
  /\ DecodeFields(b, op) = f[Len(DecodePayload(op))]

\* The fields are read one behind the other.
LEMMA Decoded ==
  ASSUME NEW b \in Seq(Plain), NEW op, DecodePayload(op) \in Seq(Kinds)
  PROVE  \E f : Decodings(b, op, f)
<1> DEFINE kinds == DecodePayload(op)
           n == Len(kinds)
           S == DecoderStates(op)
           start == [ok |-> TRUE, op |-> op, pos |-> 0, fields |-> <<>>]
           step == [k \in 1..n |-> [x \in S |-> NextField(b, kinds[k], x)]]
<1>0. n \in Nat /\ \A k \in 1..n : kinds[k] \in Kinds
  <2> HIDE DEF kinds
  <2>1. kinds \in Seq(Kinds)
    BY DEF kinds
  <2> QED
    BY <2>1
<1>1. ASSUME NEW k \in 1..n, NEW x \in S
      PROVE  NextField(b, kinds[k], x) \in S
  BY <1>0, NextFieldType
<1>2. start \in S
  BY DEF DecoderStates
<1> HIDE DEF kinds, n, S, start
<1>3. step \in [1..n -> [S -> S]]
  BY <1>1
<1>4. \E f : Turns(n, S, step, start, f)
  <2> HIDE DEF step
  <2> QED
    BY <1>0, <1>2, <1>3, LoopExists
<1>5. PICK f : Turns(n, S, step, start, f)
  BY <1>4
<1>6. f \in [0..n -> S] /\ f[0] = start
  BY <1>5 DEF Turns
<1>7. ASSUME NEW k \in 1..n
      PROVE  f[k] = NextField(b, kinds[k], f[k - 1])
  <2>1. f[k] = step[k][f[k - 1]]
    BY <1>5 DEF Turns
  <2>2. f[k - 1] \in S
    BY <1>0, <1>6
  <2> QED
    BY <2>1, <2>2
<1>8. IsDecoded(b, op, f)
  <2>1. f = [k \in 0..n |-> f[k]]
    BY <1>6
  <2>2. \A k \in 0..n : f[k] = IF k = 0 THEN start ELSE NextField(b, kinds[k], f[k - 1])
    BY <1>0, <1>6, <1>7
  <2> QED
    BY <2>1, <2>2 DEF IsDecoded, n, kinds, start
<1> DEFINE p == CHOOSE g : IsDecoded(b, op, g)
<1>9. IsDecoded(b, op, p)
  BY <1>8
<1>10. DecodeFields(b, op) = p[n]
  BY DEF DecodeFields, IsDecoded, n, kinds
<1> HIDE DEF p
<1>11. \A k \in 0..n : p[k] = IF k = 0 THEN start ELSE NextField(b, kinds[k], p[k - 1])
  BY <1>9, Zenon DEF IsDecoded, n, kinds, start
<1>12. p = [k \in 0..n |-> p[k]]
  BY <1>9, Zenon DEF IsDecoded, n, kinds
<1>13. p[0] = start /\ \A k \in 1..n : p[k] = NextField(b, kinds[k], p[k - 1])
  <2>1. 0 \in 0..n /\ \A k \in 1..n : k \in 0..n /\ k # 0
    BY <1>0
  <2> QED
    BY <1>11, <2>1, Zenon
<1>14. \A k \in 0..n : p[k] \in S
  <2>1. \A k \in 1..n : p[k - 1] \in S => p[k] \in S
    BY <1>13, <1>1, Zenon
  <2>2. p[0] \in S
    BY <1>2, <1>13
  <2> QED
    BY <1>0, <2>1, <2>2, LoopStays
<1>15. p \in [0..n -> S]
  BY <1>12, <1>14, Zenon
<1>16. Decodings(b, op, p)
  BY <1>10, <1>13, <1>15, Zenon DEF Decodings, n, kinds, start, S
<1> QED
  BY <1>16

\* The fields of a record that are all there are read back as they were
\* written; if the last of them is cut, decoding fails.
LEMMA FieldsRoundTrip ==
  ASSUME NEW r, IsRecord(r), NEW b \in Seq(Plain),
         Begins(b, EncodeFields(EncodePayload(r.op), r.fields))
  PROVE  IF Len(b) = Len(EncodeFields(EncodePayload(r.op), r.fields))
         THEN /\ DecodeFields(b, r.op).ok /\ DecodeFields(b, r.op).op = r.op
              /\ DecodeFields(b, r.op).fields = r.fields
         ELSE ~DecodeFields(b, r.op).ok
<1> DEFINE kinds == EncodePayload(r.op)
           values == r.fields
           n == Len(kinds)
           E == EncodeFields(kinds, values)
<1>1. kinds \in Seq(Kinds) /\ n \in Nat \ {0} /\ DecodePayload(r.op) = kinds
  BY PayloadKinds
<1>2. values = [k \in DOMAIN kinds |-> values[k]]
      /\ \A k \in DOMAIN values : IsField(kinds[k], values[k])
  BY DEF IsRecord
<1>3. Begins(b, E)
  OBVIOUS
<1> HIDE DEF kinds, values, E
<1>4. DOMAIN kinds = 1..n /\ DOMAIN values = 1..n
  BY <1>1, <1>2
<1>5. AreFields(kinds, values)
  BY <1>1, <1>2, <1>4 DEF AreFields
<1>6. PICK enc : Encodings(kinds, values, enc)
  BY <1>5, Encoded
<1>7. \A k \in 0..n : Begins(enc[k], E)
  <2>1. E = enc[n]
    BY <1>6 DEF Encodings, E
  <2>2. \A k \in 0..n : Begins(enc[k], enc[n])
    BY <1>5, <1>6, FieldsGrow
  <2> QED
    BY <2>1, <2>2
<1>8. PICK dec : Decodings(b, r.op, dec)
  BY <1>1, Decoded
<1> HIDE DEF n
<1>9. /\ dec[0] = [ok |-> TRUE, op |-> r.op, pos |-> 0, fields |-> <<>>]
      /\ \A k \in 1..n : dec[k] = NextField(b, kinds[k], dec[k - 1])
      /\ DecodeFields(b, r.op) = dec[n]
  BY <1>1, <1>8 DEF Decodings, n
<1>10. /\ enc \in [0..n -> Seq(Plain)] /\ enc[0] = <<>> /\ E = enc[n]
       /\ \A k \in 1..n : enc[k] = enc[k - 1] \o EncodeField(kinds[k], values[k])
  BY <1>6, Zenon DEF Encodings, n, E
<1> DEFINE Good(k) ==
             IF Len(enc[k]) <= Len(b)
             THEN dec[k] = [ok |-> TRUE, op |-> r.op, pos |-> Len(enc[k]),
                            fields |-> [i \in 1..k |-> values[i]]]
             ELSE ~dec[k].ok
<1>11. Good(0)
  <2>1. Len(enc[0]) = 0 /\ Len(b) \in Nat
    BY <1>10
  <2>2. [i \in 1..0 |-> values[i]] = <<>>
    OBVIOUS
  <2> QED
    BY <1>9, <2>1, <2>2
<1>12. ASSUME NEW k \in 1..n, Good(k - 1)
       PROVE  Good(k)
  <2> DEFINE F == EncodeField(kinds[k], values[k])
             pos == Len(enc[k - 1])
             acc == dec[k - 1]
             read == ReadField(b, kinds[k], pos)
  <2>1. k - 1 \in 0..n /\ k \in 0..n /\ kinds[k] \in Kinds /\ IsField(kinds[k], values[k])
    BY <1>1, <1>2, <1>4 DEF n
  <2>2. F \in Seq(Plain) /\ Len(F) \in Nat \ {0}
    BY <2>1, FieldForm
  <2>3. enc[k - 1] \in Seq(Plain) /\ enc[k] = enc[k - 1] \o F
    BY <1>10, <2>1
  <2> HIDE DEF F
  <2>4. IsJoin(enc[k], Plain, enc[k - 1], F)
    BY <2>2, <2>3, Joined
  <2>5. Len(enc[k]) = pos + Len(F) /\ pos \in Nat /\ Len(b) \in Nat
    BY <2>4 DEF IsJoin
  <2>6. CASE ~(pos <= Len(b))
    <3>1. ~acc.ok
      BY <1>12, <2>6
    <3>2. dec[k] = acc
      BY <1>9, <3>1 DEF NextField
    <3> QED
      BY <2>2, <2>5, <2>6, <3>1, <3>2
  <2>7. CASE pos <= Len(b)
    <3>1. acc = [ok |-> TRUE, op |-> r.op, pos |-> pos,
                 fields |-> [i \in 1..(k - 1) |-> values[i]]]
      BY <1>12, <2>7
    <3>2. dec[k] = AddField(acc, kinds[k], read)
      BY <1>9, <3>1 DEF NextField
    <3>3. Follows(b, pos, F)
      <4> SUFFICES ASSUME NEW i \in 1..Len(F), pos + i <= Len(b)
                   PROVE  b[pos + i] = F[i]
        BY DEF Follows
      <4>1. pos + i \in 1..Len(b) /\ pos + i \in 1..Len(enc[k])
        BY <2>2, <2>5
      <4>2. b[pos + i] = E[pos + i]
        BY <1>3, <4>1 DEF Begins
      <4>3. enc[k][pos + i] = E[pos + i]
        BY <1>7, <2>1, <4>1 DEF Begins
      <4>4. enc[k][pos + i] = F[i]
        BY <2>4 DEF IsJoin
      <4> QED
        BY <4>2, <4>3, <4>4
    <3>4. IF pos + Len(F) <= Len(b)
          THEN read.ok /\ read.pos = pos + Len(F) /\ DecodeField(kinds[k], read.tokens) = values[k]
          ELSE ~read.ok
      BY <2>1, <2>5, <3>3, FieldRead DEF F
    <3> HIDE DEF read, acc, pos
    <3>5. CASE pos + Len(F) <= Len(b)
      <4>1. dec[k] = [acc EXCEPT !.pos = pos + Len(F),
                                 !.fields = Append(acc.fields, values[k])]
        BY <3>2, <3>4, <3>5 DEF AddField
      <4>2. Append([i \in 1..(k - 1) |-> values[i]], values[k]) = [i \in 1..k |-> values[i]]
        OBVIOUS
      <4>3. dec[k] = [ok |-> TRUE, op |-> r.op, pos |-> pos + Len(F),
                      fields |-> [i \in 1..k |-> values[i]]]
        BY <3>1, <4>1, <4>2
      <4> QED
        BY <2>5, <3>5, <4>3
    <3>6. CASE ~(pos + Len(F) <= Len(b))
      <4>1. ~dec[k].ok
        BY <3>1, <3>2, <3>4, <3>6 DEF AddField
      <4> QED
        BY <2>5, <3>6, <4>1
    <3> QED
      BY <3>5, <3>6
  <2> QED
    BY <2>6, <2>7
<1>13. Good(n)
  <2> DEFINE G == {k \in 0..n : Good(k)}
  <2> HIDE DEF Good
  <2>1. 0 \in G /\ n \in Nat
    BY <1>1, <1>11 DEF n
  <2>2. \A k \in 1..n : k - 1 \in G => k \in G
    BY <1>12
  <2>3. \A k \in 0..n : k \in G
    <3> HIDE DEF G
    <3> QED
      BY <2>1, <2>2, Induction
  <2> QED
    BY <2>1, <2>3
<1>14. Len(b) <= Len(E) /\ Len(b) \in Nat /\ Len(E) \in Nat
  BY <1>1, <1>3, <1>10 DEF Begins
<1>15. values = [i \in 1..n |-> values[i]]
  BY <1>2, <1>4
<1>16. CASE Len(b) = Len(E)
  <2>1. dec[n].ok /\ dec[n].op = r.op /\ dec[n].fields = values
    <3>1. Len(enc[n]) <= Len(b)
      BY <1>10, <1>14, <1>16
    <3>2. dec[n] = [ok |-> TRUE, op |-> r.op, pos |-> Len(enc[n]),
                    fields |-> [i \in 1..n |-> values[i]]]
      BY <1>13, <3>1
    <3>3. dec[n].ok /\ dec[n].op = r.op /\ dec[n].fields = [i \in 1..n |-> values[i]]
      BY <3>2
    <3> QED
      BY <1>15, <3>3, Zenon
  <2> QED
    BY <1>9, <1>16, <2>1 DEF E, kinds, values
<1>17. CASE Len(b) # Len(E)
  <2>1. ~dec[n].ok
    BY <1>10, <1>13, <1>14, <1>17
  <2> QED
    BY <1>9, <1>17, <2>1 DEF E, kinds, values
<1> QED
  BY <1>16, <1>17

\* A record is its tag and its fields.
LEMMA RecordForm ==
  ASSUME NEW r, IsRecord(r)
  PROVE  \E tag \in 1..7 :
           /\ OperationType[tag] = r.op
           /\ EncodeFields(EncodePayload(r.op), r.fields) \in Seq(Plain)
           /\ IsJoin(EncodeRecord(r), Plain, <<Byte(tag)>>,
                     EncodeFields(EncodePayload(r.op), r.fields))
<1> DEFINE kinds == EncodePayload(r.op)
           E == EncodeFields(kinds, r.fields)
<1>1. PICK tag \in 1..7 :
        /\ tag = CHOOSE i \in DOMAIN OperationType : OperationType[i] = r.op
        /\ OperationType[tag] = r.op
  BY PayloadKinds
<1>2. kinds \in Seq(Kinds) /\ Len(kinds) \in Nat
  BY PayloadKinds
<1>3. /\ r.fields = [k \in DOMAIN kinds |-> r.fields[k]]
      /\ \A k \in DOMAIN r.fields : IsField(kinds[k], r.fields[k])
  BY DEF IsRecord
<1>4. E \in Seq(Plain)
  <2> HIDE DEF kinds
  <2>1. DOMAIN kinds = 1..Len(kinds) /\ DOMAIN r.fields = 1..Len(kinds)
    BY <1>2, <1>3
  <2>2. AreFields(kinds, r.fields)
    BY <1>2, <1>3, <2>1 DEF AreFields
  <2>3. PICK f : Encodings(kinds, r.fields, f)
    BY <2>2, Encoded
  <2>4. f \in [0..Len(kinds) -> Seq(Plain)] /\ E = f[Len(kinds)]
    BY <2>3, Zenon DEF Encodings
  <2> QED
    BY <1>2, <2>4
<1>5. <<Byte(tag)>> \in Seq(Plain)
  BY DEF Plain, Bytes
<1>6. EncodeRecord(r) = <<Byte(tag)>> \o E
  BY <1>1 DEF EncodeRecord
<1> HIDE DEF E
<1>7. IsJoin(EncodeRecord(r), Plain, <<Byte(tag)>>, E)
  BY <1>4, <1>5, <1>6, Joined
<1> QED
  BY <1>1, <1>4, <1>7 DEF E

\* decodeRecord gives back the record that encodeRecord was given, and fails on
\* every body that was cut short.
LEMMA RecordRoundTrip ==
  ASSUME NEW r, IsRecord(r), NEW body \in Seq(Plain), Begins(body, EncodeRecord(r))
  PROVE  IF Len(body) = Len(EncodeRecord(r))
         THEN /\ DecodeRecord(body).ok /\ DecodeRecord(body).op = r.op
              /\ DecodeRecord(body).fields = r.fields
         ELSE ~DecodeRecord(body).ok
<1> DEFINE E == EncodeFields(EncodePayload(r.op), r.fields)
<1>1. PICK tag \in 1..7 :
        /\ OperationType[tag] = r.op /\ E \in Seq(Plain)
        /\ IsJoin(EncodeRecord(r), Plain, <<Byte(tag)>>, E)
  BY RecordForm
<1> HIDE DEF E
<1>2. /\ Len(EncodeRecord(r)) = 1 + Len(E) /\ Len(E) \in Nat /\ Len(body) \in Nat
      /\ EncodeRecord(r)[1] = Byte(tag)
      /\ \A i \in 1..Len(E) : EncodeRecord(r)[1 + i] = E[i]
  <2>1. Len(<<Byte(tag)>>) = 1 /\ <<Byte(tag)>>[1] = Byte(tag)
    OBVIOUS
  <2> QED
    BY <1>1, <2>1 DEF IsJoin
<1>3. Len(body) <= Len(EncodeRecord(r)) /\ \A i \in 1..Len(body) : body[i] = EncodeRecord(r)[i]
  BY DEF Begins
<1>4. CASE body = <<>>
  <2>1. ~DecodeRecord(body).ok
    BY <1>4 DEF DecodeRecord
  <2>2. Len(body) # Len(EncodeRecord(r))
    BY <1>2, <1>4
  <2> QED
    BY <2>1, <2>2
<1>5. CASE body # <<>>
  <2> DEFINE b == Tail(body)
  <2>1. /\ b \in Seq(Plain) /\ Len(b) = Len(body) - 1 /\ Len(body) \in Nat \ {0}
        /\ \A i \in 1..Len(b) : b[i] = body[1 + i]
    BY <1>5
  <2> HIDE DEF b
  <2>2. body[1] = Byte(tag)
    BY <1>2, <1>3, <2>1
  <2>3. IsByte(body[1]) /\ body[1][1] = tag
    BY <2>2 DEF Byte, IsByte
  <2>4. DOMAIN OperationType = 1..7
    BY DEF OperationType
  <2>5. DecodeRecord(body) = DecodeFields(b, r.op)
    BY <1>1, <1>5, <2>3, <2>4 DEF DecodeRecord, b
  <2>6. Begins(b, E)
    <3>1. Len(b) <= Len(E)
      BY <1>2, <1>3, <2>1
    <3>2. ASSUME NEW i \in 1..Len(b)
          PROVE  b[i] = E[i]
      <4>1. i \in 1..Len(E) /\ 1 + i \in 1..Len(body)
        BY <1>2, <2>1, <3>1
      <4> QED
        BY <1>2, <1>3, <2>1, <4>1
    <3> QED
      BY <3>1, <3>2 DEF Begins
  <2>7. Len(b) = Len(E) <=> Len(body) = Len(EncodeRecord(r))
    BY <1>2, <2>1
  <2>8. IF Len(b) = Len(E)
        THEN /\ DecodeFields(b, r.op).ok /\ DecodeFields(b, r.op).op = r.op
             /\ DecodeFields(b, r.op).fields = r.fields
        ELSE ~DecodeFields(b, r.op).ok
    BY <2>1, <2>6, FieldsRoundTrip DEF E
  <2> QED
    BY <2>5, <2>7, <2>8
<1> QED
  BY <1>4, <1>5

----------------------------------------------------------------------------
\* Frames.

Written(r) == EncodeFrame(EncodeRecord(r))

\* A frame is the length of the record, its checksum, and the record.
IsFrame(w, r) ==
  /\ EncodeRecord(r) \in Seq(Plain) /\ Len(EncodeRecord(r)) \in 1..(Limit - 1)
  /\ w \in Seq(Token) /\ Len(w) = Header + Len(EncodeRecord(r))
  /\ \A i \in 1..Width : w[i] = PutUint32(Len(EncodeRecord(r)))[i] /\ w[i] \in Plain
  /\ w[Header] = <<-3, EncodeRecord(r)>>
  /\ \A i \in 1..Len(EncodeRecord(r)) : w[Header + i] = EncodeRecord(r)[i]

\* What encodeFrame returns for a record.
LEMMA FrameForm ==
  ASSUME NEW r \in Inputs
  PROVE  IsRecord(r) /\ IsFrame(Written(r), r)
<1> USE SizeAssumption
<1> DEFINE R == EncodeRecord(r)
           P == PutUint32(Len(R))
           C == <<-3, R>>
           w == Written(r)
<1>1. IsRecord(r) /\ Len(R) < Limit
  BY InputsAssumption DEF IsRecord
<1>2. R \in Seq(Plain) /\ Len(R) \in Nat \ {0}
  <2>1. PICK tag \in 1..7 :
          IsJoin(R, Plain, <<Byte(tag)>>, EncodeFields(EncodePayload(r.op), r.fields))
    BY <1>1, RecordForm
  <2>2. Len(<<Byte(tag)>>) = 1
    OBVIOUS
  <2> QED
    BY <2>1, <2>2 DEF IsJoin
<1> HIDE DEF R
<1>3. Len(R) \in 1..(Limit - 1) /\ Len(R) \in 0..(Limit - 1)
  BY <1>1, <1>2, LimitIsANumber
<1>4. P \in Seq(Plain) /\ Len(P) = Width
  BY <1>3, NumberForm
<1>5. w = (P \o <<C>>) \o R
  <2>1. R # <<>>
    BY <1>2
  <2> QED
    BY <2>1 DEF Written, EncodeFrame, ChecksumIEEE, R
<1> HIDE DEF P, C, w
<1>6. C \in Token
  BY <1>2 DEF Token, C
<1>7. P \in Seq(Token) /\ R \in Seq(Token) /\ <<C>> \in Seq(Token)
  <2>1. <<C>> \in Seq(Token)
    BY <1>6
  <2>2. P \in Seq(Token) /\ R \in Seq(Token)
    BY <1>2, <1>4, PlainIsToken
  <2> QED
    BY <2>1, <2>2
<1>8. IsJoin(P \o <<C>>, Token, P, <<C>>)
  BY <1>7, Joined
<1> DEFINE H == P \o <<C>>
<1>9. H \in Seq(Token) /\ Len(H) = Header /\ H[Header] = C /\ \A i \in 1..Width : H[i] = P[i]
  <2>1. Len(<<C>>) = 1 /\ <<C>>[1] = C
    OBVIOUS
  <2>2. H \in Seq(Token) /\ Len(H) = Width + 1
    BY <1>4, <1>8, <2>1 DEF IsJoin
  <2>3. H[Width + 1] = C
    BY <1>4, <1>8, <2>1 DEF IsJoin
  <2>4. \A i \in 1..Width : H[i] = P[i]
    BY <1>4, <1>8 DEF IsJoin
  <2> QED
    BY <2>2, <2>3, <2>4 DEF Header
<1> HIDE DEF H
<1>10. IsJoin(w, Token, H, R)
  BY <1>5, <1>7, <1>9, Joined DEF H
<1>11. Header \in Nat /\ Header = Width + 1
  BY DEF Header
<1>12. /\ w \in Seq(Token) /\ Len(w) = Header + Len(R)
       /\ \A i \in 1..Width : w[i] = P[i]
       /\ w[Header] = C
       /\ \A i \in 1..Len(R) : w[Header + i] = R[i]
  BY <1>9, <1>10, <1>11 DEF IsJoin
<1>13. \A i \in 1..Width : w[i] \in Plain
  BY <1>4, <1>12
<1> QED
  BY <1>1, <1>2, <1>3, <1>12, <1>13 DEF IsFrame, R, P, C, w

\* What a write, a torn write or a crash leaves between two positions of the
\* file.
IsPiece(f, from, to, frame) ==
  \/ /\ frame.rec \in Inputs
     /\ to - from <= Len(Written(frame.rec))
     /\ frame.whole <=> to - from = Len(Written(frame.rec))
     /\ \A i \in 1..(to - from) : f[from + i] = Written(frame.rec)[i]
  \/ /\ frame.rec = NoRecord /\ ~frame.whole
     /\ \A i \in 1..(to - from) : f[from + i] = Zero

History == Seq([rec : Inputs \cup {NoRecord}, whole : BOOLEAN])

\* The pieces of the file and where they start: nothing else is in it.
IsLayout(start, f, fr) ==
  /\ f \in Seq(Token) /\ fr \in History
  /\ start \in [1..(Len(fr) + 1) -> Nat]
  /\ start[1] = 0 /\ start[Len(fr) + 1] = Len(f)
  /\ \A i \in 1..Len(fr) : start[i] < start[i + 1]
  /\ \A i \in 1..Len(fr) : IsPiece(f, start[i], start[i + 1], fr[i])

\* Pieces are not empty and lie one behind the other.
LEMMA Starts ==
  ASSUME NEW start, NEW f, NEW fr, IsLayout(start, f, fr)
  PROVE  /\ Len(fr) \in Nat /\ Len(f) \in Nat
         /\ \A i \in 1..(Len(fr) + 1) : start[i] \in Nat
         /\ \A i, j \in 1..(Len(fr) + 1) : i <= j => start[i] + (j - i) <= start[j]
<1> DEFINE n == Len(fr)
<1>1. n \in Nat /\ Len(f) \in Nat
  BY DEF IsLayout, History
<1>2. \A i \in 1..(n + 1) : start[i] \in Nat
  BY DEF IsLayout
<1>3. \A i \in 1..n : start[i] < start[i + 1]
  BY DEF IsLayout
<1> HIDE DEF n
<1>4. ASSUME NEW i \in 1..(n + 1)
      PROVE  \A d \in 0..(n + 1 - i) : start[i] + d <= start[i + d]
  <2> DEFINE m == n + 1 - i
             G == {d \in 0..m : start[i] + d <= start[i + d]}
  <2>1. m \in Nat
    BY <1>1
  <2>2. 0 \in G
    BY <1>1, <1>2
  <2>3. ASSUME NEW d \in 1..m, d - 1 \in G
        PROVE  d \in G
    <3>1. /\ i + (d - 1) \in 1..n /\ (i + (d - 1)) + 1 = i + d
          /\ i + (d - 1) \in 1..(n + 1) /\ i + d \in 1..(n + 1) /\ d \in 0..m
      BY <1>1
    <3>2. start[i + (d - 1)] < start[i + d]
      BY <1>3, <3>1
    <3>3. start[i] + (d - 1) <= start[i + (d - 1)]
      BY <2>3
    <3>4. start[i] \in Nat /\ start[i + (d - 1)] \in Nat /\ start[i + d] \in Nat
      BY <1>2, <3>1
    <3>5. start[i] + d <= start[i + d]
      BY <3>2, <3>3, <3>4
    <3> QED
      BY <3>1, <3>5
  <2>4. \A d \in 1..m : d - 1 \in G => d \in G
    BY <2>3
  <2>5. \A d \in 0..m : d \in G
    <3> HIDE DEF G, m
    <3> QED
      BY <2>1, <2>2, <2>4, Induction
  <2> QED
    BY <2>5
<1>5. ASSUME NEW i \in 1..(n + 1), NEW j \in 1..(n + 1), i <= j
      PROVE  start[i] + (j - i) <= start[j]
  <2>1. j - i \in 0..(n + 1 - i) /\ i + (j - i) = j
    BY <1>1, <1>5
  <2> QED
    BY <1>4, <2>1
<1> QED
  BY <1>1, <1>2, <1>5 DEF n

\* Pieces lie within the file, and none starts before its number says.
LEMMA StartsWithin ==
  ASSUME NEW start, NEW f, NEW fr, IsLayout(start, f, fr)
  PROVE  /\ \A i \in 1..(Len(fr) + 1) : start[i] <= Len(f) /\ i - 1 <= start[i]
         /\ \A i, j \in 1..(Len(fr) + 1) : i < j => start[i] < start[j]
<1> DEFINE n == Len(fr)
<1>1. n \in Nat /\ Len(f) \in Nat /\ \A i \in 1..(n + 1) : start[i] \in Nat
  BY Starts
<1>2. start[1] = 0 /\ start[n + 1] = Len(f)
  BY DEF IsLayout
<1>3. \A i, j \in 1..(n + 1) : i <= j => start[i] + (j - i) <= start[j]
  BY Starts, Zenon
<1> HIDE DEF n
<1>4. ASSUME NEW i \in 1..(n + 1)
      PROVE  start[i] <= Len(f) /\ i - 1 <= start[i]
  <2>1. 1 \in 1..(n + 1) /\ n + 1 \in 1..(n + 1) /\ 1 <= i /\ i <= n + 1 /\ start[i] \in Nat
    BY <1>1
  <2>2. start[i] + ((n + 1) - i) <= start[n + 1] /\ start[1] + (i - 1) <= start[i]
    BY <1>3, <2>1
  <2> QED
    BY <1>1, <1>2, <2>1, <2>2
<1>5. ASSUME NEW i \in 1..(n + 1), NEW j \in 1..(n + 1), i < j
      PROVE  start[i] < start[j]
  <2>1. i <= j /\ start[i] \in Nat /\ start[j] \in Nat
    BY <1>1, <1>5
  <2>2. start[i] + (j - i) <= start[j]
    BY <1>3, <2>1
  <2> QED
    BY <1>5, <2>1, <2>2
<1> QED
  BY <1>4, <1>5 DEF n

\* Every token belongs to a piece.
LEMMA Located ==
  ASSUME NEW start, NEW f, NEW fr, IsLayout(start, f, fr), NEW p \in 1..Len(f)
  PROVE  \E i \in 1..Len(fr) : start[i] < p /\ p <= start[i + 1]
<1> DEFINE n == Len(fr)
           T == {i \in 1..n : p <= start[i + 1]}
<1>1. n \in Nat /\ Len(f) \in Nat /\ \A i \in 1..(n + 1) : start[i] \in Nat
  BY Starts
<1>2. start[1] = 0 /\ start[n + 1] = Len(f)
  BY DEF IsLayout
<1> HIDE DEF n
<1>3. n \in T
  BY <1>1, <1>2
<1>4. PICK i \in T : \A j \in T : i <= j
  <2>1. T \subseteq Nat /\ T # {}
    BY <1>3
  <2> HIDE DEF T
  <2> QED
    BY <2>1, LeastNatural
<1>5. i \in 1..n /\ p <= start[i + 1]
  OBVIOUS
<1>6. start[i] < p
  <2>1. CASE i = 1
    BY <1>2, <2>1
  <2>2. CASE i # 1
    <3>1. i - 1 \in 1..n /\ ~(i <= i - 1) /\ (i - 1) + 1 = i
      BY <1>1, <1>5, <2>2
    <3>2. i - 1 \notin T
      BY <1>4, <3>1
    <3>3. ~(p <= start[i])
      BY <3>1, <3>2
    <3>4. start[i] \in Nat
      BY <1>1, <1>5
    <3> QED
      BY <3>3, <3>4, <1>1
  <2> QED
    BY <2>1, <2>2
<1> QED
  BY <1>5, <1>6 DEF n

\* A position after a and not beyond b, counted from a.
LEMMA Offset ==
  ASSUME NEW a \in Nat, NEW b \in Nat, NEW p \in Nat, a < p, p <= b
  PROVE  p - a \in 1..(b - a) /\ a + (p - a) = p /\ p - a \in Nat
  OBVIOUS

\* A checksum in the file is that of the record of a frame, in the header of
\* the frame.
LEMMA ChecksumFound ==
  ASSUME NEW start, NEW f, NEW fr, IsLayout(start, f, fr),
         NEW p \in 1..Len(f), NEW x, f[p] = <<-3, x>>
  PROVE  \E i \in 1..Len(fr) :
           /\ p = start[i] + Header /\ p <= start[i + 1]
           /\ fr[i].rec \in Inputs /\ x = EncodeRecord(fr[i].rec)
<1> USE SizeAssumption
<1>1. PICK i \in 1..Len(fr) : start[i] < p /\ p <= start[i + 1]
  BY Located
<1>2. start[i] \in Nat /\ start[i + 1] \in Nat /\ IsPiece(f, start[i], start[i + 1], fr[i])
  <2>1. i \in 1..(Len(fr) + 1) /\ i + 1 \in 1..(Len(fr) + 1)
    BY Starts
  <2>2. IsPiece(f, start[i], start[i + 1], fr[i])
    BY DEF IsLayout
  <2> QED
    BY <2>1, <2>2, Starts
<1> DEFINE q == p - start[i]
<1>3. q \in 1..(start[i + 1] - start[i]) /\ start[i] + q = p /\ q \in Nat
  <2>1. p \in Nat
    BY Starts
  <2>2. start[i] \in Nat /\ start[i + 1] \in Nat /\ start[i] < p /\ p <= start[i + 1]
    BY <1>1, <1>2
  <2> QED
    BY <2>1, <2>2, Offset
<1> HIDE DEF q
<1>4. fr[i].rec \in Inputs
  <2> SUFFICES ASSUME fr[i].rec \notin Inputs PROVE FALSE
    OBVIOUS
  <2>1. f[start[i] + q] = Zero
    BY <1>2, <1>3 DEF IsPiece
  <2>2. Zero \in Plain /\ f[p] = Zero
    BY <1>3, <2>1, Tokens
  <2> QED
    BY <2>2, Tokens
<1> DEFINE r == fr[i].rec
           w == Written(r)
           R == EncodeRecord(r)
<1>5. IsFrame(w, r)
  BY <1>4, FrameForm
<1>6. q <= Len(w) /\ f[p] = w[q]
  <2>1. NoRecord \notin Inputs
    <3> SUFFICES ASSUME NoRecord \in Inputs PROVE FALSE
      OBVIOUS
    <3>1. IsRecord(NoRecord)
      BY InputsAssumption
    <3>2. \E k \in DOMAIN OperationType : OperationType[k] = NoRecord.op
      BY <3>1, Zenon DEF IsRecord
    <3>3. NoRecord.op = "none"
      BY DEF NoRecord
    <3>4. \A k \in DOMAIN OperationType : OperationType[k] # "none"
      BY DEF OperationType
    <3> QED
      BY <3>2, <3>3, <3>4
  <2>2. /\ start[i + 1] - start[i] <= Len(w)
        /\ \A j \in 1..(start[i + 1] - start[i]) : f[start[i] + j] = w[j]
    BY <1>2, <1>4, <2>1 DEF IsPiece
  <2>3. Len(w) \in Nat
    BY <1>5 DEF IsFrame
  <2> HIDE DEF w, r
  <2>4. f[start[i] + q] = w[q]
    BY <1>3, <2>2
  <2>5. q <= Len(w)
    BY <1>2, <1>3, <2>2, <2>3
  <2> QED
    BY <1>3, <2>4, <2>5
<1> HIDE DEF w, r
<1>7. /\ R \in Seq(Plain) /\ Len(R) \in Nat /\ Len(w) = Header + Len(R)
      /\ \A j \in 1..Width : w[j] \in Plain
      /\ w[Header] = <<-3, R>>
      /\ \A j \in 1..Len(R) : w[Header + j] = R[j]
  BY <1>5 DEF IsFrame
<1> HIDE DEF R
<1>8. Header \in Nat /\ Header = Width + 1
  BY DEF Header
<1>9. w[q] \notin Plain
  BY <1>6, Tokens
<1>10. q = Header
  <2> SUFFICES ASSUME q # Header PROVE FALSE
    OBVIOUS
  <2>1. CASE q < Header
    <3>1. q \in 1..Width
      BY <1>3, <1>8, <2>1, <1>2
    <3> QED
      BY <1>7, <1>9, <3>1
  <2>2. CASE q > Header
    <3>1. q - Header \in 1..Len(R) /\ Header + (q - Header) = q
      <4>1. q \in Nat /\ Len(R) \in Nat /\ q <= Header + Len(R)
        BY <1>3, <1>6, <1>7
      <4> QED
        BY <1>8, <2>2, <4>1
    <3>2. w[q] = R[q - Header]
      BY <1>7, <3>1
    <3>3. R[q - Header] \in Plain
      BY <1>7, <3>1
    <3> QED
      BY <1>9, <3>2, <3>3
  <2> QED
    BY <1>3, <1>8, <2>1, <2>2
<1>11. <<-3, x>> = <<-3, R>>
  BY <1>6, <1>7, <1>10
<1>12. x = R
  BY <1>11
<1> QED
  BY <1>1, <1>3, <1>4, <1>10, <1>12 DEF r, R

\* The frame decodeFrame accepts at pos: a header of zeros, or a frame that was
\* written there.
IsAccepted(start, f, fr, pos, body) ==
  /\ pos + Header + Len(body) <= Len(f) /\ Len(body) \in Nat
  /\ \/ body = <<>> /\ \A i \in 1..Header : f[pos + i] = Zero
     \/ /\ \E i \in 1..Len(fr) :
             /\ pos = start[i] /\ pos + Header <= start[i + 1]
             /\ fr[i].rec \in Inputs /\ body = EncodeRecord(fr[i].rec)
        /\ \A i \in 1..Len(body) : f[pos + Header + i] \in Plain

\* Nothing else is accepted, wherever in the file the reader is.
LEMMA Accepted ==
  ASSUME NEW start, NEW f, NEW fr, IsLayout(start, f, fr), NEW pos \in Nat,
         DecodeFrame(f, pos).ok
  PROVE  IsAccepted(start, f, fr, pos, DecodeFrame(f, pos).body)
<1> USE SizeAssumption
<1>1. f \in Seq(Token) /\ Len(f) \in Nat
  BY DEF IsLayout
<1>2. Header \in Nat /\ Header = Width + 1
  BY DEF Header
<1> DEFINE length == Uint32(SubSeq(f, pos + 1, pos + Width))
           at == pos + Header
           body == ReadBody(f, at, length)
<1>3. ~(pos + Header > Len(f)) /\ DecodeFrame(f, pos) = CheckFrame(f[at], body, length)
  BY DEF DecodeFrame, Error
<1>4. ~(Len(body) < length) /\ f[at] = ChecksumIEEE(body) /\ DecodeFrame(f, pos).body = body
  <2>1. CheckFrame(f[at], body, length).ok
    BY <1>3
  <2> HIDE DEF body, length, at
  <2>2. ~(Len(body) < length) /\ f[at] = ChecksumIEEE(body)
    BY <2>1 DEF CheckFrame, Error
  <2>3. CheckFrame(f[at], body, length) = [ok |-> TRUE, body |-> body]
    BY <2>2 DEF CheckFrame
  <2> QED
    BY <1>3, <2>2, <2>3
<1>5. at \in Nat /\ at \in 1..Len(f) /\ pos + Width <= Len(f)
  BY <1>1, <1>2, <1>3
<1>6. IsPart(SubSeq(f, pos + 1, pos + Width), Token, f, pos, Width)
  BY <1>1, <1>5, Part
<1>7. length \in Nat /\ (length = 0 => \A i \in 1..Width : f[pos + i] = Zero)
  <2> DEFINE s == SubSeq(f, pos + 1, pos + Width)
  <2>1. s \in Seq(Token) /\ Len(s) = Width /\ \A i \in 1..Width : s[i] = f[pos + i]
    BY <1>6 DEF IsPart
  <2> HIDE DEF s
  <2>2. Uint32(s) \in Nat /\ (Uint32(s) = 0 => \A i \in 1..Width : s[i] = Zero)
    BY <2>1, AnyNumber
  <2>3. length = Uint32(s)
    BY DEF s
  <2> QED
    BY <2>1, <2>2, <2>3
<1> HIDE DEF length
<1> DEFINE m == IF at + length > Len(f) THEN Len(f) - at ELSE length
<1>8. m \in Nat /\ at + m <= Len(f) /\ m <= length
  BY <1>1, <1>5, <1>7
<1>9. body = SubSeq(f, at + 1, at + m)
  <2>1. at + (Len(f) - at) = Len(f)
    BY <1>1, <1>5
  <2> QED
    BY <2>1 DEF ReadBody
<1> HIDE DEF m, body, at
<1>10. IsPart(body, Token, f, at, m)
  BY <1>1, <1>5, <1>8, <1>9, Part
<1>11. /\ body \in Seq(Token) /\ Len(body) = m /\ m = length
       /\ \A i \in 1..Len(body) : body[i] = f[at + i]
  BY <1>4, <1>7, <1>8, <1>10 DEF IsPart
<1>12. pos + Header + Len(body) <= Len(f) /\ Len(body) \in Nat
  BY <1>8, <1>11 DEF at
<1>13. CASE body = <<>>
  <2>1. Len(body) = 0 /\ length = 0
    BY <1>11, <1>13
  <2>2. f[at] = Zero
    BY <1>4, <1>13 DEF ChecksumIEEE
  <2>3. \A i \in 1..Header : f[pos + i] = Zero
    <3>1. \A i \in 1..Header : i \in 1..Width \/ i = Header
      BY <1>2
    <3>2. \A i \in 1..Width : f[pos + i] = Zero
      BY <1>7, <2>1
    <3> QED
      BY <2>2, <3>1, <3>2, Zenon DEF at
  <2> QED
    BY <1>4, <1>12, <1>13, <2>3 DEF IsAccepted
<1>14. CASE body # <<>>
  <2>1. f[at] = <<-3, body>>
    BY <1>4, <1>14 DEF ChecksumIEEE
  <2>2. PICK i \in 1..Len(fr) :
          /\ at = start[i] + Header /\ at <= start[i + 1]
          /\ fr[i].rec \in Inputs /\ body = EncodeRecord(fr[i].rec)
    <3>1. at \in 1..Len(f)
      BY <1>5
    <3> QED
      BY <2>1, <3>1, ChecksumFound
  <2>3. start[i] \in Nat
    <3>1. i \in 1..(Len(fr) + 1)
      BY Starts
    <3> QED
      BY <3>1, Starts
  <2>4. pos = start[i] /\ pos + Header <= start[i + 1]
    BY <1>2, <2>2, <2>3 DEF at
  <2>5. \A j \in 1..Len(body) : f[pos + Header + j] \in Plain
    <3>1. body \in Seq(Plain)
      BY <2>2, FrameForm DEF IsFrame
    <3> QED
      BY <1>11, <3>1 DEF at
  <2> QED
    BY <1>4, <1>12, <2>2, <2>4, <2>5 DEF IsAccepted
<1> QED
  BY <1>13, <1>14

\* A whole frame is accepted where it was written.
LEMMA WholeFrameAccepted ==
  ASSUME NEW start, NEW f, NEW fr, IsLayout(start, f, fr),
         NEW i \in 1..Len(fr), fr[i].whole
  PROVE  /\ fr[i].rec \in Inputs /\ start[i + 1] = start[i] + Header + Len(EncodeRecord(fr[i].rec))
         /\ DecodeFrame(f, start[i]) = [ok |-> TRUE, body |-> EncodeRecord(fr[i].rec)]
<1> USE SizeAssumption
<1> DEFINE r == fr[i].rec
           w == Written(r)
           R == EncodeRecord(r)
           pos == start[i]
<1>1. IsPiece(f, start[i], start[i + 1], fr[i]) /\ f \in Seq(Token)
  BY DEF IsLayout
<1>2. /\ pos \in Nat /\ start[i + 1] \in Nat /\ start[i + 1] <= Len(f) /\ Len(f) \in Nat
  <2>1. i \in 1..(Len(fr) + 1) /\ i + 1 \in 1..(Len(fr) + 1)
    BY Starts
  <2>2. pos \in Nat /\ start[i + 1] \in Nat /\ Len(f) \in Nat
    BY <2>1, Starts
  <2>3. start[i + 1] <= Len(f)
    BY <2>1, StartsWithin
  <2> QED
    BY <2>2, <2>3
<1>3. /\ r \in Inputs /\ start[i + 1] - pos = Len(w)
      /\ \A j \in 1..Len(w) : f[pos + j] = w[j]
  BY <1>1 DEF IsPiece
<1>4. IsFrame(w, r)
  BY <1>3, FrameForm
<1> HIDE DEF w, r, pos
<1>5. /\ R \in Seq(Plain) /\ Len(R) \in 1..(Limit - 1) /\ Len(w) = Header + Len(R)
      /\ \A j \in 1..Width : w[j] = PutUint32(Len(R))[j]
      /\ w[Header] = <<-3, R>>
      /\ \A j \in 1..Len(R) : w[Header + j] = R[j]
  BY <1>4 DEF IsFrame
<1> HIDE DEF R
<1>6. Header \in Nat /\ Header = Width + 1 /\ Len(R) \in Nat /\ Len(R) \in 0..(Limit - 1)
  BY <1>5 DEF Header
<1> DEFINE at == pos + Header
<1>7. start[i + 1] = at + Len(R) /\ at \in Nat
  <2>1. start[i + 1] - pos = Header + Len(R)
    BY <1>3, <1>5
  <2> QED
    BY <1>2, <1>6, <2>1
<1>8. f[at] = <<-3, R>>
  BY <1>3, <1>5, <1>6
<1>9. Uint32(SubSeq(f, pos + 1, pos + Width)) = Len(R)
  <2> DEFINE s == SubSeq(f, pos + 1, pos + Width)
             t == PutUint32(Len(R))
  <2>1. pos + Width <= Len(f) /\ \A j \in 1..Width : f[pos + j] = t[j]
    <3>1. pos + Width <= Len(f)
      BY <1>2, <1>6, <1>7
    <3>2. \A j \in 1..Width : j \in 1..Len(w)
      BY <1>5, <1>6
    <3> QED
      BY <1>3, <1>5, <3>1, <3>2, Zenon
  <2>2. IsPart(s, Token, f, pos, Width)
    BY <1>1, <1>2, <2>1, Part
  <2>3. t \in Seq(Plain) /\ Len(t) = Width
    BY <1>6, NumberForm
  <2>4. t \in Seq(Token)
    BY <2>3, PlainIsToken
  <2>5. Uint32(t) = Len(R)
    BY <1>6, NumberRoundTrip
  <2> HIDE DEF s, t
  <2>6. s = t
    BY <2>1, <2>2, <2>3, <2>4, SameSequence DEF IsPart
  <2> QED
    BY <2>5, <2>6 DEF s
<1>10. ReadBody(f, at, Len(R)) = R
  <2>1. ReadBody(f, at, Len(R)) = SubSeq(f, at + 1, at + Len(R))
    BY <1>2, <1>6, <1>7 DEF ReadBody
  <2>2. at + Len(R) <= Len(f)
    BY <1>2, <1>7
  <2> DEFINE s == SubSeq(f, at + 1, at + Len(R))
  <2>3. IsPart(s, Token, f, at, Len(R))
    <3> HIDE DEF at
    <3> QED
      BY <1>1, <1>6, <1>7, <2>2, Part
  <2>4. \A j \in 1..Len(R) : f[at + j] = R[j]
    <3> SUFFICES ASSUME NEW j \in 1..Len(R)
                 PROVE  f[at + j] = R[j]
      OBVIOUS
    <3>1. Header + j \in 1..Len(w) /\ pos + (Header + j) = at + j
      BY <1>2, <1>5, <1>6
    <3>2. f[pos + (Header + j)] = w[Header + j]
      BY <1>3, <3>1
    <3> QED
      BY <1>5, <3>1, <3>2
  <2>5. R \in Seq(Token)
    BY <1>5, PlainIsToken
  <2> HIDE DEF s
  <2>6. s = R
    BY <2>3, <2>4, <2>5, SameSequence DEF IsPart
  <2> QED
    BY <2>1, <2>6 DEF s
<1>11. R # <<>> /\ ~(Len(R) < Len(R)) /\ ~(pos + Header > Len(f))
  BY <1>2, <1>5, <1>6, <1>7
<1>12. DecodeFrame(f, pos) = CheckFrame(f[at], R, Len(R))
  BY <1>9, <1>10, <1>11 DEF DecodeFrame
<1>13. DecodeFrame(f, pos) = [ok |-> TRUE, body |-> R]
  BY <1>8, <1>11, <1>12 DEF CheckFrame, ChecksumIEEE
<1> QED
  BY <1>3, <1>7, <1>13 DEF R, r, pos

----------------------------------------------------------------------------
\* The loop of Replay.

States(f) == [read : Seq(Inputs), failed : BOOLEAN, over : BOOLEAN, at : 0..Len(f)]

ZeroHeader(f, pos) == pos + Header <= Len(f) /\ \A i \in 1..Header : f[pos + i] = Zero

\* A turn that reads the record of frame i, which starts where the reader is;
\* no checksum is among what it reads.
ReadsFrame(start, f, fr, st, next, i) ==
  /\ st.at = start[i] /\ fr[i].rec \in Inputs
  /\ next = [st EXCEPT !.at = st.at + Header + Len(EncodeRecord(fr[i].rec)),
                       !.read = Append(st.read, fr[i].rec)]
  /\ Len(EncodeRecord(fr[i].rec)) \in Nat \ {0} /\ next.at <= Len(f)
  /\ \A j \in 1..Len(EncodeRecord(fr[i].rec)) : f[st.at + Header + j] \in Plain

\* A turn ends the loop, or reads a record that was written.
LEMMA TurnCases ==
  ASSUME NEW start, NEW f, NEW fr, IsLayout(start, f, fr), NEW st \in States(f), ~st.over
  PROVE  \/ Turn(f, st) = [st EXCEPT !.over = TRUE]
         \/ /\ Turn(f, st) = [st EXCEPT !.over = TRUE, !.failed = TRUE]
            /\ ZeroHeader(f, st.at)
         \/ \E i \in 1..Len(fr) : ReadsFrame(start, f, fr, st, Turn(f, st), i)
<1> DEFINE frame == DecodeFrame(f, st.at)
           record == DecodeRecord(frame.body)
<1>1. Turn(f, st) = Applied(st, frame, record)
  BY DEF Turn
<1>2. st.at \in Nat /\ st.at <= Len(f) /\ st.read \in Seq(Inputs) /\ Len(f) \in Nat
  BY Starts DEF States
<1>3. CASE ~frame.ok
  <2>1. Turn(f, st) = [st EXCEPT !.over = TRUE]
    BY <1>1, <1>3 DEF Applied
  <2> QED
    BY <2>1
<1>4. CASE frame.ok
  <2> DEFINE body == frame.body
  <2>1. IsAccepted(start, f, fr, st.at, body)
    BY <1>2, <1>4, Accepted
  <2> HIDE DEF frame
  <2>2. CASE body = <<>> /\ \A i \in 1..Header : f[st.at + i] = Zero
    <3>1. ~record.ok
      BY <2>2 DEF DecodeRecord
    <3>2. Turn(f, st) = [st EXCEPT !.over = TRUE, !.failed = TRUE]
      BY <1>1, <1>4, <3>1 DEF Applied
    <3>3. st.at + Header <= Len(f)
      <4>1. Len(body) = 0
        BY <2>2
      <4>2. Header \in Nat
        BY SizeAssumption DEF Header
      <4> QED
        BY <1>2, <2>1, <4>1, <4>2 DEF IsAccepted
    <3>4. ZeroHeader(f, st.at)
      BY <2>2, <3>3 DEF ZeroHeader
    <3> QED
      BY <3>2, <3>4
  <2>3. ASSUME NEW i \in 1..Len(fr),
               st.at = start[i], fr[i].rec \in Inputs, body = EncodeRecord(fr[i].rec),
               \A j \in 1..Len(body) : f[st.at + Header + j] \in Plain
        PROVE  ReadsFrame(start, f, fr, st, Turn(f, st), i)
    <3> DEFINE r == fr[i].rec
    <3>1. IsRecord(r) /\ IsFrame(Written(r), r)
      BY <2>3, FrameForm
    <3>2. body \in Seq(Plain) /\ Len(body) \in Nat \ {0} /\ r = [op |-> r.op, fields |-> r.fields]
      BY <2>3, <3>1 DEF IsFrame, IsRecord
    <3> HIDE DEF r, body
    <3>3. Begins(body, EncodeRecord(r)) /\ Len(body) = Len(EncodeRecord(r))
      BY <2>3, <3>2 DEF Begins, r
    <3>4. record.ok /\ record.op = r.op /\ record.fields = r.fields
      BY <3>1, <3>2, <3>3, RecordRoundTrip DEF body
    <3> HIDE DEF record
    <3>5. Turn(f, st) = [st EXCEPT !.at = st.at + Header + Len(body),
                                   !.read = Append(st.read, [op |-> record.op, fields |-> record.fields])]
      BY <1>1, <1>4, <3>4 DEF Applied, body
    <3>6. [op |-> record.op, fields |-> record.fields] = r
      BY <3>2, <3>4
    <3>7. Turn(f, st) = [st EXCEPT !.at = st.at + Header + Len(body), !.read = Append(st.read, r)]
      BY <3>5, <3>6
    <3>8. Turn(f, st).at = st.at + Header + Len(body)
      BY <3>7 DEF States
    <3>9. Turn(f, st).at <= Len(f)
      BY <2>1, <3>8 DEF IsAccepted
    <3> QED
      BY <2>3, <3>2, <3>7, <3>9 DEF ReadsFrame, r
  <2> QED
    BY <2>1, <2>2, <2>3 DEF IsAccepted
<1> QED
  BY <1>3, <1>4

\* The states of the loop are states.
LEMMA TurnType ==
  ASSUME NEW start, NEW f, NEW fr, IsLayout(start, f, fr), NEW st \in States(f)
  PROVE  Turn(f, st) \in States(f)
<1> DEFINE next == Turn(f, st)
<1>1. CASE st.over
  BY <1>1 DEF Turn
<1>2. CASE ~st.over
  <2>1. CASE next = [st EXCEPT !.over = TRUE]
    BY <2>1 DEF States
  <2>2. CASE next = [st EXCEPT !.over = TRUE, !.failed = TRUE]
    BY <2>2 DEF States
  <2>3. ASSUME NEW i \in 1..Len(fr), ReadsFrame(start, f, fr, st, next, i)
        PROVE  next \in States(f)
    <3> DEFINE n == Len(EncodeRecord(fr[i].rec))
    <3>1. /\ next = [st EXCEPT !.at = st.at + Header + n, !.read = Append(st.read, fr[i].rec)]
          /\ n \in Nat /\ fr[i].rec \in Inputs /\ next.at <= Len(f)
      BY <2>3 DEF ReadsFrame
    <3> HIDE DEF next, n
    <3>2. st.at \in Nat /\ st.read \in Seq(Inputs) /\ Len(f) \in Nat /\ Header \in Nat
      BY Starts, SizeAssumption DEF States, Header
    <3>3. next.at = st.at + Header + n
      BY <3>1 DEF States
    <3>4. st.at + Header + n \in 0..Len(f)
      BY <3>1, <3>2, <3>3
    <3>5. Append(st.read, fr[i].rec) \in Seq(Inputs)
      BY <3>1, <3>2
    <3> QED
      BY <3>1, <3>4, <3>5 DEF States
  <2> QED
    BY <1>2, <2>1, <2>2, <2>3, TurnCases
<1> QED
  BY <1>1, <1>2

Beginning == [read |-> <<>>, failed |-> FALSE, over |-> FALSE, at |-> 0]

IsReplay(f, g) ==
  g = [k \in 0..Len(f) |->
         IF k = 0 THEN [read |-> <<>>, failed |-> FALSE, over |-> FALSE, at |-> 0]
         ELSE Turn(f, g[k - 1])]

\* after[k] is the state of the loop after k turns.
Turned(f, after) ==
  /\ after \in [0..Len(f) -> States(f)] /\ after[0] = Beginning
  /\ \A k \in 1..Len(f) : after[k] = Turn(f, after[k - 1])
  /\ Replay(f) = after[Len(f)]

\* The turns of Replay.
LEMMA ReplayTurns ==
  ASSUME NEW start, NEW f, NEW fr, IsLayout(start, f, fr)
  PROVE  \E after : Turned(f, after)
<1> DEFINE n == Len(f)
           S == States(f)
           step == [k \in 1..n |-> [x \in S |-> Turn(f, x)]]
<1>0. n \in Nat
  BY Starts
<1>1. \A x \in S : Turn(f, x) \in S
  BY TurnType
<1>2. Beginning \in S
  BY <1>0 DEF States, Beginning
<1> HIDE DEF n, S
<1>3. step \in [1..n -> [S -> S]]
  BY <1>1
<1>4. \E g : Turns(n, S, step, Beginning, g)
  <2> HIDE DEF step
  <2> QED
    BY <1>0, <1>2, <1>3, LoopExists
<1>5. PICK g : Turns(n, S, step, Beginning, g)
  BY <1>4
<1>6. g \in [0..n -> S] /\ g[0] = Beginning
  BY <1>5 DEF Turns
<1>7. ASSUME NEW k \in 1..n
      PROVE  g[k] = Turn(f, g[k - 1])
  <2>1. g[k] = step[k][g[k - 1]]
    BY <1>5 DEF Turns
  <2>2. g[k - 1] \in S
    BY <1>0, <1>6
  <2> QED
    BY <2>1, <2>2
<1>8. IsReplay(f, g)
  <2>1. g = [k \in 0..n |-> g[k]]
    BY <1>6
  <2>2. \A k \in 0..n : g[k] = IF k = 0 THEN Beginning ELSE Turn(f, g[k - 1])
    BY <1>0, <1>6, <1>7
  <2> QED
    BY <2>1, <2>2 DEF IsReplay, n, Beginning
<1> DEFINE p == CHOOSE h : IsReplay(f, h)
<1>9. IsReplay(f, p)
  BY <1>8
<1>10. Replay(f) = p[n]
  BY DEF Replay, IsReplay, n
<1> HIDE DEF p
<1>11. \A k \in 0..n : p[k] = IF k = 0 THEN Beginning ELSE Turn(f, p[k - 1])
  BY <1>9, Zenon DEF IsReplay, n, Beginning
<1>12. p = [k \in 0..n |-> p[k]]
  BY <1>9, Zenon DEF IsReplay, n
<1>13. p[0] = Beginning /\ \A k \in 1..n : p[k] = Turn(f, p[k - 1])
  <2>1. 0 \in 0..n /\ \A k \in 1..n : k \in 0..n /\ k # 0
    BY <1>0
  <2> QED
    BY <1>11, <2>1, Zenon
<1>14. \A k \in 0..n : p[k] \in S
  <2>1. \A k \in 1..n : p[k - 1] \in S => p[k] \in S
    BY <1>1, <1>13, Zenon
  <2>2. p[0] \in S
    BY <1>2, <1>13
  <2> QED
    BY <1>0, <2>1, <2>2, LoopStays
<1>15. p \in [0..n -> S]
  BY <1>12, <1>14, Zenon
<1>16. Turned(f, p)
  BY <1>10, <1>13, <1>15, Zenon DEF Turned, n, S
<1> QED
  BY <1>16

\* A whole frame has its checksum behind its length.
LEMMA WholeChecksum ==
  ASSUME NEW start, NEW f, NEW fr, IsLayout(start, f, fr), NEW i \in 1..Len(fr), fr[i].whole
  PROVE  f[start[i] + Header] \notin Plain
<1> DEFINE r == fr[i].rec
           w == Written(r)
<1>1. IsPiece(f, start[i], start[i + 1], fr[i])
  BY DEF IsLayout
<1>2. /\ r \in Inputs /\ start[i + 1] - start[i] = Len(w)
      /\ \A j \in 1..(start[i + 1] - start[i]) : f[start[i] + j] = w[j]
  BY <1>1 DEF IsPiece
<1>3. IsFrame(w, r)
  BY <1>2, FrameForm
<1>4. Header \in 1..Len(w) /\ w[Header] = <<-3, EncodeRecord(r)>>
  BY <1>3, SizeAssumption DEF IsFrame, Header
<1>5. f[start[i] + Header] = <<-3, EncodeRecord(r)>>
  BY <1>2, <1>4
<1> QED
  BY <1>5, Tokens

\* The records that were read are those of the frames which[1], which[2], ...
\* of the history: in order, with no whole frame passed over, and the reader has
\* not passed the checksum of a whole frame still to come.
Explains(start, fr, st, which) ==
  /\ which \in [1..Len(st.read) -> 1..Len(fr)]
  /\ \A k \in 1..Len(st.read) : st.read[k] = fr[which[k]].rec
  /\ \A k, l \in 1..Len(st.read) : k < l => which[k] < which[l]
  /\ \A k \in 1..Len(st.read) : \A i \in 1..which[k] :
       fr[i].whole => \E l \in 1..Len(st.read) : which[l] = i
  /\ \A k \in 1..Len(st.read) : start[which[k]] < st.at
  /\ \A i \in 1..Len(fr) :
       fr[i].whole /\ (\A k \in 1..Len(st.read) : which[k] < i) => st.at < start[i] + Header

\* Reading one more frame keeps the explanation.
LEMMA ReadingExplained ==
  ASSUME NEW start, NEW f, NEW fr, IsLayout(start, f, fr),
         NEW st \in States(f), NEW next, NEW m \in 1..Len(fr),
         ReadsFrame(start, f, fr, st, next, m), NEW which, Explains(start, fr, st, which)
  PROVE  \E w : Explains(start, fr, next, w)
<1> DEFINE n == Len(st.read)
           L == Len(EncodeRecord(fr[m].rec))
           w == [k \in 1..(n + 1) |-> IF k <= n THEN which[k] ELSE m]
<1>1. /\ st.at \in Nat /\ st.read \in Seq(Inputs) /\ n \in Nat /\ Header \in Nat
      /\ Len(fr) \in Nat /\ \A i \in 1..(Len(fr) + 1) : start[i] \in Nat
  BY Starts, SizeAssumption DEF States, Header
<1>2. /\ st.at = start[m] /\ fr[m].rec \in Inputs /\ L \in Nat \ {0}
      /\ next = [st EXCEPT !.at = st.at + Header + L, !.read = Append(st.read, fr[m].rec)]
      /\ \A j \in 1..L : f[st.at + Header + j] \in Plain
  BY DEF ReadsFrame
<1>3. next.at = st.at + Header + L /\ next.read = Append(st.read, fr[m].rec)
  BY <1>2 DEF States
<1>4. /\ Len(next.read) = n + 1 /\ next.read[n + 1] = fr[m].rec
      /\ \A k \in 1..n : next.read[k] = st.read[k]
  BY <1>1, <1>2, <1>3
<1> HIDE DEF L
<1>5. /\ which \in [1..n -> 1..Len(fr)]
      /\ \A k \in 1..n : st.read[k] = fr[which[k]].rec
      /\ \A k, l \in 1..n : k < l => which[k] < which[l]
      /\ \A k \in 1..n : \A i \in 1..which[k] : fr[i].whole => \E l \in 1..n : which[l] = i
      /\ \A k \in 1..n : start[which[k]] < st.at
      /\ \A i \in 1..Len(fr) :
           fr[i].whole /\ (\A k \in 1..n : which[k] < i) => st.at < start[i] + Header
  BY Zenon DEF Explains
<1> HIDE DEF n
<1>6. \A i, j \in 1..(Len(fr) + 1) : i < j => start[i] < start[j]
  BY StartsWithin
<1>7. ASSUME NEW k \in 1..n
      PROVE  which[k] \in 1..Len(fr) /\ which[k] < m
  <2>1. which[k] \in 1..Len(fr)
    BY <1>5
  <2>2. which[k] \in 1..(Len(fr) + 1) /\ m \in 1..(Len(fr) + 1)
    BY <1>1, <2>1
  <2>3. start[which[k]] < start[m]
    BY <1>2, <1>5
  <2>4. start[which[k]] \in Nat /\ start[m] \in Nat
    BY <1>1, <2>2
  <2>5. ~(m < which[k]) /\ m # which[k]
    BY <1>6, <2>2, <2>3, <2>4
  <2> QED
    BY <2>1, <2>5, <1>1
<1>8. w[n + 1] = m /\ \A k \in 1..n : w[k] = which[k]
  BY <1>1
<1>9. w \in [1..(n + 1) -> 1..Len(fr)]
  BY <1>1, <1>7
<1> HIDE DEF w
<1>10. \A k \in 1..(n + 1) : k \in 1..n \/ k = n + 1
  BY <1>1
<1>11. \A k \in 1..(n + 1) : next.read[k] = fr[w[k]].rec
  BY <1>4, <1>5, <1>8, <1>10
<1>12. ASSUME NEW k \in 1..(n + 1), NEW l \in 1..(n + 1), k < l
       PROVE  w[k] < w[l]
  <2>1. k \in 1..n
    BY <1>1, <1>12
  <2>2. CASE l \in 1..n
    BY <1>5, <1>8, <1>12, <2>1, <2>2
  <2>3. CASE l = n + 1
    BY <1>7, <1>8, <2>1, <2>3
  <2> QED
    BY <1>10, <2>2, <2>3
<1>13. ASSUME NEW k \in 1..(n + 1), NEW i \in 1..w[k], fr[i].whole
       PROVE  \E l \in 1..(n + 1) : w[l] = i
  <2>1. \A l \in 1..n : l \in 1..(n + 1)
    BY <1>1
  <2>2. ASSUME NEW l \in 1..n, i \in 1..which[l]
        PROVE  \E j \in 1..(n + 1) : w[j] = i
    <3>1. PICK j \in 1..n : which[j] = i
      BY <1>5, <1>13, <2>2
    <3> QED
      BY <1>8, <2>1, <3>1
  <2>3. CASE \E l \in 1..n : i \in 1..which[l]
    BY <2>2, <2>3
  <2>4. CASE i = m
    BY <1>1, <1>8, <2>4
  <2>5. CASE ~(\E l \in 1..n : i \in 1..which[l]) /\ i # m
    <3>1. k = n + 1 /\ i \in 1..m
      BY <1>8, <1>10, <1>13, <2>5
    <3>2. i \in 1..Len(fr) /\ i \in Nat /\ i >= 1 /\ i < m
      BY <1>1, <2>5, <3>1
    <3>3. \A l \in 1..n : which[l] < i
      BY <1>7, <2>5, <3>2
    <3>4. st.at < start[i] + Header
      BY <1>5, <1>13, <3>2, <3>3
    <3> DEFINE Li == Len(EncodeRecord(fr[i].rec))
    <3>5. start[i + 1] = start[i] + Header + Li /\ fr[i].rec \in Inputs
      <4>1. i \in 1..Len(fr) /\ fr[i].whole
        BY <1>13, <3>2
      <4> QED
        BY <4>1, WholeFrameAccepted
    <3>6. Li \in Nat
      BY <3>5, FrameForm DEF IsFrame
    <3> HIDE DEF Li
    <3>7. i + 1 \in 1..(Len(fr) + 1) /\ m \in 1..(Len(fr) + 1) /\ i \in 1..(Len(fr) + 1)
      BY <1>1, <3>2
    <3>8. i + 1 = m \/ i + 1 < m
      BY <3>2, <1>1
    <3>9. start[i + 1] \in Nat /\ start[m] \in Nat /\ start[i] \in Nat
      BY <1>1, <3>7
    <3>10. start[i + 1] <= start[m]
      BY <1>6, <3>7, <3>8, <3>9
    <3>11. Header \in Nat /\ start[m] < start[i] + Header
      BY <1>1, <1>2, <3>4
    <3> QED
      BY <3>5, <3>6, <3>9, <3>10, <3>11
  <2> QED
    BY <2>3, <2>4, <2>5
<1>14. ASSUME NEW k \in 1..(n + 1)
       PROVE  start[w[k]] < next.at
  <2>1. start[m] < next.at
    BY <1>1, <1>2, <1>3
  <2>2. CASE k = n + 1
    BY <1>8, <2>1, <2>2
  <2>3. CASE k \in 1..n
    <3>1. start[which[k]] < st.at
      BY <1>5, <2>3
    <3>2. which[k] \in 1..(Len(fr) + 1)
      BY <1>1, <1>7, <2>3
    <3>3. start[which[k]] \in Nat
      BY <1>1, <3>2
    <3>4. start[which[k]] < next.at
      <4>1. /\ st.at \in Nat /\ Header \in Nat /\ L \in Nat
            /\ next.at = st.at + Header + L
        BY <1>1, <1>2, <1>3
      <4> QED
        BY <3>1, <3>3, <4>1
    <3> QED
      BY <1>8, <2>3, <3>4
  <2> QED
    BY <1>10, <2>2, <2>3
<1>15. ASSUME NEW i \in 1..Len(fr), fr[i].whole, \A k \in 1..(n + 1) : w[k] < i
       PROVE  next.at < start[i] + Header
  <2> SUFFICES ASSUME ~(next.at < start[i] + Header) PROVE FALSE
    OBVIOUS
  <2>1. m < i /\ m \in 1..(Len(fr) + 1) /\ i \in 1..(Len(fr) + 1)
    BY <1>1, <1>8, <1>15
  <2>2. start[m] < start[i] /\ start[i] \in Nat
    BY <1>1, <1>6, <2>1
  <2> DEFINE j == start[i] - start[m]
  <2>3. j \in 1..L /\ st.at + Header + j = start[i] + Header
    <3>1. /\ st.at \in Nat /\ Header \in Nat /\ L \in Nat /\ st.at = start[m]
          /\ next.at = st.at + Header + L
      BY <1>1, <1>2, <1>3
    <3> QED
      BY <2>2, <3>1
  <2>4. f[start[i] + Header] \in Plain
    BY <1>2, <2>3
  <2> QED
    BY <1>15, <2>4, WholeChecksum
<1>16. Explains(start, fr, next, w)
  BY <1>4, <1>9, <1>11, <1>12, <1>13, <1>14, <1>15 DEF Explains
<1> QED
  BY <1>16

\* What holds of the state of the loop after every turn.
LoopInv(start, f, fr, st) ==
  /\ \E which : Explains(start, fr, st, which)
  /\ st.failed => st.over /\ ZeroHeader(f, st.at)

\* Replay ends in such a state.
LEMMA ReplayKeeps ==
  ASSUME NEW start, NEW f, NEW fr, IsLayout(start, f, fr)
  PROVE  LoopInv(start, f, fr, Replay(f)) /\ Replay(f) \in States(f)
<1> DEFINE n == Len(f)
<1>1. PICK after : Turned(f, after)
  BY ReplayTurns
<1>2. n \in Nat /\ Len(fr) \in Nat
  BY Starts
<1>3. /\ after \in [0..n -> States(f)] /\ after[0] = Beginning /\ Replay(f) = after[n]
      /\ \A k \in 1..n : after[k] = Turn(f, after[k - 1])
  BY <1>1, Zenon DEF Turned
<1> HIDE DEF n
<1> DEFINE G == {k \in 0..n : LoopInv(start, f, fr, after[k])}
<1>4. 0 \in G
  <2> DEFINE which == [k \in 1..0 |-> 1]
  <2>1. Len(after[0].read) = 0 /\ ~after[0].failed /\ after[0].at = 0
    BY <1>3 DEF Beginning
  <2>2. 1..0 = {}
    OBVIOUS
  <2>3. \A i \in 1..Len(fr) : after[0].at < start[i] + Header
    <3> SUFFICES ASSUME NEW i \in 1..Len(fr)
                 PROVE  0 < start[i] + Header
      BY <2>1
    <3>1. start[i] \in Nat /\ Header \in Nat \ {0}
      <4>1. i \in 1..(Len(fr) + 1)
        BY <1>2
      <4> QED
        BY <4>1, Starts, SizeAssumption DEF Header
    <3> QED
      BY <3>1
  <2>4. Explains(start, fr, after[0], which)
    BY <2>1, <2>2, <2>3 DEF Explains
  <2> QED
    BY <1>2, <2>1, <2>4 DEF LoopInv
<1>5. ASSUME NEW k \in 1..n, k - 1 \in G
      PROVE  k \in G
  <2> DEFINE st == after[k - 1]
             next == after[k]
  <2>1. st \in States(f) /\ next = Turn(f, st)
    BY <1>2, <1>3
  <2>2. LoopInv(start, f, fr, st)
    BY <1>5
  <2> HIDE DEF st, next
  <2>3. PICK which : Explains(start, fr, st, which)
    BY <2>2 DEF LoopInv
  <2>4. ASSUME next.read = st.read, next.at = st.at
        PROVE  Explains(start, fr, next, which)
    BY <2>3, <2>4 DEF Explains
  <2>5. LoopInv(start, f, fr, next)
    <3>1. CASE st.over
      BY <2>1, <2>2, <3>1 DEF Turn
    <3>2. CASE ~st.over
      <4>1. CASE next = [st EXCEPT !.over = TRUE]
        <5>1. /\ next.read = st.read /\ next.at = st.at
              /\ next.failed = st.failed /\ next.over
          BY <2>1, <4>1 DEF States
        <5> QED
          BY <2>2, <2>4, <5>1 DEF LoopInv
      <4>2. CASE next = [st EXCEPT !.over = TRUE, !.failed = TRUE] /\ ZeroHeader(f, st.at)
        <5>1. next.read = st.read /\ next.at = st.at /\ next.over
          BY <2>1, <4>2 DEF States
        <5> QED
          BY <2>4, <4>2, <5>1 DEF LoopInv
      <4>3. ASSUME NEW i \in 1..Len(fr), ReadsFrame(start, f, fr, st, next, i)
            PROVE  LoopInv(start, f, fr, next)
        <5>1. \E w : Explains(start, fr, next, w)
          BY <2>1, <2>3, <4>3, ReadingExplained
        <5>2. ~next.failed
          <6>1. ~st.failed
            BY <2>2, <3>2 DEF LoopInv
          <6> QED
            BY <2>1, <4>3, <6>1 DEF ReadsFrame, States
        <5> QED
          BY <5>1, <5>2 DEF LoopInv
      <4> QED
        BY <2>1, <3>2, <4>1, <4>2, <4>3, TurnCases
    <3> QED
      BY <3>1, <3>2
  <2> QED
    BY <2>5 DEF next
<1>6. \A k \in 0..n : k \in G
  <2>1. \A k \in 1..n : k - 1 \in G => k \in G
    BY <1>5
  <2> HIDE DEF G
  <2> QED
    BY <1>2, <1>4, <2>1, Induction
<1> QED
  BY <1>2, <1>3, <1>6

\* At a whole frame the loop reads its record and moves behind it.
LEMMA WholeFrameRead ==
  ASSUME NEW start, NEW f, NEW fr, IsLayout(start, f, fr), NEW st \in States(f), ~st.over,
         NEW m \in 1..Len(fr), fr[m].whole, st.at = start[m]
  PROVE  /\ Turn(f, st).at = start[m + 1] /\ ~Turn(f, st).over
         /\ Turn(f, st).read = Append(st.read, fr[m].rec)
<1> DEFINE r == fr[m].rec
           R == EncodeRecord(r)
           record == DecodeRecord(R)
<1>1. /\ r \in Inputs /\ start[m + 1] = start[m] + Header + Len(R)
      /\ DecodeFrame(f, start[m]) = [ok |-> TRUE, body |-> R]
  BY WholeFrameAccepted
<1>2. IsRecord(r) /\ IsFrame(Written(r), r)
  BY <1>1, FrameForm
<1>3. R \in Seq(Plain) /\ Len(R) \in Nat /\ r = [op |-> r.op, fields |-> r.fields]
  BY <1>2 DEF IsFrame, IsRecord
<1>4. Begins(R, EncodeRecord(r))
  BY <1>3 DEF Begins
<1>5. record.ok /\ record.op = r.op /\ record.fields = r.fields
  <2> HIDE DEF r
  <2> QED
    BY <1>2, <1>3, <1>4, RecordRoundTrip
<1>6. Turn(f, st) = Applied(st, [ok |-> TRUE, body |-> R], record)
  BY <1>1 DEF Turn
<1> HIDE DEF record, R, r
<1>7. Turn(f, st) = [st EXCEPT !.at = st.at + Header + Len(R),
                               !.read = Append(st.read, [op |-> record.op, fields |-> record.fields])]
  BY <1>5, <1>6 DEF Applied
<1>8. [op |-> record.op, fields |-> record.fields] = r
  BY <1>3, <1>5
<1>9. Turn(f, st) = [st EXCEPT !.at = st.at + Header + Len(R), !.read = Append(st.read, r)]
  BY <1>7, <1>8
<1>10. /\ Turn(f, st).at = st.at + Header + Len(R) /\ Turn(f, st).over = st.over
       /\ Turn(f, st).read = Append(st.read, r)
  BY <1>9 DEF States
<1> QED
  BY <1>1, <1>10 DEF r, R

\* The loop has read the first k frames, all of them whole, and nothing else.
HasRead(start, fr, st, k) ==
  /\ ~st.over /\ st.at = start[k + 1] /\ Len(st.read) = k
  /\ \A i \in 1..k : st.read[i] = fr[i].rec

\* As long as the frames are whole, each turn reads one.
LEMMA GoodTurns ==
  ASSUME NEW start, NEW f, NEW fr, IsLayout(start, f, fr), NEW after, Turned(f, after),
         NEW g \in 0..Len(fr), \A i \in 1..g : fr[i].whole
  PROVE  g <= Len(f) /\ HasRead(start, fr, after[g], g)
<1> DEFINE n == Len(f)
<1>1. n \in Nat /\ Len(fr) \in Nat /\ g <= n
  <2>1. n \in Nat /\ Len(fr) \in Nat
    BY Starts
  <2>2. Len(fr) + 1 \in 1..(Len(fr) + 1)
    BY <2>1
  <2>3. Len(fr) + 1 - 1 <= start[Len(fr) + 1]
    BY <2>2, StartsWithin
  <2>4. start[Len(fr) + 1] = n
    BY DEF IsLayout
  <2> QED
    BY <2>1, <2>3, <2>4
<1>2. /\ after \in [0..n -> States(f)] /\ after[0] = Beginning
      /\ \A k \in 1..n : after[k] = Turn(f, after[k - 1])
  BY Zenon DEF Turned
<1> HIDE DEF n
<1> DEFINE G == {k \in 0..g : HasRead(start, fr, after[k], k)}
<1>3. 0 \in G
  <2>1. Len(after[0].read) = 0 /\ ~after[0].over /\ after[0].at = 0
    BY <1>2 DEF Beginning
  <2>2. start[0 + 1] = 0
    BY DEF IsLayout
  <2>3. HasRead(start, fr, after[0], 0)
    BY <2>1, <2>2 DEF HasRead
  <2> QED
    BY <2>3
<1>4. ASSUME NEW k \in 1..g, k - 1 \in G
      PROVE  k \in G
  <2> DEFINE st == after[k - 1]
             next == after[k]
  <2>1. k \in 1..Len(fr) /\ k \in 1..n /\ k - 1 \in 0..n /\ (k - 1) + 1 = k /\ k \in Nat
    BY <1>1
  <2>2. st \in States(f) /\ next = Turn(f, st)
    BY <1>2, <2>1
  <2>3. HasRead(start, fr, st, k - 1)
    BY <1>4
  <2> HIDE DEF st, next
  <2>4. ~st.over /\ st.at = start[k] /\ Len(st.read) = k - 1
    BY <2>1, <2>3 DEF HasRead
  <2>5. fr[k].whole
    BY <1>4
  <2>6. /\ next.at = start[k + 1] /\ ~next.over
        /\ next.read = Append(st.read, fr[k].rec)
    <3>1. k \in 1..Len(fr)
      BY <2>1
    <3> QED
      BY <2>2, <2>4, <2>5, <3>1, WholeFrameRead
  <2>7. fr[k].rec \in Inputs
    BY <2>1, <2>5, WholeFrameAccepted
  <2>8. st.read \in Seq(Inputs)
    BY <2>2 DEF States
  <2>9. /\ Len(next.read) = k /\ next.read[k] = fr[k].rec
        /\ \A i \in 1..(k - 1) : next.read[i] = st.read[i]
    BY <2>1, <2>4, <2>6, <2>7, <2>8
  <2>10. \A i \in 1..(k - 1) : st.read[i] = fr[i].rec
    BY <2>3 DEF HasRead
  <2>11. ASSUME NEW i \in 1..k
         PROVE  next.read[i] = fr[i].rec
    <3>1. i = k \/ i \in 1..(k - 1)
      BY <2>1
    <3> QED
      BY <2>9, <2>10, <3>1
  <2>12. HasRead(start, fr, next, k)
    BY <2>6, <2>9, <2>11 DEF HasRead
  <2> QED
    BY <2>1, <2>12 DEF next
<1>5. \A k \in 0..g : k \in G
  <2>1. \A k \in 1..g : k - 1 \in G => k \in G
    BY <1>4
  <2>2. g \in Nat
    OBVIOUS
  <2> HIDE DEF G
  <2> QED
    BY <1>3, <2>1, <2>2, Induction
<1>6. g \in G
  BY <1>5
<1> QED
  BY <1>1, <1>6 DEF n

\* No turn takes back what was read.
LEMMA ReadingGrows ==
  ASSUME NEW start, NEW f, NEW fr, IsLayout(start, f, fr), NEW st \in States(f)
  PROVE  Begins(st.read, Turn(f, st).read)
<1> DEFINE next == Turn(f, st)
<1>1. st.read \in Seq(Inputs) /\ Len(st.read) \in Nat
  BY DEF States
<1>2. Begins(st.read, st.read)
  BY <1>1 DEF Begins
<1>3. CASE st.over
  BY <1>2, <1>3 DEF Turn
<1>4. CASE ~st.over
  <2>1. CASE next = [st EXCEPT !.over = TRUE]
    <3> HIDE DEF next
    <3>1. next.read = st.read
      BY <2>1 DEF States
    <3> QED
      BY <1>2, <3>1 DEF next
  <2>2. CASE next = [st EXCEPT !.over = TRUE, !.failed = TRUE]
    <3> HIDE DEF next
    <3>1. next.read = st.read
      BY <2>2 DEF States
    <3> QED
      BY <1>2, <3>1 DEF next
  <2>3. ASSUME NEW i \in 1..Len(fr), ReadsFrame(start, f, fr, st, next, i)
        PROVE  Begins(st.read, next.read)
    <3> HIDE DEF next
    <3>1. next.read = Append(st.read, fr[i].rec)
      BY <2>3 DEF ReadsFrame, States
    <3>2. fr[i].rec \in Inputs
      BY <2>3 DEF ReadsFrame
    <3> QED
      BY <1>1, <3>1, <3>2 DEF Begins
  <2> QED
    BY <1>4, <2>1, <2>2, <2>3, TurnCases
<1> QED
  BY <1>3, <1>4

\* Replay reads every frame before the first damaged one, as it was written.
LEMMA ReplayReads ==
  ASSUME NEW start, NEW f, NEW fr, IsLayout(start, f, fr),
         NEW g \in 0..Len(fr), \A i \in 1..g : fr[i].whole
  PROVE  /\ Replay(f).read \in Seq(Inputs) /\ g <= Len(Replay(f).read)
         /\ \A i \in 1..g : Replay(f).read[i] = fr[i].rec
<1> DEFINE n == Len(f)
<1>1. PICK after : Turned(f, after)
  BY ReplayTurns
<1>2. n \in Nat /\ Len(fr) \in Nat
  BY Starts
<1>3. /\ after \in [0..n -> States(f)] /\ Replay(f) = after[n]
      /\ \A k \in 1..n : after[k] = Turn(f, after[k - 1])
  BY <1>1, Zenon DEF Turned
<1>4. g <= n /\ HasRead(start, fr, after[g], g)
  BY <1>1, GoodTurns
<1> HIDE DEF n
<1>5. \A k \in 0..n : after[k].read \in Seq(Inputs) /\ Len(after[k].read) \in Nat
  BY <1>3 DEF States
<1> DEFINE m == n - g
           G == {d \in 0..m : Begins(after[g].read, after[g + d].read)}
<1>6. m \in Nat
  BY <1>2, <1>4
<1>7. 0 \in G
  <2>1. Len(after[g].read) \in Nat /\ g + 0 = g
    BY <1>2, <1>4, <1>5
  <2> QED
    BY <1>6, <2>1 DEF Begins
<1>8. ASSUME NEW d \in 1..m, d - 1 \in G
      PROVE  d \in G
  <2>1. /\ g + d \in 1..n /\ g + (d - 1) \in 0..n /\ (g + d) - 1 = g + (d - 1)
        /\ g \in 0..n /\ g + d \in 0..n /\ d \in 0..m
    BY <1>2, <1>4
  <2>2. after[g + d] = Turn(f, after[g + (d - 1)])
    BY <1>3, <2>1
  <2> DEFINE s == after[g].read
             t == after[g + (d - 1)].read
             u == after[g + d].read
  <2>3. Begins(s, t)
    BY <1>8
  <2>4. Begins(t, u)
    BY <1>3, <2>1, <2>2, ReadingGrows
  <2>5. Len(s) \in Nat /\ Len(t) \in Nat /\ Len(u) \in Nat
    BY <1>5, <2>1
  <2> HIDE DEF s, t, u
  <2>6. Begins(s, u)
    BY <2>3, <2>4, <2>5 DEF Begins
  <2> QED
    BY <2>1, <2>6 DEF s, u
<1>9. \A d \in 0..m : d \in G
  <2>1. \A d \in 1..m : d - 1 \in G => d \in G
    BY <1>8
  <2> HIDE DEF G, m
  <2> QED
    BY <1>6, <1>7, <2>1, Induction
<1>10. Begins(after[g].read, Replay(f).read)
  <2>1. m \in 0..m /\ g + m = n
    BY <1>2, <1>6
  <2> QED
    BY <1>3, <1>9, <2>1
<1>11. Replay(f).read \in Seq(Inputs)
  BY <1>2, <1>3, <1>5
<1> QED
  BY <1>4, <1>10, <1>11 DEF HasRead, Begins

----------------------------------------------------------------------------
\* The file.

\* What is appended becomes one more piece.
LEMMA LayoutGrows ==
  ASSUME NEW start, NEW f, NEW fr, IsLayout(start, f, fr),
         NEW tokens \in Seq(Token), Len(tokens) # 0,
         NEW frame \in [rec : Inputs \cup {NoRecord}, whole : BOOLEAN],
         IsPiece(tokens, 0, Len(tokens), frame)
  PROVE  \E s : IsLayout(s, f \o tokens, Append(fr, frame))
<1> DEFINE n == Len(fr)
           L == Len(tokens)
           f2 == f \o tokens
           fr2 == Append(fr, frame)
           s == [i \in 1..(n + 2) |-> IF i <= n + 1 THEN start[i] ELSE Len(f) + L]
<1>1. /\ f \in Seq(Token) /\ fr \in History /\ n \in Nat /\ Len(f) \in Nat /\ L \in Nat \ {0}
      /\ \A i \in 1..(n + 1) : start[i] \in Nat
  <2>1. f \in Seq(Token) /\ fr \in History
    BY DEF IsLayout
  <2> QED
    BY <2>1, Starts
<1>2. /\ start[1] = 0 /\ start[n + 1] = Len(f)
      /\ \A i \in 1..n : start[i] < start[i + 1]
      /\ \A i \in 1..n : IsPiece(f, start[i], start[i + 1], fr[i])
  BY DEF IsLayout
<1>3. IsJoin(f2, Token, f, tokens)
  BY <1>1, Joined
<1>4. /\ fr2 \in History /\ Len(fr2) = n + 1 /\ fr2[n + 1] = frame
      /\ \A i \in 1..n : fr2[i] = fr[i]
  BY <1>1 DEF History
<1> HIDE DEF n, L, f2, fr2
<1>5. /\ f2 \in Seq(Token) /\ Len(f2) = Len(f) + L
      /\ \A i \in 1..Len(f) : f2[i] = f[i]
      /\ \A i \in 1..L : f2[Len(f) + i] = tokens[i]
  BY <1>3 DEF IsJoin, L
<1>6. \A i \in 1..(n + 1) : s[i] = start[i]
  BY <1>1
<1>7. s[n + 2] = Len(f) + L /\ s[(n + 1) + 1] = Len(f) + L
  BY <1>1
<1>8. s \in [1..((n + 1) + 1) -> Nat]
  BY <1>1
<1> HIDE DEF s
<1>9. \A i \in 1..(n + 1) : i = n + 1 \/ (i \in 1..n /\ i + 1 \in 1..(n + 1))
  BY <1>1
<1>10. ASSUME NEW i \in 1..(n + 1)
       PROVE  s[i] < s[i + 1]
  <2>1. CASE i = n + 1
    BY <1>1, <1>2, <1>6, <1>7, <2>1
  <2>2. CASE i \in 1..n /\ i + 1 \in 1..(n + 1)
    BY <1>2, <1>6, <2>2
  <2> QED
    BY <1>9, <2>1, <2>2
<1>11. ASSUME NEW i \in 1..(n + 1)
       PROVE  IsPiece(f2, s[i], s[i + 1], fr2[i])
  <2>1. CASE i = n + 1
    <3>1. s[i] = Len(f) /\ s[i + 1] = Len(f) + L /\ fr2[i] = frame
      BY <1>2, <1>4, <1>6, <1>7, <2>1
    <3>2. (Len(f) + L) - Len(f) = L /\ L - 0 = L /\ \A j \in 1..L : 0 + j = j
      BY <1>1
    <3>3. IsPiece(f2, Len(f), Len(f) + L, frame)
      <4>1. CASE /\ frame.rec \in Inputs
                 /\ L <= Len(Written(frame.rec))
                 /\ frame.whole <=> L = Len(Written(frame.rec))
                 /\ \A j \in 1..L : tokens[j] = Written(frame.rec)[j]
        BY <1>5, <3>2, <4>1 DEF IsPiece
      <4>2. CASE /\ frame.rec = NoRecord /\ ~frame.whole
                 /\ \A j \in 1..L : tokens[j] = Zero
        BY <1>5, <3>2, <4>2 DEF IsPiece
      <4> QED
        BY <3>2, <4>1, <4>2 DEF IsPiece, L
    <3> QED
      BY <3>1, <3>3
  <2>2. CASE i \in 1..n /\ i + 1 \in 1..(n + 1)
    <3>1. s[i] = start[i] /\ s[i + 1] = start[i + 1] /\ fr2[i] = fr[i]
      BY <1>4, <1>6, <2>2
    <3>2. start[i] \in Nat /\ start[i + 1] \in Nat /\ start[i + 1] <= Len(f)
      BY <1>1, <2>2, StartsWithin DEF n
    <3>3. \A j \in 1..(start[i + 1] - start[i]) : start[i] + j \in 1..Len(f)
      BY <1>1, <3>2
    <3>4. \A j \in 1..(start[i + 1] - start[i]) : f2[start[i] + j] = f[start[i] + j]
      BY <1>5, <3>3
    <3>5. IsPiece(f, start[i], start[i + 1], fr[i])
      BY <1>2, <2>2
    <3>6. IsPiece(f2, start[i], start[i + 1], fr[i])
      BY <3>4, <3>5 DEF IsPiece
    <3> QED
      BY <3>1, <3>6
  <2> QED
    BY <1>9, <2>1, <2>2
<1>12. s[1] = 0 /\ s[(n + 1) + 1] = Len(f2)
  <2>1. 1 \in 1..(n + 1)
    BY <1>1
  <2> QED
    BY <1>2, <1>5, <1>6, <1>7, <2>1, Zenon
<1>13. IsLayout(s, f2, fr2)
  BY <1>4, <1>5, <1>8, <1>10, <1>11, <1>12 DEF IsLayout
<1> QED
  BY <1>13 DEF f2, fr2

\* The inductive invariant: the file is made of whole frames, beginnings of
\* frames, and zeros, one for each entry of the history, in its order.
Layout == \E start : IsLayout(start, file, frames)

\* Each write keeps the file so.
LEMMA WriteKeepsLayout ==
  ASSUME Layout, NEW tokens \in Seq(Token), Len(tokens) # 0,
         NEW frame \in [rec : Inputs \cup {NoRecord}, whole : BOOLEAN],
         IsPiece(tokens, 0, Len(tokens), frame), Writes(tokens, frame)
  PROVE  Layout'
<1>1. PICK start : IsLayout(start, file, frames)
  BY DEF Layout
<1>2. file' = file \o tokens /\ frames' = Append(frames, frame)
  BY DEF Writes
<1>3. \E s : IsLayout(s, file \o tokens, Append(frames, frame))
  BY <1>1, LayoutGrows
<1>4. \E s : IsLayout(s, file', frames')
  BY <1>2, <1>3
<1> QED
  BY <1>4 DEF Layout

\* So does every step.
LEMMA LayoutStep ==
  ASSUME Layout, [Next]_vars
  PROVE  Layout'
<1> USE SizeAssumption
<1>1. ASSUME NEW r \in Inputs, WriteFrame(r)
      PROVE  Layout'
  <2> DEFINE w == Written(r)
             frame == [rec |-> r, whole |-> TRUE]
  <2>1. IsFrame(w, r)
    BY FrameForm
  <2>2. w \in Seq(Token) /\ Len(w) \in Nat /\ Len(w) # 0
    BY <2>1 DEF IsFrame, Header
  <2>3. Writes(w, frame)
    BY <1>1 DEF WriteFrame, Written
  <2>4. frame \in [rec : Inputs \cup {NoRecord}, whole : BOOLEAN] /\ frame.rec = r /\ frame.whole
    OBVIOUS
  <2>5. IsPiece(w, 0, Len(w), frame)
    <3> HIDE DEF frame
    <3>1. w = Written(frame.rec) /\ frame.rec \in Inputs
      BY <2>4
    <3> HIDE DEF w
    <3> QED
      BY <2>2, <2>4, <3>1 DEF IsPiece
  <2> HIDE DEF w, frame
  <2> QED
    BY <2>2, <2>3, <2>4, <2>5, WriteKeepsLayout
<1>2. ASSUME NEW r \in Inputs, TearFrame(r)
      PROVE  Layout'
  <2> DEFINE w == Written(r)
             frame == [rec |-> r, whole |-> FALSE]
  <2>1. IsFrame(w, r)
    BY FrameForm
  <2>2. w \in Seq(Token) /\ Len(w) \in Nat
    BY <2>1 DEF IsFrame
  <2>3. PICK n \in 1..(Len(w) - 1) : Writes(SubSeq(w, 1, n), frame)
    BY <1>2 DEF TearFrame, Written
  <2>4. frame \in [rec : Inputs \cup {NoRecord}, whole : BOOLEAN] /\ frame.rec = r /\ ~frame.whole
    OBVIOUS
  <2> DEFINE p == SubSeq(w, 1, n)
  <2>5. n \in Nat /\ n # 0 /\ n < Len(w) /\ 0 + n <= Len(w) /\ 0 + 1 = 1 /\ 0 + n = n
    BY <2>2
  <2> HIDE DEF w, frame
  <2>6. p \in Seq(Token) /\ Len(p) = n /\ \A i \in 1..n : p[i] = w[i]
    BY <2>2, <2>5
  <2> HIDE DEF p
  <2>7. IsPiece(p, 0, Len(p), frame)
    <3>1. w = Written(frame.rec) /\ frame.rec \in Inputs
      BY <2>4 DEF w
    <3>2. Len(p) - 0 = n /\ n <= Len(w) /\ n # Len(w) /\ \A i \in 1..n : p[0 + i] = w[i]
      BY <2>2, <2>5, <2>6
    <3> QED
      BY <2>4, <3>1, <3>2 DEF IsPiece
  <2>8. Len(p) # 0 /\ Writes(p, frame)
    BY <2>3, <2>5, <2>6 DEF p
  <2> QED
    BY <2>4, <2>6, <2>7, <2>8, WriteKeepsLayout
<1>3. CASE ZeroFill
  <2> DEFINE frame == [rec |-> NoRecord, whole |-> FALSE]
  <2>1. PICK n \in 1..(Header + 1) : Writes([i \in 1..n |-> Zero], frame)
    BY <1>3 DEF ZeroFill
  <2> DEFINE z == [i \in 1..n |-> Zero]
  <2>2. n \in Nat /\ n # 0 /\ Header \in Nat
    BY DEF Header
  <2>3. Zero \in Token
    BY Tokens
  <2>4. z \in Seq(Token) /\ Len(z) = n /\ \A i \in 1..n : z[i] = Zero
    BY <2>2, <2>3
  <2>5. /\ frame \in [rec : Inputs \cup {NoRecord}, whole : BOOLEAN]
        /\ frame.rec = NoRecord /\ ~frame.whole
    OBVIOUS
  <2> HIDE DEF z, frame
  <2>6. IsPiece(z, 0, Len(z), frame)
    <3>1. Len(z) - 0 = n /\ \A i \in 1..n : 0 + i = i
      BY <2>2, <2>4
    <3> QED
      BY <2>4, <2>5, <3>1 DEF IsPiece
  <2>7. Writes(z, frame) /\ Len(z) # 0
    BY <2>1, <2>2, <2>4 DEF z
  <2> QED
    BY <2>4, <2>5, <2>6, <2>7, WriteKeepsLayout
<1>4. CASE UNCHANGED vars
  BY <1>4 DEF vars, Layout
<1> QED
  BY <1>1, <1>2, <1>3, <1>4 DEF Next

\* In every state of the log, the file is made of whole frames, beginnings of
\* frames and zeros, as the write calls of WAL.run and the crashes between
\* them left them, and of nothing else.
THEOREM LayoutInvariance == Spec => []Layout
<1>1. Init => Layout
  <2> SUFFICES ASSUME Init PROVE Layout
    OBVIOUS
  <2> DEFINE start == [i \in 1..1 |-> 0]
  <2>1. file = <<>> /\ frames = <<>> /\ Len(file) = 0 /\ Len(frames) = 0
    BY DEF Init
  <2>2. file \in Seq(Token) /\ frames \in History
    BY <2>1 DEF History
  <2>3. start \in [1..(0 + 1) -> Nat] /\ start[1] = 0 /\ start[0 + 1] = 0 /\ 1..0 = {}
    OBVIOUS
  <2> HIDE DEF start
  <2>4. IsLayout(start, file, frames)
    BY <2>1, <2>2, <2>3 DEF IsLayout
  <2> QED
    BY <2>4 DEF Layout
<1>2. Layout /\ [Next]_vars => Layout'
  BY LayoutStep
<1> QED
  BY <1>1, <1>2, PTL DEF Spec

\* There is a first damaged frame, or none.
LEMMA GoodFramesExist ==
  ASSUME Layout
  PROVE  GoodFrames \in 0..Len(frames) /\ \A i \in 1..GoodFrames : frames[i].whole
<1> DEFINE n == Len(frames)
           T == {k \in 0..n : k < n => ~frames[k + 1].whole}
           IsGood(k) == /\ \A i \in 1..k : frames[i].whole
                        /\ k < n => ~frames[k + 1].whole
<1>1. n \in Nat
  BY Starts DEF Layout
<1> HIDE DEF n
<1>2. n \in T
  BY <1>1
<1>3. PICK k \in T : \A m \in T : k <= m
  <2>1. T \subseteq Nat /\ T # {}
    BY <1>2
  <2> HIDE DEF T
  <2> QED
    BY <2>1, LeastNatural
<1>4. k \in 0..n /\ (k < n => ~frames[k + 1].whole)
  OBVIOUS
<1>5. ASSUME NEW i \in 1..k
      PROVE  frames[i].whole
  <2>1. i - 1 \in 0..n /\ i - 1 < n /\ (i - 1) + 1 = i /\ ~(k <= i - 1)
    BY <1>1, <1>4
  <2>2. i - 1 \notin T
    BY <1>3, <2>1
  <2> QED
    BY <2>1, <2>2
<1>6. \E m \in 0..n : IsGood(m)
  BY <1>4, <1>5
<1>7. GoodFrames = CHOOSE m \in 0..n : IsGood(m)
  BY DEF GoodFrames, n
<1> HIDE DEF IsGood
<1>8. GoodFrames \in 0..n /\ IsGood(GoodFrames)
  BY <1>6, <1>7
<1> QED
  BY <1>8 DEF IsGood, n

\* "We stop cleanly and keep the good prefix" (WAL.Replay), for any number of
\* frames, of records of any size, torn anywhere: what was written before the
\* first damaged frame is read back as it was, whatever lies behind it.
THEOREM GoodPrefixIsRead == Spec => []ReadsGoodPrefix
<1>1. Layout => ReadsGoodPrefix
  <2> SUFFICES ASSUME Layout PROVE ReadsGoodPrefix
    OBVIOUS
  <2> DEFINE g == GoodFrames
             read == Replay(file).read
  <2>1. PICK start : IsLayout(start, file, frames)
    BY DEF Layout
  <2>2. g \in 0..Len(frames) /\ \A i \in 1..g : frames[i].whole
    BY GoodFramesExist
  <2>3. Len(frames) \in Nat
    BY <2>1, Starts
  <2> HIDE DEF g
  <2>4. /\ read \in Seq(Inputs) /\ g <= Len(read)
        /\ \A i \in 1..g : read[i] = frames[i].rec
    BY <2>1, <2>2, ReplayReads
  <2> HIDE DEF read
  <2>5. g \in Nat /\ Len(read) \in Nat
    BY <2>2, <2>3, <2>4
  <2> DEFINE p == [i \in 1..g |-> frames[i].rec]
             q == SubSeq(read, 1, g)
  <2>6. \A i \in 1..g : read[i] \in Inputs
    BY <2>4, <2>5
  <2>7. \A i \in 1..g : frames[i].rec \in Inputs
    BY <2>4, <2>6
  <2>8. p \in [1..g -> Inputs]
    BY <2>7
  <2>9. p \in Seq(Inputs) /\ Len(p) = g /\ \A i \in 1..g : p[i] = frames[i].rec
    BY <2>5, <2>8
  <2>10. q \in Seq(Inputs) /\ Len(q) = g /\ \A i \in 1..g : q[i] = read[i]
    BY <2>4, <2>5
  <2>11. SubSeq(p, 1, g) = p
    <3> HIDE DEF p
    <3>1. /\ SubSeq(p, 1, g) \in Seq(Inputs) /\ Len(SubSeq(p, 1, g)) = g
          /\ \A i \in 1..g : SubSeq(p, 1, g)[i] = p[i]
      BY <2>5, <2>9
    <3> QED
      BY <2>9, <3>1, SameSequence
  <2>12. p = q
    <3> HIDE DEF p, q
    <3> QED
      BY <2>4, <2>9, <2>10, SameSequence
  <2>13. GoodPrefix = p
    BY DEF GoodPrefix, g
  <2> HIDE DEF p
  <2>14. Len(p) <= Len(read) /\ SubSeq(p, 1, Len(p)) = SubSeq(read, 1, Len(p))
    BY <2>4, <2>9, <2>11, <2>12
  <2> QED
    BY <2>13, <2>14 DEF ReadsGoodPrefix, IsPrefix, read
<1> QED
  BY <1>1, LayoutInvariance, PTL

\* Recovery invents nothing, wherever frames are torn and whatever is appended
\* behind them: the records that WAL.Replay hands to applyRecord were written,
\* in that order, and none but damaged frames are missing between them.
THEOREM NothingIsInvented == Spec => []InventsNothing
<1>1. Layout => InventsNothing
  <2> SUFFICES ASSUME Layout PROVE InventsNothing
    OBVIOUS
  <2> DEFINE read == Replay(file).read
  <2>1. PICK start : IsLayout(start, file, frames)
    BY DEF Layout
  <2>2. LoopInv(start, file, frames, Replay(file)) /\ Replay(file) \in States(file)
    BY <2>1, ReplayKeeps
  <2>3. PICK which : Explains(start, frames, Replay(file), which)
    BY <2>2 DEF LoopInv
  <2>4. read \in Seq(Inputs)
    BY <2>2 DEF States
  <2>5. frames \in History
    BY <2>1 DEF IsLayout
  <2>6. DOMAIN read = 1..Len(read) /\ DOMAIN frames = 1..Len(frames)
    BY <2>4, <2>5 DEF History
  <2>7. /\ which \in [1..Len(read) -> 1..Len(frames)]
        /\ \A k \in 1..Len(read) : read[k] = frames[which[k]].rec
        /\ \A k, l \in 1..Len(read) : k < l => which[k] < which[l]
        /\ \A k \in 1..Len(read) : \A i \in 1..which[k] :
             frames[i].whole => \E l \in 1..Len(read) : which[l] = i
    BY <2>3, Zenon DEF Explains
  <2>8. InventsNothing <=>
          \E w \in [DOMAIN read -> DOMAIN frames] :
            /\ \A k \in DOMAIN read : read[k] = frames[w[k]].rec
            /\ \A k, l \in DOMAIN read : k < l => w[k] < w[l]
            /\ \A k \in DOMAIN read : \A i \in 1..w[k] :
                 frames[i].whole => \E l \in DOMAIN read : w[l] = i
    BY Zenon DEF InventsNothing
  <2> HIDE DEF read
  <2>9. which \in [DOMAIN read -> DOMAIN frames]
    BY <2>6, <2>7
  <2>10. /\ \A k \in DOMAIN read : read[k] = frames[which[k]].rec
         /\ \A k, l \in DOMAIN read : k < l => which[k] < which[l]
         /\ \A k \in DOMAIN read : \A i \in 1..which[k] :
              frames[i].whole => \E l \in DOMAIN read : which[l] = i
    BY <2>6, <2>7
  <2> QED
    BY <2>8, <2>9, <2>10, Zenon
<1> QED
  BY <1>1, LayoutInvariance, PTL

\* NewQueue fails on a log for one reason only, a header of zeros where a frame
\* should start: no record that was written, torn or whole, makes decodeRecord
\* refuse a body whose checksum is right.
THEOREM OnlyZerosAreRefused == Spec => []RefusesOnlyZeros
<1>1. Layout => RefusesOnlyZeros
  <2> SUFFICES ASSUME Layout, Replay(file).failed
               PROVE  \A i \in 1..Header : /\ Replay(file).at + i <= Len(file)
                                           /\ file[Replay(file).at + i] = Zero
    BY DEF RefusesOnlyZeros
  <2> DEFINE at == Replay(file).at
  <2>1. PICK start : IsLayout(start, file, frames)
    BY DEF Layout
  <2>2. LoopInv(start, file, frames, Replay(file)) /\ Replay(file) \in States(file)
    BY <2>1, ReplayKeeps
  <2>3. at + Header <= Len(file) /\ \A i \in 1..Header : file[at + i] = Zero
    BY <2>2 DEF LoopInv, ZeroHeader
  <2>4. at \in Nat /\ Header \in Nat /\ Len(file) \in Nat
    BY <2>1, <2>2, Starts, SizeAssumption DEF States, Header
  <2> HIDE DEF at
  <2>5. \A i \in 1..Header : at + i <= Len(file)
    BY <2>3, <2>4
  <2> QED
    BY <2>3, <2>5 DEF at
<1> QED
  BY <1>1, LayoutInvariance, PTL

\* The decoders of record.go reject every proper beginning of a record without
\* the checksum's help, for payloads of any length.
THEOREM CutBodiesAreRejected == Spec => []CutBodyRejected
<1>1. Layout => CutBodyRejected
  <2> SUFFICES ASSUME Layout, NEW i \in DOMAIN frames, frames[i].rec # NoRecord,
                      NEW n \in 0..(Len(EncodeRecord(frames[i].rec)) - 1)
               PROVE  ~DecodeRecord(SubSeq(EncodeRecord(frames[i].rec), 1, n)).ok
    BY DEF CutBodyRejected
  <2> DEFINE r == frames[i].rec
             R == EncodeRecord(r)
             body == SubSeq(R, 1, n)
  <2>1. frames \in History
    BY DEF Layout, IsLayout
  <2>2. r \in Inputs
    <3> DEFINE F == [rec : Inputs \cup {NoRecord}, whole : BOOLEAN]
    <3>1. frames \in Seq(F)
      BY <2>1 DEF History
    <3>2. frames[i] \in F
      <4> HIDE DEF F
      <4> QED
        BY <3>1
    <3> QED
      BY <3>2
  <2>3. IsRecord(r) /\ R \in Seq(Plain) /\ Len(R) \in Nat
    BY <2>2, FrameForm DEF IsFrame
  <2> HIDE DEF R, r
  <2>4. body \in Seq(Plain) /\ Len(body) = n /\ n < Len(R) /\ \A j \in 1..n : body[j] = R[j]
    BY <2>3 DEF R, r
  <2> HIDE DEF body
  <2>5. Begins(body, EncodeRecord(r)) /\ Len(body) # Len(EncodeRecord(r))
    BY <2>3, <2>4 DEF Begins, R
  <2>6. ~DecodeRecord(body).ok
    BY <2>3, <2>4, <2>5, RecordRoundTrip
  <2> QED
    BY <2>6 DEF body, R, r
<1> QED
  BY <1>1, LayoutInvariance, PTL
============================================================================
