------------------------------ MODULE DataLemmas ------------------------------
(***************************************************************************)
(* Facts about natural numbers, queues, counts and recursion that the      *)
(* proofs about several modules need.  Induction is stated for a set: the  *)
(* library's induction theorems are about an operator.                     *)
(***************************************************************************)
EXTENDS Integers, Functions, SequenceTheorems, FiniteSetTheorems, TLAPS

(***************************************************************************)
(* Induction over numbers                                                  *)
(***************************************************************************)
(* A nonempty set of numbers has a least element.                          *)
LEMMA LeastExists ==
  ASSUME NEW T, T \subseteq Nat, T # {}
  PROVE  \E x \in T : \A y \in T : x <= y
<1>1. PICK x \in T : \A y \in T : ~ (<<y, x>> \in OpToRel(<, Nat))
  BY WFMin, NatLessThanWellFounded
<1>2. ASSUME NEW y \in T PROVE x <= y
  <2>1. x \in Nat /\ y \in Nat
    BY <1>2
  <2>2. ~ (y < x)
    BY <2>1, <1>1, <1>2, Zenon DEF OpToRel
  <2> QED
    BY <2>1, <2>2
<1> QED
  BY <1>2

(* A set with 0 and with the successor of each of its numbers has them     *)
(* all.                                                                    *)
LEMMA CountingUp ==
  ASSUME NEW Q, 0 \in Q, \A n \in Nat : n \in Q => n + 1 \in Q
  PROVE  Nat \subseteq Q
<1> SUFFICES ASSUME Nat \ Q # {} PROVE FALSE
  OBVIOUS
<1>1. PICK x \in Nat \ Q : \A y \in Nat \ Q : x <= y
  BY LeastExists
<1>2. x # 0 /\ x - 1 \in Nat
  BY <1>1
<1>3. x - 1 \in Q
  BY <1>1, <1>2
<1> QED
  BY <1>1, <1>2, <1>3

(***************************************************************************)
(* Arithmetic modulo n.                                                    *)
(***************************************************************************)
(* Two numbers that a multiple of n separates by less than n are equal.    *)
LEMMA SmallMultiple ==
  ASSUME NEW n \in Nat \ {0}, NEW a \in Int, NEW b \in Int,
         n * a - n * b < n, n * a - n * b > -n
  PROVE  a = b
<1>1. n * (a - b) = n * a - n * b
  OBVIOUS
<1>2. CASE a - b >= 1
  <2>1. n * (a - b) >= n
    BY <1>2
  <2>2. QED
    BY <1>1, <2>1
<1>3. CASE a - b <= -1
  <2>1. n * (a - b) <= -n
    BY <1>3
  <2>2. QED
    BY <1>1, <2>1
<1>4. QED
  BY <1>2, <1>3

LEMMA DivMod ==
  ASSUME NEW n \in Nat \ {0}, NEW i \in Int
  PROVE  /\ i = n * (i \div n) + (i % n)
         /\ i \div n \in Int
         /\ i % n \in 0 .. n - 1
OBVIOUS

(* Adding multiples of n does not change the remainder.                    *)
LEMMA ModPeriods ==
  ASSUME NEW n \in Nat \ {0}, NEW y \in Int, NEW q \in Int
  PROVE  (y + n * q) % n = y % n
<1> DEFINE a == (y + n * q) \div n
           b == y \div n
           s == (y + n * q) % n
           u == y % n
<1>1. y + n * q \in Int
  OBVIOUS
<1>2. y + n * q = n * a + s /\ a \in Int /\ s \in 0 .. n - 1
  BY <1>1, DivMod
<1>3. y = n * b + u /\ b \in Int /\ u \in 0 .. n - 1
  BY DivMod
<1> HIDE DEF a, b, s, u
<1>4. n * (b + q) = n * b + n * q
  BY <1>3
<1>5. n * a - n * (b + q) < n /\ n * a - n * (b + q) > -n
  BY <1>2, <1>3, <1>4
<1>6. a = b + q
  BY <1>2, <1>3, <1>5, SmallMultiple
<1>7. n * a = n * b + n * q
  BY <1>4, <1>6
<1>8. s = u
  BY <1>2, <1>3, <1>7
<1>9. QED
  BY <1>8 DEF s, u

(* A remainder may be taken before or after adding.                        *)
LEMMA ModAdd ==
  ASSUME NEW n \in Nat \ {0}, NEW x \in Int, NEW k \in Int
  PROVE  ((x % n) + k) % n = (x + k) % n
<1> DEFINE q == x \div n
           u == x % n
<1>1. x = n * q + u /\ q \in Int /\ u \in Int
  BY DivMod
<1> HIDE DEF q, u
<1>2. x + k = (u + k) + n * q /\ u + k \in Int
  BY <1>1
<1>3. ((u + k) + n * q) % n = (u + k) % n
  BY <1>1, <1>2, ModPeriods
<1>4. QED
  BY <1>2, <1>3 DEF u

(***************************************************************************)
(* Counting                                                                *)
(***************************************************************************)
(* A set with no two elements has one or none.                             *)
LEMMA CountOne ==
  ASSUME NEW S, \A x, y \in S : x = y
  PROVE  Cardinality(S) = IF S = {} THEN 0 ELSE 1
<1>1. CASE S = {}
  BY <1>1, FS_EmptySet
<1>2. CASE S # {}
  <2>1. PICK x \in S : S = {x}
    BY <1>2
  <2> QED
    BY <1>2, <2>1, FS_Singleton
<1> QED
  BY <1>1, <1>2

(***************************************************************************)
(* Queues: an element put at the end, the first one taken.                 *)
(***************************************************************************)
(* A new element put at the end of a queue without repetitions.            *)
LEMMA QueueAppend ==
  ASSUME NEW S, NEW q \in Seq(S), NEW b \in S, IsInjective(q), b \notin Range(q)
  PROVE  /\ IsInjective(Append(q, b)) /\ Len(Append(q, b)) = Len(q) + 1
         /\ Range(Append(q, b)) = Range(q) \cup {b}
<1> DEFINE r == Append(q, b)
<1>1. /\ Len(r) = Len(q) + 1 /\ DOMAIN r = 1 .. Len(q) + 1 /\ DOMAIN q = 1 .. Len(q) /\ Len(q) \in Nat
      /\ r[Len(q) + 1] = b /\ \A i \in 1 .. Len(q) : r[i] = q[i]
  OBVIOUS
<1> HIDE DEF r
<1>2. IsInjective(r)
  BY <1>1 DEF IsInjective, Range
<1>3. Range(r) = Range(q) \cup {b}
  <2>1. \A i \in DOMAIN q : i \in DOMAIN r /\ q[i] = r[i]
    BY <1>1
  <2>2. Len(q) + 1 \in DOMAIN r
    BY <1>1
  <2>3. \A i \in DOMAIN r : i \in DOMAIN q \/ i = Len(q) + 1
    BY <1>1
  <2> QED
    BY <1>1, <2>1, <2>2, <2>3 DEF Range
<1> QED
  BY <1>1, <1>2, <1>3 DEF r

(* The first element taken from a queue without repetitions.               *)
LEMMA QueueTail ==
  ASSUME NEW S, NEW q \in Seq(S), IsInjective(q), q # <<>>
  PROVE  /\ IsInjective(Tail(q)) /\ Len(Tail(q)) = Len(q) - 1
         /\ Range(Tail(q)) = Range(q) \ {Head(q)}
         /\ Head(q) \in Range(q) /\ Head(q) \in S
<1> DEFINE r == Tail(q)
<1>1. /\ Len(r) = Len(q) - 1 /\ DOMAIN r = 1 .. Len(q) - 1 /\ DOMAIN q = 1 .. Len(q)
      /\ Len(q) \in Nat /\ Len(q) >= 1 /\ Head(q) = q[1]
      /\ \A i \in 1 .. Len(q) - 1 : r[i] = q[i + 1]
  OBVIOUS
<1> HIDE DEF r
<1>2. IsInjective(r)
  <2> SUFFICES ASSUME NEW i \in DOMAIN r, NEW j \in DOMAIN r, r[i] = r[j] PROVE i = j
    BY DEF IsInjective
  <2>1. i \in Int /\ j \in Int /\ i + 1 \in DOMAIN q /\ j + 1 \in DOMAIN q /\ q[i + 1] = q[j + 1]
    BY <1>1
  <2>2. i + 1 = j + 1
    BY <2>1 DEF IsInjective
  <2> QED
    BY <2>1, <2>2
<1>3. Range(r) = Range(q) \ {Head(q)}
  <2>1. \A i \in DOMAIN r : i + 1 \in DOMAIN q /\ i + 1 # 1 /\ r[i] = q[i + 1]
    BY <1>1
  <2>2. \A i \in DOMAIN q : i = 1 \/ (i - 1 \in DOMAIN r /\ r[i - 1] = q[i])
    BY <1>1
  <2>3. 1 \in DOMAIN q
    BY <1>1
  <2>4. \A i \in DOMAIN r : q[i + 1] # q[1]
    BY <2>1, <2>3 DEF IsInjective
  <2>5. Range(r) \subseteq Range(q) \ {q[1]}
    BY <2>1, <2>4 DEF Range
  <2>6. Range(q) \ {q[1]} \subseteq Range(r)
    BY <2>2 DEF Range
  <2> QED
    BY <1>1, <2>5, <2>6
<1>4. Head(q) \in Range(q) /\ Head(q) \in S
  BY <1>1 DEF Range
<1> QED
  BY <1>1, <1>2, <1>3, <1>4 DEF r

(* What was put into a queue is in it, also with repetitions.              *)
LEMMA RangeAppend ==
  ASSUME NEW S, NEW q \in Seq(S), NEW m \in S
  PROVE  Range(q) \cup {m} \subseteq Range(Append(q, m))
<1>1. /\ DOMAIN q = 1 .. Len(q) /\ DOMAIN Append(q, m) = 1 .. Len(q) + 1 /\ Len(q) \in Nat
      /\ Append(q, m)[Len(q) + 1] = m /\ \A i \in 1 .. Len(q) : Append(q, m)[i] = q[i]
  OBVIOUS
<1>2. Len(q) + 1 \in DOMAIN Append(q, m) /\ \A i \in DOMAIN q : i \in DOMAIN Append(q, m)
  BY <1>1
<1> QED
  BY <1>1, <1>2 DEF Range

(* A function on 1 .. n is a sequence of length n.                         *)
LEMMA FunctionIsSeq ==
  ASSUME NEW S, NEW n \in Nat, NEW s \in [1 .. n -> S]
  PROVE  s \in Seq(S) /\ Len(s) = n
<1>1. s \in UNION {[1 .. k -> S] : k \in Nat}
  OBVIOUS
<1>2. Seq(S) = UNION {[1 .. k -> S] : k \in Nat}
  BY SeqDef
<1>3. s \in Seq(S)
  BY <1>1, <1>2, Zenon
<1> QED
  BY <1>3, LenProperties

(* Only the first element leaves a queue.                                  *)
LEMMA RangeTail ==
  ASSUME NEW S, NEW q \in Seq(S), q # <<>>
  PROVE  Range(q) = Range(Tail(q)) \cup {Head(q)}
<1>1. /\ DOMAIN q = 1 .. Len(q) /\ DOMAIN Tail(q) = 1 .. Len(q) - 1 /\ Len(q) \in Nat \ {0}
      /\ Head(q) = q[1] /\ \A i \in 1 .. Len(q) - 1 : Tail(q)[i] = q[i + 1]
  OBVIOUS
<1>2. \A i \in DOMAIN q : i = 1 \/ (i - 1 \in DOMAIN Tail(q) /\ Tail(q)[i - 1] = q[i])
  BY <1>1
<1>3. \A i \in DOMAIN Tail(q) : i + 1 \in DOMAIN q /\ Tail(q)[i] = q[i + 1]
  BY <1>1
<1>4. ASSUME NEW x \in Range(q) PROVE x \in Range(Tail(q)) \cup {Head(q)}
  BY <1>1, <1>2 DEF Range
<1>5. ASSUME NEW x \in Range(Tail(q)) PROVE x \in Range(q)
  BY <1>3 DEF Range
<1>6. Head(q) \in Range(q)
  BY <1>1 DEF Range
<1> QED
  BY <1>4, <1>5, <1>6

(***************************************************************************)
(* Definitions by recursion over 0 .. n                                    *)
(***************************************************************************)
Recursion(S, n, first, step) ==
  \E f \in [0 .. n -> S] : f[0] = first /\ \A i \in 1 .. n : f[i] = step[<<i, f[i - 1]>>]

(* A first value and a step, given as a function, determine a function on  *)
(* 0 .. n.                                                                 *)
LEMMA RecursionExists ==
  ASSUME NEW S, NEW n \in Nat, NEW first \in S, NEW step \in [(1 .. n) \X S -> S]
  PROVE  Recursion(S, n, first, step)
<1> DEFINE Is(f, k) == f[0] = first /\ \A i \in 1 .. k : f[i] = step[<<i, f[i - 1]>>]
           Q == {k \in Nat : k <= n => \E f \in [0 .. k -> S] : Is(f, k)}
<1>1. 0 \in Q
  <2>1. [i \in 0 .. 0 |-> first] \in [0 .. 0 -> S] /\ Is([i \in 0 .. 0 |-> first], 0)
    OBVIOUS
  <2> QED
    BY <2>1
<1>2. ASSUME NEW k \in Nat, k \in Q PROVE k + 1 \in Q
  <2> SUFFICES ASSUME k + 1 <= n PROVE \E f \in [0 .. k + 1 -> S] : Is(f, k + 1)
    OBVIOUS
  <2>1. PICK f \in [0 .. k -> S] : Is(f, k)
    BY <1>2
  <2> DEFINE last == step[<<k + 1, f[k]>>]
             g == [i \in 0 .. k + 1 |-> IF i = k + 1 THEN last ELSE f[i]]
  <2>2. k \in 0 .. k /\ f[k] \in S /\ k + 1 \in 1 .. n
    OBVIOUS
  <2>3. last \in S
    BY <2>2
  <2>4. g \in [0 .. k + 1 -> S] /\ g[k + 1] = last /\ \A i \in 0 .. k : g[i] = f[i]
    <3> HIDE DEF last
    <3> QED
      BY <2>3
  <2> HIDE DEF g
  <2>5. \A i \in 1 .. k + 1 : g[i] = step[<<i, g[i - 1]>>]
    <3> SUFFICES ASSUME NEW i \in 1 .. k + 1 PROVE g[i] = step[<<i, g[i - 1]>>]
      OBVIOUS
    <3>1. i - 1 \in 0 .. k /\ g[i - 1] = f[i - 1]
      BY <2>4
    <3>2. CASE i = k + 1
      <4>1. i - 1 = k
        BY <3>2
      <4> QED
        BY <2>4, <3>1, <3>2, <4>1
    <3>3. CASE i # k + 1
      <4>1. i \in 1 .. k /\ g[i] = f[i]
        BY <2>4, <3>3
      <4> QED
        BY <2>1, <3>1, <4>1
    <3> QED
      BY <3>2, <3>3
  <2>6. g[0] = first
    BY <2>1, <2>4
  <2> QED
    BY <2>4, <2>5, <2>6
<1>3. n \in Q
  <2> HIDE DEF Q
  <2> QED
    BY <1>1, <1>2, CountingUp
<1> QED
  BY <1>3 DEF Recursion
====
