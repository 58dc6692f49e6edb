--------------------------- MODULE PoolSetup_proof ---------------------------
(***************************************************************************)
(* The sizing of the ring and the construction of the pools, for indices   *)
(* of every width and every configured count: words and their bits, the    *)
(* rounding up to a power of two, masked indices that wrap, and the        *)
(* invariant of the pool.                                                  *)
(***************************************************************************)
EXTENDS PoolSetup, DataLemmas

(***************************************************************************)
(* Powers of two                                                           *)
(***************************************************************************)
(* The recursive definition of Power determines it.                        *)
LEMMA PowerUnfolds ==
  /\ Power \in [0 .. IndexBits -> Nat] /\ Power[0] = 1
  /\ \A k \in 1 .. IndexBits : Power[k] = 2 * Power[k - 1]
<1> DEFINE step == [p \in (1 .. IndexBits) \X Nat |-> 2 * p[2]]
<1>1. IndexBits \in Nat
  BY WidthAssumption
<1>2. step \in [(1 .. IndexBits) \X Nat -> Nat]
  OBVIOUS
<1>3. Recursion(Nat, IndexBits, 1, step)
  <2> HIDE DEF step
  <2> QED
    BY <1>1, <1>2, RecursionExists
<1>4. PICK f \in [0 .. IndexBits -> Nat] :
             f[0] = 1 /\ \A k \in 1 .. IndexBits : f[k] = step[<<k, f[k - 1]>>]
  BY <1>3 DEF Recursion
<1>5. ASSUME NEW k \in 1 .. IndexBits PROVE f[k] = 2 * f[k - 1]
  <2>1. k - 1 \in 0 .. IndexBits
    BY <1>1
  <2>2. f[k - 1] \in Nat
    BY <2>1, <1>4
  <2>3. step[<<k, f[k - 1]>>] = 2 * f[k - 1]
    BY <2>2
  <2> QED
    BY <2>3, <1>4
<1> HIDE DEF step
<1>6. \A k \in 1 .. IndexBits : f[k] = 2 * f[k - 1]
  BY <1>5
<1>7. f = [k \in 0 .. IndexBits |-> IF k = 0 THEN 1 ELSE 2 * f[k - 1]]
  <2>1. \A k \in 0 .. IndexBits : f[k] = IF k = 0 THEN 1 ELSE 2 * f[k - 1]
    <3>1. \A k \in 0 .. IndexBits : k = 0 \/ k \in 1 .. IndexBits
      BY <1>1
    <3> QED
      BY <3>1, <1>4, <1>6
  <2> QED
    BY <2>1, <1>4
<1>8. Power = [k \in 0 .. IndexBits |-> IF k = 0 THEN 1 ELSE 2 * Power[k - 1]]
  BY <1>7, Zenon DEF Power
<1> DEFINE Q == {k \in Nat : k <= IndexBits => Power[k] = f[k]}
<1>9. 0 \in Q
  <2>1. 0 \in 0 .. IndexBits
    BY <1>1
  <2>2. Power[0] = 1
    BY <2>1, <1>8
  <2> QED
    BY <2>2, <1>4
<1>10. ASSUME NEW k \in Nat, k \in Q PROVE k + 1 \in Q
  <2> SUFFICES ASSUME k + 1 <= IndexBits PROVE Power[k + 1] = f[k + 1]
    OBVIOUS
  <2>1. k + 1 \in 0 .. IndexBits /\ k + 1 # 0 /\ (k + 1) - 1 = k /\ Power[k] = f[k]
    BY <1>1, <1>10
  <2>2. Power[k + 1] = 2 * Power[(k + 1) - 1]
    BY <1>8, <2>1
  <2>3. f[k + 1] = 2 * f[(k + 1) - 1]
    BY <1>6, <2>1, <1>1
  <2> QED
    BY <2>1, <2>2, <2>3
<1>11. Nat \subseteq Q
  <2> HIDE DEF Q
  <2> QED
    BY <1>9, <1>10, CountingUp
<1>12. \A k \in 0 .. IndexBits : Power[k] = f[k]
  BY <1>11, <1>1
<1>13. Power = f
  BY <1>4, <1>8, <1>12
<1> QED
  BY <1>4, <1>6, <1>13

(* A power of two is larger than its exponent.                             *)
LEMMA PowerLarge == \A k \in 0 .. IndexBits : Power[k] \in Nat /\ Power[k] >= k + 1
<1> DEFINE Q == {k \in Nat : k <= IndexBits => Power[k] >= k + 1}
<1>1. IndexBits \in Nat
  BY WidthAssumption
<1>2. 0 \in Q
  BY PowerUnfolds
<1>3. ASSUME NEW k \in Nat, k \in Q PROVE k + 1 \in Q
  <2> SUFFICES ASSUME k + 1 <= IndexBits PROVE Power[k + 1] >= k + 2
    OBVIOUS
  <2>1. k \in 0 .. IndexBits /\ k + 1 \in 1 .. IndexBits /\ (k + 1) - 1 = k
    BY <1>1
  <2>2. Power[k + 1] = 2 * Power[k] /\ Power[k] \in Nat
    BY <2>1, PowerUnfolds
  <2>3. Power[k] >= k + 1
    BY <2>1, <1>3
  <2> QED
    BY <2>2, <2>3
<1>4. Nat \subseteq Q
  <2> HIDE DEF Q
  <2> QED
    BY <1>2, <1>3, CountingUp
<1> QED
  BY <1>1, <1>4, PowerUnfolds

(* A larger exponent at least doubles the power.                           *)
LEMMA PowerGrows ==
  \A j, k \in 0 .. IndexBits : j < k => 2 * Power[j] <= Power[k]
<1> SUFFICES ASSUME NEW j \in 0 .. IndexBits
             PROVE  \A k \in 0 .. IndexBits : j < k => 2 * Power[j] <= Power[k]
  OBVIOUS
<1> DEFINE Q == {k \in Nat : k <= IndexBits /\ j < k => 2 * Power[j] <= Power[k]}
<1>1. IndexBits \in Nat /\ Power[j] \in Nat
  BY WidthAssumption, PowerLarge
<1>2. 0 \in Q
  OBVIOUS
<1>3. ASSUME NEW k \in Nat, k \in Q PROVE k + 1 \in Q
  <2> SUFFICES ASSUME k + 1 <= IndexBits, j < k + 1 PROVE 2 * Power[j] <= Power[k + 1]
    OBVIOUS
  <2>1. k \in 0 .. IndexBits /\ k + 1 \in 1 .. IndexBits /\ (k + 1) - 1 = k
    BY <1>1
  <2>2. Power[k + 1] = 2 * Power[k] /\ Power[k] \in Nat
    BY <2>1, PowerUnfolds
  <2>3. CASE j = k
    BY <2>2, <2>3, <1>1
  <2>4. CASE j # k
    <3>1. j < k
      BY <2>4, <1>1
    <3>2. 2 * Power[j] <= Power[k]
      BY <1>3, <2>1, <3>1
    <3> QED
      BY <3>2, <2>2, <1>1
  <2> QED
    BY <2>3, <2>4
<1>4. Nat \subseteq Q
  <2> HIDE DEF Q
  <2> QED
    BY <1>2, <1>3, CountingUp
<1> QED
  BY <1>1, <1>4

(* A larger power of two is a multiple of a smaller one.                   *)
LEMMA PowerMultiple ==
  ASSUME NEW j \in 0 .. IndexBits, NEW k \in 0 .. IndexBits, j <= k
  PROVE  \E q \in Nat : Power[k] = Power[j] * q
<1> DEFINE Q == {n \in Nat : n <= IndexBits /\ j <= n => \E q \in Nat : Power[n] = Power[j] * q}
<1>1. IndexBits \in Nat /\ Power[j] \in Nat
  BY WidthAssumption, PowerLarge
<1>2. Power[j] = Power[j] * 1
  BY <1>1
<1>3. 0 \in Q
  BY <1>2
<1>4. ASSUME NEW n \in Nat, n \in Q PROVE n + 1 \in Q
  <2> SUFFICES ASSUME n + 1 <= IndexBits, j <= n + 1
               PROVE  \E q \in Nat : Power[n + 1] = Power[j] * q
    OBVIOUS
  <2>1. CASE j = n + 1
    BY <2>1, <1>2
  <2>2. CASE j # n + 1
    <3>1. j <= n /\ n <= IndexBits /\ n + 1 \in 1 .. IndexBits /\ (n + 1) - 1 = n
      BY <1>1, <2>2
    <3>2. PICK q \in Nat : Power[n] = Power[j] * q
      BY <1>4, <3>1
    <3>3. Power[n + 1] = 2 * Power[n]
      BY <3>1, PowerUnfolds
    <3>4. 2 * (Power[j] * q) = Power[j] * (2 * q)
      BY <1>1, <3>2
    <3> QED
      BY <3>2, <3>3, <3>4
  <2> QED
    BY <2>1, <2>2
<1>5. Nat \subseteq Q
  <2> HIDE DEF Q
  <2> QED
    BY <1>3, <1>4, CountingUp
<1> QED
  BY <1>1, <1>5

(* Every positive word lies between two neighbouring powers of two.        *)
LEMMA HighestPower ==
  ASSUME NEW n \in 1 .. Power[IndexBits] - 1
  PROVE  \E h \in 0 .. IndexBits - 1 : Power[h] <= n /\ n < Power[h + 1]
<1> DEFINE T == {k \in 0 .. IndexBits : n < Power[k]}
<1>1. IndexBits \in Nat /\ Power[IndexBits] \in Nat /\ n \in Nat /\ n >= 1
  BY WidthAssumption, PowerLarge
<1>2. IndexBits \in T /\ T \subseteq Nat
  BY <1>1
<1>3. PICK k \in T : \A y \in T : k <= y
  BY <1>2, LeastExists, Zenon
<1>4. k # 0
  BY <1>1, <1>3, PowerUnfolds
<1>5. k - 1 \in 0 .. IndexBits - 1 /\ k - 1 \notin T /\ (k - 1) + 1 = k
  BY <1>1, <1>3, <1>4
<1>6. Power[k - 1] <= n
  BY <1>1, <1>5, PowerLarge
<1> QED
  BY <1>3, <1>5, <1>6

(***************************************************************************)
(* Words and the sets of their bits                                        *)
(***************************************************************************)
(* The recursive definition of PartialSums determines it.                  *)
LEMMA SumsUnfold ==
  ASSUME NEW S
  PROVE  /\ PartialSums(S) \in [0 .. IndexBits -> Nat] /\ PartialSums(S)[0] = 0
         /\ \A k \in 1 .. IndexBits :
              PartialSums(S)[k] = PartialSums(S)[k - 1] + (IF k - 1 \in S THEN Power[k - 1] ELSE 0)
<1> DEFINE add(k) == IF k - 1 \in S THEN Power[k - 1] ELSE 0
           step == [p \in (1 .. IndexBits) \X Nat |-> p[2] + add(p[1])]
<1>1. IndexBits \in Nat
  BY WidthAssumption
<1>2. ASSUME NEW k \in 1 .. IndexBits PROVE add(k) \in Nat
  <2>1. k - 1 \in 0 .. IndexBits
    BY <1>1
  <2> QED
    BY <2>1, PowerUnfolds
<1> HIDE DEF add
<1>3. step \in [(1 .. IndexBits) \X Nat -> Nat]
  BY <1>2
<1>4. Recursion(Nat, IndexBits, 0, step)
  <2> HIDE DEF step
  <2> QED
    BY <1>1, <1>3, RecursionExists
<1>5. PICK f \in [0 .. IndexBits -> Nat] :
             f[0] = 0 /\ \A k \in 1 .. IndexBits : f[k] = step[<<k, f[k - 1]>>]
  BY <1>4 DEF Recursion
<1>6. ASSUME NEW k \in 1 .. IndexBits PROVE f[k] = f[k - 1] + add(k)
  <2>1. k - 1 \in 0 .. IndexBits
    BY <1>1
  <2>2. f[k - 1] \in Nat
    BY <2>1, <1>5
  <2>3. step[<<k, f[k - 1]>>] = f[k - 1] + add(k)
    BY <2>2
  <2> QED
    BY <2>3, <1>5
<1> HIDE DEF step
<1>7. f = [k \in 0 .. IndexBits |-> IF k = 0 THEN 0 ELSE f[k - 1] + add(k)]
  <2>1. \A k \in 0 .. IndexBits : f[k] = IF k = 0 THEN 0 ELSE f[k - 1] + add(k)
    <3>1. \A k \in 0 .. IndexBits : k = 0 \/ k \in 1 .. IndexBits
      BY <1>1
    <3> QED
      BY <3>1, <1>5, <1>6
  <2> QED
    BY <2>1, <1>5
<1> DEFINE s == PartialSums(S)
<1>8. s = [k \in 0 .. IndexBits |-> IF k = 0 THEN 0 ELSE s[k - 1] + add(k)]
  BY <1>7, Zenon DEF PartialSums, add
<1> HIDE DEF s
<1> DEFINE Q == {k \in Nat : k <= IndexBits => s[k] = f[k]}
<1>9. 0 \in Q
  <2>1. 0 \in 0 .. IndexBits
    BY <1>1
  <2>2. s[0] = 0
    BY <2>1, <1>8
  <2> QED
    BY <2>2, <1>5
<1>10. ASSUME NEW k \in Nat, k \in Q PROVE k + 1 \in Q
  <2> SUFFICES ASSUME k + 1 <= IndexBits PROVE s[k + 1] = f[k + 1]
    OBVIOUS
  <2>1. k + 1 \in 0 .. IndexBits /\ k + 1 \in 1 .. IndexBits /\ k + 1 # 0 /\ (k + 1) - 1 = k /\ s[k] = f[k]
    BY <1>1, <1>10
  <2>2. s[k + 1] = s[(k + 1) - 1] + add(k + 1)
    BY <1>8, <2>1
  <2>3. f[k + 1] = f[(k + 1) - 1] + add(k + 1)
    BY <1>6, <2>1
  <2> QED
    BY <2>1, <2>2, <2>3
<1>11. Nat \subseteq Q
  <2> HIDE DEF Q
  <2> QED
    BY <1>9, <1>10, CountingUp
<1>12. \A k \in 0 .. IndexBits : s[k] = f[k]
  BY <1>11, <1>1
<1>13. s = f
  <2>1. DOMAIN s = 0 .. IndexBits /\ s = [k \in DOMAIN s |-> s[k]]
    BY <1>8
  <2>2. f = [k \in 0 .. IndexBits |-> f[k]]
    BY <1>5
  <2> QED
    BY <2>1, <2>2, <1>12
<1> QED
  BY <1>5, <1>6, <1>13 DEF s, add

(* One more position, in the form in which the proofs use it.              *)
LEMMA SumsNext ==
  ASSUME NEW S, NEW k \in 0 .. IndexBits - 1
  PROVE  /\ PartialSums(S)[k] \in Nat /\ PartialSums(S)[k + 1] \in Nat
         /\ Power[k] \in Nat /\ Power[k + 1] = 2 * Power[k]
         /\ k \in S => PartialSums(S)[k + 1] = PartialSums(S)[k] + Power[k]
         /\ k \notin S => PartialSums(S)[k + 1] = PartialSums(S)[k]
<1>1. k \in 0 .. IndexBits /\ k + 1 \in 0 .. IndexBits /\ k + 1 \in 1 .. IndexBits /\ (k + 1) - 1 = k
  BY WidthAssumption
<1> DEFINE s == PartialSums(S)
           P(n) == s[n] = s[n - 1] + (IF n - 1 \in S THEN Power[n - 1] ELSE 0)
<1>2. s[k + 1] = s[k] + (IF k \in S THEN Power[k] ELSE 0)
  <2>1. \A n \in 1 .. IndexBits : P(n)
    BY SumsUnfold
  <2>2. P(k + 1)
    <3> HIDE DEF P
    <3> QED
      BY <2>1, <1>1
  <2> HIDE DEF s
  <2> QED
    BY <2>2, <1>1
<1>3. s[k] \in Nat /\ s[k + 1] \in Nat
  <2>1. s \in [0 .. IndexBits -> Nat]
    BY SumsUnfold
  <2> HIDE DEF s
  <2> QED
    BY <2>1, <1>1
<1>4. Power[k] \in Nat /\ Power[k + 1] = 2 * Power[k]
  BY <1>1, PowerUnfolds
<1> QED
  BY <1>2, <1>3, <1>4

(* The first k positions never add up to the power at position k.          *)
LEMMA SumsBelow ==
  ASSUME NEW S
  PROVE  \A k \in 0 .. IndexBits : PartialSums(S)[k] \in 0 .. Power[k] - 1
<1> DEFINE s == PartialSums(S)
           Q == {k \in Nat : k <= IndexBits => s[k] \in 0 .. Power[k] - 1}
<1>1. IndexBits \in Nat
  BY WidthAssumption
<1>2. 0 \in Q
  BY SumsUnfold, PowerUnfolds
<1>3. ASSUME NEW k \in Nat, k \in Q PROVE k + 1 \in Q
  <2> SUFFICES ASSUME k + 1 <= IndexBits PROVE s[k + 1] \in 0 .. Power[k + 1] - 1
    OBVIOUS
  <2>1. k \in 0 .. IndexBits - 1 /\ k \in 0 .. IndexBits
    BY <1>1
  <2>2. s[k] \in 0 .. Power[k] - 1
    BY <2>1, <1>3
  <2>3. /\ Power[k] \in Nat /\ Power[k + 1] = 2 * Power[k]
        /\ s[k + 1] = s[k] + Power[k] \/ s[k + 1] = s[k]
    BY <2>1, SumsNext
  <2> HIDE DEF s
  <2> QED
    BY <2>2, <2>3
<1>4. Nat \subseteq Q
  <2> HIDE DEF Q
  <2> QED
    BY <1>2, <1>3, CountingUp
<1> QED
  BY <1>1, <1>4

(* Only the positions below k count in the k-th sum.                       *)
LEMMA SumsLocal ==
  ASSUME NEW S, NEW T, NEW j \in 0 .. IndexBits, \A pos \in 0 .. j - 1 : pos \in S <=> pos \in T
  PROVE  PartialSums(S)[j] = PartialSums(T)[j]
<1> DEFINE s == PartialSums(S)
           t == PartialSums(T)
           Q == {k \in Nat : k <= j => s[k] = t[k]}
<1>1. IndexBits \in Nat
  BY WidthAssumption
<1>2. 0 \in Q
  BY SumsUnfold
<1>3. ASSUME NEW k \in Nat, k \in Q PROVE k + 1 \in Q
  <2> SUFFICES ASSUME k + 1 <= j PROVE s[k + 1] = t[k + 1]
    OBVIOUS
  <2>1. k \in 0 .. IndexBits - 1 /\ k \in 0 .. j - 1 /\ k <= j
    BY <1>1
  <2>2. s[k] = t[k] /\ (k \in S <=> k \in T)
    BY <2>1, <1>3
  <2>3. /\ k \in S => s[k + 1] = s[k] + Power[k]
        /\ k \notin S => s[k + 1] = s[k]
    BY <2>1, SumsNext
  <2>4. /\ k \in T => t[k + 1] = t[k] + Power[k]
        /\ k \notin T => t[k + 1] = t[k]
    BY <2>1, SumsNext
  <2> QED
    BY <2>2, <2>3, <2>4
<1>4. Nat \subseteq Q
  <2> HIDE DEF Q
  <2> QED
    BY <1>2, <1>3, CountingUp
<1> QED
  BY <1>1, <1>4

(* Positions from j on add a multiple of the power at j, and nothing if    *)
(* there are none.                                                         *)
LEMMA SumsAbove ==
  ASSUME NEW S, NEW j \in 0 .. IndexBits, NEW n \in 0 .. IndexBits, j <= n
  PROVE  /\ \E q \in Nat : PartialSums(S)[n] = PartialSums(S)[j] + Power[j] * q
         /\ (\A pos \in j .. n - 1 : pos \notin S) => PartialSums(S)[n] = PartialSums(S)[j]
<1> DEFINE s == PartialSums(S)
           R(k) == \E q \in Nat : s[k] = s[j] + Power[j] * q
           E(k) == (\A pos \in j .. k - 1 : pos \notin S) => s[k] = s[j]
           Q == {k \in Nat : k <= IndexBits /\ j <= k => R(k) /\ E(k)}
<1>1. IndexBits \in Nat /\ Power[j] \in Nat /\ s[j] \in Nat
  BY WidthAssumption, PowerLarge, SumsUnfold
<1>2. R(j) /\ E(j)
  <2>1. s[j] = s[j] + Power[j] * 0
    BY <1>1
  <2> QED
    BY <2>1
<1>3. 0 \in Q
  <2>1. j <= 0 => j = 0
    BY <1>1
  <2> QED
    BY <2>1, <1>2
<1>4. ASSUME NEW k \in Nat, k \in Q PROVE k + 1 \in Q
  <2> SUFFICES ASSUME k + 1 <= IndexBits, j <= k + 1 PROVE R(k + 1) /\ E(k + 1)
    OBVIOUS
  <2>1. CASE j = k + 1
    BY <2>1, <1>2
  <2>2. CASE j # k + 1
    <3>1. k \in 0 .. IndexBits - 1 /\ k \in 0 .. IndexBits /\ j <= k
      BY <1>1, <2>2
    <3>2. R(k) /\ E(k)
      BY <1>4, <3>1
    <3>3. /\ s[k] \in Nat
          /\ k \in S => s[k + 1] = s[k] + Power[k]
          /\ k \notin S => s[k + 1] = s[k]
      BY <3>1, SumsNext
    <3>4. R(k + 1)
      <4>1. PICK q \in Nat : s[k] = s[j] + Power[j] * q
        BY <3>2
      <4>2. PICK p \in Nat : Power[k] = Power[j] * p
        BY <3>1, PowerMultiple
      <4>3. Power[j] * (q + p) = Power[j] * q + Power[j] * p /\ q + p \in Nat
        BY <4>1, <4>2, <1>1
      <4>4. Power[j] * q \in Nat /\ Power[j] * p \in Nat
        BY <4>1, <4>2, <1>1
      <4>5. s[k + 1] = s[j] + Power[j] * (q + p) \/ s[k + 1] = s[j] + Power[j] * q
        <5> HIDE DEF s
        <5> QED
          BY <4>1, <4>2, <4>3, <4>4, <3>3, <1>1
      <4> QED
        BY <4>1, <4>3, <4>5
    <3>5. E(k + 1)
      <4> SUFFICES ASSUME \A pos \in j .. (k + 1) - 1 : pos \notin S PROVE s[k + 1] = s[j]
        OBVIOUS
      <4>1. k \in j .. (k + 1) - 1 /\ \A pos \in j .. k - 1 : pos \in j .. (k + 1) - 1
        BY <3>1, <1>1
      <4>2. k \notin S /\ \A pos \in j .. k - 1 : pos \notin S
        BY <4>1
      <4> QED
        BY <4>2, <3>2, <3>3
    <3> QED
      BY <3>4, <3>5
  <2> QED
    BY <2>1, <2>2
<1>5. Nat \subseteq Q
  <2> HIDE DEF Q
  <2> QED
    BY <1>3, <1>4, CountingUp
<1>6. n \in Q
  <2> HIDE DEF Q
  <2> QED
    BY <1>1, <1>5
<1> QED
  BY <1>6

(* Different positions below j give different sums.                        *)
LEMMA SumsInjective ==
  ASSUME NEW S, NEW T, NEW j \in 0 .. IndexBits, PartialSums(S)[j] = PartialSums(T)[j]
  PROVE  \A pos \in 0 .. j - 1 : pos \in S <=> pos \in T
<1> DEFINE s == PartialSums(S)
           t == PartialSums(T)
           Same(k) == s[k] = t[k] => \A pos \in 0 .. k - 1 : pos \in S <=> pos \in T
           Q == {k \in Nat : k <= IndexBits => Same(k)}
<1>1. IndexBits \in Nat
  BY WidthAssumption
<1>2. 0 \in Q
  OBVIOUS
<1>3. ASSUME NEW k \in Nat, k \in Q PROVE k + 1 \in Q
  <2> SUFFICES ASSUME k + 1 <= IndexBits, s[k + 1] = t[k + 1]
               PROVE  \A pos \in 0 .. (k + 1) - 1 : pos \in S <=> pos \in T
    OBVIOUS
  <2>1. k \in 0 .. IndexBits - 1 /\ k \in 0 .. IndexBits /\ Same(k)
    BY <1>1, <1>3
  <2>2. /\ k \in S => s[k + 1] = s[k] + Power[k]
        /\ k \notin S => s[k + 1] = s[k]
        /\ Power[k] \in Nat
    BY <2>1, SumsNext
  <2>3. /\ k \in T => t[k + 1] = t[k] + Power[k]
        /\ k \notin T => t[k + 1] = t[k]
    BY <2>1, SumsNext
  <2>4. s[k] \in 0 .. Power[k] - 1 /\ t[k] \in 0 .. Power[k] - 1
    BY <2>1, SumsBelow
  <2>5. s[k] = t[k] /\ (k \in S <=> k \in T)
    <3> HIDE DEF s, t
    <3> QED
      BY <2>2, <2>3, <2>4
  <2>6. \A pos \in 0 .. k - 1 : pos \in S <=> pos \in T
    BY <2>1, <2>5
  <2>7. \A pos \in 0 .. (k + 1) - 1 : pos = k \/ pos \in 0 .. k - 1
    OBVIOUS
  <2> QED
    BY <2>5, <2>6, <2>7
<1>4. Nat \subseteq Q
  <2> HIDE DEF Q
  <2> QED
    BY <1>2, <1>3, CountingUp
<1>5. j \in Q
  <2> HIDE DEF Q
  <2> QED
    BY <1>1, <1>4
<1> QED
  BY <1>1, <1>5

(* Every number below the power at k is the sum of some of the first k     *)
(* positions.                                                              *)
LEMMA SumsOnto ==
  ASSUME NEW k \in 0 .. IndexBits, NEW n \in 0 .. Power[k] - 1
  PROVE  \E S \in SUBSET (0 .. k - 1) : PartialSums(S)[k] = n
<1> DEFINE Onto(j) == \A m \in 0 .. Power[j] - 1 :
                        \E S \in SUBSET (0 .. j - 1) : PartialSums(S)[j] = m
           Q == {j \in Nat : j <= IndexBits => Onto(j)}
<1>1. IndexBits \in Nat
  BY WidthAssumption
<1>2. 0 \in Q
  <2>1. PartialSums({})[0] = 0 /\ {} \in SUBSET (0 .. 0 - 1) /\ Power[0] = 1
    BY SumsUnfold, PowerUnfolds
  <2>2. \A m \in 0 .. Power[0] - 1 : m = 0
    BY <2>1
  <2> QED
    BY <2>1, <2>2
<1>3. ASSUME NEW j \in Nat, j \in Q PROVE j + 1 \in Q
  <2> SUFFICES ASSUME j + 1 <= IndexBits, NEW m \in 0 .. Power[j + 1] - 1
               PROVE  \E S \in SUBSET (0 .. (j + 1) - 1) : PartialSums(S)[j + 1] = m
    OBVIOUS
  <2>1. j \in 0 .. IndexBits - 1 /\ j \in 0 .. IndexBits /\ Onto(j)
    BY <1>1, <1>3
  <2>2. Power[j] \in Nat /\ Power[j + 1] = 2 * Power[j]
    BY <2>1, SumsNext
  <2>3. \A S \in SUBSET (0 .. j - 1) : j \notin S /\ S \in SUBSET (0 .. (j + 1) - 1)
                                       /\ S \cup {j} \in SUBSET (0 .. (j + 1) - 1)
    OBVIOUS
  <2>4. CASE m < Power[j]
    <3>1. PICK S \in SUBSET (0 .. j - 1) : PartialSums(S)[j] = m
      <4>1. m \in 0 .. Power[j] - 1
        BY <2>4, <2>2
      <4> QED
        BY <4>1, <2>1
    <3>2. PartialSums(S)[j + 1] = m
      BY <3>1, <2>1, <2>3, SumsNext
    <3> QED
      BY <3>1, <3>2, <2>3
  <2>5. CASE m >= Power[j]
    <3>1. PICK S \in SUBSET (0 .. j - 1) : PartialSums(S)[j] = m - Power[j]
      <4>1. m - Power[j] \in 0 .. Power[j] - 1
        BY <2>5, <2>2
      <4> QED
        BY <4>1, <2>1
    <3>2. PartialSums(S \cup {j})[j] = PartialSums(S)[j]
      <4> DEFINE T == S \cup {j}
      <4>1. \A pos \in 0 .. j - 1 : pos \in T <=> pos \in S
        OBVIOUS
      <4> HIDE DEF T
      <4>2. PartialSums(T)[j] = PartialSums(S)[j]
        BY <4>1, <2>1, SumsLocal
      <4> QED
        BY <4>2 DEF T
    <3>3. PartialSums(S \cup {j})[j + 1] = PartialSums(S \cup {j})[j] + Power[j]
      BY <2>1, SumsNext
    <3>4. PartialSums(S \cup {j})[j + 1] = m
      BY <3>1, <3>2, <3>3, <2>2
    <3>5. S \cup {j} \in SUBSET (0 .. (j + 1) - 1)
      BY <2>3
    <3> QED
      BY <3>4, <3>5
  <2> QED
    BY <2>4, <2>5, <2>2
<1>4. Nat \subseteq Q
  <2> HIDE DEF Q
  <2> QED
    BY <1>2, <1>3, CountingUp
<1>5. k \in Q
  <2> HIDE DEF Q
  <2> QED
    BY <1>1, <1>4
<1> QED
  BY <1>1, <1>5

(* A set of positions is the set of bits of its word.                      *)
LEMMA BitsOfWord ==
  ASSUME NEW S \in SUBSET Positions
  PROVE  Bits(Word(S)) = S /\ Word(S) \in 0 .. Power[IndexBits] - 1
<1>1. IndexBits \in Nat /\ IndexBits \in 0 .. IndexBits
  BY WidthAssumption
<1>2. Word(S) \in 0 .. Power[IndexBits] - 1
  BY <1>1, SumsBelow DEF Word
<1>3. ASSUME NEW T \in SUBSET Positions, Word(T) = Word(S) PROVE T = S
  <2>1. \A pos \in 0 .. IndexBits - 1 : pos \in T <=> pos \in S
    BY <1>1, <1>3, SumsInjective DEF Word
  <2> QED
    BY <2>1 DEF Positions
<1>4. Bits(Word(S)) \in SUBSET Positions /\ Word(Bits(Word(S))) = Word(S)
  <2> DEFINE w == Word(S)
  <2>1. \E T \in SUBSET Positions : Word(T) = w
    OBVIOUS
  <2> HIDE DEF w
  <2>2. Bits(w) \in SUBSET Positions /\ Word(Bits(w)) = w
    BY <2>1, Zenon DEF Bits
  <2> QED
    BY <2>2 DEF w
<1> QED
  BY <1>2, <1>3, <1>4

(* A word is made of its bits.                                             *)
LEMMA WordOfBits ==
  ASSUME NEW n \in 0 .. Power[IndexBits] - 1
  PROVE  Bits(n) \in SUBSET Positions /\ Word(Bits(n)) = n
<1>1. IndexBits \in 0 .. IndexBits
  BY WidthAssumption
<1>2. \E S \in SUBSET Positions : Word(S) = n
  BY <1>1, SumsOnto DEF Word, Positions
<1> QED
  BY <1>2, Zenon DEF Bits

(* A number below the power at j has no bit at j or above.                 *)
LEMMA SmallBits ==
  ASSUME NEW j \in 0 .. IndexBits, NEW n \in 0 .. Power[j] - 1
  PROVE  n \in 0 .. Power[IndexBits] - 1 /\ Bits(n) \in SUBSET (0 .. j - 1)
<1>1. IndexBits \in Nat /\ IndexBits \in 0 .. IndexBits /\ j <= IndexBits
  BY WidthAssumption
<1>2. PICK S \in SUBSET (0 .. j - 1) : PartialSums(S)[j] = n
  BY SumsOnto
<1>3. \A pos \in j .. IndexBits - 1 : pos \notin S
  BY <1>1
<1>4. Word(S) = n
  BY <1>1, <1>2, <1>3, SumsAbove DEF Word
<1>5. S \in SUBSET Positions
  BY <1>1 DEF Positions
<1>6. Bits(n) = S /\ n \in 0 .. Power[IndexBits] - 1
  BY <1>4, <1>5, BitsOfWord
<1> QED
  BY <1>6

(* The highest power in a number is one of its bits.                       *)
LEMMA HighestBit ==
  ASSUME NEW h \in 0 .. IndexBits - 1, NEW n \in Nat, Power[h] <= n, n < Power[h + 1]
  PROVE  /\ n \in 0 .. Power[IndexBits] - 1
         /\ h \in Bits(n) /\ Bits(n) \in SUBSET (0 .. h)
<1>1. /\ IndexBits \in Nat /\ h \in 0 .. IndexBits /\ h + 1 \in 0 .. IndexBits /\ (h + 1) - 1 = h
      /\ Power[h] \in Nat /\ Power[h + 1] \in Nat
  BY WidthAssumption, PowerUnfolds
<1>2. n \in 0 .. Power[h + 1] - 1
  BY <1>1
<1>3. n \in 0 .. Power[IndexBits] - 1 /\ Bits(n) \in SUBSET (0 .. h)
  <2>1. n \in 0 .. Power[IndexBits] - 1 /\ Bits(n) \in SUBSET (0 .. (h + 1) - 1)
    BY <1>1, <1>2, SmallBits
  <2> QED
    BY <1>1, <2>1
<1>4. ASSUME h \notin Bits(n) PROVE FALSE
  <2>1. \A pos \in h .. IndexBits - 1 : pos \notin Bits(n)
    BY <1>1, <1>3, <1>4
  <2>2. PartialSums(Bits(n))[IndexBits] = PartialSums(Bits(n))[h]
    BY <1>1, <2>1, SumsAbove
  <2>3. PartialSums(Bits(n))[IndexBits] = n
    BY <1>3, WordOfBits DEF Word
  <2>4. PartialSums(Bits(n))[h] \in 0 .. Power[h] - 1
    BY <1>1, SumsBelow
  <2> QED
    BY <2>2, <2>3, <2>4, <1>1
<1> QED
  BY <1>3, <1>4

(* The positions below j make the number before the power at j.            *)
LEMMA AllOnes ==
  ASSUME NEW j \in 0 .. IndexBits
  PROVE  /\ 0 .. j - 1 \in SUBSET Positions
         /\ Word(0 .. j - 1) = Power[j] - 1 /\ Bits(Power[j] - 1) = 0 .. j - 1
<1> DEFINE S == 0 .. j - 1
           s == PartialSums(S)
           Q == {k \in Nat : k <= j => s[k] = Power[k] - 1}
<1>1. IndexBits \in Nat /\ IndexBits \in 0 .. IndexBits /\ j <= IndexBits
  BY WidthAssumption
<1>2. 0 \in Q
  BY SumsUnfold, PowerUnfolds
<1>3. ASSUME NEW k \in Nat, k \in Q PROVE k + 1 \in Q
  <2> SUFFICES ASSUME k + 1 <= j PROVE s[k + 1] = Power[k + 1] - 1
    OBVIOUS
  <2>1. k \in 0 .. IndexBits - 1 /\ k \in S /\ s[k] = Power[k] - 1
    BY <1>1, <1>3
  <2> HIDE DEF S
  <2>2. s[k + 1] = s[k] + Power[k] /\ Power[k] \in Nat /\ Power[k + 1] = 2 * Power[k]
    BY <2>1, SumsNext
  <2> QED
    BY <2>1, <2>2
<1>4. Nat \subseteq Q
  <2> HIDE DEF Q
  <2> QED
    BY <1>2, <1>3, CountingUp
<1>5. j \in Q
  <2> HIDE DEF Q
  <2> QED
    BY <1>1, <1>4
<1>6. s[j] = Power[j] - 1
  BY <1>1, <1>5
<1>7. \A pos \in j .. IndexBits - 1 : pos \notin S
  BY <1>1
<1>8. S \in SUBSET Positions
  BY <1>1 DEF Positions
<1> HIDE DEF S
<1>9. Word(S) = Power[j] - 1
  BY <1>1, <1>6, <1>7, SumsAbove DEF Word
<1>10. Bits(Power[j] - 1) = S
  BY <1>8, <1>9, BitsOfWord
<1> QED
  BY <1>8, <1>9, <1>10 DEF S

(* A word is zero only without bits.                                       *)
LEMMA NoBits ==
  ASSUME NEW S \in SUBSET Positions
  PROVE  Word(S) = 0 <=> S = {}
<1>1. 0 \in 0 .. IndexBits /\ 0 .. 0 - 1 = {} /\ Power[0] = 1
  BY WidthAssumption, PowerUnfolds
<1>2. Word({}) = 0 /\ Bits(0) = {}
  BY <1>1, AllOnes
<1>3. Bits(Word(S)) = S
  BY BitsOfWord
<1> QED
  BY <1>2, <1>3

(***************************************************************************)
(* The operators &, | and >>                                               *)
(***************************************************************************)
Words == 0 .. Power[IndexBits] - 1

(* Bits of the results.                                                    *)
LEMMA OperatorBits ==
  ASSUME NEW a \in Words, NEW b \in Words, NEW s \in Nat
  PROVE  /\ And(a, b) \in Words /\ Bits(And(a, b)) = Bits(a) \cap Bits(b)
         /\ Or(a, b) \in Words /\ Bits(Or(a, b)) = Bits(a) \cup Bits(b)
         /\ ShiftRight(a, s) \in Words
         /\ Bits(ShiftRight(a, s)) = {k \in Positions : k + s \in Bits(a)}
<1>1. Bits(a) \in SUBSET Positions /\ Bits(b) \in SUBSET Positions
  BY WordOfBits DEF Words
<1>2. /\ Bits(a) \cap Bits(b) \in SUBSET Positions
      /\ Bits(a) \cup Bits(b) \in SUBSET Positions
      /\ {k \in Positions : k + s \in Bits(a)} \in SUBSET Positions
  BY <1>1
<1>3. And(a, b) \in Words /\ Bits(And(a, b)) = Bits(a) \cap Bits(b)
  BY <1>2, BitsOfWord DEF And, Words
<1>4. Or(a, b) \in Words /\ Bits(Or(a, b)) = Bits(a) \cup Bits(b)
  BY <1>2, BitsOfWord DEF Or, Words
<1>5. ShiftRight(a, s) \in Words /\ Bits(ShiftRight(a, s)) = {k \in Positions : k + s \in Bits(a)}
  BY <1>2, BitsOfWord DEF ShiftRight, Words
<1> QED
  BY <1>3, <1>4, <1>5

(* A number below n is its own remainder.                                  *)
LEMMA SmallRemainder ==
  ASSUME NEW n \in Nat \ {0}, NEW r \in 0 .. n - 1, NEW q \in Nat
  PROVE  (r + n * q) % n = r /\ r % n = r
<1> DEFINE a == r \div n
           u == r % n
<1>1. r \in Int /\ r = n * a + u /\ a \in Int /\ u \in 0 .. n - 1
  BY DivMod
<1>2. n * a - n * 0 < n /\ n * a - n * 0 > - n
  <2>1. n * 0 = 0
    OBVIOUS
  <2> HIDE DEF a, u
  <2> QED
    BY <1>1, <2>1
<1>3. a = 0
  <2> HIDE DEF a, u
  <2> QED
    BY <1>1, <1>2, SmallMultiple
<1>4. u = r
  <2>1. n * 0 = 0
    OBVIOUS
  <2> HIDE DEF a, u
  <2> QED
    BY <1>1, <1>3, <2>1
<1>5. (r + n * q) % n = r % n
  <2>1. r \in Int /\ q \in Int
    OBVIOUS
  <2> HIDE DEF a, u
  <2> QED
    BY <2>1, ModPeriods
<1> QED
  BY <1>4, <1>5

LEMMA WrapSmall ==
  ASSUME NEW n \in Words
  PROVE  wrap(n) = n
<1>1. Power[IndexBits] \in Nat \ {0}
  BY PowerLarge, WidthAssumption
<1> QED
  BY <1>1, SmallRemainder DEF wrap, Words

(* Masking with one less than a power of two is the remainder.             *)
LEMMA MaskIsRemainder ==
  ASSUME NEW j \in 0 .. IndexBits, NEW n \in Words
  PROVE  And(n, Power[j] - 1) = n % Power[j]
<1> DEFINE low == 0 .. j - 1
           B == Bits(n)
           C == B \cap low
<1>1. /\ IndexBits \in Nat /\ IndexBits \in 0 .. IndexBits /\ j <= IndexBits
      /\ Power[j] \in Nat \ {0}
  BY WidthAssumption, PowerLarge
<1>2. Bits(Power[j] - 1) = low
  BY AllOnes
<1>3. B \in SUBSET Positions /\ Word(B) = n
  BY WordOfBits DEF Words
<1>4. And(n, Power[j] - 1) = Word(C)
  BY <1>2 DEF And
<1>5. Word(C) = PartialSums(C)[j]
  <2>1. \A pos \in j .. IndexBits - 1 : pos \notin C
    BY <1>1
  <2> HIDE DEF C
  <2> QED
    BY <1>1, <2>1, SumsAbove DEF Word
<1>6. PartialSums(C)[j] = PartialSums(B)[j]
  <2>1. \A pos \in 0 .. j - 1 : pos \in C <=> pos \in B
    OBVIOUS
  <2> HIDE DEF B, C
  <2> QED
    BY <2>1, SumsLocal
<1> HIDE DEF B
<1>7. PICK q \in Nat : Word(B) = PartialSums(B)[j] + Power[j] * q
  BY <1>1, SumsAbove DEF Word
<1>8. PartialSums(B)[j] \in 0 .. Power[j] - 1
  BY SumsBelow
<1>9. n % Power[j] = PartialSums(B)[j]
  <2> DEFINE p == Power[j]
             r == PartialSums(B)[j]
  <2>1. p \in Nat \ {0} /\ r \in 0 .. p - 1 /\ n = r + p * q
    BY <1>1, <1>3, <1>7, <1>8
  <2> HIDE DEF p, r
  <2>2. (r + p * q) % p = r
    BY <2>1, SmallRemainder
  <2>3. n % p = r
    BY <2>1, <2>2, Zenon
  <2> QED
    BY <2>3 DEF p, r
<1> QED
  BY <1>4, <1>5, <1>6, <1>9

(* num & (num - 1) is zero for the powers of two only.                     *)
LEMMA PowerTest ==
  ASSUME NEW num \in 1 .. Power[IndexBits] - 1
  PROVE  is_power_of_two(num) <=> \E h \in 0 .. IndexBits - 1 : num = Power[h]
<1>1. Power[IndexBits] \in Nat /\ IndexBits \in Nat
  BY PowerLarge, WidthAssumption
<1>2. PICK h \in 0 .. IndexBits - 1 : Power[h] <= num /\ num < Power[h + 1]
  BY HighestPower
<1>3. h \in 0 .. IndexBits /\ Power[h] \in Nat \ {0} /\ num \in Nat
  BY <1>1, PowerLarge
<1>4. num \in Words /\ num - 1 \in Words /\ wrap(num - 1) = num - 1
  <2>1. num \in Words /\ num - 1 \in Words
    BY <1>1 DEF Words
  <2> QED
    BY <2>1, WrapSmall
<1>5. Bits(num) \cap Bits(num - 1) \in SUBSET Positions
  BY <1>4, WordOfBits DEF Words
<1>6. is_power_of_two(num) <=> Bits(num) \cap Bits(num - 1) = {}
  <2>1. is_power_of_two(num) <=> And(num, num - 1) = 0
    BY <1>4 DEF is_power_of_two
  <2> QED
    BY <2>1, <1>5, NoBits DEF And
<1>7. h \in Bits(num) /\ Bits(num) \in SUBSET (0 .. h)
  BY <1>2, <1>3, HighestBit
<1>8. CASE num = Power[h]
  <2>1. Bits(num - 1) = 0 .. h - 1
    BY <1>3, <1>8, AllOnes
  <2>2. num - 1 \in 0 .. Power[h] - 1 /\ Bits(num) \cap Bits(num - 1) = Bits(num) \cap (0 .. h - 1)
    BY <2>1, <1>3, <1>8
  <2>3. Bits(num) = {h}
    <3>1. PartialSums({h})[h] = PartialSums({})[h] /\ PartialSums({})[h] = 0
      <4>1. PartialSums({})[h] = PartialSums({})[0] /\ PartialSums({})[0] = 0
        BY <1>1, <1>3, SumsAbove, SumsUnfold
      <4>2. \A pos \in 0 .. h - 1 : pos \in {h} <=> pos \in {}
        BY <1>3
      <4> QED
        BY <4>1, <4>2, <1>3, SumsLocal
    <3>2. PartialSums({h})[h + 1] = Power[h]
      <4>1. PartialSums({h})[h + 1] = PartialSums({h})[h] + Power[h]
        BY SumsNext
      <4> QED
        BY <3>1, <4>1, <1>3
    <3>3. h + 1 \in 0 .. IndexBits /\ IndexBits \in 0 .. IndexBits /\ h + 1 <= IndexBits
          /\ \A pos \in h + 1 .. IndexBits - 1 : pos \notin {h}
      BY <1>1
    <3>4. Word({h}) = Power[h]
      BY <3>2, <3>3, SumsAbove DEF Word
    <3>5. {h} \in SUBSET Positions
      BY DEF Positions
    <3> QED
      BY <3>4, <3>5, <1>8, BitsOfWord
  <2>4. Bits(num) \cap Bits(num - 1) = {}
    BY <2>1, <2>3, <1>3
  <2> QED
    BY <2>4, <1>6, <1>8
<1>9. CASE num # Power[h]
  <2>1. num - 1 \in Nat /\ Power[h] <= num - 1 /\ num - 1 < Power[h + 1]
    <3>1. Power[h + 1] \in Nat
      BY SumsNext
    <3> QED
      BY <3>1, <1>2, <1>3, <1>9
  <2>2. h \in Bits(num - 1)
    BY <2>1, HighestBit
  <2>3. ~ is_power_of_two(num)
    BY <2>2, <1>6, <1>7
  <2>4. ASSUME NEW k \in 0 .. IndexBits - 1, num = Power[k] PROVE FALSE
    <3>1. k \in 0 .. IndexBits /\ h + 1 \in 0 .. IndexBits /\ k \in Nat /\ h \in Nat
          /\ Power[k] \in Nat /\ Power[h + 1] \in Nat
      BY <1>1, PowerLarge
    <3>2. k < h => 2 * Power[k] <= Power[h]
      BY <3>1, <1>3, PowerGrows
    <3>3. k > h => k = h + 1 \/ (h + 1 < k /\ 2 * Power[h + 1] <= Power[k])
      BY <3>1, PowerGrows
    <3>4. k # h
      BY <1>9, <2>4
    <3> QED
      BY <3>1, <3>2, <3>3, <3>4, <1>2, <1>3, <2>4
  <2> QED
    BY <2>3, <2>4
<1> QED
  BY <1>8, <1>9

(***************************************************************************)
(* Rounding the configured count                                           *)
(***************************************************************************)
(* The values num takes on in ceil_power_of_two.                           *)
Smears(num) ==
  LET step[k \in 0 .. IndexBits] ==
        IF k = 0 THEN num
        ELSE Or(step[k - 1], ShiftRight(step[k - 1], Power[k - 1]))
  IN  step

LEMMA SmearsUnfold ==
  ASSUME NEW num \in Words
  PROVE  /\ Smears(num) \in [0 .. IndexBits -> Words] /\ Smears(num)[0] = num
         /\ \A k \in 1 .. IndexBits :
              Smears(num)[k] = Or(Smears(num)[k - 1], ShiftRight(Smears(num)[k - 1], Power[k - 1]))
<1> DEFINE next(x, k) == Or(x, ShiftRight(x, Power[k - 1]))
           step == [p \in (1 .. IndexBits) \X Words |-> next(p[2], p[1])]
<1>1. IndexBits \in Nat
  BY WidthAssumption
<1>2. ASSUME NEW k \in 1 .. IndexBits, NEW x \in Words PROVE next(x, k) \in Words
  <2>1. Power[k - 1] \in Nat
    <3>1. k - 1 \in 0 .. IndexBits
      BY <1>1
    <3> QED
      BY <3>1, PowerUnfolds
  <2>2. ShiftRight(x, Power[k - 1]) \in Words
    BY <2>1, OperatorBits
  <2> QED
    BY <2>2, <1>1, OperatorBits
<1> HIDE DEF next
<1>3. step \in [(1 .. IndexBits) \X Words -> Words]
  BY <1>2
<1>4. Recursion(Words, IndexBits, num, step)
  <2> HIDE DEF step
  <2> QED
    BY <1>1, <1>3, RecursionExists
<1>5. PICK f \in [0 .. IndexBits -> Words] :
             f[0] = num /\ \A k \in 1 .. IndexBits : f[k] = step[<<k, f[k - 1]>>]
  BY <1>4 DEF Recursion
<1>6. ASSUME NEW k \in 1 .. IndexBits PROVE f[k] = next(f[k - 1], k)
  <2>1. k - 1 \in 0 .. IndexBits
    BY <1>1
  <2>2. f[k - 1] \in Words
    BY <2>1, <1>5
  <2>3. step[<<k, f[k - 1]>>] = next(f[k - 1], k)
    BY <2>2
  <2> QED
    BY <2>3, <1>5
<1> HIDE DEF step
<1>7. f = [k \in 0 .. IndexBits |-> IF k = 0 THEN num ELSE next(f[k - 1], k)]
  <2>1. \A k \in 0 .. IndexBits : f[k] = IF k = 0 THEN num ELSE next(f[k - 1], k)
    <3>1. \A k \in 0 .. IndexBits : k = 0 \/ k \in 1 .. IndexBits
      BY <1>1
    <3> QED
      BY <3>1, <1>5, <1>6
  <2> QED
    BY <2>1, <1>5
<1> DEFINE s == Smears(num)
<1>8. s = [k \in 0 .. IndexBits |-> IF k = 0 THEN num ELSE next(s[k - 1], k)]
  BY <1>7, Zenon DEF Smears, next
<1> HIDE DEF s
<1> DEFINE Q == {k \in Nat : k <= IndexBits => s[k] = f[k]}
<1>9. 0 \in Q
  <2>1. 0 \in 0 .. IndexBits
    BY <1>1
  <2>2. s[0] = num
    BY <2>1, <1>8
  <2> QED
    BY <2>2, <1>5
<1>10. ASSUME NEW k \in Nat, k \in Q PROVE k + 1 \in Q
  <2> SUFFICES ASSUME k + 1 <= IndexBits PROVE s[k + 1] = f[k + 1]
    OBVIOUS
  <2>1. k + 1 \in 0 .. IndexBits /\ k + 1 \in 1 .. IndexBits /\ k + 1 # 0 /\ (k + 1) - 1 = k /\ s[k] = f[k]
    BY <1>1, <1>10
  <2>2. s[k + 1] = next(s[(k + 1) - 1], k + 1)
    BY <1>8, <2>1
  <2>3. f[k + 1] = next(f[(k + 1) - 1], k + 1)
    BY <1>6, <2>1
  <2> QED
    BY <2>1, <2>2, <2>3
<1>11. Nat \subseteq Q
  <2> HIDE DEF Q
  <2> QED
    BY <1>9, <1>10, CountingUp
<1>12. \A k \in 0 .. IndexBits : s[k] = f[k]
  BY <1>11, <1>1
<1>13. s = f
  <2>1. DOMAIN s = 0 .. IndexBits /\ s = [k \in DOMAIN s |-> s[k]]
    BY <1>8
  <2>2. f = [k \in 0 .. IndexBits |-> f[k]]
    BY <1>5
  <2> QED
    BY <2>1, <2>2, <1>12
<1> QED
  BY <1>5, <1>6, <1>13 DEF s, next

(* After k steps a position is set where one of the Power[k] positions     *)
(* from it upwards was set at first.                                       *)
LEMMA SmearsSpread ==
  ASSUME NEW num \in Words
  PROVE  \A k \in 0 .. IndexBits : \A pos \in Positions :
           pos \in Bits(Smears(num)[k]) <=> \E d \in 0 .. Power[k] - 1 : pos + d \in Bits(num)
<1> DEFINE s == Smears(num)
           B == Bits(num)
           Near(pos, k) == \E d \in 0 .. Power[k] - 1 : pos + d \in B
           Q == {k \in Nat : k <= IndexBits => \A pos \in Positions : pos \in Bits(s[k]) <=> Near(pos, k)}
<1>1. IndexBits \in Nat /\ B \in SUBSET Positions
  BY WidthAssumption, WordOfBits DEF Words
<1>2. 0 \in Q
  <2>1. Power[0] - 1 = 0 /\ s[0] = num
    BY PowerUnfolds, SmearsUnfold
  <2>2. ASSUME NEW pos \in Positions PROVE pos \in Bits(s[0]) <=> Near(pos, 0)
    <3>1. \A d \in 0 .. Power[0] - 1 : d = 0
      BY <2>1
    <3>2. 0 \in 0 .. Power[0] - 1 /\ pos + 0 = pos
      BY <2>1 DEF Positions
    <3> QED
      BY <2>1, <3>1, <3>2
  <2> QED
    BY <2>2
<1>3. ASSUME NEW k \in Nat, k \in Q PROVE k + 1 \in Q
  <2> SUFFICES ASSUME k + 1 <= IndexBits, NEW pos \in Positions
               PROVE  pos \in Bits(s[k + 1]) <=> Near(pos, k + 1)
    OBVIOUS
  <2> DEFINE p == Power[k]
  <2>1. k \in 0 .. IndexBits - 1 /\ k \in 0 .. IndexBits /\ k + 1 \in 1 .. IndexBits /\ (k + 1) - 1 = k
    BY <1>1
  <2>2. p \in Nat /\ Power[k + 1] = 2 * p
    BY <2>1, SumsNext
  <2>3. \A j \in Positions : j \in Bits(s[k]) <=> Near(j, k)
    BY <1>3, <2>1
  <2>4. s[k] \in Words /\ s[k + 1] = Or(s[k], ShiftRight(s[k], p))
    <3> DEFINE P(n) == s[n] = Or(s[n - 1], ShiftRight(s[n - 1], Power[n - 1]))
    <3>1. s \in [0 .. IndexBits -> Words] /\ \A n \in 1 .. IndexBits : P(n)
      BY SmearsUnfold
    <3>2. P(k + 1)
      <4> HIDE DEF P
      <4> QED
        BY <3>1, <2>1
    <3> HIDE DEF s
    <3> QED
      BY <3>1, <3>2, <2>1
  <2>5. /\ ShiftRight(s[k], p) \in Words
        /\ Bits(ShiftRight(s[k], p)) = {j \in Positions : j + p \in Bits(s[k])}
    BY <2>2, <2>4, OperatorBits
  <2>6. Bits(s[k + 1]) = Bits(s[k]) \cup Bits(ShiftRight(s[k], p))
    <3> DEFINE x == ShiftRight(s[k], p)
    <3>1. x \in Words /\ s[k] \in Words
      BY <2>4, <2>5
    <3> HIDE DEF x
    <3>2. Bits(Or(s[k], x)) = Bits(s[k]) \cup Bits(x)
      BY <3>1, <2>2, OperatorBits
    <3> QED
      BY <3>2, <2>4 DEF x
  <2> HIDE DEF s, B
  <2>7. pos \in Nat /\ pos \in Bits(s[k + 1]) <=> pos \in Nat /\ (Near(pos, k) \/ pos + p \in Bits(s[k]))
    BY <2>3, <2>5, <2>6 DEF Positions
  <2>8. ASSUME pos + p \in Bits(s[k]) PROVE Near(pos, k + 1)
    <3>1. pos + p \in Positions
      BY <2>4, <2>8, WordOfBits DEF Words
    <3>2. PICK d \in 0 .. p - 1 : (pos + p) + d \in B
      BY <2>3, <2>8, <3>1
    <3>3. p + d \in 0 .. Power[k + 1] - 1 /\ pos + (p + d) = (pos + p) + d
      BY <2>2 DEF Positions
    <3> QED
      BY <3>2, <3>3
  <2>9. ASSUME Near(pos, k) PROVE Near(pos, k + 1)
    <3>1. PICK d \in 0 .. p - 1 : pos + d \in B
      BY <2>9
    <3>2. d \in 0 .. Power[k + 1] - 1
      BY <2>2
    <3> QED
      BY <3>1, <3>2
  <2>10. ASSUME Near(pos, k + 1) PROVE Near(pos, k) \/ pos + p \in Bits(s[k])
    <3>1. PICK d \in 0 .. Power[k + 1] - 1 : pos + d \in B
      BY <2>10
    <3>2. CASE d < p
      <4>1. d \in 0 .. p - 1
        BY <2>2, <3>2
      <4> QED
        BY <4>1, <3>1
    <3>3. CASE d >= p
      <4>1. d - p \in 0 .. p - 1 /\ (pos + p) + (d - p) = pos + d
        BY <2>2, <3>3 DEF Positions
      <4>2. pos + p \in Positions
        BY <1>1, <2>2, <3>1, <3>3 DEF Positions
      <4>3. Near(pos + p, k)
        BY <4>1, <3>1
      <4> QED
        BY <4>2, <4>3, <2>3
    <3> QED
      BY <3>2, <3>3, <2>2
  <2>11. pos \in Nat
    BY DEF Positions
  <2> QED
    BY <2>7, <2>8, <2>9, <2>10, <2>11
<1>4. Nat \subseteq Q
  <2> HIDE DEF Q
  <2> QED
    BY <1>2, <1>3, CountingUp
<1>5. ASSUME NEW k \in 0 .. IndexBits PROVE \A pos \in Positions : pos \in Bits(s[k]) <=> Near(pos, k)
  <2>1. k \in Q
    <3> HIDE DEF Q
    <3> QED
      BY <1>1, <1>4
  <2> QED
    BY <2>1, <1>1
<1> QED
  BY <1>5

(* Every position up to the highest one is set in the end, and no other.   *)
LEMMA SmearedIsOnes ==
  ASSUME NEW h \in 0 .. IndexBits - 1, NEW num \in Nat, Power[h] <= num, num < Power[h + 1]
  PROVE  Smeared(num) = Power[h + 1] - 1
<1> DEFINE K == CHOOSE k \in 0 .. IndexBits : Power[k] >= IndexBits
           x == Smears(num)[K]
<1>1. IndexBits \in Nat /\ IndexBits \in 0 .. IndexBits /\ h + 1 \in 0 .. IndexBits /\ (h + 1) - 1 = h
  BY WidthAssumption
<1>2. num \in Words /\ h \in Bits(num) /\ Bits(num) \in SUBSET (0 .. h)
  BY HighestBit DEF Words
<1>3. K \in 0 .. IndexBits /\ Power[K] >= IndexBits
  <2>1. Power[IndexBits] >= IndexBits
    BY <1>1, PowerLarge
  <2> QED
    BY <2>1, <1>1
<1>4. Smeared(num) = x
  BY DEF Smeared, Smears
<1> HIDE DEF K
<1>5. x \in Words
  BY <1>2, <1>3, SmearsUnfold
<1>6. \A pos \in Positions : pos \in Bits(x) <=> \E d \in 0 .. Power[K] - 1 : pos + d \in Bits(num)
  BY <1>2, <1>3, SmearsSpread
<1> HIDE DEF x
<1>7. ASSUME NEW pos \in Positions PROVE pos \in Bits(x) <=> pos \in 0 .. h
  <2>1. pos \in Nat /\ Power[K] \in Nat
    BY <1>3, PowerUnfolds DEF Positions
  <2>2. ASSUME pos <= h PROVE pos \in Bits(x)
    <3>1. h - pos \in 0 .. Power[K] - 1 /\ pos + (h - pos) = h
      BY <1>1, <1>3, <2>1, <2>2
    <3> QED
      BY <3>1, <1>2, <1>6
  <2>3. ASSUME pos \in Bits(x) PROVE pos <= h
    <3>1. PICK d \in 0 .. Power[K] - 1 : pos + d \in Bits(num)
      BY <1>6, <2>3
    <3>2. pos + d \in 0 .. h
      BY <3>1, <1>2
    <3> QED
      BY <3>1, <3>2, <2>1
  <2> QED
    BY <2>1, <2>2, <2>3
<1>8. Bits(x) = 0 .. h
  <2>1. Bits(x) \in SUBSET Positions /\ 0 .. h \in SUBSET Positions
    BY <1>1, <1>5, WordOfBits DEF Words, Positions
  <2> QED
    BY <2>1, <1>7
<1>9. x = Word(0 .. h)
  BY <1>5, <1>8, WordOfBits DEF Words
<1>10. Word(0 .. (h + 1) - 1) = Power[h + 1] - 1
  BY <1>1, AllOnes
<1> QED
  BY <1>1, <1>4, <1>9, <1>10

(* ceil_power_of_two finds the highest power of two in a number.           *)
LEMMA CeilIsHighestPower ==
  ASSUME NEW h \in 0 .. IndexBits - 1, NEW num \in Nat, Power[h] <= num, num < Power[h + 1]
  PROVE  ceil_power_of_two(num) = Power[h]
<1>1. IndexBits \in Nat /\ h + 1 \in 0 .. IndexBits /\ h \in 0 .. IndexBits /\ (h + 1) - 1 = h
  BY WidthAssumption
<1>2. Smeared(num) = Power[h + 1] - 1
  BY SmearedIsOnes
<1>3. Bits(Power[h + 1] - 1) = 0 .. h
  <2>1. Bits(Power[h + 1] - 1) = 0 .. (h + 1) - 1
    BY <1>1, AllOnes
  <2> QED
    BY <2>1, <1>1
<1>4. {k \in Positions : k + 1 \in 0 .. h} = 0 .. h - 1
  BY <1>1 DEF Positions
<1>5. ShiftRight(Power[h + 1] - 1, 1) = Power[h] - 1
  BY <1>1, <1>3, <1>4, AllOnes DEF ShiftRight
<1>6. Power[h] \in Nat /\ Power[h + 1] = 2 * Power[h]
  BY SumsNext
<1> QED
  BY <1>2, <1>5, <1>6 DEF ceil_power_of_two

(* The ring gets the least power of two, at least 2, that holds the count. *)
LEMMA RingSizeLeast ==
  ASSUME NEW c \in 1 .. Power[IndexBits - 1]
  PROVE  /\ RingSize(c) \in PowersOfTwo /\ RingSize(c) >= c
         /\ \A p \in PowersOfTwo : p >= c => RingSize(c) <= p
<1>1. /\ IndexBits \in Nat /\ IndexBits >= 2 /\ c \in Nat /\ c >= 1
      /\ IndexBits - 1 \in 0 .. IndexBits - 1 /\ IndexBits - 1 \in 0 .. IndexBits
      /\ (IndexBits - 1) + 1 = IndexBits
  BY WidthAssumption
<1>2. Power[IndexBits - 1] \in Nat \ {0} /\ Power[IndexBits] = 2 * Power[IndexBits - 1]
  BY <1>1, SumsNext, PowerLarge
<1>3. c \in 1 .. Power[IndexBits] - 1 /\ c <= Power[IndexBits - 1]
  BY <1>1, <1>2
<1>4. \A k \in 1 .. IndexBits - 1 : k \in 0 .. IndexBits /\ Power[k] \in Nat /\ Power[k] >= 2
  <2>1. \A k \in 1 .. IndexBits - 1 : k \in 0 .. IndexBits
    BY <1>1
  <2> QED
    BY <2>1, <1>1, PowerLarge
<1>5. CASE c <= 1
  <2>1. RingSize(c) = 2
    BY <1>5 DEF RingSize
  <2>2. 1 \in 1 .. IndexBits - 1 /\ Power[1] = 2
    <3>1. 0 \in 0 .. IndexBits - 1 /\ 0 + 1 = 1 /\ Power[0] = 1
      BY <1>1, PowerUnfolds
    <3>2. Power[0 + 1] = 2 * Power[0]
      BY <3>1, SumsNext
    <3> QED
      BY <3>1, <3>2, <1>1
  <2>3. RingSize(c) \in PowersOfTwo
    BY <2>1, <2>2 DEF PowersOfTwo
  <2>4. \A p \in PowersOfTwo : 2 <= p
    BY <1>4 DEF PowersOfTwo
  <2> QED
    BY <2>1, <2>3, <2>4, <1>1, <1>5
<1>6. CASE c > 1 /\ is_power_of_two(c)
  <2>1. RingSize(c) = c
    BY <1>1, <1>6 DEF RingSize
  <2>2. PICK k \in 0 .. IndexBits - 1 : c = Power[k]
    BY <1>3, <1>6, PowerTest
  <2>3. k # 0
    BY <2>2, <1>6, PowerUnfolds
  <2>4. c \in PowersOfTwo
    <3>1. k \in 1 .. IndexBits - 1
      BY <1>1, <2>3
    <3> QED
      BY <3>1, <2>2 DEF PowersOfTwo
  <2>5. \A p \in PowersOfTwo : p >= c => c <= p
    BY <1>1, <1>4 DEF PowersOfTwo
  <2> QED
    BY <2>1, <2>4, <2>5, <1>1
<1>7. CASE c > 1 /\ ~ is_power_of_two(c)
  <2>1. RingSize(c) = ceil_power_of_two(wrap((c - 1) * 2))
    BY <1>1, <1>7 DEF RingSize, round_uppower_of_two
  <2>2. PICK h \in 0 .. IndexBits - 1 : Power[h] <= c /\ c < Power[h + 1]
    BY <1>3, HighestPower
  <2>3. c # Power[h] /\ Power[h] \in Nat
    BY <1>3, <1>7, PowerTest, SumsNext
  <2>4. h \in Nat /\ h < IndexBits - 1
    <3>1. h # IndexBits - 1
      BY <1>1, <1>3, <2>2, <2>3
    <3> QED
      BY <3>1, <1>1
  <2>5. h + 1 \in 0 .. IndexBits - 1 /\ h + 1 \in 1 .. IndexBits - 1 /\ (h + 1) + 1 \in 0 .. IndexBits
    BY <1>1, <2>4
  <2>6. Power[h + 1] = 2 * Power[h] /\ Power[(h + 1) + 1] = 2 * Power[h + 1]
    BY <2>5, SumsNext
  <2> DEFINE x == (c - 1) * 2
  <2>7. x \in Nat /\ Power[h + 1] <= x /\ x < Power[(h + 1) + 1]
    BY <1>1, <2>2, <2>3, <2>6
  <2> HIDE DEF x
  <2>8. wrap(x) = x
    BY <2>5, <2>7, HighestBit, WrapSmall DEF Words
  <2>9. ceil_power_of_two(x) = Power[h + 1]
    BY <2>5, <2>7, CeilIsHighestPower
  <2>10. RingSize(c) = Power[h + 1]
    BY <2>1, <2>8, <2>9 DEF x
  <2>11. Power[h + 1] \in PowersOfTwo
    BY <2>5 DEF PowersOfTwo
  <2>12. ASSUME NEW k \in 1 .. IndexBits - 1, Power[k] >= c PROVE Power[h + 1] <= Power[k]
    <3>1. k \in 0 .. IndexBits /\ h \in 0 .. IndexBits /\ h + 1 \in 0 .. IndexBits /\ Power[k] \in Nat
          /\ Power[h + 1] \in Nat
      BY <1>1, <1>4, <2>4, <2>6, <2>3
    <3>2. k < h => 2 * Power[k] <= Power[h]
      BY <3>1, PowerGrows
    <3>3. k > h
      BY <3>1, <3>2, <2>2, <2>3, <2>12, <1>1, <2>4
    <3>4. k = h + 1 \/ 2 * Power[h + 1] <= Power[k]
      BY <3>1, <3>3, <2>4, PowerGrows
    <3> QED
      BY <3>1, <3>4
  <2>13. \A p \in PowersOfTwo : p >= c => Power[h + 1] <= p
    BY <2>12 DEF PowersOfTwo
  <2>14. Power[h + 1] >= c
    BY <2>2, <2>3, <2>6, <1>1
  <2> QED
    BY <2>10, <2>11, <2>13, <2>14
<1> QED
  BY <1>1, <1>5, <1>6, <1>7

(***************************************************************************)
(* The inductive invariant                                                 *)
(***************************************************************************)
TypeInv ==
  /\ cnt \in Counts /\ m_size = RingSize(cnt)
  /\ m_read_index \in Words /\ m_write_index \in Words
  /\ pool \in Seq(1 .. m_size) /\ held \subseteq 1 .. m_size
  /\ inits \in [1 .. m_size -> Nat]
  /\ phase \in {"fill", "init", "ready"} /\ i \in Nat

(* The wrapping indices are as far apart as there are blocks in the ring.  *)
IndexInv ==
  m_write_index = wrap(m_read_index + Len(pool)) /\ Len(pool) <= m_size - 1

(* While the ring is filled its blocks are the first ones, in order.       *)
FillInv ==
  phase = "fill" =>
    /\ i <= m_size /\ held = {}
    /\ Len(pool) = (IF i < m_size THEN i ELSE m_size - 1)
    /\ \A k \in 1 .. Len(pool) : pool[k] = k

(* From then on every block but one is in the ring or held, once.          *)
BlocksInv ==
  phase # "fill" =>
    /\ IsInjective(pool) /\ Range(pool) \cap held = {}
    /\ Range(pool) \cup held = 1 .. m_size - 1
    /\ Len(pool) + Cardinality(held) = m_size - 1

(* The block that is initialised in turn x: the blocks in order, and then  *)
(* from the first one again.                                               *)
Turn(x) ==
  IF x <= m_size - 1 THEN x
  ELSE IF x <= 2 * (m_size - 1) THEN x - (m_size - 1) ELSE x - 2 * (m_size - 1)

(* How often block b was initialised in the first n turns.                 *)
Turns(n, b) ==
  IF b = m_size THEN 0
  ELSE IF n = m_size /\ b = 1 THEN 2 ELSE IF b <= n THEN 1 ELSE 0

(* Blocks are initialised in turn, each one going to the end of the ring.  *)
TurnInv ==
  /\ phase = "fill" => \A b \in 1 .. m_size : inits[b] = 0
  /\ phase = "init" => /\ i <= cnt /\ held = {}
                       /\ \A k \in 1 .. Len(pool) : pool[k] = Turn(i + k)
                       /\ \A b \in 1 .. m_size : inits[b] = Turns(i, b)
  /\ phase = "ready" => \A b \in 1 .. m_size : inits[b] = Turns(cnt, b)

SetupInv == TypeInv /\ IndexInv /\ FillInv /\ BlocksInv /\ TurnInv

(***************************************************************************)
(* Masked indices that wrap                                                *)
(***************************************************************************)
(* The ring's size, in the form in which the proofs use it.                *)
LEMMA SizeFacts ==
  ASSUME TypeInv
  PROVE  /\ m_size \in Nat /\ m_size >= 2 /\ cnt \in Nat /\ cnt >= 1 /\ cnt <= m_size
         /\ m_size \in PowersOfTwo /\ Power[IndexBits] \in Nat \ {0}
         /\ \A n \in Words : index_of_queue(n) = n % m_size
         /\ \E q \in Nat : Power[IndexBits] = m_size * q
<1>1. cnt \in 1 .. Power[IndexBits - 1] /\ m_size = RingSize(cnt)
  BY SetupAssumption DEF TypeInv
<1>2. m_size \in PowersOfTwo /\ m_size >= cnt
  BY <1>1, RingSizeLeast
<1>3. PICK j \in 1 .. IndexBits - 1 : m_size = Power[j]
  BY <1>2 DEF PowersOfTwo
<1>4. j \in 0 .. IndexBits /\ IndexBits \in 0 .. IndexBits /\ j <= IndexBits /\ j >= 1
      /\ IndexBits - 1 \in 0 .. IndexBits
  BY <1>3, WidthAssumption
<1>5. m_size \in Nat /\ m_size >= 2
  BY <1>3, <1>4, PowerLarge
<1>6. cnt \in Nat /\ cnt >= 1
  BY <1>1, <1>4, PowerLarge
<1>7. Power[IndexBits] \in Nat \ {0}
  BY <1>4, PowerLarge
<1>8. \A n \in Words : index_of_queue(n) = n % m_size
  BY <1>3, <1>4, MaskIsRemainder DEF index_of_queue
<1>9. \E q \in Nat : Power[IndexBits] = m_size * q
  BY <1>3, <1>4, PowerMultiple
<1> QED
  BY <1>1, <1>2, <1>5, <1>6, <1>7, <1>8, <1>9

LEMMA WrapWord ==
  ASSUME NEW n \in Nat
  PROVE  wrap(n) \in Words
<1>1. Power[IndexBits] \in Nat \ {0}
  BY PowerLarge, WidthAssumption
<1> QED
  BY <1>1, DivMod DEF wrap, Words

(* The slot of a wrapped index is that of the index.                       *)
LEMMA WrappedSlot ==
  ASSUME TypeInv, NEW n \in Nat
  PROVE  index_of_queue(wrap(n)) = n % m_size
<1> DEFINE N == Power[IndexBits]
           a == n \div N
           u == n % N
<1>1. m_size \in Nat \ {0} /\ N \in Nat \ {0} /\ \A w \in Words : index_of_queue(w) = w % m_size
  BY SizeFacts
<1>2. PICK q \in Nat : N = m_size * q
  BY SizeFacts
<1>3. n = N * a + u /\ a \in Int /\ u \in 0 .. N - 1
  <2> HIDE DEF N
  <2> QED
    BY <1>1, DivMod
<1>4. u \in Words /\ wrap(n) = u
  BY <1>3 DEF Words, wrap
<1> HIDE DEF N, a, u
<1>5. N * a = m_size * (q * a) /\ q * a \in Int
  BY <1>1, <1>2, <1>3
<1>6. n = u + m_size * (q * a) /\ u \in Int
  BY <1>1, <1>3, <1>5
<1>7. n % m_size = u % m_size
  <2> DEFINE b == q * a
  <2>1. b \in Int /\ n = u + m_size * b /\ u \in Int
    BY <1>5, <1>6
  <2> HIDE DEF b
  <2>2. (u + m_size * b) % m_size = u % m_size
    BY <2>1, <1>1, ModPeriods
  <2> QED
    BY <2>1, <2>2
<1> QED
  BY <1>1, <1>4, <1>7

(* Going round by less than a lap leads to another slot.                   *)
LEMMA RoundTheRing ==
  ASSUME NEW n \in Nat \ {0}, NEW r \in Nat, NEW d \in 0 .. n
  PROVE  (r + d) % n = r % n <=> d = 0 \/ d = n
<1> DEFINE a == (r + d) \div n
           u == (r + d) % n
           b == r \div n
           v == r % n
<1>1. r + d \in Int /\ r \in Int /\ d \in Nat
  OBVIOUS
<1>2. r + d = n * a + u /\ a \in Int /\ u \in 0 .. n - 1
  BY <1>1, DivMod
<1>3. r = n * b + v /\ b \in Int /\ v \in 0 .. n - 1
  BY <1>1, DivMod
<1>4. ASSUME d = 0 \/ d = n PROVE u = v
  <2>1. ASSUME NEW q \in Int PROVE (r + n * q) % n = r % n
    <3> HIDE DEF a, b, u, v
    <3> QED
      BY <1>1, ModPeriods
  <2>2. ASSUME NEW q \in Int, q = 1 PROVE (r + n) % n = r % n
    <3>1. n * q = n
      BY <2>2
    <3>2. (r + n * q) % n = r % n
      BY <2>1, Zenon
    <3> QED
      BY <3>1, <3>2, Zenon
  <2>3. (r + n) % n = r % n /\ r + 0 = r
    BY <2>2
  <2> QED
    BY <2>3, <1>4
<1> HIDE DEF a, b, u, v
<1>5. ASSUME u = v, d # n PROVE d = 0
  <2>1. n * a - n * b < n /\ n * a - n * b > -n
    BY <1>1, <1>2, <1>3, <1>5
  <2>2. a = b
    BY <2>1, <1>2, <1>3, SmallMultiple
  <2> QED
    BY <2>2, <1>1, <1>2, <1>3, <1>5
<1>6. u = v <=> d = 0 \/ d = n
  BY <1>4, <1>5
<1> QED
  BY <1>6 DEF u, v

(* The tests of push and pop, from the invariant.                          *)
LEMMA RingTests ==
  ASSUME TypeInv, IndexInv
  PROVE  /\ EmptyRing <=> Len(pool) = 0
         /\ Full <=> Len(pool) = m_size - 1
         /\ Len(pool) \in Nat /\ Len(pool) <= m_size - 1
         /\ \A n \in Nat : wrap(wrap(m_read_index + n) + 1) = wrap(m_read_index + n + 1)
<1> DEFINE r == m_read_index
           n == Len(pool)
           N == Power[IndexBits]
<1>1. /\ r \in Nat /\ n \in Nat /\ n <= m_size - 1 /\ m_size \in Nat \ {0} /\ m_size >= 2
      /\ N \in Nat \ {0} /\ m_write_index = wrap(r + n) /\ r \in Words
  <2>1. N \in Nat \ {0} /\ m_size \in Nat \ {0} /\ m_size >= 2
    BY SizeFacts
  <2>2. n \in Nat
    BY DEF TypeInv
  <2> QED
    BY <2>1, <2>2 DEF TypeInv, IndexInv, Words
<1> HIDE DEF r, n, N
<1>2. ASSUME NEW m \in Nat PROVE wrap(wrap(r + m) + 1) = wrap(r + m + 1)
  <2>1. r + m \in Int /\ N \in Nat \ {0}
    BY <1>1
  <2>2. (((r + m) % N) + 1) % N = ((r + m) + 1) % N
    BY <2>1, ModAdd
  <2> QED
    BY <2>2 DEF wrap, N
<1>3. index_of_queue(r) = r % m_size
  BY <1>1, SizeFacts
<1>4. index_of_queue(m_write_index) = (r + n) % m_size
  <2>1. r + n \in Nat
    BY <1>1
  <2> QED
    BY <2>1, <1>1, WrappedSlot
<1>5. index_of_queue(wrap(m_write_index + 1)) = (r + (n + 1)) % m_size
  <2>1. r + n + 1 \in Nat /\ r + n + 1 = r + (n + 1)
    BY <1>1
  <2>2. wrap(m_write_index + 1) = wrap(r + n + 1)
    BY <1>1, <1>2
  <2> QED
    BY <2>1, <2>2, WrappedSlot
<1>6. EmptyRing <=> n = 0
  <2>1. n \in 0 .. m_size /\ n # m_size
    BY <1>1
  <2>2. (r + n) % m_size = r % m_size <=> n = 0 \/ n = m_size
    BY <1>1, <2>1, RoundTheRing
  <2> QED
    BY <2>1, <2>2, <1>3, <1>4 DEF EmptyRing, r
<1>7. Full <=> n = m_size - 1
  <2>1. n + 1 \in 0 .. m_size /\ n + 1 # 0
    BY <1>1
  <2>2. (r + (n + 1)) % m_size = r % m_size <=> n + 1 = 0 \/ n + 1 = m_size
    BY <1>1, <2>1, RoundTheRing
  <2>3. n + 1 = m_size <=> n = m_size - 1
    BY <1>1
  <2> QED
    BY <2>1, <2>2, <2>3, <1>3, <1>5 DEF Full, r
<1> QED
  BY <1>1, <1>2, <1>6, <1>7 DEF r, n

(***************************************************************************)
(* The invariant holds                                                     *)
(***************************************************************************)
LEMMA SetupInit == Init => SetupInv
<1> SUFFICES ASSUME Init PROVE SetupInv
  OBVIOUS
<1>1. cnt \in Counts /\ cnt \in 1 .. Power[IndexBits - 1] /\ m_size = RingSize(cnt)
  BY SetupAssumption DEF Init
<1>2. Power[IndexBits] \in Nat \ {0}
  BY PowerLarge, WidthAssumption
<1>3. m_read_index = 0 /\ m_write_index = 0 /\ 0 \in Words
  BY <1>2 DEF Init, Words
<1>4. TypeInv
  BY <1>1, <1>3 DEF Init, TypeInv
<1>5. m_size \in Nat /\ m_size >= 2
  BY <1>4, SizeFacts
<1>6. pool = <<>> /\ Len(pool) = 0 /\ phase = "fill" /\ i = 0 /\ held = {}
  BY DEF Init
<1>7. IndexInv
  <2>1. wrap(0) = 0
    BY <1>3, WrapSmall
  <2> QED
    BY <2>1, <1>3, <1>5, <1>6 DEF IndexInv
<1>8. FillInv
  BY <1>5, <1>6 DEF FillInv
<1>9. BlocksInv /\ TurnInv
  BY <1>6 DEF BlocksInv, TurnInv, Init
<1> QED
  BY <1>4, <1>7, <1>8, <1>9 DEF SetupInv

(* One more block in the ring.                                             *)
LEMMA PushKeepsIndices ==
  ASSUME TypeInv, IndexInv, NEW b \in 1 .. m_size, Len(pool) # m_size - 1, Push(b),
         UNCHANGED <<m_size, m_read_index>>
  PROVE  /\ pool' = Append(pool, b) /\ pool' \in Seq(1 .. m_size) /\ Len(pool') = Len(pool) + 1
         /\ m_write_index' \in Words /\ IndexInv'
<1>1. pool \in Seq(1 .. m_size) /\ m_read_index \in Words
  BY DEF TypeInv
<1>2. /\ ~ Full /\ Len(pool) \in Nat /\ Len(pool) <= m_size - 1
      /\ wrap(wrap(m_read_index + Len(pool)) + 1) = wrap(m_read_index + Len(pool) + 1)
  BY RingTests
<1>3. pool' = Append(pool, b) /\ m_write_index' = wrap(m_write_index + 1)
  BY <1>2 DEF Push
<1>4. pool' \in Seq(1 .. m_size) /\ Len(pool') = Len(pool) + 1
  BY <1>1, <1>3
<1>5. m_write_index' = wrap(m_read_index + Len(pool) + 1)
  BY <1>2, <1>3 DEF IndexInv
<1>6. m_size \in Nat /\ m_read_index \in Nat
  BY <1>1, SizeFacts DEF Words
<1>7. m_read_index + Len(pool) + 1 = m_read_index' + Len(pool') /\ Len(pool') <= m_size' - 1
  BY <1>2, <1>4, <1>6
<1>8. m_write_index' \in Words
  BY <1>2, <1>5, <1>6, WrapWord
<1> QED
  BY <1>3, <1>4, <1>5, <1>7, <1>8 DEF IndexInv

LEMMA FillPoolStep == SetupInv /\ FillPool => SetupInv'
<1> SUFFICES ASSUME SetupInv, FillPool PROVE SetupInv'
  OBVIOUS
<1> USE DEF SetupInv
<1>1. /\ phase = "fill" /\ i < m_size /\ Push(i + 1) /\ i' = i + 1
      /\ UNCHANGED <<cnt, m_size, m_read_index, held, inits, phase>>
  BY DEF FillPool
<1>2. m_size \in Nat /\ m_size >= 2 /\ i \in Nat /\ i + 1 \in 1 .. m_size /\ i' <= m_size'
  BY <1>1, SizeFacts DEF TypeInv
<1>3. /\ held = {} /\ Len(pool) = (IF i < m_size THEN i ELSE m_size - 1)
      /\ \A k \in 1 .. Len(pool) : pool[k] = k
  BY <1>1 DEF FillInv
<1>4. Len(pool) = i
  BY <1>1, <1>3
<1>5. BlocksInv' /\ TurnInv'
  BY <1>1 DEF BlocksInv, TurnInv
<1>6. CASE i = m_size - 1
  <2>1. Full
    BY <1>4, <1>6, RingTests
  <2>2. UNCHANGED <<m_write_index, pool>>
    BY <1>1, <2>1 DEF Push
  <2>3. TypeInv' /\ IndexInv'
    BY <1>1, <1>2, <2>2 DEF TypeInv, IndexInv
  <2>4. FillInv'
    BY <1>1, <1>2, <1>3, <1>4, <1>6, <2>2 DEF FillInv
  <2> QED
    BY <1>5, <2>3, <2>4
<1>7. CASE i # m_size - 1
  <2>1. Len(pool) # m_size - 1 /\ UNCHANGED <<m_size, m_read_index>>
    BY <1>1, <1>4, <1>7
  <2>2. /\ pool' = Append(pool, i + 1) /\ pool' \in Seq(1 .. m_size) /\ Len(pool') = i + 1
        /\ m_write_index' \in Words /\ IndexInv'
    BY <1>1, <1>2, <1>4, <2>1, PushKeepsIndices
  <2>3. TypeInv'
    BY <1>1, <1>2, <2>2 DEF TypeInv
  <2>4. FillInv'
    <3>1. \A k \in 1 .. i + 1 : pool'[k] = k
      BY <1>2, <1>3, <1>4, <2>2 DEF TypeInv
    <3>2. Len(pool') = (IF i' < m_size' THEN i' ELSE m_size' - 1)
      BY <1>1, <1>2, <1>7, <2>2
    <3> QED
      BY <1>1, <1>2, <1>3, <2>2, <3>1, <3>2 DEF FillInv
  <2> QED
    BY <1>5, <2>2, <2>3, <2>4
<1> QED
  BY <1>6, <1>7

LEMMA FillDoneStep == SetupInv /\ FillDone => SetupInv'
<1> SUFFICES ASSUME SetupInv, FillDone PROVE SetupInv'
  OBVIOUS
<1> USE DEF SetupInv
<1>1. /\ phase = "fill" /\ i = m_size /\ phase' = "init" /\ i' = 0
      /\ UNCHANGED <<cnt, m_size, m_read_index, m_write_index, pool, held, inits>>
  BY DEF FillDone
<1>2. m_size \in Nat /\ m_size >= 2 /\ cnt \in Nat /\ cnt >= 1
  BY SizeFacts
<1>3. held = {} /\ Len(pool) = m_size - 1 /\ \A k \in 1 .. Len(pool) : pool[k] = k
  BY <1>1, <1>2 DEF FillInv
<1>4. DOMAIN pool = 1 .. m_size - 1
  BY <1>3 DEF TypeInv
<1>5. TypeInv' /\ IndexInv' /\ FillInv'
  BY <1>1 DEF TypeInv, IndexInv, FillInv
<1>6. BlocksInv'
  <2>1. IsInjective(pool)
    BY <1>3, <1>4 DEF IsInjective
  <2>2. Range(pool) = 1 .. m_size - 1
    BY <1>3, <1>4 DEF Range
  <2>3. Cardinality({}) = 0 /\ m_size - 1 + 0 = m_size - 1
    BY <1>2, FS_EmptySet
  <2> QED
    BY <1>1, <1>3, <2>1, <2>2, <2>3 DEF BlocksInv
<1>7. TurnInv'
  <2>1. \A k \in 1 .. m_size - 1 : Turn(0 + k) = k
    BY <1>2 DEF Turn
  <2>2. \A b \in 1 .. m_size : Turns(0, b) = 0
    BY <1>2 DEF Turns
  <2>3. \A b \in 1 .. m_size : inits[b] = 0
    BY <1>1 DEF TurnInv
  <2>4. \A k \in 1 .. m_size - 1 : Turn(0 + k)' = Turn(0 + k)
    BY <1>1 DEF Turn
  <2>5. \A b \in 1 .. m_size : Turns(0, b)' = Turns(0, b)
    BY <1>1 DEF Turns
  <2> QED
    BY <1>1, <1>2, <1>3, <2>1, <2>2, <2>3, <2>4, <2>5 DEF TurnInv, Turn, Turns
<1> QED
  BY <1>5, <1>6, <1>7

LEMMA InitBlockStep == SetupInv /\ InitBlock => SetupInv'
<1> SUFFICES ASSUME SetupInv, InitBlock PROVE SetupInv'
  OBVIOUS
<1> USE DEF SetupInv
<1> DEFINE b == Head(pool)
           rest == Tail(pool)
<1>1. /\ phase = "init" /\ i < cnt /\ ~ EmptyRing
      /\ m_read_index' = wrap(m_read_index + 1) /\ m_write_index' = wrap(m_write_index + 1)
      /\ pool' = Append(rest, b) /\ inits' = [inits EXCEPT ![b] = @ + 1] /\ i' = i + 1
      /\ UNCHANGED <<cnt, m_size, held, phase>>
  BY DEF InitBlock
<1>2. m_size \in Nat /\ m_size >= 2 /\ cnt \in Nat /\ cnt <= m_size /\ i \in Nat
  BY SizeFacts DEF TypeInv
<1>3. /\ IsInjective(pool) /\ held = {} /\ Range(pool) = 1 .. m_size - 1
      /\ Len(pool) = m_size - 1
  <2>1. held = {}
    BY <1>1 DEF TurnInv
  <2>2. Cardinality(held) = 0
    BY <2>1, FS_EmptySet
  <2> QED
    BY <1>1, <1>2, <2>1, <2>2 DEF BlocksInv, TypeInv
<1>4. /\ pool \in Seq(1 .. m_size) /\ DOMAIN pool = 1 .. m_size - 1 /\ pool # <<>> /\ b = pool[1]
      /\ rest \in Seq(1 .. m_size) /\ Len(rest) = m_size - 2
      /\ \A k \in 1 .. m_size - 2 : rest[k] = pool[k + 1]
  BY <1>2, <1>3 DEF TypeInv
<1>5. /\ IsInjective(rest) /\ Range(rest) = Range(pool) \ {b} /\ b \in Range(pool)
      /\ b \in 1 .. m_size
  BY <1>3, <1>4, QueueTail
<1>6. /\ Range(pool) = 1 .. m_size - 1
      /\ \A k \in 1 .. m_size - 1 : pool[k] = Turn(i + k)
  BY <1>1, <1>3 DEF TurnInv
<1>7. b = Turn(i + 1)
  BY <1>2, <1>4, <1>6
<1> HIDE DEF b, rest
<1>8. /\ pool' \in Seq(1 .. m_size) /\ Len(pool') = m_size - 1
      /\ IsInjective(pool') /\ Range(pool') = 1 .. m_size - 1
      /\ pool'[m_size - 1] = b /\ \A k \in 1 .. m_size - 2 : pool'[k] = pool[k + 1]
  <2>1. b \notin Range(rest)
    BY <1>5
  <2>2. /\ IsInjective(Append(rest, b)) /\ Len(Append(rest, b)) = Len(rest) + 1
        /\ Range(Append(rest, b)) = Range(rest) \cup {b}
    <3> DEFINE S == 1 .. m_size
    <3>1. rest \in Seq(S) /\ b \in S
      BY <1>4, <1>5
    <3> HIDE DEF S
    <3> QED
      BY <1>5, <2>1, <3>1, QueueAppend
  <2>3. Append(rest, b) \in Seq(1 .. m_size) /\ Append(rest, b)[Len(rest) + 1] = b
        /\ \A k \in 1 .. Len(rest) : Append(rest, b)[k] = rest[k]
    BY <1>4, <1>5
  <2>4. Len(rest) + 1 = m_size - 1
    BY <1>2, <1>4
  <2>5. Range(rest) \cup {b} = 1 .. m_size - 1
    BY <1>3, <1>5
  <2> QED
    BY <1>1, <1>4, <2>2, <2>3, <2>4, <2>5
<1>9. TypeInv' /\ IndexInv' /\ FillInv'
  <2>1. /\ m_read_index \in Nat /\ m_write_index \in Nat
        /\ m_read_index + 1 \in Nat /\ m_write_index + 1 \in Nat
    BY DEF TypeInv, Words
  <2>2. m_read_index' \in Words /\ m_write_index' \in Words
    BY <1>1, <2>1, WrapWord
  <2>3. TypeInv'
    <3>1. inits' \in [1 .. m_size -> Nat]
      BY <1>1, <1>5 DEF TypeInv
    <3> QED
      BY <1>1, <1>2, <1>8, <2>2, <3>1 DEF TypeInv
  <2>4. m_write_index' = wrap(m_read_index' + Len(pool'))
    <3>1. m_write_index' = wrap(m_read_index + (m_size - 1) + 1)
      BY <1>1, <1>2, <1>3, RingTests DEF IndexInv
    <3>2. wrap(wrap(m_read_index + 1) + (m_size - 1)) = wrap((m_read_index + 1) + (m_size - 1))
      <4>1. Power[IndexBits] \in Nat \ {0} /\ m_read_index + 1 \in Int /\ m_size - 1 \in Int
        BY <1>2, <2>1, SizeFacts
      <4> QED
        BY <4>1, ModAdd DEF wrap
    <3>3. m_read_index + (m_size - 1) + 1 = (m_read_index + 1) + (m_size - 1)
      BY <1>2, <2>1
    <3> QED
      BY <1>1, <1>8, <3>1, <3>2, <3>3
  <2> QED
    BY <1>1, <1>2, <1>8, <2>3, <2>4 DEF IndexInv, FillInv
<1>10. BlocksInv'
  <2>1. Cardinality({}) = 0 /\ m_size - 1 + 0 = m_size - 1
    BY <1>2, FS_EmptySet
  <2> QED
    BY <1>1, <1>3, <1>8, <2>1 DEF BlocksInv
<1>11. TurnInv'
  <2>1. i + 1 <= m_size /\ i + 1 <= cnt
    BY <1>1, <1>2
  <2>2. ASSUME NEW k \in 1 .. m_size - 1 PROVE pool'[k] = Turn((i + 1) + k)
    <3>1. CASE k <= m_size - 2
      <4>1. k + 1 \in 1 .. m_size - 1 /\ i + (k + 1) = (i + 1) + k /\ k \in 1 .. m_size - 2
        BY <1>2, <3>1
      <4> QED
        BY <4>1, <1>6, <1>8
    <3>2. CASE k = m_size - 1
      <4>1. pool'[k] = Turn(i + 1)
        BY <1>7, <1>8, <3>2
      <4>2. Turn(i + 1) = Turn((i + 1) + (m_size - 1))
        BY <1>2, <2>1 DEF Turn
      <4> QED
        BY <4>1, <4>2, <3>2
    <3> QED
      BY <3>1, <3>2, <1>2
  <2>3. ASSUME NEW c \in 1 .. m_size PROVE inits'[c] = Turns(i + 1, c)
    <3>1. inits[c] = Turns(i, c) /\ inits \in [1 .. m_size -> Nat]
      BY <1>1 DEF TurnInv, TypeInv
    <3>2. inits'[c] = IF c = b THEN Turns(i, c) + 1 ELSE Turns(i, c)
      BY <1>1, <3>1
    <3>3. b = (IF i + 1 = m_size THEN 1 ELSE i + 1)
      BY <1>2, <1>7, <2>1 DEF Turn
    <3> QED
      BY <1>2, <2>1, <3>2, <3>3 DEF Turns
  <2>4. \A k \in 1 .. Len(pool') : pool'[k] = Turn(i + k)'
    <3>1. \A k \in 1 .. m_size - 1 : pool'[k] = Turn(i' + k)
      BY <1>1, <2>2
    <3> QED
      BY <1>1, <1>8, <3>1 DEF Turn
  <2>5. \A c \in 1 .. m_size' : inits'[c] = Turns(i, c)'
    BY <1>1, <2>3 DEF Turns
  <2> QED
    BY <1>1, <1>3, <2>1, <2>4, <2>5 DEF TurnInv
<1> QED
  BY <1>9, <1>10, <1>11

LEMMA InitDoneStep == SetupInv /\ InitDone => SetupInv'
<1> SUFFICES ASSUME SetupInv, InitDone PROVE SetupInv'
  OBVIOUS
<1> USE DEF SetupInv
<1>1. /\ phase = "init" /\ i = cnt /\ phase' = "ready" /\ i' = 0
      /\ UNCHANGED <<cnt, m_size, m_read_index, m_write_index, pool, held, inits>>
  BY DEF InitDone
<1>2. TypeInv' /\ IndexInv' /\ FillInv' /\ BlocksInv'
  BY <1>1 DEF TypeInv, IndexInv, FillInv, BlocksInv
<1>3. \A b \in 1 .. m_size : inits[b] = Turns(cnt, b)
  BY <1>1 DEF TurnInv
<1>4. TurnInv'
  BY <1>1, <1>3 DEF TurnInv, Turns
<1> QED
  BY <1>2, <1>4

LEMMA AllocStep ==
  ASSUME SetupInv, NEW b \in 1 .. m_size, alloc(b)
  PROVE  SetupInv'
<1> USE DEF SetupInv
<1>1. /\ phase = "ready" /\ ~ EmptyRing /\ b = Head(pool)
      /\ m_read_index' = wrap(m_read_index + 1) /\ pool' = Tail(pool) /\ held' = held \cup {b}
      /\ UNCHANGED <<cnt, m_size, m_write_index, inits, phase, i>>
  BY DEF alloc, Pop
<1>2. m_size \in Nat /\ m_size >= 2 /\ m_read_index \in Nat /\ m_read_index + 1 \in Nat
  BY SizeFacts DEF TypeInv, Words
<1>3. /\ IsInjective(pool) /\ Range(pool) \cap held = {} /\ Range(pool) \cup held = 1 .. m_size - 1
      /\ Len(pool) + Cardinality(held) = m_size - 1
  BY <1>1 DEF BlocksInv
<1>4. Len(pool) \in Nat /\ Len(pool) # 0 /\ Len(pool) <= m_size - 1
  BY <1>1, RingTests
<1>5. /\ IsInjective(pool') /\ Len(pool') = Len(pool) - 1 /\ Range(pool') = Range(pool) \ {b}
      /\ b \in Range(pool) /\ pool' \in Seq(1 .. m_size)
  <2> DEFINE S == 1 .. m_size
  <2>1. pool \in Seq(S) /\ pool # <<>>
    BY <1>4 DEF TypeInv
  <2> HIDE DEF S
  <2>2. /\ IsInjective(Tail(pool)) /\ Len(Tail(pool)) = Len(pool) - 1
        /\ Range(Tail(pool)) = Range(pool) \ {Head(pool)} /\ Head(pool) \in Range(pool)
    BY <1>3, <2>1, QueueTail
  <2>3. Tail(pool) \in Seq(S)
    BY <2>1
  <2> QED
    BY <1>1, <2>2, <2>3 DEF S
<1>6. TypeInv'
  <2>1. m_read_index' \in Words
    BY <1>1, <1>2, WrapWord
  <2> QED
    BY <1>1, <1>5, <2>1 DEF TypeInv
<1>7. IndexInv'
  <2>1. wrap(wrap(m_read_index + 1) + (Len(pool) - 1)) = wrap((m_read_index + 1) + (Len(pool) - 1))
    <3>1. Power[IndexBits] \in Nat \ {0} /\ m_read_index + 1 \in Int /\ Len(pool) - 1 \in Int
      BY <1>2, <1>4, SizeFacts
    <3> QED
      BY <3>1, ModAdd DEF wrap
  <2>2. (m_read_index + 1) + (Len(pool) - 1) = m_read_index + Len(pool)
    BY <1>2, <1>4
  <2>3. m_write_index' = wrap(m_read_index' + Len(pool'))
    BY <1>1, <1>5, <2>1, <2>2 DEF IndexInv
  <2>4. Len(pool') <= m_size' - 1
    BY <1>1, <1>2, <1>4, <1>5
  <2> QED
    BY <2>3, <2>4 DEF IndexInv
<1>8. BlocksInv'
  <2>1. IsFiniteSet(held) /\ b \notin held
    <3>1. IsFiniteSet(1 .. m_size) /\ held \subseteq 1 .. m_size
      BY <1>2, FS_Interval DEF TypeInv
    <3> QED
      BY <3>1, <1>3, <1>5, FS_Subset
  <2>2. Cardinality(held \cup {b}) = Cardinality(held) + 1 /\ Cardinality(held) \in Nat
    BY <2>1, FS_AddElement, FS_CardinalityType
  <2>3. Len(pool') + Cardinality(held') = m_size - 1
    BY <1>1, <1>2, <1>3, <1>4, <1>5, <2>2
  <2>4. Range(pool') \cap held' = {} /\ Range(pool') \cup held' = 1 .. m_size - 1
    BY <1>1, <1>3, <1>5
  <2> QED
    BY <1>1, <1>5, <2>3, <2>4 DEF BlocksInv
<1>9. FillInv' /\ TurnInv'
  BY <1>1 DEF FillInv, TurnInv, Turns
<1> QED
  BY <1>6, <1>7, <1>8, <1>9

LEMMA FreeStep ==
  ASSUME SetupInv, NEW b \in 1 .. m_size, free(b)
  PROVE  SetupInv'
<1> USE DEF SetupInv
<1>1. /\ phase = "ready" /\ b \in held /\ Push(b) /\ held' = held \ {b}
      /\ UNCHANGED <<cnt, m_size, m_read_index, inits, phase, i>>
  BY DEF free
<1>2. m_size \in Nat /\ m_size >= 2
  BY SizeFacts
<1>3. /\ IsInjective(pool) /\ Range(pool) \cap held = {} /\ Range(pool) \cup held = 1 .. m_size - 1
      /\ Len(pool) + Cardinality(held) = m_size - 1
  BY <1>1 DEF BlocksInv
<1>4. IsFiniteSet(held)
  <2>1. IsFiniteSet(1 .. m_size) /\ held \subseteq 1 .. m_size
    BY <1>2, FS_Interval DEF TypeInv
  <2> QED
    BY <2>1, FS_Subset
<1>5. Cardinality(held \ {b}) = Cardinality(held) - 1 /\ Cardinality(held) \in Nat
      /\ Cardinality(held \ {b}) \in Nat
  <2>1. IsFiniteSet(held \ {b})
    BY <1>4, FS_RemoveElement
  <2> QED
    BY <1>1, <1>4, <2>1, FS_RemoveElement, FS_CardinalityType
<1>6. Len(pool) \in Nat /\ Len(pool) # m_size - 1
  BY <1>2, <1>3, <1>5 DEF TypeInv
<1>7. /\ pool' = Append(pool, b) /\ pool' \in Seq(1 .. m_size) /\ Len(pool') = Len(pool) + 1
      /\ m_write_index' \in Words /\ IndexInv'
  BY <1>1, <1>6, PushKeepsIndices
<1>8. TypeInv'
  BY <1>1, <1>7 DEF TypeInv
<1>9. BlocksInv'
  <2>1. b \notin Range(pool)
    BY <1>1, <1>3
  <2>2. IsInjective(pool') /\ Range(pool') = Range(pool) \cup {b}
    <3> DEFINE S == 1 .. m_size
    <3>1. pool \in Seq(S) /\ b \in S
      BY DEF TypeInv
    <3> HIDE DEF S
    <3> QED
      BY <1>3, <1>7, <2>1, <3>1, QueueAppend
  <2>3. Len(pool') + Cardinality(held') = m_size - 1
    BY <1>1, <1>2, <1>3, <1>5, <1>6, <1>7
  <2>4. Range(pool') \cap held' = {} /\ Range(pool') \cup held' = 1 .. m_size - 1
    BY <1>1, <1>3, <2>1, <2>2
  <2> QED
    BY <1>1, <2>2, <2>3, <2>4 DEF BlocksInv
<1>10. FillInv' /\ TurnInv'
  BY <1>1 DEF FillInv, TurnInv, Turns
<1> QED
  BY <1>7, <1>8, <1>9, <1>10

LEMMA SetupStep == SetupInv /\ [Next]_vars => SetupInv'
<1> SUFFICES ASSUME SetupInv, [Next]_vars PROVE SetupInv'
  OBVIOUS
<1>1. ASSUME NEW b \in 1 .. m_size, alloc(b) PROVE SetupInv'
  BY <1>1, AllocStep
<1>2. ASSUME NEW b \in 1 .. m_size, free(b) PROVE SetupInv'
  BY <1>2, FreeStep
<1>3. CASE UNCHANGED vars
  BY <1>3 DEF vars, SetupInv, TypeInv, IndexInv, FillInv, BlocksInv, TurnInv, Turn, Turns
<1> QED
  BY <1>1, <1>2, <1>3, FillPoolStep, FillDoneStep, InitBlockStep, InitDoneStep DEF Next

(* The invariant, which TypeInv is a part of, holds throughout.            *)
THEOREM SetupInvariant == Spec => []SetupInv
  BY SetupInit, SetupStep, PTL DEF Spec

(***************************************************************************)
(* The properties of the runs                                              *)
(***************************************************************************)
LEMMA InvariantSizes == SetupInv => RingSizeIsLeastPower
<1> SUFFICES ASSUME SetupInv PROVE RingSizeIsLeastPower
  OBVIOUS
<1>1. cnt \in 1 .. Power[IndexBits - 1] /\ m_size = RingSize(cnt)
  BY SetupAssumption DEF SetupInv, TypeInv
<1> QED
  BY <1>1, RingSizeLeast DEF RingSizeIsLeastPower

LEMMA InvariantTests == SetupInv => TestsSurviveWrap
<1> SUFFICES ASSUME SetupInv PROVE TestsSurviveWrap
  OBVIOUS
<1>1. (EmptyRing <=> Len(pool) = 0) /\ (Full <=> Len(pool) = m_size - 1)
  BY RingTests DEF SetupInv
<1>2. Len(pool) = 0 <=> pool = <<>>
  BY DEF SetupInv, TypeInv
<1> QED
  BY <1>1, <1>2 DEF TestsSurviveWrap

LEMMA InvariantBlocks == SetupInv => OneBlockUnused
  BY DEF SetupInv, BlocksInv, OneBlockUnused, Range

LEMMA InvariantInits == SetupInv => PowerOfTwoCountInitialisesAll
<1> SUFFICES ASSUME SetupInv, phase = "ready", cnt >= m_size - 1
             PROVE  /\ \A b \in 1 .. m_size - 1 : inits[b] >= 1
                    /\ Cardinality({b \in 1 .. m_size : inits[b] > 1}) <= 1
  BY DEF PowerOfTwoCountInitialisesAll
<1>1. m_size \in Nat /\ m_size >= 2 /\ cnt \in Nat
  BY SizeFacts DEF SetupInv
<1>2. \A b \in 1 .. m_size : inits[b] = Turns(cnt, b)
  BY DEF SetupInv, TurnInv
<1>3. \A b \in 1 .. m_size - 1 : b \in 1 .. m_size /\ Turns(cnt, b) >= 1
  BY <1>1 DEF Turns
<1>4. \A b \in 1 .. m_size : Turns(cnt, b) > 1 => b = 1
  BY <1>1 DEF Turns
<1>5. Cardinality({b \in 1 .. m_size : inits[b] > 1}) <= 1
  <2> DEFINE T == {b \in 1 .. m_size : inits[b] > 1}
  <2>1. T \subseteq {1}
    BY <1>2, <1>4
  <2> HIDE DEF T
  <2>2. IsFiniteSet({1}) /\ Cardinality({1}) = 1
    BY FS_Singleton
  <2>3. Cardinality(T) <= 1
    BY <2>1, <2>2, FS_Subset
  <2> QED
    BY <2>3 DEF T
<1> QED
  BY <1>2, <1>3, <1>5

(* The bit tricks of round_uppower_of_two give the least power of two, at  *)
(* least 2, that holds the configured count.                               *)
THEOREM SizeIsLeastPower == Spec => []RingSizeIsLeastPower
  BY SetupInvariant, InvariantSizes, PTL

(* Masking the wrapping indices keeps telling a full, an empty and any     *)
(* other ring apart.                                                       *)
THEOREM WrappingKeepsTests == Spec => []TestsSurviveWrap
  BY SetupInvariant, InvariantTests, PTL

(* Exactly one block is never handed out; the others are pooled or held,   *)
(* once each.                                                              *)
THEOREM OneBlockIsUnused == Spec => []OneBlockUnused
  BY SetupInvariant, InvariantBlocks, PTL

(* Where the count is a power of two, or one less, every block that is     *)
(* handed out was initialised, and at most one of them twice.              *)
THEOREM AllAreInitialised == Spec => []PowerOfTwoCountInitialisesAll
  BY SetupInvariant, InvariantInits, PTL
==============================================================================
