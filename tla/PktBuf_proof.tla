---------------------------- MODULE PktBuf_proof -----------------------------
(***************************************************************************)
(* Proofs about PktBuf, for any number of packets, blocks and bytes a      *)
(* block has: the capacity is the sum of the blocks, every block has one   *)
(* owner, and the cursor is where m_pos says; then, that a packet behaves  *)
(* as the string of its bytes.                                             *)
(***************************************************************************)
EXTENDS PktBuf, DataLemmas, TLAPS

(* A block in a list holds at least a byte and stays within its payload.   *)
GoodBlocks ==
  {b \in [blk : Blks, m_data : 0 .. BlkSize - 1, m_size : 1 .. BlkSize, mem : Payload] :
     b.m_data + b.m_size <= BlkSize}
AnyBlocks == GoodBlocks \cup {NullBlock}

Cursors == [pos : Int, blk : Int, off : Int]

Typed ==
  /\ pool \subseteq Blks /\ leaked \subseteq Blks /\ live \subseteq Pkts /\ garbage \in BOOLEAN
  /\ list \in [Pkts -> Seq(AnyBlocks)]
  /\ m_capacity \in [Pkts -> Nat] /\ cur \in [Pkts -> Cursors]
  /\ out \in Seq(Bytes)

Held(l) == {l[i].blk : i \in DOMAIN l}

Distinct(l) == \A i, k \in DOMAIN l : l[i].blk = l[k].blk => i = k

(* Each block is in the pool, leaked, or in one list, where it is once.    *)
Owned ==
  /\ \A p \in Pkts : Distinct(list[p]) /\ Held(list[p]) \cap (pool \cup leaked) = {}
  /\ \A p, q \in Pkts : p # q => Held(list[p]) \cap Held(list[q]) \subseteq {0}
  /\ pool \cap leaked = {}
  /\ \A b \in Blks : b \in pool \cup leaked \/ \E p \in Pkts : b \in Held(list[p])

(* m_cur_blk and m_blk_offset, for the position m_pos.                     *)
CursorIn(l, c) ==
  /\ c.blk \in 1 .. Len(l) + 1
  /\ c.blk <= Len(l) => LET b == l[c.blk] IN
                        /\ c.off \in b.m_data .. b.m_data + b.m_size - 1
                        /\ c.pos = Ends(l)[c.blk - 1] + c.off - b.m_data
  /\ c.blk = Len(l) + 1 => c.pos = SumOfSizes(l)

(* A cursor that is used: then no block of the list is null.               *)
Points(l, c) == NullBlock \notin Range(l) /\ CursorIn(l, c)

PacketInv(p) ==
  /\ p \notin live => list[p] = <<>>
  /\ p \in live => m_capacity[p] = SumOfSizes(list[p])
  /\ p \in live /\ cur[p] # NoCursor => Points(list[p], cur[p])

PktInv == Typed /\ Owned /\ \A p \in Pkts : PacketInv(p)
------------------------------------------------------------------------------
(***************************************************************************)
(* The bytes of a list                                                     *)
(***************************************************************************)
Sized(l) == Len(l) \in Nat /\ \A i \in 1 .. Len(l) : l[i].m_size \in Nat

(* Ends adds one block's size after the other.                             *)
LEMMA EndsAre ==
  ASSUME NEW l, Sized(l)
  PROVE  /\ Ends(l) \in [0 .. Len(l) -> Nat] /\ Ends(l)[0] = 0
         /\ \A i \in 1 .. Len(l) : Ends(l)[i] = Ends(l)[i - 1] + l[i].m_size
<1> DEFINE n == Len(l)
           step == [at \in (1 .. n) \X Nat |-> at[2] + l[at[1]].m_size]
           R(f) == f = [i \in 0 .. n |-> IF i = 0 THEN 0 ELSE f[i - 1] + l[i].m_size]
<1>1. step \in [(1 .. n) \X Nat -> Nat]
  BY DEF Sized
<1>2. PICK f \in [0 .. n -> Nat] : f[0] = 0 /\ \A i \in 1 .. n : f[i] = step[<<i, f[i - 1]>>]
  <2>1. n \in Nat
    BY DEF Sized
  <2>2. Recursion(Nat, n, 0, step)
    <3> HIDE DEF step, n
    <3> QED
      BY <1>1, <2>1, RecursionExists
  <2> HIDE DEF step
  <2> QED
    BY <2>2 DEF Recursion
<1>3. R(f)
  <2>1. \A i \in 1 .. n : f[i] = f[i - 1] + l[i].m_size
    <3> SUFFICES ASSUME NEW i \in 1 .. n PROVE f[i] = f[i - 1] + l[i].m_size
      OBVIOUS
    <3>1. i - 1 \in 0 .. n /\ f[i - 1] \in Nat
      BY <1>2 DEF Sized
    <3> QED
      BY <1>2, <3>1
  <2> QED
    BY <1>2, <2>1
<1> DEFINE e == CHOOSE f_1 : R(f_1)
<1>4. R(e)
  BY <1>3
<1>5. Ends(l) = e
  BY DEF Ends
<1> HIDE DEF e
<1>6. e[0] = 0 /\ \A i \in 1 .. n : e[i] = e[i - 1] + l[i].m_size
  BY <1>4 DEF Sized
<1>7. \A i \in 0 .. n : e[i] \in Nat
  <2> DEFINE Q == {i \in Nat : i <= n => e[i] \in Nat}
  <2>1. 0 \in Q
    BY <1>6
  <2>2. ASSUME NEW k \in Nat, k \in Q PROVE k + 1 \in Q
    <3> SUFFICES ASSUME k + 1 <= n PROVE e[k + 1] \in Nat
      OBVIOUS
    <3>1. k + 1 \in 1 .. n /\ k + 1 - 1 = k /\ k <= n
      BY DEF Sized
    <3>2. e[k + 1] = e[k] + l[k + 1].m_size
      BY <1>6, <3>1
    <3> QED
      BY <2>2, <3>1, <3>2 DEF Sized
  <2> HIDE DEF Q
  <2>3. Nat \subseteq Q
    BY <2>1, <2>2, CountingUp
  <2> QED
    BY <2>3 DEF Q, Sized
<1>8. e \in [0 .. n -> Nat]
  BY <1>4, <1>7
<1> QED
  BY <1>5, <1>6, <1>8

Accumulates(l, f) == f[0] = 0 /\ \A i \in 1 .. Len(l) : f[i] = f[i - 1] + l[i].m_size

(* Any function that begins and goes on as Ends does is equal to it.       *)
LEMMA EndsUnique ==
  ASSUME NEW l, Sized(l), NEW f, Accumulates(l, f)
  PROVE  \A i \in 0 .. Len(l) : Ends(l)[i] = f[i]
<1> DEFINE Q == {k \in Nat : k <= Len(l) => Ends(l)[k] = f[k]}
<1>1. 0 \in Q
  BY EndsAre DEF Accumulates
<1>2. ASSUME NEW k \in Nat, k \in Q PROVE k + 1 \in Q
  <2> SUFFICES ASSUME k + 1 <= Len(l) PROVE Ends(l)[k + 1] = f[k + 1]
    OBVIOUS
  <2>1. k + 1 \in 1 .. Len(l) /\ k + 1 - 1 = k /\ k <= Len(l)
    BY DEF Sized
  <2>2. Ends(l)[k + 1] = Ends(l)[k] + l[k + 1].m_size /\ f[k + 1] = f[k] + l[k + 1].m_size
    BY <2>1, EndsAre DEF Accumulates
  <2> QED
    BY <1>2, <2>1, <2>2
<1> HIDE DEF Q
<1>3. Nat \subseteq Q
  BY <1>1, <1>2, CountingUp
<1> QED
  BY <1>3 DEF Q, Sized

(* Ends does not decrease.                                                 *)
LEMMA EndsMonotonic ==
  ASSUME NEW l, Sized(l), NEW i \in 0 .. Len(l), NEW k \in 0 .. Len(l), i <= k
  PROVE  Ends(l)[i] <= Ends(l)[k]
<1> DEFINE Q == {m \in Nat : i <= m /\ m <= Len(l) => Ends(l)[i] <= Ends(l)[m]}
<1>0. Len(l) \in Nat /\ Ends(l) \in [0 .. Len(l) -> Nat]
  BY EndsAre DEF Sized
<1>1. 0 \in Q
  BY <1>0
<1>2. ASSUME NEW m \in Nat, m \in Q PROVE m + 1 \in Q
  <2> SUFFICES ASSUME i <= m + 1, m + 1 <= Len(l) PROVE Ends(l)[i] <= Ends(l)[m + 1]
    OBVIOUS
  <2>1. CASE i = m + 1
    BY <1>0, <2>1
  <2>2. CASE i # m + 1
    <3>1. m + 1 \in 1 .. Len(l) /\ m + 1 - 1 = m /\ i <= m /\ m <= Len(l)
      BY <1>0, <2>2
    <3>2. Ends(l)[m + 1] = Ends(l)[m] + l[m + 1].m_size /\ l[m + 1].m_size \in Nat
      BY <3>1, EndsAre DEF Sized
    <3>3. Ends(l)[i] <= Ends(l)[m] /\ Ends(l)[i] \in Nat /\ Ends(l)[m] \in Nat
      BY <1>0, <1>2, <3>1
    <3> QED
      BY <3>2, <3>3
  <2> QED
    BY <2>1, <2>2
<1> HIDE DEF Q
<1>3. Nat \subseteq Q
  BY <1>1, <1>2, CountingUp
<1> QED
  BY <1>0, <1>3 DEF Q

(* Every block of a list has a size: the sums are defined.                 *)
LEMMA ListFacts ==
  ASSUME NEW l \in Seq(AnyBlocks)
  PROVE  /\ Sized(l) /\ DOMAIN l = 1 .. Len(l) /\ SumOfSizes(l) \in Nat
         /\ l \in Seq(GoodBlocks) => \A i \in 1 .. Len(l) : l[i] \in GoodBlocks
<1>1. Len(l) \in Nat /\ DOMAIN l = 1 .. Len(l) /\ \A i \in 1 .. Len(l) : l[i] \in AnyBlocks
  BY LenProperties, ElementOfSeq
<1>2. \A b \in AnyBlocks : b.m_size \in Nat
  BY PktBufAssumption DEF AnyBlocks, GoodBlocks, NullBlock, Block
<1>3. Sized(l)
  BY <1>1, <1>2 DEF Sized
<1>4. SumOfSizes(l) \in Nat
  BY <1>1, <1>3, EndsAre DEF SumOfSizes
<1> QED
  BY <1>1, <1>3, <1>4, ElementOfSeq

(* A list without a null block is a list.                                  *)
LEMMA GoodIsAny == Seq(GoodBlocks) \subseteq Seq(AnyBlocks)
BY SeqMonotonic DEF AnyBlocks

(* One list behind the other.                                              *)
LEMMA ConcatLists ==
  ASSUME NEW l \in Seq(AnyBlocks), NEW m \in Seq(AnyBlocks)
  PROVE  /\ l \o m \in Seq(AnyBlocks) /\ Len(l \o m) = Len(l) + Len(m)
         /\ \A i \in 0 .. Len(l) : Ends(l \o m)[i] = Ends(l)[i]
         /\ \A i \in 0 .. Len(m) : Ends(l \o m)[Len(l) + i] = SumOfSizes(l) + Ends(m)[i]
         /\ SumOfSizes(l \o m) = SumOfSizes(l) + SumOfSizes(m)
         /\ Held(l \o m) = Held(l) \cup Held(m)
         /\ Distinct(l) /\ Distinct(m) /\ Held(l) \cap Held(m) = {} => Distinct(l \o m)
<1> DEFINE a == Len(l)
           b == Len(m)
           c == l \o m
           f == [i \in 0 .. a + b |-> IF i <= a THEN Ends(l)[i] ELSE SumOfSizes(l) + Ends(m)[i - a]]
<1>1. /\ a \in Nat /\ b \in Nat /\ c \in Seq(AnyBlocks) /\ Len(c) = a + b
      /\ \A i \in 1 .. a : c[i] = l[i]
      /\ \A i \in a + 1 .. a + b : c[i] = m[i - a]
  BY LenProperties, ConcatProperties
<1>2. Sized(l) /\ Sized(m) /\ Sized(c) /\ SumOfSizes(l) \in Nat
      /\ DOMAIN l = 1 .. a /\ DOMAIN m = 1 .. b /\ DOMAIN c = 1 .. a + b
  BY <1>1, ListFacts
<1> HIDE DEF a, b, c
<1>3. /\ Ends(l) \in [0 .. a -> Nat] /\ Ends(l)[0] = 0 /\ Ends(l)[a] = SumOfSizes(l)
      /\ Ends(m) \in [0 .. b -> Nat] /\ Ends(m)[0] = 0 /\ Ends(m)[b] = SumOfSizes(m)
      /\ \A i \in 1 .. a : Ends(l)[i] = Ends(l)[i - 1] + l[i].m_size
      /\ \A i \in 1 .. b : Ends(m)[i] = Ends(m)[i - 1] + m[i].m_size
  BY <1>2, EndsAre DEF SumOfSizes, a, b
<1>4. \A i \in 0 .. a + b : Ends(c)[i] = f[i]
  <2>1. f[0] = 0
    BY <1>1, <1>3
  <2>2. ASSUME NEW i \in 1 .. a + b PROVE f[i] = f[i - 1] + c[i].m_size
    <3>1. CASE i <= a
      <4>1. i \in 1 .. a /\ i - 1 <= a /\ i \in 0 .. a + b /\ i - 1 \in 0 .. a + b
        BY <1>1, <3>1
      <4>2. f[i] = Ends(l)[i] /\ f[i - 1] = Ends(l)[i - 1]
        BY <3>1, <4>1
      <4> HIDE DEF f
      <4> QED
        BY <1>1, <1>3, <4>1, <4>2
    <3>2. CASE i > a
      <4>1. /\ i - a \in 1 .. b /\ i \in 0 .. a + b /\ i - 1 \in 0 .. a + b
            /\ i - a - 1 \in 0 .. b /\ i \in a + 1 .. a + b /\ ~ (i <= a)
        BY <1>1, <3>2
      <4>6. m[i - a].m_size \in Nat /\ c[i] = m[i - a]
        BY <1>1, <1>2, <4>1 DEF Sized, b
      <4>2. f[i] = SumOfSizes(l) + Ends(m)[i - a]
        BY <4>1
      <4>3. Ends(m)[i - a] = Ends(m)[i - a - 1] + m[i - a].m_size
        BY <1>3, <4>1
      <4>4. f[i - 1] = SumOfSizes(l) + Ends(m)[i - a - 1]
        <5>1. CASE i - 1 = a
          <6>1. i - a - 1 = 0
            BY <1>1, <5>1
          <6> QED
            BY <1>1, <1>2, <1>3, <4>1, <5>1, <6>1
        <5>2. CASE i - 1 # a
          <6>1. ~ (i - 1 <= a) /\ (i - 1) - a = i - a - 1
            BY <1>1, <3>2, <5>2
          <6> QED
            BY <4>1, <6>1
        <5> QED
          BY <5>1, <5>2
      <4>5. Ends(m)[i - a - 1] \in Nat
        BY <1>3, <4>1
      <4> HIDE DEF f
      <4> QED
        BY <1>2, <4>1, <4>2, <4>3, <4>4, <4>5, <4>6
    <3> QED
      BY <1>1, <3>1, <3>2
  <2>3. Accumulates(c, f)
    <3> HIDE DEF f
    <3> QED
      BY <1>1, <2>1, <2>2 DEF Accumulates
  <2> HIDE DEF f
  <2>4. \A i \in 0 .. Len(c) : Ends(c)[i] = f[i]
    BY <1>2, <2>3, EndsUnique
  <2> QED
    BY <1>1, <2>4
<1>5. \A i \in 0 .. a : Ends(c)[i] = Ends(l)[i]
  BY <1>1, <1>4
<1>6. \A i \in 0 .. b : Ends(c)[a + i] = SumOfSizes(l) + Ends(m)[i]
  <2> SUFFICES ASSUME NEW i \in 0 .. b PROVE Ends(c)[a + i] = SumOfSizes(l) + Ends(m)[i]
    OBVIOUS
  <2>1. a + i \in 0 .. a + b /\ a + i - a = i /\ (i = 0 <=> a + i <= a)
    BY <1>1
  <2>2. f[a + i] = SumOfSizes(l) + Ends(m)[i]
    BY <1>1, <1>2, <1>3, <2>1
  <2> QED
    BY <1>4, <2>1, <2>2
<1>7. SumOfSizes(c) = SumOfSizes(l) + SumOfSizes(m)
  BY <1>1, <1>3, <1>6 DEF SumOfSizes
<1>8. Held(c) = Held(l) \cup Held(m)
  <2>1. \A i \in 1 .. b : a + i \in 1 .. a + b /\ c[a + i] = m[i]
    <3> SUFFICES ASSUME NEW i \in 1 .. b PROVE a + i \in 1 .. a + b /\ c[a + i] = m[i]
      OBVIOUS
    <3>1. a + i \in a + 1 .. a + b /\ a + i - a = i
      BY <1>1
    <3> QED
      BY <1>1, <3>1
  <2>2. \A i \in 1 .. a + b : i \in 1 .. a \/ (i - a \in 1 .. b /\ c[i] = m[i - a])
    BY <1>1
  <2>3. \A i \in 1 .. a : i \in 1 .. a + b
    BY <1>1
  <2> QED
    BY <1>1, <1>2, <2>1, <2>2, <2>3 DEF Held
<1>9. ASSUME Distinct(l), Distinct(m), Held(l) \cap Held(m) = {} PROVE Distinct(c)
  <2> SUFFICES ASSUME NEW i \in 1 .. a + b, NEW k \in 1 .. a + b, c[i].blk = c[k].blk PROVE i = k
    BY <1>2 DEF Distinct
  <2>1. \A j \in 1 .. a + b : j \in 1 .. a \/ (j \notin 1 .. a /\ j - a \in 1 .. b /\ c[j] = m[j - a])
    BY <1>1
  <2>2. \A j \in 1 .. a : c[j].blk \in Held(l)
    BY <1>1, <1>2 DEF Held
  <2>3. \A j \in 1 .. b : m[j].blk \in Held(m)
    BY <1>2 DEF Held
  <2>4. CASE i \in 1 .. a /\ k \in 1 .. a
    BY <1>1, <1>2, <1>9, <2>4 DEF Distinct
  <2>5. CASE i \notin 1 .. a /\ k \notin 1 .. a
    <3>1. i - a = k - a
      BY <1>2, <1>9, <2>1, <2>5 DEF Distinct
    <3> QED
      BY <1>1, <3>1
  <2> QED
    BY <1>9, <2>1, <2>2, <2>3, <2>4, <2>5
<1> QED
  BY <1>1, <1>5, <1>6, <1>7, <1>8, <1>9 DEF a, b, c

(* A block of a list, field by field.                                      *)
LEMMA BlockFields ==
  ASSUME NEW b \in GoodBlocks
  PROVE  /\ b.blk \in Blks /\ b.m_data \in 0 .. BlkSize - 1 /\ b.m_size \in 1 .. BlkSize
         /\ b.mem \in Payload /\ b.m_data + b.m_size <= BlkSize
BY DEF GoodBlocks

(* The frame and the payload of a block in a list, the null one's too.     *)
LEMMA FrameOf ==
  ASSUME NEW b \in AnyBlocks
  PROVE  /\ b.m_data \in Nat /\ b.m_size \in Nat /\ b.m_data + b.m_size <= BlkSize
         /\ b.mem \in Payload /\ BlkSize \in Nat
<1>1. CASE b \in GoodBlocks
  BY <1>1, BlockFields, PktBufAssumption
<1>2. CASE b = NullBlock
  BY <1>2, PktBufAssumption DEF NullBlock, Block, Payload
<1> QED
  BY <1>1, <1>2 DEF AnyBlocks

Framed(b, data, size) == [b EXCEPT !.m_data = data, !.m_size = size]

(* A block given another frame within its payload.                         *)
LEMMA BlockFramed ==
  ASSUME NEW b \in GoodBlocks, NEW data \in 0 .. BlkSize - 1, NEW size \in 1 .. BlkSize, data + size <= BlkSize
  PROVE  LET r == Framed(b, data, size) IN
         r \in GoodBlocks /\ r.blk = b.blk /\ r.m_data = data /\ r.m_size = size /\ r.mem = b.mem
BY DEF GoodBlocks, Framed

(* A block given another size within its payload.                          *)
LEMMA BlockResized ==
  ASSUME NEW b \in GoodBlocks, NEW size \in 1 .. BlkSize, b.m_data + size <= BlkSize
  PROVE  LET r == [b EXCEPT !.m_size = size] IN
         r \in GoodBlocks /\ r.blk = b.blk /\ r.m_data = b.m_data /\ r.m_size = size /\ r.mem = b.mem
BY DEF GoodBlocks

(* Lists of the same blocks.                                               *)
LEMMA SameBlocks ==
  ASSUME NEW l, NEW m, DOMAIN m = DOMAIN l, \A i \in DOMAIN l : m[i].blk = l[i].blk
  PROVE  Held(m) = Held(l) /\ (Distinct(l) => Distinct(m))
BY DEF Held, Distinct

(* A sequence of which one element is replaced.                            *)
LEMMA BlockReplaced ==
  ASSUME NEW S, NEW l \in Seq(S), NEW k \in 1 .. Len(l), NEW b \in S
  PROVE  LET m == [l EXCEPT ![k] = b] IN
         /\ m \in Seq(S) /\ Len(m) = Len(l) /\ m[k] = b
         /\ \A i \in 1 .. Len(l) : i # k => m[i] = l[i]
OBVIOUS

(* What GrowFront and GrowBack return.                                     *)
LEMMA FrontGrows ==
  ASSUME NEW l \in Seq(GoodBlocks), l # <<>>, NEW n \in Int,
         l[1].m_data - n \in 0 .. BlkSize - 1, l[1].m_size + n >= 1
  PROVE  LET m == GrowFront(l, n) IN
         /\ m \in Seq(GoodBlocks) /\ Len(m) = Len(l) /\ Held(m) = Held(l)
         /\ Distinct(l) => Distinct(m)
         /\ \A i \in 1 .. Len(l) : Ends(m)[i] = Ends(l)[i] + n
         /\ SumOfSizes(m) = SumOfSizes(l) + n
<1> DEFINE data == l[1].m_data - n
           size == l[1].m_size + n
           b == [l[1] EXCEPT !.m_data = data, !.m_size = size]
           m == GrowFront(l, n)
           f == [i \in 0 .. Len(l) |-> IF i = 0 THEN 0 ELSE Ends(l)[i] + n]
<1>1. Len(l) \in Nat /\ Len(l) >= 1 /\ DOMAIN l = 1 .. Len(l) /\ \A i \in 1 .. Len(l) : l[i] \in GoodBlocks
  BY LenProperties, ElementOfSeq
<1>2. b \in GoodBlocks /\ b.blk = l[1].blk /\ b.m_size = l[1].m_size + n
  <2>1. l[1] \in GoodBlocks
    BY <1>1
  <2>2. data \in 0 .. BlkSize - 1 /\ size \in 1 .. BlkSize /\ data + size <= BlkSize
    BY <2>1, BlockFields, PktBufAssumption, SMTT(30)
  <2>3. b \in GoodBlocks /\ b.blk = l[1].blk /\ b.m_size = size
    <3>1. PICK x \in GoodBlocks : x = l[1]
      BY <2>1
    <3>2. b = Framed(x, data, size)
      BY <3>1 DEF Framed
    <3> HIDE DEF data, size, b
    <3> QED
      BY <2>2, <3>1, <3>2, BlockFramed
  <2> HIDE DEF b
  <2> QED
    BY <2>3
<1>3. /\ m \in Seq(GoodBlocks) /\ Len(m) = Len(l) /\ m[1] = b
      /\ \A i \in 1 .. Len(l) : i # 1 => m[i] = l[i]
  <2>1. m = [l EXCEPT ![1] = b]
    BY DEF GrowFront
  <2> HIDE DEF b
  <2> QED
    BY <1>1, <1>2, <2>1
<1> HIDE DEF m, b
<1>4. Held(m) = Held(l) /\ (Distinct(l) => Distinct(m))
  <2>1. DOMAIN m = 1 .. Len(l) /\ \A i \in 1 .. Len(l) : m[i].blk = l[i].blk
    BY <1>2, <1>3, LenProperties
  <2> QED
    BY <1>1, <2>1, SameBlocks
<1>5. Sized(l) /\ Sized(m)
  BY <1>3, GoodIsAny, ListFacts
<1>6. /\ Ends(l) \in [0 .. Len(l) -> Nat] /\ Ends(l)[0] = 0
      /\ \A i \in 1 .. Len(l) : Ends(l)[i] = Ends(l)[i - 1] + l[i].m_size
  BY <1>5, EndsAre
<1>7. Accumulates(m, f)
  <2>1. ASSUME NEW i \in 1 .. Len(l) PROVE f[i] = f[i - 1] + m[i].m_size
    <3>1. CASE i = 1
      <4>1. f[1] = Ends(l)[1] + n /\ f[0] = 0 /\ l[1].m_size \in Nat
        BY <1>1, <1>5 DEF Sized
      <4>2. Ends(l)[1] = l[1].m_size /\ m[1].m_size = l[1].m_size + n
        BY <1>1, <1>2, <1>3, <1>5, <1>6 DEF Sized
      <4> HIDE DEF f
      <4> QED
        BY <3>1, <4>1, <4>2
    <3>2. CASE i # 1
      <4>1. i \in 0 .. Len(l) /\ i - 1 \in 0 .. Len(l) /\ i - 1 # 0
        BY <1>1, <3>2
      <4>2. f[i] = Ends(l)[i] + n /\ f[i - 1] = Ends(l)[i - 1] + n
        BY <4>1
      <4>3. m[i].m_size = l[i].m_size /\ Ends(l)[i - 1] \in Nat /\ l[i].m_size \in Nat
        BY <1>3, <1>5, <1>6, <3>2, <4>1 DEF Sized
      <4> HIDE DEF f
      <4> QED
        BY <1>6, <4>2, <4>3
    <3> QED
      BY <3>1, <3>2
  <2>2. f[0] = 0
    BY <1>1
  <2> HIDE DEF f
  <2> QED
    BY <1>3, <2>1, <2>2 DEF Accumulates
<1>8. \A i \in 1 .. Len(l) : Ends(m)[i] = Ends(l)[i] + n
  <2>1. \A i \in 0 .. Len(l) : Ends(m)[i] = f[i]
    <3> HIDE DEF f
    <3> QED
      BY <1>3, <1>5, <1>7, EndsUnique
  <2> QED
    BY <1>1, <2>1
<1> QED
  BY <1>1, <1>3, <1>4, <1>8 DEF SumOfSizes, m

(* GrowBack: resize gives the last block more bytes or fewer.              *)
LEMMA BackGrows ==
  ASSUME NEW l \in Seq(GoodBlocks), l # <<>>, NEW n \in Int,
         LET b == l[Len(l)] IN b.m_size + n >= 1 /\ b.m_data + b.m_size + n <= BlkSize
  PROVE  LET m == GrowBack(l, n) IN
         /\ m \in Seq(GoodBlocks) /\ Len(m) = Len(l) /\ Held(m) = Held(l)
         /\ Distinct(l) => Distinct(m)
         /\ SumOfSizes(m) = SumOfSizes(l) + n
<1> DEFINE k == Len(l)
           b == [l[k] EXCEPT !.m_size = l[k].m_size + n]
           m == GrowBack(l, n)
           f == [i \in 0 .. k |-> IF i = k THEN Ends(l)[i] + n ELSE Ends(l)[i]]
<1>1. k \in Nat /\ k >= 1 /\ DOMAIN l = 1 .. k /\ \A i \in 1 .. k : l[i] \in GoodBlocks
  BY LenProperties, ElementOfSeq
<1>2. b \in GoodBlocks /\ b.blk = l[k].blk /\ b.m_size = l[k].m_size + n
  <2>1. l[k] \in GoodBlocks
    BY <1>1
  <2>2. l[k].m_size + n \in 1 .. BlkSize /\ l[k].m_data + (l[k].m_size + n) <= BlkSize
    <3> HIDE DEF k
    <3> QED
      BY <2>1, BlockFields, PktBufAssumption DEF k
  <2> QED
    BY <2>1, <2>2, BlockResized
<1>3. /\ m \in Seq(GoodBlocks) /\ Len(m) = k /\ m[k] = b
      /\ \A i \in 1 .. k : i # k => m[i] = l[i]
  <2>1. m = [l EXCEPT ![k] = b]
    BY DEF GrowBack
  <2>2. l \in Seq(GoodBlocks) /\ k \in 1 .. Len(l) /\ k = Len(l)
    BY <1>1
  <2> HIDE DEF b, k, m
  <2> QED
    BY <1>2, <2>1, <2>2, BlockReplaced
<1> HIDE DEF m, b
<1>4. Held(m) = Held(l) /\ (Distinct(l) => Distinct(m))
  <2>1. DOMAIN m = 1 .. k /\ \A i \in 1 .. k : m[i].blk = l[i].blk
    BY <1>2, <1>3, LenProperties
  <2> QED
    BY <1>1, <2>1, SameBlocks
<1>5. Sized(l) /\ Sized(m)
  BY <1>3, GoodIsAny, ListFacts
<1>6. /\ Ends(l) \in [0 .. k -> Nat] /\ Ends(l)[0] = 0
      /\ \A i \in 1 .. k : Ends(l)[i] = Ends(l)[i - 1] + l[i].m_size
      /\ \A i \in 1 .. k : l[i].m_size \in Nat
  BY <1>5, EndsAre DEF Sized
<1> HIDE DEF k
<1>7. Accumulates(m, f)
  <2>1. ASSUME NEW i \in 1 .. k PROVE f[i] = f[i - 1] + m[i].m_size
    <3>1. i - 1 \in 0 .. k /\ i \in 0 .. k /\ i - 1 # k
      BY <1>1
    <3>2. f[i - 1] = Ends(l)[i - 1] /\ Ends(l)[i - 1] \in Nat /\ l[i].m_size \in Nat
      BY <1>6, <3>1
    <3>3. f[i] = IF i = k THEN Ends(l)[i] + n ELSE Ends(l)[i]
      BY <3>1
    <3>4. m[i].m_size = IF i = k THEN l[i].m_size + n ELSE l[i].m_size
      BY <1>2, <1>3
    <3> HIDE DEF f
    <3> QED
      BY <1>6, <3>2, <3>3, <3>4
  <2>2. f[0] = 0
    BY <1>1, <1>6
  <2> HIDE DEF f
  <2> QED
    BY <1>3, <2>1, <2>2 DEF Accumulates
<1>8. Ends(m)[k] = Ends(l)[k] + n
  <2>1. \A i \in 0 .. k : Ends(m)[i] = f[i]
    <3> HIDE DEF f
    <3> QED
      BY <1>3, <1>5, <1>7, EndsUnique
  <2> QED
    BY <1>1, <2>1
<1> QED
  BY <1>3, <1>4, <1>8 DEF SumOfSizes, m, k

(* The first k blocks of a list, and the others.                           *)
LEMMA ListSplits ==
  ASSUME NEW l \in Seq(GoodBlocks), NEW k \in 0 .. Len(l)
  PROVE  LET front == SubSeq(l, 1, k)
             rest  == SubSeq(l, k + 1, Len(l)) IN
         /\ front \in Seq(GoodBlocks) /\ Len(front) = k
         /\ rest \in Seq(GoodBlocks) /\ Len(rest) = Len(l) - k
         /\ l = front \o rest
         /\ \A i \in 1 .. k : front[i] = l[i]
         /\ \A i \in 1 .. Len(l) - k : rest[i] = l[k + i]
<1> DEFINE a == Len(l)
           front == SubSeq(l, 1, k)
           rest == SubSeq(l, k + 1, a)
<1>1. a \in Nat /\ DOMAIN l = 1 .. a /\ \A i \in 1 .. a : l[i] \in GoodBlocks
  BY LenProperties, ElementOfSeq
<1>2. front \in Seq(GoodBlocks) /\ Len(front) = k /\ \A i \in 1 .. k : front[i] = l[i]
  <2>1. \A i \in 1 .. k : l[i] \in GoodBlocks
    BY <1>1
  <2> QED
    BY <1>1, <2>1, SubSeqProperties
<1>3. rest \in Seq(GoodBlocks) /\ Len(rest) = a - k /\ \A i \in 1 .. a - k : rest[i] = l[k + i]
  <2>1. \A i \in k + 1 .. a : l[i] \in GoodBlocks
    BY <1>1
  <2>2. /\ rest \in Seq(GoodBlocks) /\ Len(rest) = IF k + 1 <= a THEN a - (k + 1) + 1 ELSE 0
        /\ \A i \in 1 .. a - (k + 1) + 1 : rest[i] = l[(k + 1) + i - 1]
    BY <1>1, <2>1, SubSeqProperties
  <2>3. \A i \in 1 .. a - k : i \in 1 .. a - (k + 1) + 1 /\ (k + 1) + i - 1 = k + i
    BY <1>1
  <2>4. (IF k + 1 <= a THEN a - (k + 1) + 1 ELSE 0) = a - k
    <3>1. k \in Nat /\ k <= a
      BY <1>1
    <3> HIDE DEF a
    <3>2. k + 1 <= a \/ k = a
      BY <1>1, <3>1
    <3>3. CASE k + 1 <= a
      BY <1>1, <3>1, <3>3
    <3>4. CASE k = a
      BY <1>1, <3>1, <3>4, SMTT(30)
    <3> QED
      BY <3>2, <3>3, <3>4
  <2> HIDE DEF rest, a
  <2> QED
    BY <2>2, <2>3, <2>4
<1>4. l = front \o rest
  <2> DEFINE c == front \o rest
  <2>1. /\ c \in Seq(GoodBlocks) /\ Len(c) = k + (a - k)
        /\ \A i \in 1 .. k : c[i] = front[i]
        /\ \A i \in k + 1 .. k + (a - k) : c[i] = rest[i - k]
    <3>1. front \in Seq(GoodBlocks) /\ rest \in Seq(GoodBlocks)
      BY <1>2, <1>3
    <3>2. /\ c \in Seq(GoodBlocks) /\ Len(c) = Len(front) + Len(rest)
          /\ \A i \in 1 .. Len(front) : c[i] = front[i]
          /\ \A i \in Len(front) + 1 .. Len(front) + Len(rest) : c[i] = rest[i - Len(front)]
      <4> HIDE DEF front, rest
      <4> QED
        BY <3>1, ConcatProperties
    <3>3. Len(front) = k /\ Len(rest) = a - k
      BY <1>2, <1>3
    <3> HIDE DEF front, rest, a, c
    <3> QED
      BY <3>2, <3>3
  <2>2. ASSUME NEW i \in 1 .. a PROVE l[i] = c[i]
    <3>1. CASE i <= k
      <4>1. i \in 1 .. k
        BY <1>1, <3>1
      <4> HIDE DEF front, rest, a, c
      <4> QED
        BY <1>2, <2>1, <4>1
    <3>2. CASE i > k
      <4>1. i - k \in 1 .. a - k /\ k + (i - k) = i /\ i \in k + 1 .. k + (a - k)
        BY <1>1, <3>2
      <4> HIDE DEF front, rest, a, c
      <4> QED
        BY <1>3, <2>1, <4>1
    <3>3. i <= k \/ i > k
      BY <1>1
    <3> QED
      BY <3>1, <3>2, <3>3
  <2>3. k + (a - k) = a
    BY <1>1
  <2> HIDE DEF front, rest, c
  <2> QED
    BY <1>1, <2>1, <2>2, <2>3, SeqEqual DEF c
<1> QED
  BY <1>2, <1>3, <1>4

(* The two parts of a list: their bytes and their blocks.                  *)
Parts(l, k, front, rest) ==
  /\ SumOfSizes(front) = Ends(l)[k] /\ SumOfSizes(rest) = SumOfSizes(l) - Ends(l)[k]
  /\ Ends(l)[k] \in Nat
  /\ Held(front) = {l[i].blk : i \in 1 .. k} /\ Held(rest) = {l[i].blk : i \in k + 1 .. Len(l)}
  /\ Held(l) = Held(front) \cup Held(rest)
  /\ Distinct(l) => Distinct(front) /\ Distinct(rest) /\ Held(front) \cap Held(rest) = {}

(* The bytes and the blocks before and after block k.                      *)
LEMMA PartsOfList ==
  ASSUME NEW l \in Seq(GoodBlocks), NEW k \in 0 .. Len(l)
  PROVE  Parts(l, k, SubSeq(l, 1, k), SubSeq(l, k + 1, Len(l)))
<1> DEFINE a == Len(l)
           front == SubSeq(l, 1, k)
           rest == SubSeq(l, k + 1, Len(l))
<1>1. /\ a \in Nat /\ k \in 0 .. a /\ DOMAIN l = 1 .. a
      /\ front \in Seq(GoodBlocks) /\ Len(front) = k /\ rest \in Seq(GoodBlocks) /\ Len(rest) = a - k
      /\ l = front \o rest
      /\ \A i \in 1 .. k : front[i] = l[i]
      /\ \A i \in 1 .. a - k : rest[i] = l[k + i]
  BY ListSplits, LenProperties
<1> HIDE DEF a, front, rest
<1>0. a \in Nat /\ k \in Nat /\ k <= a
  BY <1>1
<1>2. DOMAIN front = 1 .. k /\ DOMAIN rest = 1 .. a - k
  BY <1>1, LenProperties
<1>3. /\ Ends(l)[k] = Ends(front)[k] /\ SumOfSizes(l) = SumOfSizes(front) + SumOfSizes(rest)
      /\ Held(l) = Held(front) \cup Held(rest)
  <2>1. front \in Seq(AnyBlocks) /\ rest \in Seq(AnyBlocks)
    BY <1>1, GoodIsAny
  <2>2. k \in 0 .. Len(front)
    BY <1>1
  <2>4. l = front \o rest
    BY <1>1
  <2>3. /\ \A i \in 0 .. Len(front) : Ends(front \o rest)[i] = Ends(front)[i]
        /\ SumOfSizes(front \o rest) = SumOfSizes(front) + SumOfSizes(rest)
        /\ Held(front \o rest) = Held(front) \cup Held(rest)
    BY <2>1, ConcatLists
  <2> QED
    BY <2>2, <2>3, <2>4
<1>4. /\ SumOfSizes(front) = Ends(front)[k] /\ SumOfSizes(front) \in Nat /\ SumOfSizes(rest) \in Nat
  BY <1>1, GoodIsAny, ListFacts DEF SumOfSizes
<1>5. \A i \in k + 1 .. a : i - k \in 1 .. a - k /\ rest[i - k] = l[i]
  <2> SUFFICES ASSUME NEW i \in k + 1 .. a PROVE i - k \in 1 .. a - k /\ rest[i - k] = l[i]
    OBVIOUS
  <2>1. i - k \in 1 .. a - k /\ k + (i - k) = i
    BY <1>0
  <2> QED
    BY <1>1, <2>1
<1>6. \A i \in 1 .. a - k : k + i \in k + 1 .. a
  BY <1>0
<1>7. Held(front) = {l[i].blk : i \in 1 .. k}
  <2>1. Held(front) = {front[i].blk : i \in 1 .. k}
    BY <1>2 DEF Held
  <2>2. \A i \in 1 .. k : front[i].blk = l[i].blk
    BY <1>1
  <2> QED
    BY <2>1, <2>2
<1>8. Held(rest) = {l[i].blk : i \in k + 1 .. a}
  <2>1. Held(rest) = {rest[i].blk : i \in 1 .. a - k}
    BY <1>2 DEF Held
  <2>2. \A i \in 1 .. a - k : k + i \in k + 1 .. a /\ rest[i].blk = l[k + i].blk
    BY <1>1, <1>6
  <2>3. \A i \in k + 1 .. a : i - k \in 1 .. a - k /\ rest[i - k].blk = l[i].blk
    BY <1>5
  <2>4. {rest[i].blk : i \in 1 .. a - k} \subseteq {l[i].blk : i \in k + 1 .. a}
    BY <2>2
  <2>5. {l[i].blk : i \in k + 1 .. a} \subseteq {rest[i].blk : i \in 1 .. a - k}
    BY <2>3
  <2> QED
    BY <2>1, <2>4, <2>5
<1>9. ASSUME Distinct(l) PROVE Distinct(front) /\ Distinct(rest) /\ Held(front) \cap Held(rest) = {}
  <2>1. \A i, j \in 1 .. a : l[i].blk = l[j].blk => i = j
    BY <1>1, <1>9 DEF Distinct
  <2>2. \A i \in 1 .. k : i \in 1 .. a
    BY <1>0
  <2>3. \A i \in k + 1 .. a : i \in 1 .. a /\ i \notin 1 .. k
    BY <1>0
  <2>4. Distinct(front)
    BY <1>1, <1>2, <2>1, <2>2 DEF Distinct
  <2>5. Distinct(rest)
    <3> SUFFICES ASSUME NEW i \in 1 .. a - k, NEW j \in 1 .. a - k, rest[i].blk = rest[j].blk PROVE i = j
      BY <1>2 DEF Distinct
    <3>1. k + i \in 1 .. a /\ k + j \in 1 .. a
      BY <1>6, <2>3
    <3>2. rest[i] = l[k + i] /\ rest[j] = l[k + j]
      BY <1>1
    <3>3. k + i = k + j
      BY <2>1, <3>1, <3>2
    <3> QED
      BY <1>0, <3>3
  <2>6. Held(front) \cap Held(rest) = {}
    BY <1>7, <1>8, <2>1, <2>2, <2>3
  <2> QED
    BY <2>4, <2>5, <2>6
<1> QED
  BY <1>3, <1>4, <1>7, <1>8, <1>9 DEF Parts, a, front, rest

(* The blocks whose bytes are all among the first n.                       *)
LEMMA GoneIs ==
  ASSUME NEW l, Sized(l), NEW n \in Nat
  PROVE  /\ Gone(l, n) \in 0 .. Len(l) /\ Ends(l)[Gone(l, n)] <= n
         /\ Gone(l, n) < Len(l) => n < Ends(l)[Gone(l, n) + 1]
<1> DEFINE T == {k \in 0 .. Len(l) : n < Ends(l)[k]}
           Is(k) == Ends(l)[k] <= n /\ (k < Len(l) => n < Ends(l)[k + 1])
<1>1. Len(l) \in Nat /\ Ends(l)[0] = 0 /\ \A i \in 0 .. Len(l) : Ends(l)[i] \in Nat
  BY EndsAre DEF Sized
<1>2. \E k \in 0 .. Len(l) : Is(k)
  <2>1. CASE T = {}
    <3>1. Len(l) \in 0 .. Len(l) /\ Len(l) \notin T /\ ~ (Len(l) < Len(l))
      BY <1>1, <2>1
    <3>2. Ends(l)[Len(l)] <= n
      BY <1>1, <3>1
    <3> QED
      BY <3>1, <3>2
  <2>2. CASE T # {}
    <3>1. PICK x \in T : \A y \in T : x <= y
      <4>1. T \subseteq Nat
        BY <1>1
      <4> HIDE DEF T
      <4> QED
        BY <2>2, <4>1, LeastExists
    <3>2. x # 0 /\ x \in 0 .. Len(l) /\ n < Ends(l)[x]
      BY <1>1, <3>1
    <3>3. x - 1 \in 0 .. Len(l) /\ ~ (x <= x - 1) /\ x - 1 + 1 = x
      BY <1>1, <3>2
    <3>4. Ends(l)[x - 1] <= n
      BY <1>1, <3>1, <3>3
    <3> QED
      BY <3>2, <3>3, <3>4
  <2> QED
    BY <2>1, <2>2
<1>3. Gone(l, n) = CHOOSE k \in 0 .. Len(l) : Is(k)
  BY DEF Gone
<1> QED
  BY <1>2, <1>3

(* CutFront takes n bytes, and the blocks it empties, off a list.          *)
LEMMA FrontIsCut ==
  ASSUME NEW l \in Seq(GoodBlocks), NEW n \in Nat, n <= SumOfSizes(l), Distinct(l)
  PROVE  /\ CutFront(l, n) \in Seq(GoodBlocks) /\ Distinct(CutFront(l, n))
         /\ SumOfSizes(CutFront(l, n)) = SumOfSizes(l) - n
         /\ Held(l) = Held(CutFront(l, n)) \cup Emptied(l, n)
         /\ Held(CutFront(l, n)) \cap Emptied(l, n) = {}
<1> DEFINE k == Gone(l, n)
           front == SubSeq(l, 1, k)
           rest == SubSeq(l, k + 1, Len(l))
           e == Ends(l)[k]
           d == n - e
<1>1. Sized(l) /\ Len(l) \in Nat /\ SumOfSizes(l) = Ends(l)[Len(l)] /\ SumOfSizes(l) \in Nat
  BY GoodIsAny, ListFacts DEF Sized, SumOfSizes
<1>2. k \in 0 .. Len(l) /\ e <= n /\ (k < Len(l) => n < Ends(l)[k + 1]) /\ e \in Nat
  BY <1>1, GoneIs, EndsAre
<1>3. CutFront(l, n) = IF d = 0 THEN rest ELSE GrowFront(rest, - d)
  BY DEF CutFront
<1>4. Emptied(l, n) = {l[i].blk : i \in 1 .. k}
  BY DEF Emptied
<1> HIDE DEF k
<1>5. /\ rest \in Seq(GoodBlocks) /\ Len(rest) = Len(l) - k
      /\ \A i \in 1 .. Len(l) - k : rest[i] = l[k + i]
  BY <1>2, ListSplits
<1>6. /\ SumOfSizes(rest) = SumOfSizes(l) - e /\ Held(l) = Held(rest) \cup Emptied(l, n)
      /\ Distinct(rest) /\ Held(rest) \cap Emptied(l, n) = {}
  <2>1. Parts(l, k, front, rest)
    BY <1>2, PartsOfList
  <2> HIDE DEF front, rest
  <2> QED
    BY <1>4, <2>1 DEF Parts
<1>7. d \in Nat
  BY <1>2
<1>8. ASSUME d # 0
      PROVE  LET m == GrowFront(rest, - d) IN
             /\ m \in Seq(GoodBlocks) /\ Held(m) = Held(rest) /\ Distinct(m)
             /\ SumOfSizes(m) = SumOfSizes(rest) + (- d)
  <2>1. k < Len(l)
    <3>1. k = Len(l) => d = 0
      BY <1>1, <1>2
    <3> QED
      BY <1>1, <1>2, <1>8, <3>1
  <2>2. k + 1 \in 1 .. Len(l) /\ 1 \in 1 .. Len(l) - k /\ k + 1 - 1 = k
    BY <1>1, <1>2, <2>1
  <2>3. rest[1] = l[k + 1] /\ rest[1] \in GoodBlocks /\ rest # <<>>
    BY <1>5, <2>2, ElementOfSeq
  <2>4. d < rest[1].m_size
    <3> HIDE DEF rest
    <3>1. Ends(l)[k + 1] = Ends(l)[k] + l[k + 1].m_size
      BY <1>1, <2>2, EndsAre
    <3>2. rest[1].m_size \in Nat /\ l[k + 1].m_size = rest[1].m_size
      BY <2>3, BlockFields, PktBufAssumption
    <3> QED
      BY <1>2, <2>1, <3>1, <3>2
  <2> HIDE DEF d, rest
  <2>5. - d \in Int /\ rest[1].m_data - (- d) \in 0 .. BlkSize - 1 /\ rest[1].m_size + (- d) >= 1
    <3>1. PICK b \in GoodBlocks : b = rest[1]
      BY <2>3
    <3>2. /\ b.m_data \in 0 .. BlkSize - 1 /\ b.m_size \in 1 .. BlkSize /\ b.m_data + b.m_size <= BlkSize
          /\ BlkSize \in Nat /\ d < b.m_size
      BY <2>4, <3>1, BlockFields, PktBufAssumption
    <3>3. - d \in Int /\ b.m_data - (- d) \in 0 .. BlkSize - 1 /\ b.m_size + (- d) >= 1
      BY <1>7, <3>2, SMTT(30)
    <3> QED
      BY <3>1, <3>3
  <2> QED
    BY <1>5, <1>6, <2>3, <2>5, FrontGrows
<1>9. CASE d = 0
  <2>1. n = e
    BY <1>2, <1>9
  <2> HIDE DEF rest
  <2> QED
    BY <1>3, <1>5, <1>6, <1>9, <2>1
<1>10. CASE d # 0
  <2>1. CutFront(l, n) = GrowFront(rest, - d)
    BY <1>3, <1>10
  <2>2. SumOfSizes(l) - e + (- d) = SumOfSizes(l) - n
    BY <1>1, <1>2
  <2> HIDE DEF rest, d
  <2> QED
    BY <1>6, <1>8, <1>10, <2>1, <2>2
<1> QED
  BY <1>9, <1>10

(* The blocks up to the one with byte n, which is made the last.           *)
Ending(l, n) == CHOOSE i \in DOMAIN l : Ends(l)[i - 1] < n /\ n <= Ends(l)[i]

(* What resize to a smaller size keeps: n bytes, in the first k blocks.    *)
LEMMA EndIsCut ==
  ASSUME NEW l \in Seq(GoodBlocks), NEW n \in Nat, 0 < n, n <= SumOfSizes(l), Distinct(l),
         NEW k, k = Ending(l, n), NEW m, m = GrowBack(SubSeq(l, 1, k), n - Ends(l)[k])
  PROVE  /\ k \in 1 .. Len(l)
         /\ m \in Seq(GoodBlocks) /\ Distinct(m) /\ SumOfSizes(m) = n
         /\ Held(m) = {l[i].blk : i \in 1 .. k}
<1>1. Sized(l) /\ Len(l) \in Nat /\ SumOfSizes(l) = Ends(l)[Len(l)] /\ DOMAIN l = 1 .. Len(l)
      /\ Ends(l)[0] = 0 /\ \A i \in 0 .. Len(l) : Ends(l)[i] \in Nat
  BY GoodIsAny, ListFacts, EndsAre DEF Sized, SumOfSizes
<1>2. \E i \in 1 .. Len(l) : Ends(l)[i - 1] < n /\ n <= Ends(l)[i]
  <2> DEFINE T == {i \in 0 .. Len(l) : n <= Ends(l)[i]}
  <2>1. T \subseteq Nat /\ Len(l) \in T /\ 0 \notin T
    BY <1>1
  <2>2. PICK x \in T : \A y \in T : x <= y
    <3> HIDE DEF T
    <3> QED
      BY <2>1, LeastExists
  <2>3. x \in 1 .. Len(l) /\ x - 1 \in 0 .. Len(l) /\ ~ (x <= x - 1) /\ n <= Ends(l)[x]
    BY <1>1, <2>1, <2>2
  <2>4. Ends(l)[x - 1] < n
    BY <1>1, <2>2, <2>3
  <2> QED
    BY <2>3, <2>4
<1>3. k \in 1 .. Len(l) /\ Ends(l)[k - 1] < n /\ n <= Ends(l)[k]
  BY <1>1, <1>2 DEF Ending
<1> DEFINE front == SubSeq(l, 1, k)
           d == n - Ends(l)[k]
<1>4. k \in 0 .. Len(l) /\ k - 1 \in 0 .. Len(l) /\ k \in 1 .. k /\ k # 0
  BY <1>1, <1>3
<1>5. front \in Seq(GoodBlocks) /\ Len(front) = k /\ front[k] = l[k] /\ front # <<>>
  BY <1>4, ListSplits
<1>6. SumOfSizes(front) = Ends(l)[k] /\ Held(front) = {l[i].blk : i \in 1 .. k} /\ Distinct(front)
  <2>1. Parts(l, k, front, SubSeq(l, k + 1, Len(l)))
    BY <1>4, PartsOfList
  <2> HIDE DEF front
  <2> QED
    BY <2>1 DEF Parts
<1>7. l[k] \in GoodBlocks /\ Ends(l)[k] = Ends(l)[k - 1] + l[k].m_size
  BY <1>1, <1>3, EndsAre, ElementOfSeq
<1>8. d \in Int /\ l[k].m_size + d >= 1 /\ l[k].m_data + l[k].m_size + d <= BlkSize
  <2>1. PICK b \in GoodBlocks : b = l[k]
    BY <1>7
  <2>2. /\ b.m_data \in Nat /\ b.m_size \in Nat /\ b.m_data + b.m_size <= BlkSize /\ BlkSize \in Nat
    BY BlockFields, PktBufAssumption
  <2>3. Ends(l)[k] = Ends(l)[k - 1] + b.m_size /\ Ends(l)[k] \in Nat /\ Ends(l)[k - 1] \in Nat
    BY <1>1, <1>4, <1>7, <2>1
  <2>4. d \in Int /\ b.m_size + d >= 1 /\ b.m_data + b.m_size + d <= BlkSize
    <3> DEFINE x == Ends(l)[k]
               y == Ends(l)[k - 1]
               size == b.m_size
               data == b.m_data
    <3>1. x \in Nat /\ y \in Nat /\ x = y + size /\ y < n /\ n <= x /\ d = n - x
      BY <1>3, <2>3
    <3>2. size \in Nat /\ data \in Nat /\ data + size <= BlkSize /\ BlkSize \in Nat
      BY <2>2
    <3> HIDE DEF x, y, d, size, data
    <3>3. size + d >= 1 /\ data + size + d <= BlkSize /\ d \in Int
      BY <3>1, <3>2
    <3> QED
      BY <3>3 DEF size, data
  <2> QED
    BY <2>1, <2>4
<1> HIDE DEF front, d
<1>9. m \in Seq(GoodBlocks) /\ Held(m) = Held(front) /\ Distinct(m) /\ SumOfSizes(m) = SumOfSizes(front) + d
  <2>1. m = GrowBack(front, d)
    BY DEF front, d
  <2> QED
    BY <1>5, <1>6, <1>8, <2>1, BackGrows
<1>10. Ends(l)[k] + d = n
  BY <1>1, <1>4 DEF d
<1> QED
  BY <1>3, <1>6, <1>9, <1>10

(***************************************************************************)
(* The blocks alloc takes                                                  *)
(***************************************************************************)
(* The free blocks as a sequence.                                          *)
LEMMA PoolListed ==
  ASSUME pool \subseteq Blks
  PROVE  /\ Cardinality(pool) \in Nat /\ SetToSeq(pool) \in [1 .. Cardinality(pool) -> pool]
         /\ IsInjective(SetToSeq(pool))
<1>1. IsFiniteSet(Blks)
  BY PktBufAssumption, FS_Interval DEF Blks
<1>2. IsFiniteSet(pool)
  BY <1>1, FS_Subset
<1>3. ExistsBijection(1 .. Cardinality(pool), pool) /\ Cardinality(pool) \in Nat
  BY <1>2, FS_CardinalityType
<1>4. \E s \in [1 .. Cardinality(pool) -> pool] : IsInjective(s)
  BY <1>3 DEF ExistsBijection, Bijection, Injection
<1> QED
  BY <1>3, <1>4 DEF SetToSeq

(* Free(k): k different blocks of the pool.                                *)
LEMMA FreeBlocks ==
  ASSUME pool \subseteq Blks, NEW k \in 0 .. Cardinality(pool)
  PROVE  /\ Len(Free(k)) = k /\ DOMAIN Free(k) = 1 .. k
         /\ \A i \in 1 .. k : Free(k)[i] \in pool
         /\ \A i, j \in 1 .. k : Free(k)[i] = Free(k)[j] => i = j
<1> DEFINE s == SetToSeq(pool)
           c == Cardinality(pool)
<1>1. c \in Nat /\ s \in [1 .. c -> pool] /\ \A i, j \in 1 .. c : s[i] = s[j] => i = j
  BY PoolListed DEF IsInjective
<1>2. \A i \in 1 .. k : i \in 1 .. c /\ s[i] \in pool
  BY <1>1
<1>3. Free(k) = SubSeq(s, 1, k)
  BY DEF Free
<1> HIDE DEF s, c
<1>4. k \in Nat /\ k \in Int /\ 1 \in Int
  BY <1>1 DEF c
<1>5. /\ Free(k) \in Seq(pool) /\ Len(Free(k)) = (IF 1 <= k THEN k - 1 + 1 ELSE 0)
      /\ \A i \in 1 .. k - 1 + 1 : Free(k)[i] = s[1 + i - 1]
  BY <1>2, <1>3, <1>4, SubSeqProperties
<1>6. \A i \in 1 .. k : Free(k)[i] = s[i]
  <2> SUFFICES ASSUME NEW i \in 1 .. k PROVE Free(k)[i] = s[i]
    OBVIOUS
  <2>1. i \in 1 .. k - 1 + 1 /\ 1 + i - 1 = i
    BY <1>4
  <2> QED
    BY <1>5, <2>1
<1>7. Len(Free(k)) = k
  <2>1. k = 0 \/ 1 <= k
    BY <1>4
  <2> QED
    BY <1>4, <1>5, <2>1
<1> QED
  BY <1>1, <1>2, <1>5, <1>6, <1>7, LenProperties

(* alloc: how many blocks n bytes take, and what is in the last of them.   *)
LEMMA BlocksFor ==
  ASSUME NEW n \in Nat
  PROVE  /\ BlksFor(n) \in Nat /\ (BlksFor(n) = 0 <=> n = 0)
         /\ n > 0 => n - (BlksFor(n) - 1) * BlkSize \in 1 .. BlkSize
<1> DEFINE m == n + BlkSize - 1
           k == m \div BlkSize
           r == m % BlkSize
<1>1. BlkSize \in Nat /\ BlkSize >= 1 /\ m \in Nat /\ BlksFor(n) = k
  BY PktBufAssumption DEF BlksFor
<1>2. m = BlkSize * k + r /\ k \in Int /\ r \in 0 .. BlkSize - 1
  BY <1>1
<1> HIDE DEF k, r
<1>3. n = BlkSize * k + r - BlkSize + 1
  BY <1>1, <1>2
<1>4. k >= 0
  <2> SUFFICES ASSUME k <= -1 PROVE FALSE
    BY <1>2
  <2>1. BlkSize * k <= - BlkSize
    BY <1>1, <1>2
  <2> QED
    BY <1>1, <1>2, <2>1
<1>5. k = 0 <=> n = 0
  <2>1. k = 0 => n = 0
    BY <1>1, <1>2, <1>3
  <2>2. k >= 1 => BlkSize * k >= BlkSize
    BY <1>1, <1>2
  <2> QED
    BY <1>1, <1>2, <1>3, <1>4, <2>1, <2>2
<1>6. n - (k - 1) * BlkSize = r + 1
  BY <1>1, <1>2, <1>3
<1> QED
  BY <1>1, <1>2, <1>4, <1>5, <1>6

PartOf(n, i) == IF i < BlksFor(n) THEN BlkSize ELSE n - (BlksFor(n) - 1) * BlkSize

Taken(n, alloc_front) ==
  [i \in 1 .. BlksFor(n) |->
     Block(Free(BlksFor(n))[i], IF alloc_front THEN BlkSize - PartOf(n, i) ELSE 0, PartOf(n, i))]

(* get_pktblock: a block with its frame within the payload.                *)
LEMMA FreshBlock ==
  ASSUME NEW b \in Blks, NEW data \in 0 .. BlkSize - 1, NEW size \in 1 .. BlkSize, data + size <= BlkSize
  PROVE  /\ Block(b, data, size) \in GoodBlocks
         /\ Block(b, data, size).blk = b /\ Block(b, data, size).m_size = size
<1>1. [o \in 0 .. BlkSize - 1 |-> 0] \in Payload
  BY PktBufAssumption DEF Payload
<1> QED
  BY <1>1 DEF Block, GoodBlocks

(* The blocks alloc takes for n bytes, in the order it takes them.         *)
LEMMA TakenBlocks ==
  ASSUME pool \subseteq Blks, NEW n \in Nat, NEW alloc_front \in BOOLEAN, BlksFor(n) <= Cardinality(pool),
         NEW t, t = Taken(n, alloc_front)
  PROVE  /\ t \in Seq(GoodBlocks) /\ Distinct(t) /\ SumOfSizes(t) = n
         /\ Held(t) = Range(Free(BlksFor(n))) /\ Held(t) \subseteq pool
<1> DEFINE k == BlksFor(n)
           f == Free(k)
           part(i) == PartOf(n, i)
           start(i) == IF alloc_front THEN BlkSize - part(i) ELSE 0
<1>1. k \in Nat /\ (k = 0 <=> n = 0) /\ (n > 0 => n - (k - 1) * BlkSize \in 1 .. BlkSize)
  BY BlocksFor
<1>2. BlkSize \in Nat /\ BlkSize >= 1
  BY PktBufAssumption
<1>3. \A i \in 1 .. k : part(i) \in 1 .. BlkSize
  <2> SUFFICES ASSUME NEW i \in 1 .. k PROVE part(i) \in 1 .. BlkSize
    OBVIOUS
  <2>1. n > 0
    BY <1>1
  <2>2. n - (k - 1) * BlkSize \in 1 .. BlkSize /\ BlkSize \in 1 .. BlkSize
    BY <1>1, <1>2, <2>1
  <2> QED
    BY <2>2 DEF PartOf
<1>4. t = [i \in 1 .. k |-> Block(f[i], start(i), part(i))]
  BY DEF Taken
<1>5. /\ Len(f) = k /\ DOMAIN f = 1 .. k /\ \A i \in 1 .. k : f[i] \in pool
      /\ \A i, j \in 1 .. k : f[i] = f[j] => i = j
  <2>1. k \in 0 .. Cardinality(pool)
    BY <1>1, PoolListed
  <2> HIDE DEF k
  <2> QED
    BY <2>1, FreeBlocks
<1>6. \A i \in 1 .. k : start(i) \in 0 .. BlkSize - 1 /\ start(i) + part(i) <= BlkSize
  <2> HIDE DEF part, k
  <2> QED
    BY <1>2, <1>3
<1> HIDE DEF start, part, k, f
<1>7. \A i \in 1 .. k : t[i] \in GoodBlocks /\ t[i].blk = f[i] /\ t[i].m_size = part(i)
  <2> SUFFICES ASSUME NEW i \in 1 .. k PROVE t[i] \in GoodBlocks /\ t[i].blk = f[i] /\ t[i].m_size = part(i)
    OBVIOUS
  <2>1. t[i] = Block(f[i], start(i), part(i)) /\ f[i] \in Blks
    BY <1>4, <1>5
  <2>2. start(i) \in 0 .. BlkSize - 1 /\ part(i) \in 1 .. BlkSize /\ start(i) + part(i) <= BlkSize
    BY <1>3, <1>6
  <2> QED
    BY <2>1, <2>2, FreshBlock
<1>8. t \in [1 .. k -> GoodBlocks]
  BY <1>4, <1>7
<1>9. t \in Seq(GoodBlocks) /\ Len(t) = k /\ DOMAIN t = 1 .. k
  BY <1>1, <1>8, FunctionIsSeq
<1>10. Held(t) = Range(f) /\ Held(t) \subseteq pool /\ Distinct(t)
  BY <1>5, <1>7, <1>9 DEF Held, Distinct, Range
<1> DEFINE e == [i \in 0 .. k |-> IF i = k THEN n ELSE i * BlkSize]
<1>11. Accumulates(t, e)
  <2>1. e[0] = 0
    BY <1>1, <1>2
  <2>2. ASSUME NEW i \in 1 .. k PROVE e[i] = e[i - 1] + t[i].m_size
    <3>1. i \in 0 .. k /\ i - 1 \in 0 .. k /\ i - 1 # k /\ (i < k \/ i = k)
      BY <1>1
    <3>2. e[i - 1] = (i - 1) * BlkSize /\ e[i] = IF i = k THEN n ELSE i * BlkSize
      BY <3>1
    <3>3. t[i].m_size = IF i < k THEN BlkSize ELSE n - (k - 1) * BlkSize
      BY <1>7 DEF part, PartOf, k
    <3> HIDE DEF e
    <3>4. CASE i < k
      <4>1. i * BlkSize = (i - 1) * BlkSize + BlkSize
        BY <1>1, <1>2
      <4> QED
        BY <1>1, <3>2, <3>3, <3>4, <4>1
    <3>5. CASE i = k
      <4>1. (k - 1) * BlkSize + (n - (k - 1) * BlkSize) = n
        BY <1>1, <1>2
      <4> QED
        BY <1>1, <3>2, <3>3, <3>5, <4>1
    <3> QED
      BY <3>1, <3>4, <3>5
  <2> HIDE DEF e
  <2> QED
    BY <1>9, <2>1, <2>2 DEF Accumulates
<1>12. SumOfSizes(t) = n
  <2>1. Sized(t) /\ k \in 0 .. Len(t)
    BY <1>1, <1>9, GoodIsAny, ListFacts
  <2>2. e[k] = n
    BY <1>1
  <2> HIDE DEF e
  <2> QED
    BY <1>9, <1>11, <2>1, <2>2, EndsUnique DEF SumOfSizes
<1> QED
  BY <1>9, <1>10, <1>12 DEF f, k

(* With alloc_front, each block is put before the one taken before it.     *)
LEMMA ReversedBlocks ==
  ASSUME NEW l \in Seq(GoodBlocks)
  PROVE  /\ Reverse(l) \in Seq(GoodBlocks) /\ SumOfSizes(Reverse(l)) = SumOfSizes(l)
         /\ Held(Reverse(l)) = Held(l) /\ (Distinct(l) => Distinct(Reverse(l)))
<1> DEFINE k == Len(l)
           m == Reverse(l)
           e == [i \in 0 .. k |-> SumOfSizes(l) - Ends(l)[k - i]]
<1>1. k \in Nat /\ DOMAIN l = 1 .. k /\ \A i \in 1 .. k : l[i] \in GoodBlocks
  BY LenProperties, ElementOfSeq
<1>2. m = [i \in 1 .. k |-> l[(k - i) + 1]]
  BY DEF Reverse
<1>3. Sized(l) /\ SumOfSizes(l) = Ends(l)[k] /\ Ends(l)[0] = 0
      /\ (\A i \in 0 .. k : Ends(l)[i] \in Nat) /\ SumOfSizes(l) \in Nat
      /\ \A i \in 1 .. k : Ends(l)[i] = Ends(l)[i - 1] + l[i].m_size /\ l[i].m_size \in Nat
  BY GoodIsAny, ListFacts, EndsAre DEF SumOfSizes, Sized
<1> HIDE DEF k, m
<1>4. \A i \in 1 .. k : (k - i) + 1 \in 1 .. k /\ m[i] = l[(k - i) + 1]
  <2>1. \A i \in 1 .. k : (k - i) + 1 \in 1 .. k
    BY <1>1
  <2> QED
    BY <1>2, <2>1
<1>5. m \in [1 .. k -> GoodBlocks]
  BY <1>1, <1>2, <1>4
<1>6. m \in Seq(GoodBlocks) /\ Len(m) = k /\ DOMAIN m = 1 .. k
  BY <1>1, <1>5, FunctionIsSeq
<1>7. \A i \in 1 .. k : l[i] = m[(k - i) + 1]
  <2> SUFFICES ASSUME NEW i \in 1 .. k PROVE l[i] = m[(k - i) + 1]
    OBVIOUS
  <2>1. (k - i) + 1 \in 1 .. k /\ (k - ((k - i) + 1)) + 1 = i
    BY <1>1
  <2> QED
    BY <1>4, <2>1
<1>8. Held(m) = Held(l)
  <2>1. Held(m) \subseteq Held(l)
    BY <1>1, <1>4, <1>6 DEF Held
  <2>2. Held(l) \subseteq Held(m)
    BY <1>1, <1>4, <1>6, <1>7 DEF Held
  <2> QED
    BY <2>1, <2>2
<1>9. ASSUME Distinct(l) PROVE Distinct(m)
  <2> SUFFICES ASSUME NEW i \in 1 .. k, NEW j \in 1 .. k, m[i].blk = m[j].blk PROVE i = j
    BY <1>6 DEF Distinct
  <2>1. (k - i) + 1 = (k - j) + 1
    BY <1>1, <1>4, <1>9, SMTT(30) DEF Distinct
  <2> QED
    BY <1>1, <2>1
<1>10. Accumulates(m, e)
  <2>1. e[0] = 0
    BY <1>1, <1>3
  <2>2. ASSUME NEW i \in 1 .. k PROVE e[i] = e[i - 1] + m[i].m_size
    <3>1. i \in 0 .. k /\ i - 1 \in 0 .. k /\ k - i \in 0 .. k /\ k - (i - 1) = (k - i) + 1
          /\ (k - i) + 1 \in 0 .. k /\ (k - i) + 1 - 1 = k - i
      BY <1>1
    <3>2. e[i] = SumOfSizes(l) - Ends(l)[k - i] /\ e[i - 1] = SumOfSizes(l) - Ends(l)[(k - i) + 1]
      BY <3>1
    <3>3. Ends(l)[(k - i) + 1] = Ends(l)[k - i] + m[i].m_size /\ m[i].m_size \in Nat
      <4> DEFINE j == (k - i) + 1
      <4>1. j \in 1 .. k /\ m[i] = l[j] /\ j - 1 = k - i
        BY <1>4, <3>1
      <4> HIDE DEF j
      <4>2. Ends(l)[j] = Ends(l)[j - 1] + l[j].m_size /\ l[j].m_size \in Nat
        BY <1>3, <4>1
      <4> QED
        BY <4>1, <4>2 DEF j
    <3>4. Ends(l)[(k - i) + 1] \in Nat /\ Ends(l)[k - i] \in Nat
      BY <1>3, <3>1
    <3> HIDE DEF e
    <3> QED
      BY <1>3, <3>2, <3>3, <3>4
  <2> HIDE DEF e
  <2> QED
    BY <1>6, <2>1, <2>2 DEF Accumulates
<1>11. SumOfSizes(m) = SumOfSizes(l)
  <2>1. Sized(m) /\ k \in 0 .. Len(m)
    BY <1>1, <1>6, GoodIsAny, ListFacts
  <2>2. e[k] = SumOfSizes(l)
    BY <1>1, <1>3
  <2> HIDE DEF e
  <2>3. Ends(m)[k] = e[k]
    BY <1>6, <1>10, <2>1, EndsUnique
  <2>4. SumOfSizes(m) = Ends(m)[k]
    BY <1>6 DEF SumOfSizes
  <2> QED
    BY <2>2, <2>3, <2>4
<1> QED
  BY <1>6, <1>8, <1>9, <1>11 DEF m

(* DoAlloc's new list, and what it takes from the pool.                    *)
Given(n, alloc_front) == IF alloc_front THEN Reverse(Taken(n, alloc_front)) ELSE Taken(n, alloc_front)

(* What alloc puts into the list: n bytes, in blocks of the pool.          *)
LEMMA GivenBlocks ==
  ASSUME pool \subseteq Blks, NEW n, n \in Int, NEW alloc_front \in BOOLEAN, CanAlloc(n)
  PROVE  LET g == Given(n, alloc_front) IN
         /\ g \in Seq(GoodBlocks) /\ Distinct(g) /\ SumOfSizes(g) = n /\ n \in Nat
         /\ Held(g) = Range(Free(BlksFor(n))) /\ Held(g) \subseteq pool
<1>1. n \in Nat /\ BlksFor(n) <= Cardinality(pool)
  BY DEF CanAlloc
<1>2. PICK t : t = Taken(n, alloc_front)
  OBVIOUS
<1>3. /\ t \in Seq(GoodBlocks) /\ Distinct(t) /\ SumOfSizes(t) = n
      /\ Held(t) = Range(Free(BlksFor(n))) /\ Held(t) \subseteq pool
  BY <1>1, <1>2, TakenBlocks
<1> QED
  BY <1>1, <1>2, <1>3, ReversedBlocks DEF Given

(* DoAlloc, by what it takes from the pool and puts into the list.         *)
LEMMA DoAllocIs ==
  ASSUME NEW p, NEW n, NEW alloc_front \in BOOLEAN, NEW insert_front, NEW l, NEW capacity
  PROVE  DoAlloc(p, n, alloc_front, insert_front, l, capacity) =
           (/\ pool' = pool \ Range(Free(BlksFor(n)))
            /\ list' = [list EXCEPT ![p] = IF insert_front THEN Given(n, alloc_front) \o l
                                           ELSE l \o Given(n, alloc_front)]
            /\ m_capacity' = [m_capacity EXCEPT ![p] = capacity + n]
            /\ cur' = [cur EXCEPT ![p] = reset_access(list'[p])])
BY DEF DoAlloc, Given, Taken, PartOf

(***************************************************************************)
(* The cells of a list, and cursors                                        *)
(***************************************************************************)
CellsIn(l) == (1 .. Len(l)) \X (0 .. BlkSize - 1)

PartCells(l, i) == [o \in 1 .. l[i].m_size |-> <<i, l[i].m_data + o - 1>>]

(* The cells of one block.                                                 *)
LEMMA PartTyped ==
  ASSUME NEW l \in Seq(AnyBlocks), NEW i \in 1 .. Len(l)
  PROVE  /\ PartCells(l, i) \in Seq(CellsIn(l)) /\ Len(PartCells(l, i)) = l[i].m_size /\ l[i].m_size \in Nat
         /\ \A o \in 1 .. l[i].m_size : PartCells(l, i)[o] = <<i, l[i].m_data + o - 1>>
<1> DEFINE size == l[i].m_size
           data == l[i].m_data
           s == PartCells(l, i)
<1>1. size \in Nat /\ data \in Nat /\ data + size <= BlkSize /\ BlkSize \in Nat
  <2>1. l[i] \in AnyBlocks
    BY ElementOfSeq
  <2> QED
    BY <2>1, FrameOf
<1>2. s = [o \in 1 .. size |-> <<i, data + o - 1>>]
  BY DEF PartCells
<1> HIDE DEF size, data, s
<1>3. \A o \in 1 .. size : <<i, data + o - 1>> \in CellsIn(l)
  BY <1>1 DEF CellsIn
<1>4. s \in [1 .. size -> CellsIn(l)]
  BY <1>2, <1>3
<1>5. s \in Seq(CellsIn(l)) /\ Len(s) = size
  BY <1>1, <1>4, FunctionIsSeq
<1> QED
  BY <1>1, <1>2, <1>5 DEF s, size, data

(* CellsOf has the blocks' cells one after the other.                      *)
Covered(l, u, i) ==
  \A k \in 1 .. i : \A o \in 1 .. l[k].m_size : u[Ends(l)[k - 1] + o] = <<k, l[k].m_data + o - 1>>

(* Every byte of a list has one cell, and they are in order.               *)
LEMMA CellsAre ==
  ASSUME NEW l \in Seq(AnyBlocks)
  PROVE  /\ CellsOf(l) \in Seq(CellsIn(l)) /\ Len(CellsOf(l)) = SumOfSizes(l)
         /\ Covered(l, CellsOf(l), Len(l))
<1> DEFINE n == Len(l)
           C == Seq(CellsIn(l))
           part(i) == PartCells(l, i)
           step == [at \in (1 .. n) \X C |-> at[2] \o part(at[1])]
           R(f) == f = [i \in 0 .. n |-> IF i = 0 THEN <<>> ELSE f[i - 1] \o part(i)]
<1>1. /\ n \in Nat /\ Sized(l) /\ Ends(l)[0] = 0 /\ \A i \in 0 .. n : Ends(l)[i] \in Nat
      /\ \A i \in 1 .. n : Ends(l)[i] = Ends(l)[i - 1] + l[i].m_size
  BY ListFacts, EndsAre DEF Sized
<1>2. \A i \in 1 .. n : part(i) \in C /\ Len(part(i)) = l[i].m_size /\ l[i].m_size \in Nat
  BY PartTyped
<1>3. <<>> \in C
  OBVIOUS
<1>4. step \in [(1 .. n) \X C -> C]
  <2> HIDE DEF part, n
  <2>1. \A i \in 1 .. n, s \in C : s \o part(i) \in C
    BY <1>2, ConcatProperties
  <2> HIDE DEF C
  <2> QED
    BY <2>1
<1>5. PICK f \in [0 .. n -> C] : f[0] = <<>> /\ \A i \in 1 .. n : f[i] = step[<<i, f[i - 1]>>]
  <2>1. Recursion(C, n, <<>>, step)
    <3> HIDE DEF step, n, C
    <3> QED
      BY <1>1, <1>3, <1>4, RecursionExists
  <2> HIDE DEF step
  <2> QED
    BY <2>1 DEF Recursion
<1>6. \A i \in 1 .. n : i - 1 \in 0 .. n /\ i \in 0 .. n /\ i # 0
  BY <1>1
<1> HIDE DEF n, C, part
<1>7. R(f)
  <2>1. \A i \in 1 .. n : f[i] = f[i - 1] \o part(i)
    BY <1>5, <1>6
  <2>2. \A i \in 0 .. n : i = 0 \/ i \in 1 .. n
    BY <1>1
  <2> QED
    BY <1>5, <2>1, <2>2
<1> HIDE DEF step
<1> DEFINE u == CHOOSE f_1 : R(f_1)
<1>8. R(u)
  BY <1>7
<1>9. CellsOf(l) = u[n]
  BY DEF CellsOf, n, part, PartCells
<1> HIDE DEF u
<1>10. u[0] = <<>> /\ \A i \in 1 .. n : u[i] = u[i - 1] \o part(i)
  <2>1. u = [i \in 0 .. n |-> IF i = 0 THEN <<>> ELSE u[i - 1] \o part(i)]
    BY <1>8
  <2>2. 0 \in 0 .. n
    BY <1>1
  <2>3. u[0] = <<>>
    BY <2>1, <2>2
  <2>4. \A i \in 1 .. n : u[i] = u[i - 1] \o part(i)
    BY <1>6, <2>1
  <2> QED
    BY <2>3, <2>4
<1> DEFINE Done(i) == u[i] \in C /\ Len(u[i]) = Ends(l)[i] /\ Covered(l, u[i], i)
           Q == {i \in Nat : i <= n => Done(i)}
<1>11. 0 \in Q
  <2>1. Done(0)
    BY <1>1, <1>3, <1>10 DEF Covered
  <2> QED
    BY <2>1
<1>12. ASSUME NEW i \in Nat, i \in Q PROVE i + 1 \in Q
  <2> SUFFICES ASSUME i + 1 <= n PROVE Done(i + 1)
    OBVIOUS
  <2> DEFINE j == i + 1
             s == u[i]
             t == part(j)
  <2>0. Done(i)
    <3>1. i <= n
      BY <1>1
    <3> HIDE DEF Done
    <3> QED
      BY <1>12, <3>1
  <2>1. /\ j \in 1 .. n /\ i <= n /\ i \in 0 .. n /\ j - 1 = i /\ Done(i)
    BY <1>1, <2>0
  <2>2. /\ t \in C /\ Len(t) = l[j].m_size /\ l[j].m_size \in Nat /\ u[j] = s \o t
        /\ Ends(l)[j] = Ends(l)[i] + l[j].m_size /\ Ends(l)[i] \in Nat
    BY <1>1, <1>2, <1>10, <2>1
  <2>3. s \in C /\ Len(s) = Ends(l)[i] /\ Covered(l, s, i)
    BY <2>1
  <2>4. \A o \in 1 .. l[j].m_size : t[o] = <<j, l[j].m_data + o - 1>>
    <3>1. j \in 1 .. Len(l)
      BY <2>1 DEF n
    <3> HIDE DEF j
    <3> QED
      BY <3>1, PartTyped DEF part
  <2> HIDE DEF j, s, t, Done
  <2>5. /\ s \o t \in C /\ Len(s \o t) = Len(s) + Len(t)
        /\ \A o \in 1 .. Len(s) + Len(t) : (s \o t)[o] = IF o <= Len(s) THEN s[o] ELSE t[o - Len(s)]
    BY <2>2, <2>3, ConcatProperties DEF C
  <2>6. ASSUME NEW k \in 1 .. j, NEW o \in 1 .. l[k].m_size
        PROVE  u[j][Ends(l)[k - 1] + o] = <<k, l[k].m_data + o - 1>>
    <3>1. CASE k = j
      <4>1. Ends(l)[i] + o \in 1 .. Len(s) + Len(t) /\ ~ (Ends(l)[i] + o <= Len(s))
            /\ Ends(l)[i] + o - Len(s) = o
        BY <2>2, <2>3, <2>6, <3>1, SMTT(30)
      <4>2. u[j][Ends(l)[i] + o] = t[o]
        <5>1. PICK x : x = Ends(l)[i] + o
          OBVIOUS
        <5>2. x \in 1 .. Len(s) + Len(t) /\ ~ (x <= Len(s)) /\ x - Len(s) = o
          BY <2>2, <2>3, <2>6, <3>1, <4>1, <5>1
        <5>3. (s \o t)[x] = t[o]
          BY <2>5, <5>2
        <5> QED
          BY <2>2, <5>1, <5>3
      <4>3. t[o] = <<j, l[j].m_data + o - 1>>
        BY <2>4, <2>6, <3>1
      <4> QED
        BY <2>1, <3>1, <4>2, <4>3
    <3>2. CASE k # j
      <4>1. k \in 1 .. i /\ k \in 1 .. n /\ k - 1 \in 0 .. n /\ k \in 0 .. n /\ k <= i
        BY <1>1, <2>1, <3>2 DEF j
      <4>2. Ends(l)[k] = Ends(l)[k - 1] + l[k].m_size /\ Ends(l)[k] <= Ends(l)[i]
            /\ Ends(l)[k - 1] \in Nat /\ l[k].m_size \in Nat
        BY <1>1, <1>2, <2>1, <4>1, EndsMonotonic DEF n
      <4>3. Ends(l)[k - 1] + o \in 1 .. Len(s) + Len(t) /\ Ends(l)[k - 1] + o <= Len(s)
        <5> DEFINE x == Ends(l)[k - 1]
                   y == Ends(l)[k]
                   z == l[k].m_size
                   a == Len(s)
                   b == Len(t)
        <5>1. x \in Nat /\ y = x + z /\ y <= a /\ z \in Nat /\ a \in Nat /\ b \in Nat /\ o \in 1 .. z
          BY <2>2, <2>3, <2>6, <4>2
        <5> HIDE DEF x, y, z, a, b
        <5>2. x + o \in 1 .. a + b /\ x + o <= a
          BY <5>1
        <5> QED
          BY <5>2 DEF x, a, b
      <4>4. s[Ends(l)[k - 1] + o] = <<k, l[k].m_data + o - 1>>
        BY <2>3, <2>6, <4>1 DEF Covered
      <4> QED
        BY <2>2, <2>5, <4>3, <4>4
    <3> QED
      BY <3>1, <3>2
  <2>7. Covered(l, u[j], j)
    BY <2>6 DEF Covered
  <2> QED
    BY <2>2, <2>3, <2>5, <2>7 DEF Done, j
<1> HIDE DEF Q
<1>13. Nat \subseteq Q
  BY <1>11, <1>12, CountingUp
<1>14. Done(n)
  BY <1>1, <1>13 DEF Q
<1> QED
  BY <1>9, <1>14 DEF C, n, SumOfSizes

(* The cell a cursor is at, and those after it in its block.               *)
LEMMA CellsAtCursor ==
  ASSUME NEW l \in Seq(GoodBlocks), NEW c \in Cursors, CursorIn(l, c), c.blk <= Len(l),
         NEW j \in 1 .. cur_blk_remain_size(l, c)
  PROVE  CellsOf(l)[c.pos + j] = <<c.blk, c.off + j - 1>>
<1> DEFINE i == c.blk
           data == l[i].m_data
           size == l[i].m_size
           o == c.off - data + j
           e == Ends(l)[i - 1]
<1>1. Len(l) \in Nat /\ i \in 1 .. Len(l)
  BY LenProperties DEF CursorIn, Cursors
<1>2. l[i] \in GoodBlocks
  BY <1>1, ElementOfSeq
<1>3. data \in Nat /\ size \in Nat
  <2>1. PICK b \in GoodBlocks : b = l[i]
    BY <1>2
  <2>2. b.m_data \in Nat /\ b.m_size \in Nat
    BY BlockFields, PktBufAssumption
  <2> QED
    BY <2>1, <2>2
<1>4. c.off \in data .. data + size - 1 /\ c.pos = e + c.off - data
  BY <1>1 DEF CursorIn
<1>5. e \in Nat
  <2>1. Sized(l) /\ i - 1 \in 0 .. Len(l)
    BY <1>1, GoodIsAny, ListFacts
  <2> QED
    BY <2>1, EndsAre
<1>6. cur_blk_remain_size(l, c) = data + size - c.off
  BY <1>1 DEF cur_blk_remain_size
<1> DEFINE off == c.off
           pos == c.pos
<1>7. off \in data .. data + size - 1 /\ pos = e + off - data /\ j \in 1 .. data + size - off /\ o = off - data + j
  BY <1>4, <1>6
<1> HIDE DEF e, data, size, o, off, pos
<1>8. o \in 1 .. size /\ e + o = pos + j /\ data + o - 1 = off + j - 1
  BY <1>3, <1>5, <1>7
<1>9. CellsOf(l)[e + o] = <<i, data + o - 1>>
  BY <1>1, <1>8, CellsAre, GoodIsAny DEF Covered, e, data, size
<1> QED
  BY <1>8, <1>9 DEF off, pos

(* reset_access: the first byte, or the end of an empty list.              *)
LEMMA ResetIn ==
  ASSUME NEW l \in Seq(GoodBlocks)
  PROVE  reset_access(l) \in Cursors /\ CursorIn(l, reset_access(l)) /\ reset_access(l).pos = 0
         /\ reset_access(l) # NoCursor
<1> DEFINE c == reset_access(l)
<1>1. Len(l) \in Nat /\ Ends(l)[0] = 0 /\ Sized(l)
  BY GoodIsAny, ListFacts, EndsAre DEF Sized
<1>2. CASE l = <<>>
  <2>1. c = [pos |-> 0, blk |-> 1, off |-> 0] /\ Len(l) = 0
    BY <1>2 DEF reset_access
  <2>2. SumOfSizes(l) = 0
    BY <1>1, <2>1 DEF SumOfSizes
  <2> HIDE DEF c
  <2>3. CursorIn(l, c)
    BY <2>1, <2>2 DEF CursorIn
  <2> QED
    BY <2>1, <2>3 DEF Cursors, NoCursor, c
<1>3. CASE l # <<>>
  <2>1. Len(l) >= 1
    BY <1>1, <1>3, EmptySeq
  <2>2. PICK b \in GoodBlocks : b = l[1]
    BY <1>1, <2>1, ElementOfSeq
  <2>3. b.m_data \in Nat /\ b.m_size \in Nat /\ b.m_size >= 1
    BY BlockFields, PktBufAssumption
  <2>4. c = [pos |-> 0, blk |-> 1, off |-> b.m_data]
    BY <1>3, <2>2 DEF reset_access
  <2> HIDE DEF c
  <2>5. CursorIn(l, c)
    <3>1. c.blk = 1 /\ c.off = b.m_data /\ c.pos = 0 /\ 1 \in 1 .. Len(l) + 1 /\ 1 # Len(l) + 1
      BY <1>1, <2>1, <2>4
    <3> DEFINE data == b.m_data
               size == b.m_size
    <3>2. data \in data .. data + size - 1 /\ 0 = 0 + data - data
      BY <2>3
    <3> QED
      BY <1>1, <2>2, <3>1, <3>2 DEF CursorIn
  <2> QED
    BY <2>3, <2>4, <2>5 DEF Cursors, NoCursor, c
<1> QED
  BY <1>2, <1>3

(* move_forward within a block or to the start of the next.                *)
LEMMA ForwardIn ==
  ASSUME NEW l \in Seq(GoodBlocks), NEW c \in Cursors, CursorIn(l, c), c.blk <= Len(l),
         NEW n \in 0 .. cur_blk_remain_size(l, c)
  PROVE  LET d == move_forward(l, c, n) IN
         /\ d \in Cursors /\ CursorIn(l, d) /\ d.pos = c.pos + n
         /\ n = cur_blk_remain_size(l, c) => d.blk = c.blk + 1
         /\ d.blk \in {c.blk, c.blk + 1}
<1> DEFINE i == c.blk
           off == c.off
           pos == c.pos
           data == l[i].m_data
           size == l[i].m_size
           e == Ends(l)[i - 1]
           d == move_forward(l, c, n)
<1>1. Len(l) \in Nat /\ i \in 1 .. Len(l) /\ Sized(l)
  <2>1. Len(l) \in Nat /\ Sized(l)
    BY LenProperties, GoodIsAny, ListFacts
  <2>2. c.blk \in 1 .. Len(l) + 1 /\ c.blk \in Int
    BY DEF CursorIn, Cursors
  <2> QED
    BY <2>1, <2>2
<1>2. data \in Nat /\ size \in Nat /\ size >= 1
  <2>1. PICK b \in GoodBlocks : b = l[i]
    BY <1>1, ElementOfSeq
  <2>2. b.m_data \in Nat /\ b.m_size \in Nat /\ b.m_size >= 1
    BY BlockFields, PktBufAssumption
  <2> QED
    BY <2>1, <2>2
<1>3. off \in data .. data + size - 1 /\ pos = e + off - data
  BY <1>1 DEF CursorIn
<1>4. e \in Nat /\ Ends(l)[i] = e + size
  <2>1. i - 1 \in 0 .. Len(l)
    BY <1>1
  <2> QED
    BY <1>1, <2>1, EndsAre
<1>5. cur_blk_remain_size(l, c) = data + size - off
  BY <1>1 DEF cur_blk_remain_size
<1>6. /\ n < data + size - off => d = [pos |-> pos + n, blk |-> i, off |-> off + n]
      /\ ~ (n < data + size - off) =>
           d = [pos |-> pos + n, blk |-> i + 1, off |-> IF i < Len(l) THEN l[i + 1].m_data ELSE 0]
  BY <1>5 DEF move_forward
<1>7. n \in 0 .. data + size - off
  BY <1>5
<1> HIDE DEF i, off, pos, data, size, e, d
<1>8. CASE n < data + size - off
  <2>1. /\ off + n \in data .. data + size - 1 /\ pos + n = e + (off + n) - data
        /\ pos + n \in Int /\ off + n \in Int /\ i \in Int
    BY <1>1, <1>2, <1>3, <1>4, <1>7, <1>8
  <2>2. d.pos = pos + n /\ d.blk = i /\ d.off = off + n /\ d \in Cursors
    BY <1>6, <1>8, <2>1 DEF Cursors
  <2>3. i \in 1 .. Len(l) + 1 /\ i # Len(l) + 1
    BY <1>1
  <2>4. CursorIn(l, d)
    BY <2>1, <2>2, <2>3 DEF CursorIn, data, size, e
  <2>5. n # data + size - off
    BY <1>1, <1>2, <1>3, <1>8
  <2> QED
    BY <1>5, <2>2, <2>4, <2>5 DEF d, i, pos
<1>9. CASE ~ (n < data + size - off)
  <2>1. n = data + size - off
    BY <1>2, <1>3, <1>7, <1>9
  <2>2. pos + n = Ends(l)[i] /\ pos + n \in Int
    BY <1>2, <1>3, <1>4, <2>1
  <2>3. CASE i < Len(l)
    <3>1. i + 1 \in 1 .. Len(l) /\ i + 1 \in 1 .. Len(l) + 1 /\ i + 1 # Len(l) + 1 /\ i + 1 - 1 = i /\ i + 1 \in Int
      BY <1>1, <2>3
    <3>2. PICK b \in GoodBlocks : b = l[i + 1]
      BY <3>1, ElementOfSeq
    <3> DEFINE x == b.m_data
               y == b.m_size
    <3>3. x \in Nat /\ y \in Nat /\ y >= 1
      BY BlockFields, PktBufAssumption
    <3>4. d.pos = pos + n /\ d.blk = i + 1 /\ d.off = x /\ d \in Cursors
      BY <1>6, <1>9, <2>2, <2>3, <3>1, <3>2, <3>3 DEF Cursors
    <3>5. x \in x .. x + y - 1 /\ Ends(l)[i] = Ends(l)[i] + x - x
      <4> HIDE DEF x, y
      <4>1. Ends(l)[i] \in Nat
        BY <1>2, <1>4
      <4> QED
        BY <3>3, <4>1
    <3>6. CursorIn(l, d)
      <4>1. d.blk \in 1 .. Len(l) + 1 /\ d.blk # Len(l) + 1 /\ l[d.blk] = b /\ d.blk - 1 = i
        <5>1. d.blk = i + 1
          BY <3>4
        <5>2. l[d.blk] = b
          BY <3>2, <5>1
        <5>3. d.blk \in 1 .. Len(l) + 1 /\ d.blk # Len(l) + 1
          BY <3>1, <5>1
        <5>4. d.blk - 1 = i
          BY <1>1, <5>1
        <5> QED
          BY <5>2, <5>3, <5>4
      <4>2. d.off \in b.m_data .. b.m_data + b.m_size - 1 /\ d.pos = Ends(l)[i] + d.off - b.m_data
        BY <2>2, <3>4, <3>5
      <4> QED
        BY <4>1, <4>2 DEF CursorIn
    <3> QED
      BY <3>4, <3>6 DEF d, i, pos
  <2>4. CASE ~ (i < Len(l))
    <3>1. i = Len(l) /\ i + 1 \in 1 .. Len(l) + 1 /\ ~ (i + 1 <= Len(l)) /\ i + 1 = Len(l) + 1 /\ i + 1 \in Int
      BY <1>1, <2>4
    <3>2. d.pos = pos + n /\ d.blk = i + 1 /\ d.off = 0 /\ d \in Cursors
      BY <1>6, <1>9, <2>2, <2>4, <3>1 DEF Cursors
    <3>3. CursorIn(l, d)
      BY <2>2, <3>1, <3>2 DEF CursorIn, SumOfSizes
    <3> QED
      BY <3>2, <3>3 DEF d, i, pos
  <2> QED
    BY <2>3, <2>4
<1> QED
  BY <1>8, <1>9

(* A cursor in a block has a byte of it to come.                           *)
LEMMA CursorLeaves ==
  ASSUME NEW l \in Seq(GoodBlocks), NEW c \in Cursors, CursorIn(l, c), c.blk <= Len(l)
  PROVE  1 \in 1 .. cur_blk_remain_size(l, c) /\ c.pos < SumOfSizes(l)
<1> DEFINE off == c.off
           i == c.blk
<1>1. Len(l) \in Nat /\ i \in 1 .. Len(l) /\ ~ (i > Len(l)) /\ c.pos \in Int
  BY LenProperties DEF CursorIn, Cursors
<1>2. PICK b \in GoodBlocks : b = l[i]
  BY <1>1, ElementOfSeq
<1> DEFINE data == b.m_data
           size == b.m_size
           before == Ends(l)[i - 1]
           upto == Ends(l)[i]
<1>3. data \in Nat /\ size \in Nat
  BY BlockFields, PktBufAssumption
<1>4. /\ off \in data .. data + size - 1 /\ cur_blk_remain_size(l, c) = data + size - off
      /\ c.pos = before + off - data
  BY <1>1, <1>2 DEF CursorIn, cur_blk_remain_size
<1>5. before \in Nat /\ upto = before + size /\ upto <= SumOfSizes(l) /\ SumOfSizes(l) \in Nat
  <2>1. Sized(l) /\ i \in 0 .. Len(l) /\ i - 1 \in 0 .. Len(l) /\ Len(l) \in 0 .. Len(l) /\ i <= Len(l)
    BY <1>1, GoodIsAny, ListFacts
  <2>2. before \in Nat /\ upto = before + size
    BY <1>1, <1>2, <2>1, EndsAre
  <2>3. upto <= Ends(l)[Len(l)]
    BY <2>1, EndsMonotonic
  <2> QED
    BY <2>2, <2>3, GoodIsAny, ListFacts DEF SumOfSizes
<1> HIDE DEF off, i, data, size, before, upto
<1>6. data + size - off \in Nat /\ 1 <= data + size - off /\ before + off - data < before + size
  BY <1>3, <1>4, <1>5
<1>7. c.pos < SumOfSizes(l)
  BY <1>1, <1>4, <1>5, <1>6
<1> QED
  BY <1>4, <1>6, <1>7

(***************************************************************************)
(* The loop of write, read, fill, copy and seek                            *)
(***************************************************************************)
(* What holds after each turn of the loop.                                 *)
VisitOK(l, c, n, v) ==
  /\ CursorIn(l, v.cur) /\ v.cur.pos = c.pos + Len(v.cells) /\ Len(v.cells) + v.left = n
  /\ \A j \in 1 .. Len(v.cells) : v.cells[j] = CellsOf(l)[c.pos + j]

Visits(l, c, n) ==
  {v \in [cells : Seq(CellsIn(l)), cur : Cursors, left : Nat] : VisitOK(l, c, n, v)}

Turn(l, v) ==
  LET k == Lesser(v.left, cur_blk_remain_size(l, v.cur)) IN
  IF v.left = 0 \/ v.cur.blk > Len(l) THEN v
  ELSE [cells |-> v.cells \o [o \in 1 .. k |-> <<v.cur.blk, v.cur.off + o - 1>>],
        cur |-> move_forward(l, v.cur, k), left |-> v.left - k]

(* The bytes from the cursor to the end of its block lie in the payload.   *)
LEMMA RemainIs ==
  ASSUME NEW l \in Seq(GoodBlocks), NEW c \in Cursors, CursorIn(l, c), c.blk <= Len(l)
  PROVE  /\ c.blk \in 1 .. Len(l) /\ cur_blk_remain_size(l, c) \in Nat
         /\ \A o \in 1 .. cur_blk_remain_size(l, c) : <<c.blk, c.off + o - 1>> \in CellsIn(l)
<1> DEFINE off == c.off
           i == c.blk
<1>1. Len(l) \in Nat /\ i \in 1 .. Len(l) /\ ~ (i > Len(l))
  BY LenProperties DEF CursorIn, Cursors
<1>2. PICK b \in GoodBlocks : b = l[i]
  BY <1>1, ElementOfSeq
<1> DEFINE data == b.m_data
           size == b.m_size
<1>3. data \in Nat /\ size \in Nat /\ data + size <= BlkSize /\ BlkSize \in Nat
  BY BlockFields, PktBufAssumption
<1>4. off \in data .. data + size - 1 /\ cur_blk_remain_size(l, c) = data + size - off
  BY <1>1, <1>2 DEF CursorIn, cur_blk_remain_size
<1> HIDE DEF off, i, data, size
<1>5. data + size - off \in Nat
  BY <1>3, <1>4
<1>6. \A o \in 1 .. data + size - off : <<i, off + o - 1>> \in CellsIn(l)
  <2>1. \A o \in 1 .. data + size - off : off + o - 1 \in 0 .. BlkSize - 1
    BY <1>3, <1>4
  <2> QED
    BY <1>1, <2>1 DEF CellsIn
<1> QED
  BY <1>1, <1>4, <1>5, <1>6 DEF i, off

(* One turn of the loop: it ends a block, or the loop.                     *)
LEMMA TurnIs ==
  ASSUME NEW l \in Seq(GoodBlocks), NEW c \in Cursors, NEW n \in Nat, NEW v \in Visits(l, c, n)
  PROVE  LET w == Turn(l, v) IN
         /\ w \in Visits(l, c, n)
         /\ w.left = 0 \/ w.cur.blk > Len(l) \/ w.cur.blk = v.cur.blk + 1
<1> DEFINE s == v.cells
           d == v.cur
           left == v.left
           remain == cur_blk_remain_size(l, d)
           k == Lesser(left, remain)
           t == [o \in 1 .. k |-> <<d.blk, d.off + o - 1>>]
           w == Turn(l, v)
<1>1. v \in [cells : Seq(CellsIn(l)), cur : Cursors, left : Nat] /\ VisitOK(l, c, n, v)
  BY DEF Visits
<1>2. s \in Seq(CellsIn(l)) /\ d \in Cursors /\ left \in Nat /\ c.pos \in Int
  BY <1>1 DEF Cursors
<1>3. CursorIn(l, d) /\ d.pos = c.pos + Len(s) /\ Len(s) + left = n
      /\ \A j \in 1 .. Len(s) : s[j] = CellsOf(l)[c.pos + j]
  BY <1>1 DEF VisitOK
<1>4. CASE left = 0 \/ d.blk > Len(l)
  <2>1. w = v
    BY <1>4 DEF Turn
  <2> QED
    BY <1>4, <2>1
<1>5. CASE ~ (left = 0 \/ d.blk > Len(l))
  <2>1. w = [cells |-> s \o t, cur |-> move_forward(l, d, k), left |-> left - k]
    BY <1>5 DEF Turn
  <2>2. d.blk <= Len(l)
    BY <1>2, <1>5, LenProperties DEF Cursors
  <2>3. /\ d.blk \in 1 .. Len(l) /\ remain \in Nat
        /\ \A o \in 1 .. remain : <<d.blk, d.off + o - 1>> \in CellsIn(l)
    BY <1>2, <1>3, <2>2, RemainIs
  <2>4. \A j \in 1 .. remain : CellsOf(l)[d.pos + j] = <<d.blk, d.off + j - 1>>
    BY <1>2, <1>3, <2>2, CellsAtCursor
  <2>5. k \in 0 .. remain /\ k \in 0 .. left /\ (k = left \/ k = remain) /\ k \in Nat
    <3> HIDE DEF remain, left
    <3> QED
      BY <1>2, <2>3 DEF Lesser
  <2>6. /\ move_forward(l, d, k) \in Cursors /\ CursorIn(l, move_forward(l, d, k))
        /\ move_forward(l, d, k).pos = d.pos + k
        /\ k = remain => move_forward(l, d, k).blk = d.blk + 1
    <3> HIDE DEF d, k
    <3> QED
      BY <1>2, <1>3, <2>2, <2>5, ForwardIn
  <2> HIDE DEF k, remain
  <2>7. \A o \in 1 .. k : o \in 1 .. remain
    BY <2>3, <2>5
  <2>8. t \in Seq(CellsIn(l)) /\ Len(t) = k /\ \A o \in 1 .. k : t[o] = CellsOf(l)[d.pos + o]
    <3>1. t \in [1 .. k -> CellsIn(l)]
      BY <2>3, <2>7
    <3>2. t \in Seq(CellsIn(l)) /\ Len(t) = k
      <4> HIDE DEF t
      <4> QED
        BY <2>5, <3>1, FunctionIsSeq
    <3>3. \A o \in 1 .. k : t[o] = CellsOf(l)[d.pos + o]
      BY <2>4, <2>7
    <3> QED
      BY <3>2, <3>3
  <2> HIDE DEF t, s, d, left, w
  <2>9. /\ s \o t \in Seq(CellsIn(l)) /\ Len(s \o t) = Len(s) + Len(t)
        /\ \A i \in 1 .. Len(s) + Len(t) : (s \o t)[i] = IF i <= Len(s) THEN s[i] ELSE t[i - Len(s)]
    BY <1>2, <2>8, ConcatProperties
  <2>10. Len(s) \in Nat
    BY <1>2, LenProperties
  <2>11. ASSUME NEW j \in 1 .. Len(s \o t) PROVE (s \o t)[j] = CellsOf(l)[c.pos + j]
    <3>1. j \in 1 .. Len(s) + k
      BY <2>8, <2>9
    <3>2. CASE j <= Len(s)
      <4>1. j \in 1 .. Len(s)
        BY <2>10, <3>2
      <4> QED
        BY <1>3, <2>8, <2>9, <3>1, <3>2, <4>1
    <3>3. CASE ~ (j <= Len(s))
      <4>1. j - Len(s) \in 1 .. k /\ d.pos + (j - Len(s)) = c.pos + j
        BY <1>2, <1>3, <2>5, <2>10, <3>1, <3>3
      <4>2. (s \o t)[j] = t[j - Len(s)]
        BY <2>8, <2>9, <3>1, <3>3
      <4> QED
        BY <2>8, <4>1, <4>2
    <3> QED
      BY <3>2, <3>3
  <2>12. w.cells = s \o t /\ w.cur = move_forward(l, d, k) /\ w.left = left - k
    BY <2>1
  <2>13. left - k \in Nat /\ Len(s \o t) + (left - k) = n /\ d.pos + k = c.pos + Len(s \o t)
    <3> DEFINE x == Len(s)
               y == Len(s \o t)
               pos == d.pos
               from == c.pos
    <3>1. /\ x \in Nat /\ y = x + k /\ left \in Nat /\ k \in 0 .. left /\ x + left = n /\ from \in Int
          /\ pos = from + x
      BY <1>2, <1>3, <2>5, <2>8, <2>9, <2>10
    <3> HIDE DEF x, y, pos, from
    <3>2. left - k \in Nat /\ y + (left - k) = n /\ pos + k = from + y
      BY <3>1
    <3> QED
      BY <3>2 DEF y, pos, from
  <2>14. VisitOK(l, c, n, w)
    BY <2>6, <2>11, <2>12, <2>13 DEF VisitOK
  <2>15. w \in [cells : Seq(CellsIn(l)), cur : Cursors, left : Nat]
    BY <2>1, <2>6, <2>9, <2>13
  <2>16. left - k = 0 \/ move_forward(l, d, k).blk = d.blk + 1
    BY <1>2, <2>5, <2>6
  <2> QED
    BY <2>12, <2>14, <2>15, <2>16 DEF Visits, w, d
<1> QED
  BY <1>4, <1>5

(* The loop is over after as many turns as there are blocks.               *)
LEMMA VisitIs ==
  ASSUME NEW l \in Seq(GoodBlocks), NEW c \in Cursors, CursorIn(l, c), NEW n \in Nat,
         c.pos + n <= SumOfSizes(l)
  PROVE  Visit(l, c, n) \in Visits(l, c, n) /\ Visit(l, c, n).left = 0
<1> DEFINE m == Len(l)
           V == Visits(l, c, n)
           first == [cells |-> <<>>, cur |-> c, left |-> n]
           step == [at \in (1 .. m) \X V |-> Turn(l, at[2])]
           R(f) == f = [i \in 0 .. m |-> IF i = 0 THEN first ELSE Turn(l, f[i - 1])]
<1>1. m \in Nat /\ SumOfSizes(l) \in Nat /\ c.pos \in Int /\ c.blk \in 1 .. m + 1
  BY GoodIsAny, ListFacts, LenProperties DEF CursorIn, Cursors
<1>2. first \in V
  <2>1. first.cells = <<>> /\ first.cur = c /\ first.left = n /\ Len(<<>>) = 0
        /\ first \in [cells : Seq(CellsIn(l)), cur : Cursors, left : Nat]
    OBVIOUS
  <2> HIDE DEF first
  <2>2. VisitOK(l, c, n, first)
    BY <1>1, <2>1 DEF VisitOK
  <2> QED
    BY <2>1, <2>2 DEF Visits
<1>3. step \in [(1 .. m) \X V -> V]
  <2>1. \A v \in V : Turn(l, v) \in V
    BY TurnIs
  <2> HIDE DEF V
  <2> QED
    BY <2>1
<1> HIDE DEF m, V, first
<1>4. PICK f \in [0 .. m -> V] : f[0] = first /\ \A i \in 1 .. m : f[i] = step[<<i, f[i - 1]>>]
  <2>1. Recursion(V, m, first, step)
    <3> HIDE DEF step
    <3> QED
      BY <1>1, <1>2, <1>3, RecursionExists
  <2> HIDE DEF step
  <2> QED
    BY <2>1 DEF Recursion
<1>5. \A i \in 1 .. m : i - 1 \in 0 .. m /\ i \in 0 .. m /\ i # 0
  BY <1>1
<1>6. R(f)
  <2>1. \A i \in 1 .. m : f[i] = Turn(l, f[i - 1])
    BY <1>4, <1>5
  <2>2. \A i \in 0 .. m : i = 0 \/ i \in 1 .. m
    BY <1>1
  <2> QED
    BY <1>4, <2>1, <2>2
<1> HIDE DEF step
<1> DEFINE u == CHOOSE f_1 : R(f_1)
<1>7. R(u)
  BY <1>6
<1>8. Visit(l, c, n) = u[m]
  BY DEF Visit, Turn, m, first
<1> HIDE DEF u
<1>9. u[0] = first /\ \A i \in 1 .. m : u[i] = Turn(l, u[i - 1])
  <2>1. u = [i \in 0 .. m |-> IF i = 0 THEN first ELSE Turn(l, u[i - 1])]
    BY <1>7
  <2>2. 0 \in 0 .. m
    BY <1>1
  <2>3. u[0] = first
    BY <2>1, <2>2
  <2>4. \A i \in 1 .. m : u[i] = Turn(l, u[i - 1])
    BY <1>5, <2>1
  <2> QED
    BY <2>3, <2>4
<1> DEFINE Far(v, i) == v.left = 0 \/ v.cur.blk > m \/ v.cur.blk > i
           Q == {i \in Nat : i <= m => u[i] \in V /\ Far(u[i], i)}
<1>10. 0 \in Q
  BY <1>1, <1>2, <1>9 DEF first
<1>11. ASSUME NEW i \in Nat, i \in Q PROVE i + 1 \in Q
  <2> SUFFICES ASSUME i + 1 <= m PROVE u[i + 1] \in V /\ Far(u[i + 1], i + 1)
    OBVIOUS
  <2>1. i + 1 \in 1 .. m /\ i <= m /\ i + 1 - 1 = i
    BY <1>1
  <2>2. PICK v \in V : v = u[i]
    BY <1>11, <2>1
  <2>3. PICK w : w = u[i + 1]
    OBVIOUS
  <2>4. w = Turn(l, v)
    BY <1>9, <2>1, <2>2, <2>3
  <2>5. w \in V /\ (w.left = 0 \/ w.cur.blk > m \/ w.cur.blk = v.cur.blk + 1)
    BY <2>4, TurnIs DEF V, m
  <2>6. Far(v, i)
    BY <1>11, <2>1, <2>2
  <2>7. v.cur.blk \in Int /\ (v.left = 0 => w = v) /\ (v.cur.blk > m => w = v)
    BY <2>4 DEF Turn, V, m, Visits, Cursors
  <2>8. Far(w, i + 1)
    BY <1>1, <2>5, <2>6, <2>7
  <2> QED
    BY <2>3, <2>5, <2>8
<1> HIDE DEF Q
<1>12. Nat \subseteq Q
  BY <1>10, <1>11, CountingUp
<1>13. u[m] \in V /\ Far(u[m], m)
  BY <1>1, <1>12 DEF Q
<1>14. PICK v \in V : v = u[m]
  BY <1>13
<1>15. v.left = 0
  <2> SUFFICES ASSUME v.left # 0 PROVE FALSE
    OBVIOUS
  <2>1. v.cur.blk > m
    BY <1>13, <1>14
  <2>2. VisitOK(l, c, n, v) /\ v.cells \in Seq(CellsIn(l)) /\ v.left \in Nat /\ v.cur \in Cursors
    BY DEF V, Visits
  <2>3. Len(v.cells) \in Nat
    BY <2>2, LenProperties
  <2>4. v.cur.blk = m + 1
    BY <1>1, <2>1, <2>2, SMTT(30) DEF VisitOK, CursorIn, m, Cursors
  <2>5. v.cur.pos = SumOfSizes(l)
    BY <2>2, <2>4 DEF VisitOK, CursorIn, m
  <2>6. v.cur.pos = c.pos + Len(v.cells) /\ Len(v.cells) + v.left = n
    BY <2>2 DEF VisitOK
  <2> QED
    BY <1>1, <2>2, <2>3, <2>5, <2>6, SMTT(30)
<1> QED
  BY <1>8, <1>14, <1>15 DEF V

(***************************************************************************)
(* Bytes                                                                   *)
(***************************************************************************)
(* The bytes at some cells.                                                *)
LEMMA BytesTyped ==
  ASSUME NEW l \in Seq(AnyBlocks), NEW cells \in Seq(CellsIn(l))
  PROVE  BytesAt(l, cells) \in Seq(Bytes) /\ Len(BytesAt(l, cells)) = Len(cells)
<1>1. Len(cells) \in Nat /\ DOMAIN cells = 1 .. Len(cells)
  BY LenProperties
<1>2. ASSUME NEW j \in 1 .. Len(cells) PROVE l[cells[j][1]].mem[cells[j][2]] \in Bytes
  <2>1. cells[j] \in CellsIn(l)
    BY ElementOfSeq
  <2>2. cells[j][1] \in 1 .. Len(l) /\ cells[j][2] \in 0 .. BlkSize - 1
    BY <2>1 DEF CellsIn
  <2>3. l[cells[j][1]] \in AnyBlocks
    BY <2>2, ElementOfSeq
  <2>4. l[cells[j][1]].mem \in Payload
    BY <2>3, FrameOf
  <2> QED
    BY <2>2, <2>4 DEF Payload
<1>3. BytesAt(l, cells) \in [1 .. Len(cells) -> Bytes]
  BY <1>1, <1>2 DEF BytesAt
<1> QED
  BY <1>1, <1>3, FunctionIsSeq

(* A packet has as many bytes as its capacity says.                        *)
LEMMA ContentTyped ==
  ASSUME NEW l \in Seq(AnyBlocks)
  PROVE  Content(l) \in Seq(Bytes) /\ Len(Content(l)) = SumOfSizes(l)
BY CellsAre, BytesTyped DEF Content

(* A list whose blocks keep their place and size: only payloads change.    *)
SameShape(l, m) ==
  /\ m \in Seq(GoodBlocks) /\ Len(m) = Len(l)
  /\ \A i \in 1 .. Len(l) : m[i].blk = l[i].blk /\ m[i].m_data = l[i].m_data /\ m[i].m_size = l[i].m_size

(* What writing bytes does not disturb.                                    *)
LEMMA ShapeKept ==
  ASSUME NEW l \in Seq(GoodBlocks), NEW m, SameShape(l, m)
  PROVE  /\ SumOfSizes(m) = SumOfSizes(l) /\ Held(m) = Held(l) /\ (Distinct(l) => Distinct(m))
         /\ \A c \in Cursors : CursorIn(l, c) => CursorIn(m, c)
<1>1. /\ m \in Seq(GoodBlocks) /\ Len(m) = Len(l) /\ Len(l) \in Nat
      /\ DOMAIN m = 1 .. Len(l) /\ DOMAIN l = 1 .. Len(l) /\ Sized(l) /\ Sized(m)
  BY GoodIsAny, ListFacts, LenProperties DEF SameShape
<1>2. \A i \in 1 .. Len(l) : m[i].blk = l[i].blk /\ m[i].m_data = l[i].m_data /\ m[i].m_size = l[i].m_size
  BY DEF SameShape
<1>3. Accumulates(m, Ends(l))
  BY <1>1, <1>2, EndsAre DEF Accumulates
<1>4. \A i \in 0 .. Len(l) : Ends(m)[i] = Ends(l)[i]
  BY <1>1, <1>3, EndsUnique
<1>5. SumOfSizes(m) = SumOfSizes(l)
  BY <1>1, <1>4 DEF SumOfSizes
<1>6. ASSUME NEW c \in Cursors, CursorIn(l, c) PROVE CursorIn(m, c)
  <2>1. c.blk \in 1 .. Len(m) + 1 /\ c.blk \in Int
    BY <1>1, <1>6 DEF CursorIn, Cursors
  <2>2. ASSUME c.blk <= Len(m)
        PROVE  /\ c.off \in m[c.blk].m_data .. m[c.blk].m_data + m[c.blk].m_size - 1
               /\ c.pos = Ends(m)[c.blk - 1] + c.off - m[c.blk].m_data
    <3>1. c.blk \in 1 .. Len(l) /\ c.blk - 1 \in 0 .. Len(l) /\ c.blk <= Len(l)
      BY <1>1, <2>1, <2>2
    <3>2. /\ c.off \in l[c.blk].m_data .. l[c.blk].m_data + l[c.blk].m_size - 1
          /\ c.pos = Ends(l)[c.blk - 1] + c.off - l[c.blk].m_data
      BY <1>6, <3>1 DEF CursorIn
    <3> QED
      BY <1>2, <1>4, <3>1, <3>2
  <2>3. c.blk = Len(m) + 1 => c.pos = SumOfSizes(m)
    BY <1>1, <1>5, <1>6 DEF CursorIn
  <2> QED
    BY <2>1, <2>2, <2>3 DEF CursorIn
<1> QED
  BY <1>1, <1>2, <1>5, <1>6, SameBlocks

(* memcpy into cells of a list changes no block's frame.                   *)
LEMMA StoredShape ==
  ASSUME NEW l \in Seq(GoodBlocks), NEW cells \in Seq(CellsIn(l)), NEW s \in Seq(Bytes), Len(s) = Len(cells)
  PROVE  SameShape(l, Stored(l, cells, s))
<1>1. DOMAIN l = 1 .. Len(l) /\ Len(l) \in Nat /\ DOMAIN cells = 1 .. Len(cells)
  BY LenProperties
<1> DEFINE at(i, o, x) == IF \E j \in DOMAIN cells : cells[j] = <<i, o>>
                          THEN s[CHOOSE j \in DOMAIN cells : cells[j] = <<i, o>>] ELSE x
           mem(i) == [o \in DOMAIN l[i].mem |-> at(i, o, l[i].mem[o])]
           m == Stored(l, cells, s)
<1>2. m = [i \in DOMAIN l |-> [l[i] EXCEPT !.mem = mem(i)]]
  BY DEF Stored
<1>3. ASSUME NEW i \in 1 .. Len(l) PROVE mem(i) \in Payload
  <2>1. l[i].mem \in Payload
    BY <1>3, ElementOfSeq, BlockFields
  <2>2. DOMAIN l[i].mem = 0 .. BlkSize - 1 /\ \A o \in 0 .. BlkSize - 1 : l[i].mem[o] \in Bytes
    BY <2>1 DEF Payload
  <2>3. \A j \in DOMAIN cells : s[j] \in Bytes
    BY <1>1, ElementOfSeq
  <2>4. ASSUME NEW o, NEW x \in Bytes PROVE at(i, o, x) \in Bytes
    <3>1. CASE \E j \in DOMAIN cells : cells[j] = <<i, o>>
      <4>1. (CHOOSE j \in DOMAIN cells : cells[j] = <<i, o>>) \in DOMAIN cells
        BY <3>1
      <4> QED
        BY <2>3, <3>1, <4>1
    <3>2. CASE ~ \E j \in DOMAIN cells : cells[j] = <<i, o>>
      BY <3>2
    <3> QED
      BY <3>1, <3>2
  <2> HIDE DEF at
  <2> QED
    BY <2>2, <2>4 DEF Payload
<1> HIDE DEF mem, m
<1>4. ASSUME NEW i \in 1 .. Len(l)
      PROVE  m[i] \in GoodBlocks /\ m[i].blk = l[i].blk /\ m[i].m_data = l[i].m_data /\ m[i].m_size = l[i].m_size
  <2>1. PICK b \in GoodBlocks : b = l[i]
    BY <1>4, ElementOfSeq
  <2>2. PICK x \in Payload : x = mem(i)
    BY <1>3, <1>4
  <2>3. m[i] = [b EXCEPT !.mem = x]
    BY <1>1, <1>2, <1>4, <2>1, <2>2
  <2>4. LET r == [b EXCEPT !.mem = x] IN
        r \in GoodBlocks /\ r.blk = b.blk /\ r.m_data = b.m_data /\ r.m_size = b.m_size
    BY DEF GoodBlocks
  <2> QED
    BY <2>1, <2>3, <2>4
<1>5. m \in [1 .. Len(l) -> GoodBlocks]
  BY <1>1, <1>2, <1>4
<1>6. m \in Seq(GoodBlocks) /\ Len(m) = Len(l)
  BY <1>1, <1>5, FunctionIsSeq
<1> QED
  BY <1>4, <1>6 DEF SameShape, m

(***************************************************************************)
(* Owners of blocks                                                        *)
(***************************************************************************)
(* A list changes, and gives to or takes from the pool.                    *)
LEMMA OwnersKept ==
  ASSUME PktInv, NEW p \in Pkts, NEW m, list' = [list EXCEPT ![p] = m], Distinct(m),
         pool' \subseteq Blks, leaked' \subseteq Blks, pool' \cap leaked' = {},
         Held(m) \cap (pool' \cup leaked') = {},
         (Held(m) \cup pool' \cup leaked') \ {0} = (Held(list[p]) \cup pool \cup leaked) \ {0}
  PROVE  Owned'
<1>1. list \in [Pkts -> Seq(AnyBlocks)] /\ Owned
  BY DEF PktInv, Typed
<1>2. list'[p] = m /\ \A q \in Pkts : q # p => list'[q] = list[q]
  BY <1>1
<1>3. 0 \notin Blks
  BY PktBufAssumption DEF Blks
<1>4. ASSUME NEW q \in Pkts, q # p
      PROVE  /\ Held(list[q]) \cap (pool' \cup leaked') = {} /\ Held(list[q]) \cap Held(m) \subseteq {0}
             /\ Distinct(list[q])
  <2>1. Held(list[q]) \cap (pool \cup leaked) = {} /\ Held(list[q]) \cap Held(list[p]) \subseteq {0}
    BY <1>1, <1>4 DEF Owned
  <2>2. Distinct(list[q])
    BY <1>1 DEF Owned
  <2> QED
    BY <1>3, <2>1, <2>2
<1>5. \A b \in Blks : b \in pool' \cup leaked' \/ \E q \in Pkts : b \in Held(list'[q])
  <2> SUFFICES ASSUME NEW b \in Blks, b \notin pool' \cup leaked', b \notin Held(m)
               PROVE  \E q \in Pkts : b \in Held(list'[q])
    BY <1>2
  <2>1. b \notin Held(list[p]) \cup pool \cup leaked
    BY <1>3
  <2>2. PICK q \in Pkts : b \in Held(list[q])
    BY <1>1, <2>1 DEF Owned
  <2> QED
    BY <1>2, <2>1, <2>2
<1>6. \A q \in Pkts : Distinct(list'[q]) /\ Held(list'[q]) \cap (pool' \cup leaked') = {}
  BY <1>2, <1>4
<1>7. \A q, r \in Pkts : q # r => Held(list'[q]) \cap Held(list'[r]) \subseteq {0}
  <2> SUFFICES ASSUME NEW q \in Pkts, NEW r \in Pkts, q # r PROVE Held(list'[q]) \cap Held(list'[r]) \subseteq {0}
    OBVIOUS
  <2>1. CASE q = p
    BY <1>2, <1>4, <2>1
  <2>2. CASE r = p
    BY <1>2, <1>4, <2>2
  <2>3. CASE q # p /\ r # p
    BY <1>1, <1>2, <2>3 DEF Owned
  <2> QED
    BY <2>1, <2>2, <2>3
<1> QED
  BY <1>5, <1>6, <1>7 DEF Owned

(* A list of blocks in use, and one without a null block, are the same.    *)
LEMMA NotNullIsGood ==
  ASSUME NEW l \in Seq(AnyBlocks), NullBlock \notin Range(l)
  PROVE  l \in Seq(GoodBlocks)
<1>1. Len(l) \in Nat /\ DOMAIN l = 1 .. Len(l)
  BY LenProperties
<1>2. \A i \in 1 .. Len(l) : l[i] \in GoodBlocks
  BY <1>1, ElementOfSeq DEF Range, AnyBlocks
<1>3. l \in [1 .. Len(l) -> GoodBlocks]
  BY <1>1, <1>2, LenProperties
<1> QED
  BY <1>1, <1>3, FunctionIsSeq

(* In a list of blocks none is null.                                       *)
LEMMA NoneIsNull ==
  ASSUME NEW l \in Seq(GoodBlocks)
  PROVE  NullBlock \notin Range(l)
<1>1. DOMAIN l = 1 .. Len(l) /\ \A i \in 1 .. Len(l) : l[i] \in GoodBlocks
  BY GoodIsAny, ListFacts
<1>2. \A b \in GoodBlocks : b.m_size # 0
  BY BlockFields, PktBufAssumption
<1>3. NullBlock.m_size = 0
  BY DEF NullBlock, Block
<1> QED
  BY <1>1, <1>2, <1>3 DEF Range

(* What a caller may rely on.                                              *)
LEMMA UsableIs ==
  ASSUME PktInv, NEW p \in Pkts, Usable(p)
  PROVE  /\ p \in live /\ ~ garbage /\ list[p] \in Seq(GoodBlocks) /\ Distinct(list[p])
         /\ m_capacity[p] = SumOfSizes(list[p]) /\ m_capacity[p] \in Nat
         /\ Held(list[p]) \cap (pool \cup leaked) = {} /\ Held(list[p]) \subseteq Blks
         /\ cur[p] \in Cursors /\ (cur[p] # NoCursor => CursorIn(list[p], cur[p]))
<1>1. /\ Typed /\ Owned /\ PacketInv(p) /\ p \in live /\ ~ garbage
      /\ list[p] \in Seq(AnyBlocks) /\ NullBlock \notin Range(list[p])
  BY DEF PktInv, Typed, Usable
<1>2. list[p] \in Seq(GoodBlocks)
  BY <1>1, NotNullIsGood
<1>3. DOMAIN list[p] = 1 .. Len(list[p]) /\ \A i \in 1 .. Len(list[p]) : list[p][i] \in GoodBlocks
  BY <1>2, GoodIsAny, ListFacts
<1>4. Held(list[p]) \subseteq Blks
  BY <1>3, BlockFields DEF Held
<1> QED
  BY <1>1, <1>2, <1>4 DEF Typed, Owned, PacketInv, Points

(* The pool gives and takes the blocks by which p's list changes.          *)
Exchanged(p, m) ==
  /\ Distinct(m) /\ pool' \subseteq Blks /\ leaked' \subseteq Blks /\ pool' \cap leaked' = {}
  /\ Held(m) \cap (pool' \cup leaked') = {}
  /\ (Held(m) \cup pool' \cup leaked') \ {0} = (Held(list[p]) \cup pool \cup leaked) \ {0}

(* Packet p gets list m, its capacity and its cursor follow; other packets *)
(* keep theirs, or a cursor within their list.                             *)
Reshaped(p, m) ==
  /\ live' = live /\ list' = [list EXCEPT ![p] = m]
  /\ m_capacity' = [m_capacity EXCEPT ![p] = SumOfSizes(m)]
  /\ cur' \in [Pkts -> Cursors]
  /\ cur'[p] = NoCursor \/ Points(m, cur'[p])
  /\ \A q \in Pkts : q # p => cur'[q] = cur[q] \/ Points(list[q], cur'[q])
  /\ out' \in Seq(Bytes) /\ garbage' \in BOOLEAN

(* A call that works on one packet keeps the invariant.                    *)
LEMMA ReshapedKeeps ==
  ASSUME PktInv, NEW p \in Pkts, p \in live, NEW m \in Seq(AnyBlocks), Reshaped(p, m), Exchanged(p, m)
  PROVE  PktInv'
<1>1. Typed /\ \A q \in Pkts : PacketInv(q)
  BY DEF PktInv
<1>2. /\ live' = live /\ list' = [list EXCEPT ![p] = m]
      /\ m_capacity' = [m_capacity EXCEPT ![p] = SumOfSizes(m)]
      /\ cur' \in [Pkts -> Cursors]
      /\ cur'[p] = NoCursor \/ Points(m, cur'[p])
      /\ \A q \in Pkts : q # p => cur'[q] = cur[q] \/ Points(list[q], cur'[q])
      /\ out' \in Seq(Bytes) /\ garbage' \in BOOLEAN
  BY DEF Reshaped
<1>3. Owned'
  BY <1>2, OwnersKept DEF Exchanged
<1>4. SumOfSizes(m) \in Nat
  BY ListFacts
<1>5. Typed'
  BY <1>1, <1>2, <1>4 DEF Typed, Exchanged
<1>6. list'[p] = m /\ m_capacity'[p] = SumOfSizes(m) /\ p \in live'
  BY <1>1, <1>2 DEF Typed
<1>7. \A q \in Pkts : q # p => list'[q] = list[q] /\ m_capacity'[q] = m_capacity[q]
  BY <1>1, <1>2 DEF Typed
<1>8. PacketInv(p)'
  BY <1>2, <1>6 DEF PacketInv
<1>9. ASSUME NEW q \in Pkts, q # p PROVE PacketInv(q)'
  <2>1. PacketInv(q) /\ list'[q] = list[q] /\ m_capacity'[q] = m_capacity[q]
    BY <1>1, <1>7, <1>9
  <2>2. cur'[q] = cur[q] \/ Points(list[q], cur'[q])
    BY <1>2, <1>9
  <2> QED
    BY <1>2, <2>1, <2>2 DEF PacketInv
<1> QED
  BY <1>3, <1>5, <1>8, <1>9 DEF PktInv

(* Three ways of exchange: none, blocks taken, blocks given back.          *)
LEMMA ExchangedNone ==
  ASSUME PktInv, NEW p \in Pkts, Usable(p), NEW m, Distinct(m), Held(m) = Held(list[p]),
         UNCHANGED <<pool, leaked>>
  PROVE  Exchanged(p, m)
<1>1. /\ pool \subseteq Blks /\ leaked \subseteq Blks /\ pool \cap leaked = {}
  BY DEF PktInv, Typed, Owned
<1> QED
  BY <1>1, UsableIs DEF Exchanged

(* Blocks are taken from the pool.                                         *)
LEMMA ExchangedTaken ==
  ASSUME PktInv, NEW p \in Pkts, Usable(p), NEW m, Distinct(m), NEW T, T \subseteq pool,
         Held(m) = Held(list[p]) \cup T, pool' = pool \ T, leaked' = leaked
  PROVE  Exchanged(p, m)
<1>1. /\ pool \subseteq Blks /\ leaked \subseteq Blks /\ pool \cap leaked = {}
  BY DEF PktInv, Typed, Owned
<1> QED
  BY <1>1, UsableIs DEF Exchanged

(* Blocks are given back to the pool.                                      *)
LEMMA ExchangedGiven ==
  ASSUME PktInv, NEW p \in Pkts, Usable(p), NEW m, Distinct(m), NEW G, Held(list[p]) = Held(m) \cup G,
         Held(m) \cap G = {}, pool' = pool \cup G, leaked' = leaked
  PROVE  Exchanged(p, m)
<1>1. /\ pool \subseteq Blks /\ leaked \subseteq Blks /\ pool \cap leaked = {}
  BY DEF PktInv, Typed, Owned
<1> QED
  BY <1>1, UsableIs DEF Exchanged

(* The cursor of p alone changes, or no cursor stays valid.                *)
LEMMA CursorTyped ==
  ASSUME PktInv, NEW p \in Pkts, NEW c \in Cursors, cur' = [cur EXCEPT ![p] = c]
  PROVE  cur' \in [Pkts -> Cursors] /\ cur'[p] = c /\ \A q \in Pkts : q # p => cur'[q] = cur[q]
BY DEF PktInv, Typed

(* NoLongerValid leaves the cursors of other packets.                      *)
LEMMA NotValid ==
  ASSUME PktInv, NEW P \in SUBSET Pkts, NoLongerValid(P)
  PROVE  /\ cur' \in [Pkts -> Cursors] /\ \A q \in P : cur'[q] = NoCursor
         /\ \A q \in Pkts : q \notin P => cur'[q] = cur[q]
<1>1. NoCursor \in Cursors
  BY DEF NoCursor, Cursors
<1> QED
  BY <1>1 DEF NoLongerValid, PktInv, Typed

(* No bytes are bytes.                                                     *)
LEMMA NoBytes == <<>> \in Seq(Bytes)
OBVIOUS

(***************************************************************************)
(* Calls that take blocks                                                  *)
(***************************************************************************)
(* alloc, from whichever call: the caller may have grown a block before.   *)
LEMMA DoAllocKeeps ==
  ASSUME PktInv, NEW p \in Pkts, Usable(p), NEW n \in Int, CanAlloc(n),
         NEW l \in Seq(GoodBlocks), Distinct(l), Held(l) = Held(list[p]),
         NEW alloc_front \in BOOLEAN, NEW insert_front \in BOOLEAN,
         DoAlloc(p, n, alloc_front, insert_front, l, SumOfSizes(l)),
         out' = <<>>, UNCHANGED <<live, leaked, garbage>>
  PROVE  PktInv'
<1> DEFINE T == Range(Free(BlksFor(n)))
<1>1. PICK g : g = Given(n, alloc_front)
  OBVIOUS
<1>2. /\ g \in Seq(GoodBlocks) /\ Distinct(g) /\ SumOfSizes(g) = n /\ n \in Nat /\ Held(g) = T /\ T \subseteq pool
  <2>1. pool \subseteq Blks
    BY DEF PktInv, Typed
  <2> QED
    BY <1>1, <2>1, GivenBlocks
<1>3. PICK m : m = IF insert_front THEN g \o l ELSE l \o g
  OBVIOUS
<1>4. /\ pool' = pool \ T /\ list' = [list EXCEPT ![p] = m]
      /\ m_capacity' = [m_capacity EXCEPT ![p] = SumOfSizes(l) + n]
      /\ cur' = [cur EXCEPT ![p] = reset_access(list'[p])]
  BY <1>1, <1>3, DoAllocIs
<1> HIDE DEF T
<1>5. Held(l) \cap Held(g) = {}
  BY <1>2, UsableIs
<1>6. /\ m \in Seq(GoodBlocks) /\ Distinct(m) /\ Held(m) = Held(list[p]) \cup T /\ SumOfSizes(m) = SumOfSizes(l) + n
  <2>1. l \in Seq(AnyBlocks) /\ g \in Seq(AnyBlocks) /\ SumOfSizes(l) \in Nat
    BY <1>2, GoodIsAny, ListFacts
  <2>2. CASE insert_front
    <3>1. m = g \o l
      BY <1>3, <2>2
    <3>2. m \in Seq(GoodBlocks)
      BY <1>2, <3>1, ConcatProperties
    <3>3. SumOfSizes(m) = SumOfSizes(g) + SumOfSizes(l) /\ Held(m) = Held(g) \cup Held(l) /\ Distinct(m)
      BY <1>2, <1>5, <2>1, <3>1, ConcatLists
    <3> QED
      BY <1>2, <2>1, <3>2, <3>3
  <2>3. CASE ~ insert_front
    <3>1. m = l \o g
      BY <1>3, <2>3
    <3>2. m \in Seq(GoodBlocks)
      BY <1>2, <3>1, ConcatProperties
    <3>3. SumOfSizes(m) = SumOfSizes(l) + SumOfSizes(g) /\ Held(m) = Held(l) \cup Held(g) /\ Distinct(m)
      BY <1>2, <1>5, <2>1, <3>1, ConcatLists
    <3> QED
      BY <1>2, <3>2, <3>3
  <2> QED
    BY <2>2, <2>3
<1>7. Exchanged(p, m)
  BY <1>2, <1>4, <1>6, ExchangedTaken
<1>8. list'[p] = m
  BY <1>4 DEF PktInv, Typed
<1>9. Reshaped(p, m)
  <2>1. PICK c \in Cursors : c = reset_access(m) /\ Points(m, c)
    BY <1>6, ResetIn, NoneIsNull DEF Points
  <2>2. cur' = [cur EXCEPT ![p] = c]
    BY <1>4, <1>8, <2>1
  <2>3. cur' \in [Pkts -> Cursors] /\ cur'[p] = c /\ \A q \in Pkts : q # p => cur'[q] = cur[q]
    BY <2>2, CursorTyped
  <2>4. out' \in Seq(Bytes) /\ garbage' \in BOOLEAN
    BY NoBytes DEF PktInv, Typed
  <2> QED
    BY <1>4, <1>6, <2>1, <2>3, <2>4 DEF Reshaped
<1> QED
  BY <1>6, <1>7, <1>9, GoodIsAny, UsableIs, ReshapedKeeps

(* A call that changes a list and leaves no valid cursor.                  *)
LEMMA ListChanged ==
  ASSUME PktInv, NEW p \in Pkts, Usable(p), NEW m \in Seq(AnyBlocks), Exchanged(p, m),
         list' = [list EXCEPT ![p] = m], m_capacity' = [m_capacity EXCEPT ![p] = SumOfSizes(m)],
         NoLongerValid({p}), out' = <<>>, live' = live, garbage' \in BOOLEAN
  PROVE  PktInv'
<1>1. cur' \in [Pkts -> Cursors] /\ cur'[p] = NoCursor /\ \A q \in Pkts : q # p => cur'[q] = cur[q]
  BY NotValid
<1>2. Reshaped(p, m)
  BY <1>1, NoBytes DEF Reshaped
<1> QED
  BY <1>2, UsableIs, ReshapedKeeps

(* A list of one block.                                                    *)
LEMMA SingleBlock ==
  ASSUME NEW b \in AnyBlocks
  PROVE  /\ <<b>> \in Seq(AnyBlocks) /\ SumOfSizes(<<b>>) = b.m_size /\ Held(<<b>>) = {b.blk} /\ Distinct(<<b>>)
         /\ b \in GoodBlocks => <<b>> \in Seq(GoodBlocks)
<1> DEFINE l == <<b>>
<1>1. l \in Seq(AnyBlocks) /\ Len(l) = 1 /\ l[1] = b /\ (b \in GoodBlocks => l \in Seq(GoodBlocks))
  OBVIOUS
<1> HIDE DEF l
<1>2. Sized(l) /\ DOMAIN l = 1 .. 1
  BY <1>1, ListFacts
<1>3. Ends(l)[0] = 0 /\ Ends(l)[1] = Ends(l)[1 - 1] + b.m_size /\ b.m_size \in Nat
  BY <1>1, <1>2, EndsAre DEF Sized
<1>4. SumOfSizes(l) = b.m_size
  BY <1>1, <1>3 DEF SumOfSizes
<1>5. Held(l) = {b.blk} /\ Distinct(l)
  BY <1>1, <1>2 DEF Held, Distinct
<1> QED
  BY <1>1, <1>4, <1>5 DEF l

(* The frame of a list's first block.                                      *)
LEMMA FirstBlock ==
  ASSUME NEW l \in Seq(GoodBlocks), l # <<>>
  PROVE  /\ l[1] \in GoodBlocks /\ l[1].m_data \in 0 .. BlkSize - 1 /\ l[1].m_size \in 1 .. BlkSize
         /\ l[1].m_data \in Nat /\ l[1].m_size \in Nat /\ Len(l) \in Nat /\ Len(l) >= 1
<1>1. Len(l) \in Nat /\ Len(l) >= 1
  BY LenProperties, EmptySeq
<1>2. PICK b \in GoodBlocks : b = l[1]
  BY <1>1, ElementOfSeq
<1>3. b.m_data \in 0 .. BlkSize - 1 /\ b.m_size \in 1 .. BlkSize /\ BlkSize \in Nat
  BY BlockFields, PktBufAssumption
<1>4. b.m_data \in Nat /\ b.m_size \in Nat
  BY <1>3
<1> QED
  BY <1>1, <1>2, <1>3, <1>4

(* alloc_header in the gap of the first block.                             *)
LEMMA HeaderFitsKeeps ==
  ASSUME PktInv, NEW p \in Pkts, NEW n \in Nat, HeaderFits(p, n)
  PROVE  PktInv'
<1>1. /\ Usable(p) /\ list[p] # <<>> /\ list[p][1].m_data >= n
      /\ list' = [list EXCEPT ![p] = GrowFront(list[p], n)]
      /\ m_capacity' = [m_capacity EXCEPT ![p] = m_capacity[p] + n]
      /\ NoLongerValid({p}) /\ out' = <<>> /\ UNCHANGED <<pool, live, leaked, garbage>>
  BY DEF HeaderFits
<1>2. PICK l \in Seq(GoodBlocks) : l = list[p] /\ Distinct(l) /\ m_capacity[p] = SumOfSizes(l)
  BY <1>1, UsableIs
<1>3. l[1].m_data - n \in 0 .. BlkSize - 1 /\ l[1].m_size + n >= 1
  BY <1>1, <1>2, FirstBlock, PktBufAssumption
<1>4. PICK m : m = GrowFront(l, n)
  OBVIOUS
<1>5. m \in Seq(GoodBlocks) /\ Held(m) = Held(l) /\ Distinct(m) /\ SumOfSizes(m) = SumOfSizes(l) + n
  BY <1>1, <1>2, <1>3, <1>4, FrontGrows
<1>6. Exchanged(p, m)
  BY <1>1, <1>2, <1>5, ExchangedNone
<1>7. garbage' \in BOOLEAN
  BY <1>1 DEF PktInv, Typed
<1> QED
  BY <1>1, <1>2, <1>4, <1>5, <1>6, <1>7, GoodIsAny, ListChanged

(* The block alloc_header takes when the gap is too small.                 *)
LEMMA OwnBlock ==
  ASSUME PktInv, NEW n \in Nat, n >= 1, n <= BlkSize, pool # {}
  PROVE  LET h == Block(Free(1)[1], BlkSize - n, n) IN
         Free(1)[1] \in pool /\ h \in GoodBlocks /\ h.blk = Free(1)[1] /\ h.m_size = n
<1> DEFINE b == Free(1)[1]
           h == Block(b, BlkSize - n, n)
<1>1. b \in pool /\ pool \subseteq Blks
  <2>1. pool \subseteq Blks
    BY DEF PktInv, Typed
  <2>2. IsFiniteSet(pool) /\ Cardinality(pool) \in Nat
    <3>1. IsFiniteSet(Blks)
      BY PktBufAssumption, FS_Interval DEF Blks
    <3> QED
      BY <2>1, <3>1, FS_Subset, FS_CardinalityType
  <2>3. 1 \in 0 .. Cardinality(pool)
    <3>1. Cardinality(pool) # 0
      BY <2>2, FS_EmptySet
    <3> QED
      BY <2>2, <3>1
  <2>4. 1 \in 1 .. 1
    OBVIOUS
  <2> QED
    BY <2>1, <2>3, <2>4, FreeBlocks
<1> HIDE DEF b
<1>2. h \in GoodBlocks /\ h.blk = b /\ h.m_size = n
  <2>1. /\ BlkSize - n \in 0 .. BlkSize - 1 /\ n \in 1 .. BlkSize /\ BlkSize - n + n <= BlkSize
    BY PktBufAssumption
  <2>2. PICK data : data = BlkSize - n
    OBVIOUS
  <2>3. h = Block(b, data, n) /\ b \in Blks
    BY <1>1, <2>2
  <2> HIDE DEF h
  <2> QED
    BY <2>1, <2>2, <2>3, FreshBlock
<1> QED
  BY <1>1, <1>2 DEF b

(* alloc_header with a block of its own.                                   *)
LEMMA HeaderBlockKeeps ==
  ASSUME PktInv, NEW p \in Pkts, NEW n \in Nat, n >= 1, HeaderBlock(p, n)
  PROVE  PktInv'
<1> DEFINE b == Free(1)[1]
           h == Block(b, BlkSize - n, n)
<1>1. /\ Usable(p) /\ n <= BlkSize /\ pool # {} /\ pool' = pool \ {b}
      /\ list' = [list EXCEPT ![p] = <<h>> \o list[p]]
      /\ m_capacity' = [m_capacity EXCEPT ![p] = m_capacity[p] + n]
      /\ NoLongerValid({p}) /\ out' = <<>> /\ UNCHANGED <<live, leaked, garbage>>
  BY DEF HeaderBlock
<1>2. /\ list[p] \in Seq(GoodBlocks) /\ Distinct(list[p]) /\ m_capacity[p] = SumOfSizes(list[p])
      /\ Held(list[p]) \cap (pool \cup leaked) = {}
  BY <1>1, UsableIs
<1>3. b \in pool
  BY <1>1, OwnBlock
<1>4. h \in GoodBlocks /\ h.blk = b /\ h.m_size = n
  BY <1>1, OwnBlock
<1> HIDE DEF b, h
<1>5. PICK s : s = <<h>>
  OBVIOUS
<1>6. s \in Seq(GoodBlocks) /\ SumOfSizes(s) = n /\ Held(s) = {b} /\ Distinct(s) /\ s \in Seq(AnyBlocks)
  <2>1. h \in AnyBlocks
    BY <1>4 DEF AnyBlocks
  <2> QED
    BY <1>4, <1>5, <2>1, SingleBlock
<1>7. PICK m : m = s \o list[p]
  OBVIOUS
<1>8. m \in Seq(AnyBlocks) /\ SumOfSizes(m) = n + SumOfSizes(list[p]) /\ Held(m) = {b} \cup Held(list[p]) /\ Distinct(m)
  <2>1. list[p] \in Seq(AnyBlocks) /\ Held(s) \cap Held(list[p]) = {}
    BY <1>2, <1>3, <1>6, GoodIsAny
  <2> QED
    BY <1>2, <1>6, <1>7, <2>1, ConcatLists
<1>9. Exchanged(p, m)
  <2>1. Held(m) = Held(list[p]) \cup {b} /\ {b} \subseteq pool
    BY <1>3, <1>8
  <2> QED
    BY <1>1, <1>8, <2>1, ExchangedTaken
<1>10. garbage' \in BOOLEAN /\ n + SumOfSizes(list[p]) = m_capacity[p] + n
  <2>1. SumOfSizes(list[p]) \in Nat
    BY <1>2, GoodIsAny, ListFacts
  <2> QED
    BY <1>1, <1>2, <2>1 DEF PktInv, Typed
<1> QED
  BY <1>1, <1>5, <1>7, <1>8, <1>9, <1>10, ListChanged

(* alloc_header when the pool is empty: a null block goes into the list.   *)
LEMMA HeaderNoBlockKeeps ==
  ASSUME PktInv, NEW p \in Pkts, NEW n \in Nat, HeaderNoBlock(p, n)
  PROVE  PktInv'
<1>1. /\ Usable(p) /\ list' = [list EXCEPT ![p] = <<NullBlock>> \o list[p]]
      /\ NoLongerValid({p}) /\ out' = <<>> /\ UNCHANGED <<pool, live, m_capacity, leaked, garbage>>
  BY DEF HeaderNoBlock
<1>2. /\ list[p] \in Seq(GoodBlocks) /\ Distinct(list[p]) /\ m_capacity[p] = SumOfSizes(list[p])
      /\ Held(list[p]) \cap (pool \cup leaked) = {} /\ Held(list[p]) \subseteq Blks
  BY <1>1, UsableIs
<1>3. 0 \notin Blks
  BY PktBufAssumption DEF Blks
<1>4. NullBlock \in AnyBlocks /\ NullBlock.m_size = 0 /\ NullBlock.blk = 0
  BY DEF AnyBlocks, NullBlock, Block
<1>5. PICK s : s = <<NullBlock>>
  OBVIOUS
<1>6. SumOfSizes(s) = 0 /\ Held(s) = {0} /\ Distinct(s) /\ s \in Seq(AnyBlocks)
  BY <1>4, <1>5, SingleBlock
<1>7. PICK m : m = s \o list[p]
  OBVIOUS
<1>8. m \in Seq(AnyBlocks) /\ SumOfSizes(m) = SumOfSizes(list[p]) /\ Held(m) = {0} \cup Held(list[p]) /\ Distinct(m)
  <2>1. list[p] \in Seq(AnyBlocks) /\ Held(s) \cap Held(list[p]) = {} /\ SumOfSizes(list[p]) \in Nat
    BY <1>2, <1>3, <1>6, GoodIsAny, ListFacts
  <2> QED
    BY <1>2, <1>6, <1>7, <2>1, ConcatLists
<1>9. Exchanged(p, m)
  <2>1. pool \subseteq Blks /\ leaked \subseteq Blks /\ pool \cap leaked = {}
    BY DEF PktInv, Typed, Owned
  <2> QED
    BY <1>1, <1>2, <1>3, <1>8, <2>1 DEF Exchanged
<1>10. m_capacity' = [m_capacity EXCEPT ![p] = SumOfSizes(m)] /\ garbage' \in BOOLEAN
  BY <1>1, <1>2, <1>8 DEF PktInv, Typed
<1> QED
  BY <1>1, <1>5, <1>7, <1>8, <1>9, <1>10, ListChanged

(* alloc_header over several blocks, and its failure half way.             *)
LEMMA HeaderSplitKeeps ==
  ASSUME PktInv, NEW p \in Pkts, NEW n \in Nat, HeaderSplit(p, n)
  PROVE  PktInv'
<1> DEFINE gap == list[p][1].m_data
           l == GrowFront(list[p], gap)
<1>1. Usable(p) /\ list[p] # <<>> /\ gap < n /\ out' = <<>> /\ UNCHANGED <<live, leaked, garbage>>
  BY DEF HeaderSplit
<1>2. \/ CanAlloc(n - gap) /\ DoAlloc(p, n - gap, TRUE, TRUE, l, m_capacity[p] + gap)
      \/ /\ list' = [list EXCEPT ![p] = l]
         /\ m_capacity' = [m_capacity EXCEPT ![p] = m_capacity[p] + gap]
         /\ NoLongerValid({p}) /\ UNCHANGED pool
  BY DEF HeaderSplit
<1>3. list[p] \in Seq(GoodBlocks) /\ Distinct(list[p]) /\ m_capacity[p] = SumOfSizes(list[p])
  BY <1>1, UsableIs
<1>4. gap \in Nat /\ gap - gap \in 0 .. BlkSize - 1 /\ list[p][1].m_size + gap >= 1
  BY <1>1, <1>3, FirstBlock, PktBufAssumption
<1> HIDE DEF gap
<1>5. l \in Seq(GoodBlocks) /\ Held(l) = Held(list[p]) /\ Distinct(l) /\ SumOfSizes(l) = SumOfSizes(list[p]) + gap
  <2>1. list[p][1].m_data - gap \in 0 .. BlkSize - 1
    BY <1>4 DEF gap
  <2> QED
    BY <1>1, <1>3, <1>4, <2>1, FrontGrows
<1> HIDE DEF l
<1>6. CASE CanAlloc(n - gap) /\ DoAlloc(p, n - gap, TRUE, TRUE, l, m_capacity[p] + gap)
  <2>1. DoAlloc(p, n - gap, TRUE, TRUE, l, SumOfSizes(l))
    BY <1>3, <1>5, <1>6
  <2>2. PICK k \in Int : k = n - gap
    BY <1>4
  <2> QED
    BY <1>1, <1>5, <1>6, <2>1, <2>2, DoAllocKeeps
<1>7. CASE /\ list' = [list EXCEPT ![p] = l]
           /\ m_capacity' = [m_capacity EXCEPT ![p] = m_capacity[p] + gap]
           /\ NoLongerValid({p}) /\ UNCHANGED pool
  <2>1. Exchanged(p, l)
    BY <1>1, <1>5, <1>7, ExchangedNone
  <2>2. m_capacity' = [m_capacity EXCEPT ![p] = SumOfSizes(l)] /\ garbage' \in BOOLEAN
    BY <1>1, <1>3, <1>5, <1>7 DEF PktInv, Typed
  <2> QED
    BY <1>1, <1>5, <1>7, <2>1, <2>2, GoodIsAny, ListChanged
<1> QED
  BY <1>2, <1>6, <1>7

(***************************************************************************)
(* A packet taken and given back                                           *)
(***************************************************************************)
(* The empty list.                                                         *)
LEMMA NoBlocks == <<>> \in Seq(AnyBlocks) /\ SumOfSizes(<<>>) = 0 /\ Held(<<>>) = {} /\ Distinct(<<>>)
<1> DEFINE l == <<>>
<1>1. l = <<>> /\ l \in Seq(AnyBlocks) /\ Len(l) = 0
  OBVIOUS
<1> HIDE DEF l
<1>2. Sized(l) /\ DOMAIN l = 1 .. 0
  BY <1>1, ListFacts
<1>3. SumOfSizes(l) = 0
  BY <1>1, <1>2, EndsAre DEF SumOfSizes
<1>4. Held(l) = {} /\ Distinct(l)
  BY <1>2 DEF Held, Distinct
<1> QED
  BY <1>1, <1>3, <1>4

(* A packet the call does not concern.                                     *)
Apart(q) ==
  /\ (q \in live' <=> q \in live) /\ list'[q] = list[q]
  /\ m_capacity'[q] = m_capacity[q] /\ cur'[q] = cur[q]

(* What a call leaves alone stays as it was.                               *)
LEMMA ApartKeeps ==
  ASSUME NEW q, PacketInv(q), Apart(q)
  PROVE  PacketInv(q)'
BY DEF PacketInv, Apart

(* get_pktbuffer: the list left by the last use is empty.                  *)
LEMMA get_pktbufferKeeps ==
  ASSUME PktInv, NEW p \in Pkts, get_pktbuffer(p)
  PROVE  PktInv'
<1>1. /\ p \notin live /\ live' = live \cup {p} /\ m_capacity' = [m_capacity EXCEPT ![p] = 0]
      /\ NoLongerValid({p}) /\ out' = <<>> /\ UNCHANGED <<pool, list, leaked, garbage>>
  BY DEF get_pktbuffer
<1>2. Typed /\ Owned /\ \A q \in Pkts : PacketInv(q)
  BY DEF PktInv
<1>3. cur' \in [Pkts -> Cursors] /\ cur'[p] = NoCursor /\ \A q \in Pkts : q # p => cur'[q] = cur[q]
  BY <1>1, NotValid
<1>4. Typed'
  BY <1>1, <1>2, <1>3, NoBytes DEF Typed
<1>5. Owned'
  BY <1>1, <1>2 DEF Owned
<1>6. m_capacity'[p] = 0 /\ \A q \in Pkts : q # p => m_capacity'[q] = m_capacity[q]
  BY <1>1, <1>2 DEF Typed
<1>7. PacketInv(p)'
  <2>1. list'[p] = <<>> /\ p \in live'
    BY <1>1, <1>2 DEF PacketInv
  <2>2. m_capacity'[p] = SumOfSizes(list'[p])
    BY <1>6, <2>1, NoBlocks
  <2> QED
    BY <1>3, <2>1, <2>2 DEF PacketInv
<1>8. ASSUME NEW q \in Pkts, q # p PROVE PacketInv(q)'
  <2>1. Apart(q)
    BY <1>1, <1>3, <1>6, <1>8 DEF Apart
  <2> QED
    BY <1>2, <2>1, ApartKeeps
<1> QED
  BY <1>4, <1>5, <1>7, <1>8 DEF PktInv

(* free: every block goes back, a null one to nobody.                      *)
LEMMA freeKeeps ==
  ASSUME PktInv, NEW p \in Pkts, free(p)
  PROVE  PktInv'
<1> DEFINE G == {b.blk : b \in Range(list[p]) \ {NullBlock}}
<1>1. /\ p \in live /\ live' = live \ {p} /\ list' = [list EXCEPT ![p] = <<>>]
      /\ pool' = pool \cup G /\ garbage' \in BOOLEAN
      /\ m_capacity' = [m_capacity EXCEPT ![p] = 0]
      /\ NoLongerValid({p}) /\ out' = <<>> /\ leaked' = leaked
  BY DEF free
<1>2. Typed /\ Owned /\ \A q \in Pkts : PacketInv(q)
  BY DEF PktInv
<1>3. G \subseteq Blks /\ Held(list[p]) \ {0} = G
  <2>1. PICK l \in Seq(AnyBlocks) : l = list[p]
    BY <1>2 DEF Typed
  <2>2. DOMAIN l = 1 .. Len(l) /\ \A i \in DOMAIN l : l[i] \in AnyBlocks
    BY ListFacts, ElementOfSeq
  <2>3. \A b \in GoodBlocks : b.blk \in Blks
    BY BlockFields
  <2>4. NullBlock.blk = 0 /\ 0 \notin Blks
    BY PktBufAssumption DEF NullBlock, Block, Blks
  <2>5. \A i \in DOMAIN l : l[i] # NullBlock => l[i] \in GoodBlocks /\ l[i].blk \in Blks /\ l[i].blk # 0
    BY <2>2, <2>3, <2>4 DEF AnyBlocks
  <2>6. {b.blk : b \in Range(l) \ {NullBlock}} \subseteq Blks
    BY <2>5 DEF Range
  <2>7. Held(l) \ {0} = {b.blk : b \in Range(l) \ {NullBlock}}
    BY <2>4, <2>5 DEF Held, Range
  <2> QED
    BY <2>1, <2>6, <2>7
<1> HIDE DEF G
<1>4. Owned'
  <2>1. Held(list[p]) \cap (pool \cup leaked) = {} /\ pool \cap leaked = {} /\ pool \subseteq Blks /\ leaked \subseteq Blks
    BY <1>2 DEF Owned, Typed
  <2>2. PICK m : m = <<>> /\ Held(m) = {} /\ Distinct(m)
    BY NoBlocks
  <2>3. list' = [list EXCEPT ![p] = m]
    BY <1>1, <2>2
  <2>4. (Held(m) \cup pool' \cup leaked') \ {0} = (Held(list[p]) \cup pool \cup leaked) \ {0}
    BY <1>1, <1>3, <2>2
  <2>5. Held(m) \cap (pool' \cup leaked') = {} /\ pool' \subseteq Blks /\ leaked' \subseteq Blks /\ pool' \cap leaked' = {}
    BY <1>1, <1>3, <2>1, <2>2
  <2> QED
    BY <2>2, <2>3, <2>4, <2>5, OwnersKept
<1>5. cur' \in [Pkts -> Cursors] /\ \A q \in Pkts : q # p => cur'[q] = cur[q]
  BY <1>1, NotValid
<1>6. Typed'
  <2>1. pool' \subseteq Blks /\ leaked' \subseteq Blks /\ live' \subseteq Pkts
    BY <1>1, <1>2, <1>3 DEF Typed
  <2>2. list' \in [Pkts -> Seq(AnyBlocks)] /\ m_capacity' \in [Pkts -> Nat]
    BY <1>1, <1>2, NoBlocks DEF Typed
  <2> QED
    BY <1>1, <1>5, <2>1, <2>2, NoBytes DEF Typed
<1>7. PacketInv(p)'
  <2>1. list'[p] = <<>> /\ p \notin live'
    BY <1>1, <1>2 DEF Typed
  <2> QED
    BY <2>1 DEF PacketInv
<1>8. ASSUME NEW q \in Pkts, q # p PROVE PacketInv(q)'
  <2>1. Apart(q)
    BY <1>1, <1>2, <1>5, <1>8 DEF Apart, Typed
  <2> QED
    BY <1>2, <2>1, ApartKeeps
<1> QED
  BY <1>4, <1>6, <1>7, <1>8 DEF PktInv

(***************************************************************************)
(* Calls that cut or extend a list                                         *)
(***************************************************************************)
(* remove_header: the emptied blocks go back.                              *)
LEMMA remove_headerKeeps ==
  ASSUME PktInv, NEW p \in Pkts, NEW n \in Nat, remove_header(p, n)
  PROVE  PktInv'
<1>1. /\ Usable(p) /\ n <= m_capacity[p]
      /\ list' = [list EXCEPT ![p] = CutFront(list[p], n)]
      /\ pool' = pool \cup Emptied(list[p], n)
      /\ m_capacity' = [m_capacity EXCEPT ![p] = m_capacity[p] - n]
      /\ NoLongerValid({p}) /\ out' = <<>> /\ UNCHANGED <<live, leaked, garbage>>
  BY DEF remove_header
<1>2. PICK l \in Seq(GoodBlocks) : l = list[p] /\ Distinct(l) /\ m_capacity[p] = SumOfSizes(l)
  BY <1>1, UsableIs
<1>3. PICK m : m = CutFront(l, n)
  OBVIOUS
<1>4. /\ m \in Seq(GoodBlocks) /\ Distinct(m) /\ SumOfSizes(m) = SumOfSizes(l) - n
      /\ Held(l) = Held(m) \cup Emptied(l, n) /\ Held(m) \cap Emptied(l, n) = {}
  BY <1>1, <1>2, <1>3, FrontIsCut
<1>5. Exchanged(p, m)
  BY <1>1, <1>2, <1>4, ExchangedGiven
<1>6. garbage' \in BOOLEAN
  BY <1>1 DEF PktInv, Typed
<1> QED
  BY <1>1, <1>2, <1>3, <1>4, <1>5, <1>6, GoodIsAny, ListChanged

(* The room in the last block of a packet that is not empty, ...           *)
LEMMA RoomTyped ==
  ASSUME NEW l \in Seq(GoodBlocks), l # <<>>
  PROVE  last_size(Last(l)) \in Nat
<1>1. PICK b \in GoodBlocks : b = l[Len(l)]
  BY LenProperties, EmptySeq, ElementOfSeq
<1>2. PICK end \in Nat : end = b.m_data + b.m_size /\ end <= BlkSize
  BY BlockFields, PktBufAssumption
<1>3. BlkSize - end \in Nat
  BY <1>2, PktBufAssumption
<1> QED
  BY <1>1, <1>2, <1>3 DEF last_size, Last

(* and that block with as much more of it used.                            *)
LEMMA RoomAtEnd ==
  ASSUME NEW l \in Seq(GoodBlocks), l # <<>>, NEW n \in Nat, n <= last_size(Last(l))
  PROVE  LET b == l[Len(l)] IN b.m_size + n >= 1 /\ b.m_data + b.m_size + n <= BlkSize
<1>1. PICK b \in GoodBlocks : b = l[Len(l)]
  BY LenProperties, EmptySeq, ElementOfSeq
<1> DEFINE data == b.m_data
           size == b.m_size
<1>2. data \in 0 .. BlkSize - 1 /\ size \in 1 .. BlkSize /\ n <= BlkSize - (data + size)
  BY <1>1, BlockFields DEF last_size, Last
<1> HIDE DEF data, size
<1>3. size + n >= 1 /\ data + size + n <= BlkSize
  BY <1>2, PktBufAssumption
<1> QED
  BY <1>1, <1>3 DEF data, size

(* resize within the last block.                                           *)
LEMMA ResizeInPlaceKeeps ==
  ASSUME PktInv, NEW p \in Pkts, NEW n \in Nat, ResizeInPlace(p, n)
  PROVE  PktInv'
<1>1. /\ Usable(p) /\ 0 < m_capacity[p] /\ last_size(Last(list[p])) >= n
      /\ list' = [list EXCEPT ![p] = GrowBack(list[p], n)]
      /\ m_capacity' = [m_capacity EXCEPT ![p] = m_capacity[p] + n]
      /\ NoLongerValid({p}) /\ out' = <<>> /\ UNCHANGED <<pool, live, leaked, garbage>>
  BY DEF ResizeInPlace
<1>2. PICK l \in Seq(GoodBlocks) : l = list[p] /\ Distinct(l) /\ m_capacity[p] = SumOfSizes(l)
  BY <1>1, UsableIs
<1>3. l # <<>>
  BY <1>1, <1>2, NoBlocks
<1>4. LET b == l[Len(l)] IN b.m_size + n >= 1 /\ b.m_data + b.m_size + n <= BlkSize
  BY <1>1, <1>2, <1>3, RoomAtEnd, RoomTyped
<1>5. PICK m : m = GrowBack(l, n)
  OBVIOUS
<1>6. m \in Seq(GoodBlocks) /\ Held(m) = Held(l) /\ Distinct(m) /\ SumOfSizes(m) = SumOfSizes(l) + n
  BY <1>2, <1>3, <1>4, <1>5, BackGrows
<1>7. Exchanged(p, m)
  BY <1>1, <1>2, <1>6, ExchangedNone
<1>8. garbage' \in BOOLEAN
  BY <1>1 DEF PktInv, Typed
<1> QED
  BY <1>1, <1>2, <1>5, <1>6, <1>7, <1>8, GoodIsAny, ListChanged

(* resize of an empty packet.                                              *)
LEMMA ResizeEmptyKeeps ==
  ASSUME PktInv, NEW p \in Pkts, NEW n \in Nat, ResizeEmpty(p, n)
  PROVE  PktInv'
<1>1. /\ Usable(p) /\ m_capacity[p] = 0 /\ CanAlloc(n)
      /\ DoAlloc(p, n, FALSE, FALSE, list[p], 0)
      /\ out' = <<>> /\ UNCHANGED <<live, leaked, garbage>>
  BY DEF ResizeEmpty
<1>2. PICK l \in Seq(GoodBlocks) : list[p] = l /\ Distinct(l) /\ 0 = SumOfSizes(l)
  BY <1>1, UsableIs
<1>3. DoAlloc(p, n, FALSE, FALSE, l, SumOfSizes(l))
  BY <1>1, <1>2, Zenon
<1>4. n \in Int
  OBVIOUS
<1> QED
  BY <1>1, <1>2, <1>3, <1>4, DoAllocKeeps

(* alloc, at either end.                                                   *)
LEMMA allocKeeps ==
  ASSUME PktInv, NEW p \in Pkts, NEW n \in Nat, NEW alloc_front \in BOOLEAN, NEW insert_front \in BOOLEAN,
         alloc(p, n, alloc_front, insert_front)
  PROVE  PktInv'
<1>1. /\ Usable(p) /\ CanAlloc(n)
      /\ DoAlloc(p, n, alloc_front, insert_front, list[p], m_capacity[p])
      /\ out' = <<>> /\ UNCHANGED <<live, leaked, garbage>>
  BY DEF alloc
<1>2. PICK l \in Seq(GoodBlocks) : l = list[p] /\ Distinct(l) /\ SumOfSizes(l) = m_capacity[p]
  BY <1>1, UsableIs
<1>3. DoAlloc(p, n, alloc_front, insert_front, l, SumOfSizes(l)) /\ n \in Int
  BY <1>1, <1>2
<1> QED
  BY <1>1, <1>2, <1>3, DoAllocKeeps

(* resize beyond the last block, and its failure half way.                 *)
LEMMA ResizeGrowKeeps ==
  ASSUME PktInv, NEW p \in Pkts, NEW n \in Nat, ResizeGrow(p, n)
  PROVE  PktInv'
<1> DEFINE room == last_size(Last(list[p]))
           l == GrowBack(list[p], room)
           capacity == m_capacity[p] + room
<1>1. Usable(p) /\ 0 < m_capacity[p] /\ out' = <<>> /\ UNCHANGED <<live, leaked, garbage>>
  BY DEF ResizeGrow
<1>2. \/ CanAlloc(n - capacity) /\ DoAlloc(p, n - capacity, FALSE, FALSE, l, capacity)
      \/ /\ list' = [list EXCEPT ![p] = l]
         /\ m_capacity' = [m_capacity EXCEPT ![p] = capacity]
         /\ NoLongerValid({p}) /\ UNCHANGED pool
  BY DEF ResizeGrow
<1>3. /\ list[p] \in Seq(GoodBlocks) /\ Distinct(list[p]) /\ m_capacity[p] = SumOfSizes(list[p])
      /\ m_capacity[p] \in Nat
  BY <1>1, UsableIs
<1>4. list[p] # <<>>
  BY <1>1, <1>3, NoBlocks
<1>5. room \in Nat
  BY <1>3, <1>4, RoomTyped
<1>6. LET b == list[p][Len(list[p])] IN b.m_size + room >= 1 /\ b.m_data + b.m_size + room <= BlkSize
  <2>1. room <= room
    BY <1>5
  <2> QED
    BY <1>3, <1>4, <1>5, <2>1, RoomAtEnd
<1> HIDE DEF room
<1>7. l \in Seq(GoodBlocks) /\ Held(l) = Held(list[p]) /\ Distinct(l) /\ SumOfSizes(l) = SumOfSizes(list[p]) + room
  <2>1. room \in Int
    BY <1>5
  <2> QED
    BY <1>3, <1>4, <1>6, <2>1, BackGrows
<1> HIDE DEF l
<1>8. capacity = SumOfSizes(l) /\ capacity \in Nat
  BY <1>3, <1>5, <1>7
<1> HIDE DEF capacity
<1>9. CASE CanAlloc(n - capacity) /\ DoAlloc(p, n - capacity, FALSE, FALSE, l, capacity)
  <2>1. DoAlloc(p, n - capacity, FALSE, FALSE, l, SumOfSizes(l))
    BY <1>8, <1>9
  <2>2. PICK k \in Int : k = n - capacity
    BY <1>8
  <2> QED
    BY <1>1, <1>7, <1>9, <2>1, <2>2, DoAllocKeeps
<1>10. CASE /\ list' = [list EXCEPT ![p] = l]
            /\ m_capacity' = [m_capacity EXCEPT ![p] = capacity]
            /\ NoLongerValid({p}) /\ UNCHANGED pool
  <2>1. Exchanged(p, l)
    BY <1>1, <1>7, <1>10, ExchangedNone
  <2>2. m_capacity' = [m_capacity EXCEPT ![p] = SumOfSizes(l)] /\ garbage' \in BOOLEAN
    BY <1>1, <1>8, <1>10 DEF PktInv, Typed
  <2> QED
    BY <1>1, <1>7, <1>10, <2>1, <2>2, GoodIsAny, ListChanged
<1> QED
  BY <1>2, <1>9, <1>10

(* The first block set_cont_header makes of a list.                        *)
ContBlock(l, n) ==
  [l[1] EXCEPT !.m_data = 0, !.m_size = n,
               !.mem = [o \in DOMAIN l[1].mem |-> IF o < n THEN Content(l)[o + 1] ELSE l[1].mem[o]]]

(* It is a block like others.                                             *)
LEMMA ContBlockIs ==
  ASSUME NEW l \in Seq(GoodBlocks), l # <<>>, NEW n \in 1 .. BlkSize, n <= SumOfSizes(l)
  PROVE  LET h == ContBlock(l, n) IN
         /\ h \in GoodBlocks /\ h.blk = l[1].blk /\ h.m_data = 0 /\ h.m_size = n
         /\ \A o \in 0 .. n - 1 : h.mem[o] = Content(l)[o + 1]
<1>1. PICK b \in GoodBlocks : b = l[1]
  BY FirstBlock
<1>2. PICK s \in Seq(Bytes) : s = Content(l) /\ Len(s) = SumOfSizes(l)
  BY GoodIsAny, ContentTyped
<1>3. PICK f : f = b.mem /\ f \in [0 .. BlkSize - 1 -> Bytes]
  BY BlockFields DEF Payload
<1>4. PICK g : g = [o \in DOMAIN f |-> IF o < n THEN s[o + 1] ELSE f[o]]
  OBVIOUS
<1>5. \A o \in 0 .. BlkSize - 1 : o < n => s[o + 1] \in Bytes
  <2>1. Len(s) >= n /\ Len(s) \in Nat
    BY <1>2, LenProperties
  <2>2. \A o \in 0 .. BlkSize - 1 : o < n => o + 1 \in 1 .. Len(s)
    BY <2>1
  <2> QED
    BY <2>2, ElementOfSeq
<1>6. g \in Payload
  BY <1>3, <1>4, <1>5 DEF Payload
<1>7. \A o \in 0 .. n - 1 : g[o] = s[o + 1]
  <2>1. \A o \in 0 .. n - 1 : o \in 0 .. BlkSize - 1 /\ o < n
    BY PktBufAssumption
  <2> QED
    BY <1>3, <1>4, <2>1
<1>8. PICK h : h = [b EXCEPT !.m_data = 0, !.m_size = n, !.mem = g]
  OBVIOUS
<1>9. h \in GoodBlocks /\ h.blk = b.blk /\ h.m_data = 0 /\ h.m_size = n /\ h.mem = g
  <2>1. 0 \in 0 .. BlkSize - 1 /\ 0 + n <= BlkSize
    BY PktBufAssumption
  <2> QED
    BY <1>6, <1>8, <2>1 DEF GoodBlocks
<1>10. ContBlock(l, n) = h
  BY <1>1, <1>2, <1>3, <1>4, <1>8 DEF ContBlock
<1> QED
  BY <1>1, <1>2, <1>7, <1>9, <1>10

(* set_cont_header: the first block is refilled, emptied blocks go back.   *)
LEMMA set_cont_headerKeeps ==
  ASSUME PktInv, NEW p \in Pkts, NEW n \in Nat, n >= 1, set_cont_header(p, n)
  PROVE  PktInv'
<1> DEFINE b == list[p][1]
           more == n - b.m_size
           h == ContBlock(list[p], n)
<1>1. /\ Usable(p) /\ n <= m_capacity[p] /\ n <= BlkSize /\ n > b.m_size
      /\ list' = [list EXCEPT ![p] = <<h>> \o CutFront(Tail(list[p]), more)]
      /\ pool' = pool \cup Emptied(Tail(list[p]), more)
      /\ NoLongerValid({p}) /\ out' = <<>> /\ UNCHANGED <<live, m_capacity, leaked, garbage>>
  BY DEF set_cont_header, ContBlock
<1>2. /\ list[p] \in Seq(GoodBlocks) /\ Distinct(list[p]) /\ m_capacity[p] = SumOfSizes(list[p])
      /\ m_capacity[p] \in Nat
  BY <1>1, UsableIs
<1>3. list[p] # <<>>
  <2> HIDE DEF b, more, h
  <2>1. m_capacity[p] # 0
    BY <1>1, <1>2
  <2> QED
    BY <1>2, <2>1, NoBlocks
<1>4. b \in GoodBlocks /\ b.m_size \in 1 .. BlkSize /\ 1 \in 0 .. Len(list[p])
  BY <1>2, <1>3, FirstBlock
<1>5. h \in GoodBlocks /\ h.blk = b.blk /\ h.m_size = n
  <2>1. n \in 1 .. BlkSize /\ n <= SumOfSizes(list[p])
    BY <1>1, <1>2, PktBufAssumption
  <2> QED
    BY <1>2, <1>3, <2>1, ContBlockIs
<1>6. PICK l \in Seq(GoodBlocks) : l = Tail(list[p]) /\ l = SubSeq(list[p], 2, Len(list[p]))
  BY <1>2, <1>3, HeadTailProperties, TailIsSubSeq
<1>7. PICK s : s = SubSeq(list[p], 1, 1) /\ Parts(list[p], 1, s, l)
  <2>1. 1 + 1 = 2
    OBVIOUS
  <2>2. Parts(list[p], 1, SubSeq(list[p], 1, 1), SubSeq(list[p], 1 + 1, Len(list[p])))
    BY <1>2, <1>4, PartsOfList
  <2> QED
    BY <1>6, <2>1, <2>2
<1> HIDE DEF h
<1>8. /\ Ends(list[p])[1] = b.m_size /\ SumOfSizes(l) = SumOfSizes(list[p]) - b.m_size
      /\ Held(s) = {b.blk} /\ Held(list[p]) = {b.blk} \cup Held(l) /\ Distinct(l) /\ b.blk \notin Held(l)
  <2>1. Sized(list[p])
    BY <1>2, GoodIsAny, ListFacts
  <2>2. Ends(list[p])[1] = b.m_size
    <3>1. Ends(list[p])[0] = 0 /\ Ends(list[p])[1] = Ends(list[p])[1 - 1] + b.m_size
      BY <1>4, <2>1, EndsAre DEF Sized
    <3>2. PICK size \in Nat : size = b.m_size
      BY <1>4, PktBufAssumption
    <3> QED
      BY <3>1, <3>2
  <2>3. {list[p][i].blk : i \in 1 .. 1} = {b.blk}
    OBVIOUS
  <2> HIDE DEF b
  <2> QED
    BY <1>2, <1>7, <2>2, <2>3 DEF Parts
<1>9. more \in Nat /\ more <= SumOfSizes(l) /\ SumOfSizes(l) - more = SumOfSizes(list[p]) - n
  <2>1. PICK size \in Nat : size = b.m_size
    BY <1>4, PktBufAssumption
  <2>2. PICK sum \in Nat : sum = SumOfSizes(list[p]) /\ n <= sum
    BY <1>1, <1>2
  <2>3. n - size \in Nat /\ n - size <= sum - size /\ (sum - size) - (n - size) = sum - n
    BY <1>1, <2>1, <2>2, SMTT(30)
  <2> QED
    BY <1>8, <2>1, <2>2, <2>3
<1> HIDE DEF more
<1>10. PICK c : c = CutFront(l, more)
  OBVIOUS
<1>11. /\ c \in Seq(GoodBlocks) /\ Distinct(c) /\ SumOfSizes(c) = SumOfSizes(list[p]) - n
       /\ Held(l) = Held(c) \cup Emptied(l, more) /\ Held(c) \cap Emptied(l, more) = {}
  BY <1>8, <1>9, <1>10, FrontIsCut
<1> HIDE DEF b
<1>12. PICK t : t = <<h>>
  OBVIOUS
<1>13. /\ t \in Seq(AnyBlocks) /\ SumOfSizes(t) = n /\ Held(t) = {b.blk} /\ Distinct(t)
  <2>1. h \in AnyBlocks
    BY <1>5 DEF AnyBlocks
  <2> QED
    BY <1>5, <1>12, <2>1, SingleBlock
<1>14. PICK m : m = t \o c
  OBVIOUS
<1>15. /\ m \in Seq(AnyBlocks) /\ SumOfSizes(m) = SumOfSizes(t) + SumOfSizes(c)
       /\ Held(m) = {b.blk} \cup Held(c) /\ Distinct(m)
  <2>1. c \in Seq(AnyBlocks) /\ Held(t) \cap Held(c) = {}
    BY <1>8, <1>11, <1>13, GoodIsAny
  <2> QED
    BY <1>11, <1>13, <1>14, <2>1, ConcatLists
<1>16. SumOfSizes(m) = m_capacity[p]
  <2>1. PICK sum \in Nat : sum = m_capacity[p] /\ SumOfSizes(c) = sum - n
    BY <1>2, <1>11
  <2>2. n + (sum - n) = sum
    BY <2>1
  <2> QED
    BY <1>13, <1>15, <2>1, <2>2
<1>17. Exchanged(p, m)
  <2>1. Held(list[p]) = Held(m) \cup Emptied(l, more) /\ Held(m) \cap Emptied(l, more) = {}
    BY <1>8, <1>11, <1>15
  <2> QED
    BY <1>1, <1>6, <1>15, <2>1, ExchangedGiven
<1>18. m_capacity' = [m_capacity EXCEPT ![p] = SumOfSizes(m)] /\ garbage' \in BOOLEAN
  BY <1>1, <1>16 DEF PktInv, Typed
<1>19. list' = [list EXCEPT ![p] = m]
  BY <1>1, <1>6, <1>10, <1>12, <1>14
<1> QED
  BY <1>1, <1>15, <1>17, <1>18, <1>19, ListChanged

(* What comes after the new last block: each block but the first goes to   *)
(* the pool, the first is leaked.                                          *)
LEMMA ResizeShrinkKeeps ==
  ASSUME PktInv, NEW p \in Pkts, NEW n \in Nat, ResizeShrink(p, n)
  PROVE  PktInv'
<1> DEFINE k == Ending(list[p], n)
           removed == [i \in 1 .. Len(list[p]) - k |-> list[p][k + i].blk]
<1>1. /\ Usable(p) /\ 0 < n /\ n < m_capacity[p]
      /\ list' = [list EXCEPT ![p] = GrowBack(SubSeq(list[p], 1, k), n - Ends(list[p])[k])]
      /\ m_capacity' = [m_capacity EXCEPT ![p] = n]
      /\ IF removed = <<>> THEN UNCHANGED <<pool, leaked, garbage>>
         ELSE /\ leaked' = leaked \cup {Head(removed)}
              /\ pool' = pool \cup Range(Tail(removed))
              /\ garbage' = TRUE
      /\ NoLongerValid({p}) /\ out' = <<>> /\ UNCHANGED live
  BY DEF ResizeShrink, Ending
<1>2. PICK l \in Seq(GoodBlocks) : l = list[p] /\ Distinct(l) /\ m_capacity[p] = SumOfSizes(l)
  BY <1>1, UsableIs
<1>3. PICK j : j = k
  OBVIOUS
<1>4. PICK r : r = [i \in 1 .. Len(l) - j |-> l[j + i].blk] /\ r = removed
  BY <1>2, <1>3
<1> HIDE DEF k, removed
<1>5. PICK m : m = GrowBack(SubSeq(l, 1, j), n - Ends(l)[j])
  OBVIOUS
<1>6. /\ j \in 1 .. Len(l) /\ m \in Seq(GoodBlocks) /\ Distinct(m) /\ SumOfSizes(m) = n
      /\ Held(m) = {l[i].blk : i \in 1 .. j}
  <2>1. j = Ending(l, n) /\ n <= SumOfSizes(l)
    <3>1. SumOfSizes(l) \in Nat
      BY GoodIsAny, ListFacts
    <3> QED
      BY <1>1, <1>2, <1>3, <3>1 DEF k
  <2>2. 0 < n
    BY <1>1
  <2>3. j \in 1 .. Len(l)
    BY <1>2, <1>5, <2>1, <2>2, EndIsCut
  <2>4. m \in Seq(GoodBlocks) /\ Distinct(m) /\ SumOfSizes(m) = n
    BY <1>2, <1>5, <2>1, <2>2, EndIsCut
  <2>5. Held(m) = {l[i].blk : i \in 1 .. j}
    BY <1>2, <1>5, <2>1, <2>2, EndIsCut
  <2> QED
    BY <2>3, <2>4, <2>5
<1>7. /\ list' = [list EXCEPT ![p] = m] /\ m_capacity' = [m_capacity EXCEPT ![p] = SumOfSizes(m)]
      /\ IF r = <<>> THEN UNCHANGED <<pool, leaked, garbage>>
         ELSE /\ leaked' = leaked \cup {Head(r)}
              /\ pool' = pool \cup Range(Tail(r))
              /\ garbage' = TRUE
  BY <1>1, <1>2, <1>3, <1>4, <1>5, <1>6
<1>8. DOMAIN l = 1 .. Len(l) /\ Len(l) \in Nat /\ \A i \in 1 .. Len(l) : l[i] \in GoodBlocks /\ l[i].blk \in Blks
  BY GoodIsAny, ListFacts, LenProperties, BlockFields
<1>9. r \in Seq(Blks) /\ Len(r) = Len(l) - j /\ IsInjective(r)
  <2>1. r \in [1 .. Len(l) - j -> Blks] /\ Len(l) - j \in Nat
    BY <1>4, <1>6, <1>8
  <2>2. r \in Seq(Blks) /\ Len(r) = Len(l) - j
    BY <2>1, FunctionIsSeq
  <2>3. ASSUME NEW a \in 1 .. Len(l) - j, NEW c \in 1 .. Len(l) - j, r[a] = r[c] PROVE a = c
    <3>1. l[j + a].blk = l[j + c].blk /\ j + a \in DOMAIN l /\ j + c \in DOMAIN l
      BY <1>4, <1>6, <1>8, <2>3
    <3>2. j + a = j + c
      BY <1>2, <3>1 DEF Distinct
    <3> QED
      BY <1>6, <1>8, <3>2
  <2>4. DOMAIN r = 1 .. Len(l) - j
    BY <2>1
  <2> QED
    BY <2>2, <2>3, <2>4 DEF IsInjective
<1>10. Range(r) \subseteq Blks /\ Held(l) = Held(m) \cup Range(r) /\ Held(m) \cap Range(r) = {}
  <2>1. Range(r) = {l[i].blk : i \in j + 1 .. Len(l)}
    <3>1. DOMAIN r = 1 .. Len(l) - j
      BY <1>4
    <3>2. \A i \in j + 1 .. Len(l) : i - j \in 1 .. Len(l) - j /\ l[i].blk = r[i - j]
      BY <1>4, <1>6, <1>8
    <3>3. \A i \in 1 .. Len(l) - j : j + i \in j + 1 .. Len(l) /\ r[i] = l[j + i].blk
      BY <1>4, <1>6, <1>8
    <3> QED
      BY <3>1, <3>2, <3>3 DEF Range
  <2>2. Held(m) \cup Range(r) = Held(l)
    <3>1. \A i \in 1 .. Len(l) : i \in 1 .. j \/ i \in j + 1 .. Len(l)
      BY <1>6, <1>8
    <3>2. \A i \in j + 1 .. Len(l) : i \in 1 .. Len(l)
      BY <1>6, <1>8
    <3>3. \A i \in 1 .. j : i \in 1 .. Len(l)
      BY <1>6, <1>8
    <3>4. Held(l) = {l[i].blk : i \in 1 .. Len(l)}
      BY <1>8 DEF Held
    <3> QED
      BY <1>6, <2>1, <3>1, <3>2, <3>3, <3>4
  <2>3. ASSUME NEW a \in 1 .. j, NEW c \in j + 1 .. Len(l) PROVE l[a].blk # l[c].blk
    <3>1. a \in DOMAIN l /\ c \in DOMAIN l /\ a # c
      BY <1>6, <1>8
    <3> QED
      BY <1>2, <3>1 DEF Distinct
  <2>4. Held(m) \cap Range(r) = {}
    BY <1>6, <2>1, <2>3
  <2>5. Range(r) \subseteq Blks
    BY <1>6, <1>8, <2>1
  <2> QED
    BY <2>2, <2>4, <2>5
<1>11. /\ pool \subseteq Blks /\ leaked \subseteq Blks /\ pool \cap leaked = {} /\ garbage \in BOOLEAN
       /\ Held(l) \cap (pool \cup leaked) = {}
  BY <1>1, <1>2, UsableIs DEF PktInv, Typed, Owned
<1>12. CASE r = <<>>
  <2>1. Range(r) = {}
    BY <1>12 DEF Range
  <2>2. UNCHANGED <<pool, leaked>> /\ garbage' \in BOOLEAN
    BY <1>7, <1>11, <1>12
  <2>3. Exchanged(p, m)
    BY <1>1, <1>2, <1>6, <1>10, <2>1, <2>2, ExchangedNone
  <2> QED
    BY <1>1, <1>6, <1>7, <2>2, <2>3, GoodIsAny, ListChanged
<1>13. CASE r # <<>>
  <2>1. leaked' = leaked \cup {Head(r)} /\ pool' = pool \cup Range(Tail(r)) /\ garbage' \in BOOLEAN
    BY <1>7, <1>13
  <2>2. Range(Tail(r)) = Range(r) \ {Head(r)} /\ Head(r) \in Range(r)
    <3>1. Range(Tail(r)) = Range(r) \ {Head(r)}
      BY <1>9, <1>13, QueueTail
    <3>2. Head(r) \in Range(r)
      BY <1>9, <1>13, RangeTail
    <3> QED
      BY <3>1, <3>2
  <2>3. PICK first : first = Head(r)
    OBVIOUS
  <2>4. PICK others : others = Range(Tail(r))
    OBVIOUS
  <2>5. PICK all : all = Range(r)
    OBVIOUS
  <2>6. /\ leaked' = leaked \cup {first} /\ pool' = pool \cup others
        /\ others = all \ {first} /\ first \in all /\ all \subseteq Blks
        /\ Held(l) = Held(m) \cup all /\ Held(m) \cap all = {}
    BY <1>10, <2>1, <2>2, <2>3, <2>4, <2>5
  <2>7. Exchanged(p, m)
    BY <1>2, <1>6, <1>11, <2>6 DEF Exchanged
  <2> QED
    BY <1>1, <1>6, <1>7, <2>1, <2>7, GoodIsAny, ListChanged
<1> QED
  BY <1>12, <1>13

(***************************************************************************)
(* Two packets made one, and access                                        *)
(***************************************************************************)
(* merge_buf: the other packet's blocks change owner.                      *)
LEMMA merge_bufKeeps ==
  ASSUME PktInv, NEW p \in Pkts, NEW q \in Pkts, merge_buf(p, q)
  PROVE  PktInv'
<1>1. /\ Usable(p) /\ Usable(q) /\ p # q
      /\ list' = [list EXCEPT ![p] = list[p] \o list[q], ![q] = <<>>]
      /\ m_capacity' = [m_capacity EXCEPT ![p] = m_capacity[p] + m_capacity[q]]
      /\ live' = live \ {q}
      /\ NoLongerValid({p, q}) /\ out' = <<>> /\ UNCHANGED <<pool, leaked, garbage>>
  BY DEF merge_buf
<1>2. Typed /\ Owned /\ \A r \in Pkts : PacketInv(r)
  BY DEF PktInv
<1>3. PICK l \in Seq(AnyBlocks) : l = list[p] /\ Distinct(l) /\ m_capacity[p] = SumOfSizes(l) /\ p \in live
  BY <1>1, UsableIs, GoodIsAny
<1>4. PICK k \in Seq(AnyBlocks) : k = list[q] /\ Distinct(k) /\ m_capacity[q] = SumOfSizes(k) /\ q \in live
  BY <1>1, UsableIs, GoodIsAny
<1>5. Held(l) \cap Held(k) = {}
  <2>1. Held(list[p]) \cap Held(list[q]) \subseteq {0}
    BY <1>1, <1>2 DEF Owned
  <2>2. Held(list[p]) \subseteq Blks /\ 0 \notin Blks
    BY <1>1, UsableIs, PktBufAssumption DEF Blks
  <2> QED
    BY <1>3, <1>4, <2>1, <2>2
<1>6. PICK m : m = l \o k
  OBVIOUS
<1>7. /\ m \in Seq(AnyBlocks) /\ SumOfSizes(m) = SumOfSizes(l) + SumOfSizes(k)
      /\ Held(m) = Held(l) \cup Held(k) /\ Distinct(m)
  BY <1>3, <1>4, <1>5, <1>6, ConcatLists
<1>8. PICK e : e = <<>> /\ e \in Seq(AnyBlocks) /\ SumOfSizes(e) = 0 /\ Held(e) = {} /\ Distinct(e)
  BY NoBlocks
<1>9. /\ list' \in [Pkts -> Seq(AnyBlocks)] /\ list'[p] = m /\ list'[q] = e
      /\ \A r \in Pkts : r # p /\ r # q => list'[r] = list[r]
  <2>1. list' = [list EXCEPT ![p] = m, ![q] = e]
    BY <1>1, <1>3, <1>4, <1>6, <1>8
  <2> QED
    BY <1>1, <1>2, <1>7, <1>8, <2>1 DEF Typed
<1>10. /\ m_capacity' \in [Pkts -> Nat] /\ m_capacity'[p] = SumOfSizes(m)
       /\ \A r \in Pkts : r # p => m_capacity'[r] = m_capacity[r]
  <2>1. m_capacity[p] + m_capacity[q] = SumOfSizes(m) /\ SumOfSizes(m) \in Nat
    BY <1>3, <1>4, <1>7, ListFacts
  <2> QED
    BY <1>1, <1>2, <2>1 DEF Typed
<1>11. /\ cur' \in [Pkts -> Cursors] /\ cur'[p] = NoCursor /\ cur'[q] = NoCursor
       /\ \A r \in Pkts : r # p /\ r # q => cur'[r] = cur[r]
  BY <1>1, NotValid
<1>12. Typed'
  BY <1>1, <1>2, <1>9, <1>10, <1>11, NoBytes DEF Typed
<1>13. Owned'
  <2>1. /\ pool' = pool /\ leaked' = leaked
        /\ \A r \in Pkts : Distinct(list[r]) /\ Held(list[r]) \cap (pool \cup leaked) = {}
        /\ \A r, s \in Pkts : r # s => Held(list[r]) \cap Held(list[s]) \subseteq {0}
        /\ pool \cap leaked = {}
        /\ \A b \in Blks : b \in pool \cup leaked \/ \E r \in Pkts : b \in Held(list[r])
    BY <1>1, <1>2 DEF Owned
  <2>2. /\ Held(list'[p]) = Held(list[p]) \cup Held(list[q]) /\ Held(list'[q]) = {}
        /\ \A r \in Pkts : r # p /\ r # q => Held(list'[r]) = Held(list[r])
        /\ \A r \in Pkts : Distinct(list'[r])
    BY <1>3, <1>4, <1>7, <1>8, <1>9, <2>1
  <2>3. \A r \in Pkts : Held(list'[r]) \cap (pool \cup leaked) = {}
    BY <2>1, <2>2
  <2>4. \A r, s \in Pkts : r # s => Held(list'[r]) \cap Held(list'[s]) \subseteq {0}
    BY <2>1, <2>2
  <2>5. ASSUME NEW b \in Blks PROVE b \in pool \cup leaked \/ \E r \in Pkts : b \in Held(list'[r])
    BY <2>1, <2>2
  <2> QED
    BY <2>1, <2>2, <2>3, <2>4, <2>5 DEF Owned
<1>14. PacketInv(p)'
  <2>1. p \in live'
    BY <1>1, <1>3
  <2> QED
    BY <1>9, <1>10, <1>11, <2>1 DEF PacketInv
<1>15. PacketInv(q)'
  <2>1. q \notin live' /\ list'[q] = <<>>
    BY <1>1, <1>8, <1>9
  <2> QED
    BY <2>1 DEF PacketInv
<1>16. ASSUME NEW r \in Pkts, r # p, r # q PROVE PacketInv(r)'
  <2>1. Apart(r)
    BY <1>1, <1>9, <1>10, <1>11, <1>16 DEF Apart
  <2> QED
    BY <1>2, <2>1, ApartKeeps
<1> QED
  BY <1>12, <1>13, <1>14, <1>15, <1>16 DEF PktInv

(* Bytes of p are written, or none; its cursor and others move.            *)
LEMMA AccessKeeps ==
  ASSUME PktInv, NEW p \in Pkts, Usable(p), NEW m, SameShape(list[p], m),
         list' = [list EXCEPT ![p] = m], cur' \in [Pkts -> Cursors], CursorIn(list[p], cur'[p]),
         \A q \in Pkts : q # p => cur'[q] = cur[q] \/ Points(list[q], cur'[q]),
         out' \in Seq(Bytes), UNCHANGED Structure
  PROVE  PktInv'
<1>1. /\ list[p] \in Seq(GoodBlocks) /\ Distinct(list[p]) /\ m_capacity[p] = SumOfSizes(list[p])
  BY UsableIs
<1>2. m \in Seq(GoodBlocks) /\ SumOfSizes(m) = SumOfSizes(list[p]) /\ Held(m) = Held(list[p]) /\ Distinct(m)
      /\ CursorIn(m, cur'[p])
  BY <1>1, ShapeKept DEF SameShape
<1>3. UNCHANGED <<pool, leaked, live, m_capacity, garbage>>
  BY DEF Structure
<1>4. Exchanged(p, m)
  BY <1>2, <1>3, ExchangedNone
<1>5. m_capacity' = [m_capacity EXCEPT ![p] = SumOfSizes(m)] /\ garbage' \in BOOLEAN
  BY <1>1, <1>2, <1>3 DEF PktInv, Typed
<1>6. Points(m, cur'[p])
  BY <1>2, NoneIsNull DEF Points
<1>7. Reshaped(p, m)
  BY <1>3, <1>5, <1>6 DEF Reshaped
<1> QED
  BY <1>2, <1>4, <1>7, GoodIsAny, UsableIs, ReshapedKeeps

(* The cursor alone moves.                                                 *)
LEMMA CursorMoves ==
  ASSUME PktInv, NEW p \in Pkts, Usable(p), NEW c \in Cursors, CursorIn(list[p], c),
         cur' = [cur EXCEPT ![p] = c], out' \in Seq(Bytes), UNCHANGED <<list, Structure>>
  PROVE  PktInv'
<1>1. cur' \in [Pkts -> Cursors] /\ cur'[p] = c /\ \A q \in Pkts : q # p => cur'[q] = cur[q]
  BY CursorTyped
<1>2. SameShape(list[p], list[p])
  BY UsableIs DEF SameShape
<1>3. list' = [list EXCEPT ![p] = list[p]]
  BY DEF PktInv, Typed
<1> QED
  BY <1>1, <1>2, <1>3, AccessKeeps

(* reset_access: the cursor goes to the first byte.                        *)
LEMMA ResetAccessKeeps ==
  ASSUME PktInv, NEW p \in Pkts, ResetAccess(p)
  PROVE  PktInv'
<1>1. /\ Usable(p) /\ cur' = [cur EXCEPT ![p] = reset_access(list[p])] /\ out' = <<>>
      /\ UNCHANGED <<list, Structure>>
  BY DEF ResetAccess, Structure
<1>2. PICK c \in Cursors : c = reset_access(list[p]) /\ CursorIn(list[p], c)
  BY <1>1, UsableIs, ResetIn
<1> QED
  BY <1>1, <1>2, NoBytes, CursorMoves

(* What Ahead gives: the cells of the n bytes at the cursor, and a cursor. *)
LEMMA AheadIs ==
  ASSUME PktInv, NEW p \in Pkts, NEW n \in Nat, CanMove(p, n)
  PROVE  /\ Usable(p) /\ Ahead(p, n).cells \in Seq(CellsIn(list[p])) /\ Len(Ahead(p, n).cells) = n
         /\ Ahead(p, n).cur \in Cursors /\ CursorIn(list[p], Ahead(p, n).cur)
         /\ Points(list[p], Ahead(p, n).cur)
<1>1. Usable(p) /\ cur[p] # NoCursor /\ m_capacity[p] - cur[p].pos >= n
  BY DEF CanMove
<1>2. /\ list[p] \in Seq(GoodBlocks) /\ m_capacity[p] = SumOfSizes(list[p]) /\ m_capacity[p] \in Nat
      /\ cur[p] \in Cursors /\ CursorIn(list[p], cur[p])
  BY <1>1, UsableIs
<1>3. cur[p].pos + n <= SumOfSizes(list[p])
  <2>1. PICK x \in Int : x = cur[p].pos
    BY <1>2 DEF Cursors
  <2> QED
    BY <1>1, <1>2, <2>1
<1>4. PICK v : v = Ahead(p, n) /\ v \in Visits(list[p], cur[p], n) /\ v.left = 0
  BY <1>2, <1>3, VisitIs DEF Ahead
<1>5. v.cells \in Seq(CellsIn(list[p])) /\ v.cur \in Cursors /\ VisitOK(list[p], cur[p], n, v)
  BY <1>4 DEF Visits
<1>6. CursorIn(list[p], v.cur) /\ Len(v.cells) + v.left = n
  BY <1>5 DEF VisitOK
<1>7. Len(v.cells) = n
  BY <1>4, <1>5, <1>6, LenProperties
<1>8. Points(list[p], v.cur)
  BY <1>2, <1>6, NoneIsNull DEF Points
<1> QED
  BY <1>1, <1>4, <1>5, <1>6, <1>7, <1>8

(* write: the bytes at the cursor change, and the cursor is after them.    *)
LEMMA writeKeeps ==
  ASSUME PktInv, NEW p \in Pkts, NEW src \in Seq(Bytes), write(p, src)
  PROVE  PktInv'
<1>1. /\ CanMove(p, Len(src))
      /\ list' = [list EXCEPT ![p] = Stored(list[p], Ahead(p, Len(src)).cells, src)]
      /\ cur' = [cur EXCEPT ![p] = Ahead(p, Len(src)).cur]
      /\ out' = src /\ UNCHANGED Structure
  BY DEF write
<1>2. Len(src) \in Nat
  BY LenProperties
<1>3. PICK v : v = Ahead(p, Len(src))
  OBVIOUS
<1>4. /\ Usable(p) /\ v.cells \in Seq(CellsIn(list[p])) /\ Len(v.cells) = Len(src)
      /\ v.cur \in Cursors /\ CursorIn(list[p], v.cur)
  BY <1>1, <1>2, <1>3, AheadIs
<1>5. PICK m : m = Stored(list[p], v.cells, src)
  OBVIOUS
<1>6. list[p] \in Seq(GoodBlocks)
  BY <1>4, UsableIs
<1>7. SameShape(list[p], m)
  BY <1>4, <1>5, <1>6, StoredShape
<1>8. PICK c \in Cursors : c = v.cur
  BY <1>4
<1>9. cur' \in [Pkts -> Cursors] /\ cur'[p] = c /\ \A q \in Pkts : q # p => cur'[q] = cur[q]
  BY <1>1, <1>3, <1>8, CursorTyped
<1> QED
  BY <1>1, <1>3, <1>4, <1>5, <1>7, <1>8, <1>9, AccessKeeps

(* fill: write of equal bytes.                                             *)
LEMMA fillKeeps ==
  ASSUME PktInv, NEW p \in Pkts, NEW v \in Bytes, NEW n \in Nat, fill(p, v, n)
  PROVE  PktInv'
<1>1. PICK s : s = [i \in 1 .. n |-> v]
  OBVIOUS
<1>2. s \in [1 .. n -> Bytes]
  BY <1>1
<1>3. s \in Seq(Bytes)
  BY <1>2, FunctionIsSeq
<1>4. write(p, s)
  BY <1>1 DEF fill
<1> QED
  BY <1>3, <1>4, writeKeeps

(* read: the cursor is after what was read.                                *)
LEMMA readKeeps ==
  ASSUME PktInv, NEW p \in Pkts, NEW n \in Nat, read(p, n)
  PROVE  PktInv'
<1>1. /\ CanMove(p, n) /\ out' = BytesAt(list[p], Ahead(p, n).cells)
      /\ cur' = [cur EXCEPT ![p] = Ahead(p, n).cur] /\ UNCHANGED <<list, Structure>>
  BY DEF read
<1>2. PICK v : v = Ahead(p, n)
  OBVIOUS
<1>3. /\ Usable(p) /\ v.cells \in Seq(CellsIn(list[p])) /\ v.cur \in Cursors /\ CursorIn(list[p], v.cur)
  BY <1>1, <1>2, AheadIs
<1>4. list[p] \in Seq(GoodBlocks)
  BY <1>3, UsableIs
<1>5. out' \in Seq(Bytes)
  BY <1>1, <1>2, <1>3, <1>4, BytesTyped, GoodIsAny
<1> QED
  BY <1>1, <1>2, <1>3, <1>5, CursorMoves

(* seek: backwards from the start, forwards from where it is.              *)
LEMMA SeekMoves ==
  ASSUME PktInv, NEW p \in Pkts, NEW offset \in Nat, seek(p, offset)
  PROVE  \E c \in Cursors : CursorIn(list[p], c) /\ c.pos = offset /\ cur' = [cur EXCEPT ![p] = c]
<1> DEFINE from == SeekFrom(p, offset)
<1>1. /\ Usable(p) /\ cur[p] # NoCursor /\ offset <= m_capacity[p]
      /\ cur' = [cur EXCEPT ![p] = Visit(list[p], from, offset - from.pos).cur]
      /\ out' = <<>> /\ UNCHANGED <<list, Structure>>
  BY DEF seek
<1>2. /\ list[p] \in Seq(GoodBlocks) /\ m_capacity[p] = SumOfSizes(list[p]) /\ m_capacity[p] \in Nat
      /\ cur[p] \in Cursors /\ CursorIn(list[p], cur[p])
  BY <1>1, UsableIs
<1>3. from \in Cursors /\ CursorIn(list[p], from) /\ from.pos <= offset /\ from.pos \in Int
  <2>1. cur[p].pos \in Int
    BY <1>2 DEF Cursors
  <2>2. CASE offset < cur[p].pos
    <3>1. from = reset_access(list[p])
      BY <2>2 DEF SeekFrom
    <3>2. PICK c \in Cursors : c = reset_access(list[p]) /\ CursorIn(list[p], c) /\ c.pos = 0
      BY <1>2, ResetIn
    <3> QED
      BY <3>1, <3>2
  <2>3. CASE ~ (offset < cur[p].pos)
    <3>1. from = cur[p]
      BY <2>3 DEF SeekFrom
    <3> HIDE DEF from
    <3> QED
      BY <1>2, <2>1, <2>3, <3>1
  <2> QED
    BY <2>2, <2>3
<1> HIDE DEF from
<1>4. PICK n : n = offset - from.pos
  OBVIOUS
<1>5. n \in Nat /\ from.pos + n <= SumOfSizes(list[p])
  <2>1. PICK x \in Int : x = from.pos
    BY <1>3
  <2> QED
    BY <1>1, <1>2, <1>3, <1>4, <2>1
<1>6. PICK v : v = Visit(list[p], from, n) /\ v \in Visits(list[p], from, n)
  BY <1>2, <1>3, <1>5, VisitIs
<1>7. v.left = 0
  BY <1>2, <1>3, <1>5, <1>6, VisitIs
<1>8. v.cur \in Cursors /\ v.cells \in Seq(CellsIn(list[p])) /\ VisitOK(list[p], from, n, v)
  BY <1>6 DEF Visits
<1>9. CursorIn(list[p], v.cur) /\ v.cur.pos = from.pos + Len(v.cells) /\ Len(v.cells) + v.left = n
  BY <1>8 DEF VisitOK
<1>10. v.cur.pos = offset
  <2>1. PICK x \in Int : x = from.pos
    BY <1>3
  <2>2. PICK k \in Nat : k = Len(v.cells)
    BY <1>8, LenProperties
  <2>3. v.cur.pos = x + k /\ k + 0 = n /\ n = offset - x
    BY <1>4, <1>7, <1>9, <2>1, <2>2
  <2> QED
    BY <2>3
<1>11. cur' = [cur EXCEPT ![p] = v.cur]
  BY <1>1, <1>4, <1>6
<1> QED
  BY <1>8, <1>9, <1>10, <1>11

(* seek keeps the invariant.                                               *)
LEMMA seekKeeps ==
  ASSUME PktInv, NEW p \in Pkts, NEW offset \in Nat, seek(p, offset)
  PROVE  PktInv'
<1>1. PICK c \in Cursors : CursorIn(list[p], c) /\ cur' = [cur EXCEPT ![p] = c]
  BY SeekMoves
<1>2. Usable(p) /\ out' = <<>> /\ UNCHANGED <<list, Structure>>
  BY DEF seek
<1> QED
  BY <1>1, <1>2, NoBytes, CursorMoves

(* copy: both packets' cursors move.                                       *)
LEMMA copyKeeps ==
  ASSUME PktInv, NEW p \in Pkts, NEW q \in Pkts, NEW n \in Nat, copy(p, q, n)
  PROVE  PktInv'
<1>1. /\ p # q /\ CanMove(p, n) /\ CanMove(q, n)
      /\ out' = BytesAt(list[q], Ahead(q, n).cells)
      /\ list' = [list EXCEPT ![p] = Stored(list[p], Ahead(p, n).cells, out')]
      /\ cur' = [cur EXCEPT ![p] = Ahead(p, n).cur, ![q] = Ahead(q, n).cur]
      /\ UNCHANGED Structure
  BY DEF copy
<1>2. PICK v : v = Ahead(p, n)
  OBVIOUS
<1>3. PICK w : w = Ahead(q, n)
  OBVIOUS
<1>4. /\ Usable(p) /\ v.cells \in Seq(CellsIn(list[p])) /\ Len(v.cells) = n
      /\ v.cur \in Cursors /\ CursorIn(list[p], v.cur)
  BY <1>1, <1>2, AheadIs
<1>5. /\ Usable(q) /\ w.cells \in Seq(CellsIn(list[q])) /\ Len(w.cells) = n
      /\ w.cur \in Cursors /\ Points(list[q], w.cur)
  BY <1>1, <1>3, AheadIs
<1>6. list[p] \in Seq(GoodBlocks) /\ list[q] \in Seq(GoodBlocks)
  BY <1>4, <1>5, UsableIs
<1>7. PICK s : s = BytesAt(list[q], w.cells) /\ s \in Seq(Bytes) /\ Len(s) = n
  BY <1>5, <1>6, BytesTyped, GoodIsAny
<1>8. PICK m : m = Stored(list[p], v.cells, s)
  OBVIOUS
<1>9. SameShape(list[p], m)
  BY <1>4, <1>6, <1>7, <1>8, StoredShape
<1>10. out' = s /\ list' = [list EXCEPT ![p] = m]
  BY <1>1, <1>2, <1>3, <1>7, <1>8
<1>11. /\ cur' \in [Pkts -> Cursors] /\ cur'[p] = v.cur /\ cur'[q] = w.cur
       /\ \A r \in Pkts : r # p /\ r # q => cur'[r] = cur[r]
  <2>1. cur \in [Pkts -> Cursors]
    BY DEF PktInv, Typed
  <2> QED
    BY <1>1, <1>2, <1>3, <1>4, <1>5, <2>1
<1>12. \A r \in Pkts : r # p => cur'[r] = cur[r] \/ Points(list[r], cur'[r])
  BY <1>5, <1>11
<1> QED
  BY <1>1, <1>4, <1>7, <1>9, <1>10, <1>11, <1>12, AccessKeeps

(***************************************************************************)
(* The invariant                                                           *)
(***************************************************************************)
(* The invariant holds at the start, with every block in the pool,         *)
LEMMA PktInvInit == Init => PktInv
<1> SUFFICES ASSUME Init PROVE PktInv
  OBVIOUS
<1>1. /\ pool = Blks /\ live = {} /\ list = [p \in Pkts |-> <<>>]
      /\ m_capacity = [p \in Pkts |-> 0] /\ cur = [p \in Pkts |-> NoCursor]
      /\ out = <<>> /\ leaked = {} /\ garbage = FALSE
  BY DEF Init
<1>2. NoCursor \in Cursors
  BY DEF NoCursor, Cursors
<1>3. Typed
  BY <1>1, <1>2, NoBlocks, NoBytes DEF Typed
<1>4. \A p \in Pkts : Held(list[p]) = {} /\ Distinct(list[p])
  BY <1>1, NoBlocks
<1>5. Owned
  BY <1>1, <1>4 DEF Owned
<1>6. \A p \in Pkts : PacketInv(p)
  BY <1>1 DEF PacketInv
<1> QED
  BY <1>3, <1>5, <1>6 DEF PktInv

(* What is written is bytes.                                               *)
LEMMA SourceTyped ==
  ASSUME NEW n \in Nat
  PROVE  Source(n) \in Seq(Bytes)
<1>1. PICK k \in Nat : k = Cardinality(Bytes) /\ k > 0 /\ Bytes = 0 .. k - 1
  <2>1. Cardinality(Bytes) \in Nat
    BY PktBufAssumption, FS_CardinalityType
  <2>2. Cardinality(Bytes) > 0
    BY <2>1, PktBufAssumption
  <2> QED
    BY <2>1, <2>2, PktBufAssumption
<1>2. \A i \in 1 .. n : i % k \in 0 .. k - 1
  BY <1>1
<1>3. Source(n) \in [1 .. n -> Bytes]
  BY <1>1, <1>2 DEF Source
<1> QED
  BY <1>3, FunctionIsSeq

(* ... is kept by the calls that change a packet's list,                   *)
LEMMA ReshapeKeeps ==
  ASSUME PktInv, NEW p \in Pkts, Reshape(p)
  PROVE  PktInv'
<1>1. CASE get_pktbuffer(p) \/ ResetAccess(p) \/ free(p) \/ ResizeToNone(p)
  BY <1>1, get_pktbufferKeeps, ResetAccessKeeps, freeKeeps DEF ResizeToNone
<1>2. CASE \E n \in 1 .. MaxSize : AllocFails(p, n)
  <2>1. UNCHANGED vars
    BY <1>2 DEF AllocFails
  <2> QED
    BY <2>1 DEF vars, PktInv, Typed, Owned, PacketInv
<1>3. ASSUME NEW n \in 1 .. MaxSize,
             \/ remove_header(p, n) \/ set_cont_header(p, n)
             \/ ResizeEmpty(p, n) \/ ResizeGrow(p, n) \/ ResizeShrink(p, n)
      PROVE  PktInv'
  <2>1. n \in Nat /\ n >= 1
    OBVIOUS
  <2> QED
    BY <1>3, <2>1, remove_headerKeeps, set_cont_headerKeeps, ResizeEmptyKeeps, ResizeGrowKeeps, ResizeShrinkKeeps
<1>4. ASSUME NEW n \in 1 .. MaxSize,
             \/ \E front, insert \in BOOLEAN : alloc(p, n, front, insert)
             \/ HeaderFits(p, n) \/ HeaderBlock(p, n) \/ HeaderNoBlock(p, n)
             \/ HeaderSplit(p, n) \/ ResizeInPlace(p, n)
      PROVE  PktInv'
  <2>1. n \in Nat /\ n >= 1
    OBVIOUS
  <2>2. CASE \E front, insert \in BOOLEAN : alloc(p, n, front, insert)
    BY <2>1, <2>2, allocKeeps
  <2>3. CASE \/ HeaderFits(p, n) \/ HeaderBlock(p, n) \/ HeaderNoBlock(p, n)
             \/ HeaderSplit(p, n) \/ ResizeInPlace(p, n)
    BY <2>1, <2>3, HeaderFitsKeeps, HeaderBlockKeeps, HeaderNoBlockKeeps, HeaderSplitKeeps, ResizeInPlaceKeeps
  <2> QED
    BY <1>4, <2>2, <2>3
<1> QED
  BY <1>1, <1>2, <1>3, <1>4 DEF Reshape

(* ... and by every call.                                                  *)
LEMMA PktInvStep == PktInv /\ [Next]_vars => PktInv'
<1> SUFFICES ASSUME PktInv, [Next]_vars PROVE PktInv'
  OBVIOUS
<1>1. CASE UNCHANGED vars
  BY <1>1 DEF vars, PktInv, Typed, Owned, PacketInv
<1>2. ASSUME NEW p \in Pkts, Reshape(p) PROVE PktInv'
  BY <1>2, ReshapeKeeps
<1>3. ASSUME NEW p \in Pkts, Access(p) PROVE PktInv'
  <2>1. ASSUME NEW n \in 1 .. MaxSize,
               read(p, n) \/ write(p, Source(n)) \/ \E v \in Bytes : fill(p, v, n)
        PROVE  PktInv'
    <3>1. n \in Nat /\ Source(n) \in Seq(Bytes)
      BY SourceTyped
    <3> QED
      BY <2>1, <3>1, readKeeps, writeKeeps, fillKeeps
  <2>2. ASSUME NEW offset \in 0 .. MaxCap, seek(p, offset) PROVE PktInv'
    <3>1. offset \in Nat
      OBVIOUS
    <3> QED
      BY <2>2, <3>1, seekKeeps
  <2> QED
    BY <1>3, <2>1, <2>2 DEF Access
<1>4. ASSUME NEW p \in Pkts, NEW q \in Pkts, Combine(p, q) PROVE PktInv'
  <2>1. CASE merge_buf(p, q)
    BY <2>1, merge_bufKeeps
  <2>2. ASSUME NEW n \in 1 .. MaxSize, copy(p, q, n) PROVE PktInv'
    <3>1. n \in Nat
      OBVIOUS
    <3> QED
      BY <2>2, <3>1, copyKeeps
  <2> QED
    BY <1>4, <2>1, <2>2 DEF Combine
<1> QED
  BY <1>1, <1>2, <1>3, <1>4 DEF Next

(* The types, the owner of every block, and what the capacity and the      *)
(* cursor of every packet say: whatever calls are made on the packets.     *)
THEOREM PktInvariant == Spec => []PktInv
<1>1. Init => PktInv
  BY PktInvInit
<1>2. PktInv /\ [Next]_vars => PktInv'
  BY PktInvStep
<1> QED
  BY <1>1, <1>2, PTL DEF Spec

(* A block in a list keeps its bytes within its payload, and holds at      *)
(* least one: no gap of alloc_header, resize or set_cont_header is wrong.  *)
THEOREM TypesKept == Spec => []TypeOK
<1>1. ASSUME PktInv PROVE TypeOK
  <2>1. Typed
    BY <1>1 DEF PktInv
  <2>2. ASSUME NEW p \in Pkts, NEW b \in Range(list[p]) \ {NullBlock}
        PROVE  /\ b.blk \in Blks /\ b.mem \in Payload
               /\ b.m_data \in 0 .. BlkSize - 1 /\ b.m_size \in 1 .. BlkSize - b.m_data
    <3>1. list[p] \in Seq(AnyBlocks)
      BY <2>1 DEF Typed
    <3>2. b \in AnyBlocks
      BY <3>1, LenProperties, ElementOfSeq DEF Range
    <3>3. b \in GoodBlocks
      BY <2>2, <3>2 DEF AnyBlocks
    <3>4. /\ b.blk \in Blks /\ b.mem \in Payload /\ b.m_data \in 0 .. BlkSize - 1
          /\ b.m_size \in 1 .. BlkSize /\ b.m_data + b.m_size <= BlkSize
      BY <3>3, BlockFields
    <3> DEFINE data == b.m_data
               size == b.m_size
    <3>5. data \in 0 .. BlkSize - 1 /\ size \in 1 .. BlkSize /\ data + size <= BlkSize
      BY <3>4
    <3> HIDE DEF data, size
    <3>6. size \in 1 .. BlkSize - data
      BY <3>5, PktBufAssumption
    <3> QED
      BY <3>4, <3>6 DEF data, size
  <2> QED
    BY <2>1, <2>2 DEF Typed, TypeOK
<1> QED
  BY <1>1, PktInvariant, PTL

(* debug_print's test, after every call and every failure.                 *)
THEOREM CapacityStaysSum == Spec => []CapacityIsSum
<1>1. ASSUME PktInv PROVE CapacityIsSum
  BY <1>1 DEF PktInv, Typed, PacketInv, CapacityIsSum
<1> QED
  BY <1>1, PktInvariant, PTL

(* A list is no longer than there are blocks, and a null one.              *)
LEMMA ListIsShort ==
  ASSUME PktInv, NEW p \in Pkts
  PROVE  Len(list[p]) \in 0 .. NumBlks + 1 /\ DOMAIN list[p] = 1 .. Len(list[p])
<1>1. PICK l \in Seq(AnyBlocks) : l = list[p] /\ Distinct(l)
  BY DEF PktInv, Typed, Owned
<1>2. Len(l) \in Nat /\ DOMAIN l = 1 .. Len(l)
  BY LenProperties
<1>3. \A i \in 1 .. Len(l) : l[i].blk \in 0 .. NumBlks
  <2>1. \A b \in GoodBlocks : b.blk \in 0 .. NumBlks
    BY BlockFields, PktBufAssumption DEF Blks
  <2>2. NullBlock.blk \in 0 .. NumBlks
    BY PktBufAssumption DEF NullBlock, Block
  <2> QED
    BY <1>2, <2>1, <2>2, ElementOfSeq DEF AnyBlocks
<1> DEFINE f == [i \in 1 .. Len(l) |-> l[i].blk]
<1>4. f \in Injection(1 .. Len(l), 0 .. NumBlks)
  <2>1. f \in [1 .. Len(l) -> 0 .. NumBlks]
    BY <1>3
  <2>2. \A i, k \in 1 .. Len(l) : f[i] = f[k] => i = k
    BY <1>1, <1>2 DEF Distinct
  <2> QED
    BY <2>1, <2>2 DEF Injection, IsInjective
<1>5. IsFiniteSet(0 .. NumBlks) /\ Cardinality(0 .. NumBlks) = NumBlks + 1
  BY PktBufAssumption, FS_Interval
<1>6. Cardinality(1 .. Len(l)) = Len(l)
  BY <1>2, FS_Interval
<1>7. Len(l) <= NumBlks + 1
  <2> HIDE DEF f
  <2> QED
    BY <1>4, <1>5, <1>6, FS_Injection DEF ExistsInjection
<1> QED
  BY <1>1, <1>2, <1>7, PktBufAssumption

(* Every block is in the pool, in one list once, or leaked by resize: no   *)
(* sequence of calls frees a block twice, or drops one elsewhere.          *)
THEOREM BlocksStayConserved == Spec => []BlocksConserved
<1>1. ASSUME PktInv PROVE BlocksConserved
  <2> SUFFICES ASSUME NEW b \in Blks
               PROVE  (IF b \in pool THEN 1 ELSE 0) + (IF b \in leaked THEN 1 ELSE 0)
                      + Cardinality({at \in Pkts \X (1 .. NumBlks + 1) :
                          at[2] <= Len(list[at[1]]) /\ list[at[1]][at[2]].blk = b}) = 1
    BY DEF BlocksConserved
  <2>1. PICK S : S = {at \in Pkts \X (1 .. NumBlks + 1) :
                        at[2] <= Len(list[at[1]]) /\ list[at[1]][at[2]].blk = b}
    OBVIOUS
  <2>2. /\ pool \cap leaked = {}
        /\ \A p \in Pkts : Distinct(list[p]) /\ Held(list[p]) \cap (pool \cup leaked) = {}
        /\ \A p, q \in Pkts : p # q => Held(list[p]) \cap Held(list[q]) \subseteq {0}
        /\ b \in pool \cup leaked \/ \E p \in Pkts : b \in Held(list[p])
    BY <1>1 DEF PktInv, Owned
  <2>3. ASSUME NEW at \in S
        PROVE  /\ at = <<at[1], at[2]>> /\ at[1] \in Pkts /\ at[2] \in DOMAIN list[at[1]]
               /\ list[at[1]][at[2]].blk = b /\ b \in Held(list[at[1]])
    <3>1. at = <<at[1], at[2]>> /\ at[1] \in Pkts /\ at[2] \in 1 .. NumBlks + 1 /\ at[2] <= Len(list[at[1]])
          /\ list[at[1]][at[2]].blk = b
      BY <2>1, <2>3
    <3>2. at[2] \in DOMAIN list[at[1]]
      BY <1>1, <3>1, ListIsShort
    <3> QED
      BY <3>1, <3>2 DEF Held
  <2>4. CASE b \in pool \cup leaked
    <3>1. S = {}
      BY <2>2, <2>3, <2>4
    <3>2. Cardinality(S) = 0
      BY <3>1, FS_EmptySet
    <3> QED
      BY <2>1, <2>2, <2>4, <3>2
  <2>5. CASE b \notin pool \cup leaked
    <3>1. PICK p \in Pkts : b \in Held(list[p])
      BY <2>2, <2>5
    <3>2. PICK i \in DOMAIN list[p] : list[p][i].blk = b
      BY <3>1 DEF Held
    <3>3. i \in 1 .. NumBlks + 1 /\ i <= Len(list[p])
      BY <1>1, <3>2, ListIsShort, PktBufAssumption
    <3>4. <<p, i>> \in S
      BY <2>1, <3>2, <3>3
    <3>5. ASSUME NEW at \in S PROVE at = <<p, i>>
      <4>1. at[1] = p
        <5>1. b # 0
          BY PktBufAssumption DEF Blks
        <5> QED
          BY <2>2, <2>3, <3>1, <5>1
      <4>2. at[2] = i
        BY <2>2, <2>3, <3>2, <4>1 DEF Distinct
      <4> QED
        BY <2>3, <4>1, <4>2
    <3>6. S = {<<p, i>>}
      BY <3>4, <3>5
    <3>7. Cardinality(S) = 1
      BY <3>6, FS_Singleton
    <3> QED
      BY <2>1, <2>5, <3>7
  <2> QED
    BY <2>4, <2>5
<1> QED
  BY <1>1, PktInvariant, PTL

(* Where reset_access, seek and the loops of read, write, fill and copy    *)
(* leave the cursor.                                                       *)
THEOREM CursorStaysAtPos == Spec => []CursorPointsAtPos
<1>1. ASSUME PktInv PROVE CursorPointsAtPos
  <2> SUFFICES ASSUME NEW p \in Pkts, p \in live, cur[p] # NoCursor
               PROVE  IF cur[p].pos < m_capacity[p]
                      THEN <<cur[p].blk, cur[p].off>> = CellsOf(list[p])[cur[p].pos + 1]
                      ELSE cur[p].pos = m_capacity[p] /\ cur[p].blk = Len(list[p]) + 1
    BY <1>1 DEF CursorPointsAtPos, PktInv, Typed
  <2>1. Typed /\ PacketInv(p)
    BY <1>1 DEF PktInv
  <2>2. NullBlock \notin Range(list[p])
    BY <2>1 DEF PacketInv, Points
  <2>3. PICK l \in Seq(GoodBlocks) : l = list[p]
    BY <2>1, <2>2, NotNullIsGood DEF Typed
  <2>4. PICK c \in Cursors : c = cur[p] /\ CursorIn(l, c) /\ m_capacity[p] = SumOfSizes(l)
    BY <2>1, <2>3 DEF Typed, PacketInv, Points
  <2>5. c.blk \in 1 .. Len(l) + 1 /\ Len(l) \in Nat /\ c.pos \in Int /\ c.off \in Int /\ c.blk \in Int
    BY <2>4, LenProperties DEF CursorIn, Cursors
  <2>6. CASE c.blk = Len(l) + 1
    <3>1. c.pos = SumOfSizes(l) /\ SumOfSizes(l) \in Nat
      BY <2>4, <2>6, GoodIsAny, ListFacts DEF CursorIn
    <3> QED
      BY <2>3, <2>4, <2>5, <2>6, <3>1
  <2>7. CASE c.blk <= Len(l)
    <3>1. 1 \in 1 .. cur_blk_remain_size(l, c)
      BY <2>4, <2>7, CursorLeaves
    <3>2. CellsOf(l)[c.pos + 1] = <<c.blk, c.off + 1 - 1>>
      BY <2>4, <2>7, <3>1, CellsAtCursor
    <3>3. c.pos < SumOfSizes(l)
      BY <2>4, <2>7, CursorLeaves
    <3> QED
      BY <2>3, <2>4, <2>5, <3>2, <3>3
  <2> QED
    BY <2>5, <2>6, <2>7
<1> QED
  BY <1>1, PktInvariant, PTL

------------------------------------------------------------------------------
(***************************************************************************)
(* PktBuf implements PacketBytes: a packet is a string of bytes, whatever  *)
(* the blocks it is cut into, for any number of packets, blocks and bytes  *)
(* a block has.  First what each operator on lists of blocks does to the   *)
(* bytes, then the abstract steps, then one lemma per call.                *)
(***************************************************************************)
(* A list holds the bytes s: those of the first block, then the second's.  *)
Holds(l, s) ==
  /\ s \in Seq(Bytes) /\ Len(s) = SumOfSizes(l)
  /\ \A i \in 1 .. Len(l) : \A o \in 1 .. l[i].m_size :
       s[Ends(l)[i - 1] + o] = l[i].mem[l[i].m_data + o - 1]

(* The sizes of a list's blocks, and the places of a block's bytes.        *)
LEMMA PlaceInList ==
  ASSUME NEW l \in Seq(AnyBlocks), NEW i \in 1 .. Len(l)
  PROVE  /\ Len(l) \in Nat /\ i - 1 \in 0 .. Len(l) /\ l[i].m_size \in Nat /\ l[i].m_data \in Nat
         /\ Ends(l)[i - 1] \in Nat /\ Ends(l)[i] = Ends(l)[i - 1] + l[i].m_size
         /\ Ends(l)[i] <= SumOfSizes(l)
         /\ \A o \in 1 .. l[i].m_size : Ends(l)[i - 1] + o \in 1 .. SumOfSizes(l)
<1>1. Len(l) \in Nat /\ Sized(l) /\ SumOfSizes(l) \in Nat
  BY ListFacts, LenProperties
<1>2. i - 1 \in 0 .. Len(l) /\ i \in 0 .. Len(l) /\ Len(l) \in 0 .. Len(l) /\ i <= Len(l)
  BY <1>1
<1>3. l[i] \in AnyBlocks
  BY ElementOfSeq
<1>4. PICK size \in Nat : size = l[i].m_size
  BY <1>3, FrameOf
<1>5. PICK e \in Nat : e = Ends(l)[i - 1]
  BY <1>1, <1>2, EndsAre
<1>6. Ends(l)[i] = e + size
  BY <1>1, <1>4, <1>5, EndsAre
<1>7. Ends(l)[i] <= Ends(l)[Len(l)]
  BY <1>1, <1>2, EndsMonotonic
<1>8. e + size <= SumOfSizes(l)
  BY <1>6, <1>7 DEF SumOfSizes
<1>9. \A o \in 1 .. size : e + o \in 1 .. SumOfSizes(l)
  BY <1>1, <1>8
<1>10. l[i].m_data \in Nat
  BY <1>3, FrameOf
<1> QED
  BY <1>1, <1>2, <1>4, <1>5, <1>6, <1>8, <1>9, <1>10

(* Every byte lies in some block.                                          *)
LEMMA InSomeBlock ==
  ASSUME NEW l \in Seq(AnyBlocks), NEW j \in 1 .. SumOfSizes(l)
  PROVE  \E i \in 1 .. Len(l) : \E o \in 1 .. l[i].m_size : j = Ends(l)[i - 1] + o
<1>1. Len(l) \in Nat /\ Sized(l) /\ SumOfSizes(l) \in Nat
  BY ListFacts, LenProperties
<1>2. PICK k : k = Gone(l, j - 1)
  OBVIOUS
<1>3. /\ k \in 0 .. Len(l) /\ Ends(l)[k] <= j - 1
      /\ k < Len(l) => j - 1 < Ends(l)[k + 1]
  <2>1. j - 1 \in Nat
    OBVIOUS
  <2> QED
    BY <1>1, <1>2, <2>1, GoneIs
<1>4. k < Len(l)
  <2>1. k # Len(l)
    BY <1>1, <1>3 DEF SumOfSizes
  <2> QED
    BY <1>1, <1>3, <2>1
<1>5. PICK i \in 1 .. Len(l) : i = k + 1
  BY <1>1, <1>3, <1>4
<1>6. i - 1 = k
  BY <1>3, <1>5
<1>7. PICK e \in Nat : e = Ends(l)[i - 1]
  BY PlaceInList
<1>8. PICK size \in Nat : size = l[i].m_size /\ Ends(l)[i] = e + size
  BY <1>7, PlaceInList
<1>9. e <= j - 1 /\ j - 1 < e + size
  BY <1>3, <1>4, <1>5, <1>6, <1>7, <1>8
<1>10. j - e \in 1 .. size /\ j = e + (j - e)
  BY <1>1, <1>9
<1> QED
  BY <1>7, <1>8, <1>10

(* The bytes of a list are what its blocks hold,                           *)
LEMMA ContentHolds ==
  ASSUME NEW l \in Seq(AnyBlocks)
  PROVE  Holds(l, Content(l))
<1>1. Content(l) \in Seq(Bytes) /\ Len(Content(l)) = SumOfSizes(l)
  BY ContentTyped
<1>2. PICK u : u = CellsOf(l)
  OBVIOUS
<1>3. u \in Seq(CellsIn(l)) /\ Len(u) = SumOfSizes(l) /\ Covered(l, u, Len(l)) /\ DOMAIN u = 1 .. Len(u)
  BY <1>2, CellsAre, LenProperties
<1>4. Content(l) = [j \in 1 .. SumOfSizes(l) |-> l[u[j][1]].mem[u[j][2]]]
  BY <1>2, <1>3 DEF Content, BytesAt
<1>5. ASSUME NEW i \in 1 .. Len(l), NEW o \in 1 .. l[i].m_size
      PROVE  Content(l)[Ends(l)[i - 1] + o] = l[i].mem[l[i].m_data + o - 1]
  <2>1. PICK x \in 1 .. SumOfSizes(l) : x = Ends(l)[i - 1] + o
    BY PlaceInList
  <2>2. u[x] = <<i, l[i].m_data + o - 1>>
    BY <1>3, <2>1 DEF Covered
  <2>3. u[x][1] = i /\ u[x][2] = l[i].m_data + o - 1
    BY <2>2
  <2> QED
    BY <1>4, <2>1, <2>3
<1> QED
  BY <1>1, <1>5 DEF Holds

(* ... and nothing else.                                                   *)
LEMMA ContentIs ==
  ASSUME NEW l \in Seq(AnyBlocks), NEW s, Holds(l, s)
  PROVE  Content(l) = s
<1>1. PICK t : t = Content(l) /\ Holds(l, t)
  BY ContentHolds
<1>2. s \in Seq(Bytes) /\ t \in Seq(Bytes) /\ Len(s) = SumOfSizes(l) /\ Len(t) = SumOfSizes(l)
  BY <1>1 DEF Holds
<1>3. ASSUME NEW j \in 1 .. SumOfSizes(l) PROVE t[j] = s[j]
  <2>1. PICK i \in 1 .. Len(l) : \E o \in 1 .. l[i].m_size : j = Ends(l)[i - 1] + o
    BY InSomeBlock
  <2>2. PICK o \in 1 .. l[i].m_size : j = Ends(l)[i - 1] + o
    BY <2>1
  <2> QED
    BY <1>1, <2>2 DEF Holds
<1> QED
  BY <1>1, <1>2, <1>3, SeqEqual

(* The bytes of one list behind the other.                                 *)
LEMMA ContentConcat ==
  ASSUME NEW l \in Seq(AnyBlocks), NEW m \in Seq(AnyBlocks)
  PROVE  Content(l \o m) = Content(l) \o Content(m)
<1> DEFINE s == Content(l)
           t == Content(m)
           n == Len(l)
           k == SumOfSizes(l)
<1>1. Holds(l, s) /\ Holds(m, t)
  BY ContentHolds
<1> HIDE DEF s, t
<1>2. s \in Seq(Bytes) /\ t \in Seq(Bytes) /\ Len(s) = k /\ Len(t) = SumOfSizes(m)
  BY <1>1 DEF Holds
<1>3. /\ s \o t \in Seq(Bytes) /\ Len(s \o t) = Len(s) + Len(t)
      /\ \A j \in 1 .. Len(s) + Len(t) : (s \o t)[j] = IF j <= Len(s) THEN s[j] ELSE t[j - Len(s)]
  BY <1>2, ConcatProperties
<1>4. /\ l \o m \in Seq(AnyBlocks) /\ Len(l \o m) = n + Len(m)
      /\ \A i \in 0 .. n : Ends(l \o m)[i] = Ends(l)[i]
      /\ \A i \in 0 .. Len(m) : Ends(l \o m)[n + i] = k + Ends(m)[i]
      /\ SumOfSizes(l \o m) = k + SumOfSizes(m)
  BY ConcatLists
<1>5. \A i \in 1 .. n + Len(m) : (l \o m)[i] = IF i <= n THEN l[i] ELSE m[i - n]
  BY ConcatProperties
<1>6. n \in Nat /\ Len(m) \in Nat /\ k \in Nat /\ SumOfSizes(m) \in Nat
  BY ListFacts, LenProperties
<1>7. PICK r : r = s \o t
  OBVIOUS
<1>8. PICK w : w = l \o m
  OBVIOUS
<1>9. ASSUME NEW i \in 1 .. n, NEW o \in 1 .. w[i].m_size
      PROVE  r[Ends(w)[i - 1] + o] = w[i].mem[w[i].m_data + o - 1]
  <2>1. w[i] = l[i] /\ Ends(w)[i - 1] = Ends(l)[i - 1]
    <3>1. i \in 1 .. n + Len(m) /\ i <= n /\ i - 1 \in 0 .. n
      BY <1>6
    <3> QED
      BY <1>4, <1>5, <1>8, <3>1
  <2>2. PICK x \in 1 .. k : x = Ends(l)[i - 1] + o
    BY <2>1, PlaceInList DEF n, k
  <2>3. x \in 1 .. Len(s) + Len(t) /\ x <= Len(s)
    BY <1>2, <1>6
  <2>4. r[x] = s[x]
    BY <1>3, <1>7, <2>3
  <2>5. s[x] = l[i].mem[l[i].m_data + o - 1]
    BY <1>1, <2>1, <2>2 DEF Holds
  <2> QED
    BY <2>1, <2>2, <2>4, <2>5
<1>10. ASSUME NEW i \in 1 .. Len(m), NEW o \in 1 .. w[n + i].m_size
       PROVE  r[Ends(w)[n + i - 1] + o] = w[n + i].mem[w[n + i].m_data + o - 1]
  <2>1. w[n + i] = m[i] /\ Ends(w)[n + i - 1] = k + Ends(m)[i - 1]
    <3>1. n + i \in 1 .. n + Len(m) /\ ~ (n + i <= n) /\ i - 1 \in 0 .. Len(m)
          /\ n + i - 1 = n + (i - 1) /\ n + i - n = i
      BY <1>6
    <3>2. w[n + i] = m[n + i - n]
      BY <1>5, <1>8, <3>1
    <3>3. Ends(w)[n + (i - 1)] = k + Ends(m)[i - 1]
      BY <1>4, <1>8, <3>1
    <3> QED
      BY <3>1, <3>2, <3>3
  <2>2. PICK x \in 1 .. SumOfSizes(m) : x = Ends(m)[i - 1] + o
    BY <2>1, PlaceInList
  <2>3. k + x \in 1 .. Len(s) + Len(t) /\ ~ (k + x <= Len(s)) /\ k + x - Len(s) = x
    BY <1>2, <1>6
  <2>4. r[k + x] = t[x]
    <3>1. PICK y : y = k + x
      OBVIOUS
    <3>2. y \in 1 .. Len(s) + Len(t) /\ ~ (y <= Len(s)) /\ y - Len(s) = x
      <4>1. Len(s) = k /\ k \in Nat /\ Len(t) \in Nat /\ x \in 1 .. Len(t)
        BY <1>2, <1>6
      <4>2. PICK a \in Nat : a = Len(s)
        BY <4>1
      <4>3. y = a + x
        BY <3>1, <4>1, <4>2
      <4> QED
        BY <4>1, <4>2, <4>3
    <3>3. (s \o t)[y] = t[x]
      BY <1>3, <3>2
    <3> QED
      BY <1>7, <3>1, <3>3
  <2>5. t[x] = m[i].mem[m[i].m_data + o - 1]
    BY <1>1, <2>1, <2>2 DEF Holds
  <2>6. k + Ends(m)[i - 1] + o = k + x
    <3>1. Ends(m)[i - 1] \in Nat
      BY PlaceInList
    <3> QED
      BY <1>6, <2>2, <3>1
  <2> QED
    BY <2>1, <2>4, <2>5, <2>6
<1>11. \A i \in 1 .. Len(w) : i \in 1 .. n \/ \E j \in 1 .. Len(m) : i = n + j
  <2>1. ASSUME NEW i \in 1 .. n + Len(m), i \notin 1 .. n PROVE i - n \in 1 .. Len(m) /\ i = n + (i - n)
    BY <1>6, <2>1
  <2> QED
    BY <1>4, <1>8, <2>1
<1>12. \A i \in 1 .. Len(w) : \A o \in 1 .. w[i].m_size :
         r[Ends(w)[i - 1] + o] = w[i].mem[w[i].m_data + o - 1]
  <2> DEFINE At(i) == \A o \in 1 .. w[i].m_size : r[Ends(w)[i - 1] + o] = w[i].mem[w[i].m_data + o - 1]
  <2>1. \A i \in 1 .. n : At(i)
    BY <1>9
  <2>2. \A i \in 1 .. Len(m) : At(n + i)
    BY <1>10
  <2> HIDE DEF At
  <2>3. \A i \in 1 .. Len(w) : At(i)
    BY <1>11, <2>1, <2>2
  <2> QED
    BY <2>3 DEF At
<1>13. Holds(w, r)
  BY <1>2, <1>3, <1>4, <1>7, <1>8, <1>12 DEF Holds
<1> QED
  BY <1>4, <1>7, <1>8, <1>13, ContentIs DEF s, t

(* The bytes of one block.                                                 *)
BytesIn(b) == [o \in 1 .. b.m_size |-> b.mem[b.m_data + o - 1]]

(* A list of one block.                                                    *)
LEMMA ContentSingle ==
  ASSUME NEW b \in AnyBlocks
  PROVE  /\ Content(<<b>>) = BytesIn(b) /\ BytesIn(b) \in Seq(Bytes) /\ Len(BytesIn(b)) = b.m_size
<1>1. /\ b.m_data \in Nat /\ b.m_size \in Nat /\ b.m_data + b.m_size <= BlkSize /\ b.mem \in Payload
      /\ BlkSize \in Nat
  BY FrameOf
<1>2. \A o \in 1 .. b.m_size : b.mem[b.m_data + o - 1] \in Bytes
  <2> DEFINE data == b.m_data
             size == b.m_size
  <2> HIDE DEF data, size
  <2>1. data \in Nat /\ size \in Nat /\ data + size <= BlkSize
    BY <1>1 DEF data, size
  <2>2. \A o \in 1 .. size : data + o - 1 \in 0 .. BlkSize - 1
    BY <1>1, <2>1
  <2> QED
    BY <1>1, <2>2 DEF data, size, Payload
<1>3. BytesIn(b) \in [1 .. b.m_size -> Bytes]
  BY <1>2 DEF BytesIn
<1>4. BytesIn(b) \in Seq(Bytes) /\ Len(BytesIn(b)) = b.m_size
  BY <1>1, <1>3, FunctionIsSeq
<1>5. <<b>> \in Seq(AnyBlocks) /\ SumOfSizes(<<b>>) = b.m_size /\ Len(<<b>>) = 1 /\ <<b>>[1] = b
  BY SingleBlock
<1>6. Ends(<<b>>)[0] = 0
  BY <1>5, ListFacts, EndsAre
<1>7. \A i \in 1 .. Len(<<b>>) : i = 1
  BY <1>5
<1>8. \A o \in 1 .. b.m_size : BytesIn(b)[Ends(<<b>>)[1 - 1] + o] = b.mem[b.m_data + o - 1]
  <2>1. \A o \in 1 .. b.m_size : Ends(<<b>>)[1 - 1] + o = o
    BY <1>1, <1>6
  <2> QED
    BY <2>1 DEF BytesIn
<1>9. Holds(<<b>>, BytesIn(b))
  BY <1>4, <1>5, <1>7, <1>8 DEF Holds
<1> QED
  BY <1>4, <1>5, <1>9, ContentIs

(* Sequences that agree in their first n elements.                         *)
LEMMA SameFront ==
  ASSUME NEW S, NEW s, NEW t, NEW n \in Nat, \A i \in 1 .. n : s[i] \in S /\ t[i] = s[i]
  PROVE  SubSeq(s, 1, n) = SubSeq(t, 1, n)
<1>1. \A i \in 1 .. n : t[i] \in S
  OBVIOUS
<1>2. /\ SubSeq(s, 1, n) \in Seq(S) /\ Len(SubSeq(s, 1, n)) = n
      /\ SubSeq(t, 1, n) \in Seq(S) /\ Len(SubSeq(t, 1, n)) = n
  BY <1>1, SubSeqProperties
<1>3. \A i \in 1 .. n : SubSeq(s, 1, n)[i] = s[i] /\ SubSeq(t, 1, n)[i] = t[i]
  BY <1>1, SubSeqProperties
<1> QED
  BY <1>2, <1>3, SeqEqual

(* Bytes added at the end, ...                                             *)
LEMMA PrefixExtends ==
  ASSUME NEW s \in Seq(Bytes), NEW u \in Seq(Bytes)
  PROVE  Abstract!Extends(s, s \o u)
<1>1. /\ s \o u \in Seq(Bytes) /\ Len(s \o u) = Len(s) + Len(u)
      /\ \A i \in 1 .. Len(s) + Len(u) : (s \o u)[i] = IF i <= Len(s) THEN s[i] ELSE u[i - Len(s)]
  BY ConcatProperties
<1>2. Len(s) \in Nat /\ Len(u) \in Nat
  BY LenProperties
<1>3. \A i \in 1 .. Len(s) : s[i] \in Bytes /\ (s \o u)[i] = s[i]
  <2>1. \A i \in 1 .. Len(s) : i \in 1 .. Len(s) + Len(u) /\ i <= Len(s)
    BY <1>2
  <2> QED
    BY <1>1, <2>1, ElementOfSeq
<1>4. SubSeq(s, 1, Len(s)) = SubSeq(s \o u, 1, Len(s))
  BY <1>2, <1>3, SameFront
<1>5. Len(s) <= Len(s \o u)
  BY <1>1, <1>2
<1> QED
  BY <1>4, <1>5 DEF Abstract!Extends, Abstract!IsPrefix

(* ... and at the front.                                                   *)
LEMMA SuffixExtends ==
  ASSUME NEW s \in Seq(Bytes), NEW u \in Seq(Bytes)
  PROVE  Abstract!Extends(s, u \o s)
<1> DEFINE n == Len(s)
           k == Len(u)
           t == u \o s
           r == [i \in 1 .. n |-> s[(n - i) + 1]]
           v == [i \in 1 .. Len(t) |-> t[(Len(t) - i) + 1]]
<1>1. /\ t \in Seq(Bytes) /\ Len(t) = k + n
      /\ \A i \in 1 .. k + n : t[i] = IF i <= k THEN u[i] ELSE s[i - k]
  BY ConcatProperties
<1>2. n \in Nat /\ k \in Nat
  BY LenProperties
<1>3. ASSUME NEW i \in 1 .. n PROVE r[i] \in Bytes /\ v[i] = r[i]
  <2>1. (n - i) + 1 \in 1 .. n
    BY <1>2
  <2>2. r[i] = s[(n - i) + 1] /\ s[(n - i) + 1] \in Bytes
    BY <2>1, ElementOfSeq
  <2>3. i \in 1 .. Len(t) /\ Len(t) - i + 1 = k + (n - i + 1)
    BY <1>1, <1>2
  <2>4. PICK x : x = Len(t) - i + 1
    OBVIOUS
  <2>5. x \in 1 .. k + n /\ ~ (x <= k) /\ x - k = n - i + 1
    BY <1>2, <2>1, <2>3, <2>4
  <2>6. t[x] = s[n - i + 1]
    BY <1>1, <2>5
  <2>7. v[i] = t[x]
    BY <2>3, <2>4
  <2> QED
    BY <2>2, <2>6, <2>7
<1>4. Len(r) = n /\ Len(v) = Len(t)
  BY <1>1, <1>2
<1> HIDE DEF r, v, t, n
<1>5. SubSeq(r, 1, n) = SubSeq(v, 1, n)
  BY <1>2, <1>3, SameFront
<1>6. n <= Len(v)
  BY <1>1, <1>2, <1>4
<1>7. r = Abstract!Reverse(s) /\ v = Abstract!Reverse(t)
  BY DEF r, v, n, Abstract!Reverse
<1>8. Abstract!IsSuffix(s, t)
  BY <1>4, <1>5, <1>6, <1>7 DEF Abstract!IsSuffix, Abstract!IsPrefix
<1> QED
  BY <1>8 DEF Abstract!Extends, t

(* Bytes t end with the bytes s, or begin with them.                       *)
EndsWith(t, s) == \E u \in Seq(Bytes) : t = u \o s
BeginsWith(t, s) == \E u \in Seq(Bytes) : t = s \o u

(* More bytes before the ones of a block, ...                              *)
LEMMA FrontBytes ==
  ASSUME NEW b \in GoodBlocks, NEW c \in GoodBlocks, NEW n \in Nat,
         c.mem = b.mem, c.m_data = b.m_data - n, c.m_size = b.m_size + n
  PROVE  EndsWith(BytesIn(c), BytesIn(b))
<1>1. b \in AnyBlocks /\ c \in AnyBlocks
  BY DEF AnyBlocks
<1>2. PICK s \in Seq(Bytes) : s = BytesIn(b) /\ Len(s) = b.m_size
  BY <1>1, ContentSingle
<1>3. PICK t \in Seq(Bytes) : t = BytesIn(c) /\ Len(t) = c.m_size
  BY <1>1, ContentSingle
<1>4. PICK size \in Nat, data \in Nat : size = b.m_size /\ data = b.m_data
  BY <1>1, FrameOf
<1>5. c.m_size = size + n /\ c.m_data = data - n
  BY <1>4
<1>6. \A o \in 1 .. size : s[o] = b.mem[data + o - 1]
  BY <1>2, <1>4 DEF BytesIn
<1>7. \A o \in 1 .. size + n : t[o] = b.mem[data - n + o - 1]
  BY <1>3, <1>5 DEF BytesIn
<1> DEFINE u == [o \in 1 .. n |-> t[o]]
<1>8. u \in Seq(Bytes) /\ Len(u) = n
  <2>1. \A o \in 1 .. n : o \in 1 .. Len(t)
    BY <1>3, <1>4, <1>5
  <2>2. u \in [1 .. n -> Bytes]
    BY <2>1, ElementOfSeq
  <2> HIDE DEF u
  <2> QED
    BY <2>2, FunctionIsSeq
<1>9. \A o \in 1 .. n : u[o] = t[o]
  OBVIOUS
<1> HIDE DEF u
<1>10. /\ u \o s \in Seq(Bytes) /\ Len(u \o s) = n + size
       /\ \A o \in 1 .. n + size : (u \o s)[o] = IF o <= n THEN u[o] ELSE s[o - n]
  <2>1. Len(s) = size
    BY <1>2, <1>4
  <2>2. /\ u \o s \in Seq(Bytes) /\ Len(u \o s) = Len(u) + Len(s)
        /\ \A o \in 1 .. Len(u) + Len(s) : (u \o s)[o] = IF o <= Len(u) THEN u[o] ELSE s[o - Len(u)]
    BY <1>8, ConcatProperties
  <2> QED
    BY <1>8, <2>1, <2>2
<1>11. ASSUME NEW o \in 1 .. n + size PROVE t[o] = (u \o s)[o]
  <2>1. CASE o <= n
    <3>1. o \in 1 .. n
      BY <2>1
    <3> QED
      BY <1>9, <1>10, <3>1
  <2>2. CASE ~ (o <= n)
    <3>1. o - n \in 1 .. size /\ o \in 1 .. size + n /\ data + (o - n) - 1 = data - n + o - 1
      BY <1>4, <2>2, SMTT(30)
    <3>2. s[o - n] = b.mem[data + (o - n) - 1]
      BY <1>6, <3>1
    <3>3. t[o] = b.mem[data - n + o - 1]
      BY <1>7, <3>1
    <3> QED
      BY <1>10, <2>2, <3>1, <3>2, <3>3
  <2> QED
    BY <2>1, <2>2
<1>12. Len(t) = n + size
  BY <1>3, <1>4, <1>5
<1>13. t = u \o s
  BY <1>10, <1>11, <1>12, SeqEqual
<1> QED
  BY <1>2, <1>3, <1>8, <1>13 DEF EndsWith

(* ... and after them.                                                     *)
LEMMA BackBytes ==
  ASSUME NEW b \in GoodBlocks, NEW c \in GoodBlocks, NEW n \in Nat,
         c.mem = b.mem, c.m_data = b.m_data, c.m_size = b.m_size + n
  PROVE  BeginsWith(BytesIn(c), BytesIn(b))
<1>1. b \in AnyBlocks /\ c \in AnyBlocks
  BY DEF AnyBlocks
<1>2. PICK s \in Seq(Bytes) : s = BytesIn(b) /\ Len(s) = b.m_size
  BY <1>1, ContentSingle
<1>3. PICK t \in Seq(Bytes) : t = BytesIn(c) /\ Len(t) = c.m_size
  BY <1>1, ContentSingle
<1>4. PICK size \in Nat : size = b.m_size
  BY <1>1, FrameOf
<1>5. c.m_size = size + n
  BY <1>4
<1>6. \A o \in 1 .. size : s[o] = b.mem[b.m_data + o - 1]
  BY <1>2, <1>4 DEF BytesIn
<1>7. \A o \in 1 .. size + n : t[o] = b.mem[b.m_data + o - 1]
  BY <1>3, <1>5 DEF BytesIn
<1> DEFINE u == [o \in 1 .. n |-> t[size + o]]
<1>8. u \in Seq(Bytes) /\ Len(u) = n
  <2>1. \A o \in 1 .. n : size + o \in 1 .. Len(t)
    BY <1>3, <1>4, <1>5
  <2>2. u \in [1 .. n -> Bytes]
    BY <2>1, ElementOfSeq
  <2> HIDE DEF u
  <2> QED
    BY <2>2, FunctionIsSeq
<1>9. \A o \in 1 .. n : u[o] = t[size + o]
  OBVIOUS
<1> HIDE DEF u
<1>10. /\ s \o u \in Seq(Bytes) /\ Len(s \o u) = size + n
       /\ \A o \in 1 .. size + n : (s \o u)[o] = IF o <= size THEN s[o] ELSE u[o - size]
  <2>1. Len(s) = size
    BY <1>2, <1>4
  <2>2. /\ s \o u \in Seq(Bytes) /\ Len(s \o u) = Len(s) + Len(u)
        /\ \A o \in 1 .. Len(s) + Len(u) : (s \o u)[o] = IF o <= Len(s) THEN s[o] ELSE u[o - Len(s)]
    BY <1>8, ConcatProperties
  <2> QED
    BY <1>8, <2>1, <2>2
<1>11. ASSUME NEW o \in 1 .. size + n PROVE t[o] = (s \o u)[o]
  <2>1. CASE o <= size
    <3>1. o \in 1 .. size
      BY <1>4, <2>1
    <3> QED
      BY <1>6, <1>7, <1>10, <2>1, <3>1
  <2>2. CASE ~ (o <= size)
    <3>1. PICK k \in 1 .. n : k = o - size /\ o = size + k
      BY <1>4, <2>2
    <3>2. u[k] = t[o]
      BY <1>9, <3>1
    <3> QED
      BY <1>10, <2>2, <3>1, <3>2
  <2> QED
    BY <2>1, <2>2
<1>12. Len(t) = size + n
  BY <1>3, <1>5
<1>13. t = s \o u
  BY <1>10, <1>11, <1>12, SeqEqual
<1> QED
  BY <1>2, <1>3, <1>8, <1>13 DEF BeginsWith

(* The first block of a list, and the others.                              *)
LEMMA FirstAndRest ==
  ASSUME NEW l \in Seq(GoodBlocks), l # <<>>
  PROVE  /\ l[1] \in GoodBlocks /\ Tail(l) \in Seq(GoodBlocks)
         /\ \A b \in GoodBlocks : [l EXCEPT ![1] = b] = <<b>> \o Tail(l)
         /\ \A b \in GoodBlocks : Content(<<b>> \o Tail(l)) = BytesIn(b) \o Content(Tail(l))
         /\ Content(l) = BytesIn(l[1]) \o Content(Tail(l))
         /\ Content(Tail(l)) \in Seq(Bytes) /\ BytesIn(l[1]) \in Seq(Bytes)
<1>1. Len(l) \in Nat /\ Len(l) >= 1 /\ l[1] \in GoodBlocks
  BY FirstBlock
<1>2. PICK r : r = Tail(l)
  OBVIOUS
<1>3. r \in Seq(GoodBlocks) /\ Len(r) = Len(l) - 1 /\ \A i \in 1 .. Len(r) : r[i] = l[i + 1]
  BY <1>2, HeadTailProperties
<1>4. ASSUME NEW b \in GoodBlocks PROVE [l EXCEPT ![1] = b] = <<b>> \o r
  <2>1. PICK m : m = [l EXCEPT ![1] = b]
    OBVIOUS
  <2>2. 1 \in 1 .. Len(l)
    BY <1>1
  <2>3. /\ m \in Seq(GoodBlocks) /\ Len(m) = Len(l) /\ m[1] = b
        /\ \A i \in 1 .. Len(l) : i # 1 => m[i] = l[i]
    BY <2>1, <2>2, BlockReplaced
  <2>4. <<b>> \in Seq(GoodBlocks) /\ Len(<<b>>) = 1 /\ <<b>>[1] = b
    OBVIOUS
  <2>5. PICK w : w = <<b>> \o r
    OBVIOUS
  <2>6. /\ w \in Seq(GoodBlocks) /\ Len(w) = 1 + Len(r)
        /\ \A i \in 1 .. 1 + Len(r) : w[i] = IF i <= 1 THEN <<b>>[i] ELSE r[i - 1]
    BY <1>3, <2>4, <2>5, ConcatProperties
  <2>7. ASSUME NEW i \in 1 .. Len(l) PROVE m[i] = w[i]
    <3>1. CASE i = 1
      BY <1>1, <1>3, <2>3, <2>4, <2>6, <3>1
    <3>2. CASE i # 1
      <4>1. i \in 1 .. 1 + Len(r) /\ ~ (i <= 1) /\ i - 1 \in 1 .. Len(r) /\ i - 1 + 1 = i
        BY <1>1, <1>3, <3>2
      <4>2. r[i - 1] = l[i - 1 + 1]
        BY <1>3, <4>1
      <4> QED
        BY <2>3, <2>6, <3>2, <4>1, <4>2
    <3> QED
      BY <3>1, <3>2
  <2>8. Len(w) = Len(l)
    BY <1>1, <1>3, <2>6
  <2>9. m = w
    BY <2>3, <2>6, <2>7, <2>8, SeqEqual
  <2> QED
    BY <2>1, <2>5, <2>9
<1>5. r \in Seq(AnyBlocks) /\ Content(r) \in Seq(Bytes)
  BY <1>3, GoodIsAny, ContentTyped
<1>6. ASSUME NEW b \in GoodBlocks
      PROVE  Content(<<b>> \o r) = BytesIn(b) \o Content(r) /\ BytesIn(b) \in Seq(Bytes)
  <2>1. b \in AnyBlocks
    BY DEF AnyBlocks
  <2>2. <<b>> \in Seq(AnyBlocks)
    BY <2>1
  <2> QED
    BY <1>5, <2>1, <2>2, ContentSingle, ContentConcat
<1>7. [l EXCEPT ![1] = l[1]] = l
  OBVIOUS
<1>8. l = <<l[1]>> \o r
  BY <1>1, <1>4, <1>7
<1>9. Content(l) = BytesIn(l[1]) \o Content(r) /\ BytesIn(l[1]) \in Seq(Bytes)
  <2>1. PICK b \in GoodBlocks : b = l[1]
    BY <1>1
  <2> QED
    BY <1>6, <1>8, <2>1
<1> QED
  BY <1>1, <1>2, <1>3, <1>4, <1>5, <1>6, <1>9

(* The last block of a list, and the others.                               *)
LEMMA LastAndRest ==
  ASSUME NEW l \in Seq(GoodBlocks), l # <<>>
  PROVE  LET r == SubSeq(l, 1, Len(l) - 1) IN
         /\ l[Len(l)] \in GoodBlocks /\ r \in Seq(GoodBlocks)
         /\ \A b \in GoodBlocks : Content([l EXCEPT ![Len(l)] = b]) = Content(r) \o BytesIn(b)
         /\ Content(l) = Content(r) \o BytesIn(l[Len(l)])
         /\ Content(r) \in Seq(Bytes) /\ BytesIn(l[Len(l)]) \in Seq(Bytes)
<1>1. Len(l) \in Nat /\ Len(l) >= 1
  BY FirstBlock
<1>2. Len(l) - 1 \in 0 .. Len(l) /\ Len(l) \in 1 .. Len(l) /\ Len(l) - 1 \in Nat
  BY <1>1
<1>3. PICK n \in 1 .. Len(l) : n = Len(l)
  BY <1>2
<1>4. PICK r : r = SubSeq(l, 1, Len(l) - 1)
  OBVIOUS
<1>5. r \in Seq(GoodBlocks) /\ Len(r) = n - 1 /\ \A i \in 1 .. n - 1 : r[i] = l[i]
  BY <1>2, <1>3, <1>4, ListSplits
<1>6. l[n] \in GoodBlocks
  BY ElementOfSeq
<1>7. r \in Seq(AnyBlocks) /\ Content(r) \in Seq(Bytes)
  BY <1>5, GoodIsAny, ContentTyped
<1>8. ASSUME NEW b \in GoodBlocks
      PROVE  Content([l EXCEPT ![n] = b]) = Content(r) \o BytesIn(b) /\ BytesIn(b) \in Seq(Bytes)
  <2>1. PICK m : m = [l EXCEPT ![n] = b]
    OBVIOUS
  <2>2. /\ m \in Seq(GoodBlocks) /\ Len(m) = Len(l) /\ m[n] = b
        /\ \A i \in 1 .. Len(l) : i # n => m[i] = l[i]
    BY <2>1, BlockReplaced
  <2>3. <<b>> \in Seq(GoodBlocks) /\ Len(<<b>>) = 1 /\ <<b>>[1] = b
    OBVIOUS
  <2>4. PICK w : w = r \o <<b>>
    OBVIOUS
  <2>5. /\ w \in Seq(GoodBlocks) /\ Len(w) = n - 1 + 1
        /\ \A i \in 1 .. n - 1 + 1 : w[i] = IF i <= n - 1 THEN r[i] ELSE <<b>>[i - (n - 1)]
    BY <1>5, <2>3, <2>4, ConcatProperties
  <2>6. ASSUME NEW i \in 1 .. Len(l) PROVE m[i] = w[i]
    <3>1. CASE i = n
      <4>1. i \in 1 .. n - 1 + 1 /\ ~ (i <= n - 1) /\ i - (n - 1) = 1
        BY <1>1, <1>3, <3>1
      <4> QED
        BY <2>2, <2>3, <2>5, <3>1, <4>1
    <3>2. CASE i # n
      <4>1. i \in 1 .. n - 1 + 1 /\ i <= n - 1 /\ i \in 1 .. n - 1
        BY <1>1, <1>3, <3>2
      <4> QED
        BY <1>5, <2>2, <2>5, <3>2, <4>1
    <3> QED
      BY <3>1, <3>2
  <2>7. Len(w) = Len(l)
    BY <1>1, <1>3, <2>5
  <2>8. m = w
    BY <2>2, <2>5, <2>6, <2>7, SeqEqual
  <2>9. b \in AnyBlocks
    BY DEF AnyBlocks
  <2>10. <<b>> \in Seq(AnyBlocks)
    BY <2>9
  <2>11. Content(w) = Content(r) \o BytesIn(b) /\ BytesIn(b) \in Seq(Bytes)
    BY <1>7, <2>4, <2>9, <2>10, ContentSingle, ContentConcat
  <2> QED
    BY <2>1, <2>8, <2>11
<1>9. [l EXCEPT ![n] = l[n]] = l
  OBVIOUS
<1>10. Content(l) = Content(r) \o BytesIn(l[n]) /\ BytesIn(l[n]) \in Seq(Bytes)
  <2>1. PICK b \in GoodBlocks : b = l[n]
    BY <1>6
  <2> QED
    BY <1>8, <1>9, <2>1
<1> QED
  BY <1>3, <1>4, <1>5, <1>6, <1>7, <1>8, <1>10

(* Ends and beginnings within longer sequences.                            *)
LEMMA EndsWithin ==
  ASSUME NEW s \in Seq(Bytes), NEW t \in Seq(Bytes), NEW u \in Seq(Bytes)
  PROVE  /\ EndsWith(t, s) => EndsWith(t \o u, s \o u) /\ EndsWith(u \o t, s)
         /\ BeginsWith(t, s) => BeginsWith(u \o t, u \o s) /\ BeginsWith(t \o u, s)
         /\ EndsWith(t, t) /\ BeginsWith(t, t) /\ EndsWith(u \o t, t) /\ BeginsWith(t \o u, t)
<1>1. ASSUME NEW v \in Seq(Bytes), t = v \o s
      PROVE  t \o u = v \o (s \o u) /\ u \o t = (u \o v) \o s /\ u \o v \in Seq(Bytes)
  <2>1. (v \o s) \o u = v \o (s \o u)
    BY ConcatAssociative
  <2>2. (u \o v) \o s = u \o (v \o s)
    BY ConcatAssociative, SMTT(30)
  <2>3. u \o v \in Seq(Bytes)
    BY ConcatProperties
  <2> QED
    BY <1>1, <2>1, <2>2, <2>3
<1>2. ASSUME NEW v \in Seq(Bytes), t = s \o v
      PROVE  u \o t = (u \o s) \o v /\ t \o u = s \o (v \o u) /\ v \o u \in Seq(Bytes)
  <2>1. (u \o s) \o v = u \o (s \o v)
    BY ConcatAssociative
  <2>2. (s \o v) \o u = s \o (v \o u)
    BY ConcatAssociative
  <2>3. v \o u \in Seq(Bytes)
    BY ConcatProperties
  <2> QED
    BY <1>2, <2>1, <2>2, <2>3
<1>3. t = <<>> \o t /\ t = t \o <<>> /\ <<>> \in Seq(Bytes)
  BY ConcatEmptySeq
<1> QED
  BY <1>1, <1>2, <1>3 DEF EndsWith, BeginsWith

(* GrowFront gives the first block bytes at its front, or takes some.      *)
LEMMA FrontMoves ==
  ASSUME NEW l \in Seq(GoodBlocks), l # <<>>, NEW n \in Int,
         l[1].m_data - n \in 0 .. BlkSize - 1, l[1].m_size + n >= 1
  PROVE  /\ n \in Nat => EndsWith(Content(GrowFront(l, n)), Content(l))
         /\ - n \in Nat => EndsWith(Content(l), Content(GrowFront(l, n)))
<1>1. PICK b \in GoodBlocks : b = l[1]
  BY FirstBlock
<1>2. PICK data : data = b.m_data - n
  OBVIOUS
<1>3. PICK size : size = b.m_size + n
  OBVIOUS
<1>4. PICK c : c = Framed(b, data, size)
  OBVIOUS
<1>5. /\ b.m_data \in 0 .. BlkSize - 1 /\ b.m_size \in 1 .. BlkSize /\ b.m_data + b.m_size <= BlkSize
      /\ BlkSize \in Nat
  BY BlockFields, PktBufAssumption
<1>6. data \in 0 .. BlkSize - 1 /\ size >= 1
  BY <1>1, <1>2, <1>3
<1>7. size \in 1 .. BlkSize /\ data + size <= BlkSize
  <2>1. PICK x \in Nat, y \in Nat : x = b.m_data /\ y = b.m_size
    BY <1>5
  <2>2. x + y <= BlkSize /\ data = x - n /\ size = y + n /\ data \in Nat /\ size >= 1 /\ BlkSize \in Nat
    BY <1>2, <1>3, <1>5, <1>6, <2>1
  <2>3. data + size = x + y /\ size \in Int
    BY <2>2
  <2> QED
    BY <2>2, <2>3
<1>8. c \in GoodBlocks /\ c.m_data = data /\ c.m_size = size /\ c.mem = b.mem
  BY <1>4, <1>6, <1>7, BlockFramed
<1>9. GrowFront(l, n) = [l EXCEPT ![1] = c]
  BY <1>1, <1>2, <1>3, <1>4 DEF GrowFront, Framed
<1>10. PICK r : r = Content(Tail(l))
  OBVIOUS
<1>11. /\ Content(l) = BytesIn(b) \o r /\ Content(GrowFront(l, n)) = BytesIn(c) \o r
       /\ r \in Seq(Bytes) /\ BytesIn(b) \in Seq(Bytes)
  <2>1. Content(l) = BytesIn(b) \o r /\ r \in Seq(Bytes) /\ BytesIn(b) \in Seq(Bytes)
    BY <1>1, <1>10, FirstAndRest
  <2>2. GrowFront(l, n) = <<c>> \o Tail(l)
    BY <1>8, <1>9, FirstAndRest
  <2>3. Content(<<c>> \o Tail(l)) = BytesIn(c) \o r
    BY <1>8, <1>10, FirstAndRest
  <2> QED
    BY <2>1, <2>2, <2>3
<1>12. BytesIn(c) \in Seq(Bytes)
  <2>1. c \in AnyBlocks
    BY <1>8 DEF AnyBlocks
  <2> QED
    BY <2>1, ContentSingle
<1>13. n \in Nat => EndsWith(BytesIn(c), BytesIn(b))
  BY <1>2, <1>3, <1>8, FrontBytes
<1>14. ASSUME - n \in Nat PROVE EndsWith(BytesIn(b), BytesIn(c))
  <2>1. PICK k \in Nat : k = - n
    BY <1>14
  <2>2. b.m_data = c.m_data - k /\ b.m_size = c.m_size + k
    <3>1. PICK x \in Nat, y \in Nat : x = b.m_data /\ y = b.m_size
      BY <1>5
    <3> QED
      BY <1>2, <1>3, <1>8, <2>1, <3>1, SMTT(30)
  <2> QED
    BY <1>8, <2>2, FrontBytes
<1> QED
  BY <1>11, <1>12, <1>13, <1>14, EndsWithin

(* GrowBack gives the last block bytes at its end, or takes some.          *)
LEMMA BackMoves ==
  ASSUME NEW l \in Seq(GoodBlocks), l # <<>>, NEW n \in Int,
         LET b == l[Len(l)] IN b.m_size + n >= 1 /\ b.m_data + b.m_size + n <= BlkSize
  PROVE  /\ n \in Nat => BeginsWith(Content(GrowBack(l, n)), Content(l))
         /\ - n \in Nat => BeginsWith(Content(l), Content(GrowBack(l, n)))
<1>1. PICK b \in GoodBlocks : b = l[Len(l)]
  BY LastAndRest
<1>2. PICK size : size = b.m_size + n
  OBVIOUS
<1>3. PICK c : c = [b EXCEPT !.m_size = size]
  OBVIOUS
<1>4. /\ b.m_data \in Nat /\ b.m_size \in Nat /\ BlkSize \in Nat
  BY BlockFields, PktBufAssumption
<1>5. size \in 1 .. BlkSize /\ b.m_data + size <= BlkSize
  <2>1. PICK x \in Nat, y \in Nat : x = b.m_data /\ y = b.m_size
    BY <1>4
  <2>2. y + n >= 1 /\ x + y + n <= BlkSize
    BY <1>1, <2>1
  <2>3. size = y + n /\ size \in Int /\ size >= 1 /\ x + size <= BlkSize
    BY <1>2, <2>1, <2>2
  <2>4. size <= BlkSize
    BY <1>4, <2>3
  <2> QED
    BY <1>4, <2>1, <2>3, <2>4
<1>6. c \in GoodBlocks /\ c.m_data = b.m_data /\ c.m_size = size /\ c.mem = b.mem
  BY <1>3, <1>5, BlockResized
<1>7. GrowBack(l, n) = [l EXCEPT ![Len(l)] = c]
  BY <1>1, <1>2, <1>3 DEF GrowBack
<1>8. PICK r : r = Content(SubSeq(l, 1, Len(l) - 1))
  OBVIOUS
<1>9. /\ Content(l) = r \o BytesIn(b) /\ Content(GrowBack(l, n)) = r \o BytesIn(c)
      /\ r \in Seq(Bytes) /\ BytesIn(b) \in Seq(Bytes)
  BY <1>1, <1>6, <1>7, <1>8, LastAndRest
<1>10. BytesIn(c) \in Seq(Bytes)
  <2>1. c \in AnyBlocks
    BY <1>6 DEF AnyBlocks
  <2> QED
    BY <2>1, ContentSingle
<1>11. n \in Nat => BeginsWith(BytesIn(c), BytesIn(b))
  BY <1>2, <1>6, BackBytes
<1>12. ASSUME - n \in Nat PROVE BeginsWith(BytesIn(b), BytesIn(c))
  <2>1. PICK k \in Nat : k = - n
    BY <1>12
  <2>2. b.m_size = c.m_size + k
    BY <1>2, <1>4, <1>6, <2>1
  <2> QED
    BY <1>6, <2>2, BackBytes
<1> QED
  BY <1>9, <1>10, <1>11, <1>12, EndsWithin

(* CutFront takes bytes off the front.                                     *)
LEMMA CutFrontKeepsEnd ==
  ASSUME NEW l \in Seq(GoodBlocks), NEW n \in Nat, n <= SumOfSizes(l), Distinct(l)
  PROVE  /\ CutFront(l, n) \in Seq(GoodBlocks) /\ Content(CutFront(l, n)) \in Seq(Bytes)
         /\ EndsWith(Content(l), Content(CutFront(l, n)))
         /\ Len(Content(CutFront(l, n))) = Len(Content(l)) - n
<1> DEFINE k == Gone(l, n)
           front == SubSeq(l, 1, k)
           rest == SubSeq(l, k + 1, Len(l))
           e == Ends(l)[k]
           d == n - e
<1>1. Sized(l) /\ Len(l) \in Nat /\ SumOfSizes(l) = Ends(l)[Len(l)] /\ SumOfSizes(l) \in Nat
  BY GoodIsAny, ListFacts DEF Sized, SumOfSizes
<1>2. k \in 0 .. Len(l) /\ e <= n /\ (k < Len(l) => n < Ends(l)[k + 1]) /\ e \in Nat
  BY <1>1, GoneIs, EndsAre
<1>3. CutFront(l, n) = IF d = 0 THEN rest ELSE GrowFront(rest, - d)
  BY DEF CutFront
<1>4. CutFront(l, n) \in Seq(GoodBlocks) /\ SumOfSizes(CutFront(l, n)) = SumOfSizes(l) - n
  BY FrontIsCut
<1>5. Len(Content(CutFront(l, n))) = Len(Content(l)) - n /\ Content(CutFront(l, n)) \in Seq(Bytes)
  <2> HIDE DEF k
  <2> QED
    BY <1>4, GoodIsAny, ContentTyped
<1> HIDE DEF k
<1>6. /\ front \in Seq(GoodBlocks) /\ rest \in Seq(GoodBlocks) /\ l = front \o rest
      /\ Len(rest) = Len(l) - k /\ \A i \in 1 .. Len(l) - k : rest[i] = l[k + i]
  BY <1>2, ListSplits
<1> HIDE DEF front, rest
<1>7. Content(front) \in Seq(Bytes) /\ Content(rest) \in Seq(Bytes) /\ Content(l) = Content(front) \o Content(rest)
  BY <1>6, GoodIsAny, ContentTyped, ContentConcat
<1>8. d \in Nat
  BY <1>2
<1>9. CASE d = 0
  BY <1>3, <1>4, <1>5, <1>7, <1>9, EndsWithin
<1>10. CASE d # 0
  <2>1. k < Len(l)
    <3>1. k = Len(l) => d = 0
      BY <1>1, <1>2
    <3> QED
      BY <1>1, <1>2, <1>10, <3>1
  <2>2. k + 1 \in 1 .. Len(l) /\ 1 \in 1 .. Len(l) - k /\ k + 1 - 1 = k
    BY <1>1, <1>2, <2>1
  <2>3. rest[1] = l[k + 1] /\ rest[1] \in GoodBlocks /\ rest # <<>>
    BY <1>6, <2>2, ElementOfSeq
  <2>4. d < rest[1].m_size
    <3>1. Ends(l)[k + 1] = Ends(l)[k] + l[k + 1].m_size
      BY <1>1, <2>2, EndsAre
    <3>2. rest[1].m_size \in Nat /\ l[k + 1].m_size = rest[1].m_size
      BY <2>3, BlockFields, PktBufAssumption
    <3> QED
      BY <1>2, <2>1, <3>1, <3>2
  <2> HIDE DEF d
  <2>5. - d \in Int /\ rest[1].m_data - (- d) \in 0 .. BlkSize - 1 /\ rest[1].m_size + (- d) >= 1
    <3>1. PICK b \in GoodBlocks : b = rest[1]
      BY <2>3
    <3>2. /\ b.m_data \in 0 .. BlkSize - 1 /\ b.m_size \in 1 .. BlkSize /\ b.m_data + b.m_size <= BlkSize
          /\ BlkSize \in Nat /\ d < b.m_size
      BY <2>4, <3>1, BlockFields, PktBufAssumption
    <3>3. - d \in Int /\ b.m_data - (- d) \in 0 .. BlkSize - 1 /\ b.m_size + (- d) >= 1
      BY <1>8, <3>2, SMTT(30)
    <3> QED
      BY <3>1, <3>3
  <2>6. - (- d) \in Nat
    BY <1>8
  <2>7. EndsWith(Content(rest), Content(GrowFront(rest, - d)))
    BY <1>6, <2>3, <2>5, <2>6, FrontMoves
  <2>8. CutFront(l, n) = GrowFront(rest, - d)
    BY <1>3, <1>10
  <2> QED
    BY <1>4, <1>5, <1>7, <2>7, <2>8, EndsWithin
<1> QED
  BY <1>9, <1>10

(* resize to a smaller size takes bytes off the end.                       *)
LEMMA EndCutKeepsFront ==
  ASSUME NEW l \in Seq(GoodBlocks), NEW n \in Nat, 0 < n, n <= SumOfSizes(l), Distinct(l),
         NEW k, k = Ending(l, n), NEW m, m = GrowBack(SubSeq(l, 1, k), n - Ends(l)[k])
  PROVE  m \in Seq(GoodBlocks) /\ Content(m) \in Seq(Bytes) /\ BeginsWith(Content(l), Content(m))
<1>1. k \in 1 .. Len(l) /\ m \in Seq(GoodBlocks) /\ SumOfSizes(m) = n
  BY EndIsCut
<1>2. Content(m) \in Seq(Bytes)
  BY <1>1, GoodIsAny, ContentTyped
<1>3. Sized(l) /\ Len(l) \in Nat /\ DOMAIN l = 1 .. Len(l)
  BY GoodIsAny, ListFacts DEF Sized
<1>4. k \in 0 .. Len(l) /\ k \in 1 .. k /\ k - 1 \in 0 .. Len(l)
  BY <1>1, <1>3
<1>5. PICK front : front = SubSeq(l, 1, k)
  OBVIOUS
<1>6. PICK rest : rest = SubSeq(l, k + 1, Len(l))
  OBVIOUS
<1>7. /\ front \in Seq(GoodBlocks) /\ rest \in Seq(GoodBlocks) /\ l = front \o rest
      /\ Len(front) = k /\ front[k] = l[k] /\ front # <<>>
  <2>1. /\ front \in Seq(GoodBlocks) /\ rest \in Seq(GoodBlocks) /\ l = front \o rest
        /\ Len(front) = k /\ front[k] = l[k]
    BY <1>4, <1>5, <1>6, ListSplits
  <2>2. front # <<>>
    BY <1>4, <2>1
  <2> QED
    BY <2>1, <2>2
<1>8. SumOfSizes(front) = Ends(l)[k]
  BY <1>4, <1>5, PartsOfList DEF Parts
<1>9. Content(front) \in Seq(Bytes) /\ Content(rest) \in Seq(Bytes) /\ Content(l) = Content(front) \o Content(rest)
  BY <1>7, GoodIsAny, ContentTyped, ContentConcat
<1>10. PICK e \in Nat : e = Ends(l)[k]
  BY <1>3, <1>4, EndsAre
<1>11. Ends(l)[k - 1] < n /\ n <= e /\ Ends(l)[k] = Ends(l)[k - 1] + l[k].m_size /\ Ends(l)[k - 1] \in Nat
  <2>1. \E i \in DOMAIN l : Ends(l)[i - 1] < n /\ n <= Ends(l)[i]
    <3>1. PICK i \in 1 .. Len(l) : \E o \in 1 .. l[i].m_size : n = Ends(l)[i - 1] + o
      <4>1. n \in 1 .. SumOfSizes(l)
        BY GoodIsAny, ListFacts
      <4> QED
        BY <4>1, GoodIsAny, InSomeBlock
    <3>2. PICK o \in 1 .. l[i].m_size : n = Ends(l)[i - 1] + o
      BY <3>1
    <3>3. PICK x \in Nat, y \in Nat : x = Ends(l)[i - 1] /\ y = l[i].m_size /\ Ends(l)[i] = x + y
      BY GoodIsAny, PlaceInList
    <3>4. x < n /\ n <= x + y
      BY <3>2, <3>3
    <3> QED
      BY <1>3, <3>3, <3>4
  <2>2. Ends(l)[k - 1] < n /\ n <= Ends(l)[k]
    BY <2>1 DEF Ending
  <2> QED
    BY <1>1, <1>3, <1>4, <1>10, <2>2, EndsAre
<1>12. PICK d : d = n - Ends(l)[k]
  OBVIOUS
<1>13. PICK b \in GoodBlocks : b = l[k]
  BY <1>1, ElementOfSeq
<1>14. d \in Int /\ - d \in Nat /\ b.m_size + d >= 1 /\ b.m_data + b.m_size + d <= BlkSize
  <2>1. PICK data \in Nat, size \in Nat : data = b.m_data /\ size = b.m_size /\ data + size <= BlkSize
    BY BlockFields, PktBufAssumption
  <2>2. PICK x \in Nat : x = Ends(l)[k - 1]
    BY <1>11
  <2>3. x < n /\ n <= e /\ e = x + size /\ d = n - e
    BY <1>10, <1>11, <1>12, <1>13, <2>1, <2>2
  <2>4. d \in Int /\ - d \in Nat /\ size + d >= 1 /\ data + size + d <= BlkSize
    <3>1. BlkSize \in Nat
      BY PktBufAssumption
    <3>2. d \in Int /\ d <= 0 /\ size + d = n - x
      BY <1>10, <2>3
    <3>3. - d \in Nat
      BY <3>2
    <3>4. size + d >= 1
      BY <2>2, <2>3, <3>2
    <3>5. data + size + d <= BlkSize
      BY <2>1, <3>1, <3>2, SMTT(30)
    <3> QED
      BY <3>2, <3>3, <3>4, <3>5
  <2> QED
    BY <2>1, <2>4
<1>15. BeginsWith(Content(front), Content(GrowBack(front, d)))
  BY <1>7, <1>13, <1>14, BackMoves
<1>16. m = GrowBack(front, d)
  BY <1>5, <1>12
<1> QED
  BY <1>1, <1>2, <1>9, <1>15, <1>16, EndsWithin

(* Three sequences of bytes, one after the other.                          *)
Regrouped(s, t, u) == (s \o t) \o u = s \o (t \o u)

LEMMA Regroup ==
  \A s, t, u \in Seq(Bytes) : Regrouped(s, t, u)
BY ConcatAssociative DEF Regrouped

(* set_cont_header moves bytes from block to block: the bytes stay.        *)
LEMMA MovedTogether ==
  ASSUME NEW l \in Seq(GoodBlocks), l # <<>>, Distinct(Tail(l)),
         NEW n \in 1 .. BlkSize, l[1].m_size < n, n <= SumOfSizes(l)
  PROVE  /\ Content(<<ContBlock(l, n)>> \o CutFront(Tail(l), n - l[1].m_size)) = Content(l)
<1>1. PICK h \in GoodBlocks : h = ContBlock(l, n)
  BY ContBlockIs
<1>2. h.m_data = 0 /\ h.m_size = n /\ \A o \in 0 .. n - 1 : h.mem[o] = Content(l)[o + 1]
  BY <1>1, ContBlockIs
<1>3. PICK b \in GoodBlocks : b = l[1]
  BY FirstBlock
<1>4. PICK size \in Nat : size = b.m_size
  BY BlockFields, PktBufAssumption
<1>5. PICK r \in Seq(GoodBlocks) : r = Tail(l)
  BY FirstAndRest
<1>6. PICK t \in Seq(Bytes) : t = Content(r) /\ Len(t) = SumOfSizes(r)
  BY GoodIsAny, ContentTyped
<1>7. PICK s \in Seq(Bytes) : s = Content(l) /\ Len(s) = SumOfSizes(l)
  BY GoodIsAny, ContentTyped
<1>8. PICK v \in Seq(Bytes) : v = BytesIn(b) /\ Len(v) = size
  <2>1. b \in AnyBlocks
    BY DEF AnyBlocks
  <2> QED
    BY <1>4, <2>1, ContentSingle
<1>9. s = v \o t
  BY <1>3, <1>5, <1>6, <1>7, <1>8, FirstAndRest
<1>10. Len(s) = size + Len(t) /\ Len(t) \in Nat /\ Len(s) \in Nat
  BY <1>8, <1>9, ConcatProperties, LenProperties
<1>11. PICK more \in Nat : more = n - size /\ n = size + more
  <2>1. size < n
    BY <1>3, <1>4
  <2>2. n - size \in Nat /\ n = size + (n - size)
    BY <2>1
  <2> QED
    BY <2>2
<1>12. more <= SumOfSizes(r)
  BY <1>6, <1>7, <1>10, <1>11
<1>13. PICK c : c = CutFront(r, more)
  OBVIOUS
<1>14. /\ c \in Seq(GoodBlocks) /\ Content(c) \in Seq(Bytes) /\ EndsWith(t, Content(c))
       /\ Len(Content(c)) = Len(t) - more
  BY <1>5, <1>6, <1>12, <1>13, CutFrontKeepsEnd
<1>15. PICK u \in Seq(Bytes) : t = u \o Content(c)
  BY <1>14 DEF EndsWith
<1>16. Len(u) = more
  <2>1. Len(t) = Len(u) + Len(Content(c)) /\ Len(u) \in Nat /\ Len(Content(c)) \in Nat
    BY <1>14, <1>15, ConcatProperties, LenProperties
  <2> QED
    BY <1>10, <1>14, <2>1
<1>17. PICK w \in Seq(Bytes) : w = v \o u
  BY ConcatProperties
<1>18. Len(w) = n
  BY <1>8, <1>11, <1>16, <1>17, ConcatProperties
<1>19. s = w \o Content(c)
  <2>1. PICK y \in Seq(Bytes) : y = Content(c)
    BY <1>14
  <2>2. Regrouped(v, u, y)
    BY Regroup, Zenon
  <2>3. (v \o u) \o y = v \o (u \o y)
    BY <2>2 DEF Regrouped
  <2> QED
    BY <1>9, <1>15, <1>17, <2>1, <2>3
<1>20. \A o \in 1 .. n : s[o] = w[o]
  <2>1. \A o \in 1 .. Len(w) + Len(Content(c)) :
          (w \o Content(c))[o] = IF o <= Len(w) THEN w[o] ELSE Content(c)[o - Len(w)]
    BY <1>14, ConcatProperties
  <2>2. Len(Content(c)) \in Nat
    BY <1>14, LenProperties
  <2>3. \A o \in 1 .. n : o \in 1 .. Len(w) + Len(Content(c)) /\ o <= Len(w)
    BY <1>18, <2>2
  <2> QED
    BY <1>19, <2>1, <2>3
<1>21. h \in AnyBlocks
  BY DEF AnyBlocks
<1>22. PICK x \in Seq(Bytes) : x = BytesIn(h) /\ Len(x) = n
  BY <1>2, <1>21, ContentSingle
<1>23. \A o \in 1 .. n : x[o] = w[o]
  <2>1. \A o \in 1 .. n : x[o] = h.mem[0 + o - 1]
    BY <1>2, <1>22 DEF BytesIn
  <2>2. \A o \in 1 .. n : 0 + o - 1 \in 0 .. n - 1 /\ (0 + o - 1) + 1 = o
    OBVIOUS
  <2>3. \A o \in 1 .. n : h.mem[0 + o - 1] = s[o]
    BY <1>2, <1>7, <2>2, ZenonT(30)
  <2> QED
    BY <1>20, <2>1, <2>3
<1>24. x = w
  BY <1>18, <1>22, <1>23, SeqEqual
<1>25. <<h>> \in Seq(AnyBlocks) /\ c \in Seq(AnyBlocks)
  BY <1>14, <1>21, GoodIsAny
<1>26. Content(<<h>> \o c) = w \o Content(c)
  <2>1. Content(<<h>> \o c) = Content(<<h>>) \o Content(c)
    BY <1>25, ContentConcat
  <2>2. Content(<<h>>) = w
    BY <1>21, <1>22, <1>24, ContentSingle
  <2> QED
    BY <2>1, <2>2
<1> QED
  BY <1>1, <1>3, <1>4, <1>5, <1>7, <1>11, <1>13, <1>19, <1>26

(* List m is l with s copied into the cells, so far as byte x of block i   *)
(* is concerned.                                                           *)
Leaves(m, l, cells, s, i, x) ==
  /\ \A j \in 1 .. Len(cells) :
       cells[j] = <<i, x>> /\ (\A k \in 1 .. Len(cells) : cells[k] = <<i, x>> => k = j)
         => m[i].mem[x] = s[j]
  /\ (\A j \in 1 .. Len(cells) : cells[j] # <<i, x>>) => m[i].mem[x] = l[i].mem[x]

(* What memcpy into cells leaves in a cell of a block.                     *)
LEMMA StoredAt ==
  ASSUME NEW l \in Seq(GoodBlocks), NEW cells \in Seq(CellsIn(l)), NEW s,
         NEW i \in 1 .. Len(l), NEW x \in 0 .. BlkSize - 1
  PROVE  Leaves(Stored(l, cells, s), l, cells, s, i, x)
<1>1. DOMAIN l = 1 .. Len(l) /\ Len(l) \in Nat /\ DOMAIN cells = 1 .. Len(cells)
  BY LenProperties
<1> DEFINE at(o) == IF \E j \in DOMAIN cells : cells[j] = <<i, o>>
                    THEN s[CHOOSE j \in DOMAIN cells : cells[j] = <<i, o>>] ELSE l[i].mem[o]
           mem == [o \in DOMAIN l[i].mem |-> at(o)]
           m == Stored(l, cells, s)
<1>2. m[i] = [l[i] EXCEPT !.mem = mem]
  BY <1>1 DEF Stored
<1>3. PICK b \in GoodBlocks : b = l[i]
  BY ElementOfSeq
<1>4. DOMAIN b.mem = 0 .. BlkSize - 1
  BY BlockFields DEF Payload
<1>5. mem[x] = at(x)
  BY <1>3, <1>4
<1>6. m[i].mem = mem
  <2> HIDE DEF m, mem
  <2>1. [b EXCEPT !.mem = mem].mem = mem
    BY DEF GoodBlocks
  <2> QED
    BY <1>2, <1>3, <2>1
<1>7. m[i].mem[x] = at(x)
  <2> HIDE DEF m, mem, at
  <2> QED
    BY <1>5, <1>6
<1>8. ASSUME NEW j \in 1 .. Len(cells), cells[j] = <<i, x>>,
             \A k \in 1 .. Len(cells) : cells[k] = <<i, x>> => k = j
      PROVE  at(x) = s[j]
  <2>1. (CHOOSE k \in DOMAIN cells : cells[k] = <<i, x>>) = j
    BY <1>1, <1>8
  <2>2. \E k \in DOMAIN cells : cells[k] = <<i, x>>
    BY <1>1, <1>8
  <2> QED
    BY <2>1, <2>2
<1>9. ASSUME \A j \in 1 .. Len(cells) : cells[j] # <<i, x>>
      PROVE  at(x) = l[i].mem[x]
  BY <1>1, <1>9
<1> HIDE DEF m, at
<1> QED
  BY <1>7, <1>8, <1>9 DEF m, Leaves

(* A cell is that of one byte only.                                        *)
LEMMA OneCell ==
  ASSUME NEW l \in Seq(GoodBlocks), NEW i \in 1 .. Len(l), NEW o \in 1 .. l[i].m_size,
         NEW j \in 1 .. SumOfSizes(l), CellsOf(l)[j] = <<i, l[i].m_data + o - 1>>
  PROVE  j = Ends(l)[i - 1] + o
<1>1. l \in Seq(AnyBlocks)
  BY GoodIsAny
<1>2. PICK k \in 1 .. Len(l) : \E a \in 1 .. l[k].m_size : j = Ends(l)[k - 1] + a
  BY <1>1, InSomeBlock
<1>3. PICK a \in 1 .. l[k].m_size : j = Ends(l)[k - 1] + a
  BY <1>2
<1>4. CellsOf(l)[j] = <<k, l[k].m_data + a - 1>>
  BY <1>1, <1>3, CellsAre DEF Covered
<1>5. k = i /\ l[k].m_data + a - 1 = l[i].m_data + o - 1
  BY <1>4
<1>6. PICK data \in Nat : data = l[i].m_data
  BY <1>1, PlaceInList
<1>7. a = o
  <2>1. a \in Int /\ o \in Int /\ data + a - 1 = data + o - 1
    BY <1>1, <1>5, <1>6, PlaceInList
  <2> QED
    BY <1>6, <2>1
<1> QED
  BY <1>3, <1>5, <1>7

(* The cells of the n bytes after position pos.                            *)
CellsAfter(l, cells, pos, n) ==
  /\ cells \in Seq(CellsIn(l)) /\ Len(cells) = n /\ pos \in Nat /\ n \in Nat /\ pos + n <= SumOfSizes(l)
  /\ \A j \in 1 .. n : cells[j] = CellsOf(l)[pos + j]

(* The bytes read there are those of the list after pos.                   *)
LEMMA BytesReadAre ==
  ASSUME NEW l \in Seq(GoodBlocks), NEW cells, NEW pos, NEW n, CellsAfter(l, cells, pos, n)
  PROVE  BytesAt(l, cells) = SubSeq(Content(l), pos + 1, pos + n)
<1>1. /\ cells \in Seq(CellsIn(l)) /\ Len(cells) = n /\ pos \in Nat /\ n \in Nat /\ pos + n <= SumOfSizes(l)
      /\ \A j \in 1 .. n : cells[j] = CellsOf(l)[pos + j]
  BY DEF CellsAfter
<1>2. l \in Seq(AnyBlocks)
  BY GoodIsAny
<1>3. PICK s \in Seq(Bytes) : s = Content(l) /\ Len(s) = SumOfSizes(l)
  BY <1>2, ContentTyped
<1>4. PICK r \in Seq(Bytes) : r = BytesAt(l, cells) /\ Len(r) = n
  BY <1>1, <1>2, BytesTyped
<1>5. PICK u : u = CellsOf(l)
  OBVIOUS
<1>6. DOMAIN u = 1 .. SumOfSizes(l) /\ DOMAIN cells = 1 .. n
  BY <1>1, <1>2, <1>5, CellsAre, LenProperties
<1>7. ASSUME NEW j \in 1 .. n PROVE r[j] = s[pos + j] /\ s[pos + j] \in Bytes
  <2>1. r[j] = l[cells[j][1]].mem[cells[j][2]]
    BY <1>4, <1>6 DEF BytesAt
  <2>2. PICK x \in 1 .. SumOfSizes(l) : x = pos + j
    <3>1. SumOfSizes(l) \in Nat
      BY <1>2, ListFacts
    <3>2. pos + j \in 1 .. SumOfSizes(l)
      BY <1>1, <3>1
    <3> QED
      BY <3>2
  <2>3. s[x] = l[u[x][1]].mem[u[x][2]]
    BY <1>3, <1>5, <1>6 DEF Content, BytesAt
  <2>4. cells[j] = u[x]
    BY <1>1, <1>5, <2>2
  <2>5. s[x] \in Bytes
    BY <1>3, <2>2, ElementOfSeq
  <2> QED
    BY <2>1, <2>2, <2>3, <2>4, <2>5
<1>8. PICK w : w = SubSeq(s, pos + 1, pos + n)
  OBVIOUS
<1>9. w \in Seq(Bytes) /\ Len(w) = n /\ \A j \in 1 .. n : w[j] = s[pos + j]
  <2>1. \A k \in pos + 1 .. pos + n : s[k] \in Bytes
    <3>1. \A k \in pos + 1 .. pos + n : k \in 1 .. Len(s)
      BY <1>1, <1>3
    <3> QED
      BY <3>1, ElementOfSeq
  <2>2. /\ w \in Seq(Bytes) /\ Len(w) = IF pos + 1 <= pos + n THEN pos + n - (pos + 1) + 1 ELSE 0
        /\ \A j \in 1 .. pos + n - (pos + 1) + 1 : w[j] = s[pos + 1 + j - 1]
    BY <1>1, <1>8, <2>1, SubSeqProperties
  <2>3. \A j \in 1 .. n : j \in 1 .. pos + n - (pos + 1) + 1 /\ pos + 1 + j - 1 = pos + j
    BY <1>1
  <2>4. Len(w) = n
    BY <1>1, <2>2
  <2> QED
    BY <2>2, <2>3, <2>4
<1>10. r = w
  BY <1>4, <1>7, <1>9, SeqEqual
<1> QED
  BY <1>3, <1>4, <1>8, <1>10

(* Bytes with s written over those after pos.                              *)
Overwritten(t, pos, s) == SubSeq(t, 1, pos) \o s \o SubSeq(t, pos + Len(s) + 1, Len(t))

(* Its length and its bytes.                                               *)
LEMMA OverwrittenIs ==
  ASSUME NEW t \in Seq(Bytes), NEW s \in Seq(Bytes), NEW pos \in Nat, pos + Len(s) <= Len(t)
  PROVE  /\ Overwritten(t, pos, s) \in Seq(Bytes) /\ Len(Overwritten(t, pos, s)) = Len(t)
         /\ \A j \in 1 .. Len(t) : Overwritten(t, pos, s)[j]
                                     = IF pos < j /\ j <= pos + Len(s) THEN s[j - pos] ELSE t[j]
<1>1. PICK n \in Nat, k \in Nat : n = Len(s) /\ k = Len(t) /\ pos + n <= k
  BY LenProperties
<1>2. PICK a : a = SubSeq(t, 1, pos)
  OBVIOUS
<1>3. PICK b : b = SubSeq(t, pos + n + 1, k)
  OBVIOUS
<1>4. \A j \in 1 .. k : t[j] \in Bytes
  BY <1>1, ElementOfSeq
<1>5. a \in Seq(Bytes) /\ Len(a) = pos /\ \A j \in 1 .. pos : a[j] = t[j]
  <2>1. \A j \in 1 .. pos : t[j] \in Bytes
    BY <1>1, <1>4
  <2>2. /\ a \in Seq(Bytes) /\ Len(a) = IF 1 <= pos THEN pos - 1 + 1 ELSE 0
        /\ \A j \in 1 .. pos - 1 + 1 : a[j] = t[1 + j - 1]
    BY <1>2, <2>1, SubSeqProperties
  <2>3. \A j \in 1 .. pos : j \in 1 .. pos - 1 + 1 /\ 1 + j - 1 = j
    OBVIOUS
  <2> QED
    BY <2>2, <2>3
<1>6. b \in Seq(Bytes) /\ Len(b) = k - (pos + n) /\ \A j \in 1 .. k - (pos + n) : b[j] = t[pos + n + j]
  <2>1. \A j \in pos + n + 1 .. k : t[j] \in Bytes
    BY <1>1, <1>4
  <2>2. PICK c \in Nat : c = pos + n
    BY <1>1
  <2>3. /\ b \in Seq(Bytes) /\ Len(b) = IF c + 1 <= k THEN k - (c + 1) + 1 ELSE 0
        /\ \A j \in 1 .. k - (c + 1) + 1 : b[j] = t[c + 1 + j - 1]
    BY <1>1, <1>3, <2>1, <2>2, SubSeqProperties
  <2>4. Len(b) = k - c
    BY <1>1, <2>2, <2>3
  <2>5. \A j \in 1 .. k - c : j \in 1 .. k - (c + 1) + 1 /\ c + 1 + j - 1 = c + j
    BY <1>1, <2>2
  <2> QED
    BY <2>2, <2>3, <2>4, <2>5
<1>7. PICK e : e = a \o s
  OBVIOUS
<1>8. /\ e \in Seq(Bytes) /\ Len(e) = pos + n
      /\ \A j \in 1 .. pos + n : e[j] = IF j <= pos THEN a[j] ELSE s[j - pos]
  BY <1>1, <1>5, <1>7, ConcatProperties
<1>9. PICK w : w = e \o b
  OBVIOUS
<1>10. /\ w \in Seq(Bytes) /\ Len(w) = k
       /\ \A j \in 1 .. k : w[j] = IF j <= pos + n THEN e[j] ELSE b[j - (pos + n)]
  <2>1. /\ w \in Seq(Bytes) /\ Len(w) = Len(e) + Len(b)
        /\ \A j \in 1 .. Len(e) + Len(b) : w[j] = IF j <= Len(e) THEN e[j] ELSE b[j - Len(e)]
    <3>1. e \in Seq(Bytes) /\ b \in Seq(Bytes)
      BY <1>6, <1>8
    <3> QED
      BY <1>9, <3>1, ConcatProperties
  <2>2. Len(e) + Len(b) = k
    BY <1>1, <1>6, <1>8
  <2> QED
    BY <1>8, <2>1, <2>2
<1>11. ASSUME NEW j \in 1 .. k PROVE w[j] = IF pos < j /\ j <= pos + n THEN s[j - pos] ELSE t[j]
  <2>1. CASE j <= pos
    <3>1. j \in 1 .. pos /\ j \in 1 .. pos + n /\ j <= pos + n /\ ~ (pos < j)
      BY <1>1, <2>1
    <3> QED
      BY <1>5, <1>8, <1>10, <2>1, <3>1
  <2>2. CASE pos < j /\ j <= pos + n
    <3>1. j \in 1 .. pos + n /\ ~ (j <= pos)
      BY <1>1, <2>2
    <3> QED
      BY <1>8, <1>10, <2>2, <3>1
  <2>3. CASE pos + n < j
    <3>1. PICK i \in 1 .. k - (pos + n) : i = j - (pos + n) /\ pos + n + i = j
      <4>1. j - (pos + n) \in 1 .. k - (pos + n) /\ pos + n + (j - (pos + n)) = j
        BY <1>1, <2>3
      <4> QED
        BY <4>1
    <3>2. ~ (j <= pos + n)
      BY <1>1, <2>3
    <3>3. w[j] = b[i]
      BY <1>10, <3>1, <3>2
    <3> QED
      BY <1>6, <3>1, <3>2, <3>3
  <2> QED
    BY <1>1, <2>1, <2>2, <2>3
<1>12. w = Overwritten(t, pos, s)
  BY <1>1, <1>2, <1>3, <1>7, <1>9 DEF Overwritten
<1> QED
  BY <1>1, <1>10, <1>11, <1>12

(* memcpy into the cells after pos overwrites the bytes there, no others.  *)
LEMMA BytesStoredAre ==
  ASSUME NEW l \in Seq(GoodBlocks), NEW cells, NEW pos, NEW n, CellsAfter(l, cells, pos, n),
         NEW s \in Seq(Bytes), Len(s) = n
  PROVE  Content(Stored(l, cells, s)) = Overwritten(Content(l), pos, s)
<1>1. /\ cells \in Seq(CellsIn(l)) /\ Len(cells) = n /\ pos \in Nat /\ n \in Nat /\ pos + n <= SumOfSizes(l)
      /\ \A j \in 1 .. n : cells[j] = CellsOf(l)[pos + j]
  BY DEF CellsAfter
<1>2. l \in Seq(AnyBlocks) /\ Sized(l) /\ SumOfSizes(l) \in Nat
  BY GoodIsAny, ListFacts
<1>3. PICK t \in Seq(Bytes) : t = Content(l) /\ Len(t) = SumOfSizes(l) /\ Holds(l, t)
  BY <1>2, ContentTyped, ContentHolds
<1>4. PICK m : m = Stored(l, cells, s)
  OBVIOUS
<1>5. SameShape(l, m)
  BY <1>1, <1>4, StoredShape
<1>6. /\ m \in Seq(GoodBlocks) /\ Len(m) = Len(l) /\ SumOfSizes(m) = SumOfSizes(l)
      /\ \A i \in 1 .. Len(l) : m[i].m_data = l[i].m_data /\ m[i].m_size = l[i].m_size
  BY <1>5, ShapeKept DEF SameShape
<1>7. m \in Seq(AnyBlocks) /\ Sized(m)
  BY <1>6, GoodIsAny, ListFacts
<1>8. \A i \in 0 .. Len(l) : Ends(m)[i] = Ends(l)[i]
  <2>1. Accumulates(m, Ends(l))
    BY <1>2, <1>6, EndsAre DEF Accumulates
  <2> QED
    BY <1>6, <1>7, <2>1, EndsUnique
<1>9. PICK w : w = Overwritten(t, pos, s)
  OBVIOUS
<1>10. /\ w \in Seq(Bytes) /\ Len(w) = SumOfSizes(l)
       /\ \A j \in 1 .. SumOfSizes(l) : w[j] = IF pos < j /\ j <= pos + n THEN s[j - pos] ELSE t[j]
  <2>1. t \in Seq(Bytes) /\ Len(t) = SumOfSizes(l) /\ pos + Len(s) <= Len(t)
    BY <1>1, <1>3
  <2>2. /\ w \in Seq(Bytes) /\ Len(w) = Len(t)
        /\ \A j \in 1 .. Len(t) : w[j] = IF pos < j /\ j <= pos + Len(s) THEN s[j - pos] ELSE t[j]
    BY <1>1, <1>9, <2>1, OverwrittenIs
  <2> QED
    BY <2>1, <2>2
<1>11. ASSUME NEW i \in 1 .. Len(l), NEW o \in 1 .. l[i].m_size
       PROVE  w[Ends(l)[i - 1] + o] = m[i].mem[l[i].m_data + o - 1]
  <2>1. PICK x \in 1 .. SumOfSizes(l) : x = Ends(l)[i - 1] + o
    BY <1>2, PlaceInList
  <2>2. PICK y \in 0 .. BlkSize - 1 : y = l[i].m_data + o - 1
    <3>1. PICK b \in GoodBlocks : b = l[i]
      BY ElementOfSeq
    <3>2. PICK data \in Nat, size \in Nat : data = b.m_data /\ size = b.m_size /\ data + size <= BlkSize
      <4>1. /\ b.m_data \in 0 .. BlkSize - 1 /\ b.m_size \in 1 .. BlkSize
            /\ b.m_data + b.m_size <= BlkSize
        BY BlockFields
      <4>2. b.m_data \in Nat /\ b.m_size \in Nat
        BY <4>1, PktBufAssumption
      <4> QED
        BY <4>1, <4>2
    <3>3. data + o - 1 \in 0 .. BlkSize - 1
      <4>1. o \in 1 .. size
        BY <3>1, <3>2
      <4>2. BlkSize \in Nat
        BY PktBufAssumption
      <4>3. data \in Nat /\ size \in Nat /\ data + size <= BlkSize
        BY <3>2
      <4> QED
        BY <4>1, <4>2, <4>3
    <3> QED
      BY <3>1, <3>2, <3>3
  <2>3. CellsOf(l)[x] = <<i, y>> /\ t[x] = l[i].mem[y]
    BY <1>2, <1>3, <2>1, <2>2, CellsAre DEF Covered, Holds
  <2>4. ASSUME NEW j \in 1 .. n, cells[j] = <<i, y>> PROVE x = pos + j
    <3>1. PICK z \in 1 .. SumOfSizes(l) : z = pos + j
      <4>1. pos + j \in 1 .. SumOfSizes(l)
        BY <1>1, <1>2, SMTT(30)
      <4> QED
        BY <4>1
    <3>2. CellsOf(l)[z] = <<i, l[i].m_data + o - 1>>
      BY <1>1, <2>2, <2>4, <3>1
    <3> QED
      BY <2>1, <3>1, <3>2, OneCell
  <2>7. /\ \A j \in 1 .. Len(cells) : cells[j] = <<i, y>>
              /\ (\A k \in 1 .. Len(cells) : cells[k] = <<i, y>> => k = j) => m[i].mem[y] = s[j]
        /\ (\A j \in 1 .. Len(cells) : cells[j] # <<i, y>>) => m[i].mem[y] = l[i].mem[y]
    <3>1. cells \in Seq(CellsIn(l)) /\ y \in 0 .. BlkSize - 1
      BY <1>1, <2>2
    <3>2. Leaves(m, l, cells, s, i, y)
      BY <1>4, <3>1, StoredAt
    <3> QED
      BY <3>2 DEF Leaves
  <2>5. CASE pos < x /\ x <= pos + n
    <3>1. PICK j \in 1 .. n : j = x - pos /\ x = pos + j
      <4>1. x - pos \in 1 .. n /\ x = pos + (x - pos)
        BY <1>1, <1>2, <2>5, SMTT(30)
      <4> QED
        BY <4>1
    <3>2. cells[j] = <<i, y>>
      BY <1>1, <2>3, <3>1
    <3>3. \A k \in 1 .. n : cells[k] = <<i, y>> => k = j
      <4>1. ASSUME NEW k \in 1 .. n, cells[k] = <<i, y>> PROVE k = j
        <5>1. pos + k = pos + j
          BY <2>4, <3>1, <4>1
        <5> QED
          BY <1>1, <5>1
      <4> QED
        BY <4>1
    <3>4. m[i].mem[y] = s[j]
      BY <1>1, <2>7, <3>1, <3>2, <3>3
    <3> QED
      BY <1>10, <2>1, <2>2, <2>5, <3>1, <3>4
  <2>6. CASE ~ (pos < x /\ x <= pos + n)
    <3>1. \A j \in 1 .. n : cells[j] # <<i, y>>
      <4>1. \A j \in 1 .. n : pos < pos + j /\ pos + j <= pos + n
        BY <1>1
      <4> QED
        BY <2>4, <2>6, <4>1
    <3>2. m[i].mem[y] = l[i].mem[y]
      BY <1>1, <2>7, <3>1
    <3> QED
      BY <1>10, <2>1, <2>2, <2>3, <2>6, <3>2
  <2> QED
    BY <2>5, <2>6
<1>12. Holds(m, w)
  <2>1. ASSUME NEW i \in 1 .. Len(m), NEW o \in 1 .. m[i].m_size
        PROVE  w[Ends(m)[i - 1] + o] = m[i].mem[m[i].m_data + o - 1]
    <3>1. i \in 1 .. Len(l) /\ i - 1 \in 0 .. Len(l) /\ m[i].m_size = l[i].m_size /\ m[i].m_data = l[i].m_data
      BY <1>2, <1>6, PlaceInList
    <3> QED
      BY <1>8, <1>11, <3>1
  <2> QED
    BY <1>6, <1>10, <2>1 DEF Holds
<1> QED
  BY <1>3, <1>4, <1>7, <1>9, <1>12, ContentIs

(* The packets but those of P keep their bytes and their position.         *)
OthersKeep(P) == \A q \in Pkts \ P : list'[q] = list[q] /\ cur'[q].pos = cur[q].pos

(* A call that changes one packet's length.                                *)
LEMMA AbstractReshape ==
  ASSUME NEW p \in Pkts, out' = <<>>, cur'[p].pos \in {-1, 0}, OthersKeep({p}),
         \/ Abstract!Extends(Content(list[p]), Content(list'[p]))
         \/ Abstract!Extends(Content(list'[p]), Content(list[p]))
  PROVE  Abstract!Next
<1>1. Abstract!OnlyChanges([q \in Pkts |-> cur[q].pos], {p})
  BY DEF Abstract!OnlyChanges, OthersKeep
<1>2. Abstract!OnlyChanges([q \in Pkts |-> Content(list[q])], {p})
  BY DEF Abstract!OnlyChanges, OthersKeep
<1>3. Abstract!Reshape(p)
  BY <1>1, <1>2 DEF Abstract!Reshape, Abstract!NoPos
<1> QED
  BY <1>3 DEF Abstract!Next

(* merge_buf.                                                              *)
LEMMA AbstractMerge ==
  ASSUME NEW p \in Pkts, NEW q \in Pkts, p # q, out' = <<>>, cur'[p].pos = -1, cur'[q].pos = -1,
         OthersKeep({p, q}), Content(list'[q]) = <<>>,
         Content(list'[p]) = Content(list[p]) \o Content(list[q])
  PROVE  Abstract!Next
<1>1. Abstract!OnlyChanges([r \in Pkts |-> cur[r].pos], {p, q})
  BY DEF Abstract!OnlyChanges, OthersKeep
<1>2. Abstract!OnlyChanges([r \in Pkts |-> Content(list[r])], {p, q})
  BY DEF Abstract!OnlyChanges, OthersKeep
<1>3. Abstract!Merge(p, q)
  BY <1>1, <1>2 DEF Abstract!Merge, Abstract!NoPos
<1> QED
  BY <1>3 DEF Abstract!Next

(* seek.                                                                   *)
LEMMA AbstractSeek ==
  ASSUME NEW p \in Pkts, out' = <<>>, cur[p].pos # -1, OthersKeep({p}), list' = list,
         cur'[p].pos \in 0 .. Len(Content(list[p]))
  PROVE  Abstract!Next
<1>1. Abstract!OnlyChanges([r \in Pkts |-> cur[r].pos], {p})
  BY DEF Abstract!OnlyChanges, OthersKeep
<1>2. Abstract!Seek(p)
  BY <1>1 DEF Abstract!Seek, Abstract!NoPos
<1> QED
  BY <1>2 DEF Abstract!Next

(* A packet's position moves over the bytes transferred.                   *)
Passes(p) == cur[p].pos # -1 /\ cur'[p].pos = cur[p].pos + Len(out')

(* read.                                                                   *)
LEMMA AbstractRead ==
  ASSUME NEW p \in Pkts, Passes(p), OthersKeep({p}), list' = list,
         out' = SubSeq(Content(list[p]), cur[p].pos + 1, cur'[p].pos)
  PROVE  Abstract!Next
<1>1. Abstract!OnlyChanges([r \in Pkts |-> cur[r].pos], {p})
  BY DEF Abstract!OnlyChanges, OthersKeep
<1>2. Abstract!Advance(p)
  BY DEF Abstract!Advance, Abstract!NoPos, Passes
<1>3. out' = Abstract!Window(p)
  BY DEF Abstract!Window
<1>4. Abstract!Read(p)
  BY <1>1, <1>2, <1>3 DEF Abstract!Read
<1> QED
  BY <1>4 DEF Abstract!Next

(* The bytes transferred are written over those passed.                    *)
LEMMA AbstractOverwrite ==
  ASSUME NEW p \in Pkts, Passes(p), \A q \in Pkts : q # p => list'[q] = list[q],
         Content(list'[p]) = Overwritten(Content(list[p]), cur[p].pos, out')
  PROVE  Abstract!Overwrite(p)
<1>1. Abstract!OnlyChanges([r \in Pkts |-> Content(list[r])], {p})
  BY DEF Abstract!OnlyChanges
<1>2. cur[p].pos + Len(out') + 1 = cur'[p].pos + 1
  BY DEF Passes
<1> QED
  BY <1>1, <1>2 DEF Abstract!Overwrite, Overwritten

(* write and fill.                                                         *)
LEMMA AbstractWrite ==
  ASSUME NEW p \in Pkts, Passes(p), OthersKeep({p}),
         Content(list'[p]) = Overwritten(Content(list[p]), cur[p].pos, out')
  PROVE  Abstract!Next
<1>1. Abstract!OnlyChanges([r \in Pkts |-> cur[r].pos], {p})
  BY DEF Abstract!OnlyChanges, OthersKeep
<1>2. Abstract!Advance(p)
  BY DEF Abstract!Advance, Abstract!NoPos, Passes
<1>3. Abstract!Overwrite(p)
  BY AbstractOverwrite DEF OthersKeep
<1>4. Abstract!Write(p)
  BY <1>1, <1>2, <1>3 DEF Abstract!Write
<1> QED
  BY <1>4 DEF Abstract!Next

(* copy.                                                                   *)
LEMMA AbstractCopy ==
  ASSUME NEW p \in Pkts, NEW q \in Pkts, p # q, Passes(p), Passes(q), OthersKeep({p, q}),
         list'[q] = list[q],
         out' = SubSeq(Content(list[q]), cur[q].pos + 1, cur'[q].pos),
         Content(list'[p]) = Overwritten(Content(list[p]), cur[p].pos, out')
  PROVE  Abstract!Next
<1>1. Abstract!OnlyChanges([r \in Pkts |-> cur[r].pos], {p, q})
  BY DEF Abstract!OnlyChanges, OthersKeep
<1>2. Abstract!Advance(p) /\ Abstract!Advance(q)
  BY DEF Abstract!Advance, Abstract!NoPos, Passes
<1>3. Abstract!Overwrite(p)
  BY AbstractOverwrite DEF OthersKeep
<1>4. out' = Abstract!Window(q)
  BY DEF Abstract!Window
<1>5. Abstract!Copy(p, q)
  BY <1>1, <1>2, <1>3, <1>4 DEF Abstract!Copy
<1> QED
  BY <1>5 DEF Abstract!Next

(* Packet p gets the list m; its cursor is no longer valid, or reset.      *)
Becomes(p, m) ==
  /\ list' = [list EXCEPT ![p] = m] /\ out' = <<>>
  /\ NoLongerValid({p}) \/ cur' = [cur EXCEPT ![p] = reset_access(m)]

(* One string of bytes is the other with bytes added at one end.           *)
Alike(s, t) == EndsWith(s, t) \/ BeginsWith(s, t) \/ EndsWith(t, s) \/ BeginsWith(t, s)

(* The position after such a call, and those of other packets.             *)
LEMMA CursorAfter ==
  ASSUME PktInv, NEW p \in Pkts, NEW m, NoLongerValid({p}) \/ cur' = [cur EXCEPT ![p] = reset_access(m)]
  PROVE  cur'[p].pos \in {-1, 0} /\ \A q \in Pkts : q # p => cur'[q].pos = cur[q].pos
<1>1. CASE NoLongerValid({p})
  <2>1. cur'[p] = NoCursor /\ \A q \in Pkts : q # p => cur'[q] = cur[q]
    BY <1>1, NotValid
  <2> QED
    BY <2>1 DEF NoCursor
<1>2. CASE cur' = [cur EXCEPT ![p] = reset_access(m)]
  <2>1. cur \in [Pkts -> Cursors]
    BY DEF PktInv, Typed
  <2>2. reset_access(m).pos = 0
    BY DEF reset_access
  <2> QED
    BY <1>2, <2>1, <2>2
<1> QED
  BY <1>1, <1>2

(* A call that changes one packet's bytes at one end.                      *)
LEMMA ListBecomes ==
  ASSUME PktInv, NEW p \in Pkts, NEW m, Becomes(p, m),
         Content(list[p]) \in Seq(Bytes), Content(m) \in Seq(Bytes), Alike(Content(m), Content(list[p]))
  PROVE  Abstract!Next
<1>1. cur'[p].pos \in {-1, 0} /\ \A q \in Pkts : q # p => cur'[q].pos = cur[q].pos
  BY CursorAfter DEF Becomes
<1>2. list'[p] = m /\ \A q \in Pkts : q # p => list'[q] = list[q]
  BY DEF PktInv, Typed, Becomes
<1>3. OthersKeep({p})
  BY <1>1, <1>2 DEF OthersKeep
<1>4. PICK s \in Seq(Bytes) : s = Content(list[p])
  OBVIOUS
<1>5. PICK t \in Seq(Bytes) : t = Content(m)
  OBVIOUS
<1>6. Alike(t, s)
  BY <1>4, <1>5
<1>7. Abstract!Extends(s, t) \/ Abstract!Extends(t, s)
  BY <1>6, PrefixExtends, SuffixExtends DEF Alike, EndsWith, BeginsWith
<1>8. Abstract!Extends(Content(list[p]), Content(list'[p])) \/ Abstract!Extends(Content(list'[p]), Content(list[p]))
  BY <1>2, <1>4, <1>5, <1>7
<1>9. out' = <<>>
  BY DEF Becomes
<1> QED
  BY <1>1, <1>3, <1>8, <1>9, AbstractReshape

(* The bytes of a usable packet.                                           *)
LEMMA UsableBytes ==
  ASSUME PktInv, NEW p \in Pkts, Usable(p)
  PROVE  /\ list[p] \in Seq(GoodBlocks) /\ list[p] \in Seq(AnyBlocks) /\ Distinct(list[p])
         /\ m_capacity[p] = SumOfSizes(list[p]) /\ m_capacity[p] \in Nat /\ Content(list[p]) \in Seq(Bytes)
BY UsableIs, GoodIsAny, ContentTyped

(* alloc_header in the gap: the bytes come first.                          *)
LEMMA HeaderFitsShows ==
  ASSUME PktInv, NEW p \in Pkts, NEW n \in Nat, HeaderFits(p, n)
  PROVE  Abstract!Next
<1>1. /\ Usable(p) /\ list[p] # <<>> /\ list[p][1].m_data >= n
      /\ Becomes(p, GrowFront(list[p], n))
  BY DEF HeaderFits, Becomes
<1>2. PICK l \in Seq(GoodBlocks) : l = list[p] /\ Content(l) \in Seq(Bytes)
  BY <1>1, UsableBytes
<1>3. l[1].m_data - n \in 0 .. BlkSize - 1 /\ l[1].m_size + n >= 1 /\ n \in Int
  BY <1>1, <1>2, FirstBlock, PktBufAssumption, SMTT(30)
<1>4. PICK m : m = GrowFront(l, n)
  OBVIOUS
<1>5. m \in Seq(GoodBlocks) /\ EndsWith(Content(m), Content(l))
  BY <1>1, <1>2, <1>3, <1>4, FrontGrows, FrontMoves
<1>6. Content(m) \in Seq(Bytes)
  BY <1>5, GoodIsAny, ContentTyped
<1> QED
  BY <1>1, <1>2, <1>4, <1>5, <1>6, ListBecomes DEF Alike

(* Blocks put before or after a list.                                      *)
LEMMA BlocksAdded ==
  ASSUME NEW l \in Seq(AnyBlocks), NEW g \in Seq(AnyBlocks), NEW s \in Seq(Bytes)
  PROVE  /\ Content(g \o l) \in Seq(Bytes) /\ Content(l \o g) \in Seq(Bytes)
         /\ EndsWith(Content(l), s) => EndsWith(Content(g \o l), s)
         /\ BeginsWith(Content(l), s) => BeginsWith(Content(l \o g), s)
         /\ EndsWith(Content(g \o l), Content(l)) /\ BeginsWith(Content(l \o g), Content(l))
<1>1. PICK t \in Seq(Bytes) : t = Content(l)
  BY ContentTyped
<1>2. PICK u \in Seq(Bytes) : u = Content(g)
  BY ContentTyped
<1>3. Content(g \o l) = u \o t /\ Content(l \o g) = t \o u
  BY <1>1, <1>2, ContentConcat
<1>4. u \o t \in Seq(Bytes) /\ t \o u \in Seq(Bytes)
  BY ConcatProperties
<1>5. /\ EndsWith(t, s) => EndsWith(u \o t, s)
      /\ BeginsWith(t, s) => BeginsWith(t \o u, s)
      /\ EndsWith(u \o t, t) /\ BeginsWith(t \o u, t)
  BY EndsWithin
<1> QED
  BY <1>1, <1>3, <1>4, <1>5

(* alloc_header with a block of its own.                                   *)
LEMMA HeaderBlockShows ==
  ASSUME PktInv, NEW p \in Pkts, NEW n \in Nat, n >= 1, HeaderBlock(p, n)
  PROVE  Abstract!Next
<1> DEFINE h == Block(Free(1)[1], BlkSize - n, n)
<1>1. /\ Usable(p) /\ n <= BlkSize /\ pool # {} /\ list' = [list EXCEPT ![p] = <<h>> \o list[p]]
      /\ NoLongerValid({p}) /\ out' = <<>>
  BY DEF HeaderBlock
<1>2. PICK l \in Seq(AnyBlocks) : l = list[p] /\ Content(l) \in Seq(Bytes)
  BY <1>1, UsableBytes
<1>3. h \in AnyBlocks
  BY <1>1, OwnBlock DEF AnyBlocks
<1> HIDE DEF h
<1>4. PICK g \in Seq(AnyBlocks) : g = <<h>>
  BY <1>3, SingleBlock
<1>5. PICK m : m = g \o l
  OBVIOUS
<1>6. Content(m) \in Seq(Bytes) /\ EndsWith(Content(m), Content(l))
  BY <1>2, <1>5, BlocksAdded
<1>7. Becomes(p, m)
  BY <1>1, <1>2, <1>4, <1>5 DEF Becomes
<1> QED
  BY <1>2, <1>6, <1>7, ListBecomes DEF Alike

(* alloc_header when the pool is empty: the null block shows no byte.      *)
LEMMA HeaderNoBlockShows ==
  ASSUME PktInv, NEW p \in Pkts, NEW n \in Nat, HeaderNoBlock(p, n)
  PROVE  Abstract!Next
<1>1. /\ Usable(p) /\ list' = [list EXCEPT ![p] = <<NullBlock>> \o list[p]]
      /\ NoLongerValid({p}) /\ out' = <<>>
  BY DEF HeaderNoBlock
<1>2. PICK l \in Seq(AnyBlocks) : l = list[p] /\ Content(l) \in Seq(Bytes)
  BY <1>1, UsableBytes
<1>3. NullBlock \in AnyBlocks
  BY DEF AnyBlocks
<1>4. PICK g \in Seq(AnyBlocks) : g = <<NullBlock>>
  BY <1>3, SingleBlock
<1>5. PICK m : m = g \o l
  OBVIOUS
<1>6. Content(m) \in Seq(Bytes) /\ EndsWith(Content(m), Content(l))
  BY <1>2, <1>5, BlocksAdded
<1>7. Becomes(p, m)
  BY <1>1, <1>2, <1>4, <1>5 DEF Becomes
<1> QED
  BY <1>2, <1>6, <1>7, ListBecomes DEF Alike

(* alloc, from whichever call: its blocks go to either end of l.           *)
LEMMA DoAllocShows ==
  ASSUME PktInv, NEW p \in Pkts, Usable(p), NEW n \in Int, CanAlloc(n),
         NEW l \in Seq(GoodBlocks), NEW alloc_front \in BOOLEAN, NEW insert_front \in BOOLEAN,
         NEW capacity, DoAlloc(p, n, alloc_front, insert_front, l, capacity), out' = <<>>,
         IF insert_front THEN EndsWith(Content(l), Content(list[p]))
                         ELSE BeginsWith(Content(l), Content(list[p]))
  PROVE  Abstract!Next
<1>1. PICK g \in Seq(AnyBlocks) : g = Given(n, alloc_front)
  <2>1. pool \subseteq Blks
    BY DEF PktInv, Typed
  <2>2. Given(n, alloc_front) \in Seq(GoodBlocks)
    BY <2>1, GivenBlocks
  <2> QED
    BY <2>2, GoodIsAny
<1>2. PICK m : m = IF insert_front THEN g \o l ELSE l \o g
  OBVIOUS
<1>3. list' = [list EXCEPT ![p] = m] /\ cur' = [cur EXCEPT ![p] = reset_access(list'[p])]
  BY <1>1, <1>2, DoAllocIs
<1>4. list'[p] = m
  BY <1>3 DEF PktInv, Typed
<1>5. Becomes(p, m)
  BY <1>3, <1>4 DEF Becomes
<1>6. PICK s \in Seq(Bytes) : s = Content(list[p])
  BY UsableBytes
<1>7. Content(m) \in Seq(Bytes) /\ Alike(Content(m), s)
  <2>1. l \in Seq(AnyBlocks)
    BY GoodIsAny
  <2>2. CASE insert_front
    <3>1. EndsWith(Content(l), s) /\ m = g \o l
      BY <1>2, <1>6, <2>2
    <3> QED
      BY <2>1, <3>1, BlocksAdded DEF Alike
  <2>3. CASE ~ insert_front
    <3>1. BeginsWith(Content(l), s) /\ m = l \o g
      BY <1>2, <1>6, <2>3
    <3> QED
      BY <2>1, <3>1, BlocksAdded DEF Alike
  <2> QED
    BY <2>2, <2>3
<1> QED
  BY <1>5, <1>6, <1>7, ListBecomes

(* A list is alike to itself.                                              *)
LEMMA SameAlike ==
  ASSUME NEW s \in Seq(Bytes)
  PROVE  EndsWith(s, s) /\ BeginsWith(s, s)
BY EndsWithin

(* alloc.                                                                  *)
LEMMA allocShows ==
  ASSUME PktInv, NEW p \in Pkts, NEW n \in Nat, NEW alloc_front \in BOOLEAN, NEW insert_front \in BOOLEAN,
         alloc(p, n, alloc_front, insert_front)
  PROVE  Abstract!Next
<1>1. /\ Usable(p) /\ CanAlloc(n)
      /\ DoAlloc(p, n, alloc_front, insert_front, list[p], m_capacity[p])
      /\ out' = <<>> /\ n \in Int
  BY DEF alloc
<1>2. PICK l \in Seq(GoodBlocks) : l = list[p] /\ Content(l) \in Seq(Bytes)
  BY <1>1, UsableBytes
<1>3. EndsWith(Content(l), Content(list[p])) /\ BeginsWith(Content(l), Content(list[p]))
  BY <1>2, SameAlike
<1> QED
  BY <1>1, <1>2, <1>3, DoAllocShows

(* resize of an empty packet.                                              *)
LEMMA ResizeEmptyShows ==
  ASSUME PktInv, NEW p \in Pkts, NEW n \in Nat, ResizeEmpty(p, n)
  PROVE  Abstract!Next
<1>1. Usable(p) /\ CanAlloc(n) /\ DoAlloc(p, n, FALSE, FALSE, list[p], 0) /\ out' = <<>>
  BY DEF ResizeEmpty
<1>2. PICK l \in Seq(GoodBlocks) : l = list[p] /\ Content(l) \in Seq(Bytes)
  BY <1>1, UsableBytes
<1>3. BeginsWith(Content(l), Content(list[p]))
  BY <1>2, SameAlike
<1>4. DoAlloc(p, n, FALSE, FALSE, l, 0)
  BY <1>1, <1>2, Zenon
<1>5. n \in Int
  OBVIOUS
<1> QED
  BY <1>1, <1>3, <1>4, <1>5, DoAllocShows

(* alloc_header over several blocks, and its failure half way.             *)
LEMMA HeaderSplitShows ==
  ASSUME PktInv, NEW p \in Pkts, NEW n \in Nat, HeaderSplit(p, n)
  PROVE  Abstract!Next
<1> DEFINE gap == list[p][1].m_data
           l == GrowFront(list[p], gap)
<1>1. Usable(p) /\ list[p] # <<>> /\ gap < n /\ out' = <<>>
  BY DEF HeaderSplit
<1>2. \/ CanAlloc(n - gap) /\ DoAlloc(p, n - gap, TRUE, TRUE, l, m_capacity[p] + gap)
      \/ list' = [list EXCEPT ![p] = l] /\ NoLongerValid({p})
  BY DEF HeaderSplit
<1>3. list[p] \in Seq(GoodBlocks) /\ Content(list[p]) \in Seq(Bytes)
  BY <1>1, UsableBytes
<1>4. gap \in Nat /\ gap - gap \in 0 .. BlkSize - 1 /\ list[p][1].m_size + gap >= 1
  BY <1>1, <1>3, FirstBlock, PktBufAssumption
<1> HIDE DEF gap
<1>5. l \in Seq(GoodBlocks) /\ EndsWith(Content(l), Content(list[p]))
  <2>1. list[p][1].m_data - gap \in 0 .. BlkSize - 1
    BY <1>4 DEF gap
  <2> QED
    BY <1>1, <1>3, <1>4, <2>1, FrontGrows, FrontMoves
<1> HIDE DEF l
<1>6. CASE CanAlloc(n - gap) /\ DoAlloc(p, n - gap, TRUE, TRUE, l, m_capacity[p] + gap)
  <2>1. PICK k \in Int : k = n - gap
    BY <1>4
  <2> QED
    BY <1>1, <1>5, <1>6, <2>1, DoAllocShows
<1>7. CASE list' = [list EXCEPT ![p] = l] /\ NoLongerValid({p})
  <2>1. Becomes(p, l)
    BY <1>1, <1>7 DEF Becomes
  <2>2. Content(l) \in Seq(Bytes)
    BY <1>5, GoodIsAny, ContentTyped
  <2> QED
    BY <1>3, <1>5, <2>1, <2>2, ListBecomes DEF Alike
<1> QED
  BY <1>2, <1>6, <1>7

(* remove_header: what is left was at the end.                             *)
LEMMA remove_headerShows ==
  ASSUME PktInv, NEW p \in Pkts, NEW n \in Nat, remove_header(p, n)
  PROVE  Abstract!Next
<1>1. Usable(p) /\ n <= m_capacity[p] /\ Becomes(p, CutFront(list[p], n))
  BY DEF remove_header, Becomes
<1>2. PICK l \in Seq(GoodBlocks) : /\ l = list[p] /\ Distinct(l) /\ n <= SumOfSizes(l)
                                   /\ Content(l) \in Seq(Bytes)
  BY <1>1, UsableBytes
<1>3. Content(CutFront(l, n)) \in Seq(Bytes) /\ EndsWith(Content(l), Content(CutFront(l, n)))
  BY <1>2, CutFrontKeepsEnd
<1> QED
  BY <1>1, <1>2, <1>3, ListBecomes DEF Alike

(* set_cont_header: the bytes stay.                                        *)
LEMMA set_cont_headerShows ==
  ASSUME PktInv, NEW p \in Pkts, NEW n \in Nat, n >= 1, set_cont_header(p, n)
  PROVE  Abstract!Next
<1>1. /\ Usable(p) /\ n <= m_capacity[p] /\ n <= BlkSize /\ n > list[p][1].m_size
      /\ Becomes(p, <<ContBlock(list[p], n)>> \o CutFront(Tail(list[p]), n - list[p][1].m_size))
  BY DEF set_cont_header, Becomes, ContBlock
<1>2. PICK l \in Seq(GoodBlocks) : /\ l = list[p] /\ Distinct(l) /\ n <= SumOfSizes(l)
                                   /\ Content(l) \in Seq(Bytes)
  BY <1>1, UsableBytes
<1>3. l # <<>>
  BY <1>2, NoBlocks
<1>4. Distinct(Tail(l))
  <2>1. 1 \in 0 .. Len(l) /\ 1 + 1 = 2
    BY <1>2, <1>3, FirstBlock
  <2>2. Parts(l, 1, SubSeq(l, 1, 1), SubSeq(l, 1 + 1, Len(l)))
    BY <2>1, PartsOfList
  <2>3. Tail(l) = SubSeq(l, 1 + 1, Len(l))
    BY <1>3, <2>1, TailIsSubSeq
  <2> QED
    BY <1>2, <2>2, <2>3 DEF Parts
<1>5. PICK m : m = <<ContBlock(l, n)>> \o CutFront(Tail(l), n - l[1].m_size)
  OBVIOUS
<1>6. Content(m) = Content(l)
  <2>1. n \in 1 .. BlkSize /\ l[1].m_size < n
    BY <1>1, <1>2, <1>3, FirstBlock, PktBufAssumption
  <2> QED
    BY <1>2, <1>3, <1>4, <1>5, <2>1, MovedTogether
<1>7. Becomes(p, m)
  BY <1>1, <1>2, <1>5
<1>8. Alike(Content(m), Content(l))
  BY <1>2, <1>6, SameAlike DEF Alike
<1> QED
  BY <1>2, <1>6, <1>7, <1>8, ListBecomes

(* resize within the last block.                                           *)
LEMMA ResizeInPlaceShows ==
  ASSUME PktInv, NEW p \in Pkts, NEW n \in Nat, ResizeInPlace(p, n)
  PROVE  Abstract!Next
<1>1. /\ Usable(p) /\ 0 < m_capacity[p] /\ last_size(Last(list[p])) >= n
      /\ Becomes(p, GrowBack(list[p], n))
  BY DEF ResizeInPlace, Becomes
<1>2. PICK l \in Seq(GoodBlocks) : l = list[p] /\ 0 < SumOfSizes(l) /\ Content(l) \in Seq(Bytes)
  BY <1>1, UsableBytes
<1>3. l # <<>>
  BY <1>2, NoBlocks
<1>4. LET b == l[Len(l)] IN b.m_size + n >= 1 /\ b.m_data + b.m_size + n <= BlkSize
  BY <1>1, <1>2, <1>3, RoomAtEnd, RoomTyped
<1>5. PICK m : m = GrowBack(l, n)
  OBVIOUS
<1>6. m \in Seq(GoodBlocks) /\ BeginsWith(Content(m), Content(l))
  <2>1. n \in Int
    OBVIOUS
  <2> QED
    BY <1>3, <1>4, <1>5, <2>1, BackGrows, BackMoves
<1>7. Content(m) \in Seq(Bytes)
  BY <1>6, GoodIsAny, ContentTyped
<1> QED
  BY <1>1, <1>2, <1>5, <1>6, <1>7, ListBecomes DEF Alike

(* resize beyond the last block, and its failure half way.                 *)
LEMMA ResizeGrowShows ==
  ASSUME PktInv, NEW p \in Pkts, NEW n \in Nat, ResizeGrow(p, n)
  PROVE  Abstract!Next
<1> DEFINE room == last_size(Last(list[p]))
           l == GrowBack(list[p], room)
           capacity == m_capacity[p] + room
<1>1. Usable(p) /\ 0 < m_capacity[p] /\ out' = <<>>
  BY DEF ResizeGrow
<1>2. \/ CanAlloc(n - capacity) /\ DoAlloc(p, n - capacity, FALSE, FALSE, l, capacity)
      \/ list' = [list EXCEPT ![p] = l] /\ NoLongerValid({p})
  BY DEF ResizeGrow
<1>3. /\ list[p] \in Seq(GoodBlocks) /\ m_capacity[p] = SumOfSizes(list[p]) /\ m_capacity[p] \in Nat
      /\ Content(list[p]) \in Seq(Bytes)
  BY <1>1, UsableBytes
<1>4. list[p] # <<>>
  BY <1>1, <1>3, NoBlocks
<1>5. room \in Nat /\ room <= room
  BY <1>3, <1>4, RoomTyped
<1>6. LET b == list[p][Len(list[p])] IN b.m_size + room >= 1 /\ b.m_data + b.m_size + room <= BlkSize
  BY <1>3, <1>4, <1>5, RoomAtEnd
<1> HIDE DEF room
<1>7. l \in Seq(GoodBlocks) /\ BeginsWith(Content(l), Content(list[p]))
  <2>1. room \in Int
    BY <1>5
  <2> QED
    BY <1>3, <1>4, <1>5, <1>6, <2>1, BackGrows, BackMoves
<1> HIDE DEF l
<1>8. CASE CanAlloc(n - capacity) /\ DoAlloc(p, n - capacity, FALSE, FALSE, l, capacity)
  <2>1. PICK k \in Int : k = n - capacity
    BY <1>3, <1>5
  <2> HIDE DEF capacity
  <2> QED
    BY <1>1, <1>7, <1>8, <2>1, DoAllocShows
<1>9. CASE list' = [list EXCEPT ![p] = l] /\ NoLongerValid({p})
  <2>1. Becomes(p, l)
    BY <1>1, <1>9 DEF Becomes
  <2>2. Content(l) \in Seq(Bytes)
    BY <1>7, GoodIsAny, ContentTyped
  <2> QED
    BY <1>3, <1>7, <2>1, <2>2, ListBecomes DEF Alike
<1> QED
  BY <1>2, <1>8, <1>9

(* resize to fewer bytes: those left are the first.                        *)
LEMMA ResizeShrinkShows ==
  ASSUME PktInv, NEW p \in Pkts, NEW n \in Nat, ResizeShrink(p, n)
  PROVE  Abstract!Next
<1> DEFINE k == Ending(list[p], n)
           m == GrowBack(SubSeq(list[p], 1, k), n - Ends(list[p])[k])
<1>1. Usable(p) /\ 0 < n /\ n < m_capacity[p] /\ Becomes(p, m)
  BY DEF ResizeShrink, Ending, Becomes
<1>2. /\ list[p] \in Seq(GoodBlocks) /\ Distinct(list[p]) /\ m_capacity[p] = SumOfSizes(list[p])
      /\ m_capacity[p] \in Nat /\ Content(list[p]) \in Seq(Bytes)
  BY <1>1, UsableBytes
<1>3. n <= SumOfSizes(list[p])
  BY <1>1, <1>2
<1>4. PICK i : i = k
  OBVIOUS
<1>5. PICK t : t = GrowBack(SubSeq(list[p], 1, i), n - Ends(list[p])[i]) /\ t = m
  BY <1>4
<1>6. i = Ending(list[p], n)
  BY <1>4
<1> HIDE DEF k, m
<1>7. Content(t) \in Seq(Bytes) /\ BeginsWith(Content(list[p]), Content(t))
  BY <1>1, <1>2, <1>3, <1>5, <1>6, EndCutKeepsFront
<1> QED
  BY <1>1, <1>2, <1>5, <1>7, ListBecomes DEF Alike

(* A packet whose list a call leaves alone.                                *)
LEMMA ListStays ==
  ASSUME PktInv, NEW p \in Pkts, list' = list, out' = <<>>,
         NoLongerValid({p}) \/ cur' = [cur EXCEPT ![p] = reset_access(list[p])]
  PROVE  Abstract!Next
<1>1. PICK m \in Seq(AnyBlocks) : m = list[p]
  BY DEF PktInv, Typed
<1>2. Becomes(p, m)
  BY <1>1 DEF PktInv, Typed, Becomes
<1>3. Content(m) \in Seq(Bytes)
  BY ContentTyped
<1>4. Alike(Content(m), Content(m))
  BY <1>3, SameAlike DEF Alike
<1> QED
  BY <1>1, <1>2, <1>3, <1>4, ListBecomes

(* get_pktbuffer: the bytes are those left by the last use: none.          *)
LEMMA get_pktbufferShows ==
  ASSUME PktInv, NEW p \in Pkts, get_pktbuffer(p)
  PROVE  Abstract!Next
BY ListStays DEF get_pktbuffer

(* reset_access: the position is that of the first byte.                   *)
LEMMA ResetAccessShows ==
  ASSUME PktInv, NEW p \in Pkts, ResetAccess(p)
  PROVE  Abstract!Next
BY ListStays DEF ResetAccess

(* free: no byte is left.                                                  *)
LEMMA freeShows ==
  ASSUME PktInv, NEW p \in Pkts, free(p)
  PROVE  Abstract!Next
<1>1. PICK m : m = <<>> /\ m \in Seq(AnyBlocks) /\ SumOfSizes(m) = 0
  BY NoBlocks
<1>2. Becomes(p, m)
  BY <1>1 DEF free, Becomes
<1>3. Content(m) \in Seq(Bytes) /\ Content(m) = <<>>
  BY <1>1, ContentTyped, EmptySeq
<1>4. PICK s \in Seq(Bytes) : s = Content(list[p])
  BY ContentTyped DEF PktInv, Typed
<1>5. BeginsWith(s, Content(m))
  <2>1. s = <<>> \o s
    BY ConcatEmptySeq
  <2> QED
    BY <1>3, <2>1 DEF BeginsWith
<1> QED
  BY <1>2, <1>3, <1>4, <1>5, ListBecomes DEF Alike

(* merge_buf: one packet's bytes after the other's.                        *)
LEMMA merge_bufShows ==
  ASSUME PktInv, NEW p \in Pkts, NEW q \in Pkts, merge_buf(p, q)
  PROVE  Abstract!Next
<1>1. /\ Usable(p) /\ Usable(q) /\ p # q
      /\ list' = [list EXCEPT ![p] = list[p] \o list[q], ![q] = <<>>]
      /\ NoLongerValid({p, q}) /\ out' = <<>>
  BY DEF merge_buf
<1>2. PICK l \in Seq(AnyBlocks) : l = list[p]
  BY <1>1, UsableBytes
<1>3. PICK k \in Seq(AnyBlocks) : k = list[q]
  BY <1>1, UsableBytes
<1>4. PICK m : m = l \o k /\ Content(m) = Content(l) \o Content(k)
  BY ContentConcat
<1>5. PICK e : e = <<>> /\ e \in Seq(AnyBlocks) /\ SumOfSizes(e) = 0
  BY NoBlocks
<1>6. Content(e) = <<>>
  BY <1>5, ContentTyped, EmptySeq
<1>7. list'[p] = m /\ list'[q] = e /\ \A r \in Pkts : r # p /\ r # q => list'[r] = list[r]
  <2>1. list' = [list EXCEPT ![p] = m, ![q] = e]
    BY <1>1, <1>2, <1>3, <1>4, <1>5
  <2> QED
    BY <1>1, <2>1 DEF PktInv, Typed
<1>8. cur'[p] = NoCursor /\ cur'[q] = NoCursor /\ \A r \in Pkts : r # p /\ r # q => cur'[r] = cur[r]
  BY <1>1, NotValid
<1>9. OthersKeep({p, q}) /\ cur'[p].pos = -1 /\ cur'[q].pos = -1
  BY <1>7, <1>8 DEF OthersKeep, NoCursor
<1>10. Content(list'[q]) = <<>> /\ Content(list'[p]) = Content(list[p]) \o Content(list[q])
  BY <1>2, <1>3, <1>4, <1>6, <1>7
<1> QED
  BY <1>1, <1>9, <1>10, AbstractMerge

(* Where a cursor may be.                                                  *)
LEMMA CursorPos ==
  ASSUME NEW l \in Seq(GoodBlocks), NEW c \in Cursors, CursorIn(l, c)
  PROVE  c.pos \in 0 .. SumOfSizes(l) /\ SumOfSizes(l) \in Nat
<1>1. l \in Seq(AnyBlocks) /\ Len(l) \in Nat /\ SumOfSizes(l) \in Nat
  BY GoodIsAny, ListFacts DEF Sized
<1>2. CASE c.blk = Len(l) + 1
  BY <1>1, <1>2 DEF CursorIn
<1>3. CASE c.blk # Len(l) + 1
  <2>1. PICK i \in 1 .. Len(l) : i = c.blk
    BY <1>1, <1>3 DEF CursorIn
  <2>2. PICK before \in Nat : before = Ends(l)[i - 1]
    BY <1>1, PlaceInList
  <2>3. PICK data \in Nat : data = l[i].m_data
    BY <1>1, PlaceInList
  <2>4. PICK size \in Nat : size = l[i].m_size
    BY <1>1, PlaceInList
  <2>5. PICK off \in data .. data + size - 1 : off = c.off
    BY <1>1, <2>1, <2>3, <2>4 DEF CursorIn
  <2>6. c.pos = before + off - data
    BY <1>1, <2>1, <2>2, <2>3, <2>5 DEF CursorIn
  <2>7. before + size <= SumOfSizes(l)
    BY <1>1, <2>2, <2>4, PlaceInList
  <2>8. before + off - data \in Nat /\ before + off - data <= before + size
    BY <2>5
  <2> QED
    BY <1>1, <2>6, <2>7, <2>8
<1> QED
  BY <1>2, <1>3

(* seek: the position is the offset.                                       *)
LEMMA seekShows ==
  ASSUME PktInv, NEW p \in Pkts, NEW offset \in Nat, seek(p, offset)
  PROVE  Abstract!Next
<1>1. Usable(p) /\ cur[p] # NoCursor /\ out' = <<>> /\ list' = list
  BY DEF seek
<1>2. list[p] \in Seq(GoodBlocks) /\ cur[p] \in Cursors /\ CursorIn(list[p], cur[p])
  BY <1>1, UsableIs
<1>3. PICK v \in Cursors : CursorIn(list[p], v) /\ cur' = [cur EXCEPT ![p] = v]
  BY SeekMoves
<1>4. cur'[p] = v /\ \A q \in Pkts : q # p => cur'[q] = cur[q]
  BY <1>3, CursorTyped
<1>5. cur'[p].pos \in 0 .. Len(Content(list[p]))
  <2>1. Len(Content(list[p])) = SumOfSizes(list[p])
    BY <1>2, GoodIsAny, ContentTyped
  <2> QED
    BY <1>2, <1>3, <1>4, <2>1, CursorPos
<1>6. cur[p].pos # -1
  BY <1>2, CursorPos
<1>7. OthersKeep({p})
  BY <1>1, <1>4 DEF OthersKeep
<1> QED
  BY <1>1, <1>5, <1>6, <1>7, AbstractSeek

(* What Ahead gives: the cells of the n bytes at the cursor, and a cursor  *)
(* after them.                                                             *)
LEMMA AheadMoves ==
  ASSUME PktInv, NEW p \in Pkts, NEW n \in Nat, CanMove(p, n)
  PROVE  /\ CellsAfter(list[p], Ahead(p, n).cells, cur[p].pos, n)
         /\ Ahead(p, n).cur.pos = cur[p].pos + n /\ cur[p].pos \in Nat
<1>1. Usable(p) /\ cur[p] # NoCursor /\ m_capacity[p] - cur[p].pos >= n
  BY DEF CanMove
<1>2. /\ list[p] \in Seq(GoodBlocks) /\ m_capacity[p] = SumOfSizes(list[p]) /\ m_capacity[p] \in Nat
      /\ cur[p] \in Cursors /\ CursorIn(list[p], cur[p])
  BY <1>1, UsableIs
<1>3. PICK x \in Nat : x = cur[p].pos
  BY <1>2, CursorPos
<1>4. x + n <= SumOfSizes(list[p])
  BY <1>1, <1>2, <1>3
<1>5. PICK v : v = Ahead(p, n) /\ v \in Visits(list[p], cur[p], n) /\ v.left = 0
  BY <1>2, <1>3, <1>4, VisitIs DEF Ahead
<1>6. v.cells \in Seq(CellsIn(list[p])) /\ VisitOK(list[p], cur[p], n, v)
  BY <1>5 DEF Visits
<1>7. /\ v.cur.pos = x + Len(v.cells) /\ Len(v.cells) + v.left = n
      /\ \A j \in 1 .. Len(v.cells) : v.cells[j] = CellsOf(list[p])[x + j]
  BY <1>3, <1>6 DEF VisitOK
<1>8. Len(v.cells) = n
  BY <1>5, <1>6, <1>7, LenProperties
<1>9. CellsAfter(list[p], v.cells, x, n)
  BY <1>4, <1>6, <1>7, <1>8 DEF CellsAfter
<1> QED
  BY <1>3, <1>5, <1>7, <1>8, <1>9

(* write: the bytes at the position are replaced.                          *)
LEMMA writeShows ==
  ASSUME PktInv, NEW p \in Pkts, NEW src \in Seq(Bytes), write(p, src)
  PROVE  Abstract!Next
<1>1. /\ CanMove(p, Len(src))
      /\ list' = [list EXCEPT ![p] = Stored(list[p], Ahead(p, Len(src)).cells, src)]
      /\ cur' = [cur EXCEPT ![p] = Ahead(p, Len(src)).cur]
      /\ out' = src
  BY DEF write
<1>2. Len(src) \in Nat
  BY LenProperties
<1>3. PICK v : v = Ahead(p, Len(src))
  OBVIOUS
<1>4. Usable(p) /\ v.cur \in Cursors
  BY <1>1, <1>2, <1>3, AheadIs
<1>5. PICK x \in Nat : x = cur[p].pos /\ CellsAfter(list[p], v.cells, x, Len(src)) /\ v.cur.pos = x + Len(src)
  BY <1>1, <1>2, <1>3, AheadMoves
<1>6. PICK m : m = Stored(list[p], v.cells, src)
  OBVIOUS
<1>7. list[p] \in Seq(GoodBlocks)
  BY <1>4, UsableIs
<1>8. Content(m) = Overwritten(Content(list[p]), x, src)
  BY <1>5, <1>6, <1>7, BytesStoredAre
<1>9. cur'[p] = v.cur /\ \A q \in Pkts : q # p => cur'[q] = cur[q]
  BY <1>1, <1>3, <1>4, CursorTyped
<1>10. list'[p] = m /\ \A q \in Pkts : q # p => list'[q] = list[q]
  BY <1>1, <1>3, <1>6 DEF PktInv, Typed
<1>11. OthersKeep({p})
  BY <1>9, <1>10 DEF OthersKeep
<1>12. Passes(p)
  BY <1>1, <1>5, <1>9 DEF Passes
<1>13. Content(list'[p]) = Overwritten(Content(list[p]), cur[p].pos, out')
  BY <1>1, <1>5, <1>8, <1>10
<1> QED
  BY <1>11, <1>12, <1>13, AbstractWrite

(* fill: write of equal bytes.                                             *)
LEMMA fillShows ==
  ASSUME PktInv, NEW p \in Pkts, NEW v \in Bytes, NEW n \in Nat, fill(p, v, n)
  PROVE  Abstract!Next
<1>1. PICK s : s = [i \in 1 .. n |-> v]
  OBVIOUS
<1>2. s \in [1 .. n -> Bytes]
  BY <1>1
<1>3. s \in Seq(Bytes)
  BY <1>2, FunctionIsSeq
<1>4. write(p, s)
  BY <1>1 DEF fill
<1> QED
  BY <1>3, <1>4, writeShows

(* read: what is read is what is there.                                    *)
LEMMA readShows ==
  ASSUME PktInv, NEW p \in Pkts, NEW n \in Nat, read(p, n)
  PROVE  Abstract!Next
<1>1. /\ CanMove(p, n) /\ out' = BytesAt(list[p], Ahead(p, n).cells)
      /\ cur' = [cur EXCEPT ![p] = Ahead(p, n).cur] /\ list' = list
  BY DEF read
<1>2. PICK v : v = Ahead(p, n)
  OBVIOUS
<1>3. /\ Usable(p) /\ v.cells \in Seq(CellsIn(list[p])) /\ Len(v.cells) = n /\ v.cur \in Cursors
  BY <1>1, <1>2, AheadIs
<1>4. PICK x \in Nat : x = cur[p].pos /\ CellsAfter(list[p], v.cells, x, n) /\ v.cur.pos = x + n
  BY <1>1, <1>2, AheadMoves
<1>5. list[p] \in Seq(GoodBlocks)
  BY <1>3, UsableIs
<1>6. out' = SubSeq(Content(list[p]), x + 1, x + n)
  BY <1>1, <1>2, <1>4, <1>5, BytesReadAre
<1>7. Len(out') = n
  BY <1>1, <1>2, <1>3, <1>5, BytesTyped, GoodIsAny
<1>8. cur'[p] = v.cur /\ \A q \in Pkts : q # p => cur'[q] = cur[q]
  BY <1>1, <1>2, <1>3, CursorTyped
<1>9. OthersKeep({p})
  BY <1>1, <1>8 DEF OthersKeep
<1>10. Passes(p)
  BY <1>4, <1>7, <1>8 DEF Passes
<1> QED
  BY <1>1, <1>4, <1>6, <1>8, <1>9, <1>10, AbstractRead

(* copy: one packet's bytes replace another's.                             *)
LEMMA copyShows ==
  ASSUME PktInv, NEW p \in Pkts, NEW q \in Pkts, NEW n \in Nat, copy(p, q, n)
  PROVE  Abstract!Next
<1>1. /\ p # q /\ CanMove(p, n) /\ CanMove(q, n)
      /\ out' = BytesAt(list[q], Ahead(q, n).cells)
      /\ list' = [list EXCEPT ![p] = Stored(list[p], Ahead(p, n).cells, out')]
      /\ cur' = [cur EXCEPT ![p] = Ahead(p, n).cur, ![q] = Ahead(q, n).cur]
  BY DEF copy
<1>2. PICK v : v = Ahead(p, n)
  OBVIOUS
<1>3. PICK w : w = Ahead(q, n)
  OBVIOUS
<1>4. Usable(p) /\ Usable(q) /\ w.cells \in Seq(CellsIn(list[q])) /\ Len(w.cells) = n
  BY <1>1, <1>2, <1>3, AheadIs
<1>5. PICK x \in Nat : x = cur[p].pos /\ CellsAfter(list[p], v.cells, x, n) /\ v.cur.pos = x + n
  BY <1>1, <1>2, AheadMoves
<1>6. PICK y \in Nat : y = cur[q].pos /\ CellsAfter(list[q], w.cells, y, n) /\ w.cur.pos = y + n
  BY <1>1, <1>3, AheadMoves
<1>7. list[p] \in Seq(GoodBlocks) /\ list[q] \in Seq(GoodBlocks)
  BY <1>4, UsableIs
<1>8. PICK s : s = BytesAt(list[q], w.cells) /\ s \in Seq(Bytes) /\ Len(s) = n
  BY <1>4, <1>7, BytesTyped, GoodIsAny
<1>9. s = SubSeq(Content(list[q]), y + 1, y + n)
  <2>1. BytesAt(list[q], w.cells) = SubSeq(Content(list[q]), y + 1, y + n)
    <3>1. PICK cells : cells = w.cells
      OBVIOUS
    <3>2. CellsAfter(list[q], cells, y, n) /\ list[q] \in Seq(GoodBlocks)
      BY <1>6, <1>7, <3>1
    <3>3. BytesAt(list[q], cells) = SubSeq(Content(list[q]), y + 1, y + n)
      BY <3>2, BytesReadAre
    <3> QED
      BY <3>1, <3>3
  <2> QED
    BY <1>8, <2>1
<1>10. PICK m : m = Stored(list[p], v.cells, s)
  OBVIOUS
<1>11. Content(m) = Overwritten(Content(list[p]), x, s)
  BY <1>5, <1>7, <1>8, <1>10, BytesStoredAre
<1>12. out' = s
  BY <1>1, <1>3, <1>8
<1>13. list'[p] = m /\ \A r \in Pkts : r # p => list'[r] = list[r]
  <2>1. list' = [list EXCEPT ![p] = m]
    BY <1>1, <1>2, <1>10, <1>12
  <2> QED
    BY <2>1 DEF PktInv, Typed
<1>14. /\ cur'[p] = v.cur /\ cur'[q] = w.cur
       /\ \A r \in Pkts : r # p /\ r # q => cur'[r] = cur[r]
  BY <1>1, <1>2, <1>3 DEF PktInv, Typed
<1>15. OthersKeep({p, q})
  BY <1>13, <1>14 DEF OthersKeep
<1>16. Passes(p) /\ Passes(q)
  BY <1>5, <1>6, <1>8, <1>12, <1>14 DEF Passes
<1>17. out' = SubSeq(Content(list[q]), cur[q].pos + 1, cur'[q].pos)
  BY <1>6, <1>9, <1>12, <1>14
<1>18. Content(list'[p]) = Overwritten(Content(list[p]), cur[p].pos, out')
  BY <1>5, <1>11, <1>12, <1>13
<1>19. list'[q] = list[q]
  BY <1>1, <1>13
<1> QED
  BY <1>1, <1>15, <1>16, <1>17, <1>18, <1>19, AbstractCopy

(* The abstract initial state.                                             *)
LEMMA InitShows == Init => Abstract!Init
<1> SUFFICES ASSUME Init PROVE Abstract!Init
  OBVIOUS
<1>1. list = [p \in Pkts |-> <<>>] /\ cur = [p \in Pkts |-> NoCursor] /\ out = <<>>
  BY DEF Init
<1>2. PICK e : e = <<>> /\ e \in Seq(AnyBlocks) /\ SumOfSizes(e) = 0
  BY NoBlocks
<1>3. Content(e) = <<>>
  BY <1>2, ContentTyped, EmptySeq
<1>4. [p \in Pkts |-> Content(list[p])] = [p \in Pkts |-> <<>>]
  BY <1>1, <1>2, <1>3
<1>5. [p \in Pkts |-> cur[p].pos] = [p \in Pkts |-> -1]
  BY <1>1 DEF NoCursor
<1> QED
  BY <1>1, <1>4, <1>5 DEF Abstract!Init, Abstract!NoPos

(* A call that changes a packet's list.                                    *)
LEMMA ReshapeShows ==
  ASSUME PktInv, NEW p \in Pkts, Reshape(p)
  PROVE  Abstract!Next \/ UNCHANGED vars
<1>1. CASE get_pktbuffer(p) \/ ResetAccess(p)
  BY <1>1, get_pktbufferShows, ResetAccessShows
<1>2. CASE free(p) \/ ResizeToNone(p)
  BY <1>2, freeShows DEF ResizeToNone
<1>3. ASSUME NEW n \in 1 .. MaxSize,
             \/ AllocFails(p, n) \/ remove_header(p, n) \/ set_cont_header(p, n)
             \/ ResizeEmpty(p, n) \/ ResizeGrow(p, n) \/ ResizeShrink(p, n)
      PROVE  Abstract!Next \/ UNCHANGED vars
  <2>1. n \in Nat /\ n >= 1
    BY PktBufAssumption
  <2>2. CASE AllocFails(p, n)
    BY <2>2 DEF AllocFails
  <2> QED
    BY <1>3, <2>1, <2>2, remove_headerShows, set_cont_headerShows, ResizeEmptyShows, ResizeGrowShows,
       ResizeShrinkShows
<1>4. ASSUME NEW n \in 1 .. MaxSize,
             \/ \E front, insert \in BOOLEAN : alloc(p, n, front, insert)
             \/ HeaderFits(p, n) \/ HeaderBlock(p, n) \/ HeaderNoBlock(p, n)
             \/ HeaderSplit(p, n) \/ ResizeInPlace(p, n)
      PROVE  Abstract!Next
  <2>1. n \in Nat /\ n >= 1
    BY PktBufAssumption
  <2> QED
    BY <1>4, <2>1, allocShows, HeaderFitsShows, HeaderBlockShows, HeaderNoBlockShows, HeaderSplitShows,
       ResizeInPlaceShows
<1> QED
  BY <1>1, <1>2, <1>3, <1>4 DEF Reshape

(* Every step is one of the packet's string of bytes, or does not show.    *)
LEMMA StepShows ==
  ASSUME PktInv, [Next]_vars
  PROVE  Abstract!Next \/ UNCHANGED vars
<1>1. CASE UNCHANGED vars
  BY <1>1
<1>2. ASSUME NEW p \in Pkts, Reshape(p) PROVE Abstract!Next \/ UNCHANGED vars
  BY <1>2, ReshapeShows
<1>3. ASSUME NEW p \in Pkts, Access(p) PROVE Abstract!Next
  <2>1. ASSUME NEW n \in 1 .. MaxSize, read(p, n) \/ write(p, Source(n)) \/ \E v \in Bytes : fill(p, v, n)
        PROVE  Abstract!Next
    <3>1. n \in Nat
      BY PktBufAssumption
    <3> QED
      BY <2>1, <3>1, SourceTyped, readShows, writeShows, fillShows
  <2>2. ASSUME NEW offset \in 0 .. MaxCap, seek(p, offset) PROVE Abstract!Next
    <3>1. offset \in Nat
      BY PktBufAssumption
    <3> QED
      BY <2>2, <3>1, seekShows
  <2> QED
    BY <1>3, <2>1, <2>2 DEF Access
<1>4. ASSUME NEW p \in Pkts, NEW q \in Pkts, Combine(p, q) PROVE Abstract!Next
  <2>1. ASSUME NEW n \in 1 .. MaxSize, copy(p, q, n) PROVE Abstract!Next
    <3>1. n \in Nat
      BY PktBufAssumption
    <3> QED
      BY <2>1, <3>1, copyShows
  <2> QED
    BY <1>4, <2>1, merge_bufShows DEF Combine
<1> QED
  BY <1>1, <1>2, <1>3, <1>4 DEF Next

(* A packet is a string of bytes: how it is cut into blocks, where their   *)
(* gaps are and the walk from block to block never show, to any call.      *)
THEOREM PacketImplementsBytes == Spec => ImplementsBytes
<1>1. Init => Abstract!Init
  BY InitShows
<1>2. PktInv /\ [Next]_vars
        => [Abstract!Next]_<<[p \in Pkts |-> Content(list[p])], [p \in Pkts |-> cur[p].pos], out>>
  <2> SUFFICES ASSUME PktInv, [Next]_vars
               PROVE  \/ Abstract!Next
                      \/ UNCHANGED <<[p \in Pkts |-> Content(list[p])], [p \in Pkts |-> cur[p].pos], out>>
    OBVIOUS
  <2>1. CASE Abstract!Next
    BY <2>1
  <2>2. CASE UNCHANGED vars
    BY <2>2 DEF vars
  <2> QED
    BY <2>1, <2>2, StepShows
<1> QED
  BY <1>1, <1>2, PktInvariant, PTL DEF Spec, ImplementsBytes, Abstract!Spec
==============================================================================
