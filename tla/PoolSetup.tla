------------------------------ MODULE PoolSetup ------------------------------
(***************************************************************************)
(* How a memory pool comes to life: LockFreeRingQueue's constructor rounds *)
(* the configured count up to a power of two, MemBlock's pushes that many  *)
(* blocks into the ring, PktManager's initialises blocks by rotating the   *)
(* ring once per configured block, and from then on blocks are taken and   *)
(* given back.  One thread throughout; uint32_t is IndexBits wide here, so *)
(* that the ring indices and the rounding really do wrap.                  *)
(***************************************************************************)
EXTENDS Words, Sequences, FiniteSets

CONSTANTS Counts,   \* configured counts (tcp.pktbuf_blk_cnt)
          MaxHeld   \* bound of the model: blocks out of the pool at once

ASSUME SetupAssumption ==
  /\ Counts \subseteq 1 .. Power[IndexBits - 1] /\ Counts # {}
  /\ MaxHeld \in Nat \ {0}

VARIABLES
  cnt,             \* the configured count
  m_size,          \* slots of the ring
  m_read_index, m_write_index,
  pool,            \* the blocks in the ring, next one to be taken first
  held,            \* blocks taken and not given back
  inits,           \* how often PktBlock::init ran on each block
  phase, i         \* constructor in progress, and its loop counter

vars == <<cnt, m_size, m_read_index, m_write_index, pool, held, inits, phase, i>>

(***************************************************************************)
(* Sizing of the ring                                                      *)
(***************************************************************************)
is_power_of_two(num) == num # 0 /\ And(num, wrap(num - 1)) = 0

(* num |= num >> 1, 2, 4, ...: every bit below the highest set bit is set. *)
Smeared(num) ==
  LET step[k \in 0 .. IndexBits] ==
        IF k = 0 THEN num
        ELSE Or(step[k - 1], ShiftRight(step[k - 1], Power[k - 1]))
  IN  step[CHOOSE k \in 0 .. IndexBits : Power[k] >= IndexBits]

\* Mutant of ceil_power_of_two: the lower bits are kept.
ceil_all_bits(num) == Smeared(num)

ceil_power_of_two(num) == Smeared(num) - ShiftRight(Smeared(num), 1)

round_uppower_of_two(num) == ceil_power_of_two(wrap((num - 1) * 2))

\* Mutant of RingSize: the configured count is taken as it is.
RingSizeUnrounded(size) == IF size <= 1 THEN 2 ELSE size

RingSize(size) ==
  IF size <= 1 THEN 2
  ELSE IF is_power_of_two(size) THEN size ELSE round_uppower_of_two(size)

index_of_queue(n) == And(n, m_size - 1)

(***************************************************************************)
(* The ring, used by one thread                                            *)
(***************************************************************************)
Full  == index_of_queue(wrap(m_write_index + 1)) = index_of_queue(m_read_index)
EmptyRing == index_of_queue(m_write_index) = index_of_queue(m_read_index)

(* push(b); its result is lost where the caller does not look at it.       *)
Push(b) ==
  IF Full THEN UNCHANGED <<m_write_index, pool>>
  ELSE /\ m_write_index' = wrap(m_write_index + 1)
       /\ pool' = Append(pool, b)

(* pop() takes b; only where the ring is not empty.                        *)
Pop(b) ==
  /\ ~ EmptyRing /\ b = Head(pool)
  /\ m_read_index' = wrap(m_read_index + 1)
  /\ pool' = Tail(pool)

Init ==
  /\ cnt \in Counts
  /\ m_size = RingSize(cnt)
  /\ m_read_index = 0 /\ m_write_index = 0
  /\ pool = <<>> /\ held = {}
  /\ inits = [b \in 1 .. m_size |-> 0]
  /\ phase = "fill" /\ i = 0

(* MemBlock::MemBlock pushes one block per slot.                           *)
FillPool ==
  /\ phase = "fill" /\ i < m_size
  /\ Push(i + 1)
  /\ i' = i + 1
  /\ UNCHANGED <<cnt, m_size, m_read_index, held, inits, phase>>

FillDone ==
  /\ phase = "fill" /\ i = m_size
  /\ phase' = "init" /\ i' = 0
  /\ UNCHANGED <<cnt, m_size, m_read_index, m_write_index, pool, held, inits>>

\* Mutant of InitBlock: the pool gives back last what it got last.
InitBlockStack ==
  /\ phase = "init" /\ i < cnt
  /\ ~ EmptyRing
  /\ inits' = [inits EXCEPT ![Head(pool)] = @ + 1]
  /\ i' = i + 1
  /\ UNCHANGED <<cnt, m_size, m_read_index, m_write_index, pool, held, phase>>

(* PktManager::PktManager takes a block, initialises it and gives it back. *)
InitBlock ==
  /\ phase = "init" /\ i < cnt
  /\ ~ EmptyRing
  /\ m_read_index' = wrap(m_read_index + 1)
  /\ m_write_index' = wrap(m_write_index + 1)
  /\ pool' = Append(Tail(pool), Head(pool))
  /\ inits' = [inits EXCEPT ![Head(pool)] = @ + 1]
  /\ i' = i + 1
  /\ UNCHANGED <<cnt, m_size, held, phase>>

InitDone ==
  /\ phase = "init" /\ i = cnt
  /\ phase' = "ready" /\ i' = 0
  /\ UNCHANGED <<cnt, m_size, m_read_index, m_write_index, pool, held, inits>>

alloc(b) ==
  /\ phase = "ready" /\ Cardinality(held) < MaxHeld
  /\ Pop(b)
  /\ held' = held \cup {b}
  /\ UNCHANGED <<cnt, m_size, m_write_index, inits, phase, i>>

\* Mutant of free: the block is not pushed back.
free_lost(b) ==
  /\ phase = "ready" /\ b \in held
  /\ held' = held \ {b}
  /\ UNCHANGED <<cnt, m_size, m_read_index, m_write_index, pool, inits, phase, i>>

free(b) ==
  /\ phase = "ready" /\ b \in held
  /\ Push(b)
  /\ held' = held \ {b}
  /\ UNCHANGED <<cnt, m_size, m_read_index, inits, phase, i>>

Next ==
  \/ FillPool \/ FillDone \/ InitBlock \/ InitDone
  \/ \E b \in 1 .. m_size : alloc(b) \/ free(b)

Spec == Init /\ [][Next]_vars
------------------------------------------------------------------------------
PowersOfTwo == {Power[k] : k \in 1 .. IndexBits - 1}

(* The bit tricks of round_uppower_of_two (l.150-162) give the least power *)
(* of two, at least 2, that holds the configured count.                    *)
RingSizeIsLeastPower ==
  m_size \in PowersOfTwo /\ m_size >= cnt /\ \A p \in PowersOfTwo : p >= cnt => m_size <= p

(* Masking the wrapping indices (l.81, l.114, l.165) keeps telling a full, *)
(* an empty and any other ring apart after m_write_index has wrapped.      *)
TestsSurviveWrap ==
  /\ EmptyRing <=> pool = <<>>
  /\ Full <=> Len(pool) = m_size - 1

(* MemBlock pushes m_size blocks, but one slot stays empty: exactly one    *)
(* block is never handed out, the others are pooled or held, once each.    *)
OneBlockUnused ==
  phase # "fill" =>
    /\ {pool[k] : k \in DOMAIN pool} \cup held = 1 .. m_size - 1
    /\ Len(pool) + Cardinality(held) = m_size - 1

(* Where the count is a power of two, or one less, every block that is     *)
(* handed out was initialised, and at most one of them twice.              *)
PowerOfTwoCountInitialisesAll ==
  phase = "ready" /\ cnt >= m_size - 1 =>
    /\ \A b \in 1 .. m_size - 1 : inits[b] >= 1
    /\ Cardinality({b \in 1 .. m_size : inits[b] > 1}) <= 1
==============================================================================
