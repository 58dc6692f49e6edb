------------------------------- MODULE PktBuf -------------------------------
(***************************************************************************)
(* PktBuffer (src/src/net/pktbuf.cc): a packet as a list of blocks of      *)
(* fixed size, each with a gap before and after its data, and a cursor for *)
(* reading and writing.  Every call runs to its end on one thread; the     *)
(* packets share the pool of blocks.                                       *)
(*                                                                         *)
(* Left out: add_ref, which nobody calls, so that free always releases; in *)
(* which order the pool hands out its blocks: here one that depends only   *)
(* on which are free; and what a block holds from its last use: here       *)
(* zeros.  As the callers do (netif.cc:356, network.cc:242), the cursor is *)
(* used only after reset_access when the list has changed: until then it   *)
(* is NoCursor.  A call that puts a pointer other than a block's into the  *)
(* pool ends the behaviour (garbage): the get_pktblock that finds it       *)
(* dereferences it.                                                        *)
(***************************************************************************)
EXTENDS Integers, Sequences, FiniteSets, SequencesExt

CONSTANTS
  Pkts,      \* packet buffers
  NumBlks,   \* blocks in the pool
  BlkSize,   \* g_pktbuf_blk_size
  MaxSize,   \* bound of the model: size arguments of a call
  MaxCap,    \* bound of the model: bytes of a packet
  Bytes      \* values of a byte

ASSUME PktBufAssumption ==
  /\ NumBlks \in Nat /\ BlkSize \in Nat \ {0}
  /\ MaxSize \in Nat /\ MaxCap \in Nat
  /\ IsFiniteSet(Bytes) /\ 0 \in Bytes /\ Bytes = 0 .. Cardinality(Bytes) - 1

Blks == 1 .. NumBlks
Payload == [0 .. BlkSize - 1 -> Bytes]

(* A PktBlock in a list: which one it is, where its data starts in its     *)
(* payload, its length, and the payload.                                   *)
Block(b, data, size) ==
  [blk |-> b, m_data |-> data, m_size |-> size, mem |-> [o \in 0 .. BlkSize - 1 |-> 0]]

NullBlock == Block(0, 0, 0)    \* a nullptr in a block list
NoCursor == [pos |-> -1, blk |-> 0, off |-> 0]

VARIABLES
  pool,           \* free blocks
  live,           \* packets taken from the packet pool
  list,           \* m_blk_list of each packet
  m_capacity,
  cur,            \* m_pos, m_cur_blk (as an index of the list), m_blk_offset
  out,            \* history: the bytes the last write, fill, read or copy moved
  leaked,         \* history: blocks in neither a list nor the pool
  garbage         \* a pointer that is no block's was put into the pool

vars == <<pool, live, list, m_capacity, cur, out, leaked, garbage>>

Init ==
  /\ pool = Blks /\ live = {} /\ list = [p \in Pkts |-> <<>>]
  /\ m_capacity = [p \in Pkts |-> 0] /\ cur = [p \in Pkts |-> NoCursor]
  /\ out = <<>> /\ leaked = {} /\ garbage = FALSE

(* The caller may work on p: a null block is dereferenced by all but free. *)
Usable(p) == ~ garbage /\ p \in live /\ NullBlock \notin Range(list[p])

(* The bytes in the first i blocks of a list, for each i.                  *)
Ends(l) ==
  LET upto[i \in 0 .. Len(l)] == IF i = 0 THEN 0 ELSE upto[i - 1] + l[i].m_size IN upto
SumOfSizes(l) == Ends(l)[Len(l)]
Lesser(x, y) == IF x < y THEN x ELSE y

------------------------------------------------------------------------------
(* Cursor                                                                  *)
reset_access(l) == [pos |-> 0, blk |-> 1, off |-> IF l = <<>> THEN 0 ELSE l[1].m_data]
NoLongerValid(P) == cur' = [p \in Pkts |-> IF p \in P THEN NoCursor ELSE cur[p]]

cur_blk_remain_size(l, c) ==
  IF c.blk > Len(l) THEN 0 ELSE l[c.blk].m_data + l[c.blk].m_size - c.off

move_forward(l, c, n) ==
  IF n < cur_blk_remain_size(l, c)
  THEN [pos |-> c.pos + n, blk |-> c.blk, off |-> c.off + n]
  ELSE [pos |-> c.pos + n, blk |-> c.blk + 1,
        off |-> IF c.blk < Len(l) THEN l[c.blk + 1].m_data ELSE 0]

(* The loop of write, read, fill, copy and seek: the cells, as block and   *)
(* offset, that it visits in list l from cursor c on until n bytes are     *)
(* done, and the cursor it leaves.  A turn ends the loop or a block.       *)
Visit(l, c, n) ==
  LET turn[i \in 0 .. Len(l)] ==
        IF i = 0 THEN [cells |-> <<>>, cur |-> c, left |-> n]
        ELSE LET v == turn[i - 1]
                 k == Lesser(v.left, cur_blk_remain_size(l, v.cur))
             IN  IF v.left = 0 \/ v.cur.blk > Len(l) THEN v
                 ELSE [cells |-> v.cells \o [o \in 1 .. k |-> <<v.cur.blk, v.cur.off + o - 1>>],
                       cur |-> move_forward(l, v.cur, k), left |-> v.left - k]
  IN  turn[Len(l)]

(* All cells of the list, in order, and the bytes in some of them.         *)
CellsOf(l) ==
  LET upto[i \in 0 .. Len(l)] ==
        IF i = 0 THEN <<>>
        ELSE upto[i - 1] \o [o \in 1 .. l[i].m_size |-> <<i, l[i].m_data + o - 1>>]
  IN  upto[Len(l)]
BytesAt(l, cells) == [j \in DOMAIN cells |-> l[cells[j][1]].mem[cells[j][2]]]
Content(l) == BytesAt(l, CellsOf(l))

(* The list after a memcpy of s into the cells.                            *)
Stored(l, cells, s) ==
  [i \in DOMAIN l |-> [l[i] EXCEPT !.mem = [o \in DOMAIN @ |->
     IF \E j \in DOMAIN cells : cells[j] = <<i, o>>
     THEN s[CHOOSE j \in DOMAIN cells : cells[j] = <<i, o>>]
     ELSE @[o]]]]

------------------------------------------------------------------------------
(* Blocks                                                                  *)
Free(n) == SubSeq(SetToSeq(pool), 1, n)
BlksFor(n) == (n + BlkSize - 1) \div BlkSize

\* Mutant of CanAlloc: a negative size asks for nothing.
CanAllocSigned(n) == BlksFor(n) <= Cardinality(pool)

(* Whether alloc(n) finds the blocks.  A difference below zero wraps to    *)
(* more bytes than there are blocks for.                                   *)
CanAlloc(n) == n >= 0 /\ BlksFor(n) <= Cardinality(pool)

(* The successful alloc(n, alloc_front, insert_front) for p, to whose list *)
(* l and capacity the caller has already changed them: full blocks and a   *)
(* remainder, which is the first of them if alloc_front, else the last.    *)
DoAlloc(p, n, alloc_front, insert_front, l, capacity) ==
  LET k     == BlksFor(n)
      free  == Free(k)
      part(i) == IF i < k THEN BlkSize ELSE n - (k - 1) * BlkSize
      taken == [i \in 1 .. k |->
                 Block(free[i], IF alloc_front THEN BlkSize - part(i) ELSE 0, part(i))]
      new   == IF alloc_front THEN Reverse(taken) ELSE taken
  IN  /\ pool' = pool \ Range(free)
      /\ list' = [list EXCEPT ![p] = IF insert_front THEN new \o l ELSE l \o new]
      /\ m_capacity' = [m_capacity EXCEPT ![p] = capacity + n]
      /\ cur' = [cur EXCEPT ![p] = reset_access(list'[p])]

(* get_pktbuffer: reset sets the capacity only.                            *)
get_pktbuffer(p) ==
  /\ ~ garbage /\ p \notin live
  /\ live' = live \cup {p}
  /\ m_capacity' = [m_capacity EXCEPT ![p] = 0]
  /\ NoLongerValid({p}) /\ out' = <<>>
  /\ UNCHANGED <<pool, list, leaked, garbage>>

ResetAccess(p) ==
  /\ Usable(p)
  /\ cur' = [cur EXCEPT ![p] = reset_access(list[p])] /\ out' = <<>>
  /\ UNCHANGED <<pool, live, list, m_capacity, leaked, garbage>>

alloc(p, n, alloc_front, insert_front) ==
  /\ Usable(p) /\ CanAlloc(n)
  /\ DoAlloc(p, n, alloc_front, insert_front, list[p], m_capacity[p])
  /\ out' = <<>>
  /\ UNCHANGED <<live, leaked, garbage>>

(* Without enough blocks, those taken so far go back.                      *)
AllocFails(p, n) == Usable(p) /\ ~ CanAlloc(n) /\ UNCHANGED vars

free(p) ==
  /\ ~ garbage /\ p \in live
  /\ live' = live \ {p}
  /\ list' = [list EXCEPT ![p] = <<>>]
  /\ pool' = pool \cup {b.blk : b \in Range(list[p]) \ {NullBlock}}
  /\ garbage' = (NullBlock \in Range(list[p]))
  /\ m_capacity' = [m_capacity EXCEPT ![p] = 0]
  /\ NoLongerValid({p}) /\ out' = <<>>
  /\ UNCHANGED leaked

------------------------------------------------------------------------------
(* Headers                                                                 *)
GrowFront(l, n) ==
  [l EXCEPT ![1] = [l[1] EXCEPT !.m_data = l[1].m_data - n, !.m_size = l[1].m_size + n]]

(* alloc_header(n, is_cont) where the gap of the first block suffices.     *)
HeaderFits(p, n) ==
  /\ Usable(p) /\ list[p] # <<>> /\ list[p][1].m_data >= n
  /\ list' = [list EXCEPT ![p] = GrowFront(@, n)]
  /\ m_capacity' = [m_capacity EXCEPT ![p] = @ + n]
  /\ NoLongerValid({p}) /\ out' = <<>>
  /\ UNCHANGED <<pool, live, leaked, garbage>>

(* ... where it does not, and the header has to be contiguous: a block of  *)
(* its own.                                                                *)
HeaderBlock(p, n) ==
  /\ Usable(p) /\ list[p] # <<>> /\ list[p][1].m_data < n /\ n <= BlkSize
  /\ pool # {}
  /\ LET b == Free(1)[1] IN
       /\ pool' = pool \ {b}
       /\ list' = [list EXCEPT ![p] = <<Block(b, BlkSize - n, n)>> \o @]
  /\ m_capacity' = [m_capacity EXCEPT ![p] = @ + n]
  /\ NoLongerValid({p}) /\ out' = <<>>
  /\ UNCHANGED <<live, leaked, garbage>>

(* The block is linked into the list before it is tested for null.         *)
HeaderNoBlock(p, n) ==
  /\ Usable(p) /\ list[p] # <<>> /\ list[p][1].m_data < n /\ n <= BlkSize
  /\ pool = {}
  /\ list' = [list EXCEPT ![p] = <<NullBlock>> \o @]
  /\ NoLongerValid({p}) /\ out' = <<>>
  /\ UNCHANGED <<pool, live, m_capacity, leaked, garbage>>

(* ... and need not be contiguous: the gap is filled, the rest allocated.  *)
(* If that fails the packet has grown by the gap all the same.             *)
HeaderSplit(p, n) ==
  LET gap == list[p][1].m_data
      l   == GrowFront(list[p], gap)
  IN
  /\ Usable(p) /\ list[p] # <<>> /\ gap < n
  /\ IF CanAlloc(n - gap) THEN DoAlloc(p, n - gap, TRUE, TRUE, l, m_capacity[p] + gap)
     ELSE /\ list' = [list EXCEPT ![p] = l]
          /\ m_capacity' = [m_capacity EXCEPT ![p] = @ + gap]
          /\ NoLongerValid({p}) /\ UNCHANGED pool
  /\ out' = <<>>
  /\ UNCHANGED <<live, leaked, garbage>>

(* The number of blocks of l whose bytes are all among the first n.        *)
Gone(l, n) == CHOOSE k \in 0 .. Len(l) : Ends(l)[k] <= n /\ (k < Len(l) => n < Ends(l)[k + 1])

\* Mutant of CutFront: a block that is cut is shortened at its end.
CutBack(l, n) ==
  LET k == Gone(l, n)
      d == n - Ends(l)[k]
      rest == SubSeq(l, k + 1, Len(l))
  IN  IF d = 0 THEN rest ELSE [rest EXCEPT ![1] = [rest[1] EXCEPT !.m_size = rest[1].m_size - d]]

(* List l with n bytes cut off its front: blocks that are emptied go.      *)
CutFront(l, n) ==
  LET k == Gone(l, n)
      d == n - Ends(l)[k]
      rest == SubSeq(l, k + 1, Len(l))
  IN  IF d = 0 THEN rest ELSE GrowFront(rest, - d)

\* Mutant of Emptied: the block that is only cut is given back too.
EmptiedAndCut(l, n) == {l[i].blk : i \in {k \in DOMAIN l : k = 1 \/ Ends(l)[k - 1] < n}}

Emptied(l, n) == {l[i].blk : i \in 1 .. Gone(l, n)}

(* The callers remove no more than there is.                               *)
remove_header(p, n) ==
  /\ Usable(p) /\ n <= m_capacity[p] /\ list[p] # <<>>
  /\ list' = [list EXCEPT ![p] = CutFront(@, n)]
  /\ pool' = pool \cup Emptied(list[p], n)
  /\ m_capacity' = [m_capacity EXCEPT ![p] = @ - n]
  /\ NoLongerValid({p}) /\ out' = <<>>
  /\ UNCHANGED <<live, leaked, garbage>>

(* The first n bytes are moved together, to the start of the first block.  *)
set_cont_header(p, n) ==
  LET b    == list[p][1]
      more == n - b.m_size
      mem  == [o \in DOMAIN b.mem |-> IF o < n THEN Content(list[p])[o + 1] ELSE b.mem[o]]
  IN
  /\ Usable(p) /\ n <= m_capacity[p] /\ n <= BlkSize /\ n > b.m_size
  /\ list' = [list EXCEPT ![p] =
       <<[b EXCEPT !.m_data = 0, !.m_size = n, !.mem = mem]>> \o CutFront(Tail(@), more)]
  /\ pool' = pool \cup Emptied(Tail(list[p]), more)
  /\ NoLongerValid({p}) /\ out' = <<>>
  /\ UNCHANGED <<live, m_capacity, leaked, garbage>>

------------------------------------------------------------------------------
(* resize(n)                                                               *)
\* Mutant of last_size: the gap before the data is forgotten.
last_size_of_data(b) == BlkSize - b.m_size

last_size(b) == BlkSize - (b.m_data + b.m_size)

ResizeEmpty(p, n) ==
  /\ Usable(p) /\ m_capacity[p] = 0 /\ n > 0 /\ CanAlloc(n)
  /\ DoAlloc(p, n, FALSE, FALSE, list[p], 0)
  /\ out' = <<>>
  /\ UNCHANGED <<live, leaked, garbage>>

GrowBack(l, n) ==
  [l EXCEPT ![Len(l)] = [l[Len(l)] EXCEPT !.m_size = l[Len(l)].m_size + n]]

(* The last block has room for n, and grows by n.                          *)
ResizeInPlace(p, n) ==
  /\ Usable(p) /\ 0 < m_capacity[p] /\ m_capacity[p] < n
  /\ last_size(Last(list[p])) >= n
  /\ list' = [list EXCEPT ![p] = GrowBack(@, n)]
  /\ m_capacity' = [m_capacity EXCEPT ![p] = @ + n]
  /\ NoLongerValid({p}) /\ out' = <<>>
  /\ UNCHANGED <<pool, live, leaked, garbage>>

(* It has not: it is filled up, and the rest of n allocated.               *)
ResizeGrow(p, n) ==
  LET room == last_size(Last(list[p]))
      l    == GrowBack(list[p], room)
      capacity == m_capacity[p] + room
  IN
  /\ Usable(p) /\ 0 < m_capacity[p] /\ m_capacity[p] < n /\ room < n
  /\ IF CanAlloc(n - capacity) THEN DoAlloc(p, n - capacity, FALSE, FALSE, l, capacity)
     ELSE /\ list' = [list EXCEPT ![p] = l]
          /\ m_capacity' = [m_capacity EXCEPT ![p] = capacity]
          /\ NoLongerValid({p}) /\ UNCHANGED pool
  /\ out' = <<>>
  /\ UNCHANGED <<live, leaked, garbage>>

(* The block in which byte n lies becomes the last.  Each block after it   *)
(* is erased, but *it is then its successor, which is what goes to the     *)
(* pool: not the first one erased, and at the end what end() holds.        *)
ResizeShrink(p, n) ==
  LET l == list[p]
      k == CHOOSE i \in DOMAIN l : Ends(l)[i - 1] < n /\ n <= Ends(l)[i]
      removed == [i \in 1 .. Len(l) - k |-> l[k + i].blk]
  IN
  /\ Usable(p) /\ 0 < n /\ n < m_capacity[p]
  /\ list' = [list EXCEPT ![p] = GrowBack(SubSeq(l, 1, k), n - Ends(l)[k])]
  /\ m_capacity' = [m_capacity EXCEPT ![p] = n]
  /\ IF removed = <<>> THEN UNCHANGED <<pool, leaked, garbage>>
     ELSE /\ leaked' = leaked \cup {Head(removed)}
          /\ pool' = pool \cup Range(Tail(removed))
          /\ garbage' = TRUE
  /\ NoLongerValid({p}) /\ out' = <<>>
  /\ UNCHANGED live

(* resize(0) frees the packet itself, not only its bytes.                  *)
ResizeToNone(p) == Usable(p) /\ m_capacity[p] > 0 /\ free(p)

------------------------------------------------------------------------------
(* Two packets                                                             *)
merge_buf(p, q) ==
  /\ Usable(p) /\ Usable(q) /\ p # q
  /\ list' = [list EXCEPT ![p] = @ \o list[q], ![q] = <<>>]
  /\ m_capacity' = [m_capacity EXCEPT ![p] = @ + m_capacity[q]]
  /\ live' = live \ {q}
  /\ NoLongerValid({p, q}) /\ out' = <<>>
  /\ UNCHANGED <<pool, leaked, garbage>>

(* Reading and writing: on a valid cursor, no further than the end.        *)
CanMove(p, n) == Usable(p) /\ cur[p] # NoCursor /\ m_capacity[p] - cur[p].pos >= n
Ahead(p, n) == Visit(list[p], cur[p], n)
Structure == <<pool, live, m_capacity, leaked, garbage>>

(* Chunk by chunk, each as long as both packets' current blocks allow.     *)
copy(p, q, n) ==
  /\ p # q /\ CanMove(p, n) /\ CanMove(q, n)
  /\ out' = BytesAt(list[q], Ahead(q, n).cells)
  /\ list' = [list EXCEPT ![p] = Stored(@, Ahead(p, n).cells, out')]
  /\ cur' = [cur EXCEPT ![p] = Ahead(p, n).cur, ![q] = Ahead(q, n).cur]
  /\ UNCHANGED Structure

write(p, src) ==
  /\ src # <<>> /\ CanMove(p, Len(src))
  /\ list' = [list EXCEPT ![p] = Stored(@, Ahead(p, Len(src)).cells, src)]
  /\ cur' = [cur EXCEPT ![p] = Ahead(p, Len(src)).cur]
  /\ out' = src
  /\ UNCHANGED Structure

fill(p, v, n) == n > 0 /\ write(p, [i \in 1 .. n |-> v])

read(p, n) ==
  /\ n > 0 /\ CanMove(p, n)
  /\ out' = BytesAt(list[p], Ahead(p, n).cells)
  /\ cur' = [cur EXCEPT ![p] = Ahead(p, n).cur]
  /\ UNCHANGED <<list, Structure>>

\* Mutant of SeekFrom: only the position is reset.
SeekFromHere(p, offset) ==
  IF offset < cur[p].pos THEN [cur[p] EXCEPT !.pos = 0] ELSE cur[p]

(* Backwards from the start, forwards from where it is.                    *)
SeekFrom(p, offset) ==
  IF offset < cur[p].pos THEN reset_access(list[p]) ELSE cur[p]

seek(p, offset) ==
  /\ Usable(p) /\ cur[p] # NoCursor /\ offset # cur[p].pos /\ offset <= m_capacity[p]
  /\ LET from == SeekFrom(p, offset)
     IN  cur' = [cur EXCEPT ![p] = Visit(list[p], from, offset - from.pos).cur]
  /\ out' = <<>>
  /\ UNCHANGED <<list, Structure>>

------------------------------------------------------------------------------
Reshape(p) ==
  \/ get_pktbuffer(p) \/ ResetAccess(p) \/ free(p) \/ ResizeToNone(p)
  \/ \E n \in 1 .. MaxSize :
       \/ AllocFails(p, n) \/ remove_header(p, n) \/ set_cont_header(p, n)
       \/ ResizeEmpty(p, n) \/ ResizeGrow(p, n) \/ ResizeShrink(p, n)
       \/ /\ m_capacity[p] + n <= MaxCap
          /\ \/ \E front, insert \in BOOLEAN : alloc(p, n, front, insert)
             \/ HeaderFits(p, n) \/ HeaderBlock(p, n) \/ HeaderNoBlock(p, n)
             \/ HeaderSplit(p, n) \/ ResizeInPlace(p, n)

(* What is written: neighbouring bytes differ; fill writes equal ones.     *)
Source(n) == [i \in 1 .. n |-> i % Cardinality(Bytes)]

Access(p) ==
  \/ \E n \in 1 .. MaxSize : \/ read(p, n)
                             \/ write(p, Source(n))
                             \/ \E v \in Bytes : fill(p, v, n)
  \/ \E offset \in 0 .. MaxCap : seek(p, offset)

Combine(p, q) ==
  \/ m_capacity[p] + m_capacity[q] <= MaxCap /\ merge_buf(p, q)
  \/ \E n \in 1 .. MaxSize : copy(p, q, n)

Next == \/ \E p \in Pkts : Reshape(p) \/ Access(p)
        \/ \E p, q \in Pkts : Combine(p, q)

Spec == Init /\ [][Next]_vars
------------------------------------------------------------------------------
(* Every variable keeps its type; a block in a list holds at least a byte  *)
(* and stays within its payload.                                           *)
TypeOK ==
  /\ pool \subseteq Blks /\ live \subseteq Pkts /\ leaked \subseteq Blks
  /\ garbage \in BOOLEAN
  /\ \A p \in Pkts : \A b \in Range(list[p]) \ {NullBlock} :
       /\ b.blk \in Blks /\ b.mem \in Payload
       /\ b.m_data \in 0 .. BlkSize - 1 /\ b.m_size \in 1 .. BlkSize - b.m_data
  /\ m_capacity \in [Pkts -> Nat]
  /\ out \in Seq(Bytes)

(* debug_print's test (pktbuf.cc:499): the capacity is the sum of the      *)
(* blocks' sizes, after every call and every failure.                      *)
CapacityIsSum == \A p \in live : m_capacity[p] = SumOfSizes(list[p])

(* A block is in the pool, or once in one packet's list, or leaked by      *)
(* resize; nothing else takes a block twice or drops one.                  *)
BlocksConserved ==
  \A b \in Blks :
    (IF b \in pool THEN 1 ELSE 0) + (IF b \in leaked THEN 1 ELSE 0)
    + Cardinality({at \in Pkts \X (1 .. NumBlks + 1) :
                     at[2] <= Len(list[at[1]]) /\ list[at[1]][at[2]].blk = b}) = 1

(* m_pos, m_cur_blk and m_blk_offset agree: the byte at m_pos is the one   *)
(* at the offset, or both are at the end.                                  *)
CursorPointsAtPos ==
  \A p \in live : cur[p] # NoCursor =>
    LET c == cur[p] IN
    IF c.pos < m_capacity[p] THEN <<c.blk, c.off>> = CellsOf(list[p])[c.pos + 1]
    ELSE c.pos = m_capacity[p] /\ c.blk = Len(list[p]) + 1

Abstract == INSTANCE PacketBytes
              WITH bytes <- [p \in Pkts |-> Content(list[p])],
                   pos <- [p \in Pkts |-> cur[p].pos]

(* A packet is a string of bytes: cutting it into blocks, gaps, moving the *)
(* header together and walking from block to block never shows.            *)
ImplementsBytes == Abstract!Spec

(* "Delete the nodes behind" (pktbuf.cc:278), giving their blocks back.    *)
NothingLeaks == leaked = {}
==============================================================================
