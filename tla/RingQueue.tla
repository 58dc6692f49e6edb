------------------------------ MODULE RingQueue ------------------------------
(***************************************************************************)
(* LockFreeRingQueue<T> (src/src/lock_free_ring_queue.h): the bounded      *)
(* queue behind every hand-over of the stack: the free lists of packet     *)
(* blocks, packet buffers, messages and timer messages, the in and out     *)
(* queue of each network interface, and the worker's message queue.        *)
(*                                                                         *)
(* One action per atomic access of push and pop, by any set of producer    *)
(* and consumer threads; a thread may be both (a pool's users are).        *)
(* Accesses interleave in program order.  An index is a natural number:    *)
(* the code's uint32_t wraps at 2^32, which the power of two m_size        *)
(* divides (module PoolSetup), so slots and index differences are the      *)
(* same.  The atomic counter m_length does wrap, at LengthModulus.         *)
(***************************************************************************)
EXTENDS Integers, Sequences, FiniteSets

CONSTANTS Producers,      \* threads that call push
          Consumers,      \* threads that call pop
          Values,         \* the pointers that are queued
          Empty,          \* content of a slot never written (make_unique<T[]>)
          m_size,         \* slots of the ring
          LengthModulus,  \* stands for 2^32, the range of m_length
          MaxPush         \* bound of the model: indices claimed by push calls

Threads == Producers \cup Consumers

ASSUME RingAssumption ==
  /\ m_size \in Nat /\ m_size >= 2
  /\ LengthModulus \in Nat \ {0}
  /\ MaxPush \in Nat

VARIABLES
  m_read_index, m_write_index, m_last_write_index, m_length, m_queue,
  pc,                   \* the next access of each thread
  current_read_index,   \* locals of push and pop ...
  current_write_index,
  data,                 \* ... the argument of push, the out parameter of pop
  claimed,              \* history: the value of the push that got index i - 1
  popped                \* history: what pop returned, in the order of its CAS

shared == <<m_read_index, m_write_index, m_last_write_index, m_length, m_queue>>
locals == <<current_read_index, current_write_index, data>>
history == <<claimed, popped>>
vars == <<shared, pc, locals, history>>

index_of_queue(i) == i % m_size

Init ==
  /\ m_read_index = 0 /\ m_write_index = 0 /\ m_last_write_index = 0
  /\ m_length = 0
  /\ m_queue = [s \in 0 .. m_size - 1 |-> Empty]
  /\ pc = [t \in Threads |-> "idle"]
  /\ current_read_index = [t \in Threads |-> 0]
  /\ current_write_index = [t \in Threads |-> 0]
  /\ data = [t \in Threads |-> Empty]
  /\ claimed = <<>> /\ popped = <<>>

Goto(t, from, to) == pc[t] = from /\ pc' = [pc EXCEPT ![t] = to]

(* The call returns: its locals are dead.                                  *)
Return(t, from) ==
  /\ Goto(t, from, "idle")
  /\ current_read_index' = [current_read_index EXCEPT ![t] = 0]
  /\ current_write_index' = [current_write_index EXCEPT ![t] = 0]
  /\ data' = [data EXCEPT ![t] = Empty]

(***************************************************************************)
(* push                                                                    *)
(***************************************************************************)
PushCall(t, v) ==
  /\ m_write_index < MaxPush
  /\ Goto(t, "idle", "push_load_read")
  /\ data' = [data EXCEPT ![t] = v]
  /\ UNCHANGED <<shared, current_read_index, current_write_index, history>>

PushLoadRead(t) ==
  /\ Goto(t, "push_load_read", "push_load_write")
  /\ current_read_index' = [current_read_index EXCEPT ![t] = m_read_index]
  /\ UNCHANGED <<shared, current_write_index, data, history>>

(* The full test, on an m_read_index loaded earlier than m_write_index.    *)
SeenFull(t) ==
  index_of_queue(m_write_index + 1) = index_of_queue(current_read_index[t])

PushLoadWrite(t) ==
  /\ ~ SeenFull(t)
  /\ Goto(t, "push_load_write", "push_claim")
  /\ current_write_index' = [current_write_index EXCEPT ![t] = m_write_index]
  /\ UNCHANGED <<shared, current_read_index, data, history>>

PushFull(t) ==
  /\ SeenFull(t)
  /\ Return(t, "push_load_write")
  /\ UNCHANGED <<shared, history>>

PushClaim(t) ==
  /\ m_write_index = current_write_index[t]
  /\ Goto(t, "push_claim", "push_store")
  /\ m_write_index' = m_write_index + 1
  /\ claimed' = Append(claimed, data[t])
  /\ UNCHANGED <<m_read_index, m_last_write_index, m_length, m_queue, locals, popped>>

\* Mutant of PushClaimRetry: the compare_exchange alone is repeated, with the
\* write index it found, and the full test is not made again.
PushClaimAgain(t) ==
  /\ m_write_index # current_write_index[t]
  /\ Goto(t, "push_claim", "push_claim")
  /\ current_write_index' = [current_write_index EXCEPT ![t] = m_write_index]
  /\ UNCHANGED <<shared, current_read_index, data, history>>

PushClaimRetry(t) ==
  /\ m_write_index # current_write_index[t]
  /\ Goto(t, "push_claim", "push_load_read")
  /\ UNCHANGED <<shared, locals, history>>

\* Mutant of PushStore: the element goes to the slot after the claimed one.
PushStoreNextSlot(t) ==
  /\ Goto(t, "push_store", "push_confirm")
  /\ m_queue' = [m_queue EXCEPT ![index_of_queue(current_write_index[t] + 1)] = data[t]]
  /\ UNCHANGED <<m_read_index, m_write_index, m_last_write_index, m_length, locals, history>>

PushStore(t) ==
  /\ Goto(t, "push_store", "push_confirm")
  /\ m_queue' = [m_queue EXCEPT ![index_of_queue(current_write_index[t])] = data[t]]
  /\ UNCHANGED <<m_read_index, m_write_index, m_last_write_index, m_length, locals, history>>

\* Mutant of PushConfirm: a plain store instead of compare_exchange.
PushConfirmBlind(t) ==
  /\ Goto(t, "push_confirm", "push_count")
  /\ m_last_write_index' = current_write_index[t] + 1
  /\ UNCHANGED <<m_read_index, m_write_index, m_length, m_queue, locals, history>>

PushConfirm(t) ==
  /\ m_last_write_index = current_write_index[t]
  /\ Goto(t, "push_confirm", "push_count")
  /\ m_last_write_index' = m_last_write_index + 1
  /\ UNCHANGED <<m_read_index, m_write_index, m_length, m_queue, locals, history>>

\* Mutant of PushConfirmRetry: one attempt to confirm, then the push is counted.
PushConfirmGivesUp(t) ==
  /\ m_last_write_index # current_write_index[t]
  /\ Goto(t, "push_confirm", "push_count")
  /\ UNCHANGED <<shared, locals, history>>

(* compare_exchange_weak writes the value it found into its first          *)
(* argument, so the next attempt expects that value, not the own index.    *)
PushConfirmRetry(t) ==
  /\ m_last_write_index # current_write_index[t]
  /\ Goto(t, "push_confirm", "push_confirm")
  /\ current_write_index' = [current_write_index EXCEPT ![t] = m_last_write_index]
  /\ UNCHANGED <<shared, current_read_index, data, history>>

\* Mutant of PushCount: the length is not counted up.
PushCountLost(t) == Return(t, "push_count") /\ UNCHANGED <<shared, history>>

PushCount(t) ==
  /\ Return(t, "push_count")
  /\ m_length' = (m_length + 1) % LengthModulus
  /\ UNCHANGED <<m_read_index, m_write_index, m_last_write_index, m_queue, history>>

(***************************************************************************)
(* pop                                                                     *)
(***************************************************************************)
PopCall(t) ==
  /\ Goto(t, "idle", "pop_load_read")
  /\ UNCHANGED <<shared, locals, history>>

PopLoadRead(t) ==
  /\ Goto(t, "pop_load_read", "pop_load_last")
  /\ current_read_index' = [current_read_index EXCEPT ![t] = m_read_index]
  /\ UNCHANGED <<shared, current_write_index, data, history>>

\* Mutant of SeenEmpty: the last element is kept back.
SeenEmptyOffByOne(t) == m_last_write_index <= current_read_index[t] + 1

SeenEmpty(t) ==
  index_of_queue(m_last_write_index) = index_of_queue(current_read_index[t])

PopLoadLast(t) ==
  /\ ~ SeenEmpty(t)
  /\ Goto(t, "pop_load_last", "pop_copy")
  /\ UNCHANGED <<shared, locals, history>>

PopEmpty(t) ==
  /\ SeenEmpty(t)
  /\ Return(t, "pop_load_last")
  /\ UNCHANGED <<shared, history>>

PopCopy(t) ==
  /\ Goto(t, "pop_copy", "pop_claim")
  /\ data' = [data EXCEPT ![t] = m_queue[index_of_queue(current_read_index[t])]]
  /\ UNCHANGED <<shared, current_read_index, current_write_index, history>>

\* Mutant of PopClaim: a plain store instead of compare_exchange.
PopClaimBlind(t) ==
  /\ Goto(t, "pop_claim", "pop_count")
  /\ m_read_index' = current_read_index[t] + 1
  /\ popped' = Append(popped, data[t])
  /\ UNCHANGED <<m_write_index, m_last_write_index, m_length, m_queue, locals, claimed>>

PopClaim(t) ==
  /\ m_read_index = current_read_index[t]
  /\ Goto(t, "pop_claim", "pop_count")
  /\ m_read_index' = m_read_index + 1
  /\ popped' = Append(popped, data[t])
  /\ UNCHANGED <<m_write_index, m_last_write_index, m_length, m_queue, locals, claimed>>

PopClaimRetry(t) ==
  /\ m_read_index # current_read_index[t]
  /\ Goto(t, "pop_claim", "pop_load_read")
  /\ UNCHANGED <<shared, locals, history>>

\* Mutant of PopCount: a signed length.
PopCountSigned(t) ==
  /\ Return(t, "pop_count")
  /\ m_length' = m_length - 1
  /\ UNCHANGED <<m_read_index, m_write_index, m_last_write_index, m_queue, history>>

PopCount(t) ==
  /\ Return(t, "pop_count")
  /\ m_length' = (m_length + LengthModulus - 1) % LengthModulus
  /\ UNCHANGED <<m_read_index, m_write_index, m_last_write_index, m_queue, history>>

------------------------------------------------------------------------------
PushStep(t) ==
  \/ PushLoadRead(t) \/ PushLoadWrite(t) \/ PushFull(t)
  \/ PushClaim(t) \/ PushClaimRetry(t) \/ PushStore(t)
  \/ PushConfirm(t) \/ PushConfirmRetry(t) \/ PushCount(t)

PopStep(t) ==
  \/ PopLoadRead(t) \/ PopLoadLast(t) \/ PopEmpty(t) \/ PopCopy(t)
  \/ PopClaim(t) \/ PopClaimRetry(t) \/ PopCount(t)

Next ==
  \/ \E t \in Producers : (\E v \in Values : PushCall(t, v)) \/ PushStep(t)
  \/ \E t \in Consumers : PopCall(t) \/ PopStep(t)

Spec == Init /\ [][Next]_vars

(* A running call goes on, and every consumer polls again and again, as    *)
(* the worker and send threads do; nobody is bound to push.                *)
Fairness ==
  /\ \A t \in Producers : WF_vars(PushStep(t))
  /\ \A t \in Consumers : WF_vars(PopCall(t) \/ PopStep(t))

FairSpec == Spec /\ Fairness
------------------------------------------------------------------------------
PushPCs == {"push_load_read", "push_load_write", "push_claim", "push_store",
            "push_confirm", "push_count"}
PopPCs  == {"pop_load_read", "pop_load_last", "pop_copy", "pop_claim", "pop_count"}

(* Every variable keeps its type; only a producer is inside push, only a   *)
(* consumer inside pop.                                                    *)
TypeOK ==
  /\ m_read_index \in Nat /\ m_write_index \in Nat /\ m_last_write_index \in Nat
  /\ m_length \in 0 .. LengthModulus - 1
  /\ m_queue \in [0 .. m_size - 1 -> Values \cup {Empty}]
  /\ pc \in [Threads -> {"idle"} \cup PushPCs \cup PopPCs]
  /\ \A t \in Threads : /\ pc[t] \in PushPCs => t \in Producers /\ data[t] \in Values
                        /\ pc[t] \in PopPCs => t \in Consumers
  /\ current_read_index \in [Threads -> Nat]
  /\ current_write_index \in [Threads -> Nat]
  /\ data \in [Threads -> Values \cup {Empty}]
  /\ claimed \in Seq(Values) /\ popped \in Seq(Values \cup {Empty})
(***************************************************************************)
(* Correct with any number of producers and consumers.                     *)
(***************************************************************************)
At(labels) == {t \in Threads : pc[t] \in labels}

(* push l.84-93: every index a producer claimed is confirmed by exactly    *)
(* one producer (not always its own), readers never pass the last          *)
(* confirmed index, and the confirmed indices never pass the claimed ones. *)
ConfirmsMatchClaims ==
  /\ m_read_index <= m_last_write_index
  /\ m_write_index = m_last_write_index + Cardinality(At({"push_store", "push_confirm"}))

(* m_length, and so size() and is_empty(), is the number of unread         *)
(* elements less the pushes, plus the pops, that have not yet counted      *)
(* themselves (l.95, l.122); it is exact whenever no call is in between,   *)
(* and below zero it wraps.                                                *)
LengthAccounting ==
  m_length = (m_last_write_index - m_read_index
              - Cardinality(At({"push_count"})) + Cardinality(At({"pop_count"})))
             % LengthModulus

(* Every claimed index is confirmed in the end, by some producer           *)
(* (l.90-93): however the confirm loops interfere, one of their            *)
(* compare_exchanges gets through.  Nothing is said of a single producer:  *)
(* others that go on pushing may confirm between each of its attempts.     *)
ClaimsGetConfirmed ==
  \A k \in 0 .. MaxPush - 1 : m_write_index > k ~> m_last_write_index > k

(* The full test (l.81) compares an m_read_index loaded before             *)
(* m_write_index, and a claim repeats it whenever m_write_index has moved  *)
(* (l.84).  So the ring is overfilled in one way only: by a push that      *)
(* loaded its read index a whole lap before the write index it claims.     *)
OverfullOnlyByStaleRead ==
  [][\A t \in Producers :
       /\ pc[t] = "push_claim" /\ pc'[t] = "push_store"
       /\ m_write_index - m_read_index >= m_size - 1
       => m_write_index - current_read_index[t] >= m_size]_vars

(***************************************************************************)
(* Correct with one producer, and any number of consumers.                 *)
(***************************************************************************)
Unread == [i \in 1 .. m_last_write_index - m_read_index |->
             m_queue[index_of_queue(m_read_index + i - 1)]]

Fifo == INSTANCE BoundedFifo
          WITH items <- Unread, delivered <- popped, Capacity <- m_size - 1

(* The queue is a bounded FIFO: a push takes effect at its confirm, a pop  *)
(* at its CAS on m_read_index, although pop copies the slot before the CAS *)
(* (l.118) while the producer may already be writing that slot again.      *)
ImplementsFifo == Fifo!Spec

(* What is popped is what was pushed, in order, nothing lost, doubled or   *)
(* torn from a slot that was reused; unread elements stay in their slots   *)
(* until they are read.                                                    *)
NoLossNoDuplicate ==
  /\ \A i \in 1 .. m_read_index : popped[i] = claimed[i]
  /\ \A i \in m_read_index + 1 .. m_last_write_index :
       m_queue[index_of_queue(i - 1)] = claimed[i]

(* A push that gives up found m_size - 1 elements between the read index   *)
(* it loaded and the write index (l.81), and a pop that gives up, if no    *)
(* other consumer advanced m_read_index since its load, found no           *)
(* confirmed element (l.114): neither compares two unrelated laps.         *)
RefusalsAreJustified ==
  [][\A t \in Threads :
       /\ pc[t] = "push_load_write" /\ pc'[t] = "idle"
            => m_write_index - current_read_index[t] = m_size - 1
       /\ pc[t] = "pop_load_last" /\ pc'[t] = "idle"
            => m_read_index = m_last_write_index \/ m_read_index > current_read_index[t]]_vars

(***************************************************************************)
(* What the comments of the source say, and several producers break.       *)
(***************************************************************************)
(* "Last confirmed write index" (l.52): every index below it has been      *)
(* stored, by the producer that claimed it.                                *)
ConfirmedIsStored ==
  \A t \in Producers : pc[t] = "push_store" => current_write_index[t] >= m_last_write_index

(* "Check if the queue is full" (l.80): no more than m_size - 1 indices    *)
(* are claimed and unread.                                                 *)
NeverOverfull == m_write_index - m_read_index <= m_size - 1
(***************************************************************************)
(* Why one producer is enough: the inductive invariant behind              *)
(* NoLossNoDuplicate and RefusalsAreJustified.                             *)
(***************************************************************************)
Bounds ==
  /\ m_read_index <= m_last_write_index
  /\ m_last_write_index <= m_write_index
  /\ m_write_index - m_read_index <= m_size - 1
  /\ Len(claimed) = m_write_index
  /\ Len(popped) = m_read_index

(* What the producer p relies on at each access.                           *)
ProducerInv(p) ==
  /\ pc[p] = "push_load_write" =>
       /\ current_read_index[p] <= m_read_index
       /\ m_write_index - current_read_index[p] <= m_size - 1
  /\ pc[p] = "push_claim" =>
       /\ current_write_index[p] = m_write_index
       /\ current_read_index[p] <= m_read_index
       /\ m_write_index - current_read_index[p] < m_size - 1
  /\ IF pc[p] \in {"push_store", "push_confirm"}
     THEN /\ m_write_index = m_last_write_index + 1
          /\ current_write_index[p] = m_last_write_index
          /\ data[p] = claimed[m_write_index]
     ELSE m_last_write_index = m_write_index
  /\ pc[p] = "push_confirm" =>
       m_queue[index_of_queue(m_last_write_index)] = claimed[m_write_index]

(* What a consumer c knows: only if no other consumer advanced             *)
(* m_read_index is the element it copied the next one to deliver.          *)
ConsumerInv(c) ==
  /\ pc[c] \in {"pop_load_last", "pop_copy", "pop_claim"} =>
       current_read_index[c] <= m_read_index
  /\ pc[c] \in {"pop_copy", "pop_claim"} /\ current_read_index[c] = m_read_index =>
       m_read_index < m_last_write_index
  /\ pc[c] = "pop_claim" /\ current_read_index[c] = m_read_index =>
       data[c] = claimed[m_read_index + 1]

OneProducerInv ==
  /\ TypeOK
  /\ Bounds
  /\ NoLossNoDuplicate
  /\ \A p \in Producers : ProducerInv(p)
  /\ \A c \in Consumers : ConsumerInv(c)
==============================================================================
