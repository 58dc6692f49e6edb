--------------------------- MODULE RingQueue_proof ---------------------------
(***************************************************************************)
(* Proofs about RingQueue, for every number of threads, capacity and       *)
(* number of pushes: first with one producer, as the comments of the code  *)
(* ask for, then with any number of them.                                  *)
(***************************************************************************)
EXTENDS RingQueue, DataLemmas, TLAPS

LEMMA SlotRange == \A i \in Int : index_of_queue(i) \in 0 .. m_size - 1
BY RingAssumption, DivMod DEF index_of_queue

LEMMA SlotPeriod ==
  ASSUME NEW i \in Int
  PROVE  index_of_queue(i + m_size) = index_of_queue(i)
<1> DEFINE a == (i + m_size) \div m_size
           b == i \div m_size
<1>1. m_size \in Nat \ {0} /\ i + m_size \in Int
  BY RingAssumption
<1>2. /\ i + m_size = m_size * a + index_of_queue(i + m_size)
      /\ a \in Int /\ index_of_queue(i + m_size) \in 0 .. m_size - 1
  BY <1>1, DivMod DEF index_of_queue
<1>3. /\ i = m_size * b + index_of_queue(i)
      /\ b \in Int /\ index_of_queue(i) \in 0 .. m_size - 1
  BY <1>1, DivMod DEF index_of_queue
<1> HIDE DEF a, b
<1>4. m_size * (b + 1) = m_size * b + m_size
  BY <1>1, <1>3
<1>5. /\ m_size * a - m_size * (b + 1) < m_size
      /\ m_size * a - m_size * (b + 1) > -m_size
  BY <1>1, <1>2, <1>3, <1>4
<1>6. a = b + 1
  BY <1>1, <1>2, <1>3, <1>5, SmallMultiple
<1>7. m_size * a = m_size * b + m_size
  BY <1>4, <1>6
<1>8. QED
  BY <1>1, <1>2, <1>3, <1>7

(* Two indices less than a lap apart have different slots.                 *)
LEMMA SlotsDistinct ==
  ASSUME NEW i \in Int, NEW j \in Int, i <= j, j < i + m_size,
         index_of_queue(i) = index_of_queue(j)
  PROVE  i = j
<1> DEFINE a == j \div m_size
           b == i \div m_size
<1>1. m_size \in Nat \ {0}
  BY RingAssumption
<1>2. /\ j = m_size * a + index_of_queue(j)
      /\ a \in Int /\ index_of_queue(j) \in 0 .. m_size - 1
  BY <1>1, DivMod DEF index_of_queue
<1>3. /\ i = m_size * b + index_of_queue(i)
      /\ b \in Int
  BY <1>1, DivMod DEF index_of_queue
<1> HIDE DEF a, b
<1>4. /\ m_size * a - m_size * b < m_size
      /\ m_size * a - m_size * b > -m_size
  BY <1>1, <1>2, <1>3
<1>5. a = b
  BY <1>1, <1>2, <1>3, <1>4, SmallMultiple
<1>6. QED
  BY <1>2, <1>3, <1>5
------------------------------------------------------------------------------
(***************************************************************************)
(* Type correctness.                                                       *)
(***************************************************************************)
LEMMA LengthRange ==
  ASSUME NEW l \in Int
  PROVE  l % LengthModulus \in 0 .. LengthModulus - 1
BY RingAssumption, DivMod

LEMMA TypeInit == Init => TypeOK
<1> SUFFICES ASSUME Init PROVE TypeOK
  OBVIOUS
<1>1. m_length \in 0 .. LengthModulus - 1
  BY RingAssumption DEF Init
<1>2. QED
  BY <1>1 DEF Init, TypeOK, PushPCs, PopPCs

LEMMA TypeStep == TypeOK /\ [Next]_vars => TypeOK'
<1> SUFFICES ASSUME TypeOK, [Next]_vars PROVE TypeOK'
  OBVIOUS
<1> USE DEF TypeOK, Threads, Goto, PushPCs, PopPCs, shared, locals, history
<1>1. ASSUME NEW t \in Producers, NEW v \in Values, PushCall(t, v) PROVE TypeOK'
  BY <1>1 DEF PushCall
<1>2. ASSUME NEW t \in Producers, PushLoadRead(t) PROVE TypeOK'
  BY <1>2 DEF PushLoadRead
<1>3. ASSUME NEW t \in Producers, PushLoadWrite(t) PROVE TypeOK'
  BY <1>3 DEF PushLoadWrite
<1>4. ASSUME NEW t \in Producers, PushFull(t) PROVE TypeOK'
  BY <1>4 DEF PushFull, Return
<1>5. ASSUME NEW t \in Producers, PushClaim(t) PROVE TypeOK'
  BY <1>5 DEF PushClaim
<1>6. ASSUME NEW t \in Producers, PushClaimRetry(t) PROVE TypeOK'
  BY <1>6 DEF PushClaimRetry
<1>7. ASSUME NEW t \in Producers, PushStore(t) PROVE TypeOK'
  <2>1. index_of_queue(current_write_index[t]) \in 0 .. m_size - 1
    BY SlotRange
  <2>2. QED
    BY <1>7, <2>1 DEF PushStore
<1>8. ASSUME NEW t \in Producers, PushConfirm(t) PROVE TypeOK'
  BY <1>8 DEF PushConfirm
<1>9. ASSUME NEW t \in Producers, PushConfirmRetry(t) PROVE TypeOK'
  BY <1>9 DEF PushConfirmRetry
<1>10. ASSUME NEW t \in Producers, PushCount(t) PROVE TypeOK'
  <2>1. m_length + 1 \in Int
    OBVIOUS
  <2>2. (m_length + 1) % LengthModulus \in 0 .. LengthModulus - 1
    BY <2>1, LengthRange
  <2>3. QED
    BY <1>10, <2>2 DEF PushCount, Return
<1>11. ASSUME NEW t \in Consumers, PopCall(t) PROVE TypeOK'
  BY <1>11 DEF PopCall
<1>12. ASSUME NEW t \in Consumers, PopLoadRead(t) PROVE TypeOK'
  BY <1>12 DEF PopLoadRead
<1>13. ASSUME NEW t \in Consumers, PopLoadLast(t) PROVE TypeOK'
  BY <1>13 DEF PopLoadLast
<1>14. ASSUME NEW t \in Consumers, PopEmpty(t) PROVE TypeOK'
  BY <1>14 DEF PopEmpty, Return
<1>15. ASSUME NEW t \in Consumers, PopCopy(t) PROVE TypeOK'
  <2>1. m_queue[index_of_queue(current_read_index[t])] \in Values \cup {Empty}
    BY SlotRange
  <2>2. QED
    BY <1>15, <2>1 DEF PopCopy
<1>16. ASSUME NEW t \in Consumers, PopClaim(t) PROVE TypeOK'
  BY <1>16 DEF PopClaim
<1>17. ASSUME NEW t \in Consumers, PopClaimRetry(t) PROVE TypeOK'
  BY <1>17 DEF PopClaimRetry
<1>18. ASSUME NEW t \in Consumers, PopCount(t) PROVE TypeOK'
  <2>1. m_length + LengthModulus - 1 \in Int
    BY RingAssumption
  <2>2. (m_length + LengthModulus - 1) % LengthModulus \in 0 .. LengthModulus - 1
    BY <2>1, LengthRange
  <2>3. QED
    BY <1>18, <2>2 DEF PopCount, Return
<1>19. CASE UNCHANGED vars
  BY <1>19 DEF vars
<1>20. QED
  BY <1>1, <1>2, <1>3, <1>4, <1>5, <1>6, <1>7, <1>8, <1>9, <1>10, <1>11, <1>12, <1>13, <1>14, <1>15, <1>16, <1>17, <1>18, <1>19 DEF Next, PushStep, PopStep

(* Every variable keeps its type, whatever the number of threads.          *)
THEOREM TypeCorrect == Spec => []TypeOK
<1>1. QED
  BY TypeInit, TypeStep, PTL DEF Spec
------------------------------------------------------------------------------
(***************************************************************************)
(* One producer: the queue is a FIFO without loss.                         *)
(***************************************************************************)
OneProducer == \A p, q \in Producers : p = q

LEMMA OneProducerInit == Init => OneProducerInv
<1> SUFFICES ASSUME Init PROVE OneProducerInv
  OBVIOUS
<1>1. TypeOK
  BY TypeInit
<1>2. Bounds /\ NoLossNoDuplicate
  BY RingAssumption DEF Init, Bounds, NoLossNoDuplicate
<1>3. \A p \in Producers : ProducerInv(p)
  BY DEF Init, ProducerInv, Threads
<1>4. \A c \in Consumers : ConsumerInv(c)
  BY DEF Init, ConsumerInv, Threads
<1>5. QED
  BY <1>1, <1>2, <1>3, <1>4 DEF OneProducerInv

LEMMA OneProducerStep ==
  ASSUME OneProducer
  PROVE  OneProducerInv /\ [Next]_vars => OneProducerInv'
<1> SUFFICES ASSUME OneProducerInv, [Next]_vars PROVE OneProducerInv'
  OBVIOUS
<1>0. TypeOK /\ TypeOK'
  BY TypeStep DEF OneProducerInv
<1> USE <1>0, RingAssumption DEF TypeOK, Threads, Goto, PushPCs, PopPCs, shared, locals, history, OneProducer, Bounds, NoLossNoDuplicate, ProducerInv, ConsumerInv, OneProducerInv
<1>1. ASSUME NEW t \in Producers, NEW v \in Values, PushCall(t, v) PROVE OneProducerInv'
  <2>1. Bounds'
    BY <1>1 DEF PushCall
  <2>2. NoLossNoDuplicate'
    BY <1>1 DEF PushCall
  <2>3. ASSUME NEW p \in Producers PROVE ProducerInv(p)'
    BY <1>1 DEF PushCall
  <2>4. ASSUME NEW c \in Consumers PROVE ConsumerInv(c)'
    BY <1>1 DEF PushCall
  <2>5. QED
    BY <2>1, <2>2, <2>3, <2>4
<1>2. ASSUME NEW t \in Producers, PushLoadRead(t) PROVE OneProducerInv'
  <2>1. Bounds'
    BY <1>2 DEF PushLoadRead
  <2>2. NoLossNoDuplicate'
    BY <1>2 DEF PushLoadRead
  <2>3. ASSUME NEW p \in Producers PROVE ProducerInv(p)'
    BY <1>2 DEF PushLoadRead
  <2>4. ASSUME NEW c \in Consumers PROVE ConsumerInv(c)'
    BY <1>2 DEF PushLoadRead
  <2>5. QED
    BY <2>1, <2>2, <2>3, <2>4
<1>3. ASSUME NEW t \in Producers, PushLoadWrite(t) PROVE OneProducerInv'
  <2>1. Bounds'
    BY <1>3 DEF PushLoadWrite
  <2>2. NoLossNoDuplicate'
    BY <1>3 DEF PushLoadWrite
  <2>3. ASSUME NEW p \in Producers PROVE ProducerInv(p)'
    <3>1. p = t
      BY <1>3
    <3>2. m_write_index + 1 # current_read_index[t] + m_size
      BY <1>3, SlotPeriod DEF PushLoadWrite, SeenFull
    <3>3. QED
      BY <1>3, <3>1, <3>2 DEF PushLoadWrite
  <2>4. ASSUME NEW c \in Consumers PROVE ConsumerInv(c)'
    BY <1>3 DEF PushLoadWrite
  <2>5. QED
    BY <2>1, <2>2, <2>3, <2>4
<1>4. ASSUME NEW t \in Producers, PushFull(t) PROVE OneProducerInv'
  <2>1. Bounds'
    BY <1>4 DEF PushFull, Return
  <2>2. NoLossNoDuplicate'
    BY <1>4 DEF PushFull, Return
  <2>3. ASSUME NEW p \in Producers PROVE ProducerInv(p)'
    BY <1>4 DEF PushFull, Return
  <2>4. ASSUME NEW c \in Consumers PROVE ConsumerInv(c)'
    BY <1>4 DEF PushFull, Return
  <2>5. QED
    BY <2>1, <2>2, <2>3, <2>4
<1>5. ASSUME NEW t \in Producers, PushClaim(t) PROVE OneProducerInv'
  <2>1. Bounds'
    BY <1>5, SMTT(30) DEF PushClaim
  <2>2. NoLossNoDuplicate'
    BY <1>5, SMTT(30) DEF PushClaim
  <2>3. ASSUME NEW p \in Producers PROVE ProducerInv(p)'
    BY <1>5, SMTT(30) DEF PushClaim
  <2>4. ASSUME NEW c \in Consumers PROVE ConsumerInv(c)'
    BY <1>5, SMTT(30) DEF PushClaim
  <2>5. QED
    BY <2>1, <2>2, <2>3, <2>4
<1>6. ASSUME NEW t \in Producers, PushClaimRetry(t) PROVE OneProducerInv'
  <2>1. Bounds'
    BY <1>6 DEF PushClaimRetry
  <2>2. NoLossNoDuplicate'
    BY <1>6 DEF PushClaimRetry
  <2>3. ASSUME NEW p \in Producers PROVE ProducerInv(p)'
    BY <1>6 DEF PushClaimRetry
  <2>4. ASSUME NEW c \in Consumers PROVE ConsumerInv(c)'
    BY <1>6 DEF PushClaimRetry
  <2>5. QED
    BY <2>1, <2>2, <2>3, <2>4
<1>7. ASSUME NEW t \in Producers, PushStore(t) PROVE OneProducerInv'
  <2>1. Bounds'
    BY <1>7 DEF PushStore
  <2>2. NoLossNoDuplicate'
    <3>1. current_write_index[t] = m_last_write_index
      BY <1>7 DEF PushStore
    <3>2. ASSUME NEW i \in m_read_index + 1 .. m_last_write_index
          PROVE  index_of_queue(i - 1) # index_of_queue(m_last_write_index)
      BY SlotsDistinct
    <3>3. QED
      BY <1>7, <3>1, <3>2 DEF PushStore
  <2>3. ASSUME NEW p \in Producers PROVE ProducerInv(p)'
    BY <1>7 DEF PushStore
  <2>4. ASSUME NEW c \in Consumers PROVE ConsumerInv(c)'
    BY <1>7 DEF PushStore
  <2>5. QED
    BY <2>1, <2>2, <2>3, <2>4
<1>8. ASSUME NEW t \in Producers, PushConfirm(t) PROVE OneProducerInv'
  <2>1. Bounds'
    BY <1>8 DEF PushConfirm
  <2>2. NoLossNoDuplicate'
    BY <1>8 DEF PushConfirm
  <2>3. ASSUME NEW p \in Producers PROVE ProducerInv(p)'
    BY <1>8 DEF PushConfirm
  <2>4. ASSUME NEW c \in Consumers PROVE ConsumerInv(c)'
    BY <1>8 DEF PushConfirm
  <2>5. QED
    BY <2>1, <2>2, <2>3, <2>4
<1>9. ASSUME NEW t \in Producers, PushConfirmRetry(t) PROVE OneProducerInv'
  <2>1. Bounds'
    BY <1>9 DEF PushConfirmRetry
  <2>2. NoLossNoDuplicate'
    BY <1>9 DEF PushConfirmRetry
  <2>3. ASSUME NEW p \in Producers PROVE ProducerInv(p)'
    BY <1>9 DEF PushConfirmRetry
  <2>4. ASSUME NEW c \in Consumers PROVE ConsumerInv(c)'
    BY <1>9 DEF PushConfirmRetry
  <2>5. QED
    BY <2>1, <2>2, <2>3, <2>4
<1>10. ASSUME NEW t \in Producers, PushCount(t) PROVE OneProducerInv'
  <2>1. Bounds'
    BY <1>10 DEF PushCount, Return
  <2>2. NoLossNoDuplicate'
    BY <1>10 DEF PushCount, Return
  <2>3. ASSUME NEW p \in Producers PROVE ProducerInv(p)'
    BY <1>10 DEF PushCount, Return
  <2>4. ASSUME NEW c \in Consumers PROVE ConsumerInv(c)'
    BY <1>10 DEF PushCount, Return
  <2>5. QED
    BY <2>1, <2>2, <2>3, <2>4
<1>11. ASSUME NEW t \in Consumers, PopCall(t) PROVE OneProducerInv'
  <2>1. Bounds'
    BY <1>11 DEF PopCall
  <2>2. NoLossNoDuplicate'
    BY <1>11 DEF PopCall
  <2>3. ASSUME NEW p \in Producers PROVE ProducerInv(p)'
    BY <1>11 DEF PopCall
  <2>4. ASSUME NEW c \in Consumers PROVE ConsumerInv(c)'
    BY <1>11 DEF PopCall
  <2>5. QED
    BY <2>1, <2>2, <2>3, <2>4
<1>12. ASSUME NEW t \in Consumers, PopLoadRead(t) PROVE OneProducerInv'
  <2>1. Bounds'
    BY <1>12 DEF PopLoadRead
  <2>2. NoLossNoDuplicate'
    BY <1>12 DEF PopLoadRead
  <2>3. ASSUME NEW p \in Producers PROVE ProducerInv(p)'
    BY <1>12 DEF PopLoadRead
  <2>4. ASSUME NEW c \in Consumers PROVE ConsumerInv(c)'
    BY <1>12 DEF PopLoadRead
  <2>5. QED
    BY <2>1, <2>2, <2>3, <2>4
<1>13. ASSUME NEW t \in Consumers, PopLoadLast(t) PROVE OneProducerInv'
  <2>1. Bounds'
    BY <1>13 DEF PopLoadLast
  <2>2. NoLossNoDuplicate'
    BY <1>13 DEF PopLoadLast
  <2>3. ASSUME NEW p \in Producers PROVE ProducerInv(p)'
    BY <1>13 DEF PopLoadLast
  <2>4. ASSUME NEW c \in Consumers PROVE ConsumerInv(c)'
    BY <1>13 DEF PopLoadLast, SeenEmpty
  <2>5. QED
    BY <2>1, <2>2, <2>3, <2>4
<1>14. ASSUME NEW t \in Consumers, PopEmpty(t) PROVE OneProducerInv'
  <2>1. Bounds'
    BY <1>14 DEF PopEmpty, Return
  <2>2. NoLossNoDuplicate'
    BY <1>14 DEF PopEmpty, Return
  <2>3. ASSUME NEW p \in Producers PROVE ProducerInv(p)'
    BY <1>14 DEF PopEmpty, Return
  <2>4. ASSUME NEW c \in Consumers PROVE ConsumerInv(c)'
    BY <1>14 DEF PopEmpty, Return
  <2>5. QED
    BY <2>1, <2>2, <2>3, <2>4
<1>15. ASSUME NEW t \in Consumers, PopCopy(t) PROVE OneProducerInv'
  <2>1. Bounds'
    BY <1>15 DEF PopCopy
  <2>2. NoLossNoDuplicate'
    BY <1>15 DEF PopCopy
  <2>3. ASSUME NEW p \in Producers PROVE ProducerInv(p)'
    BY <1>15 DEF PopCopy
  <2>4. ASSUME NEW c \in Consumers PROVE ConsumerInv(c)'
    BY <1>15 DEF PopCopy
  <2>5. QED
    BY <2>1, <2>2, <2>3, <2>4
<1>16. ASSUME NEW t \in Consumers, PopClaim(t) PROVE OneProducerInv'
  <2>1. Bounds'
    BY <1>16, SMTT(30) DEF PopClaim
  <2>2. NoLossNoDuplicate'
    BY <1>16, SMTT(30) DEF PopClaim
  <2>3. ASSUME NEW p \in Producers PROVE ProducerInv(p)'
    BY <1>16, SMTT(30) DEF PopClaim
  <2>4. ASSUME NEW c \in Consumers PROVE ConsumerInv(c)'
    BY <1>16, SMTT(30) DEF PopClaim
  <2>5. QED
    BY <2>1, <2>2, <2>3, <2>4
<1>17. ASSUME NEW t \in Consumers, PopClaimRetry(t) PROVE OneProducerInv'
  <2>1. Bounds'
    BY <1>17 DEF PopClaimRetry
  <2>2. NoLossNoDuplicate'
    BY <1>17 DEF PopClaimRetry
  <2>3. ASSUME NEW p \in Producers PROVE ProducerInv(p)'
    BY <1>17 DEF PopClaimRetry
  <2>4. ASSUME NEW c \in Consumers PROVE ConsumerInv(c)'
    BY <1>17 DEF PopClaimRetry
  <2>5. QED
    BY <2>1, <2>2, <2>3, <2>4
<1>18. ASSUME NEW t \in Consumers, PopCount(t) PROVE OneProducerInv'
  <2>1. Bounds'
    BY <1>18 DEF PopCount, Return
  <2>2. NoLossNoDuplicate'
    BY <1>18 DEF PopCount, Return
  <2>3. ASSUME NEW p \in Producers PROVE ProducerInv(p)'
    BY <1>18 DEF PopCount, Return
  <2>4. ASSUME NEW c \in Consumers PROVE ConsumerInv(c)'
    BY <1>18 DEF PopCount, Return
  <2>5. QED
    BY <2>1, <2>2, <2>3, <2>4
<1>19. CASE UNCHANGED vars
  BY <1>19 DEF vars
<1>20. QED
  BY <1>1, <1>2, <1>3, <1>4, <1>5, <1>6, <1>7, <1>8, <1>9, <1>10, <1>11, <1>12, <1>13, <1>14, <1>15, <1>16, <1>17, <1>18, <1>19 DEF Next, PushStep, PopStep
LEMMA OneProducerInvariant ==
  ASSUME OneProducer
  PROVE  Spec => []OneProducerInv
<1>1. QED
  BY OneProducerInit, OneProducerStep, PTL DEF Spec

(* With one producer, consumers get exactly the pushed elements, in order, *)
(* although pop copies a slot before it knows that the element is its own. *)
THEOREM DeliversInOrder ==
  ASSUME OneProducer
  PROVE  Spec => []NoLossNoDuplicate
<1>1. OneProducerInv => NoLossNoDuplicate
  BY DEF OneProducerInv
<1>2. QED
  BY <1>1, OneProducerInvariant, PTL

(* With one producer, the stale read index of the full test (l.77-81) only *)
(* makes push give up too early: the ring is never overfilled.             *)
THEOREM NotOverfullWithOneProducer ==
  ASSUME OneProducer
  PROVE  Spec => []NeverOverfull
<1>1. OneProducerInv => NeverOverfull
  BY DEF OneProducerInv, Bounds, NeverOverfull
<1>2. QED
  BY <1>1, OneProducerInvariant, PTL

(* With one producer, push and pop only give up on a queue that was full   *)
(* or empty for the indices they loaded.                                   *)
THEOREM RefusalsWithOneProducer ==
  ASSUME OneProducer
  PROVE  Spec => RefusalsAreJustified
<1> DEFINE Refusal(t) ==
      /\ pc[t] = "push_load_write" /\ pc'[t] = "idle"
           => m_write_index - current_read_index[t] = m_size - 1
      /\ pc[t] = "pop_load_last" /\ pc'[t] = "idle"
           => m_read_index = m_last_write_index \/ m_read_index > current_read_index[t]
<1>1. ASSUME OneProducerInv, [Next]_vars, NEW t \in Threads
      PROVE  Refusal(t)
  <2> USE <1>1, RingAssumption DEF OneProducerInv, TypeOK, Threads, PushPCs, PopPCs
  <2>1. ASSUME pc[t] = "push_load_write", pc'[t] = "idle"
        PROVE  m_write_index - current_read_index[t] = m_size - 1
    <3>1. t \in Producers /\ SeenFull(t)
      BY <2>1 DEF vars, Next, PushStep, PopStep, Goto, Return, PushCall, PushLoadRead,
        PushLoadWrite, PushFull, PushClaim, PushClaimRetry, PushStore, PushConfirm,
        PushConfirmRetry, PushCount, PopCall, PopLoadRead, PopLoadLast, PopEmpty,
        PopCopy, PopClaim, PopClaimRetry, PopCount
    <3>2. /\ current_read_index[t] <= m_write_index
          /\ m_write_index - current_read_index[t] <= m_size - 1
      BY <2>1, <3>1 DEF ProducerInv, Bounds
    <3>3. index_of_queue(m_write_index + 1) = index_of_queue(current_read_index[t] + m_size)
      BY <3>1, SlotPeriod DEF SeenFull
    <3>4. m_write_index + 1 = current_read_index[t] + m_size
      <4>1. /\ m_write_index + 1 \in Int
            /\ current_read_index[t] + m_size \in Int
            /\ m_write_index + 1 <= current_read_index[t] + m_size
            /\ current_read_index[t] + m_size < (m_write_index + 1) + m_size
        BY <3>1, <3>2
      <4>2. QED
        BY <3>3, <4>1, SlotsDistinct
    <3>5. QED
      BY <3>4
  <2>2. ASSUME pc[t] = "pop_load_last", pc'[t] = "idle"
        PROVE  m_read_index = m_last_write_index \/ m_read_index > current_read_index[t]
    <3>1. t \in Consumers /\ SeenEmpty(t)
      BY <2>2 DEF vars, Next, PushStep, PopStep, Goto, Return, PushCall, PushLoadRead,
        PushLoadWrite, PushFull, PushClaim, PushClaimRetry, PushStore, PushConfirm,
        PushConfirmRetry, PushCount, PopCall, PopLoadRead, PopLoadLast, PopEmpty,
        PopCopy, PopClaim, PopClaimRetry, PopCount
    <3>2. current_read_index[t] <= m_read_index
      BY <2>2, <3>1 DEF ConsumerInv
    <3>3. CASE current_read_index[t] = m_read_index
      BY <3>1, <3>3, SlotsDistinct DEF SeenEmpty, Bounds
    <3>4. QED
      BY <3>2, <3>3
  <2>3. QED
    BY <2>1, <2>2
<1>2. OneProducerInv /\ [Next]_vars => [\A t \in Threads : Refusal(t)]_vars
  BY <1>1
<1>3. QED
  BY <1>2, OneProducerInvariant, PTL DEF Spec, RefusalsAreJustified
------------------------------------------------------------------------------
(***************************************************************************)
(* With one producer, RingQueue implements BoundedFifo: push appends at    *)
(* its confirm, pop takes at its CAS, every other access is a stutter.     *)
(***************************************************************************)
(* The unread elements, by their claims: a sequence is determined by its   *)
(* length and its elements.                                                *)
UnreadFacts ==
  /\ Unread \in Seq(Values)
  /\ Len(Unread) = m_last_write_index - m_read_index
  /\ \A i \in 1 .. m_last_write_index - m_read_index :
       Unread[i] = claimed[m_read_index + i]

LEMMA UnreadProperties == OneProducerInv => UnreadFacts
<1> SUFFICES ASSUME OneProducerInv PROVE UnreadFacts
  OBVIOUS
<1> DEFINE n == m_last_write_index - m_read_index
<1>1. /\ n \in Nat /\ m_read_index \in Nat /\ m_last_write_index \in Nat
      /\ claimed \in Seq(Values) /\ n <= Len(claimed) - m_read_index
  BY DEF OneProducerInv, TypeOK, Bounds
<1>2. ASSUME NEW i \in 1 .. n
      PROVE  /\ m_queue[index_of_queue(m_read_index + i - 1)] = claimed[m_read_index + i]
             /\ claimed[m_read_index + i] \in Values
  <2>1. m_read_index + i \in m_read_index + 1 .. m_last_write_index
    BY <1>1
  <2>2. m_read_index + i \in 1 .. Len(claimed)
    BY <1>1
  <2>3. QED
    BY <1>1, <2>1, <2>2, ElementOfSeq DEF OneProducerInv, NoLossNoDuplicate
<1>3. Unread \in [1 .. n -> Values]
  BY <1>2 DEF Unread
<1>4. Unread \in Seq(Values) /\ Len(Unread) = n
  BY <1>1, <1>3
<1>5. QED
  BY <1>2, <1>4 DEF Unread, UnreadFacts

LEMMA FifoInit == Init => Fifo!Init
BY DEF Init, Fifo!Init, Unread

(* An access that moves neither read nor confirmed index, and that keeps   *)
(* the claimed elements below the confirmed index, is invisible.           *)
LEMMA FifoStutter ==
  ASSUME OneProducerInv, OneProducerInv',
         UNCHANGED <<m_read_index, m_last_write_index, popped>>,
         \A i \in 1 .. m_last_write_index : claimed'[i] = claimed[i]
  PROVE  UNCHANGED Fifo!fifo_vars
<1>0. UnreadFacts /\ UnreadFacts'
  BY UnreadProperties, PTL
<1>1. /\ m_read_index \in Nat /\ m_last_write_index \in Nat
      /\ m_read_index <= m_last_write_index
  BY DEF OneProducerInv, TypeOK, Bounds
<1>2. Len(Unread') = Len(Unread)
  BY <1>0 DEF UnreadFacts
<1>3. \A i \in 1 .. Len(Unread) : Unread'[i] = Unread[i]
  BY <1>1, <1>0 DEF UnreadFacts
<1>4. Unread' = Unread
  BY <1>2, <1>3, <1>0, SeqEqual DEF UnreadFacts
<1>5. QED
  BY <1>4 DEF Fifo!fifo_vars

LEMMA FifoPut ==
  ASSUME OneProducerInv, OneProducerInv', NEW t \in Producers, PushConfirm(t)
  PROVE  Fifo!Put(data[t])
<1>0. UnreadFacts /\ UnreadFacts'
  BY UnreadProperties, PTL
<1>1. /\ m_read_index \in Nat /\ m_last_write_index \in Nat
      /\ m_read_index <= m_last_write_index
      /\ m_write_index = m_last_write_index + 1
      /\ m_write_index - m_read_index <= m_size - 1
      /\ data[t] = claimed[m_write_index] /\ data[t] \in Values
  BY DEF OneProducerInv, TypeOK, Bounds, ProducerInv, PushConfirm, Goto, Threads, PushPCs
<1>2. /\ m_last_write_index' = m_last_write_index + 1
      /\ UNCHANGED <<m_read_index, claimed, popped>>
  BY DEF PushConfirm, history
<1>3. Len(Unread) < m_size - 1
  BY <1>1, <1>0, RingAssumption DEF UnreadFacts
<1>4. Len(Unread') = Len(Append(Unread, data[t])) /\ Append(Unread, data[t]) \in Seq(Values)
  BY <1>1, <1>2, <1>0, AppendProperties DEF UnreadFacts
<1>5. ASSUME NEW i \in 1 .. Len(Unread')
      PROVE  Unread'[i] = Append(Unread, data[t])[i]
  <2>1. Unread'[i] = claimed[m_read_index + i]
    BY <1>1, <1>2, <1>0 DEF UnreadFacts
  <2>2. CASE i <= Len(Unread)
    BY <1>1, <2>1, <2>2, <1>0, AppendProperties DEF UnreadFacts
  <2>3. CASE i = Len(Unread) + 1
    <3>1. m_read_index + i = m_write_index
      BY <1>0, <1>1, <2>3 DEF UnreadFacts
    <3>2. Append(Unread, data[t])[i] = data[t]
      BY <1>0, <1>1, <2>3, AppendProperties DEF UnreadFacts
    <3>3. QED
      BY <1>1, <2>1, <3>1, <3>2
  <2>4. QED
    BY <1>1, <1>2, <2>2, <2>3, <1>0 DEF UnreadFacts
<1>6. Unread' = Append(Unread, data[t])
  BY <1>4, <1>5, <1>0, SeqEqual DEF UnreadFacts
<1>7. QED
  BY <1>2, <1>3, <1>6 DEF Fifo!Put

LEMMA FifoTake ==
  ASSUME OneProducerInv, OneProducerInv', NEW t \in Consumers, PopClaim(t)
  PROVE  Fifo!Take
<1>0. UnreadFacts /\ UnreadFacts'
  BY UnreadProperties, PTL
<1>1. /\ m_read_index \in Nat /\ m_last_write_index \in Nat
      /\ m_read_index < m_last_write_index
      /\ data[t] = claimed[m_read_index + 1]
  BY DEF OneProducerInv, TypeOK, ConsumerInv, PopClaim, Goto
<1>2. /\ m_read_index' = m_read_index + 1
      /\ UNCHANGED <<m_last_write_index, claimed>>
      /\ popped' = Append(popped, data[t])
  BY DEF PopClaim
<1>3. Unread # <<>> /\ Head(Unread) = data[t]
  BY <1>1, <1>0 DEF UnreadFacts
<1>4. /\ Tail(Unread) \in Seq(Values) /\ Len(Tail(Unread)) = Len(Unread) - 1
      /\ \A i \in 1 .. Len(Tail(Unread)) : Tail(Unread)[i] = Unread[i + 1]
  BY <1>3, <1>0, HeadTailProperties DEF UnreadFacts
<1>5. Len(Unread') = Len(Tail(Unread))
  BY <1>1, <1>2, <1>4, <1>0 DEF UnreadFacts
<1>6. ASSUME NEW i \in 1 .. Len(Unread')
      PROVE  Unread'[i] = Tail(Unread)[i]
  <2>1. Unread'[i] = claimed[m_read_index + 1 + i]
    BY <1>1, <1>2, <1>0 DEF UnreadFacts
  <2>2. Tail(Unread)[i] = Unread[i + 1]
    BY <1>4, <1>5
  <2>3. Unread[i + 1] = claimed[m_read_index + (i + 1)]
    BY <1>1, <1>4, <1>5, <1>0 DEF UnreadFacts
  <2>4. m_read_index + 1 + i = m_read_index + (i + 1)
    BY <1>0, <1>1, <1>5 DEF UnreadFacts
  <2>5. QED
    BY <2>1, <2>2, <2>3, <2>4
<1>7. Unread' = Tail(Unread)
  BY <1>4, <1>5, <1>6, <1>0, SeqEqual DEF UnreadFacts
<1>8. QED
  BY <1>2, <1>3, <1>7 DEF Fifo!Take

LEMMA FifoStep ==
  OneProducerInv /\ OneProducerInv' /\ [Next]_vars => [Fifo!Next]_Fifo!fifo_vars
<1> SUFFICES ASSUME OneProducerInv, OneProducerInv', [Next]_vars
             PROVE  [Fifo!Next]_Fifo!fifo_vars
  OBVIOUS
<1>1. CASE \E t \in Producers : PushConfirm(t)
  <2>1. PICK t \in Producers : PushConfirm(t)
    BY <1>1
  <2>2. data[t] \in Values
    BY <2>1 DEF OneProducerInv, TypeOK, PushConfirm, Goto, Threads, PushPCs
  <2>3. QED
    BY <2>1, <2>2, FifoPut DEF Fifo!Next
<1>2. CASE \E t \in Consumers : PopClaim(t)
  BY <1>2, FifoTake DEF Fifo!Next
<1>3. CASE ~ (\E t \in Producers : PushConfirm(t)) /\ ~ (\E t \in Consumers : PopClaim(t))
  <2>1. UNCHANGED <<m_read_index, m_last_write_index, popped>>
    BY <1>3 DEF vars, shared, locals, history, Next, PushStep, PopStep, Return, PushCall,
      PushLoadRead, PushLoadWrite, PushFull, PushClaim, PushClaimRetry, PushStore,
      PushConfirmRetry, PushCount, PopCall, PopLoadRead, PopLoadLast, PopEmpty,
      PopCopy, PopClaimRetry, PopCount
  <2>2. claimed' = claimed \/ \E t \in Producers : claimed' = Append(claimed, data[t])
    BY <1>3 DEF vars, shared, locals, history, Next, PushStep, PopStep, Return, PushCall,
      PushLoadRead, PushLoadWrite, PushFull, PushClaim, PushClaimRetry, PushStore,
      PushConfirmRetry, PushCount, PopCall, PopLoadRead, PopLoadLast, PopEmpty,
      PopCopy, PopClaimRetry, PopCount
  <2>3. /\ claimed \in Seq(Values) /\ m_last_write_index \in Nat
        /\ m_last_write_index <= Len(claimed)
    BY DEF OneProducerInv, TypeOK, Bounds
  <2>4. \A i \in 1 .. m_last_write_index : claimed'[i] = claimed[i]
    BY <2>2, <2>3
  <2>5. QED
    BY <2>1, <2>4, FifoStutter
<1>4. QED
  BY <1>1, <1>2, <1>3

(* A queue with one producer is a bounded FIFO, for every capacity and     *)
(* number of consumers.                                                    *)
THEOREM RingImplementsFifo ==
  ASSUME OneProducer
  PROVE  Spec => ImplementsFifo
<1>1. QED
  BY FifoInit, FifoStep, OneProducerInvariant, PTL DEF Spec, ImplementsFifo, Fifo!Spec
------------------------------------------------------------------------------
(***************************************************************************)
(* What holds for any number of producers: each claimed index is confirmed *)
(* once, readers stay behind the confirmed index, and m_length is off by   *)
(* the calls that have not counted themselves yet.                         *)
(***************************************************************************)
FiniteThreads == IsFiniteSet(Producers) /\ IsFiniteSet(Consumers)

(* A consumer that found the queue non-empty may claim an element only if  *)
(* no other consumer moved m_read_index.                                   *)
ReaderInv(c) ==
  /\ pc[c] \in {"pop_load_last", "pop_copy", "pop_claim"}
       => current_read_index[c] <= m_read_index
  /\ pc[c] \in {"pop_copy", "pop_claim"} /\ current_read_index[c] = m_read_index
       => m_read_index < m_last_write_index

ReadersInv ==
  /\ m_read_index <= m_last_write_index
  /\ \A c \in Consumers : ReaderInv(c)

Pending == Cardinality(At({"push_store", "push_confirm"}))
Pushing == Cardinality(At({"push_count"}))
Popping == Cardinality(At({"pop_count"}))

CountsInv ==
  /\ m_write_index = m_last_write_index + Pending
  /\ m_length = (m_last_write_index - m_read_index - Pushing + Popping) % LengthModulus

AnyThreadsInv == TypeOK /\ ReadersInv /\ CountsInv


(***************************************************************************)
(* Counting the threads at a label.                                        *)
(***************************************************************************)
LEMMA AtFinite ==
  ASSUME FiniteThreads, NEW L
  PROVE  /\ IsFiniteSet(At(L)) /\ IsFiniteSet(At(L)')
         /\ Cardinality(At(L)) \in Nat /\ Cardinality(At(L)') \in Nat
<1>1. IsFiniteSet(Threads)
  BY FS_Union DEF FiniteThreads, Threads
<1>2. At(L) \in SUBSET Threads /\ At(L)' \in SUBSET Threads
  BY DEF At
<1>3. QED
  BY <1>1, <1>2, FS_Subset, FS_CardinalityType

LEMMA AtSame ==
  ASSUME TypeOK, NEW t \in Threads, NEW from, NEW to, NEW L, Goto(t, from, to),
         from \in L <=> to \in L
  PROVE  At(L)' = At(L)
BY DEF At, Goto, TypeOK

LEMMA AtEnter ==
  ASSUME FiniteThreads, TypeOK, NEW t \in Threads, NEW from, NEW to, NEW L,
         Goto(t, from, to), from \notin L, to \in L
  PROVE  Cardinality(At(L)') = Cardinality(At(L)) + 1
<1>1. t \notin At(L) /\ At(L)' = At(L) \cup {t}
  BY DEF At, Goto, TypeOK
<1>2. QED
  BY <1>1, AtFinite, FS_AddElement

LEMMA AtLeave ==
  ASSUME FiniteThreads, TypeOK, NEW t \in Threads, NEW from, NEW to, NEW L,
         Goto(t, from, to), from \in L, to \notin L
  PROVE  Cardinality(At(L)') = Cardinality(At(L)) - 1
<1>1. t \in At(L) /\ At(L)' = At(L) \ {t}
  BY DEF At, Goto, TypeOK
<1>2. QED
  BY <1>1, AtFinite, FS_RemoveElement

(***************************************************************************)
(* Readers stay behind the confirmed index.                                *)
(***************************************************************************)
LEMMA ReadersStep == TypeOK /\ ReadersInv /\ [Next]_vars => ReadersInv'
<1> SUFFICES ASSUME TypeOK, ReadersInv, [Next]_vars PROVE ReadersInv'
  OBVIOUS
<1> USE DEF TypeOK, ReadersInv, ReaderInv, Threads, Goto, shared, locals
<1>1. ASSUME NEW t \in Producers, NEW v \in Values, PushCall(t, v) PROVE ReadersInv'
  BY <1>1 DEF PushCall
<1>2. ASSUME NEW t \in Producers, PushLoadRead(t) PROVE ReadersInv'
  BY <1>2 DEF PushLoadRead
<1>3. ASSUME NEW t \in Producers, PushLoadWrite(t) PROVE ReadersInv'
  BY <1>3 DEF PushLoadWrite
<1>4. ASSUME NEW t \in Producers, PushFull(t) PROVE ReadersInv'
  BY <1>4 DEF PushFull, Return
<1>5. ASSUME NEW t \in Producers, PushClaim(t) PROVE ReadersInv'
  BY <1>5 DEF PushClaim
<1>6. ASSUME NEW t \in Producers, PushClaimRetry(t) PROVE ReadersInv'
  BY <1>6 DEF PushClaimRetry
<1>7. ASSUME NEW t \in Producers, PushStore(t) PROVE ReadersInv'
  BY <1>7 DEF PushStore
<1>8. ASSUME NEW t \in Producers, PushConfirm(t) PROVE ReadersInv'
  BY <1>8 DEF PushConfirm
<1>9. ASSUME NEW t \in Producers, PushConfirmRetry(t) PROVE ReadersInv'
  BY <1>9 DEF PushConfirmRetry
<1>10. ASSUME NEW t \in Producers, PushCount(t) PROVE ReadersInv'
  BY <1>10 DEF PushCount, Return
<1>11. ASSUME NEW t \in Consumers, PopCall(t) PROVE ReadersInv'
  BY <1>11 DEF PopCall
<1>12. ASSUME NEW t \in Consumers, PopLoadRead(t) PROVE ReadersInv'
  BY <1>12 DEF PopLoadRead
<1>13. ASSUME NEW t \in Consumers, PopLoadLast(t) PROVE ReadersInv'
  BY <1>13 DEF PopLoadLast, SeenEmpty
<1>14. ASSUME NEW t \in Consumers, PopEmpty(t) PROVE ReadersInv'
  BY <1>14 DEF PopEmpty, Return
<1>15. ASSUME NEW t \in Consumers, PopCopy(t) PROVE ReadersInv'
  BY <1>15 DEF PopCopy
<1>16. ASSUME NEW t \in Consumers, PopClaim(t) PROVE ReadersInv'
  BY <1>16 DEF PopClaim
<1>17. ASSUME NEW t \in Consumers, PopClaimRetry(t) PROVE ReadersInv'
  BY <1>17 DEF PopClaimRetry
<1>18. ASSUME NEW t \in Consumers, PopCount(t) PROVE ReadersInv'
  BY <1>18 DEF PopCount, Return
<1>19. CASE UNCHANGED vars
  BY <1>19 DEF vars
<1>20. QED
  BY <1>1, <1>2, <1>3, <1>4, <1>5, <1>6, <1>7, <1>8, <1>9, <1>10, <1>11, <1>12, <1>13, <1>14, <1>15, <1>16, <1>17, <1>18, <1>19 DEF Next, PushStep, PopStep

(***************************************************************************)
(* Claims, confirms and counts.                                            *)
(***************************************************************************)
LEMMA CountTypes ==
  ASSUME FiniteThreads
  PROVE  Pending \in Nat /\ Pushing \in Nat /\ Popping \in Nat
BY AtFinite DEF Pending, Pushing, Popping

LEMMA CountFrame ==
  ASSUME TypeOK, CountsInv,
         NEW t \in Threads, NEW from, NEW to, Goto(t, from, to),
         from \in {"push_store", "push_confirm"} <=> to \in {"push_store", "push_confirm"},
         from \notin {"push_count", "pop_count"}, to \notin {"push_count", "pop_count"},
         UNCHANGED <<m_read_index, m_write_index, m_last_write_index, m_length>>
  PROVE  CountsInv'
<1>1. Pending' = Pending
  BY AtSame DEF Pending
<1>2. Pushing' = Pushing
  BY AtSame DEF Pushing
<1>3. Popping' = Popping
  BY AtSame DEF Popping
<1>4. QED
  BY <1>1, <1>2, <1>3 DEF CountsInv

LEMMA CountsStep ==
  ASSUME FiniteThreads
  PROVE  TypeOK /\ CountsInv /\ [Next]_vars => CountsInv'
<1> SUFFICES ASSUME TypeOK, CountsInv, [Next]_vars PROVE CountsInv'
  OBVIOUS
<1> DEFINE unread == m_last_write_index - m_read_index - Pushing + Popping
<1>0. /\ Pending \in Nat /\ Pushing \in Nat /\ Popping \in Nat
      /\ m_read_index \in Nat /\ m_write_index \in Nat /\ m_last_write_index \in Nat
      /\ m_length \in Int /\ unread \in Int /\ m_length = unread % LengthModulus
      /\ LengthModulus \in Nat \ {0}
  BY CountTypes, RingAssumption, SMTT(30) DEF TypeOK, CountsInv
<1>1. ASSUME NEW t \in Producers, NEW v \in Values, PushCall(t, v) PROVE CountsInv'
  BY <1>1, CountFrame DEF PushCall, shared, Threads
<1>2. ASSUME NEW t \in Producers, PushLoadRead(t) PROVE CountsInv'
  BY <1>2, CountFrame DEF PushLoadRead, shared, Threads
<1>3. ASSUME NEW t \in Producers, PushLoadWrite(t) PROVE CountsInv'
  BY <1>3, CountFrame DEF PushLoadWrite, shared, Threads
<1>4. ASSUME NEW t \in Producers, PushFull(t) PROVE CountsInv'
  BY <1>4, CountFrame DEF PushFull, Return, shared, Threads
<1>5. ASSUME NEW t \in Producers, PushClaim(t) PROVE CountsInv'
  <2>1. Pending' = Pending + 1
    BY <1>5, AtEnter DEF Pending, PushClaim, Threads
  <2>2. Pushing' = Pushing
    BY <1>5, AtSame DEF Pushing, PushClaim, Threads
  <2>3. Popping' = Popping
    BY <1>5, AtSame DEF Popping, PushClaim, Threads
  <2>4. QED
    BY <1>0, <1>5, <2>1, <2>2, <2>3 DEF PushClaim, CountsInv
<1>6. ASSUME NEW t \in Producers, PushClaimRetry(t) PROVE CountsInv'
  BY <1>6, CountFrame DEF PushClaimRetry, shared, Threads
<1>7. ASSUME NEW t \in Producers, PushStore(t) PROVE CountsInv'
  BY <1>7, CountFrame DEF PushStore, shared, Threads
<1>8. ASSUME NEW t \in Producers, PushConfirm(t) PROVE CountsInv'
  <2>1. Pending' = Pending - 1
    BY <1>8, AtLeave DEF Pending, PushConfirm, Threads
  <2>2. Pushing' = Pushing + 1
    <3>1. t \in Threads /\ Goto(t, "push_confirm", "push_count")
      BY <1>8 DEF PushConfirm, Threads
    <3>2. "push_confirm" \notin {"push_count"} /\ "push_count" \in {"push_count"}
      OBVIOUS
    <3>3. Cardinality(At({"push_count"})') = Cardinality(At({"push_count"})) + 1
      BY <3>1, <3>2, AtEnter
    <3>4. QED
      BY <3>3 DEF Pushing
  <2>3. Popping' = Popping
    BY <1>8, AtSame DEF Popping, PushConfirm, Threads
  <2>4. unread' = unread
    BY <1>0, <1>8, <2>2, <2>3 DEF PushConfirm
  <2>5. m_length' = unread' % LengthModulus
    BY <1>0, <1>8, <2>4 DEF PushConfirm
  <2>6. m_write_index' = m_last_write_index' + Pending'
    BY <1>0, <1>8, <2>1 DEF PushConfirm, CountsInv
  <2>7. QED
    BY <2>5, <2>6 DEF CountsInv
<1>9. ASSUME NEW t \in Producers, PushConfirmRetry(t) PROVE CountsInv'
  BY <1>9, CountFrame DEF PushConfirmRetry, shared, Threads
<1>10. ASSUME NEW t \in Producers, PushCount(t) PROVE CountsInv'
  <2>1. Pending' = Pending
    BY <1>10, AtSame DEF Pending, PushCount, Return, Threads
  <2>2. Pushing' = Pushing - 1
    BY <1>10, AtLeave DEF Pushing, PushCount, Return, Threads
  <2>3. Popping' = Popping
    BY <1>10, AtSame DEF Popping, PushCount, Return, Threads
  <2>4. unread' = unread + 1
    BY <1>0, <1>10, <2>2, <2>3 DEF PushCount
  <2>5. m_length' = ((unread % LengthModulus) + 1) % LengthModulus
    BY <1>0, <1>10 DEF PushCount
  <2> HIDE DEF unread
  <2>6. m_length' = (unread + 1) % LengthModulus
    <3>1. \A k \in Int : ((unread % LengthModulus) + k) % LengthModulus = (unread + k) % LengthModulus
      BY <1>0, ModAdd
    <3>2. QED
      BY <2>5, <3>1
  <2>7. m_length' = unread' % LengthModulus
    BY <2>4, <2>6
  <2>8. m_write_index' = m_last_write_index' + Pending'
    BY <1>10, <2>1 DEF PushCount, CountsInv
  <2>9. QED
    BY <2>7, <2>8 DEF CountsInv, unread
<1>11. ASSUME NEW t \in Consumers, PopCall(t) PROVE CountsInv'
  BY <1>11, CountFrame DEF PopCall, shared, Threads
<1>12. ASSUME NEW t \in Consumers, PopLoadRead(t) PROVE CountsInv'
  BY <1>12, CountFrame DEF PopLoadRead, shared, Threads
<1>13. ASSUME NEW t \in Consumers, PopLoadLast(t) PROVE CountsInv'
  BY <1>13, CountFrame DEF PopLoadLast, shared, Threads
<1>14. ASSUME NEW t \in Consumers, PopEmpty(t) PROVE CountsInv'
  BY <1>14, CountFrame DEF PopEmpty, Return, shared, Threads
<1>15. ASSUME NEW t \in Consumers, PopCopy(t) PROVE CountsInv'
  BY <1>15, CountFrame DEF PopCopy, shared, Threads
<1>16. ASSUME NEW t \in Consumers, PopClaim(t) PROVE CountsInv'
  <2>1. Pending' = Pending
    BY <1>16, AtSame DEF Pending, PopClaim, Threads
  <2>2. Pushing' = Pushing
    BY <1>16, AtSame DEF Pushing, PopClaim, Threads
  <2>3. Popping' = Popping + 1
    BY <1>16, AtEnter, SMTT(30) DEF Popping, PopClaim, Threads
  <2>4. unread' = unread
    <3>1. m_last_write_index' = m_last_write_index /\ m_read_index' = m_read_index + 1
      BY <1>16 DEF PopClaim
    <3>2. QED
      BY <1>0, <2>2, <2>3, <3>1
  <2>5. m_length' = unread' % LengthModulus
    BY <1>0, <1>16, <2>4 DEF PopClaim
  <2>6. m_write_index' = m_last_write_index' + Pending'
    BY <1>16, <2>1 DEF PopClaim, CountsInv
  <2>7. QED
    BY <2>5, <2>6 DEF CountsInv
<1>17. ASSUME NEW t \in Consumers, PopClaimRetry(t) PROVE CountsInv'
  BY <1>17, CountFrame DEF PopClaimRetry, shared, Threads
<1>18. ASSUME NEW t \in Consumers, PopCount(t) PROVE CountsInv'
  <2>1. Pending' = Pending
    BY <1>18, AtSame DEF Pending, PopCount, Return, Threads
  <2>2. Pushing' = Pushing
    BY <1>18, AtSame DEF Pushing, PopCount, Return, Threads
  <2>3. Popping' = Popping - 1
    BY <1>18, AtLeave DEF Popping, PopCount, Return, Threads
  <2>4. unread' = unread - 1
    BY <1>0, <1>18, <2>2, <2>3 DEF PopCount
  <2>5. m_length' = ((unread % LengthModulus) + (LengthModulus - 1)) % LengthModulus
    BY <1>0, <1>18 DEF PopCount
  <2> HIDE DEF unread
  <2>6. m_length' = (unread + (LengthModulus - 1)) % LengthModulus
    <3>1. LengthModulus - 1 \in Int
      BY <1>0
    <3>2. QED
      BY <1>0, <2>5, <3>1, ModAdd
  <2>7. unread + (LengthModulus - 1) = (unread - 1) + LengthModulus * 1
    BY <1>0
  <2>8. ((unread - 1) + LengthModulus * 1) % LengthModulus = (unread - 1) % LengthModulus
    <3>1. unread - 1 \in Int /\ 1 \in Int
      BY <1>0
    <3>2. QED
      BY <1>0, <3>1, ModPeriods
  <2>9. m_length' = unread' % LengthModulus
    BY <2>4, <2>6, <2>7, <2>8
  <2>10. m_write_index' = m_last_write_index' + Pending'
    BY <1>18, <2>1 DEF PopCount, CountsInv
  <2>11. QED
    BY <2>9, <2>10 DEF CountsInv, unread
<1>19. CASE UNCHANGED vars
  BY <1>19 DEF vars, shared, CountsInv, Pending, Pushing, Popping, At
<1>20. QED
  BY <1>1, <1>2, <1>3, <1>4, <1>5, <1>6, <1>7, <1>8, <1>9, <1>10, <1>11, <1>12, <1>13, <1>14, <1>15, <1>16, <1>17, <1>18, <1>19 DEF Next, PushStep, PopStep

LEMMA AnyInit ==
  ASSUME FiniteThreads
  PROVE  Init => AnyThreadsInv
<1> SUFFICES ASSUME Init PROVE AnyThreadsInv
  OBVIOUS
<1>1. TypeOK
  BY TypeInit
<1>2. ReadersInv
  BY DEF Init, ReadersInv, ReaderInv, Threads
<1>3. Pending = 0 /\ Pushing = 0 /\ Popping = 0
  <2>1. ASSUME NEW L, "idle" \notin L PROVE Cardinality(At(L)) = 0
    <3>1. At(L) = {}
      BY <2>1 DEF Init, At
    <3>2. QED
      BY <3>1, FS_EmptySet
  <2>2. QED
    BY <2>1 DEF Pending, Pushing, Popping
<1>4. 0 % LengthModulus = 0
  BY RingAssumption, LengthRange
<1>5. CountsInv
  BY <1>3, <1>4 DEF Init, CountsInv
<1>6. QED
  BY <1>1, <1>2, <1>5 DEF AnyThreadsInv

LEMMA AnyInvariant ==
  ASSUME FiniteThreads
  PROVE  Spec => []AnyThreadsInv
<1>1. Init => AnyThreadsInv
  BY AnyInit
<1>2. AnyThreadsInv /\ [Next]_vars => AnyThreadsInv'
  BY TypeStep, ReadersStep, CountsStep DEF AnyThreadsInv
<1>3. QED
  BY <1>1, <1>2, PTL DEF Spec

(* However producers mix up each other's confirms, no claimed index is     *)
(* confirmed twice or skipped, and no consumer reads past the confirmed    *)
(* index.                                                                  *)
THEOREM ConfirmsAlwaysMatchClaims ==
  ASSUME FiniteThreads
  PROVE  Spec => []ConfirmsMatchClaims
<1>1. AnyThreadsInv => ConfirmsMatchClaims
  BY DEF AnyThreadsInv, ReadersInv, CountsInv, Pending, ConfirmsMatchClaims
<1>2. QED
  BY <1>1, AnyInvariant, PTL

(* size() is exact modulo the calls that are between their effect and      *)
(* their fetch_add or fetch_sub.                                           *)
THEOREM LengthAlwaysAccounted ==
  ASSUME FiniteThreads
  PROVE  Spec => []LengthAccounting
<1>1. AnyThreadsInv => LengthAccounting
  BY DEF AnyThreadsInv, CountsInv, Pushing, Popping, LengthAccounting
<1>2. QED
  BY <1>1, AnyInvariant, PTL
------------------------------------------------------------------------------
(***************************************************************************)
(* How the ring gets overfilled, for any number of producers.              *)
(***************************************************************************)
(* What a producer brings from its two loads and the full test to the CAS. *)
ClaimInv ==
  \A t \in Producers :
    /\ pc[t] \in {"push_load_write", "push_claim"} => current_read_index[t] <= m_read_index
    /\ pc[t] = "push_claim" =>
         index_of_queue(current_write_index[t] + 1) # index_of_queue(current_read_index[t])

LEMMA ClaimStep == TypeOK /\ ClaimInv /\ [Next]_vars => ClaimInv'
<1> SUFFICES ASSUME TypeOK, ClaimInv, [Next]_vars PROVE ClaimInv'
  OBVIOUS
<1>0. \A i \in Int : index_of_queue(i)' = index_of_queue(i)
  BY DEF index_of_queue
<1> USE DEF TypeOK, ClaimInv, Threads, Goto, shared, locals
<1>1. ASSUME NEW t \in Producers, NEW v \in Values, PushCall(t, v) PROVE ClaimInv'
  BY <1>0, <1>1 DEF PushCall
<1>2. ASSUME NEW t \in Producers, PushLoadRead(t) PROVE ClaimInv'
  BY <1>0, <1>2 DEF PushLoadRead
<1>3. ASSUME NEW t \in Producers, PushLoadWrite(t) PROVE ClaimInv'
  BY <1>0, <1>3 DEF PushLoadWrite, SeenFull
<1>4. ASSUME NEW t \in Producers, PushFull(t) PROVE ClaimInv'
  BY <1>0, <1>4 DEF PushFull, Return
<1>5. ASSUME NEW t \in Producers, PushClaim(t) PROVE ClaimInv'
  BY <1>0, <1>5 DEF PushClaim
<1>6. ASSUME NEW t \in Producers, PushClaimRetry(t) PROVE ClaimInv'
  BY <1>0, <1>6 DEF PushClaimRetry
<1>7. ASSUME NEW t \in Producers, PushStore(t) PROVE ClaimInv'
  BY <1>0, <1>7 DEF PushStore
<1>8. ASSUME NEW t \in Producers, PushConfirm(t) PROVE ClaimInv'
  BY <1>0, <1>8 DEF PushConfirm
<1>9. ASSUME NEW t \in Producers, PushConfirmRetry(t) PROVE ClaimInv'
  BY <1>0, <1>9 DEF PushConfirmRetry
<1>10. ASSUME NEW t \in Producers, PushCount(t) PROVE ClaimInv'
  BY <1>0, <1>10 DEF PushCount, Return
<1>11. ASSUME NEW t \in Consumers, PopCall(t) PROVE ClaimInv'
  BY <1>0, <1>11 DEF PopCall
<1>12. ASSUME NEW t \in Consumers, PopLoadRead(t) PROVE ClaimInv'
  BY <1>0, <1>12 DEF PopLoadRead
<1>13. ASSUME NEW t \in Consumers, PopLoadLast(t) PROVE ClaimInv'
  BY <1>0, <1>13 DEF PopLoadLast
<1>14. ASSUME NEW t \in Consumers, PopEmpty(t) PROVE ClaimInv'
  BY <1>0, <1>14 DEF PopEmpty, Return
<1>15. ASSUME NEW t \in Consumers, PopCopy(t) PROVE ClaimInv'
  BY <1>0, <1>15 DEF PopCopy
<1>16. ASSUME NEW t \in Consumers, PopClaim(t) PROVE ClaimInv'
  BY <1>0, <1>16 DEF PopClaim
<1>17. ASSUME NEW t \in Consumers, PopClaimRetry(t) PROVE ClaimInv'
  BY <1>0, <1>17 DEF PopClaimRetry
<1>18. ASSUME NEW t \in Consumers, PopCount(t) PROVE ClaimInv'
  BY <1>0, <1>18 DEF PopCount, Return
<1>19. CASE UNCHANGED vars
  BY <1>0, <1>19 DEF vars
<1>20. QED
  BY <1>1, <1>2, <1>3, <1>4, <1>5, <1>6, <1>7, <1>8, <1>9, <1>10, <1>11, <1>12, <1>13, <1>14, <1>15, <1>16, <1>17, <1>18, <1>19 DEF Next, PushStep, PopStep

(* A push that claims an index although m_size - 1 claimed ones are unread *)
(* tested a read index that was a whole lap old (l.77-84): several         *)
(* producers overfill the ring in no other way.                            *)
THEOREM OverfullNeedsStaleRead == Spec => OverfullOnlyByStaleRead
<1> DEFINE ByStaleRead(t) ==
      /\ pc[t] = "push_claim" /\ pc'[t] = "push_store"
      /\ m_write_index - m_read_index >= m_size - 1
      => m_write_index - current_read_index[t] >= m_size
<1>1. ASSUME TypeOK, ClaimInv, [Next]_vars, NEW t \in Producers
      PROVE  ByStaleRead(t)
  <2> SUFFICES ASSUME pc[t] = "push_claim", pc'[t] = "push_store",
                      m_write_index - m_read_index >= m_size - 1
               PROVE  m_write_index - current_read_index[t] >= m_size
    OBVIOUS
  <2> USE <1>1, RingAssumption DEF TypeOK, Threads
  <2>1. m_write_index = current_write_index[t]
    BY DEF vars, Next, PushStep, PopStep, Goto, Return, PushCall, PushLoadRead,
      PushLoadWrite, PushFull, PushClaim, PushClaimRetry, PushStore, PushConfirm,
      PushConfirmRetry, PushCount, PopCall, PopLoadRead, PopLoadLast, PopEmpty,
      PopCopy, PopClaim, PopClaimRetry, PopCount
  <2>2. /\ current_read_index[t] <= m_read_index
        /\ index_of_queue(m_write_index + 1) # index_of_queue(current_read_index[t])
    BY <2>1 DEF ClaimInv
  <2>3. index_of_queue(current_read_index[t] + m_size) = index_of_queue(current_read_index[t])
    BY SlotPeriod
  <2>4. m_write_index + 1 # current_read_index[t] + m_size
    BY <2>2, <2>3
  <2>5. /\ m_write_index \in Int /\ m_read_index \in Int /\ m_size \in Int
        /\ current_read_index[t] \in Int
    OBVIOUS
  <2>6. m_write_index - m_read_index >= m_size - 1
    OBVIOUS
  <2> HIDE <1>1 DEF TypeOK
  <2>7. QED
    BY <2>2, <2>4, <2>5, <2>6
<1>2. Init => ClaimInv
  BY DEF Init, ClaimInv, Threads
<1>3. TypeOK /\ ClaimInv /\ [Next]_vars => [\A t \in Producers : ByStaleRead(t)]_vars
  BY <1>1
<1>4. QED
  BY <1>2, <1>3, ClaimStep, TypeCorrect, PTL DEF Spec, OverfullOnlyByStaleRead
==============================================================================
