----------------------------- MODULE BoundedFifo -----------------------------
(***************************************************************************)
(* What a ring queue of the stack promises its callers: a first-in         *)
(* first-out queue of at most Capacity elements, in which every push that  *)
(* took effect is delivered at most once, in the order of the pushes.      *)
(***************************************************************************)
EXTENDS Naturals, Sequences

CONSTANTS Values,     \* what is queued: pointers to blocks, packets, messages
          Capacity    \* how many elements fit

VARIABLES items,      \* the elements in the queue, oldest first
          delivered   \* every element handed to a consumer so far, in order

fifo_vars == <<items, delivered>>

Init == items = <<>> /\ delivered = <<>>

Put(v) == /\ Len(items) < Capacity
          /\ items' = Append(items, v)
          /\ UNCHANGED delivered

Take == /\ items # <<>>
        /\ delivered' = Append(delivered, Head(items))
        /\ items' = Tail(items)

Next == (\E v \in Values : Put(v)) \/ Take

Spec == Init /\ [][Next]_fifo_vars
==============================================================================
