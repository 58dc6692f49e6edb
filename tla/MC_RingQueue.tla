---------------------------- MODULE MC_RingQueue ----------------------------
(***************************************************************************)
(* Instances of RingQueue for TLC.  Producers, Consumers and Values are    *)
(* sets of model values given by the configurations.                       *)
(***************************************************************************)
EXTENDS RingQueue, TLC

(* Threads of the same role, and values, are interchangeable (for safety   *)
(* runs only, and only where no thread plays both roles).                  *)
Symmetry == Permutations(Producers) \cup Permutations(Consumers) \cup Permutations(Values)
==============================================================================
