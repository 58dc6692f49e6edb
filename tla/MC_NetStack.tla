----------------------------- MODULE MC_NetStack -----------------------------
(***************************************************************************)
(* Instances of NetStack for TLC.                                          *)
(***************************************************************************)
EXTENDS NetStack, TLC

(* Packets and blocks of each kind are interchangeable.                    *)
Symmetry == UNION {Permutations(S) : S \in {Bufs, Blks, Msgs, Timers}}
==============================================================================
