----------------------------- MODULE MC_PktBuf ------------------------------
(* PktBuf for TLC: the packets are interchangeable, and states that differ *)
(* only in the bytes the last call moved are one.  Nothing depends on them *)
(* but that call's own step, which TLC checks before it compares states.   *)
EXTENDS PktBuf, TLC

Symmetry == Permutations(Pkts)
View == <<pool, live, list, m_capacity, cur, leaked, garbage>>
==============================================================================
