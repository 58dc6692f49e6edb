-------------------------------- MODULE Words --------------------------------
(***************************************************************************)
(* Unsigned integers of a fixed width, as C++ computes with them: results  *)
(* wrap around, and &, | and >> act on the set of positions whose powers   *)
(* of two add up to the number.                                            *)
(***************************************************************************)
EXTENDS Integers

CONSTANT IndexBits   \* bits of an index, 32 in the code

ASSUME WidthAssumption == IndexBits \in Nat \ {0, 1}

Positions == 0 .. IndexBits - 1

Power[k \in 0 .. IndexBits] == IF k = 0 THEN 1 ELSE 2 * Power[k - 1]

wrap(n) == n % Power[IndexBits]

(* What the positions of S below each k add up to.                         *)
PartialSums(S) ==
  LET sum[k \in 0 .. IndexBits] ==
        IF k = 0 THEN 0
        ELSE sum[k - 1] + (IF k - 1 \in S THEN Power[k - 1] ELSE 0)
  IN  sum

Word(S) == PartialSums(S)[IndexBits]

Bits(n) == CHOOSE S \in SUBSET Positions : Word(S) = n

And(a, b) == Word(Bits(a) \cap Bits(b))

Or(a, b) == Word(Bits(a) \cup Bits(b))

ShiftRight(a, s) == Word({k \in Positions : k + s \in Bits(a)})
==============================================================================
