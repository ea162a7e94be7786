-------------------------------- MODULE Words --------------------------------
(***************************************************************************)
(* Machine words as the set of the positions of their 1 bits.  The word 0  *)
(* is {}, x & y is x \cap y, x | y is x \cup y, and x & ~y is x \ y, so a  *)
(* mask is the set of the bits it keeps and a flag is tested by            *)
(* membership.  A word of w bits is a subset of 0 .. w-1, whatever w: a    *)
(* 64-bit word costs no more to check or to prove about than a small one.  *)
(***************************************************************************)
EXTENDS Naturals

Bits(lo, hi) == lo .. hi

\* What a cast to an unsigned type of n bits keeps.
Low(w, n) == {b \in w : b < n}

Shl(w, k) == {b + k : b \in w}

Shr(w, k) == {b - k : b \in {c \in w : c >= k}}
==============================================================================
