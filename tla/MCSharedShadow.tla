---------------------------- MODULE MCSharedShadow ----------------------------
(* SharedShadow on two processors, a store of two slots and three          *)
(* encodings, so that it fills while both use it.                          *)
EXTENDS SharedShadow, TLC

CONSTANTS c1, c2

MCEnc    == {"vpid", "rip", "cr3"}
MCVal    == {0, 1}
TwoCpus  == {c1, c2}
Symmetry == Permutations(TwoCpus)
==============================================================================
