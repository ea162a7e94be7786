---------------------------- MODULE MCWorldSwitch ----------------------------
(* WorldSwitch with two threads on two processors and a guest that changes *)
(* all of its state in every run.                                          *)
EXTENDS WorldSwitch, TLC

CONSTANTS t1, t2, c1, c2

Threads    == {t1, t2}
TwoCpus    == {c1, c2}
Everything == {GuestState}
Symmetry   == Permutations(Threads) \cup Permutations(TwoCpus)
==============================================================================
