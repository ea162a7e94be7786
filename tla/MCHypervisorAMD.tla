--------------------------- MODULE MCHypervisorAMD ---------------------------
(* HypervisorAMD on every kernel KernelShape allows, with two processors   *)
(* and three pages.                                                        *)
EXTENDS HypervisorAMD

CONSTANTS c1, c2, p1, p2, p3

TwoCpus     == {c1, c2}
Pages       == {p1, p2, p3}
AllFeatures == [amd : BOOLEAN, leaf : BOOLEAN, svm : BOOLEAN, svmdis : BOOLEAN]
Either      == BOOLEAN
==============================================================================
