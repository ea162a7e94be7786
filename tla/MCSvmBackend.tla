---------------------------- MODULE MCSvmBackend ----------------------------
(* SvmBackend with four pages, so that a released page can be handed out  *)
(* again in another role; two processors, so that a thread can be moved,   *)
(* or one.                                                                 *)
EXTENDS SvmBackend

CONSTANTS c1, c2, p1, p2, p3, p4

OneCpu  == {c1}
TwoCpus == {c1, c2}
Pages   == {p1, p2, p3, p4}
AllFeatures == [amd : BOOLEAN, leaf : BOOLEAN, svm : BOOLEAN, svmdis : BOOLEAN]
Either  == BOOLEAN
==============================================================================
