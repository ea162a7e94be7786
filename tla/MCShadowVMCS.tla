----------------------------- MODULE MCShadowVMCS -----------------------------
(* ShadowVMCS on a small store.  Four encodings: with MaxFields = 3 the    *)
(* store fills, drops writes, and is reset and filled again over stale     *)
(* slots.                                                                  *)
EXTENDS ShadowVMCS

MCEnc == {"vpid", "rip", "cr3", "reason"}
MCVal == {0, 1}
==============================================================================
