------------------------------ MODULE VmcsStore ------------------------------
(***************************************************************************)
(* What the shadow VMCS promises to the code that uses it: a memory from   *)
(* VMCS field encodings to values.  Every encoding can be read, an         *)
(* encoding never written reads as zero, a write is seen by every later    *)
(* read of the same encoding and by no read of another one, and a write    *)
(* may be refused only when Capacity OTHER encodings are already held.     *)
(*                                                                         *)
(* The abstract specification ShadowVMCS implements.  It says nothing of   *)
(* slots, of the order of the writes, or of how an encoding is searched.   *)
(***************************************************************************)
EXTENDS Naturals, FiniteSets

CONSTANTS
  Enc,       \* the 32-bit VMCS field encodings
  Val,       \* the 64-bit values
  Zero,      \* the value 0
  Capacity   \* how many encodings the store is sure to hold

VARIABLES
  contents,  \* what a read of each encoding returns
  held,      \* the encodings written since the last reset
  launched,  \* the VMCS launch state
  ok         \* the result of the last write

storeVars == <<contents, held, launched, ok>>

StoreInit ==
  /\ contents = [e \in Enc |-> Zero]
  /\ held = {}
  /\ launched = FALSE
  /\ ok = TRUE

StoreWrite(e, v) ==
  /\ e \in held \/ Cardinality(held) < Capacity
  /\ contents' = [contents EXCEPT ![e] = v]
  /\ held' = held \cup {e}
  /\ ok' = TRUE
  /\ UNCHANGED launched

StoreRefuse(e) ==
  /\ e \notin held
  /\ Cardinality(held) >= Capacity
  /\ ok' = FALSE
  /\ UNCHANGED <<contents, held, launched>>

StoreReset ==
  /\ contents' = [e \in Enc |-> Zero]
  /\ held' = {}
  /\ launched' = FALSE
  /\ UNCHANGED ok

StoreSetLaunched(b) ==
  /\ launched' = b
  /\ UNCHANGED <<contents, held, ok>>

StoreNext ==
  \/ \E e \in Enc, v \in Val : StoreWrite(e, v)
  \/ \E e \in Enc : StoreRefuse(e)
  \/ StoreReset
  \/ \E b \in BOOLEAN : StoreSetLaunched(b)

StoreSpec == StoreInit /\ [][StoreNext]_storeVars
==============================================================================
