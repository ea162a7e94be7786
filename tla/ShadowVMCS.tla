------------------------------ MODULE ShadowVMCS ------------------------------
(***************************************************************************)
(* ShadowVMCS of src/kern_vmx.hpp: the fixed array of {encoding, value}    *)
(* slots that stands in for the VMCS an AMD processor does not have.       *)
(* Slots 0 .. count-1 are in use; a read or a write scans them from 0 and  *)
(* takes the first that carries the encoding; a write that finds none      *)
(* appends a slot, or is dropped when all MaxFields are in use.            *)
(*                                                                         *)
(* Nothing ever erases a slot: reset() only moves count back to 0, so the  *)
(* array keeps stale slots behind count, and a fresh array is full of      *)
(* slots that carry encoding 0 - which is a real field, the VPID.          *)
(***************************************************************************)
EXTENDS Naturals, FiniteSets

CONSTANTS
  Enc,        \* the 32-bit VMCS field encodings in play
  Val,        \* the 64-bit values in play
  Zero,       \* the value 0
  ZeroEnc,    \* the encoding 0x0000 (VMCS_VIRTUAL_PROCESSOR_ID)
  MaxFields   \* ShadowVMCS::MaxFields, 256 in the source

ASSUME ShadowAssumption ==
  /\ MaxFields \in Nat \ {0}
  /\ Zero \in Val
  /\ ZeroEnc \in Enc

VARIABLES
  fields,     \* the array of slots
  count,      \* how many slots are in use
  launched,   \* the launch state kept beside the fields
  ok          \* what the last write() returned

vars == <<fields, count, launched, ok>>

Slot == 0 .. MaxFields - 1
Used == 0 .. count - 1

TypeOK ==
  /\ fields \in [Slot -> [enc : Enc, val : Val]]
  /\ count \in 0 .. MaxFields
  /\ launched \in BOOLEAN
  /\ ok \in BOOLEAN

------------------------------------------------------------------------------

Holds(e) == \E i \in Used : fields[i].enc = e

\* The slot a scan from 0 stops at.
FirstSlot(e) ==
  CHOOSE i \in Used :
    /\ fields[i].enc = e
    /\ \A j \in Used : fields[j].enc = e => i <= j

\* Mutant: the scan covers the whole array, stale slots included.
ReadWholeArray(e) ==
  IF \E i \in Slot : fields[i].enc = e
  THEN fields[CHOOSE i \in Slot : fields[i].enc = e].val
  ELSE Zero

read(e) == IF Holds(e) THEN fields[FirstSlot(e)].val ELSE Zero

Init ==
  /\ fields = [i \in Slot |-> [enc |-> ZeroEnc, val |-> Zero]]
  /\ count = 0
  /\ launched = FALSE
  /\ ok = TRUE

Overwrite(e, v) ==
  /\ Holds(e)
  /\ fields' = [fields EXCEPT ![FirstSlot(e)].val = v]
  /\ ok' = TRUE
  /\ UNCHANGED <<count, launched>>

DropWrite(e) ==
  /\ ~ Holds(e)
  /\ count >= MaxFields
  /\ ok' = FALSE
  /\ UNCHANGED <<fields, count, launched>>

\* Mutants: append without looking for the encoding first; append behind the
\* end of the array.
AppendBlindly(e, v) ==
  /\ count < MaxFields
  /\ fields' = [fields EXCEPT ![count] = [enc |-> e, val |-> v]]
  /\ count' = count + 1
  /\ ok' = TRUE
  /\ UNCHANGED launched

AppendPastEnd(e, v) ==
  /\ ~ Holds(e)
  /\ count <= MaxFields
  /\ fields' = [i \in Slot |-> IF i = count THEN [enc |-> e, val |-> v]
                                            ELSE fields[i]]
  /\ count' = count + 1
  /\ ok' = TRUE
  /\ UNCHANGED launched

AppendWrite(e, v) ==
  /\ ~ Holds(e)
  /\ count < MaxFields
  /\ fields' = [fields EXCEPT ![count] = [enc |-> e, val |-> v]]
  /\ count' = count + 1
  /\ ok' = TRUE
  /\ UNCHANGED launched

write(e, v) == Overwrite(e, v) \/ DropWrite(e) \/ AppendWrite(e, v)

reset ==
  /\ count' = 0
  /\ launched' = FALSE
  /\ UNCHANGED <<fields, ok>>

setLaunched(b) ==
  /\ launched' = b
  /\ UNCHANGED <<fields, count, ok>>

Next ==
  \/ \E e \in Enc, v \in Val : write(e, v)
  \/ reset
  \/ \E b \in BOOLEAN : setLaunched(b)

Spec == Init /\ [][Next]_vars

------------------------------------------------------------------------------
\* Properties

(* No encoding sits in two slots in use.  Were it to, a write would update *)
(* the first while the second waits to resurface, and fewer than MaxFields *)
(* different encodings would fill the store.                               *)
NoDuplicates ==
  \A i, j \in Used : fields[i].enc = fields[j].enc => i = j

(* The array of slots implements the memory of VmcsStore: every write that *)
(* returned true is what later reads of that encoding see and no other     *)
(* encoding's read changes, an encoding not written since the last reset   *)
(* reads as 0 whatever stale slots lie behind count, and a write is        *)
(* dropped only when MaxFields OTHER encodings are held.                   *)
Store == INSTANCE VmcsStore WITH
  Capacity <- MaxFields,
  contents <- [e \in Enc |-> read(e)],
  held     <- {fields[i].enc : i \in Used}

ImplementsStore == Store!StoreSpec
==============================================================================
