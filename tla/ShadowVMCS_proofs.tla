-------------------------- MODULE ShadowVMCS_proofs --------------------------
(***************************************************************************)
(* For every set of encodings, every set of values and every MaxFields:    *)
(* the slots of ShadowVMCS never hold an encoding twice, the array         *)
(* implements the memory of VmcsStore, and it loses no write as long as    *)
(* there are no more encodings than slots.                                 *)
(***************************************************************************)
EXTENDS ShadowVMCS, FiniteSetTheorems, TLAPS

Held == {fields[i].enc : i \in Used}

(* The inductive invariant.  HeldSize ties count to the number of          *)
(* different encodings held: it is what turns "count >= MaxFields" in the  *)
(* code into "MaxFields other encodings are held" in VmcsStore.            *)
HeldSize == IsFiniteSet(Held) /\ Cardinality(Held) = count

IInv == TypeOK /\ NoDuplicates /\ HeldSize

------------------------------------------------------------------------------
\* The scan

(* The scan of an array f whose first n slots carry encoding e only at     *)
(* slot i stops at i.  Stated over f and n, not over the variables, so     *)
(* that it serves for the state before a step and for the one after it.    *)
LEMMA ScanStopsAt ==
  ASSUME NEW f, NEW n, NEW e,
         NEW i \in 0 .. n - 1,
         f[i].enc = e,
         \A j \in 0 .. n - 1 : f[j].enc = e => j = i
  PROVE  (CHOOSE k \in 0 .. n - 1 :
            /\ f[k].enc = e
            /\ \A j \in 0 .. n - 1 : f[j].enc = e => k <= j) = i
<1>1. i <= i
  OBVIOUS
<1>2. \E k \in 0 .. n - 1 :
        f[k].enc = e /\ \A j \in 0 .. n - 1 : f[j].enc = e => k <= j
  BY <1>1
<1>3. QED
  BY <1>2

(* With no duplicates, the scan for the encoding of a used slot finds that *)
(* slot, and a read of it returns that slot's value ...                    *)
LEMMA ReadUsedSlot ==
  ASSUME NoDuplicates, NEW e, NEW i \in Used, fields[i].enc = e
  PROVE  FirstSlot(e) = i /\ read(e) = fields[i].val
<1>1. \A j \in 0 .. count - 1 : fields[j].enc = e => j = i
  BY DEF NoDuplicates, Used
<1>2. FirstSlot(e) = i
  BY <1>1, ScanStopsAt DEF FirstSlot, Used
<1>3. QED
  BY <1>2 DEF read, Holds

(* ... and so in the state after a step.                                   *)
LEMMA ReadUsedSlotNext ==
  ASSUME NoDuplicates', NEW e, NEW i \in Used', fields'[i].enc = e
  PROVE  read(e)' = fields'[i].val
<1>1. \A j \in 0 .. count' - 1 : fields'[j].enc = e => j = i
  BY DEF NoDuplicates, Used
<1>2. FirstSlot(e)' = i
  BY <1>1, ScanStopsAt DEF FirstSlot, Used
<1>3. QED
  BY <1>2 DEF read, Holds

------------------------------------------------------------------------------
\* The invariant

LEMMA InitIInv == Init => IInv
<1>1. SUFFICES ASSUME Init PROVE IInv
  OBVIOUS
<1>2. Used = {}
  BY <1>1 DEF Init, Used
<1>3. TypeOK
  <2>1. count \in 0 .. MaxFields
    BY <1>1, ShadowAssumption DEF Init
  <2>2. fields \in [Slot -> [enc : Enc, val : Val]]
    BY <1>1, ShadowAssumption DEF Init
  <2>3. launched \in BOOLEAN /\ ok \in BOOLEAN
    BY <1>1 DEF Init
  <2>4. QED
    BY <2>1, <2>2, <2>3 DEF TypeOK
<1>4. NoDuplicates
  BY <1>2 DEF NoDuplicates
<1>5. HeldSize
  <2>1. Held = {}
    BY <1>2 DEF Held
  <2>2. QED
    BY <1>1, <2>1, FS_EmptySet DEF HeldSize, Init
<1>6. QED
  BY <1>3, <1>4, <1>5 DEF IInv

(* Overwriting changes the value of one slot and the encoding of none.     *)
LEMMA OverwriteEffect ==
  ASSUME IInv, NEW e \in Enc, NEW v \in Val, Overwrite(e, v)
  PROVE  /\ FirstSlot(e) \in Used
         /\ fields[FirstSlot(e)].enc = e
         /\ fields' \in [Slot -> [enc : Enc, val : Val]]
         /\ \A j \in Slot : fields'[j].enc = fields[j].enc
         /\ \A j \in Slot : fields'[j].val =
                             IF j = FirstSlot(e) THEN v ELSE fields[j].val
<1>1. PICK i \in Used : fields[i].enc = e
  BY DEF Overwrite, Holds
<1>2. FirstSlot(e) = i
  BY <1>1, ReadUsedSlot DEF IInv
<1>3. i \in Slot /\ fields \in [Slot -> [enc : Enc, val : Val]]
  BY <1>1, ShadowAssumption DEF IInv, TypeOK, Used, Slot
<1>4. fields' = [fields EXCEPT ![i] = [fields[i] EXCEPT !.val = v]]
  BY <1>2 DEF Overwrite
<1>5. QED
  BY <1>1, <1>2, <1>3, <1>4

LEMMA OverwriteIInv ==
  ASSUME IInv, NEW e \in Enc, NEW v \in Val, Overwrite(e, v)
  PROVE  IInv'
<1>1. /\ fields' \in [Slot -> [enc : Enc, val : Val]]
      /\ \A j \in Slot : fields'[j].enc = fields[j].enc
  BY OverwriteEffect
<1>2. Used' = Used /\ count' = count /\ Used \subseteq Slot
  BY ShadowAssumption DEF Overwrite, Used, IInv, TypeOK, Slot
<1>3. TypeOK'
  BY <1>1 DEF Overwrite, IInv, TypeOK, Slot
<1>4. NoDuplicates'
  BY <1>1, <1>2 DEF IInv, NoDuplicates
<1>5. HeldSize'
  <2>1. Held' = Held
    BY <1>1, <1>2 DEF Held
  <2>2. QED
    BY <2>1, <1>2 DEF IInv, HeldSize
<1>6. QED
  BY <1>3, <1>4, <1>5 DEF IInv

(* Appending adds one slot, and leaves the slots already in use alone.     *)
LEMMA AppendEffect ==
  ASSUME IInv, NEW e \in Enc, NEW v \in Val, AppendWrite(e, v)
  PROVE  /\ Used' = Used \cup {count}
         /\ count \notin Used
         /\ fields' \in [Slot -> [enc : Enc, val : Val]]
         /\ fields'[count] = [enc |-> e, val |-> v]
         /\ \A j \in Used : fields'[j] = fields[j] /\ fields[j].enc # e
<1>1. /\ count \in Slot /\ Used \subseteq Slot
      /\ fields \in [Slot -> [enc : Enc, val : Val]]
  BY ShadowAssumption DEF AppendWrite, IInv, TypeOK, Used, Slot
<1>2. Used' = Used \cup {count} /\ count \notin Used
  BY DEF AppendWrite, IInv, TypeOK, Used
<1>3. fields' = [fields EXCEPT ![count] = [enc |-> e, val |-> v]]
  BY DEF AppendWrite
<1>4. \A j \in Used : fields[j].enc # e
  BY DEF AppendWrite, Holds
<1>5. QED
  BY <1>1, <1>2, <1>3, <1>4

LEMMA AppendIInv ==
  ASSUME IInv, NEW e \in Enc, NEW v \in Val, AppendWrite(e, v)
  PROVE  IInv'
<1>1. /\ Used' = Used \cup {count}
      /\ count \notin Used
      /\ fields' \in [Slot -> [enc : Enc, val : Val]]
      /\ fields'[count] = [enc |-> e, val |-> v]
      /\ \A j \in Used : fields'[j] = fields[j] /\ fields[j].enc # e
  BY AppendEffect
<1>2. TypeOK'
  BY <1>1, ShadowAssumption DEF AppendWrite, IInv, TypeOK, Slot
<1>3. NoDuplicates'
  BY <1>1 DEF IInv, NoDuplicates
<1>4. HeldSize'
  <2>1. Held' = Held \cup {e} /\ e \notin Held
    BY <1>1 DEF Held
  <2>2. count' = count + 1
    BY DEF AppendWrite
  <2>3. QED
    BY <2>1, <2>2, FS_AddElement DEF IInv, HeldSize
<1>5. QED
  BY <1>2, <1>3, <1>4 DEF IInv

LEMMA ResetIInv == ASSUME IInv, reset PROVE IInv'
<1>1. Used' = {}
  BY DEF reset, Used
<1>2. Held' = {}
  BY <1>1 DEF Held
<1>3. HeldSize'
  BY <1>2, FS_EmptySet DEF HeldSize, reset
<1>4. NoDuplicates'
  BY <1>1 DEF NoDuplicates
<1>5. count' \in 0 .. MaxFields
  BY ShadowAssumption DEF reset
<1>6. TypeOK'
  BY <1>5 DEF IInv, TypeOK, reset, Slot
<1>7. QED
  BY <1>3, <1>4, <1>6 DEF IInv

(* A step that touches neither the array nor count preserves the invariant. *)
LEMMA SameSlotsIInv ==
  ASSUME IInv, fields' = fields, count' = count,
         launched' \in BOOLEAN, ok' \in BOOLEAN
  PROVE  IInv'
<1>1. Used' = Used /\ Held' = Held
  BY DEF Used, Held
<1>2. QED
  BY <1>1 DEF IInv, TypeOK, NoDuplicates, HeldSize, Slot

LEMMA NextIInv == IInv /\ [Next]_vars => IInv'
<1>1. SUFFICES ASSUME IInv, [Next]_vars PROVE IInv'
  OBVIOUS
<1>2. ASSUME NEW e \in Enc, NEW v \in Val, Overwrite(e, v) PROVE IInv'
  BY <1>1, <1>2, OverwriteIInv
<1>3. ASSUME NEW e \in Enc, DropWrite(e) PROVE IInv'
  BY <1>1, <1>3, SameSlotsIInv DEF DropWrite, IInv, TypeOK
<1>4. ASSUME NEW e \in Enc, NEW v \in Val, AppendWrite(e, v) PROVE IInv'
  BY <1>1, <1>4, AppendIInv
<1>5. CASE reset
  BY <1>1, <1>5, ResetIInv
<1>6. ASSUME NEW b \in BOOLEAN, setLaunched(b) PROVE IInv'
  BY <1>1, <1>6, SameSlotsIInv DEF setLaunched, IInv, TypeOK
<1>7. CASE UNCHANGED vars
  BY <1>1, <1>7, SameSlotsIInv DEF vars, IInv, TypeOK
<1>8. QED
  BY <1>1, <1>2, <1>3, <1>4, <1>5, <1>6, <1>7 DEF Next, write

THEOREM Invariance == Spec => []IInv
BY InitIInv, NextIInv, PTL DEF Spec

(* The slots, count, the launch state and the result keep their types:     *)
(* count never passes MaxFields, so no write lands outside the array.      *)
THEOREM TypeCorrect == Spec => []TypeOK
<1>1. IInv => TypeOK
  BY DEF IInv
<1>2. QED
  BY <1>1, Invariance, PTL

(* No encoding is ever in two slots in use, for every MaxFields.           *)
THEOREM NoDuplicatesHolds == Spec => []NoDuplicates
<1>1. IInv => NoDuplicates
  BY DEF IInv
<1>2. QED
  BY <1>1, Invariance, PTL

------------------------------------------------------------------------------
\* What a step does to the reads

LEMMA OverwriteReads ==
  ASSUME IInv, NEW e \in Enc, NEW v \in Val, Overwrite(e, v), NEW f
  PROVE  read(f)' = IF f = e THEN v ELSE read(f)
<1> DEFINE s == FirstSlot(e)
<1>1. /\ s \in Used /\ fields[s].enc = e
      /\ \A j \in Slot : fields'[j].enc = fields[j].enc
      /\ \A j \in Slot : fields'[j].val = IF j = s THEN v ELSE fields[j].val
  BY OverwriteEffect
<1>2. Used' = Used /\ Used \subseteq Slot
  BY ShadowAssumption DEF Overwrite, Used, IInv, TypeOK, Slot
<1>3. NoDuplicates /\ NoDuplicates'
  BY OverwriteIInv DEF IInv
<1>4. CASE Holds(f)
  <2>1. PICK i \in Used : fields[i].enc = f
    BY <1>4 DEF Holds
  <2>2. read(f) = fields[i].val /\ read(f)' = fields'[i].val
    BY <1>1, <1>2, <1>3, <2>1, ReadUsedSlot, ReadUsedSlotNext
  <2>3. i = s <=> f = e
    BY <1>1, <1>3, <2>1 DEF NoDuplicates
  <2>4. QED
    BY <1>1, <1>2, <2>2, <2>3
<1>5. CASE ~ Holds(f)
  <2>1. read(f) = Zero /\ read(f)' = Zero
    BY <1>1, <1>2, <1>5 DEF read, Holds
  <2>2. f # e
    BY <1>1, <1>5 DEF Holds
  <2>3. QED
    BY <2>1, <2>2
<1>6. QED
  BY <1>4, <1>5

LEMMA AppendReads ==
  ASSUME IInv, NEW e \in Enc, NEW v \in Val, AppendWrite(e, v), NEW f
  PROVE  read(f)' = IF f = e THEN v ELSE read(f)
<1>1. /\ Used' = Used \cup {count}
      /\ fields'[count] = [enc |-> e, val |-> v]
      /\ \A j \in Used : fields'[j] = fields[j] /\ fields[j].enc # e
  BY AppendEffect
<1>2. NoDuplicates /\ NoDuplicates'
  BY AppendIInv DEF IInv
<1>3. CASE f = e
  <2>1. read(f)' = fields'[count].val
    BY <1>1, <1>2, <1>3, ReadUsedSlotNext
  <2>2. QED
    BY <1>1, <1>3, <2>1
<1>4. CASE f # e /\ Holds(f)
  <2>1. PICK i \in Used : fields[i].enc = f
    BY <1>4 DEF Holds
  <2>2. read(f) = fields[i].val /\ read(f)' = fields'[i].val
    BY <1>1, <1>2, <2>1, ReadUsedSlot, ReadUsedSlotNext
  <2>3. QED
    BY <1>1, <1>4, <2>1, <2>2
<1>5. CASE f # e /\ ~ Holds(f)
  <2>1. ~ \E i \in Used' : fields'[i].enc = f
    BY <1>1, <1>5 DEF Holds
  <2>2. read(f) = Zero /\ read(f)' = Zero
    BY <1>5, <2>1 DEF read, Holds
  <2>3. QED
    BY <1>5, <2>2
<1>6. QED
  BY <1>3, <1>4, <1>5

LEMMA SameSlotsReads ==
  ASSUME fields' = fields, count' = count, NEW f
  PROVE  read(f)' = read(f) /\ Held' = Held
BY DEF read, Holds, FirstSlot, Used, Held

------------------------------------------------------------------------------
\* The refinement

LEMMA InitRefines == Init => Store!StoreInit
<1>1. SUFFICES ASSUME Init PROVE Store!StoreInit
  OBVIOUS
<1>2. Used = {}
  BY <1>1 DEF Init, Used
<1>3. \A e \in Enc : read(e) = Zero
  BY <1>2 DEF read, Holds
<1>4. QED
  BY <1>1, <1>2, <1>3 DEF Store!StoreInit, Init

(* Each instance of FiniteSets has a Cardinality of its own; they agree.   *)
LEMMA SameCardinality == ASSUME NEW S PROVE Store!Cardinality(S) = Cardinality(S)
BY Zenon DEF Store!Cardinality, Cardinality

LEMMA OverwriteRefines ==
  ASSUME IInv, NEW e \in Enc, NEW v \in Val, Overwrite(e, v)
  PROVE  Store!StoreWrite(e, v)
<1>1. \A f \in Enc : read(f)' = IF f = e THEN v ELSE read(f)
  BY OverwriteReads
<1>2. [f \in Enc |-> read(f)]' = [[f \in Enc |-> read(f)] EXCEPT ![e] = v]
  BY <1>1
<1>3. Held' = Held /\ e \in Held
  <2>1. /\ FirstSlot(e) \in Used /\ fields[FirstSlot(e)].enc = e
        /\ \A j \in Slot : fields'[j].enc = fields[j].enc
    BY OverwriteEffect
  <2>2. Used' = Used /\ Used \subseteq Slot
    BY ShadowAssumption DEF Overwrite, Used, IInv, TypeOK, Slot
  <2>3. QED
    BY <2>1, <2>2 DEF Held
<1>4. QED
  BY <1>2, <1>3 DEF Store!StoreWrite, Held, Overwrite

LEMMA AppendRefines ==
  ASSUME IInv, NEW e \in Enc, NEW v \in Val, AppendWrite(e, v)
  PROVE  Store!StoreWrite(e, v)
<1>1. \A f \in Enc : read(f)' = IF f = e THEN v ELSE read(f)
  BY AppendReads
<1>2. [f \in Enc |-> read(f)]' = [[f \in Enc |-> read(f)] EXCEPT ![e] = v]
  BY <1>1
<1>3. Held' = Held \cup {e}
  <2>1. /\ Used' = Used \cup {count}
        /\ fields'[count] = [enc |-> e, val |-> v]
        /\ \A j \in Used : fields'[j] = fields[j] /\ fields[j].enc # e
    BY AppendEffect
  <2>2. QED
    BY <2>1 DEF Held
<1>4. Store!Cardinality(Held) < MaxFields
  BY SameCardinality DEF AppendWrite, IInv, HeldSize
<1>5. QED
  BY <1>2, <1>3, <1>4 DEF Store!StoreWrite, Held, AppendWrite

LEMMA DropRefines ==
  ASSUME IInv, NEW e \in Enc, DropWrite(e)
  PROVE  Store!StoreRefuse(e)
<1>1. e \notin Held
  BY DEF DropWrite, Holds, Held
<1>2. Store!Cardinality(Held) >= MaxFields
  BY SameCardinality DEF DropWrite, IInv, HeldSize
<1>3. [f \in Enc |-> read(f)]' = [f \in Enc |-> read(f)] /\ Held' = Held
  BY SameSlotsReads DEF DropWrite
<1>4. QED
  BY <1>1, <1>2, <1>3 DEF Store!StoreRefuse, DropWrite, Held

LEMMA ResetRefines == ASSUME reset PROVE Store!StoreReset
<1>1. Used' = {}
  BY DEF reset, Used
<1>2. \A f \in Enc : read(f)' = Zero
  BY <1>1 DEF read, Holds
<1>3. QED
  BY <1>1, <1>2 DEF Store!StoreReset, reset

LEMMA SetLaunchedRefines ==
  ASSUME NEW b \in BOOLEAN, setLaunched(b)
  PROVE  Store!StoreSetLaunched(b)
<1>1. [f \in Enc |-> read(f)]' = [f \in Enc |-> read(f)] /\ Held' = Held
  BY SameSlotsReads DEF setLaunched
<1>2. QED
  BY <1>1 DEF Store!StoreSetLaunched, setLaunched, Held

LEMMA StepRefines == IInv /\ [Next]_vars => [Store!StoreNext]_(Store!storeVars)
<1>1. SUFFICES ASSUME IInv, [Next]_vars
               PROVE  [Store!StoreNext]_(Store!storeVars)
  OBVIOUS
<1>2. ASSUME NEW e \in Enc, NEW v \in Val, write(e, v)
      PROVE  Store!StoreNext
  BY <1>1, <1>2, OverwriteRefines, AppendRefines, DropRefines
  DEF write, Store!StoreNext
<1>3. CASE reset
  BY <1>3, ResetRefines DEF Store!StoreNext
<1>4. ASSUME NEW b \in BOOLEAN, setLaunched(b) PROVE Store!StoreNext
  BY <1>4, SetLaunchedRefines DEF Store!StoreNext
<1>5. CASE UNCHANGED vars
  <2>1. [f \in Enc |-> read(f)]' = [f \in Enc |-> read(f)] /\ Held' = Held
    BY <1>5, SameSlotsReads DEF vars
  <2>2. QED
    BY <1>5, <2>1 DEF Store!storeVars, vars, Held
<1>6. QED
  BY <1>1, <1>2, <1>3, <1>4, <1>5 DEF Next

(* For every Enc, Val and MaxFields, the array of slots implements the     *)
(* memory of VmcsStore: each write that is accepted is what reads return,  *)
(* a write is dropped only when MaxFields other encodings are held, and no *)
(* stale slot is ever read after a reset.                                  *)
THEOREM Refinement == Spec => ImplementsStore
BY InitRefines, StepRefines, Invariance, PTL
DEF Spec, ImplementsStore, Store!StoreSpec

(* "A lossless encoding->value store" (src/kern_vmx.hpp): after write(e,v) *)
(* a read of e returns v.                                                  *)
Lossless ==
  [][\A e \in Enc, v \in Val : write(e, v) => read(e)' = v]_vars

(* "A lossless encoding->value store", under the condition the class       *)
(* comment gives: no more encodings in use than MaxFields.                 *)
THEOREM LosslessWithinCap ==
  ASSUME IsFiniteSet(Enc), Cardinality(Enc) <= MaxFields
  PROVE  Spec => Lossless
<1>1. ASSUME IInv, NEW e \in Enc, NEW v \in Val, write(e, v)
      PROVE  read(e)' = v
  <2>1. CASE Overwrite(e, v)
    BY <1>1, <2>1, OverwriteReads
  <2>2. CASE AppendWrite(e, v)
    BY <1>1, <2>2, AppendReads
  <2>3. ~ DropWrite(e)
    <3>1. SUFFICES ASSUME DropWrite(e) PROVE FALSE
      OBVIOUS
    <3>2. Held \in SUBSET Enc /\ e \notin Held
      BY <1>1, <3>1, ShadowAssumption
      DEF Held, DropWrite, Holds, IInv, TypeOK, Used, Slot
    <3>3. Cardinality(Held) <= Cardinality(Enc) /\ Cardinality(Held) # Cardinality(Enc)
      BY <3>2, FS_Subset
    <3>4. Cardinality(Held) >= MaxFields
      BY <1>1, <3>1 DEF DropWrite, IInv, HeldSize
    <3>5. Cardinality(Held) \in Nat /\ Cardinality(Enc) \in Nat
      BY <1>1, FS_CardinalityType DEF IInv, HeldSize
    <3>6. QED
      BY <3>3, <3>4, <3>5, ShadowAssumption
  <2>4. QED
    BY <1>1, <2>1, <2>2, <2>3 DEF write
<1>2. IInv /\ [Next]_vars
        => [\A e \in Enc, v \in Val : write(e, v) => read(e)' = v]_vars
  BY <1>1
<1>3. QED
  BY <1>2, Invariance, PTL DEF Spec, Lossless
==============================================================================
