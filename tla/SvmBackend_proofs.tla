-------------------------- MODULE SvmBackend_proofs --------------------------
(***************************************************************************)
(* SvmBackend for any number of processors and pages, any failure of its   *)
(* allocations, and a thread that may change processor between any two     *)
(* steps.                                                                  *)
(*                                                                         *)
(* The properties are not inductive: what a step may rely on is known only *)
(* from where the call stands.  IInv adds, per step of enable(), which of  *)
(* the two pages are held (Progress), that a call starts from an empty     *)
(* backend (StartsEmpty), and keeps EnabledIsPrepared also while disable() *)
(* is under way (Prepared).                                                *)
(***************************************************************************)
EXTENDS SvmBackend, TLAPS

Empty ==
  /\ fHsaveDesc = NoPage /\ fVmcbDesc = NoPage
  /\ ~ fEnabled

SaveAreaHeld ==
  /\ fHsaveDesc # NoPage /\ fHsavePA = fHsaveDesc
  /\ fVmcbDesc = NoPage
  /\ ~ fEnabled

SaveAreaSet == \E c \in Cpu : hsavePA[c] = fHsavePA

BothHeld ==
  /\ fHsaveDesc # NoPage /\ fHsavePA = fHsaveDesc
  /\ fVmcbDesc # NoPage /\ fVmcb = fVmcbDesc /\ fVmcbPA = fVmcbDesc
  /\ SaveAreaSet

Progress ==
  /\ pc = "alloc_hsave" => Empty
  /\ pc \in {"set_svme", "check_svme", "set_hsave", "alloc_vmcb"} => SaveAreaHeld
  /\ pc = "alloc_vmcb" => SaveAreaSet
  /\ pc = "prepare" => BothHeld /\ ~ fEnabled
  /\ pc = "release" => ~ fEnabled

StartsEmpty ==
  pc = "idle" /\ outcome \in {"none", "detected", "disabled"} => Empty

Prepared == fEnabled => BothHeld

IInv == TypeOK /\ PagesAccounted /\ Progress /\ StartsEmpty /\ Prepared

USE DEF Empty, SaveAreaHeld, SaveAreaSet, BothHeld, Progress, StartsEmpty,
        Prepared, PagesAccounted

(* The initial state satisfies the inductive invariant. *)
LEMMA InitIInv == Init => IInv
  BY BackendAssumption DEF Init, IInv, TypeOK, EnableSteps, DisableSteps

(* The steps of enable() preserve it. *)
LEMMA EnableIInv == IInv /\ enable => IInv'
<1> SUFFICES ASSUME IInv, enable PROVE IInv'
  OBVIOUS
<1> USE BackendAssumption
      DEF IInv, TypeOK, EnableSteps, DisableSteps, Goto, Return, msrs, pages, thread
<1>1. CASE allocHsave
  BY <1>1 DEF allocHsave
<1>2. CASE allocHsaveFails
  BY <1>2 DEF allocHsaveFails, AllocFails
<1>3. CASE setSvme
  BY <1>3 DEF setSvme
<1>4. CASE checkSvme
  BY <1>4 DEF checkSvme
<1>5. CASE setHsave
  BY <1>5 DEF setHsave
<1>6. CASE allocVmcb
  BY <1>6 DEF allocVmcb
<1>7. CASE allocVmcbFails
  BY <1>7 DEF allocVmcbFails, AllocFails
<1>8. CASE prepare
  BY <1>8 DEF prepare
<1> HIDE DEF IInv
<1>9. QED
  BY <1>1, <1>2, <1>3, <1>4, <1>5, <1>6, <1>7, <1>8 DEF enable

(* Every other step preserves it. *)
LEMMA NextIInv == IInv /\ [Next]_vars => IInv'
<1> SUFFICES ASSUME IInv, [Next]_vars PROVE IInv'
  OBVIOUS
<1>1. CASE enable
  BY <1>1, EnableIInv
<1> USE BackendAssumption
      DEF IInv, TypeOK, EnableSteps, DisableSteps, Goto, Return, msrs, pages, thread
<1>2. CASE detect
  BY <1>2 DEF detect
<1>3. CASE callEnable
  BY <1>3 DEF callEnable
<1>4. CASE callDisable
  BY <1>4 DEF callDisable
<1>5. CASE disable
  <2>1. CASE fEnabled
    BY <1>5, <2>1 DEF disable
  <2>2. CASE ~ fEnabled
    BY <1>5, <2>2 DEF disable
  <2>3. QED
    BY <2>1, <2>2
<1>6. CASE clearSvme
  BY <1>6 DEF clearSvme
<1>7. CASE clearHsave
  BY <1>7 DEF clearHsave
<1>8. CASE release
  BY <1>8 DEF release
<1>9. CASE migrate
  <2>1. /\ cpu' \in Cpu /\ undisturbed' \in BOOLEAN
        /\ UNCHANGED <<svme, hsavePA, allocated, fHsaveDesc, fHsavePA,
                       fVmcbDesc, fVmcb, fVmcbPA, fEnabled, pc, outcome>>
    BY <1>9 DEF migrate
  <2>2. TypeOK'
    BY <2>1
  <2>3. QED
    BY <2>1, <2>2
<1>10. CASE UNCHANGED vars
  BY <1>10 DEF vars
<1> HIDE DEF IInv
<1>11. QED
  BY <1>1, <1>2, <1>3, <1>4, <1>5, <1>6, <1>7, <1>8, <1>9, <1>10 DEF Next

(* The inductive invariant holds in every reachable state. *)
THEOREM Invariance == Spec => []IInv
  BY InitIInv, NextIInv, PTL DEF Spec

(* Type correctness. *)
THEOREM TypeCorrect == Spec => []TypeOK
<1>1. IInv => TypeOK
  BY DEF IInv
<1>2. QED
  BY <1>1, Invariance, PTL

(* No page leaks, none is held twice, and the save area is never the VMCB, *)
(* whichever steps of enable() fail and however often it is called.        *)
THEOREM PagesAccountedHolds == Spec => []PagesAccounted
<1>1. IInv => PagesAccounted
  BY DEF IInv
<1>2. QED
  BY <1>1, Invariance, PTL

(* An enabled backend holds both pages, points to them, and has told a     *)
(* processor of its save area.                                             *)
THEOREM EnabledIsPreparedHolds == Spec => []EnabledIsPrepared
<1>1. IInv => EnabledIsPrepared
  BY DEF IInv, TypeOK, EnabledIsPrepared
<1>2. QED
  BY <1>1, Invariance, PTL

------------------------------------------------------------------------------
\* A thread that stays on its processor and gets its VMCB

(* What the two conditions buy: no other processor is ever touched, and    *)
(* this one has SVM on or a save area set only while enable() is under way *)
(* or the backend is enabled.                                              *)
Confined ==
  /\ \A c \in Cpu \ {cpu} : ~ svme[c] /\ hsavePA[c] = NoPage
  /\ svme[cpu] =>
       fEnabled \/ pc \in {"check_svme", "set_hsave", "alloc_vmcb", "prepare"}
  /\ pc \in {"clear_hsave", "release"} => ~ svme[cpu]
  /\ hsavePA[cpu] # NoPage =>
       /\ fEnabled \/ pc \in {"alloc_vmcb", "prepare"}
       /\ hsavePA[cpu] = fHsavePA
  /\ fEnabled => pc \in {"idle", "disable", "clear_svme", "clear_hsave"}
  /\ pc \in {"clear_svme", "clear_hsave"} => fEnabled

LEMMA ConfinedInit == Init => Confined
  BY BackendAssumption DEF Init, Confined

Sheltered == undisturbed => Confined

LEMMA ShelteredNext ==
  ASSUME IInv, Sheltered, [Next]_vars
  PROVE  Sheltered'
<1> SUFFICES ASSUME undisturbed' PROVE Confined'
  BY DEF Sheltered
<1>0. undisturbed /\ Confined
  BY DEF Next, enable, allocHsave, allocHsaveFails, AllocFails, setSvme, checkSvme,
         setHsave, allocVmcb, allocVmcbFails, prepare, detect, callEnable,
         callDisable, disable, clearSvme, clearHsave, release, migrate, vars,
         thread, Sheltered
<1> USE BackendAssumption
      DEF IInv, TypeOK, EnableSteps, DisableSteps, Goto, Return, msrs, pages,
          Confined, thread
<1>1. CASE allocHsave \/ allocHsaveFails
  BY <1>0, <1>1 DEF allocHsave, allocHsaveFails, AllocFails
<1>2. CASE setSvme \/ checkSvme
  BY <1>0, <1>2 DEF setSvme, checkSvme
<1>3. CASE setHsave
  BY <1>0, <1>3 DEF setHsave
<1>4. CASE allocVmcb \/ allocVmcbFails
  BY <1>0, <1>4 DEF allocVmcb, allocVmcbFails
<1>5. CASE prepare
  BY <1>0, <1>5 DEF prepare
<1>6. CASE detect \/ callEnable \/ callDisable
  BY <1>0, <1>6 DEF detect, callEnable, callDisable
<1>7. CASE disable
  BY <1>0, <1>7 DEF disable
<1>8. CASE clearSvme
  BY <1>0, <1>8 DEF clearSvme
<1>9. CASE clearHsave
  BY <1>0, <1>9 DEF clearHsave
<1>10. CASE release
  BY <1>0, <1>10 DEF release
<1>11. CASE migrate \/ UNCHANGED vars
  BY <1>0, <1>11 DEF migrate, vars
<1>12. QED
  BY <1>1, <1>2, <1>3, <1>4, <1>5, <1>6, <1>7, <1>8, <1>9, <1>10, <1>11
  DEF Next, enable

(* What a thread that stays and gets its VMCB may rely on. *)
LEMMA ShelteredInvariance == Spec => [](IInv /\ Sheltered)
<1>1. Init => Sheltered
  BY ConfinedInit DEF Sheltered
<1>2. IInv /\ Sheltered /\ [Next]_vars => Sheltered'
  BY ShelteredNext
<1>3. QED
  BY <1>1, <1>2, Invariance, PTL DEF Spec

(* While the thread stays on its processor and every VMCB allocation       *)
(* succeeds, no processor keeps the address of a released save area.       *)
THEOREM SaveAreaOwnedHolds == Spec => []SaveAreaOwned
<1>1. IInv /\ Sheltered => SaveAreaOwned
  BY BackendAssumption DEF IInv, TypeOK, Confined, Sheltered, SaveAreaOwned
<1>2. QED
  BY <1>1, ShelteredInvariance, PTL

(* And disable() leaves nothing behind.  MCDisableClearsAll shows that the *)
(* second condition cannot be dropped.                                     *)
THEOREM DisableClearsAllHolds == Spec => []UndisturbedDisableClears
<1>1. IInv /\ Sheltered => UndisturbedDisableClears
  BY BackendAssumption
  DEF IInv, TypeOK, Confined, Sheltered, DisableClearsAll, UndisturbedDisableClears
<1>2. QED
  BY <1>1, ShelteredInvariance, PTL
==============================================================================
