------------------------ MODULE HypervisorAMD_proofs ------------------------
(***************************************************************************)
(* HypervisorAMD for every kernel, and any number of processors and pages. *)
(*                                                                         *)
(* Every step of the plugin is a step of the backend or leaves it alone,   *)
(* so SvmBackend_proofs carries over.  Beside it the argument needs where  *)
(* the backend stands at each stage of the callback (Follows), what has    *)
(* been patched so far (Patched), and that SVM is on where the thread is   *)
(* (Armed).                                                                *)
(***************************************************************************)
EXTENDS HypervisorAMD, SvmBackend_proofs

(* The plugin is a user of SvmBackend: all it does to the backend is what  *)
(* the backend's specification allows.                                     *)
LEMMA PluginStep == [PluginNext]_<<vars, plugin>> => [Next]_vars
<1> SUFFICES ASSUME [PluginNext]_<<vars, plugin>> PROVE [Next]_vars
  OBVIOUS
<1>1. CASE init \/ tryGate \/ gatesExhausted \/ latchLeft \/ unlockKernel
           \/ writeLatch \/ lockKernel \/ bindEmulator
  BY <1>1 DEF init, tryGate, gatesExhausted, latchLeft, unlockKernel, writeLatch,
              lockKernel, bindEmulator
<1>2. CASE probe \/ bringUp \/ enabling
  BY <1>2 DEF probe, bringUp, enabling, disabling, Next
<1>3. CASE deinit \/ unloading
  BY <1>3 DEF deinit, unloading, disabling, Next
<1>4. CASE migrate
  BY <1>4 DEF Next
<1>5. CASE UNCHANGED <<vars, plugin>>
  BY <1>5
<1>6. QED
  BY <1>1, <1>2, <1>3, <1>4, <1>5 DEF PluginNext, onPatcherLoad

THEOREM PluginImplementsBackend == PluginSpec => Spec
<1>1. PluginInit => Init
  BY DEF PluginInit
<1>2. QED
  BY <1>1, PluginStep, PTL DEF PluginSpec, Spec

------------------------------------------------------------------------------
\* Where the backend stands, and what has been patched

Follows ==
  /\ stage \in {"loaded", "registered"} => pc = "idle" /\ outcome = "none"
  /\ stage = "detected" => pc = "idle" /\ outcome = "detected"
  /\ stage = "enabling" => pc # "idle"
  /\ stage \in Patching \cup {"up"} => pc = "idle" /\ fEnabled

Untouched == routed = "none" /\ hvSupport = 0 /\ ~ writable /\ boundPA = NoPage

Patched ==
  /\ stage \in {"loaded", "registered", "detected", "enabling", "unpatched"} => Untouched
  /\ stage \in Patching => boundPA = NoPage
  /\ stage \in {"routing", "latching", "binding"} => ~ writable
  /\ stage = "up" => boundPA = fVmcbPA
  /\ PatchedOnlyWhenBound

Searched ==
  /\ stage \in {"loaded", "registered", "detected", "enabling"} => candidate = 1
  /\ stage = "routing" =>
       /\ routed = "none"
       /\ \A i \in 1 .. candidate - 1 :
            kernel.gate[kVmxAvailSymbols[i]] # "routable"
  /\ FirstGateRouted

PluginIInv == PluginTypeOK /\ Follows /\ Patched /\ Searched

LEMMA Symbols == Len(kVmxAvailSymbols) = 2 /\ DOMAIN kVmxAvailSymbols = 1 .. 2
  BY DEF kVmxAvailSymbols

LEMMA PluginInitIInv == PluginInit => PluginIInv
<1> SUFFICES ASSUME PluginInit PROVE PluginIInv
  OBVIOUS
<1> USE DEF PluginInit, Init
<1>1. PluginTypeOK
  <2>1. stage \in Stages /\ routed \in GateSymbols \cup {"none"}
    BY DEF Stages
  <2>2. candidate \in 1 .. Len(kVmxAvailSymbols) + 1
    BY Symbols
  <2>3. QED
    BY <2>1, <2>2 DEF PluginTypeOK
<1>2. Follows
  BY DEF Follows, Patching
<1>3. Patched
  BY DEF Patched, Patching, Untouched, PatchedOnlyWhenBound
<1>4. Searched
  BY DEF Searched, Patching, FirstGateRouted
<1>5. QED
  BY <1>1, <1>2, <1>3, <1>4 DEF PluginIInv

(* Where the backend stands follows from its own inductive invariant only  *)
(* in that an enabled backend has a VMCB; the rest is in the callback's    *)
(* early returns.                                                          *)
LEMMA FollowsNext ==
  ASSUME PluginIInv, [PluginNext]_<<vars, plugin>>
  PROVE  Follows'
<1> USE DEF PluginIInv, Follows, Patching
<1>1. CASE init
  BY <1>1 DEF init, vars
<1>2. CASE probe
  BY <1>2 DEF probe, detect, Return
<1>3. CASE bringUp
  BY <1>3 DEF bringUp, callEnable, Goto
<1>4. CASE enabling
  <2>1. CASE enable
    BY <1>4, <2>1
    DEF enabling, enable, allocHsave, allocHsaveFails, AllocFails, setSvme,
        checkSvme, setHsave, allocVmcb, allocVmcbFails, prepare, Goto, Return
  <2>2. CASE disabling
    BY <1>4, <2>2
    DEF enabling, disabling, disable, clearSvme, clearHsave, release, Goto, Return
  <2>3. QED
    BY <1>4, <2>1, <2>2 DEF enabling
<1>5. CASE tryGate
  BY <1>5 DEF tryGate, vars
<1>6. CASE gatesExhausted \/ latchLeft \/ unlockKernel \/ writeLatch \/ lockKernel
           \/ bindEmulator
  BY <1>6 DEF gatesExhausted, latchLeft, unlockKernel, writeLatch, lockKernel,
              bindEmulator, vars
<1>7. CASE deinit
  BY <1>7 DEF deinit
<1>8. CASE unloading
  BY <1>8 DEF unloading
<1>9. CASE migrate /\ UNCHANGED plugin
  BY <1>9 DEF migrate, plugin
<1>10. CASE UNCHANGED <<vars, plugin>>
  BY <1>10 DEF vars, plugin
<1>11. QED
  BY <1>1, <1>2, <1>3, <1>4, <1>5, <1>6, <1>7, <1>8, <1>9, <1>10
  DEF PluginNext, onPatcherLoad

LEMMA PatchedNext ==
  ASSUME IInv, PluginIInv, [PluginNext]_<<vars, plugin>>
  PROVE  Patched'
<1>0. fEnabled => fVmcbPA # NoPage
  BY DEF IInv, Prepared, BothHeld
<1> USE DEF PluginIInv, Patched, Patching, Untouched, PatchedOnlyWhenBound, patches
<1>1. CASE init
  BY <1>1 DEF init
<1>2. CASE probe
  BY <1>2 DEF probe
<1>3. CASE bringUp
  BY <1>3 DEF bringUp
<1>4. CASE enabling
  BY <1>4 DEF enabling
<1>5. CASE tryGate
  BY <1>5 DEF tryGate
<1>6. CASE gatesExhausted \/ latchLeft
  BY <1>6 DEF gatesExhausted, latchLeft
<1>7. CASE unlockKernel
  BY <1>7 DEF unlockKernel
<1>8. CASE writeLatch
  BY <1>8 DEF writeLatch
<1>9. CASE lockKernel
  BY <1>9 DEF lockKernel
<1>10. CASE bindEmulator
  BY <1>0, <1>10 DEF bindEmulator, Follows, vars, pages
<1>11. CASE deinit \/ unloading
  <2>1. stage \in {"up", "unpatched", "unloading"}
    BY <1>11 DEF deinit, unloading
  <2>2. stage' \in {"unloading", "down"}
    BY <1>11 DEF deinit, unloading
  <2>3. UNCHANGED <<patches, boundPA>>
    BY <1>11 DEF deinit, unloading
  <2>4. QED
    BY <2>1, <2>2, <2>3
<1>12. CASE migrate /\ UNCHANGED plugin
  BY <1>12 DEF migrate, plugin, pages
<1>13. CASE UNCHANGED <<vars, plugin>>
  BY <1>13 DEF vars, pages, plugin
<1>14. QED
  BY <1>1, <1>2, <1>3, <1>4, <1>5, <1>6, <1>7, <1>8, <1>9, <1>10, <1>11, <1>12, <1>13
  DEF PluginNext, onPatcherLoad

LEMMA SearchedNext ==
  ASSUME PluginIInv, [PluginNext]_<<vars, plugin>>
  PROVE  Searched'
<1> USE Symbols DEF PluginIInv, PluginTypeOK, Searched, Patching, FirstGateRouted, patches
<1>1. CASE init \/ probe \/ bringUp
  BY <1>1 DEF init, probe, bringUp
<1>2. CASE enabling
  BY <1>2 DEF enabling, Patched, Untouched
<1>3. CASE tryGate
  BY <1>3 DEF tryGate
<1>4. CASE gatesExhausted
  BY <1>4 DEF gatesExhausted
<1>5. CASE latchLeft \/ unlockKernel \/ writeLatch \/ lockKernel \/ bindEmulator
  BY <1>5 DEF latchLeft, unlockKernel, writeLatch, lockKernel, bindEmulator
<1>6. CASE deinit \/ unloading
  BY <1>6 DEF deinit, unloading
<1>7. CASE (migrate /\ UNCHANGED plugin) \/ UNCHANGED <<vars, plugin>>
  BY <1>7 DEF plugin
<1>8. QED
  BY <1>1, <1>2, <1>3, <1>4, <1>5, <1>6, <1>7 DEF PluginNext, onPatcherLoad

LEMMA PluginTypeNext ==
  ASSUME PluginIInv, TypeOK, TypeOK', [PluginNext]_<<vars, plugin>>
  PROVE  PluginTypeOK'
<1> USE Symbols DEF PluginIInv, PluginTypeOK, Stages, LoadStages, Patching, patches
<1>1. CASE init \/ probe \/ bringUp
  BY <1>1 DEF init, probe, bringUp
<1>2. CASE enabling
  BY <1>2 DEF enabling
<1>3. CASE tryGate
  <2>1. candidate' \in 1 .. 3 /\ stage' \in Stages
    BY <1>3 DEF tryGate
  <2>2. routed' \in GateSymbols \cup {"none"}
    BY <1>3 DEF tryGate, GateSymbols
  <2>3. QED
    BY <1>3, <2>1, <2>2 DEF tryGate
<1>4. CASE gatesExhausted \/ latchLeft \/ unlockKernel
  BY <1>4 DEF gatesExhausted, latchLeft, unlockKernel
<1>5. CASE writeLatch \/ lockKernel
  BY <1>5 DEF writeLatch, lockKernel
<1>6. CASE bindEmulator
  BY <1>6 DEF bindEmulator, TypeOK
<1>7. CASE deinit \/ unloading
  BY <1>7 DEF deinit, unloading
<1>8. CASE (migrate /\ UNCHANGED plugin) \/ UNCHANGED <<vars, plugin>>
  BY <1>8 DEF plugin
<1>9. QED
  BY <1>1, <1>2, <1>3, <1>4, <1>5, <1>6, <1>7, <1>8 DEF PluginNext, onPatcherLoad

LEMMA PluginNextIInv ==
  ASSUME IInv, IInv', PluginIInv, [PluginNext]_<<vars, plugin>>
  PROVE  PluginIInv'
<1>1. TypeOK /\ TypeOK'
  BY DEF IInv
<1>2. QED
  BY <1>1, FollowsNext, PatchedNext, SearchedNext, PluginTypeNext DEF PluginIInv

LEMMA PluginInvariance == PluginSpec => [](IInv /\ PluginIInv)
<1>1. PluginSpec => []IInv
  BY PluginImplementsBackend, Invariance, PTL
<1>2. QED
  BY <1>1, PluginInitIInv, PluginNextIInv, PTL DEF PluginSpec

(* Type correctness of the plugin's own state. *)
THEOREM PluginTypeCorrect == PluginSpec => []PluginTypeOK
<1>1. PluginIInv => PluginTypeOK
  BY DEF PluginIInv
<1>2. QED
  BY <1>1, PluginInvariance, PTL

(* On every kernel, and whichever step of detect(), enable() and the       *)
(* patching fails: the kernel is patched only with an emulator bound, and  *)
(* its write protection is back whenever the patching is over.             *)
THEOREM PatchedOnlyWhenBoundHolds == PluginSpec => []PatchedOnlyWhenBound
<1>1. PluginIInv => PatchedOnlyWhenBound
  BY DEF PluginIInv, Patched
<1>2. QED
  BY <1>1, PluginInvariance, PTL

(* The routed gate is the first of kVmxAvailSymbols that can be. *)
THEOREM FirstGateRoutedHolds == PluginSpec => []FirstGateRouted
<1>1. PluginIInv => FirstGateRouted
  BY DEF PluginIInv, Searched
<1>2. QED
  BY <1>1, PluginInvariance, PTL

------------------------------------------------------------------------------
\* A bound emulator can launch

(* The other half of Confined: on a thread that has not been moved, SVM is *)
(* on from the check of EFER until disable() clears it.                    *)
Armed ==
  undisturbed =>
    /\ pc \in {"set_hsave", "alloc_vmcb", "prepare"} => svme[cpu]
    /\ fEnabled /\ pc \in {"idle", "disable", "clear_svme"} => svme[cpu]

LEMMA ArmedInit == Init => Armed
  BY DEF Init, Armed

LEMMA ArmedNext ==
  ASSUME IInv, Armed, [Next]_vars
  PROVE  Armed'
<1> SUFFICES ASSUME undisturbed' PROVE Armed'
  BY DEF Armed
<1> USE DEF IInv, TypeOK, EnableSteps, DisableSteps, Goto, Return, msrs, pages,
            thread, Armed, Progress, StartsEmpty, Prepared, Empty, SaveAreaHeld
<1>1. CASE allocHsave \/ allocHsaveFails
  BY <1>1 DEF allocHsave, allocHsaveFails, AllocFails
<1>2. CASE setSvme \/ checkSvme
  BY <1>2 DEF setSvme, checkSvme
<1>3. CASE setHsave
  BY <1>3 DEF setHsave
<1>4. CASE allocVmcb \/ allocVmcbFails
  BY <1>4 DEF allocVmcb, allocVmcbFails
<1>5. CASE prepare
  BY <1>5 DEF prepare
<1>6. CASE detect \/ callEnable \/ callDisable
  BY <1>6 DEF detect, callEnable, callDisable
<1>7. CASE disable \/ clearSvme
  BY <1>7 DEF disable, clearSvme
<1>8. CASE clearHsave \/ release
  BY <1>8 DEF clearHsave, release
<1>9. CASE migrate \/ UNCHANGED vars
  BY <1>9 DEF migrate, vars
<1>10. QED
  BY <1>1, <1>2, <1>3, <1>4, <1>5, <1>6, <1>7, <1>8, <1>9 DEF Next, enable

(* From the binding until deinit(), if the thread was never moved: SVM is  *)
(* on, on the processor enable() ran on, and that processor's save area    *)
(* and the emulator's VMCB are two pages that are both held.  A thread     *)
(* moved between the writes of EFER and VM_HSAVE_PA binds an emulator with *)
(* no processor ready; the theorem does not speak of it.                   *)
THEOREM LaunchReadyHolds == PluginSpec => []LaunchReady
<1>1. ASSUME IInv, Sheltered, Armed, PluginIInv PROVE LaunchReady
  <2> SUFFICES ASSUME stage = "up", undisturbed PROVE LaunchReady
    BY DEF LaunchReady
  <2>1. pc = "idle" /\ fEnabled /\ boundPA = fVmcbPA
    BY <1>1 DEF PluginIInv, Follows, Patched, Patching
  <2>2. BothHeld /\ TypeOK /\ PagesAccounted
    BY <1>1, <2>1 DEF IInv, Prepared
  <2>3. svme[cpu]
    BY <1>1, <2>1 DEF Armed
  <2>4. hsavePA[cpu] = fHsavePA
    BY <1>1, <2>2 DEF Sheltered, Confined, BothHeld, SaveAreaSet
  <2>5. QED
    BY <2>1, <2>2, <2>3, <2>4 DEF LaunchReady, BothHeld, PagesAccounted
<1>2. Spec => []Armed
  <2>1. IInv /\ Armed /\ [Next]_vars => Armed'
    BY ArmedNext
  <2>2. QED
    BY <2>1, ArmedInit, Invariance, PTL DEF Spec
<1>3. QED
  BY <1>1, <1>2, PluginInvariance, PluginImplementsBackend, ShelteredInvariance, PTL
==============================================================================
