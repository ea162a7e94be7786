---------------------------- MODULE HypervisorAMD ----------------------------
(***************************************************************************)
(* HypervisorAMD (src/kern_hv_amd.cpp) and the plugin's entry point: Lilu  *)
(* calls init() once, and onPatcherLoad() when the kernel is up.  That     *)
(* brings up the SVM backend, routes the kernel's VMX gate, forces the     *)
(* hv_support latch if asked to, and binds the emulator to the VMCB;       *)
(* deinit() takes the backend down again.                                  *)
(*                                                                         *)
(* Composed with SvmBackend: onPatcherLoad() and deinit() are its callers, *)
(* and every step of the backend is a step of theirs.                      *)
(***************************************************************************)
EXTENDS SvmBackend, Sequences

CONSTANTS
  Kernels    \* what the running kernel may be: see KernelShape

kVmxAvailSymbols == <<"_vmx_hv_support", "_vmx_is_available">>

GateSymbols == {kVmxAvailSymbols[i] : i \in DOMAIN kVmxAvailSymbols}

\* Lilu's patcher on the running kernel.  A gate symbol is not found, or is
\* and can or cannot be routed; the latch is not found, or is and its write
\* protection can or cannot be lifted.
KernelShape ==
  [gate  : [GateSymbols -> {"missing", "unroutable", "routable"}],
   latch : {"missing", "protected", "writable"}]

ASSUME KernelAssumption == Kernels \subseteq KernelShape

VARIABLES
  kernel,
  amdvgate,     \* the boot argument -amdvgate was given
  stage,        \* of the plugin's life
  candidate,    \* next of kVmxAvailSymbols to try
  routed,       \* the symbol that was routed, "none"
  hvSupport,    \* hv_support_available of the kernel
  writable,     \* the kernel's write protection is lifted
  boundPA       \* physical address of the VMCB fVmx is bound to

patches == <<routed, hvSupport, writable>>
plugin  == <<kernel, amdvgate, stage, candidate, patches, boundPA>>

LoadStages == {"detected", "enabling", "routing", "latching", "writing",
               "locking", "binding"}
Patching   == {"routing", "latching", "writing", "locking", "binding"}
Stages     == LoadStages \cup
              {"loaded", "registered", "unpatched", "up", "unloading", "down"}

PluginInit ==
  /\ Init
  /\ kernel \in Kernels /\ amdvgate \in BOOLEAN
  /\ stage = "loaded" /\ candidate = 1
  /\ routed = "none" /\ hvSupport = 0 /\ writable = FALSE
  /\ boundPA = NoPage

\* Lilu calls init(), unless -amdvoff or the kernel's version forbids it.
init ==
  /\ stage = "loaded"
  /\ stage' = "registered"
  /\ UNCHANGED <<vars, kernel, amdvgate, candidate, patches, boundPA>>

------------------------------------------------------------------------------
\* onPatcherLoad

probe ==
  /\ stage = "registered"
  /\ detect
  /\ stage' = IF outcome' = "detected" THEN "detected" ELSE "unpatched"
  /\ UNCHANGED <<kernel, amdvgate, candidate, patches, boundPA>>

bringUp ==
  /\ stage = "detected"
  /\ callEnable
  /\ stage' = "enabling"
  /\ UNCHANGED <<kernel, amdvgate, candidate, patches, boundPA>>

disabling == disable \/ clearSvme \/ clearHsave \/ release

\* Mutant: a backend that failed is not noticed.
EnableUnchecked ==
  /\ stage = "enabling"
  /\ enable \/ disabling
  /\ stage' = IF pc' # "idle" THEN "enabling" ELSE "routing"
  /\ UNCHANGED <<kernel, amdvgate, candidate, patches, boundPA>>

\* enable(), with the disable() it calls when it fails half way.
enabling ==
  /\ stage = "enabling"
  /\ enable \/ disabling
  /\ stage' = CASE pc' # "idle"          -> "enabling"
                [] pc' = "idle" /\ outcome' = "enabled" -> "routing"
                [] pc' = "idle" /\ outcome' # "enabled" -> "unpatched"
  /\ UNCHANGED <<kernel, amdvgate, candidate, patches, boundPA>>

\* Mutant: the loop gives up at the first symbol it cannot use.
OnlyFirstGate ==
  /\ stage = "routing" /\ candidate <= Len(kVmxAvailSymbols)
  /\ LET symbol == kVmxAvailSymbols[candidate]
     IN  routed' = IF kernel.gate[symbol] = "routable" THEN symbol ELSE "none"
  /\ stage' = "latching"
  /\ UNCHANGED <<vars, kernel, amdvgate, candidate, hvSupport, writable, boundPA>>

\* Mutant: a symbol that cannot be used is tried again.
RetryGate ==
  /\ stage = "routing" /\ candidate <= Len(kVmxAvailSymbols)
  /\ LET symbol == kVmxAvailSymbols[candidate]
     IN  /\ kernel.gate[symbol] = "routable"
         /\ routed' = symbol /\ stage' = "latching"
  /\ UNCHANGED <<vars, kernel, amdvgate, candidate, hvSupport, writable, boundPA>>

\* One turn of the loop over kVmxAvailSymbols.
tryGate ==
  /\ stage = "routing" /\ candidate <= Len(kVmxAvailSymbols)
  /\ LET symbol == kVmxAvailSymbols[candidate]
     IN  IF kernel.gate[symbol] = "routable"
         THEN routed' = symbol /\ stage' = "latching" /\ UNCHANGED candidate
         ELSE candidate' = candidate + 1 /\ UNCHANGED <<routed, stage>>
  /\ UNCHANGED <<vars, kernel, amdvgate, hvSupport, writable, boundPA>>

\* Mutant: the test of the loop advances it, and does so as it fails too.
ExhaustAdvances ==
  /\ stage = "routing" /\ candidate > Len(kVmxAvailSymbols)
  /\ candidate' = candidate + 1
  /\ stage' = "latching"
  /\ UNCHANGED <<vars, kernel, amdvgate, patches, boundPA>>

\* No gate was found: this is logged, and the rest goes on.
gatesExhausted ==
  /\ stage = "routing" /\ candidate > Len(kVmxAvailSymbols)
  /\ stage' = "latching"
  /\ UNCHANGED <<vars, kernel, amdvgate, candidate, patches, boundPA>>

\* The latch is only reported, or setHvSupportAvailable() gives up; nobody
\* looks at what it returns.
latchLeft ==
  /\ stage = "latching"
  /\ ~ amdvgate \/ kernel.latch # "writable"
  /\ stage' = "binding"
  /\ UNCHANGED <<vars, kernel, amdvgate, candidate, patches, boundPA>>

unlockKernel ==
  /\ stage = "latching"
  /\ amdvgate /\ kernel.latch = "writable"
  /\ writable' = TRUE
  /\ stage' = "writing"
  /\ UNCHANGED <<vars, kernel, amdvgate, candidate, routed, hvSupport, boundPA>>

writeLatch ==
  /\ stage = "writing"
  /\ hvSupport' = 1
  /\ stage' = "locking"
  /\ UNCHANGED <<vars, kernel, amdvgate, candidate, routed, writable, boundPA>>

lockKernel ==
  /\ stage = "locking"
  /\ writable' = FALSE
  /\ stage' = "binding"
  /\ UNCHANGED <<vars, kernel, amdvgate, candidate, routed, hvSupport, boundPA>>

\* Mutant: the emulator is given the save area instead of the VMCB.
BindSaveArea ==
  /\ stage = "binding"
  /\ boundPA' = fHsavePA
  /\ stage' = "up"
  /\ UNCHANGED <<vars, kernel, amdvgate, candidate, patches>>

bindEmulator ==
  /\ stage = "binding"
  /\ boundPA' = fVmcbPA
  /\ stage' = "up"
  /\ UNCHANGED <<vars, kernel, amdvgate, candidate, patches>>

onPatcherLoad ==
  \/ probe \/ bringUp \/ enabling
  \/ tryGate \/ gatesExhausted
  \/ latchLeft \/ unlockKernel \/ writeLatch \/ lockKernel
  \/ bindEmulator

------------------------------------------------------------------------------

\* deinit() is disable() and nothing else: route, latch and binding stay.
deinit ==
  /\ stage \in {"up", "unpatched"}
  /\ callDisable
  /\ stage' = "unloading"
  /\ UNCHANGED <<kernel, amdvgate, candidate, patches, boundPA>>

unloading ==
  /\ stage = "unloading"
  /\ disabling
  /\ stage' = IF pc' # "idle" THEN "unloading" ELSE "down"
  /\ UNCHANGED <<kernel, amdvgate, candidate, patches, boundPA>>

PluginNext ==
  \/ init
  \/ onPatcherLoad
  \/ deinit \/ unloading
  \/ migrate /\ UNCHANGED plugin

PluginSpec == PluginInit /\ [][PluginNext]_<<vars, plugin>>

\* The thread that runs the callback is scheduled.
FairPluginSpec == PluginSpec /\ WF_<<vars, plugin>>(onPatcherLoad)

------------------------------------------------------------------------------
\* Properties

PluginTypeOK ==
  /\ kernel \in Kernels /\ amdvgate \in BOOLEAN
  /\ stage \in Stages
  /\ candidate \in 1 .. Len(kVmxAvailSymbols) + 1
  /\ routed \in GateSymbols \cup {"none"}
  /\ hvSupport \in {0, 1} /\ writable \in BOOLEAN
  /\ boundPA \in Page \cup {NoPage}

(* "leaving kernel unpatched" (src/kern_hv_amd.cpp): outside the part of   *)
(* onPatcherLoad that patches, either the emulator has been bound, or the  *)
(* kernel is as it was, whatever failed and however far enable() came; and *)
(* its write protection is always back.                                    *)
PatchedOnlyWhenBound ==
  stage \notin Patching =>
    /\ ~ writable
    /\ boundPA = NoPage => routed = "none" /\ hvSupport = 0

(* The gate that is routed is the first of the list the kernel has and     *)
(* lets be routed ("whichever symbol resolves first"): a candidate that is *)
(* missing, or is found and cannot be routed, does not end the search.     *)
FirstGateRouted ==
  stage \in (Patching \ {"routing"}) \cup {"up"} =>
    LET usable == {i \in DOMAIN kVmxAvailSymbols :
                     kernel.gate[kVmxAvailSymbols[i]] = "routable"}
    IN  IF usable = {}
        THEN routed = "none"
        ELSE \E i \in usable : routed = kVmxAvailSymbols[i]
                                 /\ \A j \in usable : i <= j

(* A bound emulator can launch on the processor the backend was brought up *)
(* on, until deinit(): SVM is on there, its save area is set and held, the *)
(* VMCB it will run is held too and is the backend's, and the two are      *)
(* different pages, since VMRUN writes one while it reads the other.  It   *)
(* takes a thread that was not moved meanwhile (undisturbed).              *)
LaunchReady ==
  stage = "up" /\ undisturbed =>
    /\ svme[cpu]
    /\ hsavePA[cpu] \in allocated
    /\ boundPA \in allocated /\ boundPA = fVmcbPA
    /\ boundPA # hsavePA[cpu]

(* onPatcherLoad() returns, on every kernel and whichever of its steps     *)
(* fail: the search for a gate ends and no failure leaves it waiting.      *)
LoadReturns == stage = "registered" ~> stage \in {"up", "unpatched"}
==============================================================================
