------------------------------ MODULE SvmBackend ------------------------------
(***************************************************************************)
(* SvmBackend (src/kern_svm.cpp): detect the SVM extension, allocate the   *)
(* host save area and the VMCB and switch SVM on for the current           *)
(* processor; disable() takes it back.  Every allocation, every write of a *)
(* model specific register and the read back of EFER is a step of its own, *)
(* since the thread that runs them may be moved to another processor in    *)
(* between and each processor has its own EFER and VM_HSAVE_PA.  The read  *)
(* of EFER that precedes a write of it is one step with the write: of EFER *)
(* the module keeps SVME only, and the value of SVME written depends on    *)
(* nothing that was read.                                                  *)
(*                                                                         *)
(* A page is its physical address; an IOBufferMemoryDescriptor that holds  *)
(* a page is that page.                                                    *)
(***************************************************************************)
EXTENDS Naturals, FiniteSets

CONSTANTS
  Cpu,
  Page, NoPage,     \* physical pages the allocator may return; the address 0
  Features,         \* what CPUID and VM_CR may say: [amd, leaf, svm, svmdis]
  SvmeSticks        \* subset of BOOLEAN: whether EFER.SVME keeps a 1

ASSUME BackendAssumption ==
  /\ NoPage \notin Page
  /\ Features \subseteq [amd : BOOLEAN, leaf : BOOLEAN, svm : BOOLEAN, svmdis : BOOLEAN]
  /\ SvmeSticks \subseteq BOOLEAN

VARIABLES
  svme,        \* EFER.SVME of each processor
  hsavePA,     \* VM_HSAVE_PA of each processor
  allocated,   \* pages handed out and not released
  fHsaveDesc, fVmcbDesc, fHsavePA, fVmcb, fVmcbPA, fEnabled,
  pc,          \* the next step of the call in progress, "idle" when none is
  cpu,         \* the processor the thread is on
  outcome,     \* of the last call: "none", "detected", "refused",
               \* "enabled", "failed", "disabled"
  undisturbed  \* history: the thread has stayed on one processor and no
               \* allocation of a VMCB has failed

msrs  == <<svme, hsavePA>>
pages == <<allocated, fHsaveDesc, fVmcbDesc, fHsavePA, fVmcb, fVmcbPA>>
thread == <<cpu, undisturbed>>
vars  == <<msrs, pages, fEnabled, pc, thread, outcome>>

EnableSteps  == {"alloc_hsave", "set_svme", "check_svme", "set_hsave",
                 "alloc_vmcb", "prepare"}
DisableSteps == {"disable", "clear_svme", "clear_hsave", "release"}

Init ==
  /\ svme = [c \in Cpu |-> FALSE] /\ hsavePA = [c \in Cpu |-> NoPage]
  /\ allocated = {}
  /\ fHsaveDesc = NoPage /\ fVmcbDesc = NoPage
  /\ fHsavePA = NoPage /\ fVmcb = NoPage /\ fVmcbPA = NoPage
  /\ fEnabled = FALSE
  /\ pc = "idle" /\ cpu \in Cpu /\ outcome = "none"
  /\ undisturbed = TRUE

Goto(step)       == pc' = step /\ UNCHANGED outcome
Return(result)   == pc' = "idle" /\ outcome' = result

migrate ==
  /\ cpu' \in Cpu \ {cpu}
  /\ undisturbed' = FALSE
  /\ UNCHANGED <<msrs, pages, fEnabled, pc, outcome>>

------------------------------------------------------------------------------

\* What CPUID and VM_CR say of the processor decides.
Detected(f) == f.amd /\ f.leaf /\ f.svm /\ ~ f.svmdis

detect ==
  /\ pc = "idle" /\ outcome \in {"none", "disabled"}
  /\ \E f \in Features :
       Return(IF Detected(f) THEN "detected" ELSE "refused")
  /\ UNCHANGED <<msrs, pages, fEnabled, thread>>

callEnable ==
  /\ pc = "idle" /\ outcome = "detected"
  /\ Goto("alloc_hsave")
  /\ UNCHANGED <<msrs, pages, fEnabled, thread>>

\* deinit() disables whatever came of detect() and enable().
callDisable ==
  /\ pc = "idle" /\ outcome # "detected"
  /\ Goto("disable")
  /\ UNCHANGED <<msrs, pages, fEnabled, thread>>

\* allocContiguousPage, in each of its failures or with a page.
AllocFails(step) ==
  /\ pc = step
  /\ UNCHANGED <<msrs, pages, fEnabled, cpu>>

\* Mutant: a failed allocation is not noticed.
UncheckedAllocHsave ==
  /\ pc = "alloc_hsave"
  /\ \E p \in (Page \cup {NoPage}) \ allocated :
       /\ allocated' = allocated \cup {p}
       /\ fHsaveDesc' = p
       /\ fHsavePA' = p
  /\ Goto("set_svme")
  /\ UNCHANGED <<msrs, fVmcbDesc, fVmcb, fVmcbPA, fEnabled, thread>>

allocHsave ==
  /\ pc = "alloc_hsave"
  /\ \E p \in Page \ allocated :
       /\ allocated' = allocated \cup {p}
       /\ fHsaveDesc' = p
       /\ fHsavePA' = p
  /\ Goto("set_svme")
  /\ UNCHANGED <<msrs, fVmcbDesc, fVmcb, fVmcbPA, fEnabled, thread>>

allocHsaveFails ==
  /\ AllocFails("alloc_hsave")
  /\ Return("failed")
  /\ UNCHANGED undisturbed

setSvme ==
  /\ pc = "set_svme"
  /\ \E sticks \in SvmeSticks : svme' = [svme EXCEPT ![cpu] = sticks]
  /\ Goto("check_svme")
  /\ UNCHANGED <<hsavePA, pages, fEnabled, thread>>

checkSvme ==
  /\ pc = "check_svme"
  /\ IF svme[cpu] THEN Goto("set_hsave") ELSE Return("failed")
  /\ UNCHANGED <<msrs, pages, fEnabled, thread>>

\* Mutant: VM_HSAVE_PA is not written.
SkipSetHsave ==
  /\ pc = "set_hsave"
  /\ Goto("alloc_vmcb")
  /\ UNCHANGED <<msrs, pages, fEnabled, thread>>

setHsave ==
  /\ pc = "set_hsave"
  /\ hsavePA' = [hsavePA EXCEPT ![cpu] = fHsavePA]
  /\ Goto("alloc_vmcb")
  /\ UNCHANGED <<svme, pages, fEnabled, thread>>

allocVmcb ==
  /\ pc = "alloc_vmcb"
  /\ \E p \in Page \ allocated :
       /\ allocated' = allocated \cup {p}
       /\ fVmcbDesc' = p /\ fVmcb' = p /\ fVmcbPA' = p
  /\ Goto("prepare")
  /\ UNCHANGED <<msrs, fHsaveDesc, fHsavePA, fEnabled, thread>>

\* enable() calls disable() and returns false.
allocVmcbFails ==
  /\ AllocFails("alloc_vmcb")
  /\ Goto("disable")
  /\ undisturbed' = FALSE

prepare ==
  /\ pc = "prepare"
  /\ fEnabled' = TRUE
  /\ Return("enabled")
  /\ UNCHANGED <<msrs, pages, thread>>

------------------------------------------------------------------------------

disable ==
  /\ pc = "disable"
  /\ Goto(IF fEnabled THEN "clear_svme" ELSE "release")
  /\ UNCHANGED <<msrs, pages, fEnabled, thread>>

clearSvme ==
  /\ pc = "clear_svme"
  /\ svme' = [svme EXCEPT ![cpu] = FALSE]
  /\ Goto("clear_hsave")
  /\ UNCHANGED <<hsavePA, pages, fEnabled, thread>>

\* Mutant: VM_HSAVE_PA is left as it is.
SkipClearHsave ==
  /\ pc = "clear_hsave"
  /\ fEnabled' = FALSE
  /\ Goto("release")
  /\ UNCHANGED <<msrs, pages, thread>>

clearHsave ==
  /\ pc = "clear_hsave"
  /\ hsavePA' = [hsavePA EXCEPT ![cpu] = NoPage]
  /\ fEnabled' = FALSE
  /\ Goto("release")
  /\ UNCHANGED <<svme, pages, thread>>

\* Mutant: only the VMCB is released.
ReleaseVmcbOnly ==
  /\ pc = "release"
  /\ allocated' = allocated \ {fVmcbDesc}
  /\ fHsaveDesc' = NoPage /\ fVmcbDesc' = NoPage
  /\ fHsavePA' = NoPage /\ fVmcb' = NoPage /\ fVmcbPA' = NoPage
  /\ Return("disabled")
  /\ UNCHANGED <<msrs, fEnabled, thread>>

\* outcome says "disabled" also when enable() was what failed: its false
\* tells its caller no more.
release ==
  /\ pc = "release"
  /\ allocated' = allocated \ {fVmcbDesc, fHsaveDesc}
  /\ fHsaveDesc' = NoPage /\ fVmcbDesc' = NoPage
  /\ fHsavePA' = NoPage /\ fVmcb' = NoPage /\ fVmcbPA' = NoPage
  /\ Return("disabled")
  /\ UNCHANGED <<msrs, fEnabled, thread>>

------------------------------------------------------------------------------

enable ==
  \/ allocHsave \/ allocHsaveFails
  \/ setSvme \/ checkSvme \/ setHsave
  \/ allocVmcb \/ allocVmcbFails
  \/ prepare

Next ==
  \/ detect
  \/ callEnable \/ enable
  \/ callDisable \/ disable \/ clearSvme \/ clearHsave \/ release
  \/ migrate

Spec == Init /\ [][Next]_vars

------------------------------------------------------------------------------
\* Properties

TypeOK ==
  /\ svme \in [Cpu -> BOOLEAN]
  /\ hsavePA \in [Cpu -> Page \cup {NoPage}]
  /\ allocated \subseteq Page
  /\ fHsaveDesc \in Page \cup {NoPage} /\ fVmcbDesc \in Page \cup {NoPage}
  /\ fHsavePA \in Page \cup {NoPage}
  /\ fVmcb \in Page \cup {NoPage} /\ fVmcbPA \in Page \cup {NoPage}
  /\ fEnabled \in BOOLEAN
  /\ pc \in EnableSteps \cup DisableSteps \cup {"idle"}
  /\ cpu \in Cpu /\ undisturbed \in BOOLEAN
  /\ outcome \in {"none", "detected", "refused", "enabled", "failed", "disabled"}

(* Every page handed out is held by exactly one descriptor, through every  *)
(* failure of enable() and every disable(): none leaks, none is released   *)
(* twice, and the host save area and the VMCB are never the same page -    *)
(* VMRUN writes the host's state into one while it reads the other.        *)
PagesAccounted ==
  /\ allocated = {fHsaveDesc, fVmcbDesc} \ {NoPage}
  /\ fHsaveDesc # NoPage => fHsaveDesc # fVmcbDesc

(* A backend that says it is enabled has both pages, points to them, and   *)
(* has told the processor that enabled it.  "On some processor": nothing   *)
(* ties the caller to it.                                                  *)
EnabledIsPrepared ==
  fEnabled /\ pc = "idle" =>
    /\ fVmcb \in allocated /\ fVmcbPA = fVmcb /\ fVmcbDesc = fVmcb
    /\ fHsavePA \in allocated /\ fHsaveDesc = fHsavePA
    /\ \E c \in Cpu : hsavePA[c] = fHsavePA

(* While the thread stays where it is and the VMCB can be allocated, no    *)
(* processor's VM_HSAVE_PA points to a page that has been given back: the  *)
(* next VMRUN would write the host's state into somebody else's page.      *)
SaveAreaOwned ==
  undisturbed => \A c \in Cpu : hsavePA[c] \in allocated \cup {NoPage}

(* "Clear EFER.SVME and free everything." (src/kern_svm.hpp): when         *)
(* disable() returns, no processor has SVM on or a save area set, and no   *)
(* page is held.                                                           *)
DisableClearsAll ==
  outcome = "disabled" /\ pc = "idle" =>
    /\ \A c \in Cpu : ~ svme[c] /\ hsavePA[c] = NoPage
    /\ allocated = {}

(* It does so after any sequence of calls, whatever else failed, if the    *)
(* thread stayed on its processor and the VMCB could be allocated.         *)
UndisturbedDisableClears == undisturbed => DisableClearsAll
==============================================================================
