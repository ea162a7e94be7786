------------------------------ MODULE VmxEmulator ------------------------------
(***************************************************************************)
(* VmxEmulator of src/kern_vmx_emu: Apple's hypervisor, the VMM, executes *)
(* VMX instructions on an AMD processor; each raises #UD; handleUD decodes *)
(* it and carries it out against the shadow VMCS, and VMLAUNCH / VMRESUME  *)
(* run the guest through the VMCB.                                         *)
(*                                                                         *)
(* Beside the emulator runs a REFERENCE: what an Intel processor given the *)
(* same instructions would hold (hw, current, ownRax), and what the AMD    *)
(* processor's TLB holds (tlb).  The code never sees it; the properties    *)
(* compare the two.                                                        *)
(*                                                                         *)
(* The shadow VMCS is here the memory VmcsStore: ShadowVMCS implements it, *)
(* and drops no write while there are at most MaxFields encodings.  While  *)
(* a guest runs the processor keeps its registers; here they are the save  *)
(* area of fVmcb itself, which nothing else reads meanwhile.               *)
(***************************************************************************)
EXTENDS Translate, VmxDecode, FiniteSets

CONSTANTS
  Builds,          \* settings of AMDV_ENABLE_GUEST_LAUNCH
  Nrips,           \* SVM_FEATURE_NRIPS in the features bind() was given
  MaxFields,       \* capacity of the shadow VMCS
  Region, NoRegion,\* addresses of VMCS regions; none
  Code,            \* the faulting instructions, as hde64 reports them
  TrapFlags,       \* RFLAGS in the trap frame
  VmmWrites,       \* <<encoding, value>> the VMM may VMWRITE
  VmmReads,        \* encodings the VMM may VMREAD
  GuestWrites,     \* <<register, value>> the guest may load
  GuestTables,     \* <<table, base>> the guest may load
  Descriptors,     \* [ar, attrib] : segments the guest may load, as each
                   \* manual describes the same descriptor
  RaxValues,       \* values the guest may leave in RAX
  EptEdits,        \* whether the VMM edits its EPT
  SupportedAsids,  \* ASIDs the processor has
  MaxRip           \* bound on the guest's RIP

\* What an Intel processor takes in a field: VMWRITE keeps the field's width,
\* and VM entry refuses the reserved bits of EFER and of the access rights of
\* a usable segment, and events it cannot inject.
Fits(e, v) ==
  CASE e \in {EXIT_REASON, EXIT_INSTR_LEN}   -> v \in Int
    [] e = RIP                               -> v \in 0 .. MaxRip
    [] e = EFER                              -> v \subseteq Bits(0, 63) \ {EFER_SVME}
    [] e[1] = "SELECTOR"                     -> v \subseteq Bits(0, 15)
    [] e[1] \in {"LIMIT", "TABLE LIMIT"}     -> v \subseteq Bits(0, 31)
    [] e[1] = "AR" /\ AR_UNUSABLE \notin v   -> v \subseteq Bits(0, 7) \cup Bits(12, 15)
    [] e = ENTRY_INTR_INFO                   -> v \subseteq Bits(0, 31) /\ Injectable(v)
    [] OTHER                                 -> v \subseteq Bits(0, 63)

\* The access rights and the attributes describe the same segment.
SameSegment(ar, attrib) ==
  /\ AR_UNUSABLE \in ar <=> ATTRIB_P \notin attrib
  /\ AR_UNUSABLE \notin ar =>
       attrib = (ar \cap Bits(0, 7)) \cup {b - 4 : b \in ar \cap Bits(12, 15)}

\* The operands of VMWRITE fit their fields.  ShadowVMCS::write keeps all 64
\* bits of one that does not, where VMWRITE would keep the field's width.
ASSUME EmulatorAssumption ==
  /\ Builds \subseteq BOOLEAN /\ Nrips \in BOOLEAN /\ EptEdits \in BOOLEAN
  /\ NoRegion \notin Region
  /\ Code \subseteq Hde
  /\ VmmReads \subseteq Enc
  /\ \A w \in VmmWrites : w[1] \in Enc \ ExitEnc /\ Fits(w[1], w[2])
  /\ {0} \in SupportedAsids
  /\ MaxRip \in Nat

\* What a guest loads, the processor of either manual lets it load.
ASSUME GuestAssumption ==
  /\ \A w \in GuestWrites :
       w[1] \in PlainRegs \cup {"EFER"} /\ Fits(Guest(w[1]), w[2])
  /\ \A w \in GuestTables : w[1] \in Tables /\ Fits(TableBase(w[1]), w[2])
  /\ \A d \in Descriptors, s \in Segs :
       /\ Fits(Access(s), d.ar) /\ d.attrib \subseteq Bits(0, 11)
       /\ SameSegment(d.ar, d.attrib)
  /\ \A v \in RaxValues : v \subseteq Bits(0, 63)

\* The shadow never fills: see LosslessWithinCap of ShadowVMCS_proofs.
ASSUME StoreLargeEnough == Cardinality(Enc) <= MaxFields

VARIABLES
  guestLaunch,  \* the build: AMDV_ENABLE_GUEST_LAUNCH, never changed
  fVmcs,      \* contents of the shadow VMCS
  launched,   \* its launch state
  fVmxRoot,
  bound,      \* fVmcb points to a VMCB
  fVmcb,      \* contents of that VMCB
  fGuestRax,
  frame,      \* the trap frame handleUD left: [handled, rip, rflags, data]
  inflight,   \* length of the launch instruction being emulated while its
              \* guest runs, 0 when no guest runs
  hw,         \* reference: the contents of each VMCS region
  current,    \* reference: the current VMCS
  ownRax,     \* reference: RAX as the guest last left it
  strayed,    \* the VMM has executed VMWRITE with no current VMCS
  tlb         \* per ASID: "empty", "fresh", "stale" (older than the last
              \* edit of the EPT), "owed" (stale and told to INVEPT)

store     == <<fVmcs, launched>>
backend   == <<guestLaunch, bound, fVmcb, fGuestRax>>
reference == <<hw, current, ownRax, strayed>>
vars == <<store, backend, fVmxRoot, frame, inflight, reference, tlb>>

Running == inflight # 0

Init ==
  /\ guestLaunch \in Builds
  /\ fVmcs = Unwritten /\ launched = FALSE
  /\ fVmxRoot = FALSE
  /\ bound = FALSE /\ fVmcb = PreparedVmcb
  /\ fGuestRax = {}
  /\ frame = [handled |-> FALSE, rip |-> 0, rflags |-> TrapFlags, data |-> {}]
  /\ inflight = 0
  /\ hw = [r \in Region |-> Unwritten] /\ current = NoRegion
  /\ ownRax = {} /\ strayed = FALSE
  /\ tlb = [a \in SupportedAsids |-> "empty"]

\* HypervisorAMD::onPatcherLoad binds the emulator to the VMCB enable() made.
bind ==
  /\ ~ bound
  /\ bound' = TRUE
  /\ fVmcb' = PreparedVmcb
  /\ UNCHANGED <<guestLaunch, store, fVmxRoot, fGuestRax, frame, inflight,
                 reference, tlb>>

------------------------------------------------------------------------------
\* #UD

RFLAGS_STATUS_MASK == {0, 2, 4, 6, 7, 11}

Trap(hs, ops) == ~ Running /\ decodeVmx(hs).op \in ops

\* Mutant: the status flags of the VMM are left as they were.
ConsumedKeepsFlags(length, data) ==
  frame' = [handled |-> TRUE, rip |-> length, rflags |-> TrapFlags, data |-> data]

\* handleUD's last three lines; data is what VMREAD put in its destination.
Consumed(length, data) ==
  frame' = [handled |-> TRUE, rip |-> length,
            rflags |-> TrapFlags \ RFLAGS_STATUS_MASK, data |-> data]

ReRaised ==
  frame' = [handled |-> FALSE, rip |-> 0, rflags |-> TrapFlags, data |-> {}]

NotVmx(hs) ==
  /\ Trap(hs, {"NONE"})
  /\ ReRaised
  /\ UNCHANGED <<store, backend, fVmxRoot, inflight, reference, tlb>>

vmxonOrOff(hs) ==
  /\ Trap(hs, {"VMXON", "VMXOFF"})
  /\ fVmxRoot' = (decodeVmx(hs).op = "VMXON")
  /\ Consumed(hs.len, {})
  /\ current' = NoRegion
  /\ UNCHANGED <<store, backend, inflight, hw, ownRax, strayed, tlb>>

\* The operand, the region r, is not decoded: one shadow serves every VMCS.
vmptrld(hs, r) ==
  /\ Trap(hs, {"VMPTRLD"})
  /\ launched' = FALSE
  /\ Consumed(hs.len, {})
  /\ current' = r
  /\ UNCHANGED <<fVmcs, backend, fVmxRoot, inflight, hw, ownRax, strayed, tlb>>

vmclear(hs, r) ==
  /\ Trap(hs, {"VMCLEAR"})
  /\ launched' = FALSE
  /\ Consumed(hs.len, {})
  /\ current' = IF current = r THEN NoRegion ELSE current
  /\ UNCHANGED <<fVmcs, backend, fVmxRoot, inflight, hw, ownRax, strayed, tlb>>

vmptrst(hs) ==
  /\ Trap(hs, {"VMPTRST"})
  /\ Consumed(hs.len, {})
  /\ UNCHANGED <<store, backend, fVmxRoot, inflight, reference, tlb>>

\* The shadow takes a write whether or not a VMCS is current; an Intel
\* processor fails one with none, and writes nothing.
vmwrite(hs, e, v) ==
  /\ Trap(hs, {"VMWRITE"})
  /\ fVmcs' = [fVmcs EXCEPT ![e] = v]
  /\ hw' = IF current = NoRegion THEN hw ELSE [hw EXCEPT ![current][e] = v]
  /\ strayed' = (strayed \/ current = NoRegion)
  /\ Consumed(hs.len, {})
  /\ UNCHANGED <<launched, backend, fVmxRoot, inflight, current, ownRax, tlb>>

vmread(hs, e) ==
  /\ Trap(hs, {"VMREAD"})
  /\ Consumed(hs.len, fVmcs[e])
  /\ UNCHANGED <<store, backend, fVmxRoot, inflight, reference, tlb>>

\* INVEPT and INVVPID change nothing; a VMM that executed INVEPT relies on
\* no stale translation being used.
invalidate(hs) ==
  /\ Trap(hs, {"INVEPT", "INVVPID"})
  /\ Consumed(hs.len, {})
  /\ tlb' = [a \in SupportedAsids |->
               IF tlb[a] = "stale" /\ decodeVmx(hs).op = "INVEPT"
               THEN "owed" ELSE tlb[a]]
  /\ UNCHANGED <<store, backend, fVmxRoot, inflight, reference>>

------------------------------------------------------------------------------
\* VMLAUNCH and VMRESUME

\* What the VMM does, not a check of the code's: it launches a current VMCS
\* that passes the checks of VM entry, among them that a usable segment is
\* present.
Launch(hs) ==
  /\ Trap(hs, {"VMLAUNCH", "VMRESUME"})
  /\ current # NoRegion
  /\ \A s \in Segs : hw[current][Access(s)] \cap {ATTRIB_P, AR_UNUSABLE} # {}

\* handleUD does not look at what vmlaunchResume returns; nothing was written.
launchUnbound(hs) ==
  /\ Launch(hs)
  /\ ~ bound
  /\ Consumed(hs.len, {})
  /\ UNCHANGED <<store, backend, fVmxRoot, inflight, reference, tlb>>

\* The rest of vmlaunchResume and of handleUD once the guest has exited with
\* vmcb in memory.
finishLaunch(vmcb, length) ==
  /\ fVmcb' = vmcb
  /\ fGuestRax' = vmcb.reg["RAX"]
  /\ fVmcs' = translateVmcbToVmcs(vmcb, fVmcs, Nrips)
  /\ launched' = TRUE
  /\ Consumed(length, {})
  /\ UNCHANGED <<guestLaunch, bound, fVmxRoot>>

\* Mutant: nothing is written back when no guest ran.
DisabledKeepsVmcs(hs) ==
  /\ Launch(hs)
  /\ bound /\ ~ guestLaunch
  /\ fVmcb' = translateVmcsToVmcb(fVmcs, fVmcb, fGuestRax)
  /\ launched' = TRUE
  /\ Consumed(hs.len, {})
  /\ UNCHANGED <<guestLaunch, fVmcs, bound, fGuestRax, fVmxRoot, inflight,
                 reference, tlb>>

launchDisabled(hs) ==
  /\ Launch(hs)
  /\ bound /\ ~ guestLaunch
  /\ finishLaunch([translateVmcsToVmcb(fVmcs, fVmcb, fGuestRax)
                     EXCEPT !.exit_code = VMEXIT_INVALID], hs.len)
  /\ UNCHANGED <<inflight, reference, tlb>>

\* svmWorldSwitch up to VMRUN.  A translation of the ASID's address space
\* that is already cached is used unless tlb_control asks for a flush.
enterGuest(hs) ==
  /\ Launch(hs)
  /\ bound /\ guestLaunch
  /\ fVmcb' = translateVmcsToVmcb(fVmcs, fVmcb, fGuestRax)
  /\ inflight' = hs.len
  /\ tlb' = [a \in SupportedAsids |->
               IF a = fVmcb'.guest_asid
                    /\ (tlb[a] = "empty" \/ fVmcb'.tlb_control # {})
               THEN "fresh" ELSE tlb[a]]
  /\ UNCHANGED <<guestLaunch, store, bound, fGuestRax, fVmxRoot, frame,
                 reference>>

------------------------------------------------------------------------------
\* The processor in guest mode: external.

\* The checks VMRUN makes (AMD APM Vol.2, 15.5.1) of the fields the
\* translation decides, in Consistent those no choice of the VMM's can fail.
Consistent ==
  /\ EFER_SVME \in fVmcb.reg["EFER"]
  /\ INTERCEPT2_VMRUN \in fVmcb.intercept_2
  /\ fVmcb.guest_asid # {}
  /\ LegalInjection(fVmcb.eventinj)

Accepted == Consistent /\ fVmcb.guest_asid \in SupportedAsids

\* The guest changes what its save area becomes and what the field e of an
\* Intel VMCS would hold at its next exit.
GuestStep(vmcb, e, v) ==
  /\ Running /\ Accepted
  /\ fVmcb' = vmcb
  /\ hw' = [hw EXCEPT ![current][e] = v]
  /\ UNCHANGED <<guestLaunch, store, bound, fGuestRax, fVmxRoot, frame,
                 inflight, current, ownRax, strayed, tlb>>

GuestRuns ==
  LET rip == fVmcb.reg["RIP"] + 1
  IN  rip <= MaxRip /\ GuestStep([fVmcb EXCEPT !.reg["RIP"] = rip], RIP, rip)

GuestLoadsRegister(r, v) ==
  LET image == IF r = "EFER" THEN v \cup {EFER_SVME} ELSE v
  IN  GuestStep([fVmcb EXCEPT !.reg[r] = image], Guest(r), v)

GuestLoadsTable(t, base) ==
  GuestStep([fVmcb EXCEPT !.table[t].base = base], TableBase(t), base)

GuestLoadsSegment(s, d) ==
  GuestStep([fVmcb EXCEPT !.seg[s].attrib = d.attrib], Access(s), d.ar)

GuestSetsRax(v) ==
  /\ Running /\ Accepted
  /\ fVmcb' = [fVmcb EXCEPT !.reg["RAX"] = v]
  /\ ownRax' = v
  /\ UNCHANGED <<guestLaunch, store, bound, fGuestRax, fVmxRoot, frame,
                 inflight, hw, current, strayed, tlb>>

\* What may end the run of a guest: the AMD exit code, the Intel exit reason
\* for the same event, and the length of the instruction that caused it.
Cause(code, reason, length) == [code |-> code, reason |-> reason, length |-> length]

Event ==
  [hlt       |-> Cause(VMEXIT_HLT, EXIT_HLT, 1),
   cpuid     |-> Cause(VMEXIT_CPUID, EXIT_CPUID, 2),
   vmmcall   |-> Cause(VMEXIT_VMMCALL, EXIT_VMCALL, 3),
   interrupt |-> Cause(VMEXIT_INTR, EXIT_EXTERNAL_INTERRUPT, 0),
   exception |-> Cause(VMEXIT_EXCP_BASE + 14, EXIT_EXCEPTION_NMI, 0),
   npf       |-> Cause(VMEXIT_NPF, EXIT_EPT_VIOLATION, 0),
   invalid   |-> Cause(VMEXIT_INVALID, EXIT_UNKNOWN, 0)]

RFLAGS_IF == 9

\* With V_INTR_MASKING clear - v_intr is never written - a physical interrupt
\* is recognised only while the guest's own IF is set.
Occurs(ev) ==
  CASE ev = "hlt"       -> INTERCEPT_HLT \in fVmcb.intercept_1
    [] ev = "cpuid"     -> INTERCEPT_CPUID \in fVmcb.intercept_1
    [] ev = "vmmcall"   -> INTERCEPT2_VMMCALL \in fVmcb.intercept_2
    [] ev = "interrupt" -> /\ INTERCEPT_INTR \in fVmcb.intercept_1
                           /\ RFLAGS_IF \in fVmcb.reg["RFLAGS"]
    [] ev = "exception" -> 14 \in fVmcb.intercept_exceptions
    [] ev = "npf"       -> fVmcb.np_enable
    [] ev = "invalid"   -> FALSE

\* What an Intel processor records of an exit in its VMCS: nothing when VMRUN
\* refused the VMCB, of which it knows no counterpart.
Recorded(vmcs, event) ==
  IF event.code = VMEXIT_INVALID
  THEN vmcs
  ELSE [vmcs EXCEPT ![EXIT_REASON] = event.reason,
                    ![EXIT_INSTR_LEN] = IF event.length > 0 THEN event.length ELSE @,
                    ![ENTRY_INTR_INFO] = @ \ {INTR_VALID}]

\* #VMEXIT, then the rest of svmWorldSwitch, of vmlaunchResume and of
\* handleUD.  NRIP is recorded for the exits an instruction causes.
exitGuest(ev) ==
  /\ Running
  /\ IF Accepted THEN Occurs(ev) ELSE ev = "invalid"
  /\ finishLaunch([fVmcb EXCEPT
                     !.exit_code = Event[ev].code,
                     !.nrip = IF Nrips /\ Event[ev].length > 0
                              THEN fVmcb.reg["RIP"] + Event[ev].length ELSE 0,
                     !.eventinj = {}],
                  inflight)
  /\ inflight' = 0
  /\ hw' = [hw EXCEPT ![current] = Recorded(hw[current], Event[ev])]
  /\ UNCHANGED <<current, ownRax, strayed, tlb>>

\* The VMM edits its EPT in memory: what is cached is out of date.
editEpt ==
  /\ EptEdits /\ ~ Running
  /\ tlb' = [a \in SupportedAsids |-> IF tlb[a] = "fresh" THEN "stale" ELSE tlb[a]]
  /\ UNCHANGED <<store, backend, fVmxRoot, frame, inflight, reference>>

------------------------------------------------------------------------------

Guests ==
  \/ GuestRuns
  \/ \E w \in GuestWrites : GuestLoadsRegister(w[1], w[2])
  \/ \E w \in GuestTables : GuestLoadsTable(w[1], w[2])
  \/ \E s \in Segs, d \in Descriptors : GuestLoadsSegment(s, d)
  \/ \E v \in RaxValues : GuestSetsRax(v)
  \/ \E ev \in DOMAIN Event : exitGuest(ev)

handleUD(hs) ==
  \/ NotVmx(hs)
  \/ vmxonOrOff(hs)
  \/ \E r \in Region : vmptrld(hs, r) \/ vmclear(hs, r)
  \/ vmptrst(hs)
  \/ \E w \in VmmWrites : vmwrite(hs, w[1], w[2])
  \/ \E e \in VmmReads : vmread(hs, e)
  \/ invalidate(hs)
  \/ launchUnbound(hs)
  \/ launchDisabled(hs)
  \/ enterGuest(hs)

Next ==
  \/ bind
  \/ \E hs \in Code : handleUD(hs)
  \/ Guests
  \/ editEpt

Spec == Init /\ [][Next]_vars
------------------------------------------------------------------------------
\* Properties

TypeOK ==
  /\ DOMAIN fVmcs = Enc
  /\ \A e \in Enc : IF e \in Numeric THEN fVmcs[e] \in Int ELSE fVmcs[e] \subseteq Bits(0, 63)
  /\ {guestLaunch, launched, fVmxRoot, bound, strayed} \subseteq BOOLEAN
  /\ DOMAIN fVmcb = DOMAIN PreparedVmcb
  /\ \A s \in Segs : fVmcb.seg[s].attrib \subseteq Bits(0, 11)
  /\ fVmcb.reg["RIP"] \in 0 .. MaxRip
  /\ fGuestRax \in RaxValues \cup {{}}
  /\ frame.handled => frame.rip > 0 /\ frame.rflags \cap RFLAGS_STATUS_MASK = {}
  /\ inflight \in {hs.len : hs \in Code} \cup {0}
  /\ current \in Region \cup {NoRegion}
  /\ Running => bound /\ current # NoRegion
  /\ \A a \in SupportedAsids : tlb[a] \in {"empty", "fresh", "stale", "owed"}

\* Access rights mean the same when both say the segment is unusable.
SameValue(e, x, y) ==
  \/ x = y
  \/ e[1] = "AR" /\ AR_UNUSABLE \in x \cap y

\* The access rights of a segment with these attributes.
RightsOf(attrib) ==
  IF ATTRIB_P \in attrib
  THEN (attrib \cap Bits(0, 7)) \cup {b + 4 : b \in attrib \cap Bits(8, 11)}
  ELSE {AR_UNUSABLE}

\* What field e is to the guest whose save area is in vmcb, by the layouts of
\* the manuals.
GuestHas(vmcb, e) ==
  CASE e = EFER                   -> vmcb.reg["EFER"] \ {EFER_SVME}
    [] e[1] = "GUEST" /\ e # EFER -> vmcb.reg[e[2]]
    [] e[1] = "SELECTOR"          -> vmcb.seg[e[2]].selector
    [] e[1] = "LIMIT"             -> vmcb.seg[e[2]].limit
    [] e[1] = "BASE"              -> vmcb.seg[e[2]].base
    [] e[1] = "AR"                -> RightsOf(vmcb.seg[e[2]].attrib)
    [] e[1] = "TABLE BASE"        -> vmcb.table[e[2]].base
    [] e[1] = "TABLE LIMIT"       -> vmcb.table[e[2]].limit

\* It is what VMREAD returns.
GuestFinds(e) ==
  IF e[1] = "AR" THEN SameSegment(fVmcs[e], fVmcb.seg[e[2]].attrib)
                 ELSE GuestHas(fVmcb, e) = fVmcs[e]

(* Whatever the VMM wrote and whatever earlier guests left in the VMCB, a  *)
(* guest is entered with the register state the VMM would VMREAD, and with *)
(* RAX as the guest left it.                                               *)
EntryLoadsVmcs ==
  [][~ Running /\ Running' =>
       /\ (\A e \in SegEnc \cup TableEnc \cup GuestEnc : GuestFinds(e))'
       /\ fVmcb'.reg["RAX"] = ownRax]_vars

\* Guest state an exit is to bring back.  GDTR and IDTR are the subject of
\* TablesReturned; PAT is saved only when a VM-exit control says so, and the
\* VMM is taken to set the one that saves EFER.
ReturnedEnc == SegEnc \cup ({"GUEST"} \X (PlainRegs \cup {"RIP", "EFER"})) \cup ExitEnc

\* A write with no current VMCS goes to the next one loaded; from then on the
\* shadow is nobody's VMCS.
MatchesCurrent(encodings) ==
  ~ Running /\ current # NoRegion /\ ~ strayed =>
    \A e \in encodings : SameValue(e, fVmcs[e], hw[current][e])

Refused == fVmcb.exit_code = VMEXIT_INVALID

(* Once its guest has run, and through any sequence of entries, exits and  *)
(* VMWRITEs, the VMM reads of the guest's registers, of the reason of the  *)
(* exit and of the length of the exiting instruction what an Intel         *)
(* processor would have stored in the VMCS.  When VMRUN refused the entry  *)
(* it reads an unknown reason, and all else as it was.                     *)
ExitStoresVmcs ==
  guestLaunch =>
    /\ MatchesCurrent(IF Refused THEN ReturnedEnc \ {EXIT_REASON} ELSE ReturnedEnc)
    /\ Refused => fVmcs[EXIT_REASON] = EXIT_UNKNOWN

(* With the world switch compiled out, VMLAUNCH is a round trip through    *)
(* the VMCB: no field the VMM wrote is lost, widened or altered by it, in  *)
(* any number of launches.                                                 *)
DisabledLaunchKeepsVmcs == ~ guestLaunch => MatchesCurrent(Enc \ ExitEnc)

(* "mark the exit invalid so callers see that the world-switch is disabled *)
(* rather than acting on stale VMCB state" (src/kern_vmx_emu.cpp): from    *)
(* the first launch on the VMM reads an unknown exit reason.               *)
DisabledLaunchVisible ==
  ~ guestLaunch /\ launched => fVmcs[EXIT_REASON] = EXIT_UNKNOWN

\* The VPID the VMM tags this guest with, none when it has not enabled VPIDs.
ChosenVpid ==
  IF CPU_CTL_SECONDARY_CTLS \in fVmcs[CPU] /\ SEC_CTL_ENABLE_VPID \in fVmcs[SECONDARY]
  THEN fVmcs[VPID] \cap Bits(0, 31) ELSE {}

(* VMRUN refuses no entry but one the VMM tagged with a VPID the processor *)
(* has no ASID for, which the emulator hands on as it is: SVME and the     *)
(* VMRUN intercept are there, the event has a type and a vector EVENTINJ   *)
(* may hold, and a guest without a VPID has an ASID, never 0.              *)
EntriesConsistent ==
  Running => \/ Accepted
             \/ Consistent /\ ChosenVpid \notin SupportedAsids \cup {{}}

\* What the VMM asked of the processor in the VMCS, per exit reason; the one
\* exception a guest meets here is the page fault.  CPUID and VMCALL leave a
\* guest whatever is asked, EXIT_UNKNOWN is a refused entry.
Asked(reason) ==
  LET vmcs == hw[current]
      sec  == IF CPU_CTL_SECONDARY_CTLS \in vmcs[CPU] THEN vmcs[SECONDARY] ELSE {}
  IN  CASE reason = EXIT_HLT                -> CPU_CTL_HLT_EXITING \in vmcs[CPU]
        [] reason = EXIT_EXTERNAL_INTERRUPT -> PIN_CTL_EXT_INTR_EXITING \in vmcs[PIN]
        [] reason = EXIT_EXCEPTION_NMI      -> 14 \in vmcs[EXCEPTION_BITMAP]
        [] reason = EXIT_EPT_VIOLATION      -> SEC_CTL_ENABLE_EPT \in sec
        [] OTHER -> reason \in {EXIT_CPUID, EXIT_VMCALL, EXIT_UNKNOWN}

(* The VMM never sees an exit it has not asked for in the VMCS as it       *)
(* stands: a control it cleared, or a secondary control it deactivated, is *)
(* no longer armed in the VMCB by an earlier entry.                        *)
ExitsAskedFor ==
  [][Running /\ ~ Running' /\ ~ strayed => Asked(fVmcs'[EXIT_REASON])]_vars

(* For as long as its guest runs, what the VMM asks for with the controls  *)
(* the translation reads - HLT exiting, external-interrupt exiting, EPT    *)
(* and the exception bitmap - is armed, whatever was armed at earlier      *)
(* entries.  NMI, CR3, I/O and MSR exiting are read by no line of the      *)
(* translation and armed by none.                                          *)
AskedForArmed ==
  Running /\ ~ strayed =>
    /\ Asked(EXIT_HLT) => INTERCEPT_HLT \in fVmcb.intercept_1
    /\ Asked(EXIT_EXTERNAL_INTERRUPT) => INTERCEPT_INTR \in fVmcb.intercept_1
    /\ Asked(EXIT_EPT_VIOLATION) => fVmcb.np_enable
    /\ hw[current][EXCEPTION_BITMAP] \cap Bits(0, 31) \subseteq fVmcb.intercept_exceptions

(* "Write guest state + exit information from the VMCB back into the       *)
(* shadow VMCS after VMRUN" (src/kern_vmcs_vmcb.hpp), for the descriptor   *)
(* tables, which every exit of an Intel processor saves.                   *)
TablesReturned == MatchesCurrent(TableEnc)

(* An event the VMM asked to inject is injected by one entry: the valid    *)
(* bit reads 0 after the exit, as it does on the processor whose           *)
(* instructions are emulated.                                              *)
EventInjectedOnce == MatchesCurrent({ENTRY_INTR_INFO})

(* "TLB-management hints; SVM flushes via VMCB TLB_CONTROL/ASID instead"   *)
(* (src/kern_vmx_emu.cpp): after INVEPT a guest runs on no translation     *)
(* older than the edit of the EPT.                                         *)
FlushHonoured ==
  Running /\ fVmcb.np_enable /\ fVmcb.guest_asid \in SupportedAsids =>
    tlb[fVmcb.guest_asid] # "owed"

------------------------------------------------------------------------------
\* One VMCS, and no VMCB

\* The fields the emulator keeps as an Intel processor does; GDTR, IDTR and
\* the valid bit of the event are the subject of the runs that fail.
KeptEnc == Enc \ (TableEnc \cup {ENTRY_INTR_INFO})

\* A segment that is not present cannot be used, and no other bit of it counts.
Meaning(e, v) ==
  IF e[1] = "AR" /\ (AR_UNUSABLE \in v \/ ATTRIB_P \notin v) THEN {AR_UNUSABLE} ELSE v

\* The state of the guest is what its processor has while it runs, and what
\* the VMM reads otherwise; the other fields are the VMM's.
Holds(e) == IF Running /\ e \in SegEnc \cup GuestEnc THEN GuestHas(fVmcb, e) ELSE fVmcs[e]

\* The controls that must be set for a guest to leave for the event.
Asks(ev) ==
  CASE ev = "hlt"       -> {<<CPU, CPU_CTL_HLT_EXITING>>}
    [] ev = "interrupt" -> {<<PIN, PIN_CTL_EXT_INTR_EXITING>>}
    [] ev = "exception" -> {<<EXCEPTION_BITMAP, 14>>}
    [] ev = "npf"       -> {<<CPU, CPU_CTL_SECONDARY_CTLS>>, <<SECONDARY, SEC_CTL_ENABLE_EPT>>}
    [] OTHER            -> {}

Means(pairs) == {<<w[1], Meaning(w[1], w[2])>> : w \in pairs}

WritesMeant == Means({w \in VmmWrites : w[1] \in KeptEnc})

LoadsMeant ==
  Means({<<Guest(w[1]), w[2]>> : w \in GuestWrites}
          \cup {<<Access(s), d.ar>> : s \in Segs, d \in Descriptors})

Exits ==
  {[reason |-> Event[ev].reason, asks |-> Asks(ev),
    length |-> IF Nrips THEN Event[ev].length ELSE 0] : ev \in DOMAIN Event}

(* The emulator is a machine with one VMCS, whatever VMPTRLD and VMCLEAR   *)
(* name: a guest enters with the fields the VMM wrote or an earlier guest  *)
(* left, nothing but a VMWRITE or a guest changes one, a guest leaves only *)
(* for what the controls then in it ask for, its reason and length are     *)
(* what the VMM reads next, and what the guest loaded into a register or a *)
(* segment, RAX included, is there for the VMM and for the next entry: no  *)
(* field of KeptEnc is lost, widened or altered by a translation.          *)
Machine == INSTANCE VmxMachine WITH
  Blank    <- [e \in KeptEnc |-> Meaning(e, Unwritten[e])],
  Writes   <- WritesMeant,
  Loads    <- LoadsMeant,
  Rax      <- RaxValues,
  Rip      <- RIP,
  Reason   <- EXIT_REASON,
  Length   <- EXIT_INSTR_LEN,
  Refusal  <- EXIT_UNKNOWN,
  entering <- guestLaunch,
  vmcs     <- [e \in KeptEnc |-> Meaning(e, Holds(e))],
  running  <- Running,
  rax      <- IF Running THEN fVmcb.reg["RAX"] ELSE fGuestRax

ImplementsMachine == Machine!MachineSpec

------------------------------------------------------------------------------
\* Liveness.  The host's timer keeps interrupting: an interrupt stays pending
\* until it is taken, and one that can be taken again and again is.  A VMCB
\* that VMRUN refuses is refused.

Fairness ==
  /\ SF_vars(exitGuest("interrupt"))
  /\ WF_vars(exitGuest("invalid"))

FairSpec == Spec /\ Fairness

InterruptsEnabled == RFLAGS_IF \in fVmcb.reg["RFLAGS"]

(* A guest entered with external-interrupt exiting asked for in the VMCS   *)
(* and that does not leave interrupts disabled for good does not keep the  *)
(* processor: control returns to the VMM.  A guest that keeps IF clear     *)
(* does keep it, though an Intel processor would take it away: the code    *)
(* sets neither V_INTR_MASKING nor anything else that would end its run.   *)
GuestYields ==
  []<>(Running => InterruptsEnabled) =>
    (Running /\ ~ strayed /\ PIN_CTL_EXT_INTR_EXITING \in hw[current][PIN] ~> ~ Running)
==============================================================================
