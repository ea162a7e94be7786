------------------------------- MODULE Translate -------------------------------
(***************************************************************************)
(* translateVmcsToVmcb and translateVmcbToVmcs (src/kern_vmcs_vmcb.cpp):   *)
(* the shadow VMCS as a function from field encodings to values, the VMCB  *)
(* as a record, and the two translations as functions between them.        *)
(*                                                                         *)
(* An encoding is a pair: the group of the field and its name in the       *)
(* group.  A value is a word (Words), except for the fields whose          *)
(* arithmetic or identity matters, which are numbers: RIP, the exit reason *)
(* and the exit instruction length.                                        *)
(***************************************************************************)
EXTENDS Conversions

CONSTANTS
  Segs,      \* kSegs: ES CS SS DS FS GS LDTR TR
  Tables,    \* GDTR IDTR
  PlainRegs  \* CR0 CR3 CR4 CR2 RSP RFLAGS: copied as they are

ASSUME TranslateAssumption == PlainRegs \cap {"RIP", "PAT", "EFER", "RAX"} = {}

Guest(r)      == <<"GUEST", r>>
Selector(s)   == <<"SELECTOR", s>>
Limit(s)      == <<"LIMIT", s>>
Base(s)       == <<"BASE", s>>
Access(s)     == <<"AR", s>>
TableBase(t)  == <<"TABLE BASE", t>>
TableLimit(t) == <<"TABLE LIMIT", t>>

RIP   == Guest("RIP")
PAT   == Guest("PAT")
EFER  == Guest("EFER")

PIN              == <<"CONTROL", "PIN">>
CPU              == <<"CONTROL", "CPU">>
SECONDARY        == <<"CONTROL", "SECONDARY">>
EXCEPTION_BITMAP == <<"CONTROL", "EXCEPTION_BITMAP">>
EPT_POINTER      == <<"CONTROL", "EPT_POINTER">>
VPID             == <<"CONTROL", "VPID">>
ENTRY_INTR_INFO  == <<"CONTROL", "ENTRY_INTR_INFO">>
ENTRY_ERROR      == <<"CONTROL", "ENTRY_ERROR">>

EXIT_REASON      == <<"EXIT", "REASON">>
EXIT_INSTR_LEN   == <<"EXIT", "INSTR_LEN">>

SegEnc     == {"SELECTOR", "LIMIT", "BASE", "AR"} \X Segs
TableEnc   == {"TABLE BASE", "TABLE LIMIT"} \X Tables
GuestEnc   == {"GUEST"} \X (PlainRegs \cup {"RIP", "PAT", "EFER"})
ControlEnc == {PIN, CPU, SECONDARY, EXCEPTION_BITMAP, EPT_POINTER, VPID,
               ENTRY_INTR_INFO, ENTRY_ERROR}
ExitEnc    == {EXIT_REASON, EXIT_INSTR_LEN}

Enc == SegEnc \cup TableEnc \cup GuestEnc \cup ControlEnc \cup ExitEnc

Numeric == {RIP, EXIT_REASON, EXIT_INSTR_LEN}
Word    == SUBSET Bits(0, 63)

\* What ShadowVMCS::read returns for a field never written: 0, whose exit
\* reason is EXIT_EXCEPTION_NMI.
Unwritten == [e \in Enc |-> IF e \in Numeric THEN 0 ELSE {}]

------------------------------------------------------------------------------
\* The VMCB.  tlb_control, exit_info_1 and nrip are only ever written by the
\* processor or not at all.

EFER_SVME == 12

INTERCEPT_INTR    == 0
INTERCEPT_CPUID   == 18
INTERCEPT_HLT     == 24
INTERCEPT2_VMRUN  == 0
INTERCEPT2_VMMCALL == 1

SavedRegs == PlainRegs \cup {"RIP", "PAT", "EFER", "RAX"}

Vmcb ==
  [seg   : [Segs -> [selector : Word, limit : Word, base : Word, attrib : Word]],
   table : [Tables -> [base : Word, limit : Word]],
   reg   : {r \in [SavedRegs -> Nat \cup Word] :
              \A n \in SavedRegs : IF n = "RIP" THEN r[n] \in Nat ELSE r[n] \in Word},
   intercept_1 : Word, intercept_2 : Word, intercept_exceptions : Word,
   np_enable : BOOLEAN, nested_cr3 : Word, guest_asid : Word,
   tlb_control : Word, eventinj : Word,
   exit_code : Int, exit_info_1 : Word, nrip : Nat]

\* SvmBackend::enable: a zeroed page, two intercepts of each group, ASID 1.
PreparedVmcb ==
  [seg   |-> [s \in Segs |-> [selector |-> {}, limit |-> {}, base |-> {}, attrib |-> {}]],
   table |-> [t \in Tables |-> [base |-> {}, limit |-> {}]],
   reg   |-> [r \in SavedRegs |-> IF r = "RIP" THEN 0 ELSE {}],
   intercept_1 |-> {INTERCEPT_CPUID, INTERCEPT_HLT},
   intercept_2 |-> {INTERCEPT2_VMRUN, INTERCEPT2_VMMCALL},
   intercept_exceptions |-> {},
   np_enable |-> FALSE, nested_cr3 |-> {}, guest_asid |-> {0},
   tlb_control |-> {}, eventinj |-> {},
   exit_code |-> 0, exit_info_1 |-> {}, nrip |-> 0]

------------------------------------------------------------------------------
\* VMCS -> VMCB

PIN_CTL_EXT_INTR_EXITING == 0
CPU_CTL_HLT_EXITING      == 7
CPU_CTL_SECONDARY_CTLS   == 31
SEC_CTL_ENABLE_EPT       == 1
SEC_CTL_ENABLE_VPID      == 5

segmentsToVmcb(vmcs) ==
  [s \in Segs |-> [selector |-> Low(vmcs[Selector(s)], 16),
                   limit    |-> Low(vmcs[Limit(s)], 32),
                   base     |-> vmcs[Base(s)],
                   attrib   |-> vmxArToSvmAttrib(Low(vmcs[Access(s)], 32))]]

tablesToVmcb(vmcs) ==
  [t \in Tables |-> [base  |-> vmcs[TableBase(t)],
                     limit |-> Low(vmcs[TableLimit(t)], 32)]]

\* Mutant: the guest EFER without the guest's own bits.
EferOnlySvme(vmcs, rax) ==
  [r \in SavedRegs |-> CASE r = "RAX"  -> rax
                         [] r = "EFER" -> {EFER_SVME}
                         [] OTHER      -> vmcs[Guest(r)]]

\* RAX is not a VMCS field; the caller carries it.
registersToVmcb(vmcs, rax) ==
  [r \in SavedRegs |-> CASE r = "RAX"  -> rax
                         [] r = "EFER" -> vmcs[EFER] \cup {EFER_SVME}
                         [] OTHER      -> vmcs[Guest(r)]]

\* Mutant: the secondary controls count even when not activated.
AlwaysSecondary(vmcs) == Low(vmcs[SECONDARY], 32)

secondaryControls(vmcs) ==
  IF CPU_CTL_SECONDARY_CTLS \in vmcs[CPU] THEN Low(vmcs[SECONDARY], 32) ELSE {}

\* Mutant: the external-interrupt control is not looked at.
HltInterceptOnly(vmcs) ==
  {b \in {INTERCEPT_HLT} : CPU_CTL_HLT_EXITING \in vmcs[CPU]}

intercept1(vmcs) ==
  {b \in {INTERCEPT_INTR} : PIN_CTL_EXT_INTR_EXITING \in vmcs[PIN]}
  \cup {b \in {INTERCEPT_HLT} : CPU_CTL_HLT_EXITING \in vmcs[CPU]}

nestedPaging(vmcs) == SEC_CTL_ENABLE_EPT \in secondaryControls(vmcs)

\* buildNptFromEpt is a stub that returns 0: N_CR3 gets the EPT pointer
\* itself, less its 12 low bits.
nestedCr3(vmcs) ==
  IF nestedPaging(vmcs) THEN vmcs[EPT_POINTER] \ Bits(0, 11) ELSE {}

\* Mutant: a VPID of 0 is passed on.
RawVpid(vmcs) ==
  IF SEC_CTL_ENABLE_VPID \in secondaryControls(vmcs)
  THEN Low(vmcs[VPID], 32)
  ELSE {}

guestAsid(vmcs) ==
  IF SEC_CTL_ENABLE_VPID \in secondaryControls(vmcs) /\ Low(vmcs[VPID], 32) # {}
  THEN Low(vmcs[VPID], 32)
  ELSE {0}

\* rax is what the caller leaves in VMCB_RAX right after the translation.
translateVmcsToVmcb(vmcs, vmcb, rax) ==
  [vmcb EXCEPT
     !.seg   = segmentsToVmcb(vmcs),
     !.table = tablesToVmcb(vmcs),
     !.reg   = registersToVmcb(vmcs, rax),
     !.intercept_1 = intercept1(vmcs),
     !.intercept_2 = {INTERCEPT2_VMRUN},
     !.intercept_exceptions = Low(vmcs[EXCEPTION_BITMAP], 32),
     !.np_enable  = nestedPaging(vmcs),
     !.nested_cr3 = nestedCr3(vmcs),
     !.guest_asid = guestAsid(vmcs),
     !.eventinj   = eventInjection(Low(vmcs[ENTRY_INTR_INFO], 32),
                                   vmcs[ENTRY_ERROR])]

------------------------------------------------------------------------------
\* VMCB -> VMCS: the fields written, all others stay.  nrips is the NRIPS bit
\* of the SVM features.

ReturnedRegs == PlainRegs \cup {"RIP"}

\* Mutant: EFER goes back with SVME in it.
registerRaw(vmcb, r) == vmcb.reg[r]

registerField(vmcb, r) ==
  IF r = "EFER" THEN vmcb.reg["EFER"] \ {EFER_SVME} ELSE vmcb.reg[r]

segmentField(vmcb, part, s) ==
  CASE part = "SELECTOR" -> vmcb.seg[s].selector
    [] part = "LIMIT"    -> vmcb.seg[s].limit
    [] part = "BASE"     -> vmcb.seg[s].base
    [] part = "AR"       -> svmAttribToVmxAr(vmcb.seg[s].attrib)

lengthKnown(vmcb, nrips) == nrips /\ vmcb.nrip > vmcb.reg["RIP"]

\* Mutant: of the registers only RIP and EFER come back.
ExitDropsRegisters(vmcb, vmcs, nrips) ==
  [e \in Enc |->
     CASE e \in {"GUEST"} \X {"RIP", "EFER"} -> registerField(vmcb, e[2])
       [] e \in SegEnc      -> segmentField(vmcb, e[1], e[2])
       [] e = EXIT_REASON   -> svmExitToVmxReason(vmcb.exit_code, vmcb.exit_info_1)
       [] e = EXIT_INSTR_LEN /\ lengthKnown(vmcb, nrips)
                            -> vmcb.nrip - vmcb.reg["RIP"]
       [] OTHER             -> vmcs[e]]

translateVmcbToVmcs(vmcb, vmcs, nrips) ==
  [e \in Enc |->
     CASE e \in {"GUEST"} \X (ReturnedRegs \cup {"EFER"}) -> registerField(vmcb, e[2])
       [] e \in SegEnc      -> segmentField(vmcb, e[1], e[2])
       [] e = EXIT_REASON   -> svmExitToVmxReason(vmcb.exit_code, vmcb.exit_info_1)
       [] e = EXIT_INSTR_LEN /\ lengthKnown(vmcb, nrips)
                            -> vmcb.nrip - vmcb.reg["RIP"]
       [] OTHER             -> vmcs[e]]
==============================================================================
