----------------------------- MODULE Conversions -----------------------------
(***************************************************************************)
(* The pure conversions between Intel's and AMD's encodings, from          *)
(* src/kern_vmcs_vmcb.cpp, src/kern_vmx.hpp and src/SVM.h: segment access  *)
(* rights, the event to inject at entry, the reason of an exit, one entry  *)
(* of a nested page table.                                                 *)
(***************************************************************************)
EXTENDS Integers, Words

------------------------------------------------------------------------------
\* Segment access rights
\*   VMX: type[3:0] S[4] DPL[6:5] P[7] AVL[12] L[13] D/B[14] G[15] unusable[16]
\*   SVM: type[3:0] S[4] DPL[6:5] P[7] AVL[8]  L[9]  D/B[10] G[11]

AR_UNUSABLE == 16
ATTRIB_P    == 7

\* Mutant: the upper nibble is masked before it is shifted.
MaskBeforeShift(vmxAr) ==
  IF AR_UNUSABLE \in vmxAr
  THEN {}
  ELSE Low(vmxAr, 8) \cup Shr(vmxAr \cap Bits(8, 11), 4)

vmxArToSvmAttrib(vmxAr) ==
  IF AR_UNUSABLE \in vmxAr
  THEN {}
  ELSE Low(vmxAr, 8) \cup (Shr(vmxAr, 4) \cap Bits(8, 11))

svmAttribToVmxAr(svmAttrib) ==
  IF ATTRIB_P \notin svmAttrib
  THEN {AR_UNUSABLE}
  ELSE Low(svmAttrib, 8) \cup Shl(svmAttrib \cap Bits(8, 11), 4)

------------------------------------------------------------------------------
\* Event injection.  The entry information is a word; its three TYPE bits
\* are 10:8.  The error code travels in bits 63:32 of EVENTINJ.

INTR_VALID      == 31
INTR_DELIVER_EC == 11

vmxEntryVector(info) == Low(info, 8)
vmxEntryType(info)   == Shr(info, 8) \cap Bits(0, 2)

VMX_INTR_TYPE_EXT    == {}
VMX_INTR_TYPE_NMI    == {1}
VMX_INTR_TYPE_SW_INT == {2}

EVENTINJ_TYPE_INTR   == {}
EVENTINJ_TYPE_NMI    == {1}
EVENTINJ_TYPE_EXCEPT == {0, 1}
EVENTINJ_TYPE_SOFT   == {2}

\* Mutant: the type is carried over as it is, as the rest of the layout is.
KeepType(vmxType) == vmxType

svmEventType(vmxType) ==
  CASE vmxType = VMX_INTR_TYPE_EXT    -> EVENTINJ_TYPE_INTR
    [] vmxType = VMX_INTR_TYPE_NMI    -> EVENTINJ_TYPE_NMI
    [] vmxType = VMX_INTR_TYPE_SW_INT -> EVENTINJ_TYPE_SOFT
    [] OTHER                          -> EVENTINJ_TYPE_EXCEPT

eventinj_make(vector, type, errValid, errCode) ==
  vector \cup Shl(type, 8) \cup {INTR_VALID}
  \cup IF errValid THEN {INTR_DELIVER_EC} \cup Shl(errCode, 32) ELSE {}

eventInjection(entryInfo, errCode) ==
  IF INTR_VALID \in entryInfo
  THEN eventinj_make(vmxEntryVector(entryInfo),
                     svmEventType(vmxEntryType(entryInfo)),
                     INTR_DELIVER_EC \in entryInfo,
                     Low(errCode, 32))
  ELSE {}

\* What the processors take of such words: external.

Vector(event)    == event \cap Bits(0, 7)
EventType(event) == {b - 8 : b \in event \cap Bits(8, 10)}

\* What VM entry accepts (SDM 24.8.3, 26.2.1.3): the type is not 1 or 7, the
\* vector is one the type can have - 2 for an NMI, an exception's below 32
\* but 2, 1 for INT1, 3 or 4 for INT3 and INTO - and only a hardware
\* exception delivers an error code.
Injectable(info) ==
  LET vector == Vector(info)
      type   == EventType(info)
  IN  INTR_VALID \in info =>
        /\ \/ type = {} \/ type = {2}
           \/ type = {1} /\ vector = {1}
           \/ type = {0, 1} /\ vector \subseteq Bits(0, 4) /\ vector # {1}
           \/ type = {0, 2} /\ vector = {0}
           \/ type = {1, 2} /\ vector \in {{0, 1}, {2}}
        /\ INTR_DELIVER_EC \in info => type = {0, 1}

\* What VMRUN accepts (APM Vol.2, 15.20): one of four types, and for an
\* exception a vector below 32 that is not 2, the NMI's.
LegalInjection(inj) ==
  INTR_VALID \in inj =>
    /\ EventType(inj) \in {EVENTINJ_TYPE_INTR, EVENTINJ_TYPE_NMI,
                            EVENTINJ_TYPE_EXCEPT, EVENTINJ_TYPE_SOFT}
    /\ EventType(inj) = EVENTINJ_TYPE_EXCEPT =>
         Vector(inj) \subseteq Bits(0, 4) /\ Vector(inj) # {1}

------------------------------------------------------------------------------
\* Exit reasons.  EXIT_UNKNOWN is 0xFFFFFFFF and VMEXIT_INVALID is
\* 0xFFFFFFFFFFFFFFFF in the source: -1 at their own widths.

VMEXIT_EXCP_BASE == 64
VMEXIT_EXCP_LAST == 95
VMEXIT_INTR      == 96
VMEXIT_NMI       == 97
VMEXIT_CPUID     == 114
VMEXIT_HLT       == 120
VMEXIT_IOIO      == 123
VMEXIT_MSR       == 124
VMEXIT_VMMCALL   == 129
VMEXIT_NPF       == 1024
VMEXIT_INVALID   == -1

EXIT_EXCEPTION_NMI      == 0
EXIT_EXTERNAL_INTERRUPT == 1
EXIT_CPUID              == 10
EXIT_HLT                == 12
EXIT_VMCALL             == 18
EXIT_IO_INSTRUCTION     == 30
EXIT_RDMSR              == 31
EXIT_WRMSR              == 32
EXIT_EPT_VIOLATION      == 48
EXIT_UNKNOWN            == -1

svmExitToVmxReason(svmExitCode, exitInfo1) ==
  CASE svmExitCode = VMEXIT_CPUID  -> EXIT_CPUID
    [] svmExitCode = VMEXIT_HLT    -> EXIT_HLT
    [] svmExitCode = VMEXIT_VMMCALL -> EXIT_VMCALL
    [] svmExitCode = VMEXIT_IOIO   -> EXIT_IO_INSTRUCTION
    [] svmExitCode = VMEXIT_MSR    -> IF 0 \in exitInfo1 THEN EXIT_WRMSR
                                                         ELSE EXIT_RDMSR
    [] svmExitCode = VMEXIT_INTR   -> EXIT_EXTERNAL_INTERRUPT
    [] svmExitCode = VMEXIT_NPF    -> EXIT_EPT_VIOLATION
    [] svmExitCode \in VMEXIT_EXCP_BASE .. VMEXIT_EXCP_LAST \cup {VMEXIT_NMI}
                                   -> EXIT_EXCEPTION_NMI
    [] OTHER                       -> EXIT_UNKNOWN

------------------------------------------------------------------------------
\* One entry of an EPT table to one entry of an NPT table

EPT_READ      == 0
EPT_WRITE     == 1
EPT_EXECUTE   == 2
EPT_PAGE_SIZE == 7
EPT_ADDR_MASK == Bits(12, 51)
eptMemType(eptEntry) == Shr(eptEntry, 3) \cap Bits(0, 2)

PT_PRESENT == 0
PT_RW      == 1
PT_US      == 2
PT_PWT     == 3
PT_PCD     == 4
PT_PS      == 7
PT_NX      == 63

\* Mutants: the no-execute bit is set for leaves only; the page size and the
\* memory type are carried for no entry.
NxOnLeafOnly(eptEntry, leaf) ==
  {PT_PRESENT, PT_US}
  \cup (eptEntry \cap EPT_ADDR_MASK)
  \cup {b \in {PT_RW} : EPT_WRITE \in eptEntry}
  \cup {b \in {PT_NX} : leaf /\ EPT_EXECUTE \notin eptEntry}
  \cup {b \in {PT_PS} : leaf /\ EPT_PAGE_SIZE \in eptEntry}
  \cup {b \in {PT_PWT, PT_PCD} : leaf /\ eptMemType(eptEntry) = {}}

LeafAsTable(eptEntry, leaf) ==
  {PT_PRESENT, PT_US}
  \cup (eptEntry \cap EPT_ADDR_MASK)
  \cup {b \in {PT_RW} : EPT_WRITE \in eptEntry}
  \cup {b \in {PT_NX} : EPT_EXECUTE \notin eptEntry}

presentEntry(eptEntry, leaf) ==
  {PT_PRESENT, PT_US}
  \cup (eptEntry \cap EPT_ADDR_MASK)
  \cup {b \in {PT_RW} : EPT_WRITE \in eptEntry}
  \cup {b \in {PT_NX} : EPT_EXECUTE \notin eptEntry}
  \cup {b \in {PT_PS} : leaf /\ EPT_PAGE_SIZE \in eptEntry}
  \cup {b \in {PT_PWT, PT_PCD} : leaf /\ eptMemType(eptEntry) = {}}

eptEntryToNpt(eptEntry, leaf) ==
  IF eptEntry \cap {EPT_READ, EPT_WRITE, EPT_EXECUTE} = {}
  THEN {}
  ELSE presentEntry(eptEntry, leaf)
==============================================================================
