-------------------------- MODULE VmxEmulator_proofs --------------------------
(***************************************************************************)
(* VmxEmulator for any segments, registers, instructions and values, any   *)
(* guest and any number of VMCS regions.                                   *)
(*                                                                         *)
(*   types        What the fields and the save area hold fits the fields   *)
(*                of a VMCS (Fitting, SaveAreaFits): each translation      *)
(*                makes one fit when the other does.                       *)
(*   consistency  Every translation of such fields passes VMRUN's checks   *)
(*                but that of the number of the ASID, which is the VMM's   *)
(*                VPID, and no step of a guest undoes it.                  *)
(*   disabled     Without the world switch no guest ever runs.             *)
(*   round trip   What goes to the VMCB comes back the same, segments      *)
(*                through two encodings of their attributes.               *)
(*   agreement    While the VMM loads one VMCS only and writes to no other *)
(*                (Only) the shadow - while a guest runs, what it will be  *)
(*                once the guest has exited (Held) - and the VMCS of an    *)
(*                Intel processor hold the same (Agrees).                  *)
(*   refinement   Whatever the VMM loads, the emulator is a machine with   *)
(*                one VMCS (VmxMachine), in which the guest's state is     *)
(*                what the manuals read in the save area: what an exit     *)
(*                brings back is that (ReturnedIsGuests).                  *)
(***************************************************************************)
EXTENDS VmxEmulator, WordTheorems, TLAPS

VmcbFields ==
  {"seg", "table", "reg", "intercept_1", "intercept_2", "intercept_exceptions",
   "np_enable", "nested_cr3", "guest_asid", "tlb_control", "eventinj",
   "exit_code", "exit_info_1", "nrip"}

Shaped(vmcb) == DOMAIN vmcb = VmcbFields /\ DOMAIN vmcb.reg = SavedRegs

------------------------------------------------------------------------------
(* What Fits says of each group of fields.                                 *)
LEMMA FitsByGroup ==
  /\ \A s, v : Fits(Selector(s), v) <=> v \subseteq Bits(0, 15)
  /\ \A s, v : Fits(Limit(s), v) <=> v \subseteq Bits(0, 31)
  /\ \A s, v : Fits(Base(s), v) <=> v \subseteq Bits(0, 63)
  /\ \A s, v : Fits(Access(s), v) <=>
       v \subseteq IF AR_UNUSABLE \in v THEN Bits(0, 63) ELSE Bits(0, 7) \cup Bits(12, 15)
  /\ \A r \in PlainRegs : \A v : Fits(Guest(r), v) <=> v \subseteq Bits(0, 63)
  /\ \A v : Fits(RIP, v) <=> v \in 0 .. MaxRip
  /\ \A v : Fits(EFER, v) <=> v \subseteq Bits(0, 63) \ {EFER_SVME}
  /\ \A t, v : Fits(TableLimit(t), v) <=> v \subseteq Bits(0, 31)
  /\ \A v : Fits(ENTRY_INTR_INFO, v) <=> v \subseteq Bits(0, 31) /\ Injectable(v)
  /\ \A v : (Fits(EXIT_REASON, v) <=> v \in Int) /\ (Fits(EXIT_INSTR_LEN, v) <=> v \in Int)
<1>1. \A s, v : Fits(Selector(s), v) <=> v \subseteq Bits(0, 15)
  BY DEF Selector, Fits, RIP, EFER, EXIT_REASON, EXIT_INSTR_LEN, ENTRY_INTR_INFO, Guest
<1>2. \A s, v : Fits(Limit(s), v) <=> v \subseteq Bits(0, 31)
  BY DEF Limit, Fits, RIP, EFER, EXIT_REASON, EXIT_INSTR_LEN, ENTRY_INTR_INFO, Guest
<1>3. \A s, v : Fits(Base(s), v) <=> v \subseteq Bits(0, 63)
  BY DEF Base, Fits, RIP, EFER, EXIT_REASON, EXIT_INSTR_LEN, ENTRY_INTR_INFO, Guest
<1>4. \A s, v : Fits(Access(s), v) <=>
       v \subseteq IF AR_UNUSABLE \in v THEN Bits(0, 63) ELSE Bits(0, 7) \cup Bits(12, 15)
  BY DEF Access, Fits, RIP, EFER, EXIT_REASON, EXIT_INSTR_LEN, ENTRY_INTR_INFO, Guest
<1>5. \A r \in PlainRegs : \A v : Fits(Guest(r), v) <=> v \subseteq Bits(0, 63)
  BY TranslateAssumption DEF Fits, RIP, EFER, EXIT_REASON, EXIT_INSTR_LEN, ENTRY_INTR_INFO, Guest
<1>6. \A v : Fits(RIP, v) <=> v \in 0 .. MaxRip
  BY DEF Fits, RIP, EFER, EXIT_REASON, EXIT_INSTR_LEN, ENTRY_INTR_INFO, Guest
<1>7. \A v : Fits(EFER, v) <=> v \subseteq Bits(0, 63) \ {EFER_SVME}
  BY DEF Fits, RIP, EFER, EXIT_REASON, EXIT_INSTR_LEN, ENTRY_INTR_INFO, Guest
<1>8. \A t, v : Fits(TableLimit(t), v) <=> v \subseteq Bits(0, 31)
  BY DEF TableLimit, Fits, RIP, EFER, EXIT_REASON, EXIT_INSTR_LEN, ENTRY_INTR_INFO, Guest
<1>9. \A v : (Fits(EXIT_REASON, v) <=> v \in Int) /\ (Fits(EXIT_INSTR_LEN, v) <=> v \in Int)
  BY DEF Fits, RIP, EFER, EXIT_REASON, EXIT_INSTR_LEN, ENTRY_INTR_INFO, Guest
<1>10. \A v : Fits(ENTRY_INTR_INFO, v) <=> v \subseteq Bits(0, 31) /\ Injectable(v)
  BY DEF Fits, RIP, EFER, EXIT_REASON, EXIT_INSTR_LEN, ENTRY_INTR_INFO, Guest
<1>11. QED
  BY <1>1, <1>2, <1>3, <1>4, <1>5, <1>6, <1>7, <1>8, <1>9, <1>10

------------------------------------------------------------------------------
\* What the two translations make of each field

Copied == SegEnc \cup ({"GUEST"} \X (PlainRegs \cup {"RIP", "EFER"}))

\* What an exit brings back of the save area in field e.
Returned(vmcb, e) ==
  IF e[1] = "GUEST" THEN registerField(vmcb, e[2]) ELSE segmentField(vmcb, e[1], e[2])

(* An exit writes the fields Copied from the save area and the two exit    *)
(* fields, and leaves all others.                                          *)
LEMMA ReturnFields ==
  ASSUME NEW vmcb, NEW vmcs, NEW nrips
  PROVE  LET back == translateVmcbToVmcs(vmcb, vmcs, nrips)
         IN  /\ DOMAIN back = Enc
             /\ \A e \in Copied : back[e] = Returned(vmcb, e)
             /\ back[EXIT_REASON] = svmExitToVmxReason(vmcb.exit_code, vmcb.exit_info_1)
             /\ back[EXIT_INSTR_LEN] = IF lengthKnown(vmcb, nrips)
                                       THEN vmcb.nrip - vmcb.reg["RIP"]
                                       ELSE vmcs[EXIT_INSTR_LEN]
             /\ \A e \in Enc \ (Copied \cup ExitEnc) : back[e] = vmcs[e]
<1> DEFINE back == translateVmcbToVmcs(vmcb, vmcs, nrips)
           Regs == {"GUEST"} \X (ReturnedRegs \cup {"EFER"})
<1>1. Copied = Regs \cup SegEnc /\ Copied \subseteq Enc /\ ExitEnc \subseteq Enc
  BY DEF Copied, ReturnedRegs, Enc, GuestEnc
<1>2. \A e \in Regs : e[1] = "GUEST" /\ e \notin SegEnc
  BY DEF SegEnc
<1>3. \A e \in SegEnc : e[1] # "GUEST"
  BY DEF SegEnc
<1>4. \A e \in ExitEnc : e \notin Copied
  BY <1>1 DEF ExitEnc, EXIT_REASON, EXIT_INSTR_LEN, SegEnc
<1>5. EXIT_REASON \in ExitEnc /\ EXIT_INSTR_LEN \in ExitEnc /\ EXIT_REASON # EXIT_INSTR_LEN
  BY DEF ExitEnc, EXIT_REASON, EXIT_INSTR_LEN
<1>6. DOMAIN back = Enc
  BY DEF translateVmcbToVmcs
<1>7. ASSUME NEW e \in Copied PROVE back[e] = Returned(vmcb, e)
  <2>0. e # EXIT_REASON /\ e # EXIT_INSTR_LEN
    BY <1>4, <1>5
  <2>1. CASE e \in Regs
    BY <1>1, <1>2, <2>0, <2>1 DEF translateVmcbToVmcs, Returned
  <2>2. CASE e \notin Regs
    BY <1>1, <1>3, <2>0, <2>2 DEF translateVmcbToVmcs, Returned
  <2>3. QED
    BY <2>1, <2>2
<1>8. back[EXIT_REASON] = svmExitToVmxReason(vmcb.exit_code, vmcb.exit_info_1)
  BY <1>1, <1>4, <1>5 DEF translateVmcbToVmcs
<1>9. back[EXIT_INSTR_LEN] = IF lengthKnown(vmcb, nrips)
                             THEN vmcb.nrip - vmcb.reg["RIP"]
                             ELSE vmcs[EXIT_INSTR_LEN]
  BY <1>1, <1>4, <1>5 DEF translateVmcbToVmcs
<1>10. ASSUME NEW e \in Enc \ (Copied \cup ExitEnc) PROVE back[e] = vmcs[e]
  BY <1>1, <1>5 DEF translateVmcbToVmcs
<1>11. QED
  BY <1>6, <1>7, <1>8, <1>9, <1>10

(* An entry replaces these parts of the VMCB and keeps the exit code.      *)
LEMMA EntryFields ==
  ASSUME NEW vmcb, NEW vmcs, NEW rax, Shaped(vmcb)
  PROVE  LET n == translateVmcsToVmcb(vmcs, vmcb, rax)
         IN  /\ DOMAIN n = VmcbFields
             /\ n.seg = segmentsToVmcb(vmcs) /\ n.table = tablesToVmcb(vmcs)
             /\ n.reg = registersToVmcb(vmcs, rax)
             /\ n.intercept_1 = intercept1(vmcs)
             /\ n.intercept_exceptions = Low(vmcs[EXCEPTION_BITMAP], 32)
             /\ n.np_enable = nestedPaging(vmcs)
             /\ n.guest_asid = guestAsid(vmcs)
             /\ n.exit_code = vmcb.exit_code /\ n.nrip = vmcb.nrip
  BY DEF Shaped, VmcbFields, translateVmcsToVmcb

(* Every register comes from its field, but RAX, which the caller carries. *)
LEMMA EntryRegisters ==
  ASSUME NEW vmcs, NEW rax
  PROVE  LET reg == registersToVmcb(vmcs, rax)
         IN  /\ DOMAIN reg = SavedRegs
             /\ reg["RAX"] = rax /\ reg["EFER"] = vmcs[EFER] \cup {EFER_SVME}
             /\ \A r \in PlainRegs \cup {"RIP", "PAT"} : reg[r] = vmcs[Guest(r)]
<1>1. \A r \in PlainRegs \cup {"RIP", "PAT"} : r \in SavedRegs /\ r # "RAX" /\ r # "EFER"
  BY TranslateAssumption DEF SavedRegs
<1>2. QED
  BY <1>1 DEF registersToVmcb, SavedRegs

(* The four parts of a segment at an entry.                                *)
LEMMA EntrySegments ==
  ASSUME NEW vmcs, NEW s \in Segs
  PROVE  LET seg == segmentsToVmcb(vmcs)[s]
         IN  /\ seg.selector = Low(vmcs[Selector(s)], 16)
             /\ seg.limit = Low(vmcs[Limit(s)], 32)
             /\ seg.base = vmcs[Base(s)]
             /\ seg.attrib = vmxArToSvmAttrib(Low(vmcs[Access(s)], 32))
             /\ DOMAIN seg = {"selector", "limit", "base", "attrib"}
  BY DEF segmentsToVmcb

------------------------------------------------------------------------------
\* What the fields and the save area can hold

Fitting(vmcs) == DOMAIN vmcs = Enc /\ \A e \in Enc : Fits(e, vmcs[e])

SegmentFits(seg, s) ==
  /\ Fits(Selector(s), seg.selector) /\ Fits(Limit(s), seg.limit)
  /\ Fits(Base(s), seg.base) /\ seg.attrib \subseteq Bits(0, 11)
  /\ DOMAIN seg = {"selector", "limit", "base", "attrib"}

\* What is in the save area fits the fields an exit puts it into.
SaveAreaFits(vmcb) ==
  /\ Shaped(vmcb) /\ DOMAIN vmcb.seg = Segs
  /\ \A s \in Segs : SegmentFits(vmcb.seg[s], s)
  /\ \A r \in PlainRegs \cup {"RIP"} : Fits(Guest(r), vmcb.reg[r])
  /\ vmcb.reg["EFER"] \subseteq Bits(0, 63)
  /\ vmcb.reg["RAX"] \in RaxValues \cup {{}}
  /\ vmcb.nrip \in Nat

(* The fields that come back are the parts of segments and the registers.  *)
LEMMA CopiedFields ==
  /\ Copied \subseteq Enc /\ ExitEnc \subseteq Enc /\ Copied \cap ExitEnc = {}
  /\ \A s \in Segs : {Selector(s), Limit(s), Base(s), Access(s)} \subseteq Copied
  /\ \A r \in PlainRegs \cup {"RIP", "EFER"} : Guest(r) \in Copied
  /\ \A e \in Copied :
       \/ \E s \in Segs : e \in {Selector(s), Limit(s), Base(s), Access(s)}
       \/ \E r \in PlainRegs \cup {"RIP", "EFER"} : e = Guest(r)
<1>1. Copied \subseteq Enc /\ ExitEnc \subseteq Enc
  BY DEF Copied, Enc, GuestEnc
<1>2. Copied \cap ExitEnc = {}
  BY DEF Copied, SegEnc, ExitEnc, EXIT_REASON, EXIT_INSTR_LEN
<1>3. \A s \in Segs : {Selector(s), Limit(s), Base(s), Access(s)} \subseteq Copied
  BY DEF Copied, SegEnc, Selector, Limit, Base, Access
<1>4. \A r \in PlainRegs \cup {"RIP", "EFER"} : Guest(r) \in Copied
  BY DEF Copied, Guest
<1>5. ASSUME NEW e \in Copied
      PROVE  \/ \E s \in Segs : e \in {Selector(s), Limit(s), Base(s), Access(s)}
             \/ \E r \in PlainRegs \cup {"RIP", "EFER"} : e = Guest(r)
  BY DEF Copied, SegEnc, Selector, Limit, Base, Access, Guest
<1>6. QED
  BY <1>1, <1>2, <1>3, <1>4, <1>5

\* The field e of each kind after an exit.
LEMMA ReturnedFields ==
  ASSUME NEW vmcb
  PROVE  /\ \A s \in Segs : /\ Returned(vmcb, Selector(s)) = vmcb.seg[s].selector
                            /\ Returned(vmcb, Limit(s)) = vmcb.seg[s].limit
                            /\ Returned(vmcb, Base(s)) = vmcb.seg[s].base
                            /\ Returned(vmcb, Access(s)) = svmAttribToVmxAr(vmcb.seg[s].attrib)
         /\ \A r \in PlainRegs \cup {"RIP"} : Returned(vmcb, Guest(r)) = vmcb.reg[r]
         /\ Returned(vmcb, EFER) = vmcb.reg["EFER"] \ {EFER_SVME}
<1>1. ASSUME NEW s \in Segs
      PROVE  /\ Returned(vmcb, Selector(s)) = vmcb.seg[s].selector
             /\ Returned(vmcb, Limit(s)) = vmcb.seg[s].limit
             /\ Returned(vmcb, Base(s)) = vmcb.seg[s].base
             /\ Returned(vmcb, Access(s)) = svmAttribToVmxAr(vmcb.seg[s].attrib)
  BY DEF Returned, segmentField, Selector, Limit, Base, Access
<1>2. ASSUME NEW r \in PlainRegs \cup {"RIP"}
      PROVE  Returned(vmcb, Guest(r)) = vmcb.reg[r]
  BY TranslateAssumption DEF Returned, registerField, Guest
<1>3. Returned(vmcb, EFER) = vmcb.reg["EFER"] \ {EFER_SVME}
  BY DEF Returned, registerField, EFER, Guest
<1>4. QED
  BY <1>1, <1>2, <1>3

(* Fields that fit make a save area that fits.                             *)
LEMMA EntryFits ==
  ASSUME NEW vmcs, Fitting(vmcs), NEW vmcb, Shaped(vmcb), vmcb.nrip \in Nat,
         NEW rax \in RaxValues \cup {{}}
  PROVE  SaveAreaFits(translateVmcsToVmcb(vmcs, vmcb, rax))
<1> DEFINE n == translateVmcsToVmcb(vmcs, vmcb, rax)
<1>1. /\ DOMAIN n = VmcbFields /\ n.seg = segmentsToVmcb(vmcs)
      /\ n.reg = registersToVmcb(vmcs, rax) /\ n.nrip = vmcb.nrip
  BY EntryFields
<1>2. DOMAIN n.reg = SavedRegs /\ n.reg["RAX"] = rax
      /\ n.reg["EFER"] = vmcs[EFER] \cup {EFER_SVME}
      /\ \A r \in PlainRegs \cup {"RIP"} : n.reg[r] = vmcs[Guest(r)]
  BY <1>1, EntryRegisters
<1> HIDE DEF n
<1>3. \A e \in Copied : Fits(e, vmcs[e])
  BY CopiedFields DEF Fitting
<1>4. ASSUME NEW s \in Segs PROVE SegmentFits(n.seg[s], s)
  <2>1. /\ n.seg[s].selector = Low(vmcs[Selector(s)], 16)
        /\ n.seg[s].limit = Low(vmcs[Limit(s)], 32)
        /\ n.seg[s].base = vmcs[Base(s)]
        /\ n.seg[s].attrib = vmxArToSvmAttrib(Low(vmcs[Access(s)], 32))
        /\ DOMAIN n.seg[s] = {"selector", "limit", "base", "attrib"}
    BY <1>1, EntrySegments
  <2>2. /\ vmcs[Selector(s)] \subseteq Bits(0, 15) /\ vmcs[Limit(s)] \subseteq Bits(0, 31)
        /\ Fits(Base(s), vmcs[Base(s)]) /\ Fits(Access(s), vmcs[Access(s)])
    BY <1>3, CopiedFields, FitsByGroup
  <2>3. Fits(Selector(s), n.seg[s].selector) /\ Fits(Limit(s), n.seg[s].limit)
    <3>1. n.seg[s].selector \subseteq Bits(0, 15) /\ n.seg[s].limit \subseteq Bits(0, 31)
      BY <2>1, <2>2 DEF Low
    <3>2. QED
      BY <3>1, FitsByGroup
  <2>4. n.seg[s].attrib \subseteq Bits(0, 11)
    <3>1. Low(vmcs[Access(s)], 32) \in SUBSET Nat
      BY <2>2, FitsByGroup DEF Low, Bits
    <3>2. QED
      BY <2>1, <3>1, SegmentWords
  <2>5. QED
    BY <2>1, <2>2, <2>3, <2>4 DEF SegmentFits
<1>5. \A r \in PlainRegs \cup {"RIP"} : Fits(Guest(r), n.reg[r])
  BY <1>2, <1>3, CopiedFields
<1>6. n.reg["EFER"] \subseteq Bits(0, 63)
  <2>1. vmcs[EFER] \subseteq Bits(0, 63)
    BY <1>3, CopiedFields, FitsByGroup DEF EFER
  <2>2. QED
    BY <1>2, <2>1 DEF EFER_SVME, Bits
<1>7. DOMAIN n.seg = Segs
  BY <1>1 DEF segmentsToVmcb
<1>8. QED
  BY <1>1, <1>2, <1>4, <1>5, <1>6, <1>7 DEF SaveAreaFits, Shaped, n

(* Every exit code has a reason.                                           *)
LEMMA ReasonsAreNumbers ==
  ASSUME NEW code, NEW info
  PROVE  svmExitToVmxReason(code, info) \in Int
  BY DEF svmExitToVmxReason, EXIT_EXCEPTION_NMI, EXIT_EXTERNAL_INTERRUPT,
         EXIT_CPUID, EXIT_HLT, EXIT_VMCALL, EXIT_IO_INSTRUCTION, EXIT_RDMSR,
         EXIT_WRMSR, EXIT_EPT_VIOLATION, EXIT_UNKNOWN

(* A save area that fits makes fields that fit.                            *)
LEMMA ExitFits ==
  ASSUME NEW vmcs, Fitting(vmcs), NEW vmcb, SaveAreaFits(vmcb)
  PROVE  Fitting(translateVmcbToVmcs(vmcb, vmcs, Nrips))
<1> DEFINE back == translateVmcbToVmcs(vmcb, vmcs, Nrips)
<1>1. /\ DOMAIN back = Enc
      /\ \A e \in Copied : back[e] = Returned(vmcb, e)
      /\ back[EXIT_REASON] = svmExitToVmxReason(vmcb.exit_code, vmcb.exit_info_1)
      /\ back[EXIT_INSTR_LEN] = IF lengthKnown(vmcb, Nrips)
                                THEN vmcb.nrip - vmcb.reg["RIP"]
                                ELSE vmcs[EXIT_INSTR_LEN]
      /\ \A e \in Enc \ (Copied \cup ExitEnc) : back[e] = vmcs[e]
  BY ReturnFields
<1> HIDE DEF back
<1>2. ASSUME NEW s \in Segs, NEW e \in {Selector(s), Limit(s), Base(s), Access(s)}
      PROVE  Fits(e, Returned(vmcb, e))
  <2>1. SegmentFits(vmcb.seg[s], s)
    BY DEF SaveAreaFits
  <2>2. Fits(Access(s), svmAttribToVmxAr(vmcb.seg[s].attrib))
    <3>1. vmcb.seg[s].attrib \in SUBSET Nat
      BY <2>1 DEF SegmentFits, Bits
    <3> DEFINE ar == svmAttribToVmxAr(vmcb.seg[s].attrib)
    <3>2. /\ AR_UNUSABLE \notin ar => ar \subseteq Bits(0, 7) \cup Bits(12, 15)
          /\ ar \subseteq Bits(0, 63)
      BY <3>1, SegmentWords
    <3> HIDE DEF ar
    <3>3. Fits(Access(s), ar)
      BY <3>2, FitsByGroup
    <3>4. QED
      BY <3>3 DEF ar
  <2>3. QED
    BY <2>1, <2>2, ReturnedFields DEF SegmentFits
<1>3. ASSUME NEW r \in PlainRegs \cup {"RIP", "EFER"}
      PROVE  Fits(Guest(r), Returned(vmcb, Guest(r)))
  <2>1. CASE r = "EFER"
    <3>1. Fits(EFER, vmcb.reg["EFER"] \ {EFER_SVME})
      BY FitsByGroup DEF SaveAreaFits
    <3>2. QED
      BY <2>1, <3>1, ReturnedFields DEF EFER
  <2>2. CASE r # "EFER"
    BY <2>2, ReturnedFields DEF SaveAreaFits
  <2>3. QED
    BY <2>1, <2>2
<1>4. \A e \in Copied : Fits(e, back[e])
  BY <1>1, <1>2, <1>3, CopiedFields
<1>5. Fits(EXIT_REASON, back[EXIT_REASON])
  BY <1>1, ReasonsAreNumbers, FitsByGroup
<1>6. Fits(EXIT_INSTR_LEN, back[EXIT_INSTR_LEN])
  <2>1. vmcs[EXIT_INSTR_LEN] \in Int
    BY CopiedFields, FitsByGroup DEF Fitting, ExitEnc
  <2>2. vmcb.reg["RIP"] \in Int /\ vmcb.nrip \in Int
    BY FitsByGroup, EmulatorAssumption DEF SaveAreaFits, RIP
  <2>3. back[EXIT_INSTR_LEN] \in Int
    BY <1>1, <2>1, <2>2
  <2>4. QED
    BY <2>3, FitsByGroup
<1>7. \A e \in Enc : e \in Copied \/ e \in {EXIT_REASON, EXIT_INSTR_LEN}
                      \/ e \in Enc \ (Copied \cup ExitEnc)
  BY DEF ExitEnc
<1>8. QED
  BY <1>1, <1>4, <1>5, <1>6, <1>7 DEF Fitting, back

------------------------------------------------------------------------------
\* Types

\* A step of the guest itself, as against its exit.
GuestMoves == Guests /\ ~ \E ev \in DOMAIN Event : exitGuest(ev)

DataTyped ==
  /\ Fitting(fVmcs) /\ SaveAreaFits(fVmcb)
  /\ fGuestRax \in RaxValues \cup {{}}

FrameTyped == frame.handled => frame.rip > 0 /\ frame.rflags \cap RFLAGS_STATUS_MASK = {}

ControlTyped ==
  /\ guestLaunch \in BOOLEAN /\ launched \in BOOLEAN
  /\ fVmxRoot \in BOOLEAN /\ bound \in BOOLEAN /\ strayed \in BOOLEAN
  /\ inflight \in {hs.len : hs \in Code} \cup {0}
  /\ current \in Region \cup {NoRegion}
  /\ Running => bound /\ current # NoRegion

TlbTyped == \A a \in SupportedAsids : tlb[a] \in {"empty", "fresh", "stale", "owed"}

Typed == DataTyped /\ FrameTyped /\ ControlTyped /\ TlbTyped

\* Every VMX instruction the decoder recognises has a length.
LEMMA RecognisedHasLength ==
  ASSUME NEW hs \in Code, NEW ops, "NONE" \notin ops, Trap(hs, ops)
  PROVE  hs.len \in Nat /\ hs.len > 0
<1>1. hs \in Hde /\ opcodeOf(hs) # "NONE"
  BY EmulatorAssumption DEF Trap, decodeVmx
<1>2. hs.len \in Nat
  BY <1>1 DEF Hde
<1>3. hs.len # 0
  BY <1>1 DEF opcodeOf
<1>4. QED
  BY <1>2, <1>3

(* An instruction that was handled advances RIP and clears the flags; one  *)
(* that was not leaves the frame to the host.                              *)
LEMMA ConsumedTyped ==
  ASSUME NEW length \in Nat, NEW data, length > 0, Consumed(length, data)
  PROVE  FrameTyped'
  BY DEF Consumed, FrameTyped

LEMMA ReRaisedTyped == ReRaised => FrameTyped'
  BY DEF ReRaised, FrameTyped

(* No handler claims an instruction without leaving the frame so.          *)
LEMMA HandleFrame ==
  ASSUME FrameTyped, NEW hs \in Code, handleUD(hs)
  PROVE  FrameTyped'
<1>1. CASE NotVmx(hs)
  BY <1>1, ReRaisedTyped DEF NotVmx
<1>2. CASE vmxonOrOff(hs)
  BY <1>2, RecognisedHasLength, ConsumedTyped DEF vmxonOrOff
<1>3. CASE \E r \in Region : vmptrld(hs, r) \/ vmclear(hs, r)
  BY <1>3, RecognisedHasLength, ConsumedTyped DEF vmptrld, vmclear
<1>4. CASE vmptrst(hs)
  BY <1>4, RecognisedHasLength, ConsumedTyped DEF vmptrst
<1>5. CASE \E w \in VmmWrites : vmwrite(hs, w[1], w[2])
  BY <1>5, RecognisedHasLength, ConsumedTyped DEF vmwrite
<1>6. CASE \E e \in VmmReads : vmread(hs, e)
  BY <1>6, RecognisedHasLength, ConsumedTyped DEF vmread
<1>7. CASE invalidate(hs)
  BY <1>7, RecognisedHasLength, ConsumedTyped DEF invalidate
<1>8. CASE launchUnbound(hs)
  BY <1>8, RecognisedHasLength, ConsumedTyped DEF launchUnbound, Launch
<1>9. CASE launchDisabled(hs)
  BY <1>9, RecognisedHasLength, ConsumedTyped DEF launchDisabled, Launch, finishLaunch
<1>10. CASE enterGuest(hs)
  BY <1>10 DEF enterGuest, FrameTyped
<1>11. QED
  BY <1>1, <1>2, <1>3, <1>4, <1>5, <1>6, <1>7, <1>8, <1>9, <1>10 DEF handleUD

(* The frame is left so by the exit of a guest as well.                    *)
LEMMA GuestFrame ==
  ASSUME FrameTyped, ControlTyped, Guests
  PROVE  FrameTyped'
<1>1. CASE ~ \E ev \in DOMAIN Event : exitGuest(ev)
  <2>1. frame' = frame
    BY <1>1 DEF Guests, GuestRuns, GuestLoadsRegister, GuestLoadsTable,
                GuestLoadsSegment, GuestStep, GuestSetsRax
  <2>2. QED
    BY <2>1 DEF FrameTyped
<1>2. CASE \E ev \in DOMAIN Event : exitGuest(ev)
  <2>1. inflight \in Nat /\ inflight > 0 /\ Consumed(inflight, {})
    <3>1. Running /\ Consumed(inflight, {})
      BY <1>2 DEF exitGuest, finishLaunch
    <3>2. \A hs \in Code : hs.len \in Nat
      BY EmulatorAssumption DEF Hde
    <3>3. inflight \in Nat
      BY <3>1, <3>2 DEF ControlTyped, Running
    <3>4. QED
      BY <3>1, <3>3 DEF Running
  <2>2. QED
    BY <2>1, ConsumedTyped
<1>3. QED
  BY <1>1, <1>2

(* The handlers run no guest unbound or without a current VMCS.            *)
LEMMA HandleControl ==
  ASSUME ControlTyped, NEW hs \in Code, handleUD(hs)
  PROVE  ControlTyped'
<1> USE DEF ControlTyped, Trap, Running, store, backend, reference
<1>1. CASE NotVmx(hs) \/ vmptrst(hs) \/ invalidate(hs)
  BY <1>1 DEF NotVmx, vmptrst, invalidate
<1>2. CASE vmxonOrOff(hs)
  BY <1>2 DEF vmxonOrOff
<1>3. CASE \E r \in Region : vmptrld(hs, r) \/ vmclear(hs, r)
  BY <1>3 DEF vmptrld, vmclear
<1>5. CASE \E w \in VmmWrites : vmwrite(hs, w[1], w[2])
  BY <1>5 DEF vmwrite
<1>6. CASE \E e \in VmmReads : vmread(hs, e)
  BY <1>6 DEF vmread
<1>8. CASE launchUnbound(hs)
  BY <1>8 DEF launchUnbound, Launch
<1>9. CASE launchDisabled(hs)
  BY <1>9 DEF launchDisabled, Launch, finishLaunch
<1>10. CASE enterGuest(hs)
  BY <1>10 DEF enterGuest, Launch
<1>11. QED
  BY <1>1, <1>2, <1>3, <1>5, <1>6, <1>8, <1>9, <1>10 DEF handleUD

(* Neither does a guest.                                                   *)
LEMMA GuestControl ==
  ASSUME ControlTyped, Guests
  PROVE  ControlTyped'
<1> USE DEF ControlTyped, Running, store
<1>1. CASE ~ \E ev \in DOMAIN Event : exitGuest(ev)
  BY <1>1 DEF Guests, GuestRuns, GuestLoadsRegister, GuestLoadsTable,
              GuestLoadsSegment, GuestStep, GuestSetsRax
<1>2. CASE \E ev \in DOMAIN Event : exitGuest(ev)
  BY <1>2 DEF exitGuest, finishLaunch
<1>3. QED
  BY <1>1, <1>2

(* Every entry of the TLB stays in one of its four states.                 *)
LEMMA TlbNext == TlbTyped /\ [Next]_vars => TlbTyped'
<1> SUFFICES ASSUME TlbTyped, [Next]_vars PROVE TlbTyped'
  OBVIOUS
<1> USE DEF TlbTyped
<1>1. CASE bind \/ UNCHANGED vars
  BY <1>1 DEF bind, vars
<1>2. CASE editEpt
  BY <1>2 DEF editEpt
<1>3. CASE Guests
  BY <1>3 DEF Guests, GuestRuns, GuestLoadsRegister, GuestLoadsTable,
              GuestLoadsSegment, GuestStep, GuestSetsRax, exitGuest
<1>4. ASSUME NEW hs \in Code, handleUD(hs) PROVE TlbTyped'
  <2>1. CASE invalidate(hs)
    BY <2>1 DEF invalidate
  <2>2. CASE enterGuest(hs)
    BY <2>2 DEF enterGuest
  <2>3. CASE ~ invalidate(hs) /\ ~ enterGuest(hs)
    BY <1>4, <2>3 DEF handleUD, NotVmx, vmxonOrOff, vmptrld, vmclear, vmptrst,
                      vmwrite, vmread, launchUnbound, launchDisabled
  <2>4. QED
    BY <2>1, <2>2, <2>3
<1>5. QED
  BY <1>1, <1>2, <1>3, <1>4 DEF Next

(* The page enable() prepares and a VMCS never written fit.                *)
LEMMA PreparedFits == SaveAreaFits(PreparedVmcb)
<1> DEFINE p == PreparedVmcb
<1>1. Shaped(p) /\ DOMAIN p.seg = Segs /\ p.nrip \in Nat
  BY DEF Shaped, PreparedVmcb, VmcbFields
<1>2. /\ \A s \in Segs : p.seg[s] = [selector |-> {}, limit |-> {}, base |-> {}, attrib |-> {}]
      /\ \A r \in SavedRegs : p.reg[r] = IF r = "RIP" THEN 0 ELSE {}
  BY DEF PreparedVmcb
<1> HIDE DEF p
<1>3. ASSUME NEW s \in Segs PROVE SegmentFits(p.seg[s], s)
  <2>1. Fits(Selector(s), {}) /\ Fits(Limit(s), {}) /\ Fits(Base(s), {})
    BY FitsByGroup
  <2> DEFINE empty == [selector |-> {}, limit |-> {}, base |-> {}, attrib |-> {}]
  <2>2. /\ empty.selector = {} /\ empty.limit = {} /\ empty.base = {} /\ empty.attrib = {}
        /\ DOMAIN empty = {"selector", "limit", "base", "attrib"}
    OBVIOUS
  <2>3. p.seg[s] = empty
    BY <1>2
  <2> HIDE DEF empty
  <2>4. QED
    BY <2>1, <2>2, <2>3 DEF SegmentFits
<1>4. ASSUME NEW r \in PlainRegs \cup {"RIP"} PROVE Fits(Guest(r), p.reg[r])
  <2>1. CASE r = "RIP"
    <3>1. Fits(RIP, 0)
      BY FitsByGroup, EmulatorAssumption
    <3>2. QED
      BY <1>2, <2>1, <3>1 DEF SavedRegs, RIP
  <2>2. CASE r # "RIP"
    <3>1. Fits(Guest(r), {})
      BY <2>2, FitsByGroup
    <3>2. QED
      BY <1>2, <2>2, <3>1 DEF SavedRegs
  <2>3. QED
    BY <2>1, <2>2
<1>5. p.reg["EFER"] = {} /\ p.reg["RAX"] = {}
  BY <1>2 DEF SavedRegs
<1>6. QED
  BY <1>1, <1>3, <1>4, <1>5 DEF SaveAreaFits, p

LEMMA UnwrittenFits == Fitting(Unwritten)
<1>1. ASSUME NEW e \in Enc PROVE Fits(e, Unwritten[e])
  <2>1. CASE e \in Numeric
    <3>1. Unwritten[e] = 0
      BY <2>1 DEF Unwritten
    <3>2. Fits(RIP, 0) /\ Fits(EXIT_REASON, 0) /\ Fits(EXIT_INSTR_LEN, 0)
      BY FitsByGroup, EmulatorAssumption
    <3>3. QED
      BY <2>1, <3>1, <3>2 DEF Numeric
  <2>2. CASE e \notin Numeric
    <3>1. Unwritten[e] = {}
      BY <2>2 DEF Unwritten
    <3>2. e # RIP /\ e # EXIT_REASON /\ e # EXIT_INSTR_LEN
      BY <2>2 DEF Numeric
    <3>3. Fits(e, {})
      BY <3>2 DEF Fits, Injectable
    <3>4. QED
      BY <3>1, <3>3
  <2>3. QED
    BY <2>1, <2>2
<1>2. QED
  BY <1>1 DEF Fitting, Unwritten

(* The initial data are typed.                                             *)
LEMMA InitData == Init => DataTyped
  BY PreparedFits, UnwrittenFits DEF Init, DataTyped

\* What the guest itself changes of its save area fits as well.
LEMMA GuestFits ==
  ASSUME SaveAreaFits(fVmcb), GuestMoves
  PROVE  SaveAreaFits(fVmcb')
<1> USE DEF Shaped, VmcbFields
<1>1. CASE GuestRuns
  <2> DEFINE rip == fVmcb.reg["RIP"] + 1
  <2>1. fVmcb' = [fVmcb EXCEPT !.reg["RIP"] = rip] /\ rip <= MaxRip
    BY <1>1 DEF GuestRuns, GuestStep
  <2>2. fVmcb.reg["RIP"] \in 0 .. MaxRip
    BY FitsByGroup DEF SaveAreaFits, RIP
  <2>3. Fits(RIP, rip)
    BY <2>1, <2>2, FitsByGroup, EmulatorAssumption
  <2> HIDE DEF rip
  <2>4. \A r \in PlainRegs \cup {"EFER", "RAX"} : r # "RIP"
    BY TranslateAssumption
  <2>5. QED
    BY <2>1, <2>3, <2>4 DEF SaveAreaFits, SavedRegs, RIP
<1>2. CASE \E w \in GuestWrites : GuestLoadsRegister(w[1], w[2])
  <2>1. PICK w \in GuestWrites : GuestLoadsRegister(w[1], w[2])
    BY <1>2
  <2>2. w[1] \in PlainRegs \cup {"EFER"} /\ Fits(Guest(w[1]), w[2])
    BY GuestAssumption
  <2> DEFINE image == IF w[1] = "EFER" THEN w[2] \cup {EFER_SVME} ELSE w[2]
  <2>3. fVmcb' = [fVmcb EXCEPT !.reg[w[1]] = image]
    BY <2>1 DEF GuestLoadsRegister, GuestStep
  <2>4. w[1] = "EFER" => image \subseteq Bits(0, 63)
    BY <2>2, FitsByGroup DEF EFER, EFER_SVME, Bits
  <2>5. w[1] # "EFER" => Fits(Guest(w[1]), image)
    BY <2>2
  <2>6. "RAX" # w[1] /\ "EFER" \notin PlainRegs \cup {"RIP"}
    BY <2>2, TranslateAssumption
  <2> HIDE DEF image
  <2>7. QED
    BY <2>2, <2>3, <2>4, <2>5, <2>6 DEF SaveAreaFits, SavedRegs
<1>3. CASE \E w \in GuestTables : GuestLoadsTable(w[1], w[2])
  BY <1>3 DEF GuestLoadsTable, GuestStep, SaveAreaFits
<1>4. CASE \E s \in Segs, d \in Descriptors : GuestLoadsSegment(s, d)
  <2>1. PICK s \in Segs, d \in Descriptors : GuestLoadsSegment(s, d)
    BY <1>4
  <2>2. fVmcb' = [fVmcb EXCEPT !.seg[s].attrib = d.attrib]
    BY <2>1 DEF GuestLoadsSegment, GuestStep
  <2>3. d.attrib \subseteq Bits(0, 11)
    BY GuestAssumption
  <2>4. ASSUME NEW q \in Segs PROVE SegmentFits(fVmcb'.seg[q], q)
    BY <2>2, <2>3 DEF SaveAreaFits, SegmentFits
  <2>5. QED
    BY <2>2, <2>4 DEF SaveAreaFits
<1>5. CASE \E v \in RaxValues : GuestSetsRax(v)
  <2>1. PICK v \in RaxValues : GuestSetsRax(v)
    BY <1>5
  <2>2. fVmcb' = [fVmcb EXCEPT !.reg["RAX"] = v]
    BY <2>1 DEF GuestSetsRax
  <2>3. "RAX" \notin PlainRegs \cup {"RIP", "EFER"} /\ "RAX" \in SavedRegs
    BY TranslateAssumption DEF SavedRegs
  <2>4. QED
    BY <2>2, <2>3 DEF SaveAreaFits
<1>6. QED
  BY <1>1, <1>2, <1>3, <1>4, <1>5 DEF GuestMoves, Guests

(* What an exit stores fits, the length of the instruction included.       *)
LEMMA ExitDataFits ==
  ASSUME DataTyped, NEW ev \in DOMAIN Event, exitGuest(ev)
  PROVE  DataTyped'
<1> DEFINE length == Event[ev].length
           nrip   == IF Nrips /\ length > 0 THEN fVmcb.reg["RIP"] + length ELSE 0
<1>1. /\ fVmcb' = [fVmcb EXCEPT !.exit_code = Event[ev].code, !.nrip = nrip,
                                !.eventinj = {}]
      /\ fVmcs' = translateVmcbToVmcs(fVmcb', fVmcs, Nrips)
      /\ fGuestRax' = fVmcb'.reg["RAX"]
  BY DEF exitGuest, finishLaunch
<1>2. nrip \in Nat
  <2>1. length \in Nat
    BY DEF Event, Cause
  <2>2. fVmcb.reg["RIP"] \in Nat
    BY FitsByGroup, EmulatorAssumption DEF DataTyped, SaveAreaFits, RIP
  <2> HIDE DEF length
  <2>3. QED
    BY <2>1, <2>2
<1> HIDE DEF nrip
<1>3. SaveAreaFits(fVmcb')
  BY <1>1, <1>2 DEF DataTyped, SaveAreaFits, Shaped, VmcbFields
<1>4. Fitting(fVmcs')
  BY <1>1, <1>3, ExitFits DEF DataTyped
<1>5. QED
  BY <1>1, <1>3, <1>4 DEF DataTyped, SaveAreaFits

(* No step of a guest, nor its exit, breaks the types of the data.         *)
LEMMA GuestData ==
  ASSUME DataTyped, Guests
  PROVE  DataTyped'
<1>1. CASE \E ev \in DOMAIN Event : exitGuest(ev)
  BY <1>1, ExitDataFits
<1>2. CASE GuestMoves
  <2>1. UNCHANGED <<fVmcs, fGuestRax>>
    BY <1>2 DEF GuestMoves, Guests, GuestRuns, GuestLoadsRegister, GuestLoadsTable,
                GuestLoadsSegment, GuestStep, GuestSetsRax, store
  <2>2. SaveAreaFits(fVmcb')
    BY <1>2, GuestFits DEF DataTyped
  <2>3. QED
    BY <2>1, <2>2 DEF DataTyped, Fitting
<1>3. QED
  BY <1>1, <1>2 DEF GuestMoves

(* Nor do steps that leave the data alone,                                 *)
LEMMA QuietData ==
  ASSUME DataTyped, UNCHANGED <<fVmcs, fVmcb, fGuestRax>>
  PROVE  DataTyped'
  BY DEF DataTyped, Fitting, SaveAreaFits, Shaped

(* nor those of the handlers.                                              *)
LEMMA HandleData ==
  ASSUME DataTyped, NEW hs \in Code, handleUD(hs)
  PROVE  DataTyped'
<1>1. CASE \E w \in VmmWrites : vmwrite(hs, w[1], w[2])
  <2>1. PICK w \in VmmWrites : vmwrite(hs, w[1], w[2])
    BY <1>1
  <2>2. /\ fVmcs' = [fVmcs EXCEPT ![w[1]] = w[2]]
        /\ UNCHANGED <<fVmcb, fGuestRax>>
    BY <2>1 DEF vmwrite, backend
  <2>3. w[1] \in Enc /\ Fits(w[1], w[2])
    BY EmulatorAssumption
  <2>4. Fitting(fVmcs')
    BY <2>2, <2>3 DEF DataTyped, Fitting
  <2>5. QED
    BY <2>2, <2>4 DEF DataTyped, SaveAreaFits, Shaped
<1>2. CASE launchDisabled(hs)
  <2> DEFINE n == translateVmcsToVmcb(fVmcs, fVmcb, fGuestRax)
  <2>1. SaveAreaFits(n)
    BY EntryFits DEF DataTyped, SaveAreaFits
  <2> HIDE DEF n
  <2>2. /\ fVmcb' = [n EXCEPT !.exit_code = VMEXIT_INVALID]
        /\ fVmcs' = translateVmcbToVmcs(fVmcb', fVmcs, Nrips)
        /\ fGuestRax' = fVmcb'.reg["RAX"]
    BY <1>2 DEF launchDisabled, finishLaunch, n
  <2>3. SaveAreaFits(fVmcb')
    BY <2>1, <2>2 DEF SaveAreaFits, Shaped, VmcbFields
  <2>4. Fitting(fVmcs')
    BY <2>2, <2>3, ExitFits DEF DataTyped
  <2>5. QED
    BY <2>2, <2>3, <2>4 DEF DataTyped, SaveAreaFits
<1>3. CASE enterGuest(hs)
  <2>1. /\ fVmcb' = translateVmcsToVmcb(fVmcs, fVmcb, fGuestRax)
        /\ UNCHANGED <<fVmcs, fGuestRax>>
    BY <1>3 DEF enterGuest, store
  <2>2. SaveAreaFits(fVmcb')
    BY <2>1, EntryFits DEF DataTyped, SaveAreaFits
  <2>3. QED
    BY <2>1, <2>2 DEF DataTyped, Fitting
<1>4. CASE ~ (\/ \E w \in VmmWrites : vmwrite(hs, w[1], w[2])
              \/ launchDisabled(hs) \/ enterGuest(hs))
  <2>1. UNCHANGED <<fVmcs, fVmcb, fGuestRax>>
    BY <1>4 DEF handleUD, NotVmx, vmxonOrOff, vmptrld, vmclear, vmptrst, vmread,
                invalidate, launchUnbound, store, backend
  <2>2. QED
    BY <2>1, QuietData
<1>5. QED
  BY <1>1, <1>2, <1>3, <1>4

(* The types are inductive.                                                *)
LEMMA NextTyped ==
  ASSUME Typed, [Next]_vars
  PROVE  Typed'
<1> SUFFICES DataTyped' /\ FrameTyped' /\ ControlTyped'
  BY TlbNext DEF Typed
<1>0. DataTyped /\ FrameTyped /\ ControlTyped
  BY DEF Typed
<1>1. CASE bind
  <2>1. DataTyped'
    BY <1>0, <1>1, PreparedFits DEF bind, store, DataTyped, Fitting
  <2>2. QED
    BY <1>0, <1>1, <2>1 DEF bind, store, reference, FrameTyped, ControlTyped, Running
<1>2. CASE editEpt \/ UNCHANGED vars
  <2>1. DataTyped'
    BY <1>0, <1>2, QuietData DEF editEpt, vars, store, backend
  <2>2. QED
    BY <1>0, <1>2, <2>1 DEF editEpt, vars, store, backend, reference, FrameTyped,
                      ControlTyped, Running
<1>3. CASE Guests
  BY <1>0, <1>3, GuestData, GuestFrame, GuestControl
<1>4. CASE \E hs \in Code : handleUD(hs)
  BY <1>0, <1>4, HandleData, HandleFrame, HandleControl
<1>5. QED
  BY <1>1, <1>2, <1>3, <1>4 DEF Next

(* They hold initially,                                                    *)
LEMMA InitTyped == Init => Typed
<1> SUFFICES ASSUME Init PROVE FrameTyped /\ ControlTyped /\ TlbTyped
  BY InitData DEF Typed
<1>1. FrameTyped /\ TlbTyped
  BY DEF Init, FrameTyped, TlbTyped
<1>2. ControlTyped
  BY EmulatorAssumption DEF Init, ControlTyped, Running
<1>3. QED
  BY <1>1, <1>2

\* Every field is a number or a word, as its name says.
LEMMA FieldsTyped ==
  ASSUME NEW e \in Enc, NEW v, Fits(e, v)
  PROVE  IF e \in Numeric THEN v \in Int ELSE v \subseteq Bits(0, 63)
<1>1. CASE e \in Numeric
  <2>1. v \in Int
    BY <1>1, FitsByGroup, EmulatorAssumption DEF Numeric
  <2>2. QED
    BY <1>1, <2>1
<1>2. CASE e \notin Numeric
  <2>1. e # RIP /\ e \notin {EXIT_REASON, EXIT_INSTR_LEN}
    BY <1>2 DEF Numeric
  <2>2. \/ v \subseteq Bits(0, 15) \/ v \subseteq Bits(0, 31) \/ v \subseteq Bits(0, 63)
        \/ v \subseteq Bits(0, 7) \cup Bits(12, 15)
    BY <2>1, FitsByGroup DEF Fits
  <2>3. v \subseteq Bits(0, 63)
    BY <2>2 DEF Bits
  <2>4. QED
    BY <1>2, <2>3
<1>3. QED
  BY <1>1, <1>2

(* The types imply the type invariant.                                     *)
LEMMA TypedIsTypeOK ==
  ASSUME Typed
  PROVE  TypeOK
<1> USE DEF Typed
<1>1. DOMAIN fVmcs = Enc
      /\ \A e \in Enc : IF e \in Numeric THEN fVmcs[e] \in Int ELSE fVmcs[e] \subseteq Bits(0, 63)
  BY FieldsTyped DEF DataTyped, Fitting
<1>2. {guestLaunch, launched, fVmxRoot, bound, strayed} \subseteq BOOLEAN
  BY DEF ControlTyped
<1>3. DOMAIN fVmcb = DOMAIN PreparedVmcb
  BY DEF DataTyped, SaveAreaFits, Shaped, VmcbFields, PreparedVmcb
<1>4. \A s \in Segs : fVmcb.seg[s].attrib \subseteq Bits(0, 11)
  BY DEF DataTyped, SaveAreaFits, SegmentFits
<1>5. fVmcb.reg["RIP"] \in 0 .. MaxRip
  BY FitsByGroup DEF DataTyped, SaveAreaFits, RIP
<1>6. fGuestRax \in RaxValues \cup {{}}
  BY DEF DataTyped
<1>7. QED
  BY <1>1, <1>2, <1>3, <1>4, <1>5, <1>6 DEF TypeOK, FrameTyped, ControlTyped, TlbTyped

(* Fields, VMCB and trap frame keep their types; the guest's RIP stays in  *)
(* its bound, attributes keep their 12 bits, and no guest runs unbound.    *)
THEOREM TypeOKHolds == Spec => []TypeOK
  BY InitTyped, NextTyped, TypedIsTypeOK, PTL DEF Spec

------------------------------------------------------------------------------
\* Which steps begin a run of a guest, which end it and which are the guest's

LEMMA Boundaries ==
  ASSUME ControlTyped, [Next]_vars
  PROVE  /\ ~ Running /\ Running' => \E hs \in Code : enterGuest(hs)
         /\ Running /\ ~ Running' => \E ev \in DOMAIN Event : exitGuest(ev)
         /\ Running /\ Running' => GuestMoves \/ UNCHANGED vars
<1> USE DEF Running, store, backend, reference
<1>1. CASE bind \/ editEpt
  BY <1>1 DEF bind, editEpt, ControlTyped
<1>2. CASE Guests
  <2>1. CASE \E ev \in DOMAIN Event : exitGuest(ev)
    BY <2>1 DEF exitGuest
  <2>2. CASE GuestMoves
    <3>1. Running /\ Running'
      BY <2>2 DEF GuestMoves, Guests, GuestRuns, GuestLoadsRegister,
                  GuestLoadsTable, GuestLoadsSegment, GuestStep, GuestSetsRax
    <3>2. QED
      BY <2>2, <3>1
  <2>3. QED
    BY <1>2, <2>1, <2>2 DEF GuestMoves
<1>3. ASSUME NEW hs \in Code, handleUD(hs)
      PROVE  ~ Running /\ (Running' => enterGuest(hs))
  BY <1>3 DEF handleUD, NotVmx, vmxonOrOff, vmptrld, vmclear, vmptrst, vmwrite,
              vmread, invalidate, launchUnbound, launchDisabled, enterGuest,
              Launch, Trap
<1>4. CASE UNCHANGED vars
  BY <1>4 DEF vars
<1>5. QED
  BY <1>1, <1>2, <1>3, <1>4 DEF Next

------------------------------------------------------------------------------
\* Every VMRUN passes the processor's checks

\* What VMRUN checks, of a given VMCB.
Checked(vmcb) ==
  /\ EFER_SVME \in vmcb.reg["EFER"]
  /\ INTERCEPT2_VMRUN \in vmcb.intercept_2
  /\ vmcb.guest_asid # {}
  /\ LegalInjection(vmcb.eventinj)

(* The two fields the injected event comes from are words, the first the   *)
(* event VM entry would take.                                              *)
LEMMA EventFieldsAreWords ==
  ASSUME NEW vmcs, Fitting(vmcs)
  PROVE  /\ vmcs[ENTRY_INTR_INFO] \in SUBSET Bits(0, 31)
         /\ Injectable(vmcs[ENTRY_INTR_INFO])
         /\ vmcs[ENTRY_ERROR] \in SUBSET Nat
<1>1. ENTRY_INTR_INFO \in Enc /\ ENTRY_ERROR \in Enc
  BY DEF Enc, ControlEnc
<1>2. Fits(ENTRY_INTR_INFO, vmcs[ENTRY_INTR_INFO]) /\ Fits(ENTRY_ERROR, vmcs[ENTRY_ERROR])
  BY <1>1 DEF Fitting
<1>3. /\ ENTRY_ERROR[1] = "CONTROL" /\ ENTRY_ERROR \notin {RIP, EFER}
      /\ ENTRY_ERROR \notin {EXIT_REASON, EXIT_INSTR_LEN, ENTRY_INTR_INFO}
  BY DEF ENTRY_ERROR, ENTRY_INTR_INFO, EXIT_REASON, EXIT_INSTR_LEN, RIP, EFER, Guest
<1>4. vmcs[ENTRY_ERROR] \subseteq Bits(0, 63)
  BY <1>2, <1>3 DEF Fits
<1>5. QED
  BY <1>2, <1>4, FitsByGroup DEF Bits

(* The translation of any VMCS passes VMRUN's checks.                      *)
LEMMA TranslationChecked ==
  ASSUME NEW vmcb, NEW vmcs, NEW rax, Shaped(vmcb), Fitting(vmcs)
  PROVE  Checked(translateVmcsToVmcb(vmcs, vmcb, rax))
<1> DEFINE n    == translateVmcsToVmcb(vmcs, vmcb, rax)
           info == vmcs[ENTRY_INTR_INFO]
           inj  == eventInjection(Low(info, 32), vmcs[ENTRY_ERROR])
<1>1. /\ n.reg = registersToVmcb(vmcs, rax)
      /\ n.intercept_2 = {INTERCEPT2_VMRUN}
      /\ n.guest_asid = guestAsid(vmcs)
      /\ n.eventinj = inj
  BY DEF Shaped, VmcbFields, translateVmcsToVmcb
<1>2. EFER_SVME \in registersToVmcb(vmcs, rax)["EFER"]
  BY EntryRegisters
<1>3. guestAsid(vmcs) # {}
  BY DEF guestAsid
<1>4. LegalInjection(inj)
  <2>1. /\ info \in SUBSET Bits(0, 31) /\ Injectable(info)
        /\ vmcs[ENTRY_ERROR] \in SUBSET Nat
    BY EventFieldsAreWords
  <2> HIDE DEF info
  <2>2. Low(info, 32) = info
    <3>1. \A b \in Bits(0, 31) : b < 32
      BY DEF Bits
    <3>2. QED
      BY <2>1, <3>1 DEF Low
  <2>3. QED
    BY <2>1, <2>2, EventsLegal
<1> HIDE DEF n, inj
<1>5. QED
  BY <1>1, <1>2, <1>3, <1>4 DEF Checked, n

(* What a guest does to its own registers cannot make the VMCB fail: the   *)
(* processor keeps SVME in the EFER it runs with.                          *)
LEMMA GuestStaysChecked ==
  ASSUME Shaped(fVmcb), GuestMoves
  PROVE  Checked(fVmcb')
<1> USE DEF Shaped, VmcbFields, GuestStep
<1>1. Checked(fVmcb)
  BY DEF GuestMoves, Guests, GuestRuns, GuestLoadsRegister, GuestLoadsTable,
         GuestLoadsSegment, GuestSetsRax, Accepted, Consistent, Checked
<1>2. SUFFICES /\ fVmcb'.intercept_2 = fVmcb.intercept_2
               /\ fVmcb'.guest_asid = fVmcb.guest_asid
               /\ fVmcb'.eventinj = fVmcb.eventinj
               /\ EFER_SVME \in fVmcb'.reg["EFER"]
  BY <1>1 DEF Checked
<1>3. EFER_SVME \in fVmcb.reg["EFER"] /\ "EFER" \in SavedRegs
  BY <1>1 DEF Checked, SavedRegs
<1>4. CASE GuestRuns
  BY <1>3, <1>4 DEF GuestRuns
<1>5. CASE \E w \in GuestWrites : GuestLoadsRegister(w[1], w[2])
  BY <1>3, <1>5 DEF GuestLoadsRegister
<1>6. CASE \E w \in GuestTables : GuestLoadsTable(w[1], w[2])
  BY <1>3, <1>6 DEF GuestLoadsTable
<1>7. CASE \E s \in Segs, d \in Descriptors : GuestLoadsSegment(s, d)
  BY <1>3, <1>7 DEF GuestLoadsSegment
<1>8. CASE \E v \in RaxValues : GuestSetsRax(v)
  BY <1>3, <1>8 DEF GuestSetsRax
<1>9. QED
  BY <1>4, <1>5, <1>6, <1>7, <1>8 DEF GuestMoves, Guests

\* What the VMM writes and the guest does leaves VMRUN nothing to refuse but
\* the number of the ASID.
AlwaysConsistent == Running => Consistent

(* A VMCB that passes the checks at the entry passes them until the exit.  *)
LEMMA NextConsistent ==
  ASSUME DataTyped, ControlTyped, AlwaysConsistent, [Next]_vars
  PROVE  AlwaysConsistent'
<1> SUFFICES ASSUME Running' PROVE Consistent'
  BY DEF AlwaysConsistent
<1>1. Shaped(fVmcb) /\ Fitting(fVmcs)
  BY DEF DataTyped, SaveAreaFits
<1>2. CASE ~ Running
  <2>1. PICK hs \in Code : enterGuest(hs)
    BY <1>2, Boundaries
  <2>2. fVmcb' = translateVmcsToVmcb(fVmcs, fVmcb, fGuestRax)
    BY <2>1 DEF enterGuest
  <2>3. Checked(fVmcb')
    BY <1>1, <2>2, TranslationChecked
  <2>4. QED
    BY <2>3 DEF Checked, Consistent
<1>3. CASE Running
  <2>1. CASE GuestMoves
    <3>1. Checked(fVmcb')
      BY <1>1, <2>1, GuestStaysChecked
    <3>2. QED
      BY <3>1 DEF Checked, Consistent
  <2>2. CASE UNCHANGED vars
    BY <1>3, <2>2 DEF vars, backend, AlwaysConsistent, Consistent
  <2>3. QED
    BY <1>3, <2>1, <2>2, Boundaries
<1>4. QED
  BY <1>2, <1>3

------------------------------------------------------------------------------
\* The world switch compiled out

NoGuestRuns == ~ guestLaunch => ~ Running

(* An exit code of VMEXIT_INVALID reads back as an unknown reason.         *)
LEMMA InvalidIsUnknown ==
  ASSUME NEW vmcb, NEW vmcs, NEW nrips, vmcb.exit_code = VMEXIT_INVALID
  PROVE  translateVmcbToVmcs(vmcb, vmcs, nrips)[EXIT_REASON] = EXIT_UNKNOWN
<1>1. svmExitToVmxReason(VMEXIT_INVALID, vmcb.exit_info_1) = EXIT_UNKNOWN
  BY DEF svmExitToVmxReason, VMEXIT_INVALID, VMEXIT_CPUID, VMEXIT_HLT,
         VMEXIT_VMMCALL, VMEXIT_IOIO, VMEXIT_MSR, VMEXIT_INTR, VMEXIT_NPF,
         VMEXIT_EXCP_BASE, VMEXIT_EXCP_LAST, VMEXIT_NMI
<1>2. QED
  BY <1>1, ReturnFields

(* No step changes how the kext was built.                                 *)
LEMMA BuildFixed == [Next]_vars => UNCHANGED guestLaunch
<1> USE DEF store, backend, reference
<1>1. CASE bind \/ editEpt \/ UNCHANGED vars
  BY <1>1 DEF bind, editEpt, vars
<1>2. CASE Guests
  BY <1>2 DEF Guests, GuestRuns, GuestLoadsRegister, GuestLoadsTable,
              GuestLoadsSegment, GuestStep, GuestSetsRax, exitGuest, finishLaunch
<1>3. ASSUME NEW hs \in Code, handleUD(hs) PROVE UNCHANGED guestLaunch
  BY <1>3 DEF handleUD, NotVmx, vmxonOrOff, vmptrld, vmclear, vmptrst, vmwrite,
              vmread, invalidate, launchUnbound, launchDisabled, enterGuest,
              finishLaunch
<1>4. QED
  BY <1>1, <1>2, <1>3 DEF Next

(* Without the world switch no step starts a guest, and none but a launch  *)
(* writes the exit reason.                                                 *)
LEMMA DisabledNext ==
  ASSUME DataTyped, NoGuestRuns, DisabledLaunchVisible, [Next]_vars
  PROVE  NoGuestRuns' /\ DisabledLaunchVisible'
<1> SUFFICES ASSUME ~ guestLaunch
             PROVE  ~ Running' /\ (launched' => fVmcs'[EXIT_REASON] = EXIT_UNKNOWN)
  BY BuildFixed DEF NoGuestRuns, DisabledLaunchVisible
<1>1. ~ Running /\ (launched => fVmcs[EXIT_REASON] = EXIT_UNKNOWN)
  BY DEF NoGuestRuns, DisabledLaunchVisible
<1> USE DEF store, backend, reference, Running
<1>2. CASE bind \/ editEpt \/ UNCHANGED vars
  BY <1>1, <1>2 DEF bind, editEpt, vars
<1>3. CASE Guests
  BY <1>1, <1>3 DEF Guests, GuestRuns, GuestLoadsRegister, GuestLoadsTable,
                    GuestLoadsSegment, GuestStep, GuestSetsRax, exitGuest
<1>4. ASSUME NEW hs \in Code, handleUD(hs)
      PROVE  ~ Running' /\ (launched' => fVmcs'[EXIT_REASON] = EXIT_UNKNOWN)
  <2>1. CASE NotVmx(hs) \/ vmxonOrOff(hs) \/ vmptrst(hs) \/ invalidate(hs)
    BY <1>1, <2>1 DEF NotVmx, vmxonOrOff, vmptrst, invalidate
  <2>2. CASE \E r \in Region : vmptrld(hs, r) \/ vmclear(hs, r)
    BY <1>1, <2>2 DEF vmptrld, vmclear
  <2>3. CASE \E w \in VmmWrites : vmwrite(hs, w[1], w[2])
    <3>1. PICK w \in VmmWrites : vmwrite(hs, w[1], w[2])
      BY <2>3
    <3>2. w[1] # EXIT_REASON
      BY EmulatorAssumption DEF ExitEnc
    <3>3. fVmcs'[EXIT_REASON] = fVmcs[EXIT_REASON]
      BY <3>1, <3>2 DEF vmwrite, DataTyped, Fitting
    <3>4. QED
      BY <1>1, <3>1, <3>3 DEF vmwrite
  <2>4. CASE \E e \in VmmReads : vmread(hs, e)
    BY <1>1, <2>4 DEF vmread
  <2>5. CASE launchUnbound(hs)
    BY <1>1, <2>5 DEF launchUnbound
  <2>6. CASE launchDisabled(hs)
    <3> DEFINE n == translateVmcsToVmcb(fVmcs, fVmcb, fGuestRax)
    <3>1. DOMAIN n = VmcbFields
      BY EntryFields DEF DataTyped, SaveAreaFits
    <3> HIDE DEF n
    <3>2. /\ fVmcb' = [n EXCEPT !.exit_code = VMEXIT_INVALID]
          /\ fVmcs' = translateVmcbToVmcs(fVmcb', fVmcs, Nrips)
          /\ UNCHANGED inflight
      BY <2>6 DEF launchDisabled, finishLaunch, n
    <3>3. fVmcb'.exit_code = VMEXIT_INVALID
      BY <3>1, <3>2 DEF VmcbFields
    <3>4. QED
      BY <1>1, <3>2, <3>3, InvalidIsUnknown
  <2>7. ~ enterGuest(hs)
    BY DEF enterGuest
  <2>8. QED
    BY <1>4, <2>1, <2>2, <2>3, <2>4, <2>5, <2>6, <2>7 DEF handleUD
<1>5. QED
  BY <1>2, <1>3, <1>4 DEF Next

(* With the world switch compiled out a VMM that launched reads an unknown *)
(* exit reason, and no other, until it loads or clears a VMCS.             *)
THEOREM DisabledLaunchVisibleHolds == Spec => []DisabledLaunchVisible
<1>1. Init => NoGuestRuns /\ DisabledLaunchVisible
  BY DEF Init, NoGuestRuns, DisabledLaunchVisible, Running
<1>2. Typed /\ NoGuestRuns /\ DisabledLaunchVisible /\ [Next]_vars
        => NoGuestRuns' /\ DisabledLaunchVisible'
  BY DisabledNext DEF Typed
<1>3. QED
  BY <1>1, <1>2, InitTyped, NextTyped, PTL DEF Spec

------------------------------------------------------------------------------
\* A field that went to the VMCB and back

\* Every usable segment is present.
Launchable(vmcs) == \A s \in Segs : vmcs[Access(s)] \cap {ATTRIB_P, AR_UNUSABLE} # {}

(* Two agreements make a third.                                            *)
LEMMA SameValueTransitive ==
  ASSUME NEW e, NEW x, NEW y, NEW z, SameValue(e, x, y), SameValue(e, y, z)
  PROVE  SameValue(e, x, z)
  BY DEF SameValue

(* Words of 16 and 32 bits lose nothing to Low.                            *)
LEMMA LowIsWhole ==
  ASSUME NEW w
  PROVE  /\ w \subseteq Bits(0, 15) => Low(w, 16) = w
         /\ w \subseteq Bits(0, 31) => Low(w, 32) = w
<1>1. \A b \in Bits(0, 15) : b < 16
  BY DEF Bits
<1>2. \A b \in Bits(0, 31) : b < 32
  BY DEF Bits
<1>3. QED
  BY <1>1, <1>2 DEF Low

\* The attributes the translation makes are those of the same segment.
LEMMA AttributesOfSameSegment ==
  ASSUME NEW s \in Segs, NEW ar, Fits(Access(s), ar),
         ar \cap {ATTRIB_P, AR_UNUSABLE} # {}
  PROVE  LET attrib == vmxArToSvmAttrib(Low(ar, 32))
         IN  /\ SameSegment(ar, attrib)
             /\ SameValue(Access(s), svmAttribToVmxAr(attrib), ar)
<1> DEFINE attrib == vmxArToSvmAttrib(Low(ar, 32))
<1>1. CASE AR_UNUSABLE \in ar
  <2>1. AR_UNUSABLE \in Low(ar, 32)
    BY <1>1 DEF Low, AR_UNUSABLE
  <2>2. attrib = {}
    BY <2>1 DEF vmxArToSvmAttrib
  <2>3. svmAttribToVmxAr({}) = {AR_UNUSABLE}
    BY DEF svmAttribToVmxAr
  <2>4. QED
    BY <1>1, <2>2, <2>3 DEF SameSegment, SameValue, Access
<1>2. CASE AR_UNUSABLE \notin ar
  <2>1. ar \subseteq Bits(0, 7) \cup Bits(12, 15) /\ ATTRIB_P \in ar
    BY <1>2, FitsByGroup
  <2>2. Low(ar, 32) = ar /\ ar \in SUBSET Nat
    <3>1. ar \subseteq Bits(0, 31) /\ ar \in SUBSET Nat
      BY <2>1 DEF Bits
    <3>2. QED
      BY <3>1, LowIsWhole
  <2>3. svmAttribToVmxAr(attrib) = ar
    BY <2>1, <2>2, AccessReturns
  <2>4. \A b \in Nat : b \in attrib <=> \/ b \in Bits(0, 7) /\ b \in ar
                                        \/ b \in Bits(8, 11) /\ b + 4 \in ar
    BY <1>2, <2>2, AttribBits
  <2>5. attrib \subseteq Nat
    <3>1. attrib \subseteq Bits(0, 11)
      BY <2>2, SegmentWords
    <3> HIDE DEF attrib
    <3>2. QED
      BY <3>1 DEF Bits
  <2> HIDE DEF attrib
  <2>6. ATTRIB_P \in attrib
    BY <2>1, <2>4 DEF ATTRIB_P, Bits
  <2>7. attrib = (ar \cap Bits(0, 7)) \cup {b - 4 : b \in ar \cap Bits(12, 15)}
    <3> DEFINE image == (ar \cap Bits(0, 7)) \cup {b - 4 : b \in ar \cap Bits(12, 15)}
    <3>1. ASSUME NEW b \in attrib PROVE b \in image
      <4>1. b \in Nat /\ \/ b \in Bits(0, 7) /\ b \in ar
                         \/ b \in Bits(8, 11) /\ b + 4 \in ar
        BY <2>4, <2>5
      <4>2. CASE b \in Bits(8, 11) /\ b + 4 \in ar
        <5>1. b + 4 \in ar \cap Bits(12, 15) /\ b = (b + 4) - 4
          BY <4>1, <4>2 DEF Bits
        <5>2. QED
          BY <5>1
      <4>3. QED
        BY <4>1, <4>2
    <3>2. ASSUME NEW b \in ar \cap Bits(12, 15) PROVE b - 4 \in attrib
      <4>1. b - 4 \in Nat /\ b - 4 \in Bits(8, 11) /\ (b - 4) + 4 = b
        BY DEF Bits
      <4>2. QED
        BY <2>4, <4>1
    <3>3. ar \cap Bits(0, 7) \subseteq attrib
      BY <2>2, <2>4
    <3>4. QED
      BY <3>1, <3>2, <3>3
  <2>8. QED
    BY <1>2, <2>3, <2>6, <2>7 DEF SameSegment, SameValue, attrib
<1>3. QED
  BY <1>1, <1>2

(* From the VMCS to the VMCB and back no field is lost, widened or altered. *)
LEMMA EntryRoundTrip ==
  ASSUME NEW vmcs, Fitting(vmcs), NEW vmcb, Shaped(vmcb), NEW rax, NEW e \in Copied,
         \A s \in Segs : e = Access(s) => vmcs[e] \cap {ATTRIB_P, AR_UNUSABLE} # {}
  PROVE  SameValue(e, Returned(translateVmcsToVmcb(vmcs, vmcb, rax), e), vmcs[e])
<1> DEFINE n == translateVmcsToVmcb(vmcs, vmcb, rax)
<1>1. n.seg = segmentsToVmcb(vmcs) /\ n.reg = registersToVmcb(vmcs, rax)
  BY EntryFields
<1>2. /\ n.reg["EFER"] = vmcs[EFER] \cup {EFER_SVME}
      /\ \A r \in PlainRegs \cup {"RIP"} : n.reg[r] = vmcs[Guest(r)]
  BY <1>1, EntryRegisters
<1> HIDE DEF n
<1>3. \A f \in Copied : Fits(f, vmcs[f])
  BY CopiedFields DEF Fitting
<1>4. ASSUME NEW s \in Segs, e \in {Selector(s), Limit(s), Base(s), Access(s)}
      PROVE  SameValue(e, Returned(n, e), vmcs[e])
  <2>1. /\ n.seg[s].selector = Low(vmcs[Selector(s)], 16)
        /\ n.seg[s].limit = Low(vmcs[Limit(s)], 32)
        /\ n.seg[s].base = vmcs[Base(s)]
        /\ n.seg[s].attrib = vmxArToSvmAttrib(Low(vmcs[Access(s)], 32))
    BY <1>1, EntrySegments
  <2>2. /\ vmcs[Selector(s)] \subseteq Bits(0, 15) /\ vmcs[Limit(s)] \subseteq Bits(0, 31)
        /\ Fits(Access(s), vmcs[Access(s)])
    BY <1>3, CopiedFields, FitsByGroup
  <2>3. Low(vmcs[Selector(s)], 16) = vmcs[Selector(s)]
        /\ Low(vmcs[Limit(s)], 32) = vmcs[Limit(s)]
    BY <2>2, LowIsWhole
  <2>4. e = Access(s) =>
          SameValue(Access(s), svmAttribToVmxAr(n.seg[s].attrib), vmcs[Access(s)])
    BY <2>1, <2>2, AttributesOfSameSegment
  <2>5. QED
    BY <1>4, <2>1, <2>3, <2>4, ReturnedFields DEF SameValue
<1>5. ASSUME NEW r \in PlainRegs \cup {"RIP", "EFER"}, e = Guest(r)
      PROVE  SameValue(e, Returned(n, e), vmcs[e])
  <2>1. CASE r = "EFER"
    <3>1. EFER_SVME \notin vmcs[EFER]
      BY <1>3, CopiedFields, FitsByGroup DEF EFER
    <3>2. n.reg["EFER"] \ {EFER_SVME} = vmcs[EFER]
      BY <1>2, <3>1
    <3>3. QED
      BY <1>5, <2>1, <3>2, ReturnedFields DEF EFER, SameValue
  <2>2. CASE r # "EFER"
    BY <1>2, <1>5, <2>2, ReturnedFields DEF SameValue
  <2>3. QED
    BY <2>1, <2>2
<1>6. QED
  BY <1>4, <1>5, CopiedFields DEF n

------------------------------------------------------------------------------
\* What the VMM reads is what its VMCS holds, as long as it loads only one

\* No VMCS but that of region r is current, and nothing is written without:
\* a VMM with one VMCS, or with several of which it leaves all but r alone.
Only(r) == current \in {r, NoRegion} /\ ~ strayed

\* Field e as the VMM will read it when the guest has exited.
Held(e) == IF Running THEN Returned(fVmcb, e) ELSE fVmcs[e]

Agrees(r) ==
  /\ DOMAIN hw = Region /\ DOMAIN hw[r] = Enc
  /\ \A e \in Copied : SameValue(e, Held(e), hw[r][e])
  /\ \A e \in ControlEnc \ {ENTRY_INTR_INFO} : fVmcs[e] = hw[r][e]
  /\ ~ bound => ~ Refused
  /\ guestLaunch =>
       /\ fVmcs[EXIT_REASON] = IF Refused THEN EXIT_UNKNOWN ELSE hw[r][EXIT_REASON]
       /\ Nrips => fVmcs[EXIT_INSTR_LEN] = hw[r][EXIT_INSTR_LEN]
  /\ ~ guestLaunch =>
       /\ ~ Running
       /\ \A e \in Enc \ (Copied \cup ExitEnc) : fVmcs[e] = hw[r][e]

\* What the VMCB arms is what the VMM asked for at the entry.
Armed ==
  Running =>
    /\ fVmcb.intercept_1 = intercept1(fVmcs)
    /\ fVmcb.intercept_exceptions = Low(fVmcs[EXCEPTION_BITMAP], 32)
    /\ fVmcb.np_enable = nestedPaging(fVmcs)
    /\ fVmcb.guest_asid = guestAsid(fVmcs)
    /\ fVmcb.reg["PAT"] = fVmcs[PAT]

RaxKept == ownRax = IF Running THEN fVmcb.reg["RAX"] ELSE fGuestRax

Kept(r) == Agrees(r) /\ Armed /\ RaxKept

(* The controls, the exit fields and the copied fields are different fields. *)
LEMMA FieldsApart ==
  /\ ControlEnc \subseteq Enc /\ ControlEnc \cap (Copied \cup ExitEnc) = {}
  /\ \A r : Guest(r) \notin ControlEnc /\ Guest(r) \notin ExitEnc
  /\ \A s : Access(s) \notin ControlEnc /\ Access(s) \notin ExitEnc
  /\ \A t : TableBase(t) \notin Copied \cup ControlEnc \cup ExitEnc
  /\ EXIT_REASON # EXIT_INSTR_LEN /\ ENTRY_INTR_INFO \notin Copied \cup ExitEnc
<1> USE DEF PIN, CPU, SECONDARY, EXCEPTION_BITMAP, EPT_POINTER, VPID, ENTRY_INTR_INFO,
            ENTRY_ERROR, ControlEnc, ExitEnc, EXIT_REASON, EXIT_INSTR_LEN
<1>1. ControlEnc \subseteq Enc
  BY DEF Enc
<1>2. ControlEnc \cap Copied = {}
  BY DEF Copied, SegEnc
<1>3. ControlEnc \cap ExitEnc = {}
  OBVIOUS
<1>4. \A r : Guest(r) \notin ControlEnc /\ Guest(r) \notin ExitEnc
  BY DEF Guest
<1>5. \A s : Access(s) \notin ControlEnc /\ Access(s) \notin ExitEnc
  BY DEF Access
<1>6. \A t : TableBase(t) \notin Copied \cup ControlEnc \cup ExitEnc
  BY DEF TableBase, Copied, SegEnc
<1>7. EXIT_REASON # EXIT_INSTR_LEN /\ ENTRY_INTR_INFO \notin Copied \cup ExitEnc
  BY <1>2, <1>3
<1>8. QED
  BY <1>1, <1>2, <1>3, <1>4, <1>5, <1>6, <1>7

(* A VMCB the processor has not seen was not refused.                      *)
LEMMA PreparedNotRefused == PreparedVmcb.exit_code # VMEXIT_INVALID
  BY DEF PreparedVmcb, VMEXIT_INVALID

(* Before the first VMWRITE both hold nothing.                             *)
LEMMA InitKept ==
  ASSUME NEW r \in Region, Init
  PROVE  Kept(r)
<1>1. hw[r] = Unwritten /\ fVmcs = Unwritten /\ DOMAIN hw = Region /\ ~ Running
  BY DEF Init, Running
<1>2. DOMAIN Unwritten = Enc
  BY DEF Unwritten
<1>3. ~ Refused
  BY PreparedNotRefused DEF Init, Refused
<1>4. QED
  BY <1>1, <1>2, <1>3 DEF Init, Kept, Agrees, Armed, RaxKept, Held, SameValue

\* Steps outside the guest that change none of what is compared: the VMCB
\* stays as it is, or is the prepared one bind() was given.
LEMMA QuietKept ==
  ASSUME NEW r, Kept(r), ~ Running, ~ Running',
         UNCHANGED <<guestLaunch, fVmcs, fGuestRax, hw, ownRax>>,
         UNCHANGED <<bound, fVmcb>> \/ (~ bound /\ fVmcb' = PreparedVmcb)
  PROVE  Kept(r)'
<1>1. \A e : Held(e)' = Held(e)
  BY DEF Held
<1>2. (Refused' <=> Refused) /\ (~ bound' => ~ Refused)
  BY PreparedNotRefused DEF Kept, Agrees, Refused
<1>3. Agrees(r)'
  BY <1>1, <1>2 DEF Kept, Agrees
<1>4. QED
  BY <1>3 DEF Kept, Armed, RaxKept

\* What the processor requires of its VMCS at VM entry holds of the shadow.
LEMMA ShadowLaunchable ==
  ASSUME NEW r \in Region, Only(r), Kept(r), ControlTyped, NEW hs, Launch(hs)
  PROVE  Launchable(fVmcs) /\ ~ Running /\ current = r
<1>1. ~ Running /\ current = r
  BY DEF Launch, Trap, ControlTyped, Only
<1>2. ASSUME NEW s \in Segs PROVE fVmcs[Access(s)] \cap {ATTRIB_P, AR_UNUSABLE} # {}
  <2>1. SameValue(Access(s), fVmcs[Access(s)], hw[r][Access(s)])
    BY <1>1, CopiedFields DEF Kept, Agrees, Held
  <2>2. hw[r][Access(s)] \cap {ATTRIB_P, AR_UNUSABLE} # {}
    BY <1>1 DEF Launch
  <2>3. QED
    BY <2>1, <2>2 DEF SameValue
<1>3. QED
  BY <1>1, <1>2 DEF Launchable

\* The translation at a launch agrees with the current VMCS.
LEMMA LaunchAgrees ==
  ASSUME NEW r \in Region, Only(r), Kept(r), DataTyped, ControlTyped, NEW hs, Launch(hs),
         NEW e \in Copied
  PROVE  SameValue(e, Returned(translateVmcsToVmcb(fVmcs, fVmcb, fGuestRax), e), hw[r][e])
<1>1. SameValue(e, Returned(translateVmcsToVmcb(fVmcs, fVmcb, fGuestRax), e), fVmcs[e])
  BY ShadowLaunchable, EntryRoundTrip DEF DataTyped, SaveAreaFits, Launchable
<1>2. SameValue(e, fVmcs[e], hw[r][e])
  BY ShadowLaunchable DEF Kept, Agrees, Held
<1>3. QED
  BY <1>1, <1>2, SameValueTransitive

(* VMWRITE writes the same value into both.                                *)
LEMMA WriteKept ==
  ASSUME NEW r \in Region, Only(r), Only(r)', Kept(r), DataTyped, ControlTyped, NEW hs,
         NEW w \in VmmWrites, vmwrite(hs, w[1], w[2])
  PROVE  Kept(r)'
<1>1. /\ ~ Running /\ ~ Running' /\ current = r
      /\ fVmcs' = [fVmcs EXCEPT ![w[1]] = w[2]]
      /\ hw' = [hw EXCEPT ![r][w[1]] = w[2]]
      /\ UNCHANGED <<guestLaunch, bound, fGuestRax, ownRax>> /\ (Refused' <=> Refused)
  <2>1. current = r
    BY DEF vmwrite, Only, ControlTyped
  <2>2. current # NoRegion
    BY <2>1, EmulatorAssumption
  <2>3. QED
    BY <2>1, <2>2 DEF vmwrite, Trap, Running, Refused, backend
<1>2. w[1] \in Enc /\ w[1] \notin ExitEnc
  BY EmulatorAssumption
<1>3. DOMAIN fVmcs = Enc /\ DOMAIN hw = Region /\ DOMAIN hw[r] = Enc
  BY DEF DataTyped, Fitting, Kept, Agrees
<1>4. /\ DOMAIN hw' = Region /\ DOMAIN hw'[r] = Enc
      /\ \A e \in Enc : /\ fVmcs'[e] = IF e = w[1] THEN w[2] ELSE fVmcs[e]
                        /\ hw'[r][e] = IF e = w[1] THEN w[2] ELSE hw[r][e]
  BY <1>1, <1>2, <1>3
<1>5. ASSUME NEW e \in Copied PROVE SameValue(e, Held(e)', hw'[r][e])
  <2>1. SameValue(e, fVmcs[e], hw[r][e])
    BY <1>1 DEF Kept, Agrees, Held
  <2>2. QED
    BY <1>1, <1>4, <2>1, CopiedFields DEF Held, SameValue
<1>6. Agrees(r)'
  <2>1. \A e \in ExitEnc : e # w[1] /\ e \in Enc
    BY <1>2, CopiedFields
  <2>2. EXIT_REASON \in ExitEnc /\ EXIT_INSTR_LEN \in ExitEnc
    BY DEF ExitEnc
  <2>3. QED
    BY <1>1, <1>4, <1>5, <2>1, <2>2, FieldsApart DEF Kept, Agrees
<1>7. QED
  BY <1>1, <1>6 DEF Kept, Armed, RaxKept

(* A launch that runs no guest takes every field to the VMCB and back.     *)
LEMMA DisabledKept ==
  ASSUME NEW r \in Region, Only(r), Kept(r), DataTyped, ControlTyped, NEW hs,
         launchDisabled(hs)
  PROVE  Kept(r)'
<1> DEFINE n == translateVmcsToVmcb(fVmcs, fVmcb, fGuestRax)
<1>1. Launch(hs) /\ ~ guestLaunch
  BY DEF launchDisabled
<1>2. \A e \in Copied : SameValue(e, Returned(n, e), hw[r][e])
  BY <1>1, LaunchAgrees
<1>3. DOMAIN n = VmcbFields /\ n.reg["RAX"] = fGuestRax
  BY EntryFields, EntryRegisters DEF DataTyped, SaveAreaFits
<1>4. /\ fVmcb' = [n EXCEPT !.exit_code = VMEXIT_INVALID]
      /\ fVmcs' = translateVmcbToVmcs(fVmcb', fVmcs, Nrips)
      /\ fGuestRax' = fVmcb'.reg["RAX"]
      /\ ~ Running /\ ~ Running' /\ bound'
      /\ UNCHANGED <<guestLaunch, hw, ownRax>>
  BY <1>1 DEF launchDisabled, finishLaunch, Launch, Trap, Running, reference
<1> HIDE DEF n
<1>5. fVmcb'.seg = n.seg /\ fVmcb'.reg = n.reg
  BY <1>3, <1>4 DEF VmcbFields
<1>6. \A e : Returned(fVmcb', e) = Returned(n, e)
  BY <1>5 DEF Returned, registerField, segmentField
<1>7. /\ \A e \in Copied : fVmcs'[e] = Returned(n, e)
      /\ \A e \in Enc \ (Copied \cup ExitEnc) : fVmcs'[e] = fVmcs[e]
  BY <1>4, <1>6, ReturnFields
<1>8. Agrees(r)'
  <2>1. /\ DOMAIN hw' = Region /\ DOMAIN hw'[r] = Enc
        /\ \A e \in Copied : SameValue(e, Held(e)', hw'[r][e])
    BY <1>2, <1>4, <1>7 DEF Held, Kept, Agrees
  <2>2. \A e \in Enc \ (Copied \cup ExitEnc) : fVmcs'[e] = hw'[r][e]
    BY <1>1, <1>4, <1>7 DEF Kept, Agrees
  <2>3. QED
    BY <1>1, <1>4, <2>1, <2>2, FieldsApart DEF Agrees
<1>9. RaxKept'
  BY <1>3, <1>4, <1>5 DEF Kept, RaxKept
<1>10. QED
  BY <1>4, <1>8, <1>9 DEF Kept, Armed

(* An entry hands the fields to the save area and arms what was asked for. *)
LEMMA EnterKept ==
  ASSUME NEW r \in Region, Only(r), Kept(r), DataTyped, ControlTyped, NEW hs \in Code,
         enterGuest(hs)
  PROVE  Kept(r)'
<1> DEFINE n == translateVmcsToVmcb(fVmcs, fVmcb, fGuestRax)
<1>1. Launch(hs) /\ guestLaunch
  BY DEF enterGuest
<1>2. \A e \in Copied : SameValue(e, Returned(n, e), hw[r][e])
  BY <1>1, LaunchAgrees
<1>3. /\ n.intercept_1 = intercept1(fVmcs) /\ n.np_enable = nestedPaging(fVmcs)
      /\ n.intercept_exceptions = Low(fVmcs[EXCEPTION_BITMAP], 32)
      /\ n.guest_asid = guestAsid(fVmcs) /\ n.exit_code = fVmcb.exit_code
      /\ n.reg["RAX"] = fGuestRax /\ n.reg["PAT"] = fVmcs[PAT]
  BY EntryFields, EntryRegisters DEF DataTyped, SaveAreaFits, PAT
<1>4. hs.len > 0 /\ hs.len \in Nat
  BY <1>1, RecognisedHasLength DEF Launch
<1>5. /\ fVmcb' = n /\ ~ Running /\ Running'
      /\ UNCHANGED <<guestLaunch, bound, fVmcs, fGuestRax, hw, ownRax>>
  BY <1>1, <1>4 DEF enterGuest, Launch, Trap, Running, store, reference
<1> HIDE DEF n
<1>6. Agrees(r)'
  <2>1. Refused' <=> Refused
    BY <1>3, <1>5 DEF Refused
  <2>2. QED
    BY <1>1, <1>2, <1>5, <2>1 DEF Held, Kept, Agrees
<1>7. QED
  BY <1>3, <1>5, <1>6 DEF Kept, Armed, RaxKept

------------------------------------------------------------------------------
\* The guest's own steps

\* What the processor leaves alone while the guest runs.
SameControls(vmcb, other) ==
  /\ vmcb.intercept_1 = other.intercept_1
  /\ vmcb.intercept_exceptions = other.intercept_exceptions
  /\ vmcb.np_enable = other.np_enable
  /\ vmcb.guest_asid = other.guest_asid
  /\ vmcb.exit_code = other.exit_code

\* The save area of vmcb is that of fVmcb but for what field e, if it is one
\* that comes back, reads as v.
Moves(vmcb, e, v) ==
  /\ \A f \in Copied \ {e} : Returned(vmcb, f) = Returned(fVmcb, f)
  /\ e \in Copied => SameValue(e, Returned(vmcb, e), v)
  /\ SameControls(vmcb, fVmcb)
  /\ vmcb.reg["RAX"] = fVmcb.reg["RAX"] /\ vmcb.reg["PAT"] = fVmcb.reg["PAT"]

\* The guest does no more than that, in a field that is no control.
Loads(e, v) ==
  /\ e \in Enc \ (ControlEnc \cup ExitEnc)
  /\ \E vmcb : GuestStep(vmcb, e, v) /\ Moves(vmcb, e, v)

(* A step of the guest that moves one field keeps the agreement.           *)
LEMMA GuestStepKept ==
  ASSUME NEW r \in Region, Only(r), Kept(r), ControlTyped,
         NEW e, NEW v, Loads(e, v)
  PROVE  Kept(r)'
<1> PICK vmcb : GuestStep(vmcb, e, v) /\ Moves(vmcb, e, v)
  BY DEF Loads
<1>0. e \in Enc \ (ControlEnc \cup ExitEnc)
  BY DEF Loads
<1>1. /\ Running /\ Running' /\ current = r /\ guestLaunch
      /\ fVmcb' = vmcb /\ hw' = [hw EXCEPT ![r][e] = v]
      /\ UNCHANGED <<guestLaunch, bound, fVmcs, ownRax>> /\ (Refused' <=> Refused)
  BY DEF GuestStep, Running, ControlTyped, Only, Kept, Agrees, store, Refused, Moves,
         SameControls
<1>2. /\ DOMAIN hw' = Region /\ DOMAIN hw'[r] = Enc
      /\ \A f \in Enc : hw'[r][f] = IF f = e THEN v ELSE hw[r][f]
  BY <1>0, <1>1 DEF Kept, Agrees
<1>3. ASSUME NEW f \in Copied PROVE SameValue(f, Held(f)', hw'[r][f])
  <2>1. SameValue(f, Returned(fVmcb, f), hw[r][f])
    BY <1>1 DEF Kept, Agrees, Held
  <2>2. f \in Enc
    BY CopiedFields
  <2>3. Held(f)' = Returned(vmcb, f)
    BY <1>1 DEF Held
  <2>4. QED
    BY <1>2, <2>1, <2>2, <2>3 DEF Moves
<1>4. Agrees(r)'
  <2>1. \A f \in ControlEnc \cup ExitEnc : f # e /\ f \in Enc
    BY <1>0, CopiedFields, FieldsApart
  <2>2. EXIT_REASON \in ExitEnc /\ EXIT_INSTR_LEN \in ExitEnc
    BY DEF ExitEnc
  <2>3. QED
    BY <1>1, <1>2, <1>3, <2>1, <2>2 DEF Kept, Agrees
<1>5. QED
  BY <1>1, <1>4 DEF Kept, Armed, RaxKept, Moves, SameControls

(* Fields of different groups or names are different.                      *)
LEMMA DistinctFields ==
  /\ \A s, q : /\ Access(s) # Selector(q) /\ Access(s) # Limit(q) /\ Access(s) # Base(q)
               /\ Access(s) = Access(q) <=> s = q
  /\ \A s, r : Access(s) # Guest(r) /\ Selector(s) # Guest(r) /\ Limit(s) # Guest(r)
               /\ Base(s) # Guest(r)
  /\ \A r, q : Guest(r) = Guest(q) <=> r = q
  BY DEF Access, Selector, Limit, Base, Guest

(* A register that was not loaded comes back as it would have.             *)
LEMMA SameRegisterReturned ==
  ASSUME NEW vmcb, NEW other, NEW q \in PlainRegs \cup {"RIP", "EFER"},
         vmcb.reg[q] = other.reg[q]
  PROVE  Returned(vmcb, Guest(q)) = Returned(other, Guest(q))
<1>1. CASE q = "EFER"
  BY <1>1, ReturnedFields DEF EFER
<1>2. CASE q # "EFER"
  BY <1>2, ReturnedFields
<1>3. QED
  BY <1>1, <1>2

(* The guest runs,                                                         *)
LEMMA RunsLoads ==
  ASSUME DataTyped, GuestRuns
  PROVE  Loads(RIP, fVmcb.reg["RIP"] + 1) /\ fVmcb.reg["RIP"] + 1 <= MaxRip
<1> DEFINE rip  == fVmcb.reg["RIP"] + 1
           vmcb == [fVmcb EXCEPT !.reg["RIP"] = rip]
<1>1. GuestStep(vmcb, RIP, rip) /\ rip <= MaxRip
  BY DEF GuestRuns
<1>2. DOMAIN fVmcb = VmcbFields /\ DOMAIN fVmcb.reg = SavedRegs
  BY DEF DataTyped, SaveAreaFits, Shaped
<1> HIDE DEF rip
<1>3. /\ vmcb.seg = fVmcb.seg /\ SameControls(vmcb, fVmcb)
      /\ \A q \in SavedRegs : vmcb.reg[q] = IF q = "RIP" THEN rip ELSE fVmcb.reg[q]
  BY <1>2 DEF VmcbFields, SameControls
<1> HIDE DEF vmcb
<1>4. Returned(vmcb, RIP) = rip
  BY <1>3, ReturnedFields DEF RIP, SavedRegs
<1>5. ASSUME NEW f \in Copied \ {RIP} PROVE Returned(vmcb, f) = Returned(fVmcb, f)
  <2>1. CASE \E s \in Segs : f \in {Selector(s), Limit(s), Base(s), Access(s)}
    BY <1>3, <2>1, ReturnedFields
  <2>2. CASE \E q \in PlainRegs \cup {"RIP", "EFER"} : f = Guest(q)
    <3>1. PICK q \in PlainRegs \cup {"RIP", "EFER"} : f = Guest(q) /\ q # "RIP"
      BY <2>2, DistinctFields DEF RIP
    <3>2. q \in SavedRegs /\ vmcb.reg[q] = fVmcb.reg[q]
      BY <1>3, <3>1 DEF SavedRegs
    <3>3. QED
      BY <3>1, <3>2, SameRegisterReturned
  <2>3. QED
    BY <2>1, <2>2, CopiedFields
<1>6. RIP \in Copied /\ RIP \in Enc \ (ControlEnc \cup ExitEnc)
  BY CopiedFields, FieldsApart DEF RIP
<1>7. Moves(vmcb, RIP, rip)
  BY <1>3, <1>4, <1>5 DEF Moves, SameValue, SavedRegs
<1>8. QED
  BY <1>1, <1>6, <1>7 DEF Loads, rip

(* loads a register,                                                       *)
LEMMA RegisterLoads ==
  ASSUME DataTyped, NEW w \in GuestWrites, GuestLoadsRegister(w[1], w[2])
  PROVE  Loads(Guest(w[1]), w[2]) /\ Guest(w[1]) \in Copied
<1> DEFINE image == IF w[1] = "EFER" THEN w[2] \cup {EFER_SVME} ELSE w[2]
           vmcb  == [fVmcb EXCEPT !.reg[w[1]] = image]
           g     == Guest(w[1])
<1>1. GuestStep(vmcb, g, w[2])
  BY DEF GuestLoadsRegister
<1>2. DOMAIN fVmcb = VmcbFields /\ DOMAIN fVmcb.reg = SavedRegs
  BY DEF DataTyped, SaveAreaFits, Shaped
<1>3. w[1] \in PlainRegs \cup {"EFER"} /\ Fits(g, w[2])
  BY GuestAssumption
<1> HIDE DEF image
<1>4. /\ vmcb.seg = fVmcb.seg /\ SameControls(vmcb, fVmcb)
      /\ \A q \in SavedRegs : vmcb.reg[q] = IF q = w[1] THEN image ELSE fVmcb.reg[q]
  BY <1>2 DEF VmcbFields, SameControls
<1> HIDE DEF vmcb
<1>5. w[1] \in SavedRegs /\ w[1] \notin {"RAX", "RIP", "PAT"}
  BY <1>3, TranslateAssumption DEF SavedRegs
<1>6. Returned(vmcb, g) = w[2]
  <2>1. CASE w[1] = "EFER"
    <3>1. EFER_SVME \notin w[2]
      BY <1>3, <2>1, FitsByGroup DEF EFER
    <3>2. vmcb.reg["EFER"] \ {EFER_SVME} = w[2]
      BY <1>4, <1>5, <2>1, <3>1 DEF image
    <3>3. QED
      BY <2>1, <3>2, ReturnedFields DEF EFER
  <2>2. CASE w[1] # "EFER"
    BY <1>3, <1>4, <1>5, <2>2, ReturnedFields DEF image
  <2>3. QED
    BY <2>1, <2>2
<1>7. ASSUME NEW f \in Copied \ {g} PROVE Returned(vmcb, f) = Returned(fVmcb, f)
  <2>1. CASE \E s \in Segs : f \in {Selector(s), Limit(s), Base(s), Access(s)}
    BY <1>4, <2>1, ReturnedFields
  <2>2. CASE \E q \in PlainRegs \cup {"RIP", "EFER"} : f = Guest(q)
    <3>1. PICK q \in PlainRegs \cup {"RIP", "EFER"} : f = Guest(q) /\ q # w[1]
      BY <2>2
    <3>2. q \in SavedRegs /\ vmcb.reg[q] = fVmcb.reg[q]
      BY <1>4, <3>1 DEF SavedRegs
    <3>3. QED
      BY <3>1, <3>2, SameRegisterReturned
  <2>3. QED
    BY <2>1, <2>2, CopiedFields
<1>8. g \in Copied /\ g \in Enc \ (ControlEnc \cup ExitEnc)
  BY <1>3, CopiedFields, FieldsApart
<1> HIDE DEF g
<1>9. vmcb.reg["RAX"] = fVmcb.reg["RAX"] /\ vmcb.reg["PAT"] = fVmcb.reg["PAT"]
  BY <1>4, <1>5 DEF SavedRegs
<1>10. Moves(vmcb, g, w[2])
  BY <1>4, <1>6, <1>7, <1>9 DEF Moves, SameValue
<1>11. QED
  BY <1>1, <1>8, <1>10 DEF Loads, g

(* loads a descriptor table,                                               *)
LEMMA TableLoads ==
  ASSUME DataTyped, NEW w \in GuestTables, GuestLoadsTable(w[1], w[2])
  PROVE  Loads(TableBase(w[1]), w[2]) /\ TableBase(w[1]) \notin Copied
<1> DEFINE vmcb == [fVmcb EXCEPT !.table[w[1]].base = w[2]]
           b    == TableBase(w[1])
<1>1. GuestStep(vmcb, b, w[2])
  BY DEF GuestLoadsTable
<1>2. DOMAIN fVmcb = VmcbFields
  BY DEF DataTyped, SaveAreaFits, Shaped
<1>3. vmcb.seg = fVmcb.seg /\ vmcb.reg = fVmcb.reg /\ SameControls(vmcb, fVmcb)
  BY <1>2 DEF VmcbFields, SameControls
<1> HIDE DEF vmcb
<1>4. \A f : Returned(vmcb, f) = Returned(fVmcb, f)
  BY <1>3 DEF Returned, registerField, segmentField
<1>5. b \in Enc \ (ControlEnc \cup ExitEnc) /\ b \notin Copied
  <2>1. w[1] \in Tables
    BY GuestAssumption
  <2>2. b \in Enc
    BY <2>1 DEF TableBase, Enc, TableEnc
  <2>3. QED
    BY <2>2, FieldsApart
<1> HIDE DEF b
<1>6. Moves(vmcb, b, w[2])
  BY <1>3, <1>4, <1>5 DEF Moves
<1>7. QED
  BY <1>1, <1>5, <1>6 DEF Loads, b

(* loads a segment, described in both manuals' terms,                      *)
LEMMA SegmentLoads ==
  ASSUME DataTyped, NEW s \in Segs, NEW d \in Descriptors, GuestLoadsSegment(s, d)
  PROVE  Loads(Access(s), d.ar) /\ Access(s) \in Copied
<1> DEFINE vmcb == [fVmcb EXCEPT !.seg[s].attrib = d.attrib]
           a    == Access(s)
<1>1. GuestStep(vmcb, a, d.ar)
  BY DEF GuestLoadsSegment
<1>2. /\ DOMAIN fVmcb = VmcbFields /\ DOMAIN fVmcb.seg = Segs
      /\ \A q \in Segs : DOMAIN fVmcb.seg[q] = {"selector", "limit", "base", "attrib"}
  BY DEF DataTyped, SaveAreaFits, SegmentFits, Shaped
<1>3. /\ vmcb.reg = fVmcb.reg /\ SameControls(vmcb, fVmcb)
      /\ \A q \in Segs : /\ vmcb.seg[q].selector = fVmcb.seg[q].selector
                         /\ vmcb.seg[q].limit = fVmcb.seg[q].limit
                         /\ vmcb.seg[q].base = fVmcb.seg[q].base
                         /\ vmcb.seg[q].attrib = IF q = s THEN d.attrib
                                                 ELSE fVmcb.seg[q].attrib
  BY <1>2 DEF VmcbFields, SameControls
<1> HIDE DEF vmcb
<1>4. /\ Fits(a, d.ar) /\ d.attrib \subseteq Bits(0, 11)
      /\ SameSegment(d.ar, d.attrib)
  BY GuestAssumption
<1>5. SameValue(a, Returned(vmcb, a), d.ar)
  <2>1. Returned(vmcb, a) = svmAttribToVmxAr(d.attrib)
    BY <1>3, ReturnedFields
  <2>2. CASE AR_UNUSABLE \in d.ar
    <3>1. svmAttribToVmxAr(d.attrib) = {AR_UNUSABLE}
      BY <1>4, <2>2 DEF SameSegment, svmAttribToVmxAr
    <3>2. QED
      BY <2>1, <2>2, <3>1 DEF SameValue, Access
  <2>3. CASE AR_UNUSABLE \notin d.ar
    <3>1. ATTRIB_P \in d.attrib /\ d.attrib \in SUBSET Nat
          /\ d.ar \subseteq Bits(0, 7) \cup Bits(12, 15)
          /\ d.attrib = (d.ar \cap Bits(0, 7)) \cup {b - 4 : b \in d.ar \cap Bits(12, 15)}
      BY <1>4, <2>3, FitsByGroup DEF SameSegment, Bits
    <3>2. \A b \in Nat : b \in svmAttribToVmxAr(d.attrib)
                           <=> \/ b \in Bits(0, 7) /\ b \in d.attrib
                               \/ b \in Bits(12, 15) /\ b - 4 \in d.attrib
      BY <3>1, AccessBits
    <3>3. \A b \in Bits(0, 7) : b \in d.attrib <=> b \in d.ar
      BY <3>1 DEF Bits
    <3>4. \A b \in Bits(12, 15) : b - 4 \in d.attrib <=> b \in d.ar
      BY <3>1 DEF Bits
    <3>5. svmAttribToVmxAr(d.attrib) \subseteq Nat /\ d.ar \subseteq Nat
      BY <3>1, SegmentWords DEF Bits
    <3>6. svmAttribToVmxAr(d.attrib) = d.ar
      BY <3>1, <3>2, <3>3, <3>4, <3>5
    <3>7. QED
      BY <2>1, <3>6 DEF SameValue
  <2>4. QED
    BY <2>2, <2>3
<1>6. ASSUME NEW f \in Copied \ {a} PROVE Returned(vmcb, f) = Returned(fVmcb, f)
  <2>1. ASSUME NEW q \in Segs, f \in {Selector(q), Limit(q), Base(q), Access(q)}
        PROVE  Returned(vmcb, f) = Returned(fVmcb, f)
    <3>1. f = Access(q) => vmcb.seg[q].attrib = fVmcb.seg[q].attrib
      BY <1>3
    <3>2. QED
      BY <1>3, <2>1, <3>1, ReturnedFields
  <2>2. CASE \E q \in PlainRegs \cup {"RIP", "EFER"} : f = Guest(q)
    BY <1>3, <2>2, SameRegisterReturned
  <2>3. QED
    BY <2>1, <2>2, CopiedFields
<1>7. a \in Copied /\ a \in Enc \ (ControlEnc \cup ExitEnc)
  BY CopiedFields, FieldsApart
<1> HIDE DEF a
<1>8. Moves(vmcb, a, d.ar)
  BY <1>3, <1>5, <1>6 DEF Moves
<1>9. QED
  BY <1>1, <1>7, <1>8 DEF Loads, a

(* or sets RAX, which no VMCS field holds.                                 *)
LEMMA RaxLoads ==
  ASSUME DataTyped, NEW v \in RaxValues, GuestSetsRax(v)
  PROVE  /\ Running /\ Running' /\ fVmcb'.reg["RAX"] = v
         /\ ownRax' = v /\ UNCHANGED <<guestLaunch, bound, fVmcs, hw>>
         /\ SameControls(fVmcb', fVmcb) /\ fVmcb'.reg["PAT"] = fVmcb.reg["PAT"]
         /\ \A f \in Copied : Returned(fVmcb', f) = Returned(fVmcb, f)
<1>1. /\ Running /\ Running' /\ fVmcb' = [fVmcb EXCEPT !.reg["RAX"] = v] /\ ownRax' = v
      /\ UNCHANGED <<guestLaunch, bound, fVmcs, hw>>
  BY DEF GuestSetsRax, Running, store
<1>2. DOMAIN fVmcb = VmcbFields /\ DOMAIN fVmcb.reg = SavedRegs
  BY DEF DataTyped, SaveAreaFits, Shaped
<1>3. /\ fVmcb'.seg = fVmcb.seg /\ SameControls(fVmcb', fVmcb)
      /\ \A q \in SavedRegs : fVmcb'.reg[q] = IF q = "RAX" THEN v ELSE fVmcb.reg[q]
  BY <1>1, <1>2 DEF VmcbFields, SameControls
<1>4. ASSUME NEW f \in Copied PROVE Returned(fVmcb', f) = Returned(fVmcb, f)
  <2>1. CASE \E q \in PlainRegs \cup {"RIP", "EFER"} : f = Guest(q)
    <3>1. PICK q \in PlainRegs \cup {"RIP", "EFER"} : f = Guest(q)
      BY <2>1
    <3>2. q \in SavedRegs /\ q # "RAX"
      BY TranslateAssumption DEF SavedRegs
    <3>3. fVmcb'.reg[q] = fVmcb.reg[q]
      BY <1>3, <3>2
    <3>4. QED
      BY <3>1, <3>3, SameRegisterReturned
  <2>2. CASE \E s \in Segs : f \in {Selector(s), Limit(s), Base(s), Access(s)}
    BY <1>3, <2>2, ReturnedFields
  <2>3. QED
    BY <2>1, <2>2, CopiedFields
<1>5. fVmcb'.reg["RAX"] = v /\ fVmcb'.reg["PAT"] = fVmcb.reg["PAT"]
  BY <1>3 DEF SavedRegs
<1>6. QED
  BY <1>1, <1>3, <1>4, <1>5

LEMMA RaxKeeps ==
  ASSUME NEW r \in Region, Kept(r), DataTyped, NEW v \in RaxValues, GuestSetsRax(v)
  PROVE  Kept(r)'
<1>1. \A f \in Copied : Held(f)' = Held(f)
  BY RaxLoads DEF Held
<1>2. Refused' <=> Refused
  BY RaxLoads DEF Refused, SameControls
<1>3. Agrees(r)'
  BY <1>1, <1>2, RaxLoads DEF Kept, Agrees
<1>4. QED
  BY <1>3, RaxLoads DEF Kept, Armed, RaxKept, SameControls

------------------------------------------------------------------------------
\* What an entry arms

(* What an entry arms stays as it is until the exit.                       *)
LEMMA ArmedNext ==
  ASSUME DataTyped, ControlTyped, Armed, [Next]_vars
  PROVE  Armed'
<1>1. CASE ~ Running'
  BY <1>1 DEF Armed
<1>2. CASE ~ Running /\ Running'
  <2>1. PICK hs \in Code : enterGuest(hs)
    BY <1>2, Boundaries
  <2> DEFINE n == translateVmcsToVmcb(fVmcs, fVmcb, fGuestRax)
  <2>2. fVmcb' = n /\ fVmcs' = fVmcs
    BY <2>1 DEF enterGuest, store
  <2>3. /\ n.intercept_1 = intercept1(fVmcs) /\ n.np_enable = nestedPaging(fVmcs)
        /\ n.intercept_exceptions = Low(fVmcs[EXCEPTION_BITMAP], 32)
        /\ n.guest_asid = guestAsid(fVmcs) /\ n.reg["PAT"] = fVmcs[PAT]
    BY EntryFields, EntryRegisters DEF DataTyped, SaveAreaFits, PAT
  <2> HIDE DEF n
  <2>4. QED
    BY <2>2, <2>3 DEF Armed
<1>3. CASE Running /\ Running'
  <2> DEFINE Same == /\ UNCHANGED fVmcs /\ SameControls(fVmcb', fVmcb)
                     /\ fVmcb'.reg["PAT"] = fVmcb.reg["PAT"]
  <2>1. ASSUME UNCHANGED vars PROVE Same
    BY <2>1 DEF vars, store, backend, SameControls
  <2>2. ASSUME NEW e, NEW v, Loads(e, v) PROVE Same
    BY <2>2 DEF Loads, Moves, GuestStep, store
  <2>3. ASSUME NEW v \in RaxValues, GuestSetsRax(v) PROVE Same
    BY <2>3, RaxLoads
  <2>4. ASSUME GuestMoves PROVE Same
    <3>1. CASE \E v \in RaxValues : GuestSetsRax(v)
      BY <2>3, <3>1
    <3>2. CASE ~ \E v \in RaxValues : GuestSetsRax(v)
      <4>1. \E e, v : Loads(e, v)
        BY <2>4, <3>2, RunsLoads, RegisterLoads, TableLoads, SegmentLoads
        DEF GuestMoves, Guests
      <4>2. QED
        BY <2>2, <4>1
    <3>3. QED
      BY <3>1, <3>2
  <2>5. Same
    BY <1>3, <2>1, <2>4, Boundaries
  <2>6. QED
    BY <1>3, <2>5 DEF Armed, SameControls
<1>4. QED
  BY <1>1, <1>2, <1>3

\* The ASID of the guest that runs is the VPID the VMM chose, if it chose one.
LEMMA AsidChosen ==
  ASSUME DataTyped, Armed, Running
  PROVE  fVmcb.guest_asid = IF ChosenVpid = {} THEN {0} ELSE ChosenVpid
<1> DEFINE sec == fVmcs[SECONDARY]
           id  == fVmcs[VPID]
<1>1. SEC_CTL_ENABLE_VPID \in Low(sec, 32) <=> SEC_CTL_ENABLE_VPID \in sec
  BY DEF Low, SEC_CTL_ENABLE_VPID
<1>2. id \subseteq Bits(0, 63) => Low(id, 32) = id \cap Bits(0, 31)
  BY DEF Low, Bits
<1>3. id \subseteq Bits(0, 63)
  <2>1. VPID \in Enc /\ VPID \notin {EXIT_REASON, EXIT_INSTR_LEN, RIP, EFER, ENTRY_INTR_INFO}
    BY DEF VPID, Enc, ControlEnc, EXIT_REASON, EXIT_INSTR_LEN, RIP, EFER, ENTRY_INTR_INFO,
           Guest
  <2>2. VPID[1] = "CONTROL"
    BY DEF VPID
  <2>3. Fits(VPID, id)
    BY <2>1 DEF DataTyped, Fitting
  <2>4. QED
    BY <2>1, <2>2, <2>3 DEF Fits
<1>4. fVmcb.guest_asid = guestAsid(fVmcs)
  BY DEF Armed
<1>5. QED
  BY <1>1, <1>2, <1>3, <1>4 DEF guestAsid, secondaryControls, ChosenVpid

(* Whatever the VMM writes and earlier guests left, VMRUN passes the       *)
(* checks of SVME, of the VMRUN intercept and of the event, and refuses an *)
(* entry only when the VMM has tagged the guest with a VPID no ASID of the *)
(* processor equals; a guest without a VPID is always entered.             *)
THEOREM EntriesConsistentHolds == Spec => []EntriesConsistent
<1>1. Init => AlwaysConsistent /\ Armed
  BY DEF Init, AlwaysConsistent, Armed, Running
<1>2. Typed /\ AlwaysConsistent /\ Armed /\ [Next]_vars => (AlwaysConsistent /\ Armed)'
  BY NextConsistent, ArmedNext DEF Typed
<1>3. Typed /\ AlwaysConsistent /\ Armed => EntriesConsistent
  <2> SUFFICES ASSUME DataTyped, AlwaysConsistent, Armed, Running
               PROVE  \/ Accepted
                      \/ Consistent /\ ChosenVpid \notin SupportedAsids \cup {{}}
    BY DEF Typed, EntriesConsistent
  <2>1. Consistent
    BY DEF AlwaysConsistent
  <2>2. fVmcb.guest_asid = IF ChosenVpid = {} THEN {0} ELSE ChosenVpid
    BY AsidChosen
  <2>3. QED
    BY <2>1, <2>2, EmulatorAssumption DEF Accepted
<1>4. QED
  BY <1>1, <1>2, <1>3, InitTyped, NextTyped, PTL DEF Spec

------------------------------------------------------------------------------
\* Leaving the guest

\* The code of an event reads back as the reason Intel gives for it.
LEMMA ReasonOfEvent ==
  ASSUME NEW ev \in DOMAIN Event, NEW info
  PROVE  svmExitToVmxReason(Event[ev].code, info) = Event[ev].reason
<1> USE DEF svmExitToVmxReason, Cause, VMEXIT_INVALID, VMEXIT_CPUID, VMEXIT_HLT,
            VMEXIT_VMMCALL, VMEXIT_IOIO, VMEXIT_MSR, VMEXIT_INTR, VMEXIT_NPF,
            VMEXIT_EXCP_BASE, VMEXIT_EXCP_LAST, VMEXIT_NMI
<1>1. CASE ev = "hlt"
  BY <1>1 DEF Event
<1>2. CASE ev = "cpuid"
  BY <1>2 DEF Event
<1>3. CASE ev = "vmmcall"
  BY <1>3 DEF Event
<1>4. CASE ev = "interrupt"
  BY <1>4 DEF Event
<1>5. CASE ev = "exception"
  BY <1>5 DEF Event
<1>6. CASE ev = "npf"
  BY <1>6 DEF Event
<1>7. CASE ev = "invalid"
  BY <1>7 DEF Event
<1> HIDE DEF svmExitToVmxReason, Cause
<1>8. ev \in {"hlt", "cpuid", "vmmcall", "interrupt", "exception", "npf", "invalid"}
  BY DEF Event
<1>9. QED
  BY <1>1, <1>2, <1>3, <1>4, <1>5, <1>6, <1>7, <1>8

(* A refusal has an unknown reason, and no instruction caused it.          *)
LEMMA RefusalIs ==
  ASSUME NEW ev \in DOMAIN Event, Event[ev].code = VMEXIT_INVALID
  PROVE  Event[ev].reason = EXIT_UNKNOWN /\ Event[ev].length = 0
<1> USE DEF Cause, VMEXIT_INVALID, VMEXIT_CPUID, VMEXIT_HLT, VMEXIT_VMMCALL,
            VMEXIT_INTR, VMEXIT_NPF, VMEXIT_EXCP_BASE
<1>1. ev \in {"hlt", "cpuid", "vmmcall", "interrupt", "exception", "npf", "invalid"}
  BY DEF Event
<1>2. ev = "invalid"
  BY <1>1 DEF Event
<1>3. QED
  BY <1>2 DEF Event

(* What an Intel processor records of an exit, if it is one of its own.    *)
LEMMA RecordedFields ==
  ASSUME NEW vmcs, DOMAIN vmcs = Enc, NEW event
  PROVE  LET new == Recorded(vmcs, event)
         IN  /\ DOMAIN new = Enc
             /\ event.code = VMEXIT_INVALID => new = vmcs
             /\ event.code # VMEXIT_INVALID =>
                  /\ new[EXIT_REASON] = event.reason
                  /\ new[EXIT_INSTR_LEN] = IF event.length > 0 THEN event.length
                                                              ELSE vmcs[EXIT_INSTR_LEN]
             /\ \A e \in Enc \ (ExitEnc \cup {ENTRY_INTR_INFO}) : new[e] = vmcs[e]
<1>1. EXIT_REASON # EXIT_INSTR_LEN /\ ENTRY_INTR_INFO \notin ExitEnc
      /\ {EXIT_REASON, EXIT_INSTR_LEN} \subseteq Enc
  BY FieldsApart, CopiedFields DEF ExitEnc
<1>2. QED
  BY <1>1 DEF Recorded, ExitEnc

(* What an exit stores in the shadow, and leaves alone.                    *)
LEMMA ExitStores ==
  ASSUME DataTyped, NEW ev \in DOMAIN Event, exitGuest(ev)
  PROVE  LET length == IF Nrips THEN Event[ev].length ELSE 0
         IN  /\ Running /\ ~ Running' /\ UNCHANGED guestLaunch
             /\ fGuestRax' = fVmcb.reg["RAX"]
             /\ \A e \in Copied : fVmcs'[e] = Returned(fVmcb, e)
             /\ fVmcb'.exit_code = Event[ev].code
             /\ fVmcs'[EXIT_REASON] = Event[ev].reason
             /\ fVmcs'[EXIT_INSTR_LEN] = IF length > 0 THEN length ELSE fVmcs[EXIT_INSTR_LEN]
             /\ \A e \in Enc \ (Copied \cup ExitEnc) : fVmcs'[e] = fVmcs[e]
<1> DEFINE length == Event[ev].length
           nrip   == IF Nrips /\ length > 0 THEN fVmcb.reg["RIP"] + length ELSE 0
           vmcb   == fVmcb'
           back   == translateVmcbToVmcs(vmcb, fVmcs, Nrips)
<1>1. /\ Running /\ ~ Running' /\ UNCHANGED guestLaunch
      /\ vmcb = [fVmcb EXCEPT !.exit_code = Event[ev].code, !.nrip = nrip,
                              !.eventinj = {}]
      /\ fVmcs' = back
      /\ fGuestRax' = vmcb.reg["RAX"]
  BY DEF exitGuest, finishLaunch, Running
<1>2. length \in Nat /\ fVmcb.reg["RIP"] \in Nat
  <2>1. length \in Nat
    BY DEF Event, Cause
  <2>2. QED
    BY <2>1, FitsByGroup, EmulatorAssumption DEF DataTyped, SaveAreaFits, RIP
<1> HIDE DEF length, nrip, vmcb
<1>3. /\ vmcb.seg = fVmcb.seg /\ vmcb.reg = fVmcb.reg
      /\ vmcb.exit_code = Event[ev].code /\ vmcb.nrip = nrip
  BY <1>1 DEF DataTyped, SaveAreaFits, Shaped, VmcbFields
<1>4. \A e : Returned(vmcb, e) = Returned(fVmcb, e)
  BY <1>3 DEF Returned, registerField, segmentField
<1>5. /\ \A e \in Copied : back[e] = Returned(vmcb, e)
      /\ back[EXIT_REASON] = svmExitToVmxReason(vmcb.exit_code, vmcb.exit_info_1)
      /\ back[EXIT_INSTR_LEN] = IF lengthKnown(vmcb, Nrips)
                                THEN vmcb.nrip - vmcb.reg["RIP"]
                                ELSE fVmcs[EXIT_INSTR_LEN]
      /\ \A e \in Enc \ (Copied \cup ExitEnc) : back[e] = fVmcs[e]
  BY ReturnFields
<1> HIDE DEF back
<1>6. svmExitToVmxReason(vmcb.exit_code, vmcb.exit_info_1) = Event[ev].reason
  BY <1>3, ReasonOfEvent
<1>7. /\ lengthKnown(vmcb, Nrips) <=> Nrips /\ length > 0
      /\ Nrips /\ length > 0 => vmcb.nrip - vmcb.reg["RIP"] = length
  BY <1>2, <1>3 DEF lengthKnown, nrip
<1>8. back[EXIT_INSTR_LEN] = IF Nrips /\ length > 0 THEN length ELSE fVmcs[EXIT_INSTR_LEN]
  BY <1>5, <1>7
<1>9. fVmcb'.exit_code = Event[ev].code
  BY <1>3 DEF vmcb
<1>10. QED
  BY <1>1, <1>3, <1>4, <1>5, <1>6, <1>8, <1>9 DEF length

(* An exit stores in both the same registers, reason and length.           *)
LEMMA ExitKept ==
  ASSUME NEW r \in Region, Only(r), Kept(r), DataTyped, ControlTyped,
         NEW ev \in DOMAIN Event, exitGuest(ev)
  PROVE  Kept(r)'
<1> DEFINE length == Event[ev].length
           event  == Event[ev]
           old    == hw[r]
           new    == Recorded(old, event)
<1>1. /\ current = r /\ guestLaunch /\ bound' /\ UNCHANGED <<guestLaunch, ownRax>>
      /\ hw' = [hw EXCEPT ![r] = new]
  BY DEF exitGuest, finishLaunch, Running, ControlTyped, Only, Kept, Agrees
<1>2. /\ Running /\ ~ Running' /\ fGuestRax' = fVmcb.reg["RAX"]
      /\ \A e \in Copied : fVmcs'[e] = Returned(fVmcb, e)
      /\ fVmcb'.exit_code = event.code
      /\ fVmcs'[EXIT_REASON] = event.reason
      /\ Nrips => fVmcs'[EXIT_INSTR_LEN] =
                    IF length > 0 THEN length ELSE fVmcs[EXIT_INSTR_LEN]
      /\ \A e \in Enc \ (Copied \cup ExitEnc) : fVmcs'[e] = fVmcs[e]
  BY ExitStores
<1>3. DOMAIN hw = Region /\ DOMAIN old = Enc
  BY DEF Kept, Agrees
<1>4. /\ length = event.length
      /\ event.code = VMEXIT_INVALID => event.reason = EXIT_UNKNOWN /\ length = 0
  BY RefusalIs
<1> HIDE DEF event, length
<1>5. /\ DOMAIN new = Enc
      /\ event.code = VMEXIT_INVALID => new = old
      /\ event.code # VMEXIT_INVALID =>
           /\ new[EXIT_REASON] = event.reason
           /\ new[EXIT_INSTR_LEN] = IF length > 0 THEN length ELSE old[EXIT_INSTR_LEN]
      /\ \A e \in Enc \ (ExitEnc \cup {ENTRY_INTR_INFO}) : new[e] = old[e]
  <2> HIDE DEF old
  <2>1. LET n == Recorded(old, event)
        IN  /\ DOMAIN n = Enc
            /\ event.code = VMEXIT_INVALID => n = old
            /\ event.code # VMEXIT_INVALID =>
                 /\ n[EXIT_REASON] = event.reason
                 /\ n[EXIT_INSTR_LEN] = IF event.length > 0 THEN event.length
                                                           ELSE old[EXIT_INSTR_LEN]
            /\ \A e \in Enc \ (ExitEnc \cup {ENTRY_INTR_INFO}) : n[e] = old[e]
    BY <1>3, RecordedFields, Zenon
  <2>2. QED
    BY <1>4, <2>1
<1> HIDE DEF new
<1>6. DOMAIN hw' = Region /\ hw'[r] = new
  BY <1>1, <1>3
<1>7. ASSUME NEW e \in Copied PROVE SameValue(e, Held(e)', hw'[r][e])
  <2>1. SameValue(e, Returned(fVmcb, e), hw[r][e])
    BY <1>2 DEF Kept, Agrees, Held
  <2>2. hw'[r][e] = hw[r][e]
    BY <1>5, <1>6, CopiedFields, FieldsApart
  <2>3. QED
    BY <1>2, <2>1, <2>2 DEF Held
<1>8. /\ fVmcs'[EXIT_REASON] = IF Refused' THEN EXIT_UNKNOWN ELSE hw'[r][EXIT_REASON]
      /\ Nrips => fVmcs'[EXIT_INSTR_LEN] = hw'[r][EXIT_INSTR_LEN]
  <2>1. Refused' <=> event.code = VMEXIT_INVALID
    BY <1>2 DEF Refused
  <2>2. Nrips => fVmcs[EXIT_INSTR_LEN] = old[EXIT_INSTR_LEN]
    BY <1>1 DEF Kept, Agrees
  <2>3. CASE event.code = VMEXIT_INVALID
    BY <1>2, <1>4, <1>5, <1>6, <2>1, <2>2, <2>3
  <2>4. CASE event.code # VMEXIT_INVALID
    BY <1>2, <1>5, <1>6, <2>1, <2>2, <2>4
  <2>5. QED
    BY <2>3, <2>4
<1>9. ASSUME NEW e \in ControlEnc \ {ENTRY_INTR_INFO} PROVE fVmcs'[e] = hw'[r][e]
  <2>1. e \in Enc /\ e \notin Copied /\ e \notin ExitEnc
    BY FieldsApart
  <2>2. QED
    BY <1>2, <1>5, <1>6, <2>1 DEF Kept, Agrees
<1>10. Agrees(r)'
  BY <1>1, <1>2, <1>5, <1>6, <1>7, <1>8, <1>9 DEF Agrees
<1>11. QED
  BY <1>1, <1>2, <1>10 DEF Kept, Armed, RaxKept

(* Whatever the guest does keeps the agreement,                            *)
LEMMA GuestKept ==
  ASSUME NEW r \in Region, Only(r), Kept(r), DataTyped, ControlTyped, Guests
  PROVE  Kept(r)'
<1>1. CASE GuestRuns
  BY <1>1, RunsLoads, GuestStepKept
<1>2. CASE \E w \in GuestWrites : GuestLoadsRegister(w[1], w[2])
  BY <1>2, RegisterLoads, GuestStepKept
<1>3. CASE \E w \in GuestTables : GuestLoadsTable(w[1], w[2])
  BY <1>3, TableLoads, GuestStepKept
<1>4. CASE \E s \in Segs, d \in Descriptors : GuestLoadsSegment(s, d)
  BY <1>4, SegmentLoads, GuestStepKept
<1>5. CASE \E v \in RaxValues : GuestSetsRax(v)
  BY <1>5, RaxKeeps
<1>6. CASE \E ev \in DOMAIN Event : exitGuest(ev)
  BY <1>6, ExitKept
<1>7. QED
  BY <1>1, <1>2, <1>3, <1>4, <1>5, <1>6 DEF Guests

(* and whatever handleUD does,                                             *)
LEMMA HandleKept ==
  ASSUME NEW r \in Region, Only(r), Only(r)', Kept(r), DataTyped, ControlTyped,
         NEW hs \in Code, handleUD(hs)
  PROVE  Kept(r)'
<1>1. CASE \E w \in VmmWrites : vmwrite(hs, w[1], w[2])
  BY <1>1, WriteKept
<1>2. CASE launchDisabled(hs)
  BY <1>2, DisabledKept
<1>3. CASE enterGuest(hs)
  BY <1>3, EnterKept
<1>4. CASE ~ (\/ \E w \in VmmWrites : vmwrite(hs, w[1], w[2])
              \/ launchDisabled(hs) \/ enterGuest(hs))
  <2>1. /\ ~ Running /\ ~ Running'
        /\ UNCHANGED <<guestLaunch, bound, fVmcb, fVmcs, fGuestRax, hw, ownRax>>
    BY <1>4 DEF handleUD, NotVmx, vmxonOrOff, vmptrld, vmclear, vmptrst, vmread,
                invalidate, launchUnbound, Launch, Trap, Running, store, backend,
                reference
  <2>2. QED
    BY <2>1, QuietKept
<1>5. QED
  BY <1>1, <1>2, <1>3, <1>4

(* and so does every step.                                                 *)
LEMMA NextKept ==
  ASSUME NEW r \in Region, Only(r), Only(r)', Kept(r), DataTyped, ControlTyped,
         [Next]_vars
  PROVE  Kept(r)'
<1>1. CASE bind \/ editEpt
  <2>1. /\ ~ Running /\ ~ Running'
        /\ UNCHANGED <<guestLaunch, fVmcs, fGuestRax, hw, ownRax>>
        /\ UNCHANGED <<bound, fVmcb>> \/ (~ bound /\ fVmcb' = PreparedVmcb)
    BY <1>1 DEF bind, editEpt, ControlTyped, Running, store, backend, reference
  <2>2. QED
    BY <2>1, QuietKept
<1>2. CASE UNCHANGED vars
  <2>1. UNCHANGED <<guestLaunch, bound, fVmcs, fVmcb, fGuestRax, inflight, hw, ownRax>>
    BY <1>2 DEF vars, store, backend, reference
  <2>2. (\A e : Held(e)' = Held(e)) /\ (Refused' <=> Refused)
    BY <2>1 DEF Held, Running, Refused
  <2>3. Agrees(r)'
    BY <2>1, <2>2 DEF Kept, Agrees, Running
  <2>4. QED
    BY <2>1, <2>3 DEF Kept, Armed, RaxKept, Running
<1>3. CASE Guests
  BY <1>3, GuestKept
<1>4. CASE \E hs \in Code : handleUD(hs)
  BY <1>4, HandleKept
<1>5. QED
  BY <1>1, <1>2, <1>3, <1>4 DEF Next

(* While r alone is loaded the types and the agreement hold throughout.    *)
LEMMA SpecKept ==
  ASSUME NEW r \in Region
  PROVE  Spec /\ []Only(r) => [](DataTyped /\ ControlTyped /\ Only(r) /\ Kept(r))
<1>1. Init => Kept(r)
  BY InitKept
<1>2. Typed /\ Only(r) /\ Only(r)' /\ Kept(r) /\ [Next]_vars => Kept(r)'
  BY NextKept DEF Typed
<1>3. Typed => DataTyped /\ ControlTyped
  BY DEF Typed
<1>4. QED
  BY <1>1, <1>2, <1>3, InitTyped, NextTyped, PTL DEF Spec

(* Agreement between the runs of guests is what MatchesCurrent says.       *)
LEMMA MatchingHolds ==
  ASSUME NEW r \in Region, Only(r), ControlTyped, Kept(r), ~ Running, current # NoRegion,
         NEW e \in Enc,
         \/ e \in Copied
         \/ e = EXIT_REASON /\ guestLaunch /\ ~ Refused
         \/ e = EXIT_INSTR_LEN /\ guestLaunch /\ Nrips
         \/ e \notin Copied \cup ExitEnc /\ ~ guestLaunch
  PROVE  SameValue(e, fVmcs[e], hw[current][e])
<1>1. current = r
  BY DEF ControlTyped, Only
<1>2. QED
  BY <1>1 DEF Kept, Agrees, Held, SameValue

(* The fields an exit brings back.                                         *)
ComparedEnc == IF Refused THEN ReturnedEnc \ {EXIT_REASON} ELSE ReturnedEnc

LEMMA ComparedEncIs ==
  \A e \in ComparedEnc :
    /\ e \in Enc
    /\ e \in Copied \/ (e = EXIT_REASON /\ ~ Refused) \/ e = EXIT_INSTR_LEN
<1>1. ReturnedEnc = Copied \cup {EXIT_REASON, EXIT_INSTR_LEN}
  BY DEF ReturnedEnc, Copied, ExitEnc
<1>2. Copied \cup {EXIT_REASON, EXIT_INSTR_LEN} \subseteq Enc
  BY CopiedFields DEF ExitEnc
<1>3. QED
  BY <1>1, <1>2 DEF ComparedEnc

(* With NRIPS and as long as the VMM loads one VMCS only and writes only   *)
(* with it current, whatever it writes and however its guests run, it      *)
(* reads after an exit what an Intel processor would have stored: the      *)
(* segments, the registers, the reason and the length.  After an entry     *)
(* VMRUN refused it reads an unknown reason, and the rest as it was.       *)
THEOREM ExitStoresVmcsHolds ==
  ASSUME NEW r \in Region, Nrips
  PROVE  Spec /\ []Only(r) => []ExitStoresVmcs
<1>1. ControlTyped /\ Only(r) /\ Kept(r) => ExitStoresVmcs
  <2> SUFFICES ASSUME ControlTyped, Only(r), Kept(r), guestLaunch
               PROVE  /\ MatchesCurrent(ComparedEnc)
                      /\ Refused => fVmcs[EXIT_REASON] = EXIT_UNKNOWN
    BY DEF ExitStoresVmcs, ComparedEnc
  <2>1. MatchesCurrent(ComparedEnc)
    BY MatchingHolds, ComparedEncIs DEF MatchesCurrent
  <2>2. Refused => fVmcs[EXIT_REASON] = EXIT_UNKNOWN
    BY DEF Kept, Agrees
  <2>3. QED
    BY <2>1, <2>2
<1>2. Spec /\ []Only(r) => [](DataTyped /\ ControlTyped /\ Only(r) /\ Kept(r))
  BY SpecKept
<1>3. QED
  BY <1>1, <1>2, PTL

(* Without NRIPS the same holds of everything but the length.              *)
THEOREM ExitStoresAllButLength ==
  ASSUME NEW r \in Region
  PROVE  Spec /\ []Only(r) =>
           [](guestLaunch => MatchesCurrent(ComparedEnc \ {EXIT_INSTR_LEN}))
<1>1. ControlTyped /\ Only(r) /\ Kept(r)
        => (guestLaunch => MatchesCurrent(ComparedEnc \ {EXIT_INSTR_LEN}))
  BY MatchingHolds, ComparedEncIs DEF MatchesCurrent
<1>2. Spec /\ []Only(r) => [](DataTyped /\ ControlTyped /\ Only(r) /\ Kept(r))
  BY SpecKept
<1>3. QED
  BY <1>1, <1>2, PTL

(* With the world switch compiled out, any number of launches leaves every *)
(* field of the only VMCS loaded as the VMM wrote it.                      *)
THEOREM DisabledLaunchKeepsVmcsHolds ==
  ASSUME NEW r \in Region
  PROVE  Spec /\ []Only(r) => []DisabledLaunchKeepsVmcs
<1>1. ControlTyped /\ Only(r) /\ Kept(r) => DisabledLaunchKeepsVmcs
  BY MatchingHolds, CopiedFields DEF DisabledLaunchKeepsVmcs, MatchesCurrent
<1>2. Spec /\ []Only(r) => [](DataTyped /\ ControlTyped /\ Only(r) /\ Kept(r))
  BY SpecKept
<1>3. QED
  BY <1>1, <1>2, PTL

(* The guest finds in its save area what the VMM reads in its VMCS.        *)
LEMMA EntryFinds ==
  ASSUME NEW vmcs, Fitting(vmcs), Launchable(vmcs), NEW vmcb, Shaped(vmcb), NEW rax,
         fVmcs' = vmcs, fVmcb' = translateVmcsToVmcb(vmcs, vmcb, rax),
         NEW e \in SegEnc \cup TableEnc \cup GuestEnc
  PROVE  GuestFinds(e)'
<1>1. /\ fVmcb'.seg = segmentsToVmcb(vmcs) /\ fVmcb'.table = tablesToVmcb(vmcs)
      /\ fVmcb'.reg = registersToVmcb(vmcs, rax)
  BY EntryFields
<1>2. /\ fVmcb'.reg["EFER"] = vmcs[EFER] \cup {EFER_SVME}
      /\ \A q \in PlainRegs \cup {"RIP", "PAT"} : fVmcb'.reg[q] = vmcs[Guest(q)]
  BY <1>1, EntryRegisters
<1>3. \A f \in Enc : Fits(f, vmcs[f])
  BY DEF Fitting
<1>4. ASSUME NEW s \in Segs, e \in {Selector(s), Limit(s), Base(s), Access(s)}
      PROVE  GuestFinds(e)'
  <2>1. /\ fVmcb'.seg[s].selector = Low(vmcs[Selector(s)], 16)
        /\ fVmcb'.seg[s].limit = Low(vmcs[Limit(s)], 32)
        /\ fVmcb'.seg[s].base = vmcs[Base(s)]
        /\ fVmcb'.seg[s].attrib = vmxArToSvmAttrib(Low(vmcs[Access(s)], 32))
    BY <1>1, EntrySegments
  <2>2. /\ vmcs[Selector(s)] \subseteq Bits(0, 15) /\ vmcs[Limit(s)] \subseteq Bits(0, 31)
        /\ Fits(Access(s), vmcs[Access(s)])
    BY <1>3, CopiedFields, FitsByGroup
  <2>3. Low(vmcs[Selector(s)], 16) = vmcs[Selector(s)]
        /\ Low(vmcs[Limit(s)], 32) = vmcs[Limit(s)]
    BY <2>2, LowIsWhole
  <2>4. SameSegment(vmcs[Access(s)], fVmcb'.seg[s].attrib)
    BY <2>1, <2>2, AttributesOfSameSegment DEF Launchable
  <2>5. CASE e = Selector(s)
    BY <2>1, <2>3, <2>5 DEF GuestFinds, GuestHas, EFER, Guest, Selector
  <2>6. CASE e = Limit(s)
    BY <2>1, <2>3, <2>6 DEF GuestFinds, GuestHas, EFER, Guest, Limit
  <2>7. CASE e = Base(s)
    BY <2>1, <2>7 DEF GuestFinds, GuestHas, EFER, Guest, Base
  <2>8. CASE e = Access(s)
    BY <2>4, <2>8 DEF GuestFinds, Access
  <2>9. QED
    BY <1>4, <2>5, <2>6, <2>7, <2>8
<1>5. ASSUME NEW q \in PlainRegs \cup {"RIP", "PAT", "EFER"}, e = Guest(q)
      PROVE  GuestFinds(e)'
  <2>1. e[1] = "GUEST" /\ e[2] = q /\ (e = EFER <=> q = "EFER")
    BY <1>5 DEF Guest, EFER
  <2>2. CASE q = "EFER"
    <3>1. EFER \in Enc
      BY DEF EFER, Guest, Enc, GuestEnc
    <3>2. EFER_SVME \notin vmcs[EFER]
      BY <1>3, <3>1, FitsByGroup
    <3>3. fVmcb'.reg["EFER"] \ {EFER_SVME} = vmcs[EFER]
      BY <1>2, <3>2
    <3>4. QED
      BY <2>1, <2>2, <3>3 DEF GuestFinds, GuestHas
  <2>3. CASE q # "EFER"
    BY <1>2, <1>5, <2>1, <2>3 DEF GuestFinds, GuestHas
  <2>4. QED
    BY <2>2, <2>3
<1>6. ASSUME NEW t \in Tables, e \in {TableBase(t), TableLimit(t)}
      PROVE  GuestFinds(e)'
  <2>1. TableLimit(t) \in Enc
    BY DEF TableLimit, Enc, TableEnc
  <2>2. Low(vmcs[TableLimit(t)], 32) = vmcs[TableLimit(t)]
    BY <1>3, <2>1, FitsByGroup, LowIsWhole
  <2>3. /\ fVmcb'.table[t].base = vmcs[TableBase(t)]
        /\ fVmcb'.table[t].limit = vmcs[TableLimit(t)]
    BY <1>1, <2>2 DEF tablesToVmcb
  <2>4. CASE e = TableBase(t)
    BY <2>3, <2>4 DEF GuestFinds, GuestHas, EFER, Guest, TableBase
  <2>5. CASE e = TableLimit(t)
    BY <2>3, <2>5 DEF GuestFinds, GuestHas, EFER, Guest, TableLimit
  <2>6. QED
    BY <1>6, <2>4, <2>5
<1>7. \/ \E s \in Segs : e \in {Selector(s), Limit(s), Base(s), Access(s)}
      \/ \E q \in PlainRegs \cup {"RIP", "PAT", "EFER"} : e = Guest(q)
      \/ \E t \in Tables : e \in {TableBase(t), TableLimit(t)}
  <2>1. CASE e \in SegEnc
    BY <2>1 DEF SegEnc, Selector, Limit, Base, Access
  <2>2. CASE e \in TableEnc
    <3>1. e[1] \in {"TABLE BASE", "TABLE LIMIT"} /\ e[2] \in Tables /\ e = <<e[1], e[2]>>
      <4> DEFINE parts == {"TABLE BASE", "TABLE LIMIT"}
      <4>1. e \in parts \X Tables
        BY <2>2 DEF TableEnc
      <4> HIDE DEF parts
      <4>2. e[1] \in parts /\ e[2] \in Tables /\ e = <<e[1], e[2]>>
        BY <4>1
      <4>3. QED
        BY <4>2 DEF parts
    <3>2. QED
      BY <3>1 DEF TableBase, TableLimit
  <2>3. CASE e \in GuestEnc
    BY <2>3 DEF GuestEnc, Guest
  <2>4. QED
    BY <2>1, <2>2, <2>3
<1>8. QED
  BY <1>4, <1>5, <1>6, <1>7

(* While one VMCS only is loaded and whatever earlier guests left in the   *)
(* VMCB, a guest enters with the state the VMM would read in its VMCS and  *)
(* with its own RAX.                                                       *)
THEOREM EntryLoadsVmcsHolds ==
  ASSUME NEW r \in Region
  PROVE  Spec /\ []Only(r) => EntryLoadsVmcs
<1> DEFINE Loaded ==
             ~ Running /\ Running' =>
               /\ (\A e \in SegEnc \cup TableEnc \cup GuestEnc : GuestFinds(e))'
               /\ fVmcb'.reg["RAX"] = ownRax
<1>1. DataTyped /\ ControlTyped /\ Only(r) /\ Kept(r) /\ [Next]_vars => Loaded
  <2> SUFFICES ASSUME DataTyped, ControlTyped, Only(r), Kept(r), [Next]_vars, ~ Running, Running'
               PROVE  /\ \A e \in SegEnc \cup TableEnc \cup GuestEnc : GuestFinds(e)'
                      /\ fVmcb'.reg["RAX"] = ownRax
    OBVIOUS
  <2>1. PICK hs \in Code : enterGuest(hs)
    BY Boundaries
  <2>2. /\ Launch(hs) /\ fVmcs' = fVmcs
        /\ fVmcb' = translateVmcsToVmcb(fVmcs, fVmcb, fGuestRax)
    BY <2>1 DEF enterGuest, store
  <2>3. Launchable(fVmcs)
    BY <2>2, ShadowLaunchable
  <2>4. Fitting(fVmcs) /\ Shaped(fVmcb)
    BY DEF DataTyped, SaveAreaFits
  <2>5. \A e \in SegEnc \cup TableEnc \cup GuestEnc : GuestFinds(e)'
    BY <2>2, <2>3, <2>4, EntryFinds
  <2>6. fVmcb'.reg["RAX"] = fGuestRax
    BY <2>2, <2>4, EntryFields, EntryRegisters
  <2>7. QED
    BY <2>5, <2>6 DEF Kept, RaxKept
<1>2. Spec /\ []Only(r) => [](DataTyped /\ ControlTyped /\ Only(r) /\ Kept(r))
  BY SpecKept
<1>3. QED
  BY <1>1, <1>2, PTL DEF Spec, EntryLoadsVmcs

(* The shadow holds the controls of the current VMCS.                      *)
LEMMA ControlsAgree ==
  ASSUME NEW r, Kept(r)
  PROVE  /\ fVmcs[CPU] = hw[r][CPU] /\ fVmcs[PIN] = hw[r][PIN]
         /\ fVmcs[SECONDARY] = hw[r][SECONDARY]
         /\ fVmcs[EXCEPTION_BITMAP] = hw[r][EXCEPTION_BITMAP]
<1>1. {CPU, PIN, SECONDARY, EXCEPTION_BITMAP} \subseteq ControlEnc \ {ENTRY_INTR_INFO}
  BY DEF ControlEnc, PIN, CPU, SECONDARY, EXCEPTION_BITMAP, ENTRY_INTR_INFO
<1>2. QED
  BY <1>1 DEF Kept, Agrees

(* An exit was asked for in the controls the intercepts were made from.    *)
LEMMA ExitAsked ==
  ASSUME NEW r \in Region, Only(r), DataTyped, ControlTyped, Kept(r),
         NEW ev \in DOMAIN Event, exitGuest(ev)
  PROVE  Asked(fVmcs'[EXIT_REASON])
<1>1. Running /\ current = r
  BY DEF exitGuest, Running, ControlTyped, Only
<1>2. fVmcs'[EXIT_REASON] = Event[ev].reason
  <2>1. fVmcb'.exit_code = Event[ev].code /\ fVmcs' = translateVmcbToVmcs(fVmcb', fVmcs, Nrips)
    BY DEF exitGuest, finishLaunch, DataTyped, SaveAreaFits, Shaped, VmcbFields
  <2>2. fVmcs'[EXIT_REASON] = svmExitToVmxReason(fVmcb'.exit_code, fVmcb'.exit_info_1)
    BY <2>1, ReturnFields
  <2>3. QED
    BY <2>1, <2>2, ReasonOfEvent
<1>3. /\ fVmcb.intercept_1 = intercept1(fVmcs)
      /\ fVmcb.intercept_exceptions = Low(fVmcs[EXCEPTION_BITMAP], 32)
      /\ fVmcb.np_enable = nestedPaging(fVmcs)
  BY <1>1 DEF Kept, Armed
<1>4. /\ fVmcs[CPU] = hw[r][CPU] /\ fVmcs[PIN] = hw[r][PIN]
      /\ fVmcs[SECONDARY] = hw[r][SECONDARY]
      /\ fVmcs[EXCEPTION_BITMAP] = hw[r][EXCEPTION_BITMAP]
  BY ControlsAgree
<1> USE DEF EXIT_HLT, EXIT_EXTERNAL_INTERRUPT, EXIT_EXCEPTION_NMI, EXIT_EPT_VIOLATION,
            EXIT_CPUID, EXIT_VMCALL, EXIT_UNKNOWN
<1>5. CASE ev = "hlt"
  <2>1. INTERCEPT_HLT \in intercept1(fVmcs)
    BY <1>3, <1>5 DEF exitGuest, Occurs
  <2>2. CPU_CTL_HLT_EXITING \in hw[r][CPU]
    BY <1>4, <2>1 DEF intercept1, INTERCEPT_HLT, INTERCEPT_INTR
  <2>3. QED
    BY <1>1, <1>2, <1>5, <2>2 DEF Event, Cause, Asked
<1>6. CASE ev = "interrupt"
  <2>1. INTERCEPT_INTR \in intercept1(fVmcs)
    BY <1>3, <1>6 DEF exitGuest, Occurs
  <2>2. PIN_CTL_EXT_INTR_EXITING \in hw[r][PIN]
    BY <1>4, <2>1 DEF intercept1, INTERCEPT_HLT, INTERCEPT_INTR
  <2>3. QED
    BY <1>1, <1>2, <1>6, <2>2 DEF Event, Cause, Asked
<1>7. CASE ev = "exception"
  <2>1. 14 \in Low(fVmcs[EXCEPTION_BITMAP], 32)
    BY <1>3, <1>7 DEF exitGuest, Occurs
  <2>2. 14 \in hw[r][EXCEPTION_BITMAP]
    BY <1>4, <2>1 DEF Low
  <2>3. QED
    BY <1>1, <1>2, <1>7, <2>2 DEF Event, Cause, Asked
<1>8. CASE ev = "npf"
  <2>1. nestedPaging(fVmcs)
    BY <1>3, <1>8 DEF exitGuest, Occurs
  <2>2. CPU_CTL_SECONDARY_CTLS \in hw[r][CPU] /\ SEC_CTL_ENABLE_EPT \in hw[r][SECONDARY]
    BY <1>4, <2>1 DEF nestedPaging, secondaryControls, Low
  <2>3. QED
    BY <1>1, <1>2, <1>8, <2>2 DEF Event, Cause, Asked
<1>9. CASE ev \in {"cpuid", "vmmcall", "invalid"}
  <2>1. Event[ev].reason \in {EXIT_CPUID, EXIT_VMCALL, EXIT_UNKNOWN}
    BY <1>9 DEF Event, Cause
  <2>2. QED
    BY <1>2, <2>1 DEF Asked
<1>10. QED
  BY <1>5, <1>6, <1>7, <1>8, <1>9 DEF Event

(* While one VMCS only is loaded no guest exits for a reason the VMM has   *)
(* not asked for in the controls as they stand.                            *)
THEOREM ExitsAskedForHolds ==
  ASSUME NEW r \in Region
  PROVE  Spec /\ []Only(r) => ExitsAskedFor
<1>1. DataTyped /\ ControlTyped /\ Only(r) /\ Kept(r) /\ [Next]_vars
        => (Running /\ ~ Running' /\ ~ strayed => Asked(fVmcs'[EXIT_REASON]))
  BY Boundaries, ExitAsked
<1>2. Spec /\ []Only(r) => [](DataTyped /\ ControlTyped /\ Only(r) /\ Kept(r))
  BY SpecKept
<1>3. QED
  BY <1>1, <1>2, PTL DEF Spec, ExitsAskedFor

(* The shadow's controls are the VMCS's, and the VMCB armed them.          *)
LEMMA RunningArmed ==
  ASSUME NEW r \in Region, Only(r), ControlTyped, Kept(r), Running
  PROVE  /\ Asked(EXIT_HLT) => INTERCEPT_HLT \in fVmcb.intercept_1
         /\ Asked(EXIT_EXTERNAL_INTERRUPT) => INTERCEPT_INTR \in fVmcb.intercept_1
         /\ Asked(EXIT_EPT_VIOLATION) => fVmcb.np_enable
         /\ hw[current][EXCEPTION_BITMAP] \cap Bits(0, 31)
              \subseteq fVmcb.intercept_exceptions
<1>1. current = r
  BY DEF ControlTyped, Only
<1>2. /\ fVmcb.intercept_1 = intercept1(fVmcs)
      /\ fVmcb.intercept_exceptions = Low(fVmcs[EXCEPTION_BITMAP], 32)
      /\ fVmcb.np_enable = nestedPaging(fVmcs)
  BY DEF Kept, Armed
<1>3. /\ fVmcs[CPU] = hw[r][CPU] /\ fVmcs[PIN] = hw[r][PIN]
      /\ fVmcs[SECONDARY] = hw[r][SECONDARY]
      /\ fVmcs[EXCEPTION_BITMAP] = hw[r][EXCEPTION_BITMAP]
  BY ControlsAgree
<1>4. ASSUME Asked(EXIT_HLT) PROVE INTERCEPT_HLT \in fVmcb.intercept_1
  <2>1. CPU_CTL_HLT_EXITING \in fVmcs[CPU]
    BY <1>1, <1>3, <1>4 DEF Asked, EXIT_HLT, EXIT_EXTERNAL_INTERRUPT,
                            EXIT_EXCEPTION_NMI, EXIT_EPT_VIOLATION
  <2>2. QED
    BY <1>2, <2>1 DEF intercept1
<1>5. ASSUME Asked(EXIT_EXTERNAL_INTERRUPT)
      PROVE  INTERCEPT_INTR \in fVmcb.intercept_1
  <2>1. PIN_CTL_EXT_INTR_EXITING \in fVmcs[PIN]
    BY <1>1, <1>3, <1>5 DEF Asked, EXIT_HLT, EXIT_EXTERNAL_INTERRUPT,
                            EXIT_EXCEPTION_NMI, EXIT_EPT_VIOLATION
  <2>2. QED
    BY <1>2, <2>1 DEF intercept1
<1>6. ASSUME Asked(EXIT_EPT_VIOLATION) PROVE fVmcb.np_enable
  <2>1. CPU_CTL_SECONDARY_CTLS \in fVmcs[CPU] /\ SEC_CTL_ENABLE_EPT \in fVmcs[SECONDARY]
    BY <1>1, <1>3, <1>6 DEF Asked, EXIT_HLT, EXIT_EXTERNAL_INTERRUPT,
                            EXIT_EXCEPTION_NMI, EXIT_EPT_VIOLATION
  <2>2. nestedPaging(fVmcs)
    BY <2>1 DEF nestedPaging, secondaryControls, Low, SEC_CTL_ENABLE_EPT
  <2>3. QED
    BY <1>2, <2>2
<1>7. hw[current][EXCEPTION_BITMAP] \cap Bits(0, 31) \subseteq fVmcb.intercept_exceptions
  BY <1>1, <1>2, <1>3 DEF Low, Bits
<1>8. QED
  BY <1>4, <1>5, <1>6, <1>7

(* While one VMCS only is loaded, and written to, what the VMM asked for   *)
(* with the controls the translation reads (HLT and external-interrupt     *)
(* exiting, EPT, the exception bitmap) is armed while its guest runs: what *)
(* GuestYields needs besides fairness and a guest that enables interrupts. *)
THEOREM AskedForArmedHolds ==
  ASSUME NEW r \in Region
  PROVE  Spec /\ []Only(r) => []AskedForArmed
<1>1. ControlTyped /\ Only(r) /\ Kept(r) => AskedForArmed
  BY RunningArmed DEF AskedForArmed
<1>2. Spec /\ []Only(r) => [](DataTyped /\ ControlTyped /\ Only(r) /\ Kept(r))
  BY SpecKept
<1>3. QED
  BY <1>1, <1>2, PTL

------------------------------------------------------------------------------
\* One VMCS and no VMCB, whatever VMPTRLD names

Memory == [e \in KeptEnc |-> Meaning(e, Holds(e))]

\* The instruction pointer of an exit there never was.
NeverExited == ~ guestLaunch => fVmcb.nrip = 0

\* What Machine needs of the emulator besides its types.
Machined == Armed /\ NoGuestRuns /\ NeverExited

(* Only the access rights mean less than they hold.                        *)
LEMMA MeaningIs ==
  /\ \A e, v : e[1] # "AR" => Meaning(e, v) = v
  /\ \A e, x, y : SameValue(e, x, y) => Meaning(e, x) = Meaning(e, y)
  BY DEF Meaning, SameValue

(* The fields Machine has.                                                 *)
LEMMA KeptFields ==
  /\ KeptEnc \subseteq Enc /\ Copied \subseteq KeptEnc /\ ExitEnc \subseteq KeptEnc
  /\ {CPU, PIN, SECONDARY, EXCEPTION_BITMAP} \subseteq KeptEnc \ (Copied \cup ExitEnc)
  /\ \A e \in {CPU, PIN, SECONDARY, EXCEPTION_BITMAP, RIP} \cup ExitEnc : e[1] # "AR"
  /\ \A t \in Tables : TableBase(t) \notin KeptEnc
<1>1. KeptEnc \subseteq Enc
  BY DEF KeptEnc
<1>2. \A e \in TableEnc : e[1] \in {"TABLE BASE", "TABLE LIMIT"}
  BY DEF TableEnc
<1>3. /\ \A e \in Copied : e[1] \in {"SELECTOR", "LIMIT", "BASE", "AR", "GUEST"}
      /\ \A e \in ExitEnc : e[1] = "EXIT"
      /\ \A e \in {CPU, PIN, SECONDARY, EXCEPTION_BITMAP} : e[1] = "CONTROL"
  BY DEF Copied, SegEnc, ExitEnc, EXIT_REASON, EXIT_INSTR_LEN, PIN, CPU, SECONDARY,
         EXCEPTION_BITMAP
<1>4. Copied \subseteq KeptEnc /\ ExitEnc \subseteq KeptEnc
  BY <1>2, <1>3, CopiedFields, FieldsApart DEF KeptEnc
<1>5. {CPU, PIN, SECONDARY, EXCEPTION_BITMAP} \subseteq ControlEnc \ {ENTRY_INTR_INFO}
  BY DEF ControlEnc, PIN, CPU, SECONDARY, EXCEPTION_BITMAP, ENTRY_INTR_INFO
<1>6. {CPU, PIN, SECONDARY, EXCEPTION_BITMAP} \subseteq KeptEnc \ (Copied \cup ExitEnc)
  BY <1>2, <1>3, <1>5, FieldsApart DEF KeptEnc
<1>7. \A e \in {CPU, PIN, SECONDARY, EXCEPTION_BITMAP, RIP} \cup ExitEnc : e[1] # "AR"
  BY <1>3 DEF RIP, Guest
<1>8. \A t \in Tables : TableBase(t) \notin KeptEnc
  BY DEF TableBase, KeptEnc, TableEnc
<1>9. QED
  BY <1>1, <1>4, <1>6, <1>7, <1>8

(* The attributes of a segment come back as the access rights they mean.   *)
LEMMA RightsReturned ==
  ASSUME NEW attrib, attrib \subseteq Bits(0, 11)
  PROVE  RightsOf(attrib) = svmAttribToVmxAr(attrib)
<1> DEFINE ar == svmAttribToVmxAr(attrib)
<1>1. CASE ATTRIB_P \notin attrib
  BY <1>1 DEF RightsOf, svmAttribToVmxAr
<1>2. CASE ATTRIB_P \in attrib
  <2>1. attrib \in SUBSET Nat
    BY DEF Bits
  <2>2. \A b \in Nat : b \in ar <=> \/ b \in Bits(0, 7) /\ b \in attrib
                                    \/ b \in Bits(12, 15) /\ b - 4 \in attrib
    BY <1>2, <2>1, AccessBits
  <2>3. ar \subseteq Nat
    <3>1. ar \subseteq Bits(0, 63)
      BY <2>1, SegmentWords
    <3> HIDE DEF ar
    <3>2. QED
      BY <3>1 DEF Bits
  <2> HIDE DEF ar
  <2> DEFINE rights == (attrib \cap Bits(0, 7)) \cup {b + 4 : b \in attrib \cap Bits(8, 11)}
  <2>4. ASSUME NEW b \in ar PROVE b \in rights
    <3>1. CASE b \in Bits(0, 7) /\ b \in attrib
      BY <3>1
    <3>2. CASE b \in Bits(12, 15) /\ b - 4 \in attrib
      <4>1. b - 4 \in attrib \cap Bits(8, 11) /\ b = (b - 4) + 4
        BY <3>2 DEF Bits
      <4>2. QED
        BY <4>1
    <3>3. QED
      BY <2>2, <2>3, <3>1, <3>2
  <2>5. ASSUME NEW b \in attrib \cap Bits(8, 11) PROVE b + 4 \in ar
    <3>1. b + 4 \in Nat /\ b + 4 \in Bits(12, 15) /\ (b + 4) - 4 = b
      BY DEF Bits
    <3>2. QED
      BY <2>2, <3>1
  <2>6. attrib \cap Bits(0, 7) \subseteq ar
    BY <2>1, <2>2
  <2>7. ar = rights
    BY <2>4, <2>5, <2>6
  <2>8. QED
    BY <1>2, <2>7 DEF RightsOf, ar
<1>3. QED
  BY <1>1, <1>2

(* What an exit brings back is what the guest had, read by the layouts of  *)
(* the manuals.                                                            *)
LEMMA ReturnedIsGuests ==
  ASSUME NEW vmcb, SaveAreaFits(vmcb), NEW e \in Copied
  PROVE  GuestHas(vmcb, e) = Returned(vmcb, e)
<1>1. ASSUME NEW s \in Segs, e \in {Selector(s), Limit(s), Base(s), Access(s)}
      PROVE  GuestHas(vmcb, e) = Returned(vmcb, e)
  <2> USE DEF GuestHas, EFER, Guest
  <2>1. CASE e = Selector(s)
    BY <2>1, ReturnedFields DEF Selector
  <2>2. CASE e = Limit(s)
    BY <2>2, ReturnedFields DEF Limit
  <2>3. CASE e = Base(s)
    BY <2>3, ReturnedFields DEF Base
  <2>4. CASE e = Access(s)
    <3>1. RightsOf(vmcb.seg[s].attrib) = svmAttribToVmxAr(vmcb.seg[s].attrib)
      BY RightsReturned DEF SaveAreaFits, SegmentFits
    <3>2. GuestHas(vmcb, e) = RightsOf(vmcb.seg[s].attrib)
      BY <2>4 DEF Access
    <3>3. QED
      BY <2>4, <3>1, <3>2, ReturnedFields
  <2>5. QED
    BY <1>1, <2>1, <2>2, <2>3, <2>4
<1>2. ASSUME NEW q \in PlainRegs \cup {"RIP", "EFER"}, e = Guest(q)
      PROVE  GuestHas(vmcb, e) = Returned(vmcb, e)
  <2>1. e[1] = "GUEST" /\ e[2] = q /\ (e = EFER <=> q = "EFER")
    BY <1>2 DEF Guest, EFER
  <2>2. CASE q = "EFER"
    BY <2>1, <2>2, ReturnedFields DEF GuestHas
  <2>3. CASE q # "EFER"
    BY <1>2, <2>1, <2>3, ReturnedFields DEF GuestHas
  <2>4. QED
    BY <2>2, <2>3
<1>3. QED
  BY <1>1, <1>2, CopiedFields

\* What reading the memory of Machine in the emulator needs.
Readable ==
  /\ SaveAreaFits(fVmcb)
  /\ Running => fVmcb.reg["PAT"] = fVmcs[PAT]

(* While a guest runs the fields an exit copies are in the save area; all  *)
(* others, and every field otherwise, read the same in the shadow.         *)
LEMMA HoldsIs ==
  /\ Readable => \A e \in KeptEnc :
       Holds(e) = IF Running /\ e \in Copied THEN Returned(fVmcb, e) ELSE fVmcs[e]
  /\ Readable' => \A e \in KeptEnc :
       Holds(e)' = IF Running' /\ e \in Copied THEN Returned(fVmcb', e) ELSE fVmcs'[e]
<1>1. SegEnc \cup GuestEnc = Copied \cup {PAT}
  BY DEF Copied, GuestEnc, PAT, Guest
<1>2. \A vmcb : GuestHas(vmcb, PAT) = vmcb.reg["PAT"]
  BY DEF GuestHas, PAT, EFER, Guest
<1>3. PAT \notin Copied
  BY TranslateAssumption DEF Copied, SegEnc, PAT, Guest
<1>4. ASSUME NEW e \in KeptEnc, NEW vmcb, SaveAreaFits(vmcb), NEW vmcs,
             NEW running \in BOOLEAN, running => vmcb.reg["PAT"] = vmcs[PAT]
      PROVE  (IF running /\ e \in SegEnc \cup GuestEnc THEN GuestHas(vmcb, e) ELSE vmcs[e])
               = IF running /\ e \in Copied THEN Returned(vmcb, e) ELSE vmcs[e]
  BY <1>1, <1>2, <1>3, <1>4, ReturnedIsGuests
<1>5. ASSUME Readable, NEW e \in KeptEnc
      PROVE  Holds(e) = IF Running /\ e \in Copied THEN Returned(fVmcb, e) ELSE fVmcs[e]
  <2>1. SaveAreaFits(fVmcb) /\ (Running => fVmcb.reg["PAT"] = fVmcs[PAT])
    BY <1>5 DEF Readable
  <2>2. Running \in BOOLEAN
    BY DEF Running
  <2>3. QED
    BY <1>4, <2>1, <2>2 DEF Holds
<1>6. ASSUME Readable', NEW e \in KeptEnc
      PROVE  Holds(e)' = IF Running' /\ e \in Copied THEN Returned(fVmcb', e) ELSE fVmcs'[e]
  <2>1. SaveAreaFits(fVmcb') /\ (Running' => fVmcb'.reg["PAT"] = fVmcs'[PAT])
    BY <1>6 DEF Readable
  <2>2. Running' \in BOOLEAN
    BY DEF Running
  <2>3. QED
    BY <1>4, <2>1, <2>2 DEF Holds
<1>7. QED
  BY <1>5, <1>6

(* The memory after a step that touches no field, and one field.           *)
LEMMA MemorySame ==
  ASSUME \A e \in KeptEnc : Meaning(e, Holds(e)') = Meaning(e, Holds(e))
  PROVE  Memory' = Memory
  BY DEF Memory, Meaning

LEMMA MemoryWritten ==
  ASSUME NEW e \in KeptEnc, NEW v, Meaning(e, Holds(e)') = v,
         \A f \in KeptEnc \ {e} : Meaning(f, Holds(f)') = Meaning(f, Holds(f))
  PROVE  Memory' = [Memory EXCEPT ![e] = v]
  BY DEF Memory, Meaning

(* From the VMCS to the VMCB and back no field means anything else, be the *)
(* segments present or not.                                                *)
LEMMA EntryMeans ==
  ASSUME NEW vmcs, Fitting(vmcs), NEW vmcb, Shaped(vmcb), NEW rax, NEW e \in Copied
  PROVE  Meaning(e, Returned(translateVmcsToVmcb(vmcs, vmcb, rax), e)) = Meaning(e, vmcs[e])
<1> DEFINE n == translateVmcsToVmcb(vmcs, vmcb, rax)
<1>1. CASE \A s \in Segs : e = Access(s) => vmcs[e] \cap {ATTRIB_P, AR_UNUSABLE} # {}
  BY <1>1, EntryRoundTrip, MeaningIs
<1>2. ASSUME NEW s \in Segs, e = Access(s), vmcs[e] \cap {ATTRIB_P, AR_UNUSABLE} = {}
      PROVE  Meaning(e, Returned(n, e)) = Meaning(e, vmcs[e])
  <2> DEFINE attrib == vmxArToSvmAttrib(Low(vmcs[e], 32))
  <2>1. n.seg[s].attrib = attrib
    BY <1>2, EntryFields, EntrySegments
  <2> HIDE DEF n
  <2>2. ATTRIB_P \notin attrib
    BY <1>2 DEF vmxArToSvmAttrib, Low, Bits, ATTRIB_P
  <2> HIDE DEF attrib
  <2>3. Returned(n, e) = {AR_UNUSABLE}
    BY <1>2, <2>1, <2>2, ReturnedFields DEF svmAttribToVmxAr
  <2>4. QED
    BY <1>2, <2>3 DEF Meaning, Access
<1>3. QED
  BY <1>1, <1>2

------------------------------------------------------------------------------
\* Each step of the emulator is one of Machine, or none

OwnRax == IF Running THEN fVmcb.reg["RAX"] ELSE fGuestRax

(* No step of Machine.                                                     *)
LEMMA MachineStutters ==
  ASSUME Running' <=> Running, UNCHANGED <<guestLaunch, Memory, OwnRax>>
  PROVE  UNCHANGED Machine!machineVars
<1>1. Running' = Running
  BY DEF Running
<1>2. QED
  BY <1>1 DEF Machine!machineVars, Memory, OwnRax

(* Steps outside the guest that change no field are none.                  *)
LEMMA QuietStep ==
  ASSUME Readable, Readable', ~ Running, ~ Running',
         UNCHANGED <<guestLaunch, fVmcs, fGuestRax>>
  PROVE  UNCHANGED Machine!machineVars
<1>1. Memory' = Memory
  BY HoldsIs, MemorySame
<1>2. OwnRax' = OwnRax
  BY DEF OwnRax
<1>3. QED
  BY <1>1, <1>2, MachineStutters

(* VMWRITE writes its field, or one that Machine has not.                  *)
LEMMA WriteStep ==
  ASSUME DataTyped, Readable, Readable', NEW hs,
         NEW w \in VmmWrites, vmwrite(hs, w[1], w[2])
  PROVE  Machine!MachineNext \/ UNCHANGED Machine!machineVars
<1> DEFINE v == Meaning(w[1], w[2])
<1>1. /\ ~ Running /\ ~ Running' /\ fVmcs' = [fVmcs EXCEPT ![w[1]] = w[2]]
      /\ UNCHANGED <<guestLaunch, fGuestRax>>
  BY DEF vmwrite, Trap, Running, backend
<1>2. \A e \in KeptEnc : /\ Holds(e)' = IF e = w[1] THEN w[2] ELSE fVmcs[e]
                         /\ Holds(e) = fVmcs[e]
  BY <1>1, HoldsIs, KeptFields DEF DataTyped, Fitting
<1>3. OwnRax' = OwnRax
  BY <1>1 DEF OwnRax
<1>4. CASE w[1] \in KeptEnc
  <2>1. Memory' = [Memory EXCEPT ![w[1]] = v]
    BY <1>2, <1>4, MemoryWritten
  <2> DEFINE x == <<w[1], v>>
  <2>2. x \in WritesMeant /\ x[1] = w[1] /\ x[2] = v
    BY <1>4 DEF WritesMeant, Means
  <2>3. Machine!MachineWrite(w[1], v)
    <3>1. Running' = Running
      BY <1>1 DEF Running
    <3>2. QED
      BY <1>1, <1>3, <2>1, <3>1 DEF Machine!MachineWrite, Memory, OwnRax
  <2> HIDE DEF v, x
  <2>4. Machine!MachineWrite(x[1], x[2])
    BY <2>2, <2>3
  <2>5. QED
    BY <2>2, <2>4 DEF Machine!MachineNext
<1>5. CASE w[1] \notin KeptEnc
  <2>1. Memory' = Memory
    BY <1>2, <1>5, MemorySame
  <2>2. QED
    BY <1>1, <1>3, <2>1, MachineStutters
<1>6. QED
  BY <1>4, <1>5

(* A launch that enters no guest is a refusal.                             *)
LEMMA DisabledStep ==
  ASSUME DataTyped, Readable, Readable', NeverExited, NEW hs, launchDisabled(hs)
  PROVE  Machine!MachineRefuse
<1> DEFINE n    == translateVmcsToVmcb(fVmcs, fVmcb, fGuestRax)
           vmcb == fVmcb'
           back == translateVmcbToVmcs(vmcb, fVmcs, Nrips)
<1>1. Shaped(fVmcb) /\ Fitting(fVmcs)
  BY DEF DataTyped, SaveAreaFits
<1>2. /\ DOMAIN n = VmcbFields /\ n.reg["RAX"] = fGuestRax /\ n.nrip = fVmcb.nrip
      /\ n.reg["RIP"] = fVmcs[RIP]
  BY <1>1, EntryFields, EntryRegisters DEF RIP
<1>3. \A e \in Copied : Meaning(e, Returned(n, e)) = Meaning(e, fVmcs[e])
  BY <1>1, EntryMeans
<1>4. /\ vmcb = [n EXCEPT !.exit_code = VMEXIT_INVALID] /\ fVmcs' = back
      /\ fGuestRax' = vmcb.reg["RAX"]
      /\ ~ Running /\ ~ Running' /\ ~ guestLaunch /\ UNCHANGED guestLaunch
  BY DEF launchDisabled, finishLaunch, Launch, Trap, Running
<1> HIDE DEF n, vmcb
<1>5. /\ vmcb.seg = n.seg /\ vmcb.reg = n.reg /\ vmcb.exit_code = VMEXIT_INVALID
      /\ vmcb.nrip = n.nrip
  BY <1>2, <1>4 DEF VmcbFields
<1>6. \A e : Returned(vmcb, e) = Returned(n, e)
  BY <1>5 DEF Returned, registerField, segmentField
<1>7. ~ lengthKnown(vmcb, Nrips)
  <2>1. fVmcs[RIP] \in Nat
    BY <1>1, CopiedFields, FitsByGroup, EmulatorAssumption DEF Fitting, RIP
  <2>2. QED
    BY <1>2, <1>4, <1>5, <2>1 DEF lengthKnown, NeverExited
<1>8. back[EXIT_REASON] = EXIT_UNKNOWN
  BY <1>5, InvalidIsUnknown
<1>9. /\ \A e \in Copied : back[e] = Returned(vmcb, e)
      /\ back[EXIT_INSTR_LEN] = fVmcs[EXIT_INSTR_LEN]
      /\ \A e \in Enc \ (Copied \cup ExitEnc) : back[e] = fVmcs[e]
  BY <1>7, ReturnFields
<1> HIDE DEF back
<1>10. Memory' = [Memory EXCEPT ![EXIT_REASON] = EXIT_UNKNOWN]
  <2>1. \A e \in KeptEnc : Holds(e)' = back[e] /\ Holds(e) = fVmcs[e]
    BY <1>4, HoldsIs
  <2>2. EXIT_REASON \in KeptEnc /\ Meaning(EXIT_REASON, EXIT_UNKNOWN) = EXIT_UNKNOWN
    BY KeptFields, MeaningIs DEF ExitEnc
  <2>3. ASSUME NEW e \in KeptEnc \ {EXIT_REASON}
        PROVE  Meaning(e, back[e]) = Meaning(e, fVmcs[e])
    BY <1>3, <1>6, <1>9, KeptFields DEF ExitEnc
  <2>4. QED
    BY <1>8, <2>1, <2>2, <2>3, MemoryWritten
<1>11. OwnRax' = OwnRax
  BY <1>2, <1>4, <1>5 DEF OwnRax
<1>12. Running' = Running
  BY <1>4 DEF Running
<1>13. QED
  BY <1>4, <1>10, <1>11, <1>12 DEF Machine!MachineRefuse, Memory, OwnRax

(* An entry hands the guest every field as it was.                         *)
LEMMA EnterStep ==
  ASSUME DataTyped, Readable, Readable', NEW hs \in Code, enterGuest(hs)
  PROVE  Machine!MachineEnter
<1> DEFINE n == translateVmcsToVmcb(fVmcs, fVmcb, fGuestRax)
<1>1. Shaped(fVmcb) /\ Fitting(fVmcs)
  BY DEF DataTyped, SaveAreaFits
<1>2. n.reg["RAX"] = fGuestRax
  BY <1>1, EntryFields, EntryRegisters
<1>3. \A e \in Copied : Meaning(e, Returned(n, e)) = Meaning(e, fVmcs[e])
  BY <1>1, EntryMeans
<1>4. hs.len > 0 /\ hs.len \in Nat
  BY RecognisedHasLength DEF enterGuest, Launch
<1>5. /\ fVmcb' = n /\ ~ Running /\ Running' /\ guestLaunch
      /\ UNCHANGED <<guestLaunch, fVmcs, fGuestRax>>
  BY <1>4 DEF enterGuest, Launch, Trap, Running, store
<1> HIDE DEF n
<1>6. Memory' = Memory
  BY <1>3, <1>5, HoldsIs, MemorySame
<1>7. OwnRax' = OwnRax
  BY <1>2, <1>5 DEF OwnRax
<1>8. QED
  BY <1>5, <1>6, <1>7 DEF Machine!MachineEnter, Memory, OwnRax

(* What a guest loads is the only field to change.                         *)
LEMMA LoadStep ==
  ASSUME Readable, Readable', NEW e, NEW v, Loads(e, v)
  PROVE  /\ Running /\ Running' /\ UNCHANGED <<guestLaunch, OwnRax>>
         /\ e \in Copied => Memory' = [Memory EXCEPT ![e] = Meaning(e, v)]
         /\ e \notin Copied => Memory' = Memory
<1> PICK vmcb : GuestStep(vmcb, e, v) /\ Moves(vmcb, e, v)
  BY DEF Loads
<1>1. /\ Running /\ Running' /\ fVmcb' = vmcb /\ UNCHANGED <<guestLaunch, fVmcs, OwnRax>>
  BY DEF GuestStep, Running, store, Moves, OwnRax
<1>2. ASSUME NEW f \in KeptEnc, f # e \/ e \notin Copied
      PROVE  Meaning(f, Holds(f)') = Meaning(f, Holds(f))
  BY <1>1, <1>2, HoldsIs DEF Moves
<1>3. ASSUME e \in Copied PROVE Meaning(e, Holds(e)') = Meaning(e, v) /\ e \in KeptEnc
  BY <1>1, <1>3, HoldsIs, KeptFields, MeaningIs DEF Moves
<1>4. QED
  BY <1>1, <1>2, <1>3, MemorySame, MemoryWritten

(* What the guest may load is what a guest of Machine may.                 *)
LEMMA LoadsAreMeant ==
  /\ \A w \in GuestWrites : <<Guest(w[1]), Meaning(Guest(w[1]), w[2])>> \in LoadsMeant
  /\ \A s \in Segs, d \in Descriptors :
       <<Access(s), Meaning(Access(s), d.ar)>> \in LoadsMeant
<1> DEFINE pairs == {<<Guest(w[1]), w[2]>> : w \in GuestWrites}
                      \cup {<<Access(s), d.ar>> : s \in Segs, d \in Descriptors}
<1>1. \A e, v : <<e, v>> \in pairs => <<e, Meaning(e, v)>> \in Means(pairs)
  <2> SUFFICES ASSUME NEW e, NEW v, <<e, v>> \in pairs
               PROVE  <<e, Meaning(e, v)>> \in Means(pairs)
    OBVIOUS
  <2> HIDE DEF pairs
  <2> DEFINE p == <<e, v>>
  <2>1. p \in pairs /\ p[1] = e /\ p[2] = v
    OBVIOUS
  <2> HIDE DEF p
  <2>2. QED
    BY <2>1 DEF Means
<1>2. LoadsMeant = Means(pairs)
  BY DEF LoadsMeant
<1>3. \A w \in GuestWrites : <<Guest(w[1]), w[2]>> \in pairs
  OBVIOUS
<1>4. \A s \in Segs, d \in Descriptors : <<Access(s), d.ar>> \in pairs
  OBVIOUS
<1> HIDE DEF pairs
<1>5. QED
  BY <1>1, <1>2, <1>3, <1>4

(* The guest runs, loads or sets RAX as a guest of Machine does,           *)
LEMMA GuestSteps ==
  ASSUME DataTyped, Readable, Readable', GuestMoves
  PROVE  Machine!MachineNext \/ UNCHANGED Machine!machineVars
<1>1. CASE GuestRuns
  <2> DEFINE rip == fVmcb.reg["RIP"]
  <2>1. Loads(RIP, rip + 1) /\ rip + 1 <= MaxRip /\ rip \in Nat
    BY <1>1, RunsLoads, FitsByGroup, EmulatorAssumption DEF DataTyped, SaveAreaFits, RIP
  <2>2. RIP \in Copied /\ RIP \in KeptEnc /\ \A v : Meaning(RIP, v) = v
    BY CopiedFields, KeptFields, MeaningIs DEF RIP
  <2>3. /\ Running /\ Running' /\ UNCHANGED <<guestLaunch, OwnRax>>
        /\ Memory' = [Memory EXCEPT ![RIP] = rip + 1]
    BY <2>1, <2>2, LoadStep
  <2>4. Memory[RIP] = rip
    BY <2>2, <2>3, HoldsIs, ReturnedFields DEF Memory, RIP
  <2>5. MaxRip \in Nat /\ Running' = Running
    BY <2>3, EmulatorAssumption DEF Running
  <2> HIDE DEF rip
  <2>6. Memory[RIP] < MaxRip /\ Memory' = [Memory EXCEPT ![RIP] = Memory[RIP] + 1]
    BY <2>1, <2>3, <2>4, <2>5
  <2>7. Machine!MachineGuestRuns
    BY <2>3, <2>5, <2>6 DEF Machine!MachineGuestRuns, Memory, OwnRax
  <2>8. QED
    BY <2>7 DEF Machine!MachineNext
<1>2. ASSUME NEW e \in Copied, NEW v, Loads(e, v), <<e, Meaning(e, v)>> \in LoadsMeant
      PROVE  Machine!MachineNext
  <2>1. /\ Running /\ Running' /\ UNCHANGED <<guestLaunch, OwnRax>>
        /\ Memory' = [Memory EXCEPT ![e] = Meaning(e, v)]
    BY <1>2, LoadStep
  <2>2. Running' = Running
    BY <2>1 DEF Running
  <2> DEFINE x == <<e, Meaning(e, v)>>
  <2>3. Machine!MachineGuestLoads(x[1], x[2])
    BY <2>1, <2>2 DEF Machine!MachineGuestLoads, Memory, OwnRax
  <2>4. x \in LoadsMeant
    BY <1>2
  <2> HIDE DEF x
  <2>5. QED
    BY <2>3, <2>4 DEF Machine!MachineNext
<1>3. CASE \E w \in GuestWrites : GuestLoadsRegister(w[1], w[2])
  <2>1. PICK w \in GuestWrites : GuestLoadsRegister(w[1], w[2])
    BY <1>3
  <2>2. QED
    BY <1>2, <2>1, LoadsAreMeant, RegisterLoads
<1>4. CASE \E w \in GuestTables : GuestLoadsTable(w[1], w[2])
  <2>1. PICK w \in GuestTables : GuestLoadsTable(w[1], w[2])
    BY <1>4
  <2>2. Running /\ Running' /\ UNCHANGED <<guestLaunch, OwnRax, Memory>>
    BY <2>1, TableLoads, LoadStep
  <2>3. QED
    BY <2>2, MachineStutters
<1>5. CASE \E s \in Segs, d \in Descriptors : GuestLoadsSegment(s, d)
  <2>1. PICK s \in Segs, d \in Descriptors : GuestLoadsSegment(s, d)
    BY <1>5
  <2>2. QED
    BY <1>2, <2>1, LoadsAreMeant, SegmentLoads
<1>6. CASE \E v \in RaxValues : GuestSetsRax(v)
  <2>1. PICK v \in RaxValues : GuestSetsRax(v)
    BY <1>6
  <2>2. /\ Running /\ Running' /\ UNCHANGED <<guestLaunch, fVmcs>> /\ OwnRax' = v
        /\ \A f \in Copied : Returned(fVmcb', f) = Returned(fVmcb, f)
    BY <2>1, RaxLoads DEF OwnRax
  <2>3. Memory' = Memory
    BY <2>2, HoldsIs, MemorySame
  <2>4. Running' = Running
    BY <2>2 DEF Running
  <2>5. Machine!MachineGuestSetsRax(v)
    BY <2>2, <2>3, <2>4 DEF Machine!MachineGuestSetsRax, Memory, OwnRax
  <2>6. QED
    BY <2>5 DEF Machine!MachineNext
<1>7. QED
  BY <1>1, <1>3, <1>4, <1>5, <1>6 DEF GuestMoves, Guests

(* What an event needs of the controls, armed as they were at the entry.   *)
LEMMA AskedAtExit ==
  ASSUME Readable, Armed, NEW ev \in DOMAIN Event, exitGuest(ev), NEW a \in Asks(ev)
  PROVE  a[2] \in Memory[a[1]]
<1>1. \A e \in {CPU, PIN, SECONDARY, EXCEPTION_BITMAP} : Memory[e] = fVmcs[e]
  BY HoldsIs, KeptFields, MeaningIs DEF Memory
<1>2. /\ fVmcb.intercept_1 = intercept1(fVmcs)
      /\ fVmcb.intercept_exceptions = Low(fVmcs[EXCEPTION_BITMAP], 32)
      /\ fVmcb.np_enable = nestedPaging(fVmcs)
  BY DEF Armed, exitGuest
<1>3. CASE ev = "hlt"
  <2>1. a = <<CPU, CPU_CTL_HLT_EXITING>> /\ INTERCEPT_HLT \in intercept1(fVmcs)
    BY <1>2, <1>3 DEF Asks, exitGuest, Occurs
  <2>2. QED
    BY <1>1, <2>1 DEF intercept1, INTERCEPT_HLT, INTERCEPT_INTR
<1>4. CASE ev = "interrupt"
  <2>1. a = <<PIN, PIN_CTL_EXT_INTR_EXITING>> /\ INTERCEPT_INTR \in intercept1(fVmcs)
    BY <1>2, <1>4 DEF Asks, exitGuest, Occurs
  <2>2. QED
    BY <1>1, <2>1 DEF intercept1, INTERCEPT_HLT, INTERCEPT_INTR
<1>5. CASE ev = "exception"
  <2>1. a = <<EXCEPTION_BITMAP, 14>> /\ 14 \in Low(fVmcs[EXCEPTION_BITMAP], 32)
    BY <1>2, <1>5 DEF Asks, exitGuest, Occurs
  <2>2. QED
    BY <1>1, <2>1 DEF Low
<1>6. CASE ev = "npf"
  <2>1. a \in {<<CPU, CPU_CTL_SECONDARY_CTLS>>, <<SECONDARY, SEC_CTL_ENABLE_EPT>>}
        /\ nestedPaging(fVmcs)
    BY <1>2, <1>6 DEF Asks, exitGuest, Occurs
  <2>2. CPU_CTL_SECONDARY_CTLS \in fVmcs[CPU] /\ SEC_CTL_ENABLE_EPT \in fVmcs[SECONDARY]
    BY <2>1 DEF nestedPaging, secondaryControls, Low
  <2>3. QED
    BY <1>1, <2>1, <2>2
<1>7. ev \in {"hlt", "interrupt", "exception", "npf"}
  BY DEF Asks
<1>8. QED
  BY <1>3, <1>4, <1>5, <1>6, <1>7

(* and leaves as one does.                                                 *)
LEMMA ExitStep ==
  ASSUME DataTyped, Readable, Readable', Armed, NEW ev \in DOMAIN Event, exitGuest(ev)
  PROVE  Machine!MachineNext
<1> DEFINE x == [reason |-> Event[ev].reason, asks |-> Asks(ev),
                 length |-> IF Nrips THEN Event[ev].length ELSE 0]
<1>1. x \in Exits /\ \A a \in x.asks : a[2] \in Memory[a[1]]
  BY AskedAtExit DEF Exits
<1>2. /\ Running /\ ~ Running' /\ UNCHANGED guestLaunch
      /\ fGuestRax' = fVmcb.reg["RAX"]
      /\ \A e \in Copied : fVmcs'[e] = Returned(fVmcb, e)
      /\ fVmcs'[EXIT_REASON] = x.reason
      /\ fVmcs'[EXIT_INSTR_LEN] = IF x.length > 0 THEN x.length ELSE fVmcs[EXIT_INSTR_LEN]
      /\ \A e \in Enc \ (Copied \cup ExitEnc) : fVmcs'[e] = fVmcs[e]
  BY ExitStores
<1> HIDE DEF x
<1>3. /\ ExitEnc \subseteq KeptEnc /\ ExitEnc = {EXIT_REASON, EXIT_INSTR_LEN}
      /\ EXIT_REASON # EXIT_INSTR_LEN
      /\ \A e \in ExitEnc : \A v : Meaning(e, v) = v
  BY KeptFields, FieldsApart, MeaningIs DEF ExitEnc
<1>4. \A e \in KeptEnc : Holds(e)' = fVmcs'[e]
  BY <1>2, HoldsIs
<1>5. \A e \in ExitEnc : Memory'[e] = fVmcs'[e] /\ Memory[e] = fVmcs[e]
  BY <1>3, <1>4, HoldsIs, CopiedFields DEF Memory
<1>6. ASSUME NEW e \in KeptEnc \ ExitEnc PROVE Memory'[e] = Memory[e]
  BY <1>2, <1>4, HoldsIs, KeptFields DEF Memory, Meaning
<1>7. DOMAIN Memory = KeptEnc /\ DOMAIN Memory' = KeptEnc
  BY DEF Memory
<1>8. Memory' = [Memory EXCEPT ![EXIT_REASON] = x.reason,
                               ![EXIT_INSTR_LEN] = IF x.length > 0 THEN x.length
                                                   ELSE Memory[EXIT_INSTR_LEN]]
  <2> DEFINE m == Memory'
             l == IF x.length > 0 THEN x.length ELSE Memory[EXIT_INSTR_LEN]
             t == [Memory EXCEPT ![EXIT_REASON] = x.reason, ![EXIT_INSTR_LEN] = l]
  <2>1. /\ DOMAIN m = KeptEnc /\ m[EXIT_REASON] = x.reason /\ m[EXIT_INSTR_LEN] = l
        /\ \A e \in KeptEnc \ ExitEnc : m[e] = Memory[e]
    BY <1>2, <1>3, <1>5, <1>6, <1>7
  <2>2. m = [e \in KeptEnc |-> m[e]]
    BY DEF Memory
  <2> HIDE DEF m, l
  <2>3. /\ t = [e \in KeptEnc |-> t[e]] /\ t[EXIT_REASON] = x.reason
        /\ t[EXIT_INSTR_LEN] = l /\ \A e \in KeptEnc \ ExitEnc : t[e] = Memory[e]
    BY <1>3, <1>7
  <2> HIDE DEF t
  <2>4. m = t
    BY <1>3, <2>1, <2>2, <2>3
  <2>5. QED
    BY <2>4 DEF m, l, t
<1>9. OwnRax' = OwnRax
  BY <1>2 DEF OwnRax
<1>10. Running' = FALSE
  BY <1>2 DEF Running
<1>11. Machine!MachineExit(x)
  BY <1>1, <1>2, <1>8, <1>9, <1>10 DEF Machine!MachineExit, Memory, OwnRax
<1>12. QED
  BY <1>1, <1>11 DEF Machine!MachineNext

(* The handlers do nothing else to it.                                     *)
LEMMA HandleSteps ==
  ASSUME DataTyped, Readable, Readable', NoGuestRuns, NeverExited,
         NEW hs \in Code, handleUD(hs)
  PROVE  Machine!MachineNext \/ UNCHANGED Machine!machineVars
<1>1. CASE \E w \in VmmWrites : vmwrite(hs, w[1], w[2])
  BY <1>1, WriteStep
<1>2. CASE launchDisabled(hs)
  BY <1>2, DisabledStep DEF Machine!MachineNext
<1>3. CASE enterGuest(hs)
  BY <1>3, EnterStep DEF Machine!MachineNext
<1>4. CASE ~ (\/ \E w \in VmmWrites : vmwrite(hs, w[1], w[2])
              \/ launchDisabled(hs) \/ enterGuest(hs))
  <2>1. ~ Running /\ ~ Running' /\ UNCHANGED <<guestLaunch, fVmcs, fGuestRax>>
    BY <1>4 DEF handleUD, NotVmx, vmxonOrOff, vmptrld, vmclear, vmptrst, vmread,
                invalidate, launchUnbound, Launch, Trap, Running, store, backend
  <2>2. QED
    BY <2>1, QuietStep
<1>5. QED
  BY <1>1, <1>2, <1>3, <1>4

(* Every step of the emulator is a step of Machine or none.                *)
LEMMA MachineStep ==
  ASSUME DataTyped, ControlTyped, Readable, Readable', Machined, [Next]_vars
  PROVE  Machine!MachineNext \/ UNCHANGED Machine!machineVars
<1>1. CASE bind \/ editEpt
  <2>1. ~ Running /\ ~ Running' /\ UNCHANGED <<guestLaunch, fVmcs, fGuestRax>>
    BY <1>1 DEF bind, editEpt, ControlTyped, Running, store, backend
  <2>2. QED
    BY <2>1, QuietStep
<1>2. CASE UNCHANGED vars
  <2>1. UNCHANGED <<guestLaunch, fVmcs, fVmcb, fGuestRax, inflight>>
    BY <1>2 DEF vars, store, backend
  <2>2. Running' <=> Running
    BY <2>1 DEF Running
  <2>3. Memory' = Memory
    BY <2>1, <2>2, HoldsIs, MemorySame
  <2>4. OwnRax' = OwnRax
    BY <2>1, <2>2 DEF OwnRax
  <2>5. QED
    BY <2>1, <2>2, <2>3, <2>4, MachineStutters
<1>3. CASE GuestMoves
  BY <1>3, GuestSteps
<1>4. ASSUME NEW ev \in DOMAIN Event, exitGuest(ev) PROVE Machine!MachineNext
  BY <1>4, ExitStep DEF Machined
<1>5. ASSUME NEW hs \in Code, handleUD(hs)
      PROVE  Machine!MachineNext \/ UNCHANGED Machine!machineVars
  BY <1>5, HandleSteps DEF Machined
<1>6. QED
  BY <1>1, <1>2, <1>3, <1>4, <1>5 DEF Next, GuestMoves

(* Without the world switch no exit ever leaves an instruction pointer.    *)
LEMMA NeverExitedNext ==
  ASSUME DataTyped, ControlTyped, NoGuestRuns, NeverExited, [Next]_vars
  PROVE  NeverExited'
<1> SUFFICES ASSUME ~ guestLaunch PROVE fVmcb'.nrip = 0
  BY BuildFixed DEF NeverExited
<1>1. fVmcb.nrip = 0 /\ ~ Running
  BY DEF NeverExited, NoGuestRuns
<1>2. CASE bind \/ editEpt \/ UNCHANGED vars
  BY <1>1, <1>2 DEF bind, editEpt, vars, backend, PreparedVmcb
<1>3. CASE Guests
  BY <1>1, <1>3 DEF Guests, GuestRuns, GuestLoadsRegister, GuestLoadsTable,
                    GuestLoadsSegment, GuestStep, GuestSetsRax, exitGuest
<1>4. ASSUME NEW hs \in Code, handleUD(hs) PROVE fVmcb'.nrip = 0
  <2>1. CASE launchDisabled(hs)
    <3> DEFINE n == translateVmcsToVmcb(fVmcs, fVmcb, fGuestRax)
    <3>1. DOMAIN n = VmcbFields /\ n.nrip = fVmcb.nrip
      BY EntryFields DEF DataTyped, SaveAreaFits
    <3> HIDE DEF n
    <3>2. fVmcb' = [n EXCEPT !.exit_code = VMEXIT_INVALID]
      BY <2>1 DEF launchDisabled, finishLaunch, n
    <3>3. QED
      BY <1>1, <3>1, <3>2 DEF VmcbFields
  <2>2. CASE ~ launchDisabled(hs)
    <3>1. fVmcb' = fVmcb
      BY <1>4, <2>2 DEF handleUD, NotVmx, vmxonOrOff, vmptrld, vmclear, vmptrst,
                        vmwrite, vmread, invalidate, launchUnbound, enterGuest, backend
    <3>2. QED
      BY <1>1, <3>1
  <2>3. QED
    BY <2>1, <2>2
<1>5. QED
  BY <1>2, <1>3, <1>4 DEF Next

(* The emulator starts as Machine does.                                    *)
LEMMA InitMachine ==
  ASSUME Init
  PROVE  Machine!MachineInit /\ Machined
<1>1. /\ fVmcs = Unwritten /\ ~ Running /\ fVmcb.nrip = 0 /\ fGuestRax = {}
      /\ guestLaunch \in BOOLEAN
  BY EmulatorAssumption DEF Init, Running, PreparedVmcb
<1>2. Memory = [e \in KeptEnc |-> Meaning(e, Unwritten[e])]
  <2>1. \A e \in KeptEnc : Holds(e) = Unwritten[e]
    BY <1>1 DEF Holds
  <2>2. QED
    BY <2>1 DEF Memory, Meaning
<1>3. Running = FALSE /\ OwnRax = {}
  BY <1>1 DEF Running, OwnRax
<1>4. Machine!MachineInit
  BY <1>1, <1>2, <1>3 DEF Machine!MachineInit, Memory, OwnRax
<1>5. QED
  BY <1>1, <1>4 DEF Machined, Armed, NoGuestRuns, NeverExited

(* For any segments, registers, instructions and values, any guest and any *)
(* number of VMCS regions the emulator is a machine with one VMCS: what is *)
(* in the save area of a guest that runs, read there by the layouts of the *)
(* manuals, is what the VMM reads once it has left, and no entry, exit or  *)
(* refused launch loses, widens or alters a field of KeptEnc or RAX; and   *)
(* no guest leaves but for what the fields themselves ask for.             *)
THEOREM Refinement == Spec => ImplementsMachine
<1>1. Init => Machine!MachineInit /\ Machined
  BY InitMachine
<1>2. Typed /\ Machined /\ [Next]_vars => Machined'
  <2> SUFFICES ASSUME Typed, Machined, [Next]_vars PROVE Machined'
    OBVIOUS
  <2>1. DataTyped /\ ControlTyped /\ Armed /\ NoGuestRuns /\ NeverExited
    BY DEF Typed, Machined
  <2>2. NoGuestRuns'
    BY <2>1, BuildFixed, Boundaries DEF NoGuestRuns, enterGuest
  <2>3. QED
    BY <2>1, <2>2, ArmedNext, NeverExitedNext DEF Machined
<1>3. Typed /\ Machined /\ Typed' /\ Machined' /\ [Next]_vars
        => [Machine!MachineNext]_(Machine!machineVars)
  <2>1. Typed /\ Machined => Readable
    BY DEF Typed, DataTyped, Machined, Armed, Readable
  <2>2. Typed' /\ Machined' => Readable'
    BY DEF Typed, DataTyped, Machined, Armed, Readable
  <2>3. QED
    BY <2>1, <2>2, MachineStep DEF Typed
<1>4. QED
  BY <1>1, <1>2, <1>3, InitTyped, NextTyped, PTL
  DEF Spec, ImplementsMachine, Machine!MachineSpec
==============================================================================
