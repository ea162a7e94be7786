------------------------ MODULE ConversionLaws_proofs ------------------------
(***************************************************************************)
(* The laws of ConversionLaws for every access-rights word VM entry        *)
(* accepts, every event and every walk, of any number of levels, and those *)
(* of DecodeLaws for every faulting instruction hde64 can report.          *)
(***************************************************************************)
EXTENDS DecodeLaws, WordTheorems, TLAPS

------------------------------------------------------------------------------
\* Segments

LEMMA UsableIsPresent ==
  ASSUME NEW ar \in ValidAccessRights
  PROVE  \/ ar = {AR_UNUSABLE}
         \/ ar \subseteq Bits(0, 7) \cup Bits(12, 15) /\ 7 \in ar
  BY DEF ValidAccessRights

LEMMA RoundTrip == \A ar \in ValidAccessRights : ArRoundTrips(ar)
<1> SUFFICES ASSUME NEW ar \in ValidAccessRights PROVE ArRoundTrips(ar)
  OBVIOUS
<1>1. CASE ar = {AR_UNUSABLE}
  BY <1>1 DEF ArRoundTrips, AttribOf, vmxArToSvmAttrib, svmAttribToVmxAr, ATTRIB_P
<1>2. CASE ar \subseteq Bits(0, 7) \cup Bits(12, 15) /\ 7 \in ar
  <2> DEFINE at == AttribOf(ar)
  <2>1. AR_UNUSABLE \notin ar /\ ar \in SUBSET Nat
    BY <1>2 DEF AR_UNUSABLE, Bits
  <2>2. \A b \in Nat : b \in at <=> \/ b \in Bits(0, 7) /\ b \in ar
                                    \/ b \in Bits(8, 11) /\ b + 4 \in ar
    BY <2>1, AttribBits DEF AttribOf
  <2>3. ATTRIB_P \in at
    BY <1>2, <2>2 DEF ATTRIB_P, Bits
  <2>4. svmAttribToVmxAr(at) = ar
    BY <1>2, AccessReturns DEF AttribOf, ATTRIB_P
  <2> HIDE DEF at
  <2>5. \A b \in Bits(0, 7) : b \in ar <=> b \in at
    BY <2>2 DEF Bits
  <2>6. \A b \in Bits(12, 15) : b \in ar <=> b - 4 \in at
    <3>1. \A b \in Bits(12, 15) : b - 4 \in Nat /\ b - 4 \in Bits(8, 11) /\ (b - 4) + 4 = b
                                  /\ b - 4 \notin Bits(0, 7)
      BY DEF Bits
    <3>2. QED
      BY <2>2, <3>1
  <2>7. QED
    BY <2>1, <2>3, <2>4, <2>5, <2>6 DEF ArRoundTrips, at
<1>3. QED
  BY <1>1, <1>2, UsableIsPresent

------------------------------------------------------------------------------
\* Page-table walks

(* What one converted entry says, bit by bit, leaf or not.                 *)
LEMMA EntryBits ==
  ASSUME NEW e \in SUBSET Bits(0, 63),
         NEW n \in {eptEntryToNpt(e, TRUE), eptEntryToNpt(e, FALSE)}
  PROVE  /\ {PT_PRESENT, PT_US} \subseteq n <=>
               e \cap {EPT_READ, EPT_WRITE, EPT_EXECUTE} # {}
         /\ PT_RW \in n <=> EPT_WRITE \in e
         /\ PT_NX \in n <=> /\ e \cap {EPT_READ, EPT_WRITE, EPT_EXECUTE} # {}
                            /\ EPT_EXECUTE \notin e
  BY DEF eptEntryToNpt, presentEntry, EPT_READ, EPT_WRITE, EPT_EXECUTE,
         EPT_PAGE_SIZE, EPT_ADDR_MASK, PT_PRESENT, PT_RW, PT_US, PT_PWT,
         PT_PCD, PT_PS, PT_NX, Bits

LEMMA NptEntry ==
  ASSUME NEW path \in Seq(SUBSET Bits(0, 63)), NEW i \in DOMAIN path
  PROVE  /\ path[i] \in SUBSET Bits(0, 63)
         /\ i = Len(path) => Npt(path)[i] = eptEntryToNpt(path[i], TRUE)
         /\ i # Len(path) => Npt(path)[i] = eptEntryToNpt(path[i], FALSE)
<1>1. path[i] \in SUBSET Bits(0, 63)
  OBVIOUS
<1>2. CASE i = Len(path)
  BY <1>1, <1>2 DEF Npt, eptEntryToNpt, presentEntry
<1>3. CASE i # Len(path)
  BY <1>1, <1>3 DEF Npt, eptEntryToNpt, presentEntry
<1>4. QED
  BY <1>2, <1>3

LEMMA WalkRights ==
  ASSUME NEW path \in Seq(SUBSET Bits(0, 63)), ReadableWherePresent(path)
  PROVE  NptRights(Npt(path)) = EptRights(path)
<1> DEFINE npt == Npt(path)
           Readable == \A i \in DOMAIN path : EPT_READ \in path[i]
<1>1. \A i \in DOMAIN path :
        /\ {PT_PRESENT, PT_US} \subseteq npt[i] <=> EPT_READ \in path[i]
        /\ PT_RW \in npt[i] <=> EPT_WRITE \in path[i]
        /\ PT_NX \in npt[i] <=> EPT_READ \in path[i] /\ EPT_EXECUTE \notin path[i]
  <2>1. SUFFICES ASSUME NEW i \in DOMAIN path
                 PROVE  /\ {PT_PRESENT, PT_US} \subseteq npt[i] <=> EPT_READ \in path[i]
                        /\ PT_RW \in npt[i] <=> EPT_WRITE \in path[i]
                        /\ PT_NX \in npt[i] <=> EPT_READ \in path[i]
                                                  /\ EPT_EXECUTE \notin path[i]
    OBVIOUS
  <2>2. path[i] \cap {EPT_READ, EPT_WRITE, EPT_EXECUTE} # {} <=> EPT_READ \in path[i]
    BY DEF ReadableWherePresent
  <2>3. path[i] \in SUBSET Bits(0, 63)
    BY NptEntry
  <2>4. npt[i] \in {eptEntryToNpt(path[i], TRUE), eptEntryToNpt(path[i], FALSE)}
    BY NptEntry
  <2> HIDE DEF npt
  <2>5. /\ {PT_PRESENT, PT_US} \subseteq npt[i]
             <=> path[i] \cap {EPT_READ, EPT_WRITE, EPT_EXECUTE} # {}
        /\ PT_RW \in npt[i] <=> EPT_WRITE \in path[i]
        /\ PT_NX \in npt[i] <=> /\ path[i] \cap {EPT_READ, EPT_WRITE, EPT_EXECUTE} # {}
                                /\ EPT_EXECUTE \notin path[i]
    BY <2>3, <2>4, EntryBits
  <2>6. QED
    BY <2>2, <2>5
<1>2. DOMAIN npt = DOMAIN path
  BY DEF Npt
<1> HIDE DEF npt
<1>3. CASE Readable
  <2>1. NptRights(npt) =
          {EPT_READ}
          \cup {r \in {EPT_WRITE} : \A i \in DOMAIN path : EPT_WRITE \in path[i]}
          \cup {r \in {EPT_EXECUTE} : \A i \in DOMAIN path : EPT_EXECUTE \in path[i]}
    BY <1>1, <1>2, <1>3 DEF NptRights
  <2>2. QED
    BY <1>3, <2>1 DEF EptRights, npt
<1>4. CASE ~ Readable
  <2>1. PICK i \in DOMAIN path : EPT_READ \notin path[i]
    BY <1>4
  <2>2. EPT_WRITE \notin path[i] /\ EPT_EXECUTE \notin path[i]
    BY <2>1 DEF ReadableWherePresent
  <2>3. EptRights(path) = {}
    BY <2>1, <2>2 DEF EptRights
  <2>4. NptRights(npt) = {}
    BY <1>1, <1>2, <2>1 DEF NptRights
  <2>5. QED
    BY <2>3, <2>4 DEF npt
<1>5. QED
  BY <1>3, <1>4

LEMMA MemTypeBits ==
  ASSUME NEW e \in SUBSET Bits(0, 63)
  PROVE  eptMemType(e) = {} <=> e \cap Bits(3, 5) = {}
<1>1. e \in SUBSET Nat /\ 3 \in Nat
  BY DEF Bits
<1>2. \A b \in Nat : b \in Shr(e, 3) <=> b + 3 \in e
  BY <1>1, InShr
<1>3. Shr(e, 3) \subseteq Nat
  BY <1>1, ShiftsAreWords
<1>4. \A b \in 3 .. 5 : b - 3 \in 0 .. 2 /\ (b - 3) + 3 = b
  OBVIOUS
<1>5. QED
  BY <1>1, <1>2, <1>3, <1>4 DEF eptMemType, Bits

(* A present entry keeps its frame; a leaf keeps its size and whether it   *)
(* is uncacheable, and an entry above it never becomes a large page.       *)
LEMMA EntryFrame ==
  ASSUME NEW e \in SUBSET Bits(0, 63),
         e \cap {EPT_READ, EPT_WRITE, EPT_EXECUTE} # {}
  PROVE  /\ eptEntryToNpt(e, TRUE) \cap Bits(12, 51) = e \cap Bits(12, 51)
         /\ eptEntryToNpt(e, FALSE) \cap Bits(12, 51) = e \cap Bits(12, 51)
         /\ PT_PS \in eptEntryToNpt(e, TRUE) <=> EPT_PAGE_SIZE \in e
         /\ PT_PS \notin eptEntryToNpt(e, FALSE)
         /\ PT_PCD \in eptEntryToNpt(e, TRUE) <=> e \cap Bits(3, 5) = {}
<1> USE DEF EPT_READ, EPT_WRITE, EPT_EXECUTE, EPT_PAGE_SIZE, EPT_ADDR_MASK,
            PT_PRESENT, PT_RW, PT_US, PT_PWT, PT_PCD, PT_PS, PT_NX, Bits
<1>1. /\ eptEntryToNpt(e, TRUE) = presentEntry(e, TRUE)
      /\ eptEntryToNpt(e, FALSE) = presentEntry(e, FALSE)
  BY DEF eptEntryToNpt
<1>2. eptMemType(e) = {} <=> e \cap Bits(3, 5) = {}
  BY MemTypeBits
<1>3. presentEntry(e, TRUE) \cap Bits(12, 51) = e \cap Bits(12, 51)
  BY DEF presentEntry
<1>4. presentEntry(e, FALSE) \cap Bits(12, 51) = e \cap Bits(12, 51)
  BY DEF presentEntry
<1>5. PT_PS \in presentEntry(e, TRUE) <=> EPT_PAGE_SIZE \in e
  BY DEF presentEntry
<1>6. PT_PS \notin presentEntry(e, FALSE)
  BY DEF presentEntry
<1>7. PT_PCD \in presentEntry(e, TRUE) <=> e \cap Bits(3, 5) = {}
  BY <1>2 DEF presentEntry
<1>8. QED
  BY <1>1, <1>3, <1>4, <1>5, <1>6, <1>7

LEMMA WalkFrames ==
  ASSUME NEW path \in Seq(SUBSET Bits(0, 63)), Len(path) > 0, EptRights(path) # {}
  PROVE  LET leaf == Leaf(path)
             npt  == Npt(path)
         IN  /\ \A i \in DOMAIN npt :
                  npt[i] \cap Bits(12, 51) = path[i] \cap Bits(12, 51)
             /\ PT_PS \in Leaf(npt) <=> EPT_PAGE_SIZE \in leaf
             /\ PT_PCD \in Leaf(npt) <=> leaf \cap Bits(3, 5) = {}
             /\ \A i \in 1 .. Len(npt) - 1 : PT_PS \notin npt[i]
<1> DEFINE npt == Npt(path)
<1>1. PICK r \in {EPT_READ, EPT_WRITE, EPT_EXECUTE} :
        \A i \in DOMAIN path : r \in path[i]
  BY DEF EptRights
<1>2. \A i \in DOMAIN path :
        /\ npt[i] \cap Bits(12, 51) = path[i] \cap Bits(12, 51)
        /\ i = Len(path) =>
             /\ PT_PS \in npt[i] <=> EPT_PAGE_SIZE \in path[i]
             /\ PT_PCD \in npt[i] <=> path[i] \cap Bits(3, 5) = {}
        /\ i # Len(path) => PT_PS \notin npt[i]
  <2>1. SUFFICES ASSUME NEW i \in DOMAIN path
                 PROVE  /\ npt[i] \cap Bits(12, 51) = path[i] \cap Bits(12, 51)
                        /\ i = Len(path) =>
                             /\ PT_PS \in npt[i] <=> EPT_PAGE_SIZE \in path[i]
                             /\ PT_PCD \in npt[i] <=> path[i] \cap Bits(3, 5) = {}
                        /\ i # Len(path) => PT_PS \notin npt[i]
    OBVIOUS
  <2>2. /\ path[i] \in SUBSET Bits(0, 63)
        /\ i = Len(path) => npt[i] = eptEntryToNpt(path[i], TRUE)
        /\ i # Len(path) => npt[i] = eptEntryToNpt(path[i], FALSE)
    BY NptEntry
  <2>3. path[i] \cap {EPT_READ, EPT_WRITE, EPT_EXECUTE} # {}
    BY <1>1
  <2> HIDE DEF npt
  <2> DEFINE e == path[i]
  <2>4. /\ eptEntryToNpt(e, TRUE) \cap Bits(12, 51) = e \cap Bits(12, 51)
        /\ eptEntryToNpt(e, FALSE) \cap Bits(12, 51) = e \cap Bits(12, 51)
        /\ PT_PS \in eptEntryToNpt(e, TRUE) <=> EPT_PAGE_SIZE \in e
        /\ PT_PS \notin eptEntryToNpt(e, FALSE)
        /\ PT_PCD \in eptEntryToNpt(e, TRUE) <=> e \cap Bits(3, 5) = {}
    <3>1. e \in SUBSET Bits(0, 63) /\ e \cap {EPT_READ, EPT_WRITE, EPT_EXECUTE} # {}
      BY <2>2, <2>3
    <3> HIDE DEF e
    <3>2. QED
      BY <3>1, EntryFrame
  <2>5. CASE i = Len(path)
    BY <2>2, <2>4, <2>5
  <2>6. CASE i # Len(path)
    BY <2>2, <2>4, <2>6
  <2>7. QED
    BY <2>5, <2>6
<1>3. PICK n \in DOMAIN path : n = Len(path)
  OBVIOUS
<1>4. n \in Nat /\ DOMAIN path = 1 .. n
  BY <1>3
<1>5. DOMAIN npt = 1 .. n /\ Len(npt) = n
  BY <1>4 DEF Npt
<1>6. Leaf(npt) = npt[n] /\ Leaf(path) = path[n]
  BY <1>3, <1>5 DEF Leaf
<1> HIDE DEF npt
<1>7. /\ PT_PS \in npt[n] <=> EPT_PAGE_SIZE \in path[n]
      /\ PT_PCD \in npt[n] <=> path[n] \cap Bits(3, 5) = {}
  BY <1>2, <1>3
<1>8. \A i \in 1 .. Len(npt) - 1 : PT_PS \notin npt[i]
  <2>1. \A i \in 1 .. n - 1 : i \in 1 .. n /\ i # n
    BY <1>4
  <2>2. \A i \in 1 .. n - 1 : i \in DOMAIN path /\ i # Len(path)
    BY <2>1, <1>3, <1>4
  <2>3. QED
    BY <1>2, <1>5, <2>2
<1>9. QED
  BY <1>2, <1>4, <1>5, <1>6, <1>7, <1>8 DEF npt

------------------------------------------------------------------------------
\* The laws

(* The input never changes.                                                *)
LEMMA InputFixed == LawsSpec => []LawsInit
<1>1. LawsInit /\ [Next]_input => LawsInit'
  BY DEF LawsInit, Init, Next
<1>2. QED
  BY <1>1, PTL DEF LawsSpec

(* No segment drifts through an entry and an exit, for every access-rights *)
(* word that passes the checks of VM entry.                                *)
THEOREM SegmentsRoundTripHolds == LawsSpec => []SegmentsRoundTrip
<1>1. LawsInit => SegmentsRoundTrip
  <2>1. SUFFICES ASSUME LawsInit, input.kind = "segment" PROVE ArRoundTrips(input.ar)
    BY DEF SegmentsRoundTrip
  <2>2. input.ar \in ValidAccessRights
    BY <2>1, LawsAssumption DEF LawsInit, Init
  <2>3. QED
    BY <2>2, RoundTrip
<1>2. QED
  BY <1>1, InputFixed, PTL

(* Every injectable event is delivered as what it is, for every vector,    *)
(* type and error code: an exception as an exception, whichever of Intel's *)
(* three kinds it is, and every other type as itself.                      *)
THEOREM EventsPreservedHolds == LawsSpec => []EventsPreserved
<1>1. LawsInit => EventsPreserved
  <2>1. SUFFICES ASSUME LawsInit, input.kind = "event", Injectable(input.event.info)
                 PROVE  EventsPreserved
    BY DEF EventsPreserved
  <2> DEFINE info == input.event.info
             err  == input.event.err
             inj  == eventInjection(info, err)
  <2>2. info \in SUBSET Bits(0, 31) /\ err \in SUBSET Bits(0, 31)
    BY <2>1, LawsAssumption DEF LawsInit, Init
  <2>3. err \in SUBSET Nat /\ Low(err, 32) = err
    <3>1. \A b \in err : b \in Nat /\ b < 32
      BY <2>2 DEF Bits
    <3>2. QED
      BY <3>1 DEF Low
  <2>4. CASE INTR_VALID \notin info
    <3>1. inj = {}
      BY <2>4 DEF eventInjection
    <3>2. QED
      BY <2>4, <3>1 DEF EventsPreserved
  <2>5. CASE INTR_VALID \in info
    <3>1. Injectable(info)
      BY <2>1
    <3> HIDE DEF info, err
    <3>2. LegalInjection(inj)
      BY <2>2, <2>3, <3>1, EventsLegal
    <3>3. /\ INTR_VALID \in inj
          /\ Vector(inj) = Vector(info)
          /\ EventType(inj) = svmEventType(EventType(info))
          /\ INTR_DELIVER_EC \in inj <=> INTR_DELIVER_EC \in info
          /\ {b - 32 : b \in inj \cap Bits(32, 63)} =
               IF INTR_DELIVER_EC \in info THEN Low(err, 32) ELSE {}
      BY <2>2, <2>3, <2>5, EventFields
    <3>4. svmEventType(EventType(info)) =
            IF EventType(info) \in {{0, 1}, {0, 2}, {1, 2}}
            THEN {0, 1} ELSE EventType(info)
      BY <2>2, <2>5, <3>1, EventTypes
    <3>5. EventType(inj) = SvmType(EventType(info))
      <4> HIDE DEF inj
      <4>1. EventType(info) = {0, 1} => SvmType(EventType(info)) = {0, 1}
        BY DEF SvmType
      <4>2. QED
        BY <3>3, <3>4, <4>1 DEF SvmType
    <3> HIDE DEF inj
    <3>6. QED
      BY <2>3, <2>5, <3>2, <3>3, <3>5 DEF EventsPreserved, info, err, inj
  <2>6. QED
    BY <2>4, <2>5
<1>2. QED
  BY <1>1, InputFixed, PTL

(* A walk through any number of levels gives the guest the rights its EPT  *)
(* gives, none more and none fewer.                                        *)
THEOREM WalkRightsPreservedHolds == LawsSpec => []WalkRightsPreserved
<1>1. LawsInit => WalkRightsPreserved
  <2>1. SUFFICES ASSUME LawsInit, input.kind = "walk", ReadableWherePresent(input.path)
                 PROVE  NptRights(Npt(input.path)) = EptRights(input.path)
    BY DEF WalkRightsPreserved
  <2>2. input.path \in Seq(SUBSET Bits(0, 63))
    BY <2>1, LawsAssumption DEF LawsInit, Init
  <2>3. QED
    BY <2>1, <2>2, WalkRights
<1>2. QED
  BY <1>1, InputFixed, PTL

(* A mapped page keeps its frame, its size and its uncacheability through  *)
(* a walk of any number of levels.                                         *)
THEOREM FramesPreservedHolds == LawsSpec => []FramesPreserved
<1>1. LawsInit => FramesPreserved
  <2>1. SUFFICES ASSUME LawsInit, input.kind = "walk", EptRights(input.path) # {}
                 PROVE  FramesPreserved
    BY DEF FramesPreserved
  <2>2. input.path \in Seq(SUBSET Bits(0, 63)) /\ Len(input.path) > 0
    BY <2>1, LawsAssumption DEF LawsInit, Init
  <2>3. QED
    BY <2>1, <2>2, WalkFrames DEF FramesPreserved
<1>2. QED
  BY <1>1, InputFixed, PTL

------------------------------------------------------------------------------
\* The decoder

(* Every VMX instruction is recognised as itself, but for the memory forms *)
(* of VMREAD and VMWRITE, which are declined: whatever its length, its     *)
(* other prefixes and its operands.                                        *)
THEOREM VmxRecognisedHolds == LawsSpec => []VmxRecognised
<1>1. LawsInit => VmxRecognised
  <2>1. SUFFICES ASSUME LawsInit, Instruction, NEW op \in DOMAIN Encodes(input.hs),
                        Encodes(input.hs)[op]
                 PROVE  decodeVmx(input.hs).op =
                          IF MemoryForm(input.hs, op) THEN "NONE" ELSE op
    BY DEF VmxRecognised
  <2> DEFINE hs == input.hs
  <2>2. hs \in Hde
    BY <2>1, DecodeAssumption DEF LawsInit, Init, Instruction
  <2>3. decodeVmx(hs).op = opcodeOf(hs)
    BY DEF decodeVmx
  <2>4. op \in {"VMREAD", "VMWRITE", "VMLAUNCH", "VMRESUME", "VMXOFF", "VMXON",
                "VMCLEAR", "VMPTRLD", "VMPTRST"}
    BY <2>1 DEF Encodes
  <2> HIDE DEF hs
  <2>5. Legal(hs) => hs.len # 0 /\ ~ hs.error /\ hs.opcode = 15
    BY <2>2 DEF Legal, Hde
  <2>6. CASE op \in {"VMREAD", "VMWRITE"}
    <3>1. Legal(hs) /\ hs.opcode2 = IF op = "VMREAD" THEN 120 ELSE 121
      <4>1. CASE op = "VMREAD"
        <5>1. Encodes(hs)["VMREAD"]
          BY <2>1, <4>1 DEF hs
        <5>2. Legal(hs) /\ hs.opcode2 = 120
          BY Zenon, <5>1 DEF Encodes
        <5>3. QED
          BY <4>1, <5>2
      <4>2. CASE op = "VMWRITE"
        <5>1. Encodes(hs)["VMWRITE"]
          BY <2>1, <4>2 DEF hs
        <5>2. Legal(hs) /\ hs.opcode2 = 121
          BY Zenon, <5>1 DEF Encodes
        <5>3. QED
          BY <4>2, <5>2
      <4>3. QED
        BY <2>6, <4>1, <4>2
    <3>2. opcodeOf(hs) = registerForm(hs, op)
      BY <2>5, <2>6, <3>1 DEF opcodeOf
    <3>3. QED
      BY <2>3, <2>6, <3>2 DEF registerForm, MemoryForm, Memory, hs
  <2>7. CASE op \in {"VMLAUNCH", "VMRESUME", "VMXOFF"}
    <3>1. /\ Legal(hs) /\ hs.opcode2 = 1 /\ hs.mod = 3 /\ hs.reg = 0
          /\ hs.rm = CASE op = "VMLAUNCH" -> 2 [] op = "VMRESUME" -> 3 [] OTHER -> 4
      <4>1. CASE op = "VMLAUNCH"
        <5>1. Encodes(hs)["VMLAUNCH"]
          BY <2>1, <4>1 DEF hs
        <5>2. Legal(hs) /\ hs.opcode2 = 1 /\ hs.mod = 3 /\ hs.reg = 0 /\ hs.rm = 2
          BY Zenon, <5>1 DEF Encodes
        <5>3. QED
          BY <4>1, <5>2
      <4>2. CASE op = "VMRESUME"
        <5>1. Encodes(hs)["VMRESUME"]
          BY <2>1, <4>2 DEF hs
        <5>2. Legal(hs) /\ hs.opcode2 = 1 /\ hs.mod = 3 /\ hs.reg = 0 /\ hs.rm = 3
          BY Zenon, <5>1 DEF Encodes
        <5>3. QED
          BY <4>2, <5>2
      <4>3. CASE op = "VMXOFF"
        <5>1. Encodes(hs)["VMXOFF"]
          BY <2>1, <4>3 DEF hs
        <5>2. Legal(hs) /\ hs.opcode2 = 1 /\ hs.mod = 3 /\ hs.reg = 0 /\ hs.rm = 4
          BY Zenon, <5>1 DEF Encodes
        <5>3. QED
          BY <4>3, <5>2
      <4>4. QED
        BY <2>7, <4>1, <4>2, <4>3
    <3>2. modrm(hs) = 192 + hs.rm
      BY <3>1 DEF modrm
    <3>3. group0F01(hs) = op
      BY <2>7, <3>1, <3>2 DEF group0F01
    <3>4. opcodeOf(hs) = op
      BY <2>5, <3>1, <3>3 DEF opcodeOf
    <3>5. QED
      BY <2>3, <2>7, <3>4 DEF MemoryForm, hs
  <2>8. CASE op \in {"VMXON", "VMCLEAR", "VMPTRLD", "VMPTRST"}
    <3>1. Legal(hs) /\ hs.opcode2 = 199 /\ group0FC7(hs) = op
      <4>1. CASE op = "VMXON"
        <5>1. Encodes(hs)["VMXON"]
          BY <2>1, <4>1 DEF hs
        <5>2. Legal(hs) /\ hs.opcode2 = 199 /\ hs.reg = 6 /\ hs.p_rep = "F3"
          BY Zenon, <5>1 DEF Encodes
        <5>3. QED
          BY <4>1, <5>2 DEF group0FC7
      <4>2. CASE op = "VMCLEAR"
        <5>1. Encodes(hs)["VMCLEAR"]
          BY <2>1, <4>2 DEF hs
        <5>2. Legal(hs) /\ hs.opcode2 = 199 /\ hs.reg = 6 /\ hs.p_66 /\ hs.p_rep # "F3"
          BY Zenon, <5>1 DEF Encodes
        <5>3. QED
          BY <4>2, <5>2 DEF group0FC7
      <4>3. CASE op = "VMPTRLD"
        <5>1. Encodes(hs)["VMPTRLD"]
          BY <2>1, <4>3 DEF hs
        <5>2. Legal(hs) /\ hs.opcode2 = 199 /\ hs.reg = 6 /\ ~ hs.p_66 /\ hs.p_rep = "none"
          BY Zenon, <5>1 DEF Encodes
        <5>3. QED
          BY <4>3, <5>2 DEF group0FC7
      <4>4. CASE op = "VMPTRST"
        <5>1. Encodes(hs)["VMPTRST"]
          BY <2>1, <4>4 DEF hs
        <5>2. Legal(hs) /\ hs.opcode2 = 199 /\ hs.reg = 7
          BY Zenon, <5>1 DEF Encodes
        <5>3. QED
          BY <4>4, <5>2 DEF group0FC7
      <4>5. QED
        BY <2>8, <4>1, <4>2, <4>3, <4>4
    <3>2. opcodeOf(hs) = op
      BY <2>5, <3>1 DEF opcodeOf
    <3>3. QED
      BY <2>3, <2>8, <3>2 DEF MemoryForm, hs
  <2>9. QED
    BY <2>4, <2>6, <2>7, <2>8 DEF hs
<1>2. QED
  BY <1>1, InputFixed, PTL

(* The operands of VMREAD and VMWRITE are the registers ModRM and REX name *)
(* for all of the sixteen and every combination of them.                   *)
THEOREM OperandsResolvedHolds == LawsSpec => []OperandsResolved
<1>1. LawsInit => OperandsResolved
  <2>1. SUFFICES ASSUME LawsInit, Instruction,
                        decodeVmx(input.hs).op \in {"VMREAD", "VMWRITE"}
                 PROVE  LET hs == input.hs
                            d  == decodeVmx(hs)
                        IN  /\ d.field = Registers[1 + hs.reg + IF hs.rex_r THEN 8 ELSE 0]
                            /\ d.data  = Registers[1 + hs.rm + IF hs.rex_b THEN 8 ELSE 0]
    BY DEF OperandsResolved
  <2>2. input.hs \in Hde
    BY <2>1, DecodeAssumption DEF LawsInit, Init, Instruction
  <2>3. ASSUME NEW n \in 0 .. 7, NEW rex \in {0, 8}
        PROVE  amdv_gpr(n + rex) = Registers[1 + n + rex]
    <3>1. n + rex \in 0 .. 15
      OBVIOUS
    <3>2. (n + rex) % 16 = n + rex
      BY <3>1
    <3>3. ((n + rex) % 16) + 1 = 1 + n + rex
      BY <3>1, <3>2
    <3>4. QED
      BY <3>3 DEF amdv_gpr, Registers
  <2>4. QED
    <3> DEFINE hs == input.hs
    <3>1. /\ decodeVmx(hs).field = amdv_gpr(regIdx(hs))
          /\ decodeVmx(hs).data  = amdv_gpr(rmIdx(hs))
      BY <2>1 DEF decodeVmx
    <3>2. hs.reg \in 0 .. 7 /\ hs.rm \in 0 .. 7
      BY <2>2 DEF Hde
    <3> HIDE DEF hs
    <3>3. /\ amdv_gpr(regIdx(hs)) = Registers[1 + hs.reg + IF hs.rex_r THEN 8 ELSE 0]
          /\ amdv_gpr(rmIdx(hs))  = Registers[1 + hs.rm + IF hs.rex_b THEN 8 ELSE 0]
      BY <2>3, <3>2 DEF regIdx, rmIdx
    <3>4. QED
      BY <3>1, <3>3 DEF hs
<1>2. QED
  BY <1>1, InputFixed, PTL
==============================================================================
