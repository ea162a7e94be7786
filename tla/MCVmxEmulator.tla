---------------------------- MODULE MCVmxEmulator ----------------------------
(* VmxEmulator on one segment, one table and two copied registers; one hde *)
(* record per VMX instruction, the RDRAND that decodes as one, and CPUID,  *)
(* which does not.  Each run picks the fields that are written.            *)
EXTENDS VmxEmulator

CONSTANT r1

Instr(opcode2, p_66, p_rep, mod, reg, rm) ==
  [len |-> 3, error |-> FALSE, opcode |-> 15, opcode2 |-> opcode2,
   p_66 |-> p_66, p_rep |-> p_rep, mod |-> mod, reg |-> reg, rm |-> rm,
   rex_r |-> FALSE, rex_b |-> FALSE]

Vmread   == Instr(120, FALSE, "none", 3, 0, 1)
Vmwrite  == Instr(121, FALSE, "none", 3, 0, 1)
Vmlaunch == Instr(1, FALSE, "none", 3, 0, 2)
Vmresume == Instr(1, FALSE, "none", 3, 0, 3)
Vmxoff   == Instr(1, FALSE, "none", 3, 0, 4)
Vmxon    == Instr(199, FALSE, "F3", 0, 6, 0)
Vmclear  == Instr(199, TRUE, "none", 0, 6, 0)
Vmptrld  == Instr(199, FALSE, "none", 0, 6, 0)
Vmptrst  == Instr(199, FALSE, "none", 0, 7, 0)
Invept   == Instr(56, TRUE, "none", 2, 0, 0)
Invvpid  == Instr(56, TRUE, "none", 2, 0, 1)
Cpuid    == Instr(162, FALSE, "none", 3, 0, 0)

AllCode  == {Vmread, Vmwrite, Vmlaunch, Vmxon, Vmxoff, Vmclear, Vmptrld,
             Vmptrst, Invept, Invvpid, Cpuid}
CoreCode == {Vmread, Vmwrite, Vmresume, Vmptrld, Vmclear}
RunCode  == {Vmwrite, Vmresume, Vmptrld}

Launching  == {TRUE}
BothBuilds == BOOLEAN

OneSeg    == {"CS"}
OneTable  == {"GDTR"}
TwoRegs   == {"CR3", "RFLAGS"}
OneRegion == {r1}
None      == {}

\* Usable 64-bit code, accessed or not, and unusable.
Code64 == [ar |-> {0, 1, 3, 4, 7, 13, 15}, attrib |-> {0, 1, 3, 4, 7, 9, 11}]
Null   == [ar |-> {16}, attrib |-> {}]
TwoDescriptors == {Code64, Null}

CarryFlags == {0, 1, 6, 9}
OneAsid  == {{0}}
OneRax   == {{5}}

\* Guest state.
StateWrites == {<<RIP, 0>>, <<Guest("CR3"), {12}>>, <<EFER, {8}>>,
                <<Access("CS"), {1, 3, 4, 7, 13, 15}>>, <<Access("CS"), {4, 16}>>}
StateGuest  == {<<"CR3", {13}>>, <<"EFER", {8, 10}>>}
StateReads  == {Guest("CR3")}
StateAndControls == StateWrites \cup {<<CPU, {7}>>}

\* Controls.  VPID 16 is an ASID the processor of these runs does not have.
Segment == {<<Access("CS"), {1, 3, 4, 7, 13, 15}>>}
ControlWrites == Segment \cup
  {<<PIN, {0}>>, <<PIN, {}>>, <<CPU, {7, 31}>>, <<CPU, {}>>,
   <<SECONDARY, {1, 5}>>, <<VPID, {4}>>, <<EXCEPTION_BITMAP, {14}>>,
   <<ENTRY_INTR_INFO, {1, 2, 3, 8, 9, 11, 31}>>}
InterruptFlags == {<<"RFLAGS", {1}>>, <<"RFLAGS", {1, 9}>>}

\* Launches that enter no guest.
DisabledWrites ==
  {<<Guest("CR3"), {12}>>, <<EFER, {8}>>, <<PAT, {1, 2}>>,
   <<Access("CS"), {1, 3, 4, 7, 13, 15}>>, <<Access("CS"), {4, 16}>>,
   <<Limit("CS"), Bits(0, 31)>>, <<TableBase("GDTR"), {12}>>, <<ENTRY_INTR_INFO, {1, 31}>>}

AllWrites == StateAndControls \cup DisabledWrites

Fields(writes) == {w[1] : w \in writes}

\* Each build is explored with the fields of its own set.  No action reads
\* the trap frame, the VMXON flag or, but for the TLB itself, the TLB: the
\* steps that change them are taken and checked everywhere, what follows is
\* explored from their usual values only.
OwnWrites ==
  LET own == IF guestLaunch THEN StateAndControls ELSE DisabledWrites
  IN  /\ \A e \in Fields(AllWrites) \ Fields(own) : fVmcs[e] = Unwritten[e]
      /\ ~ bound => Cardinality({e \in Enc : fVmcs[e] # Unwritten[e]}) <= 1
      /\ ~ fVmxRoot /\ ~ strayed
      /\ frame.data = {} /\ (current # NoRegion => frame.handled)
      /\ \A a \in SupportedAsids : tlb[a] \in {"empty", "fresh"}

\* For the run of the controls.  A VMM strays only while no guest runs and
\* for good, and what is checked, GuestYields included, is said of VMMs that
\* have not: every behaviour that could violate it is explored.  Only
\* EntriesConsistent is said of the others too.
NotStrayed == ~ strayed

NestedWrites == Segment \cup {<<CPU, {7, 31}>>, <<SECONDARY, {1, 5}>>}
TableWrites  == Segment \cup {<<TableBase("GDTR"), {12}>>, <<CPU, {7}>>}
LoadsGdtr    == {<<"GDTR", {13}>>}
InjectWrites == Segment \cup {<<ENTRY_INTR_INFO, {1, 2, 3, 8, 9, 31}>>, <<CPU, {7}>>}
==============================================================================
