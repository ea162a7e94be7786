------------------------------ MODULE DecodeLaws ------------------------------
(***************************************************************************)
(* decodeVmx against the instruction set: the encodings src/kern_vmx.hpp   *)
(* lists beside VmxOpcode, with the operand forms the manual gives them.   *)
(* To the inputs of ConversionLaws come instructions, as hde64 reports     *)
(* them.                                                                   *)
(***************************************************************************)
EXTENDS VmxDecode, ConversionLaws

CONSTANT Instructions

ASSUME DecodeAssumption == \A i \in Instructions : i \in Hde

LawsInit ==
  \/ Init
  \/ input \in [kind : {"instruction"}, hs : Instructions]

LawsSpec == LawsInit /\ [][Next]_input

Instruction == input.kind = "instruction"

------------------------------------------------------------------------------
\* The instruction set.  A mandatory F3 wins over 66 (SDM Vol.2, 2.1.2); the
\* instructions that take a VMCS address or an INVEPT descriptor have a
\* memory operand, so that a register there encodes something else.

Memory(hs) == hs.mod # 3

Legal(hs) == ~ hs.error /\ hs.len > 0 /\ hs.opcode = 15

Encodes(hs) ==
  [VMREAD   |-> Legal(hs) /\ hs.opcode2 = 120,
   VMWRITE  |-> Legal(hs) /\ hs.opcode2 = 121,
   VMLAUNCH |-> Legal(hs) /\ hs.opcode2 = 1 /\ hs.mod = 3 /\ hs.reg = 0 /\ hs.rm = 2,
   VMRESUME |-> Legal(hs) /\ hs.opcode2 = 1 /\ hs.mod = 3 /\ hs.reg = 0 /\ hs.rm = 3,
   VMXOFF   |-> Legal(hs) /\ hs.opcode2 = 1 /\ hs.mod = 3 /\ hs.reg = 0 /\ hs.rm = 4,
   VMXON    |-> Legal(hs) /\ hs.opcode2 = 199 /\ hs.reg = 6 /\ Memory(hs) /\ hs.p_rep = "F3",
   VMCLEAR  |-> Legal(hs) /\ hs.opcode2 = 199 /\ hs.reg = 6 /\ Memory(hs)
                  /\ hs.p_66 /\ hs.p_rep # "F3",
   VMPTRLD  |-> Legal(hs) /\ hs.opcode2 = 199 /\ hs.reg = 6 /\ Memory(hs)
                  /\ ~ hs.p_66 /\ hs.p_rep = "none",
   VMPTRST  |-> Legal(hs) /\ hs.opcode2 = 199 /\ hs.reg = 7 /\ Memory(hs)
                  /\ ~ hs.p_66 /\ hs.p_rep = "none"]

\* The register a ModRM field and its REX bit name, by its architectural
\* number.
Registers ==
  <<"rax", "rcx", "rdx", "rbx", "isf.rsp", "rbp", "rsi", "rdi",
    "r8", "r9", "r10", "r11", "r12", "r13", "r14", "r15">>

MemoryForm(hs, op) == op \in {"VMREAD", "VMWRITE"} /\ Memory(hs)

(* Every VMX instruction with the operand forms the emulator handles is    *)
(* recognised as itself; VMREAD and VMWRITE with a memory operand are      *)
(* declined, and never misread as something else.                          *)
VmxRecognised ==
  Instruction =>
    \A op \in DOMAIN Encodes(input.hs) :
      Encodes(input.hs)[op] =>
        decodeVmx(input.hs).op = IF MemoryForm(input.hs, op) THEN "NONE" ELSE op

(* The field of a VMREAD or VMWRITE comes from the register ModRM.reg      *)
(* names and its data from or to the one ModRM.r/m names, all sixteen of   *)
(* them, found at their own place in the trap frame.                       *)
OperandsResolved ==
  Instruction =>
    LET hs == input.hs
        d  == decodeVmx(hs)
    IN  d.op \in {"VMREAD", "VMWRITE"} =>
          /\ d.field = Registers[1 + hs.reg + IF hs.rex_r THEN 8 ELSE 0]
          /\ d.data  = Registers[1 + hs.rm + IF hs.rex_b THEN 8 ELSE 0]

(* "not a VMX instruction; let the kernel re-raise #UD"                    *)
(* (src/kern_vmx_emu.cpp): what handleUD consumes is a VMX instruction.    *)
\* The 0F 38 group is left out: what hde64 reports there as ModRM is the
\* third opcode byte, and its own ModRM is not examined.
OnlyVmxConsumed ==
  Instruction /\ decodeVmx(input.hs).op \notin {"NONE", "INVEPT", "INVVPID"} =>
    \E op \in DOMAIN Encodes(input.hs) : Encodes(input.hs)[op]
==============================================================================
