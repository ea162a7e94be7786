------------------------------ MODULE VmxDecode ------------------------------
(***************************************************************************)
(* VmxEmulator::decodeVmx (src/kern_vmx_emu.cpp): which VMX instruction    *)
(* raised the #UD, and which registers hold its operands.  It works on     *)
(* what the length disassembler hde64 reports of the bytes at the trap RIP *)
(* - external, a record with the members of hde64s the code reads.         *)
(*                                                                         *)
(* The result "NONE" stands for a false return: handleUD discards whatever *)
(* was decoded before it.                                                  *)
(***************************************************************************)
EXTENDS Naturals

\* hde64s, and its length and F_ERROR flag (0 and TRUE when the bytes are no
\* instruction).
Hde ==
  [len : Nat, error : BOOLEAN, opcode : Nat, opcode2 : Nat,
   p_66 : BOOLEAN, p_rep : {"none", "F2", "F3"},
   mod : 0 .. 3, reg : 0 .. 7, rm : 0 .. 7,
   rex_r : BOOLEAN, rex_b : BOOLEAN]

modrm(hs) == 64 * hs.mod + 8 * hs.reg + hs.rm

\* Mutant: VMXON and VMCLEAR trade their prefixes.
SwappedPrefixes(hs) ==
  CASE hs.reg = 6 -> IF hs.p_66 THEN "VMXON"
                     ELSE IF hs.p_rep = "F3" THEN "VMCLEAR" ELSE "VMPTRLD"
    [] hs.reg = 7 -> "VMPTRST"
    [] OTHER      -> "NONE"

group0FC7(hs) ==
  CASE hs.reg = 6 -> IF hs.p_rep = "F3" THEN "VMXON"
                     ELSE IF hs.p_66 THEN "VMCLEAR" ELSE "VMPTRLD"
    [] hs.reg = 7 -> "VMPTRST"
    [] OTHER      -> "NONE"

group0F01(hs) ==
  CASE modrm(hs) = 194 -> "VMLAUNCH"
    [] modrm(hs) = 195 -> "VMRESUME"
    [] modrm(hs) = 196 -> "VMXOFF"
    [] OTHER           -> "NONE"

group0F38(hs) ==
  CASE hs.p_66 /\ modrm(hs) = 128 -> "INVEPT"
    [] hs.p_66 /\ modrm(hs) = 129 -> "INVVPID"
    [] OTHER                      -> "NONE"

registerForm(hs, op) == IF hs.mod = 3 THEN op ELSE "NONE"

opcodeOf(hs) ==
  IF hs.len = 0 \/ hs.error \/ hs.opcode # 15
  THEN "NONE"
  ELSE CASE hs.opcode2 = 120 -> registerForm(hs, "VMREAD")
         [] hs.opcode2 = 121 -> registerForm(hs, "VMWRITE")
         [] hs.opcode2 = 1   -> group0F01(hs)
         [] hs.opcode2 = 199 -> group0FC7(hs)
         [] hs.opcode2 = 56  -> group0F38(hs)
         [] OTHER            -> "NONE"

\* Mutant: the REX extension of the data register is forgotten.
RmWithoutRex(hs) == hs.rm

regIdx(hs) == hs.reg + IF hs.rex_r THEN 8 ELSE 0
rmIdx(hs)  == hs.rm + IF hs.rex_b THEN 8 ELSE 0

\* amdv_gpr: the member of the saved state that holds general register idx.
amdv_gpr(idx) ==
  <<"rax", "rcx", "rdx", "rbx", "isf.rsp", "rbp", "rsi", "rdi",
    "r8", "r9", "r10", "r11", "r12", "r13", "r14", "r15">>[(idx % 16) + 1]

NoSlot == "none"

decodeVmx(hs) ==
  LET op == opcodeOf(hs)
      operands == op \in {"VMREAD", "VMWRITE"}
  IN  [op     |-> op,
       length |-> hs.len,
       field  |-> IF operands THEN amdv_gpr(regIdx(hs)) ELSE NoSlot,
       data   |-> IF operands THEN amdv_gpr(rmIdx(hs)) ELSE NoSlot]
==============================================================================
