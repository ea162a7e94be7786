----------------------------- MODULE WorldSwitch -----------------------------
(***************************************************************************)
(* svmWorldSwitch (src/svm_switch.S) and its call in vmlaunchResume: the   *)
(* kernel threads of a VMM, each emulating a launch, enter the one guest   *)
(* there is through the one VMCB and the one GuestGprs there are.  One     *)
(* action per group of instructions; CLGI, VMLOAD, VMRUN, VMSAVE and STGI  *)
(* are a step each.                                                        *)
(*                                                                         *)
(* A thread has its own registers and stack.  A processor has what no      *)
(* context switch touches: GIF, the state VMLOAD and VMSAVE move (hidden), *)
(* and the RAX it keeps in its host save area.  A thread may be preempted  *)
(* and moved between any two steps while GIF is set.                       *)
(*                                                                         *)
(* A value is <<whose, register, version>>.  Beside the code runs a        *)
(* REFERENCE, owned: the registers of the guest as it last left them.      *)
(***************************************************************************)
EXTENDS Integers, Sequences

CONSTANTS
  Thread, Cpu,
  Idle,        \* runs on a processor when no thread does
  GuestSets    \* sets of registers a guest may change in one run

ASSUME SwitchAssumption == Idle \notin Thread

\* GuestGprs, in the order of its fields.
GuestGprs == <<"rbx", "rcx", "rdx", "rbp", "rsi", "rdi", "r8", "r9", "r10",
               "r11", "r12", "r13", "r14", "r15">>

Swapped     == {GuestGprs[i] : i \in 1 .. 14}
Gpr         == Swapped \cup {"rax"}
GuestState  == Gpr \cup {"hidden"}
CalleeSaved == {"rbp", "rbx", "r12", "r13", "r14", "r15"}

ASSUME GuestAssumption == GuestSets \subseteq SUBSET GuestState

Caller(r)  == <<"caller", r, 0>>
VmcbPA     == <<"caller", "vmcb_pa", 0>>
G          == <<"caller", "g", 0>>
ReturnTo   == <<"caller", "rip", 0>>
Zero       == <<"zero", "zero", 0>>
HostHidden == <<"host", "hidden", 0>>

VARIABLES
  step,        \* the next step of each thread
  gpr, stack,  \* of each thread
  running,     \* the thread on each processor
  gif, hidden, saveRax,   \* of each processor
  vmcb,        \* RAX and the hidden state in the VMCB
  fGprs, fGuestRax,
  owned,       \* reference
  overlapped   \* history: two launches have been in progress at once

local  == <<gpr, stack>>
cpus   == <<gif, hidden, saveRax>>
shared == <<vmcb, fGprs, fGuestRax>>
history == <<owned, overlapped>>
vars   == <<step, local, running, cpus, shared, history>>

Inside == {"vmload", "vmrun", "guest", "vmsave", "stgi"}
Steps  == Inside \cup
  {"caller", "save", "stash", "load", "operand", "clgi", "recover", "store",
   "unstash", "restore", "ret", "returned", "astray"}

Init ==
  /\ step = [t \in Thread |-> "caller"]
  /\ gpr = [t \in Thread |-> [r \in Gpr |-> Caller(r)]]
  /\ stack = [t \in Thread |-> <<>>]
  /\ running = [c \in Cpu |-> Idle]
  /\ gif = [c \in Cpu |-> TRUE]
  /\ hidden = [c \in Cpu |-> HostHidden] /\ saveRax = [c \in Cpu |-> Zero]
  /\ vmcb = [rax |-> Zero, hidden |-> Zero]
  /\ fGprs = [r \in Swapped |-> Zero] /\ fGuestRax = Zero
  /\ owned = [r \in GuestState |-> Zero]
  /\ overlapped = FALSE

At(t, c, s)   == running[c] = t /\ step[t] = s
Goto(t, s)    == step' = [step EXCEPT ![t] = s]
Set(t, regs)  == gpr' = [gpr EXCEPT ![t] = regs]
\* [rsp + 8 * k]
Top(t, k)     == stack[t][Len(stack[t]) - k]
Drop(t, n)    == stack' = [stack EXCEPT ![t] = SubSeq(@, 1, Len(@) - n)]

------------------------------------------------------------------------------
\* vmlaunchResume, around the call

\* The translation, which comes before, is VmxEmulator's.
callSwitch(t, c) ==
  /\ At(t, c, "caller")
  /\ vmcb' = [vmcb EXCEPT !.rax = fGuestRax]
  /\ Set(t, [gpr[t] EXCEPT !["rdi"] = VmcbPA, !["rsi"] = G])
  /\ stack' = [stack EXCEPT ![t] = @ \o <<ReturnTo>>]
  /\ overlapped' = (overlapped \/ \E u \in Thread \ {t} : step[u] # "caller")
  /\ Goto(t, "save")
  /\ UNCHANGED <<running, cpus, fGprs, fGuestRax, owned>>

\* The caller goes on using its callee-saved registers, and reloads others.
fetchRax(t, c) ==
  /\ At(t, c, "returned")
  /\ fGuestRax' = vmcb.rax
  /\ Set(t, [r \in Gpr |-> IF r \in CalleeSaved THEN gpr[t][r] ELSE Caller(r)])
  /\ Goto(t, "caller")
  /\ UNCHANGED <<stack, running, cpus, vmcb, fGprs, history>>

------------------------------------------------------------------------------
\* svmWorldSwitch

\* Mutant: a register too many is pushed.
PushRaxToo(t, c) ==
  /\ At(t, c, "save")
  /\ LET regs == gpr[t]
     IN  stack' = [stack EXCEPT ![t] =
           @ \o <<regs["rbp"], regs["rbx"], regs["r12"], regs["r13"],
                  regs["r14"], regs["r15"], regs["rax"]>>]
  /\ Goto(t, "stash")
  /\ UNCHANGED <<gpr, running, cpus, shared, history>>

saveCallee(t, c) ==
  /\ At(t, c, "save")
  /\ LET regs == gpr[t]
     IN  stack' = [stack EXCEPT ![t] =
           @ \o <<regs["rbp"], regs["rbx"], regs["r12"], regs["r13"],
                  regs["r14"], regs["r15"]>>]
  /\ Goto(t, "stash")
  /\ UNCHANGED <<gpr, running, cpus, shared, history>>

stash(t, c) ==
  /\ At(t, c, "stash")
  /\ stack' = [stack EXCEPT ![t] = @ \o <<gpr[t]["rdi"], gpr[t]["rsi"]>>]
  /\ Goto(t, "load")
  /\ UNCHANGED <<gpr, running, cpus, shared, history>>

\* Where each register is loaded from and stored to.
LoadFrom ==
  [rbx |-> 0, rcx |-> 8, rdx |-> 16, rbp |-> 24, rsi |-> 32, rdi |-> 40,
   r8 |-> 48, r9 |-> 56, r10 |-> 64, r11 |-> 72, r12 |-> 80, r13 |-> 88,
   r14 |-> 96, r15 |-> 104]

\* Mutant: two stores go to each other's place.
StoreSwapped ==
  [rbx |-> 0, rcx |-> 8, rdx |-> 16, rbp |-> 24, rsi |-> 40, rdi |-> 32,
   r8 |-> 48, r9 |-> 56, r10 |-> 64, r11 |-> 72, r12 |-> 80, r13 |-> 88,
   r14 |-> 96, r15 |-> 104]

StoreTo ==
  [rbx |-> 0, rcx |-> 8, rdx |-> 16, rbp |-> 24, rsi |-> 32, rdi |-> 40,
   r8 |-> 48, r9 |-> 56, r10 |-> 64, r11 |-> 72, r12 |-> 80, r13 |-> 88,
   r14 |-> 96, r15 |-> 104]

FieldAt(offset) == GuestGprs[(offset \div 8) + 1]

\* rax, which is not itself loaded, is the base.
loadGuest(t, c) ==
  /\ At(t, c, "load")
  /\ Set(t, [r \in Gpr |-> IF r = "rax" THEN gpr[t]["rsi"]
                                        ELSE fGprs[FieldAt(LoadFrom[r])]])
  /\ Goto(t, "operand")
  /\ UNCHANGED <<stack, running, cpus, shared, history>>

\* Mutant: the other argument is taken from the stack.
OperandFromTop(t, c) ==
  /\ At(t, c, "operand")
  /\ Set(t, [gpr[t] EXCEPT !["rax"] = Top(t, 0)])
  /\ Goto(t, "clgi")
  /\ UNCHANGED <<stack, running, cpus, shared, history>>

operand(t, c) ==
  /\ At(t, c, "operand")
  /\ Set(t, [gpr[t] EXCEPT !["rax"] = Top(t, 1)])
  /\ Goto(t, "clgi")
  /\ UNCHANGED <<stack, running, cpus, shared, history>>

\* Mutant: interrupts stay enabled around VMLOAD.
NoClgi(t, c) ==
  /\ At(t, c, "clgi")
  /\ Goto(t, "vmload")
  /\ UNCHANGED <<local, running, cpus, shared, history>>

clgi(t, c) ==
  /\ At(t, c, "clgi")
  /\ gif' = [gif EXCEPT ![c] = FALSE]
  /\ Goto(t, "vmload")
  /\ UNCHANGED <<local, running, hidden, saveRax, shared, history>>

vmload(t, c) ==
  /\ At(t, c, "vmload")
  /\ hidden' = [hidden EXCEPT ![c] = vmcb.hidden]
  /\ Goto(t, "vmrun")
  /\ UNCHANGED <<local, running, gif, saveRax, shared, history>>

\* The processor keeps the host's RAX, takes the guest's and sets GIF.
vmrun(t, c) ==
  /\ At(t, c, "vmrun")
  /\ saveRax' = [saveRax EXCEPT ![c] = gpr[t]["rax"]]
  /\ Set(t, [gpr[t] EXCEPT !["rax"] = vmcb.rax])
  /\ gif' = [gif EXCEPT ![c] = TRUE]
  /\ Goto(t, "guest")
  /\ UNCHANGED <<stack, running, hidden, shared, history>>

\* The guest has changed the registers in R when it exits.  #VMEXIT clears
\* GIF, puts the guest's RAX in the VMCB and takes the host's back.
Changed(r, v) == IF v = <<"guest", r, 0>> THEN <<"guest", r, 1>> ELSE <<"guest", r, 0>>

vmexit(t, c, R) ==
  LET found == [r \in GuestState |-> IF r = "hidden" THEN hidden[c] ELSE gpr[t][r]]
      left  == [r \in GuestState |-> IF r \in R THEN Changed(r, found[r]) ELSE found[r]]
  IN  /\ At(t, c, "guest")
      /\ Set(t, [r \in Gpr |-> IF r = "rax" THEN saveRax[c] ELSE left[r]])
      /\ vmcb' = [vmcb EXCEPT !.rax = left["rax"]]
      /\ hidden' = [hidden EXCEPT ![c] = left["hidden"]]
      /\ gif' = [gif EXCEPT ![c] = FALSE]
      /\ owned' = left
      /\ Goto(t, "vmsave")
      /\ UNCHANGED <<stack, running, saveRax, fGprs, fGuestRax, overlapped>>

vmsave(t, c) ==
  /\ At(t, c, "vmsave")
  /\ vmcb' = [vmcb EXCEPT !.hidden = hidden[c]]
  /\ Goto(t, "stgi")
  /\ UNCHANGED <<local, running, cpus, fGprs, fGuestRax, history>>

stgi(t, c) ==
  /\ At(t, c, "stgi")
  /\ gif' = [gif EXCEPT ![c] = TRUE]
  /\ Goto(t, "recover")
  /\ UNCHANGED <<local, running, hidden, saveRax, shared, history>>

recover(t, c) ==
  /\ At(t, c, "recover")
  /\ Set(t, [gpr[t] EXCEPT !["rax"] = Top(t, 0)])
  /\ Goto(t, "store")
  /\ UNCHANGED <<stack, running, cpus, shared, history>>

storeGuest(t, c) ==
  /\ At(t, c, "store")
  /\ fGprs' = [f \in Swapped |->
                 gpr[t][CHOOSE r \in Swapped : FieldAt(StoreTo[r]) = f]]
  /\ Goto(t, "unstash")
  /\ UNCHANGED <<local, running, cpus, vmcb, fGuestRax, history>>

unstash(t, c) ==
  /\ At(t, c, "unstash")
  /\ Drop(t, 2)
  /\ Goto(t, "restore")
  /\ UNCHANGED <<gpr, running, cpus, shared, history>>

\* Mutant: the registers are popped in the order they were pushed.
RestoreInPushOrder(t, c) ==
  /\ At(t, c, "restore")
  /\ Set(t, [gpr[t] EXCEPT !["rbp"] = Top(t, 0), !["rbx"] = Top(t, 1),
                           !["r12"] = Top(t, 2), !["r13"] = Top(t, 3),
                           !["r14"] = Top(t, 4), !["r15"] = Top(t, 5)])
  /\ Drop(t, 6)
  /\ Goto(t, "ret")
  /\ UNCHANGED <<running, cpus, shared, history>>

restore(t, c) ==
  /\ At(t, c, "restore")
  /\ Set(t, [gpr[t] EXCEPT !["r15"] = Top(t, 0), !["r14"] = Top(t, 1),
                           !["r13"] = Top(t, 2), !["r12"] = Top(t, 3),
                           !["rbx"] = Top(t, 4), !["rbp"] = Top(t, 5)])
  /\ Drop(t, 6)
  /\ Goto(t, "ret")
  /\ UNCHANGED <<running, cpus, shared, history>>

\* To wherever the top of the stack says.
ret(t, c) ==
  /\ At(t, c, "ret")
  /\ Goto(t, IF Top(t, 0) = ReturnTo THEN "returned" ELSE "astray")
  /\ Drop(t, 1)
  /\ UNCHANGED <<gpr, running, cpus, shared, history>>

svmWorldSwitch(t, c) ==
  \/ saveCallee(t, c) \/ stash(t, c) \/ loadGuest(t, c) \/ operand(t, c)
  \/ clgi(t, c) \/ vmload(t, c) \/ vmrun(t, c)
  \/ \E R \in GuestSets : vmexit(t, c, R)
  \/ vmsave(t, c) \/ stgi(t, c)
  \/ recover(t, c) \/ storeGuest(t, c) \/ unstash(t, c) \/ restore(t, c)
  \/ ret(t, c)

\* The scheduler: on an interrupt, which GIF holds back and a guest does not
\* see, a processor takes up any thread that runs nowhere, or none.
dispatch(c) ==
  /\ gif[c]
  /\ \A t \in Thread : ~ At(t, c, "guest")
  /\ \E t \in Thread \cup {Idle} :
       /\ \A d \in Cpu : running[d] = t => t = Idle
       /\ running' = [running EXCEPT ![c] = t]
  /\ UNCHANGED <<step, local, cpus, shared, history>>

Next ==
  \/ \E t \in Thread, c \in Cpu :
       callSwitch(t, c) \/ svmWorldSwitch(t, c) \/ fetchRax(t, c)
  \/ \E c \in Cpu : dispatch(c)

Spec == Init /\ [][Next]_vars
------------------------------------------------------------------------------
\* Properties

(* "preserves the SysV callee-saved registers per the ABI"                 *)
(* (src/svm_switch.S): when it returns, to its caller, the stack is as it  *)
(* was, the callee-saved registers are the caller's and interrupts are     *)
(* possible again: whatever the guest did, wherever the thread was moved   *)
(* and however many launches overlap.                                      *)
CallPreserved ==
  \A t \in Thread :
    /\ step[t] # "astray"
    /\ step[t] = "returned" =>
         /\ \A r \in CalleeSaved : gpr[t][r] = Caller(r)
         /\ stack[t] = <<>>
         /\ \A c \in Cpu : running[c] = t => gif[c]

(* The instructions that take an address in RAX find there the VMCB's, and *)
(* the stores that of GuestGprs: no value of the guest is used as an       *)
(* address of the host, although all other registers hold the guest's.     *)
OperandsAddressed ==
  \A t \in Thread :
    /\ step[t] \in {"vmload", "vmrun", "vmsave"} => gpr[t]["rax"] = VmcbPA
    /\ step[t] = "store" => gpr[t]["rax"] = G

(* A guest is entered with every register, RAX and the hidden state as it  *)
(* left them at its last exit, on whatever processor that was: unless two  *)
(* launches have overlapped, after which the code keeps nothing of this.   *)
GuestContinues ==
  [][\A t \in Thread, c \in Cpu :
       vmrun(t, c) /\ ~ overlapped =>
         /\ \A r \in Gpr : gpr'[t][r] = owned[r]
         /\ hidden'[c] = owned["hidden"]]_vars

(* "Field order MUST match the offsets" (src/kern_vmx_emu.hpp): between    *)
(* launches every field of GuestGprs holds the register it is named after, *)
(* as the guest left it, and fGuestRax its RAX.                            *)
GprsInPlace ==
  (\A t \in Thread : step[t] = "caller") /\ ~ overlapped =>
    /\ \A r \in Swapped : fGprs[r] = owned[r]
    /\ fGuestRax = owned["rax"]

(* From VMLOAD to VMSAVE the processor belongs to the thread: nothing else *)
(* runs on it and the thread is nowhere else, so that what VMLOAD brought  *)
(* is what the guest runs with, and VMSAVE saves what that guest left.     *)
HeldInside ==
  \A t \in Thread : step[t] \in Inside =>
    \E c \in Cpu : running[c] = t /\ (gif[c] => step[t] = "guest")

TypeOK ==
  /\ step \in [Thread -> Steps]
  /\ DOMAIN gpr = Thread /\ \A t \in Thread : DOMAIN gpr[t] = Gpr
  /\ DOMAIN stack = Thread /\ \A t \in Thread : Len(stack[t]) \in 0 .. 9
  /\ running \in [Cpu -> Thread \cup {Idle}]
  /\ \A c, d \in Cpu : running[c] = running[d] => c = d \/ running[c] = Idle
  /\ gif \in [Cpu -> BOOLEAN] /\ DOMAIN hidden = Cpu /\ DOMAIN saveRax = Cpu
  /\ DOMAIN vmcb = {"rax", "hidden"}
  /\ DOMAIN fGprs = Swapped /\ DOMAIN owned = GuestState
  /\ overlapped \in BOOLEAN
==============================================================================
