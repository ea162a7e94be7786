------------------------------ MODULE VmxMachine ------------------------------
(***************************************************************************)
(* What VmxEmulator promises the VMM and its guests, with no VMCB in it: a *)
(* processor with ONE VMCS.  Outside a guest the VMM writes fields; a      *)
(* guest is entered with what they hold and changes them as it runs; it    *)
(* leaves for an event the controls ask for and leaves the reason behind.  *)
(* RAX is no field: nobody but the guest changes it.                       *)
(*                                                                         *)
(* The abstract specification VmxEmulator implements.  It says nothing of  *)
(* how a field is encoded for the other processor, of when one is copied,  *)
(* or of what armed an exit, and it knows no VMPTRLD: it has one VMCS.     *)
(***************************************************************************)
EXTENDS Naturals

CONSTANTS
  Blank,          \* what each holds before it is written
  Writes,         \* <<field, value>> the VMM may write
  Loads,          \* <<field, value>> a guest may load
  Rax,            \* values a guest may leave in RAX
  Rip, MaxRip,    \* the field a running guest counts up, and its bound
  Reason, Length, \* the fields an exit reports in
  Exits,          \* [reason, length, asks] : why a guest may leave, the length
                  \* reported if any, the <<control, bit>> that must be set
  Refusal         \* the reason reported when no guest was entered

VARIABLES
  entering,  \* whether this processor enters guests at all; never changed
  vmcs,      \* what each field holds, for a guest as for the VMM
  running,   \* a guest runs
  rax

machineVars == <<entering, vmcs, running, rax>>

MachineInit ==
  /\ entering \in BOOLEAN
  /\ vmcs = Blank
  /\ running = FALSE
  /\ rax = {}

MachineWrite(e, v) ==
  /\ ~ running
  /\ vmcs' = [vmcs EXCEPT ![e] = v]
  /\ UNCHANGED <<entering, running, rax>>

MachineRefuse ==
  /\ ~ running /\ ~ entering
  /\ vmcs' = [vmcs EXCEPT ![Reason] = Refusal]
  /\ UNCHANGED <<entering, running, rax>>

MachineEnter ==
  /\ ~ running /\ entering
  /\ running' = TRUE
  /\ UNCHANGED <<entering, vmcs, rax>>

MachineGuestRuns ==
  /\ running /\ vmcs[Rip] < MaxRip
  /\ vmcs' = [vmcs EXCEPT ![Rip] = vmcs[Rip] + 1]
  /\ UNCHANGED <<entering, running, rax>>

MachineGuestLoads(e, v) ==
  /\ running
  /\ vmcs' = [vmcs EXCEPT ![e] = v]
  /\ UNCHANGED <<entering, running, rax>>

MachineGuestSetsRax(v) ==
  /\ running
  /\ rax' = v
  /\ UNCHANGED <<entering, vmcs, running>>

MachineExit(x) ==
  /\ running
  /\ \A a \in x.asks : a[2] \in vmcs[a[1]]
  /\ running' = FALSE
  /\ vmcs' = [vmcs EXCEPT ![Reason] = x.reason,
                          ![Length] = IF x.length > 0 THEN x.length ELSE vmcs[Length]]
  /\ UNCHANGED <<entering, rax>>

MachineNext ==
  \/ \E w \in Writes : MachineWrite(w[1], w[2])
  \/ MachineRefuse
  \/ MachineEnter
  \/ MachineGuestRuns
  \/ \E w \in Loads : MachineGuestLoads(w[1], w[2])
  \/ \E v \in Rax : MachineGuestSetsRax(v)
  \/ \E x \in Exits : MachineExit(x)

MachineSpec == MachineInit /\ [][MachineNext]_machineVars
==============================================================================
