# TLA+ models of AMDV, the AMD-V Lilu plugin

AMDV wants Apple's Hypervisor.framework, which drives Intel VT-x, to run on AMD
processors. Every VMX instruction raises #UD there; the plugin's idea is to
catch that fault, decode the instruction, carry it out against a *shadow VMCS*
in memory, and run the guest with AMD's `VMRUN` after translating the shadow
into a *VMCB*. These modules model that machinery, TLC checks them on small
instances, and TLAPS proves the central properties for every instance.

Paths below are relative to the repository: `src/kern_svm.cpp` and so on.

## 1. Inventory

| component | state | operations | works with |
|---|---|---|---|
| Shadow VMCS (`kern_vmx.hpp`, `kern_vmcs_vmcb.cpp`) | 256 slots `{encoding, value}`, `count`, `launched` | `read`, `write`, `reset`, `setLaunched` | read and written by the emulator and by both translations |
| Format conversions (`kern_vmcs_vmcb.cpp`, `SVM.h`) | none | access rights <-> attributes, entry event -> EVENTINJ, exit code -> exit reason, EPT entry -> NPT entry | called by the translations |
| VMCS-VMCB translation (`kern_vmcs_vmcb.cpp`) | none | `translateVmcsToVmcb`, `translateVmcbToVmcs` | called around `VMRUN` |
| VMX emulator (`kern_vmx_emu.*`) | shadow, `fVmcb`, `fGuestRax`, `fGprs`, `fVmxRoot` | `bind`, `handleUD` and its eleven instructions, `vmlaunchResume` | called from the #UD trap; drives translation and world switch |
| Decoder (`kern_vmx_emu.cpp`, `kern_trap.hpp`) | none | `decodeVmx`, `amdv_gpr` | hde64 (Lilu), the trap frame |
| SVM backend (`kern_svm.*`) | two pages, `fEnabled`; EFER and VM_HSAVE_PA of each processor | `detect`, `enable`, `disable` | the kernel's allocator; hands its VMCB to the emulator |
| World switch (`svm_switch.S`) | processor registers | `svmWorldSwitch` | VMRUN; compiled out by default |
| Gate and lifecycle (`kern_hv_amd.*`, `kern_start.cpp`) | route, latch | `init`, `onPatcherLoad`, `deinit` | Lilu's patcher, backend, emulator |
| EPT to NPT rebuild (`kern_vmcs_vmcb.cpp`) | none | a stub that returns 0 | the translation |
| Glue and tools (`kmod_info.c`, `Makefile`, `tests/`) | none | none that changes state of the plugin | |

### What is hard, and what makes each part correct

* **Shadow VMCS.** It must be a memory: no stale slot behind `count` read back
  after `reset`, no encoding in two slots, no write lost while there is room.
  An untouched slot carries encoding 0, which is a real field (VPID).
* **Conversions.** A conversion that is off by one bit still boots guests: the
  damage appears after several exits (a segment that drifts), or only for one
  type of event, or only for the leaf of a page walk.
* **Translation and emulator.** The VMCB outlives an entry, so anything the
  translation does not write is what an *earlier* guest left; anything the
  way back does not write is lost at the exit; controls the VMM cleared must
  not fire; and the VMM must read what an Intel processor would have stored.
* **Backend.** Registers are per processor, the thread may be moved, and each
  allocation may fail half way.
* **Lifecycle.** The plugin must leave the kernel as it found it whenever a step
  of `onPatcherLoad` fails, and must not hand out a VMCB or a processor on
  which `VMRUN` cannot work.
* **World switch.** Between the loads and the stores every register but RAX
  holds the guest's value, and the routine has only its stack to find its way
  back; the order of the fourteen fields is written down three times; between
  VMLOAD and VMSAVE the processor carries state no context switch saves.
* **Not sequential in reality.** One emulator, one shadow VMCS, one VMCB and one
  set of `fGprs` serve every processor with no lock. `SharedShadow` and
  `WorldSwitch` say what overlapping calls may still rely on.

The full list, with the line at which each hazard bites, is `hazards` in
`PROJECT.json`.

## 2. Modules

| module | models | how |
|---|---|---|
| `VmcsStore` | what the shadow VMCS promises | abstract memory: `contents`, `held`, a write may be refused only when `Capacity` *other* encodings are held |
| `ShadowVMCS` | class ShadowVMCS | the slot array as a function, one action per way through `write` (overwrite, drop, append), `reset`, `setLaunched`; `ImplementsStore` is the refinement |
| `Words` | machine words | a word is the set of its 1 bits; `Low(w, n)` is a cast to n bits. A 64-bit word is as cheap as a small one, and nothing is narrowed |
| `Conversions` | the pure conversions | one operator per C++ function |
| `ConversionLaws` | - | what they must preserve, stated from the layouts of the two manuals; the variables are the inputs |
| `VmxDecode` | `decodeVmx`, `amdv_gpr` | function of the record hde64 fills in |
| `DecodeLaws` | - | the instruction set, stated from the manual; EXTENDS `ConversionLaws`, whose inputs it takes an instruction beside |
| `Translate` | the two translations | VMCS: function from encodings to values; VMCB: record; both translations are functions |
| `VmxEmulator` | `VmxEmulator` and the guest it runs | one action per instruction `handleUD` dispatches and per way through `vmlaunchResume`; see below |
| `VmxMachine` | - | abstract specification of the emulator: one VMCS, no VMCB, a guest that enters, changes fields and exits |
| `SvmBackend` | `SvmBackend` | one action per register access and allocation; a read of EFER and the write that follows it are one, since the SVME written depends on nothing read |
| `HypervisorAMD` | `HypervisorAMD`, the plugin's entry point | EXTENDS `SvmBackend`; the stages of `onPatcherLoad`, its failures, the latch's three steps, `deinit` |
| `WorldSwitch` | `svmWorldSwitch` and its call | one action per group of instructions; threads are preempted and moved between any two of them while GIF is set |
| `SharedShadow` | ShadowVMCS under several processors | EXTENDS `ShadowVMCS`; each turn of a scan and each load or store of a value is a step, the three stores of an append come in any order |

`MC*.tla` give the constants values; each `.cfg` is one run. `*_proofs.tla`
hold the theorems.

How the modules fit together: `HypervisorAMD` contains `SvmBackend`, and
`PluginImplementsBackend` proves that it drives it as its own specification
allows. `VmxEmulator` uses `VmxDecode`, `Translate` and `Conversions`, and
takes the shadow as `VmcsStore`. The two modules about several processors each
take one shared object: `SharedShadow` the shadow, `WorldSwitch` the VMCB,
`fGprs` and `fGuestRax`. `vmlaunchResume` is thus in two modules: the
translations in `VmxEmulator`, the registers in `WorldSwitch`.

### The world switch

A value is `<<whose, register, version>>`, so that every misplaced register is
seen. A thread has its registers and stack; a processor has GIF, the state
VMLOAD and VMSAVE move (`hidden`), and the RAX it keeps in its save area. The
guest's registers as it last left them are the reference `owned`. `overlapped`
becomes true when a thread calls `svmWorldSwitch` while another is in it; from
then on the guest's registers are anybody's, as in the code, and only what
protects the host is still claimed.

### The shared shadow

Each processor is idle or somewhere in a call (`call`). `raced` becomes true
when an append or a reset overlaps another call. Two such calls access `count`
and the same slot without synchronisation, which C++ leaves undefined, so
nothing is claimed after it. The properties say that everything short of that is
harmless: which is what a lock would have to be taken for, and what not. A turn
of the scan loads `count` and one encoding at once; loading them apart shows
nothing more before a race, since `count` only grows and a slot below it keeps
its encoding.

### The emulator and its reference

Beside the emulator's own state `VmxEmulator` carries what the code never sees:
`hw` and `current`, the VMCS regions and the current one as an Intel processor
given the same instructions would hold them; `ownRax`, the guest's RAX; and
`tlb`, whether the translations cached for an ASID are older than the VMM's last
edit of its EPT. Properties compare the two sides. `strayed` becomes true when
the VMM executes VMWRITE with no current VMCS: an Intel processor fails the
instruction, the emulator carries it out, and from then on the shadow is
nobody's VMCS, so the comparison ends. `ImplementsMachine` and
`EntriesConsistent` go on. That a VMM enters a guest only with a current VMCS in a
state VM entry accepts (`Launch`) is the discipline of the VMM, not a check of
the code.

`enterGuest` is `vmlaunchResume` up to `VMRUN`. While the guest runs its
registers are the save area of `fVmcb`, which nothing else reads meanwhile.
Guest actions (`GuestRuns`, `GuestLoads...`) change them and, in `hw`, the
field an Intel exit would save. `exitGuest` is `#VMEXIT` and everything after
it to the end of `handleUD`, `translateVmcbToVmcs` included. The macro
`AMDV_ENABLE_GUEST_LAUNCH` is the variable `guestLaunch`, chosen among `Builds`
in the first state and constant from there.

`Accepted` is what VMRUN checks of what the translation writes: SVME, the VMRUN
intercept, the type and the vector of the event (`Consistent`), and that the
ASID is one the processor has. If the VMCB does not pass, the only exit is
VMEXIT_INVALID, of which the Intel reference records nothing (`Recorded`): the
VMM is to read an unknown reason and everything else as it was. The processor's side
(guest steps, VMRUN's checks, when an intercept fires) is external: modelled
from how the code uses it.

The shadow is taken as the memory `VmcsStore`, since `ShadowVMCS` implements it
and, with fewer fields than slots, refuses nothing (the assumption
`StoreLargeEnough`).

The trap frame a VMX instruction leaves is `frame`; the instruction's length
is `frame.rip`, its RIP counted from the faulting instruction. General
registers other than RAX and the VMREAD destination are `WorldSwitch`'s.
VMPTRLD's operand is an input the code ignores, and only the reference uses.

`VmxMachine` is what the emulator promises: a processor with one VMCS, in which
the VMM writes fields and a guest enters with them, changes them and leaves for
what they ask for. The mapping (`Machine`) reads each field where it is at the
time (`Holds`): in the shadow between launches; while a guest runs its registers
and segments in the save area, by the layouts of the two manuals (`GuestHas`),
which say nothing of the code's own way back. A register the exit drops, or an
attribute it alters, is then a step `VmxMachine` does not have (mutant
`ExitDropsRegisters`). `VmxMachine` has no VMPTRLD, because the emulator's
has no effect on any field; that the one VMCS is the one the VMM loaded is what
the comparison with `hw` adds, for a VMM that loads one only. Left out of the
mapping (`KeptEnc`) are GDTR, IDTR and the valid bit of the event, which the code
does lose or keep wrongly (runs `tables_returned`, `event_once`), and a segment
that is not present is taken for one that is unusable (`Meaning`), as the code
takes it.

## 3. Runs

| run | module, cfg | checks | bounds |
|---|---|---|---|
| `shadow_full` | MCShadowVMCS, MCShadowFull | `TypeOK`, `NoDuplicates`, `ImplementsStore` | 3 slots, 4 encodings, 2 values: the store fills, refuses, is reset and refilled over stale slots |
| `laws` | MCLaws, MCLaws | `SegmentsRoundTrip`, `EventsPreserved`, `WalkRightsPreserved`, `FramesPreserved`, `VmxRecognised`, `OperandsResolved` | all 2049 valid access rights; all 8 types with edge vectors, valid or not, of which the ones VM entry accepts are converted; walks of 1 to 3 levels with all legal rights; 6 second opcodes, all reg, rm and REX, register and two memory forms, 66 and F3 |
| `guest_state` | MCVmxEmulator, MCGuestState | `TypeOK`, `EntryLoadsVmcs`, `ExitStoresVmcs`, `ImplementsMachine`; in the build that enters no guest `DisabledLaunchKeepsVmcs`, `DisabledLaunchVisible` | both builds; one segment, one table, two copied registers, EFER, RAX, a guest that loads GDTR; two descriptors; RIP up to 1; edits of the EPT; constraint `OwnWrites` |
| `controls` | MCVmxEmulator, MCControls | `ExitStoresVmcs`, `EntriesConsistent`, `AskedForArmed`, `ExitsAskedFor`, `GuestYields` (under `FairSpec`) | each control on and off, VPID 16 on a processor with one ASID, so that VMRUN refuses entries, a page fault with an error code to inject; a guest that clears and sets IF and runs one instruction; constraint `NotStrayed` |
| `lifecycle` | MCHypervisorAMD, MCLifecycle | the backend's `TypeOK`, `PagesAccounted`, `EnabledIsPrepared`, `SaveAreaOwned`, `UndisturbedDisableClears`; the plugin's `PluginTypeOK`, `PatchedOnlyWhenBound`, `FirstGateRouted`, `LaunchReady`, `LoadReturns` (under `FairPluginSpec`) | every kernel (each gate missing, unroutable or routable; the latch missing, protected or writable), with and without `-amdvgate`; 2 processors, 3 pages (a released page comes back in another role), migration anywhere, all failures |
| `world_switch` | MCWorldSwitch, MCWorldSwitch | `TypeOK`, `CallPreserved`, `OperandsAddressed`, `GprsInPlace`, `HeldInside`, `GuestContinues` | 2 threads, 2 processors, symmetry; a guest that changes all its registers in every run |
| `shared` | MCSharedShadow, MCSharedShadow | `SharedTypeOK`, `SafeSharing`, `ReadsCurrent` | 2 processors, 2 slots, 3 encodings, 2 values, symmetry; constraint `Unraced` |

Why the bounds are enough. Segments, tables and copied registers are treated
alike by the code (`kSegs` is a table the code loops over), so one of each
shows what all do; the translation of every group of fields is present. A value
matters only by being one the code masks or tests (present, unusable, SVME,
the activation bit, a VPID of zero), and those are the values written. Two
launches are enough for one to leave something to the next, and the runs put
no bound on their number. `OwnWrites` explores each build with the fields that
matter to it: the launches of the build that enters no guest differ in what the
two translations do to every group of fields, not in what a guest does. It also
cuts what follows a state in which VMREAD has left a value in the trap frame, a
fault was raised again, VMX was turned on, the EPT was edited or, before `bind`,
a second field written: the steps into those states are taken and checked, and
no later step reads what they left (the TLB's own history is the subject of the
run `invept`). It and `NotStrayed` also cut what follows a VMWRITE with no current
VMCS. A VMM strays only while no guest runs, and for good, so that no behaviour
which could violate a property of a VMM that has not strayed, `GuestYields`
included, is lost; `EntriesConsistent` alone claims more, and is proved. In `world_switch`
two values of each register (version 0 and 1) tell "as it was" from "changed",
and the registers are moved by position, never by value; two threads are enough
for one to disturb the other, and `WorldSwitch_proofs` covers the rest. In
`shared` the store fills while both processors use it; `Unraced` cuts the states
of which nothing is claimed. Symmetry is used in these two runs only: threads
and processors are interchangeable there and no liveness is checked.

Five runs expect a violation, one each for a statement of a comment or of the
repository's README that the code does not keep (`findings` in `PROJECT.json`):

| run | what happens |
|---|---|
| `vmcb_alloc_fails` | after a failed VMCB allocation SVME stays on and VM_HSAVE_PA points to a freed page |
| `tables_returned` | the guest's GDTR and IDTR never come back |
| `event_once` | an injected event is injected again by the next entry |
| `invept` | INVEPT flushes nothing |
| `only_vmx` | RDRAND and RDSEED are taken for VMX instructions |

Other disagreements met while modelling, which the models contain but no run is
spent on:

* `vmptrld` and `vmclear` ignore their operand: with two regions one shadow
  serves both. The emulator's runs have one region.
* VMWRITE keeps all 64 bits of its operand whatever the width of the field, and
  VMREAD returns them. `EmulatorAssumption` takes a VMM whose operands fit.
* VMWRITE with no current VMCS goes through (`strayed`), where an Intel processor
  fails it.
* NMI, CR3, I/O and MSR exiting are read by no line of the translation and never
  armed; for I/O and MSR the source says so (`kern_vmcs_vmcb.cpp:185-187`).
  `AskedForArmed` and `Asked` name the controls that are read.
* A VPID at or above the number of ASIDs of the processor is handed on as the ASID
  and VMRUN refuses every entry; `fNumAsids` is read by `detect()` and never used.
  `EntriesConsistent` says that no other entry is refused.
* A guest that keeps IF clear keeps the processor, although external-interrupt
  exiting, which ignores IF on an Intel processor, was asked for.
* Bit 7 of an EPT entry that maps a 4 KB page, which Intel processors ignore,
  becomes PAT in the NPT entry. `FramesPreserved` reads bit 7 of a leaf as page
  size, which it is at the two levels above.
* An EPT entry that allows only execution becomes a present user entry, hence
  readable (`ReadableWherePresent` leaves it out of `WalkRightsPreserved`).
* `vmlaunchResume` without a VMCB returns EXIT_UNKNOWN but writes nothing
  (`launchUnbound`): VMREAD of the reason gives 0, not the value returned as
  `kern_vmx_emu.hpp:52` says.
* The CPUID and VMMCALL intercepts `enable()` prepares (`PreparedVmcb`) are
  overwritten by the first translation, so no run of a guest has them armed.
* `kern_hv_amd.hpp:16-17` and `README.md:25` say that routing the gate makes the
  kernel report VMX; `kern_hv_amd.cpp:35-46` says that what applications read is
  `hv_support_available`, which routing does not touch and only `-amdvgate` sets.
  In the model the two are independent (`routed`, `hvSupport`).
* `deinit()` is `disable()`: it unroutes nothing, and the latch and the binding of
  the emulator to the released VMCB stay. `LaunchReady` therefore speaks of the
  time before it. Nothing in the repository calls `deinit()`.
* The latch is set before the emulator is bound, and the hook of #UD is a TODO: an
  application that looks meanwhile finds VMX announced and nobody to carry it
  out. `PatchedOnlyWhenBound` exempts the stages in which `onPatcherLoad` patches.
* `enable()` prepares the processor it runs on; a launch emulated on any other
  executes VMRUN with SVM off. `LaunchReady` speaks of the one processor.
* `fGprs` and `fGuestRax` are never filled from the trap frame: the guest's first
  entry has zeroes, whatever the VMM had in its registers. `GuestContinues`
  states what the code does: a guest goes on with what its last exit left.
* VMLOAD replaces the host's FS, GS, TR, LDTR and SYSENTER state and nothing loads
  it back: after `svmWorldSwitch` the processor still has the guest's.
* VMCB_CPL is never written, though the descriptors of CS and SS are.
* `README.md:30` and `kern_vmx_emu.hpp:64` call `decodeVmx` scaffolded; it
  decodes.

### Fairness

`controls`, for `GuestYields`: strong fairness of the external interrupt, since
the host's timer goes on ticking and an interrupt that is again and again
deliverable is delivered; weak fairness of VMEXIT_INVALID, since a refused VMRUN
returns. Nothing is assumed of the guest. `v_intr` is never written, so
V_INTR_MASKING is off and a guest with IF clear is not interrupted at all;
`GuestYields` is therefore stated of guests that have interrupts enabled again and
again (its premise `[]<>(Running => InterruptsEnabled)`), and of a guest that
keeps them off the code promises nothing. What the property can still find, and
its mutant shows, is an intercept that is not armed, or one that is and no longer
ends a run.

`lifecycle`, for `LoadReturns`: weak fairness of `onPatcherLoad`, since the thread
on which Lilu runs the callback is a kernel thread that is scheduled; none of its
steps waits for anything, and migrations may go on for ever.

Deadlock is checked in every run.

## 4. Proofs

TLAPS checks every leaf; the constants are arbitrary but for the named
assumptions.

**`ShadowVMCS_proofs`** - any encodings, values, `MaxFields > 0`
(`ShadowAssumption`). The inductive invariant is `TypeOK`, `NoDuplicates` and
`HeldSize`: the number of different encodings held equals `count`. `HeldSize`
is what turns the code's `count >= MaxFields` into the abstract "MaxFields other
encodings are held". From it: `TypeCorrect`, `NoDuplicatesHolds`, `Refinement`
(every step is a step of `VmcsStore` or a stutter), and `LosslessWithinCap`
(with at most `MaxFields` encodings no write is dropped).

**`ConversionLaws_proofs`** - every valid access-rights word, every event VM entry
accepts (`Injectable`), every walk of *any* number of levels over 64-bit entries (`LawsAssumption`). TLC tries
walks of three levels; `WalkRightsPreservedHolds` and `FramesPreservedHolds` say
it for all. The argument goes bit by bit through shift lemmas (`InShr`, `InShl`)
to per-entry lemmas (`EntryBits`, `EntryFrame`), then over the path. The
decoder's laws are proved too, for every instruction `hde64` can report (`Hde`)
where TLC tries a few hundred: `VmxRecognisedHolds`, by the opcode and the order
of prefixes, and `OperandsResolvedHolds`, by the arithmetic of ModRM and REX.

**`SharedShadow_proofs`** - any processors, encodings, values and slots. Until a
race, `IInv` says of each processor what its scan has established (`Stands`): the
slots behind it carry other encodings still, although others write meanwhile.
An append is alone (`Alone`), and the settled slots, those of no append under
way, hold different encodings (`Unique`), as many as there are (`HeldSize`).
From it: `SharedTypeCorrect` (count and every scan stay within the array),
`ReadsCurrentHolds` (a read returns what the memory holds at its last load) and
`SafeSharingHolds`: each call is one step of `VmcsStore`, a write at its store or
at the last store of its append, a refused one where it finds the store full.

**`SvmBackend_proofs`** - any processors and pages, migration between any two
steps, all failures. What a step relies on depends on where the call stands, so
`IInv` adds `Progress` (which pages are held at each step), `StartsEmpty` and
`Prepared`. From it: `TypeCorrect`, `PagesAccountedHolds`,
`EnabledIsPreparedHolds`. `SaveAreaOwnedHolds` and `DisableClearsAllHolds`
(`UndisturbedDisableClears`) add `Sheltered`, which confines every register
write to the thread's own processor. Both properties speak of behaviours in
which the history variable `undisturbed` is still true: the thread stayed on its
processor and no VMCB allocation failed. The run `vmcb_alloc_fails` shows that
the second condition cannot be dropped from either: VM_HSAVE_PA then keeps the
address of a page that was released.

**`HypervisorAMD_proofs`** - any kernel (`KernelAssumption`), processors, pages.
`PluginImplementsBackend` first: every behaviour of the plugin is one of
`SvmBackend`, so the backend's theorems hold in it. Then, with an invariant that
ties each stage to the state of the backend and to the gates tried so far:
`PluginTypeCorrect`, `PatchedOnlyWhenBoundHolds`, `FirstGateRoutedHolds`,
`LaunchReadyHolds`. The last speaks of `undisturbed` behaviours too: a thread moved
between the writes of EFER and VM_HSAVE_PA binds an emulator with no processor
ready.

**`WorldSwitch_proofs`** - any threads and processors (`SwitchAssumption`) and any
guest (`GuestAssumption`). `IInv` gives the whole stack of a thread at every step
and which registers are the caller's (`Stands`), and ties GIF and the RAX a
processor keeps to the thread on it (`OnSome`, `Occupied`). Of it
`CallPreservedHolds`, `OperandsAddressedHolds` and `HeldInsideHolds` are parts,
overlapping launches or not. `GprsInPlaceHolds` and `GuestContinuesHolds` rest on
`Tracked`: while launches do not overlap at most one thread is under way, and it
carries what the guest left from place to place.

**`VmxEmulator_proofs`** - any segments, tables, registers, instructions, values,
builds and guests, under three named assumptions. `TranslateAssumption`: RIP,
PAT, EFER and RAX have their own places and are none of the registers copied as
they are. `EmulatorAssumption`: what a VMM writes fits its field (`Fits`: 16, 32
or 64 bits, SVME and the reserved bits of usable access rights clear) and is no
exit field, as VMWRITE and VM entry demand. `GuestAssumption`: what a guest loads the
processor lets it load, and the access rights and the attributes of one
descriptor say the same (`SameSegment`).

The invariant comes in three layers.

1. *Types* (`Typed`): every field of the shadow fits its width (`Fitting`), the
   VMCB keeps its shape and its save area holds what a field can take back
   (`SaveAreaFits`). `EntryFits` and `ExitFits` say that each translation leads
   from the one to the other. From it `TypeOKHolds`.
2. *Entries*: `TranslationChecked` (of whatever VMCS, the translation passes
   VMRUN's checks but that of the number of the ASID; `EventsLegal` of
   `WordTheorems` is its arithmetic of EVENTINJ), `GuestStaysChecked` (no guest
   undoes that) and `AsidChosen` (the ASID is the VMM's VPID, or 1) give
   `EntriesConsistentHolds`.
   `DisabledLaunchVisibleHolds` adds that the build never changes (`BuildFixed`)
   and that without the world switch no guest runs (`NoGuestRuns`).
3. *The comparison with the Intel reference* (`Kept`), field by field.
   `Held(e)` is the field as the VMM will read it after the exit: in the shadow
   between launches, in the save area and through the way back while a guest
   runs. `Agrees` says that `Held` equals the reference for every copied field and
   the shadow does for every control, and that the reason is EXIT_UNKNOWN after a
   refused entry; `Armed` that intercepts, nested paging, ASID and PAT in the VMCB
   are those of the VMCS; `RaxKept` that RAX, which no VMCS holds, is where the code keeps it.
   It is inductive because `EntryRoundTrip` shows that an entry followed by
   an exit alters nothing, and because a guest changes save area and reference
   alike. From it: `EntryLoadsVmcsHolds`, `ExitStoresVmcsHolds`,
   `ExitsAskedForHolds`, `AskedForArmedHolds`, `DisabledLaunchKeepsVmcsHolds`.

The theorems of layer 3 have hypotheses of their own. `[]Only(r)`: of the
regions there are, the VMM loads r or none, and it writes only with one current.
Without it the statements are false, since VMPTRLD ignores its operand and one
shadow serves all (`kern_vmx_emu.cpp:66`), and VMWRITE does not ask for a current
VMCS. `Nrips`, for
`ExitStoresVmcsHolds` alone: without it the length of an exit is not known to the
code (`lengthKnown`); `ExitStoresAllButLength` says what holds without.

*The refinement* (`Refinement`: `Spec => ImplementsMachine`) has neither
hypothesis. There is one lemma per action of `VmxMachine`, and `QuietStep` for
all the emulator does that no field shows. An entry moves every field of the guest to
where `Holds` reads it next, the save area read by the manuals' layouts, and an
exit moves it back: `ReturnedIsGuests` shows that the code's way back reads
exactly what the guest has there (it would not of a register the exit dropped),
and `EntryRoundTrip` that neither way alters a field. Of the
invariant it uses the types and `Machined`, which has three parts. `Armed`: an
exit that fires was asked for, since the intercepts are still those of the entry
and VMWRITE is out of a guest's reach. `NoGuestRuns`, and `NeverExited`, that the
VMCB then holds no instruction pointer of an exit: without them the launches of
the disabled build, which translate back without a guest, might report a length.

`WordTheorems` holds the shift lemmas these two modules about words rest on.

Every safety property, every action property and both refinements a passing run
checks are theorems. Only model-checked: the two liveness
properties (`GuestYields`, `LoadReturns`), since TLAPS does not do fairness or
ENABLED; `AskedForArmed` is the safety part of the first. The five runs
that expect a violation have nothing to prove.

## 5. Not modelled

* Wording of logs; the layout of the VMCB page (offsets); real addresses.
* hde64, the kernel's allocator, Lilu's patcher, the processor: external.
* MSR and I/O bitmaps, exit qualification, interruption information: TODOs of
  the source with no code behind them.
* `kmod_info.c`, `Info.plist`, Makefiles: no behaviour. `tests/`: a CPUID report
  and a shell script for hand use on hardware.
* Several VMCS regions held at once: VMPTRLD ignores its operand, so the second
  one is a listed disagreement. The comparison with the reference is run with one
  and proved for a VMM that loads one of many; `ImplementsMachine` is proved of any.
* What the shadow holds after a race on it, and what a guest has in its registers
  after launches overlapped: the source gives no promise to check. The
  loads and stores of `SharedShadow` are those of an x86-64 build, aligned and
  atomic, and a store happens when it reaches memory; store buffers and what
  other compilers may do to plain accesses are not explored.
* The host's hidden state after the world switch, VMCB_CPL and the hook of #UD
  (`kern_hv_amd.cpp`, TODO): no code to model.
* `buildNptFromEpt`: a stub. The conversion of one entry, which it is meant to
  use, is modelled and proved over walks.

## 6. Plan

Written: `VmcsStore`, `ShadowVMCS`, `SharedShadow`, `Words`, `Conversions`,
`ConversionLaws`, `VmxDecode`, `DecodeLaws`, `Translate`, `VmxEmulator`,
`VmxMachine`, `SvmBackend`, `HypervisorAMD`, `WorldSwitch` and their proofs. To come, in this
order:

1. Proofs: the emulator over the slot array itself, from the `Refinement` of
   `ShadowVMCS_proofs`, in place of `VmcsStore`.
2. `VmxEmulator` with two regions, once the shadow is kept per region.
3. The rebuild of the nested page table, once it is more than a stub; the #UD
   hook, once it exists, composed with the gate and the emulator.
