---------------------------- MODULE ConversionLaws ----------------------------
(***************************************************************************)
(* What the conversions of Conversions must preserve, each law stated      *)
(* against the layouts of the two manuals and not against the code.  The   *)
(* one variable is an input drawn from the sets given as constants; a law  *)
(* is an invariant, so that it is checked on every input.                  *)
(***************************************************************************)
EXTENDS Conversions, Sequences

CONSTANTS
  AccessRights,  \* VMX access rights that pass the checks at VM entry
  Events,        \* [info, err] : what a VMM asks to inject
  Walks          \* paths through the EPT tables, the leaf last

VARIABLE input

\* A usable segment is present (SDM 26.3.1.2); bits 11:8 and 31:17 are 0.
ValidAccessRights == {ar \in SUBSET (Bits(0, 7) \cup Bits(12, 15)) : 7 \in ar}
                       \cup {{AR_UNUSABLE}}

ASSUME LawsAssumption ==
  /\ AccessRights \subseteq ValidAccessRights
  /\ \A e \in Events : e.info \subseteq Bits(0, 31) /\ e.err \subseteq Bits(0, 31)
  /\ \A p \in Walks : p \in Seq(SUBSET Bits(0, 63)) /\ Len(p) > 0

Init ==
  \/ input \in [kind : {"segment"}, ar : AccessRights]
  \/ input \in [kind : {"event"}, event : Events]
  \/ input \in [kind : {"walk"}, path : Walks]

Next == UNCHANGED input

Spec == Init /\ [][Next]_input

------------------------------------------------------------------------------
\* Segments

AttribOf(ar) == vmxArToSvmAttrib(ar)

(* A guest segment survives an entry and an exit: the attributes the       *)
(* processor is given mean what the access rights mean, flag by flag, and  *)
(* come back as the same access rights, so that no number of VM exits      *)
(* makes a segment drift ("the conversions round-trip that way",           *)
(* src/kern_vmcs_vmcb.cpp).                                                *)
ArRoundTrips(ar) ==
  /\ svmAttribToVmxAr(AttribOf(ar)) = ar
  /\ AR_UNUSABLE \in ar <=> ATTRIB_P \notin AttribOf(ar)
  /\ AR_UNUSABLE \notin ar =>
       /\ \A b \in Bits(0, 7) : b \in ar <=> b \in AttribOf(ar)
       /\ \A b \in Bits(12, 15) : b \in ar <=> b - 4 \in AttribOf(ar)

SegmentsRoundTrip == input.kind = "segment" => ArRoundTrips(input.ar)

------------------------------------------------------------------------------
\* Events

\* SVM has one type for the exceptions Intel tells apart: by hardware (3), by
\* INT1 (5), by INT3 and INTO (6).
SvmType(vmxType) == IF vmxType \in {{0, 2}, {1, 2}} THEN {0, 1} ELSE vmxType

(* Every event VM entry would accept reaches EVENTINJ as an event VMRUN    *)
(* accepts and delivers the same thing: the same vector, an external       *)
(* interrupt as one, an NMI as one, an INT n as one, each of the three     *)
(* kinds of exception as an exception, the error code exactly when there   *)
(* is one, and nothing at all when the VMM asked for nothing.              *)
EventsPreserved ==
  input.kind = "event" /\ Injectable(input.event.info) =>
    LET info == input.event.info
        inj  == eventInjection(info, input.event.err)
    IN  IF INTR_VALID \notin info
        THEN inj = {}
        ELSE /\ INTR_VALID \in inj /\ LegalInjection(inj)
             /\ Vector(inj) = Vector(info)
             /\ EventType(inj) = SvmType(EventType(info))
             /\ INTR_DELIVER_EC \in inj <=> INTR_DELIVER_EC \in info
             /\ {b - 32 : b \in inj \cap Bits(32, 63)} =
                  IF INTR_DELIVER_EC \in info THEN input.event.err ELSE {}

------------------------------------------------------------------------------
\* Page-table walks

\* An Intel processor allows what every entry of the path allows.
EptRights(path) ==
  {r \in {EPT_READ, EPT_WRITE, EPT_EXECUTE} :
     \A i \in DOMAIN path : r \in path[i]}

Npt(path) == [i \in DOMAIN path |-> eptEntryToNpt(path[i], i = Len(path))]

\* An AMD processor reads through present user entries, writes when every
\* one has RW, and executes when none has NX.
NptRights(path) ==
  IF \A i \in DOMAIN path : {PT_PRESENT, PT_US} \subseteq path[i]
  THEN {EPT_READ}
       \cup {r \in {EPT_WRITE} : \A i \in DOMAIN path : PT_RW \in path[i]}
       \cup {r \in {EPT_EXECUTE} : \A i \in DOMAIN path : PT_NX \notin path[i]}
  ELSE {}

Leaf(path) == path[Len(path)]

\* EPT entries with a right but not the right to read: NPT has none such.
ReadableWherePresent(path) ==
  \A i \in DOMAIN path :
    path[i] \cap {EPT_WRITE, EPT_EXECUTE} # {} => EPT_READ \in path[i]

(* Converting the entries of a walk one by one gives the guest, through    *)
(* any number of levels, exactly the rights its EPT gives: none is gained  *)
(* or lost.  Entries that deny reading but not fetching are left out: NPT  *)
(* has none such, and the conversion makes them readable.                  *)
WalkRightsPreserved ==
  input.kind = "walk" /\ ReadableWherePresent(input.path) =>
    NptRights(Npt(input.path)) = EptRights(input.path)

(* A page that is mapped stays the page it was: the same frame, the same   *)
(* size, uncacheable if it was; and no entry above the leaf turns into a   *)
(* large page.                                                             *)
FramesPreserved ==
  input.kind = "walk" /\ EptRights(input.path) # {} =>
    LET leaf == Leaf(input.path)
        npt  == Npt(input.path)
    IN  /\ \A i \in DOMAIN npt :
             npt[i] \cap Bits(12, 51) = input.path[i] \cap Bits(12, 51)
        /\ PT_PS \in Leaf(npt) <=> EPT_PAGE_SIZE \in leaf
        /\ PT_PCD \in Leaf(npt) <=> leaf \cap Bits(3, 5) = {}
        /\ \A i \in 1 .. Len(npt) - 1 : PT_PS \notin npt[i]
==============================================================================
