----------------------------- MODULE WordTheorems -----------------------------
(* What the shifts of Words and the conversions of segments and events do, *)
(* bit by bit.                                                             *)
EXTENDS Conversions, TLAPS

(* A shift right moves bit b + k to bit b. *)
LEMMA InShr ==
  ASSUME NEW w \in SUBSET Nat, NEW k \in Nat, NEW b \in Nat
  PROVE  b \in Shr(w, k) <=> b + k \in w
  BY DEF Shr

(* A shift left moves bit b - k to bit b and clears the low k. *)
LEMMA InShl ==
  ASSUME NEW w \in SUBSET Nat, NEW k \in Nat, NEW b \in Nat
  PROVE  b \in Shl(w, k) <=> b >= k /\ b - k \in w
  BY DEF Shl

(* Both give words again. *)
LEMMA ShiftsAreWords ==
  ASSUME NEW w \in SUBSET Nat, NEW k \in Nat
  PROVE  Shr(w, k) \subseteq Nat /\ Shl(w, k) \subseteq Nat
  BY DEF Shr, Shl

(* One undoes the other.                                                   *)
LEMMA ShiftedBack ==
  ASSUME NEW w \in SUBSET Nat, NEW k \in Nat
  PROVE  {c - k : c \in {b + k : b \in w}} = w
<1>1. \A b \in w : b \in Nat /\ (b + k) - k = b
  OBVIOUS
<1>2. ASSUME NEW x \in {c - k : c \in {b + k : b \in w}} PROVE x \in w
  BY <1>1
<1>3. ASSUME NEW x \in w PROVE x \in {c - k : c \in {b + k : b \in w}}
  <2>1. x + k \in {b + k : b \in w}
    OBVIOUS
  <2>2. QED
    BY <1>1, <2>1
<1>4. QED
  BY <1>2, <1>3

------------------------------------------------------------------------------
\* Segment access rights

(* The attributes of a usable segment: its low byte, and its four flags    *)
(* four bits lower.                                                        *)
LEMMA AttribBits ==
  ASSUME NEW ar \in SUBSET Nat, AR_UNUSABLE \notin ar, NEW b \in Nat
  PROVE  b \in vmxArToSvmAttrib(ar) <=> \/ b \in Bits(0, 7) /\ b \in ar
                                        \/ b \in Bits(8, 11) /\ b + 4 \in ar
<1>1. b \in Shr(ar, 4) <=> b + 4 \in ar
  BY InShr
<1>2. QED
  BY <1>1 DEF vmxArToSvmAttrib, Low, Bits

(* The access rights of a present segment: the same flags four bits up.    *)
LEMMA AccessBits ==
  ASSUME NEW at \in SUBSET Nat, ATTRIB_P \in at, NEW b \in Nat
  PROVE  b \in svmAttribToVmxAr(at) <=> \/ b \in Bits(0, 7) /\ b \in at
                                        \/ b \in Bits(12, 15) /\ b - 4 \in at
<1> DEFINE flags == at \cap Bits(8, 11)
<1>1. flags \in SUBSET Nat
  OBVIOUS
<1>2. b \in Shl(flags, 4) <=> b >= 4 /\ b - 4 \in flags
  <2> HIDE DEF flags
  <2>1. QED
    BY <1>1, InShl
<1>3. b \in Shl(flags, 4) <=> b \in Bits(12, 15) /\ b - 4 \in at
  BY <1>2 DEF Bits
<1>4. b \in Low(at, 8) <=> b \in Bits(0, 7) /\ b \in at
  BY DEF Low, Bits
<1>5. svmAttribToVmxAr(at) = Low(at, 8) \cup Shl(flags, 4)
  BY DEF svmAttribToVmxAr
<1> HIDE DEF flags
<1>6. QED
  BY <1>3, <1>4, <1>5

(* The conversions of words give words.                                    *)
LEMMA SegmentWords ==
  ASSUME NEW ar \in SUBSET Nat, NEW at \in SUBSET Nat
  PROVE  /\ vmxArToSvmAttrib(ar) \subseteq Bits(0, 11)
         /\ AR_UNUSABLE \notin svmAttribToVmxAr(at) =>
              svmAttribToVmxAr(at) \subseteq Bits(0, 7) \cup Bits(12, 15)
         /\ svmAttribToVmxAr(at) \subseteq Bits(0, 63)
<1>1. vmxArToSvmAttrib(ar) \subseteq Bits(0, 11)
  <2>1. ASSUME NEW b \in Low(ar, 8) PROVE b \in Bits(0, 11)
    <3>1. b \in Nat /\ b < 8
      BY DEF Low
    <3>2. QED
      BY <3>1 DEF Bits
  <2>2. Bits(8, 11) \subseteq Bits(0, 11)
    BY DEF Bits
  <2>3. QED
    BY <2>1, <2>2 DEF vmxArToSvmAttrib
<1>2. CASE ATTRIB_P \notin at
  BY <1>1, <1>2 DEF svmAttribToVmxAr, AR_UNUSABLE, Bits
<1>3. CASE ATTRIB_P \in at
  <2>1. svmAttribToVmxAr(at) \subseteq Nat
    BY <1>3, ShiftsAreWords DEF svmAttribToVmxAr, Low
  <2>2. svmAttribToVmxAr(at) \subseteq Bits(0, 7) \cup Bits(12, 15)
    BY <1>3, <2>1, AccessBits
  <2>3. QED
    BY <1>1, <2>2 DEF Bits
<1>4. QED
  BY <1>2, <1>3

(* A usable and present segment comes back as it was.                      *)
LEMMA AccessReturns ==
  ASSUME NEW ar \in SUBSET (Bits(0, 7) \cup Bits(12, 15)), ATTRIB_P \in ar
  PROVE  svmAttribToVmxAr(vmxArToSvmAttrib(ar)) = ar
<1> DEFINE at   == vmxArToSvmAttrib(ar)
           back == svmAttribToVmxAr(at)
<1>1. ar \in SUBSET Nat /\ AR_UNUSABLE \notin ar
  BY DEF Bits, AR_UNUSABLE
<1>2. \A b \in Nat : b \in at <=> \/ b \in Bits(0, 7) /\ b \in ar
                                  \/ b \in Bits(8, 11) /\ b + 4 \in ar
  BY <1>1, AttribBits
<1>3. at \in SUBSET Nat
  <2>1. at \subseteq Bits(0, 11)
    BY <1>1, SegmentWords
  <2> HIDE DEF at
  <2>2. QED
    BY <2>1 DEF Bits
<1>4. ATTRIB_P \in at
  BY <1>2 DEF ATTRIB_P, Bits
<1> HIDE DEF at
<1>5. \A b \in Nat : b \in back <=> \/ b \in Bits(0, 7) /\ b \in at
                                    \/ b \in Bits(12, 15) /\ b - 4 \in at
  BY <1>3, <1>4, AccessBits
<1>6. back \subseteq Nat
  <2>1. back \subseteq Bits(0, 63)
    BY <1>1, <1>3, SegmentWords
  <2> HIDE DEF back
  <2>2. QED
    BY <2>1 DEF Bits
<1> HIDE DEF back
<1>7. ASSUME NEW b \in Bits(12, 15) PROVE b - 4 \in at <=> b \in ar
  <2>1. b - 4 \in Nat /\ b - 4 \in Bits(8, 11) /\ b - 4 \notin Bits(0, 7)
        /\ (b - 4) + 4 = b
    BY DEF Bits
  <2>2. QED
    BY <1>2, <2>1
<1>8. \A b \in Nat : b \in back <=> b \in ar
  BY <1>2, <1>5, <1>7 DEF Bits
<1>9. QED
  BY <1>1, <1>6, <1>8 DEF back, at

------------------------------------------------------------------------------
\* Events

(* The three bits of the type, wherever they are read.                     *)
LEMMA TypeBits ==
  ASSUME NEW event \in SUBSET Nat
  PROVE  Shr(event, 8) \cap Bits(0, 2) = EventType(event)
<1> DEFINE type == EventType(event)
<1>1. \A b \in Nat : b \in Shr(event, 8) <=> b + 8 \in event
  BY InShr
<1>2. Shr(event, 8) \subseteq Nat
  BY ShiftsAreWords
<1>3. \A b \in 8 .. 10 : b - 8 \in 0 .. 2 /\ (b - 8) + 8 = b
  OBVIOUS
<1>4. \A b \in 0 .. 2 : b \in Nat /\ b + 8 \in 8 .. 10 /\ (b + 8) - 8 = b
  OBVIOUS
<1>5. \A b \in 0 .. 2 : b \in type <=> b + 8 \in event
  BY <1>3, <1>4 DEF EventType, Bits
<1>6. type \subseteq 0 .. 2
  BY <1>3 DEF EventType, Bits
<1> HIDE DEF type
<1>7. QED
  BY <1>1, <1>2, <1>4, <1>5, <1>6 DEF Bits, type

(* EVENTINJ of a valid entry, field by field.                              *)
LEMMA EventFields ==
  ASSUME NEW info \in SUBSET Bits(0, 31), NEW err \in SUBSET Nat,
         INTR_VALID \in info
  PROVE  LET inj == eventInjection(info, err)
         IN  /\ INTR_VALID \in inj
             /\ Vector(inj) = Vector(info)
             /\ EventType(inj) = svmEventType(EventType(info))
             /\ INTR_DELIVER_EC \in inj <=> INTR_DELIVER_EC \in info
             /\ {b - 32 : b \in inj \cap Bits(32, 63)} =
                  IF INTR_DELIVER_EC \in info THEN Low(err, 32) ELSE {}
<1> DEFINE inj    == eventInjection(info, err)
           code   == Low(err, 32)
           type   == svmEventType(EventType(info))
           typeAt == Shl(type, 8)
           errAt  == Shl(code, 32)
<1>1. code \in SUBSET (0 .. 31) /\ code \in SUBSET Nat
  <2>1. \A b \in err : b < 32 => b \in 0 .. 31
    OBVIOUS
  <2>2. QED
    BY <2>1 DEF Low
<1>2. type \in SUBSET Bits(0, 2) /\ type \in SUBSET Nat
  BY DEF svmEventType, EVENTINJ_TYPE_INTR, EVENTINJ_TYPE_NMI,
         EVENTINJ_TYPE_EXCEPT, EVENTINJ_TYPE_SOFT, Bits
<1>3. inj = Low(info, 8) \cup typeAt \cup {INTR_VALID}
              \cup IF INTR_DELIVER_EC \in info THEN {INTR_DELIVER_EC} \cup errAt ELSE {}
  <2>1. vmxEntryType(info) = EventType(info)
    BY TypeBits DEF vmxEntryType, Bits
  <2>2. QED
    BY <2>1 DEF eventInjection, eventinj_make, vmxEntryVector
<1> HIDE DEF inj, type, code
<1>4. typeAt = {b + 8 : b \in type} /\ errAt = {b + 32 : b \in code}
  BY DEF Shl
<1>5. typeAt \subseteq Bits(8, 10) /\ errAt \subseteq Bits(32, 63)
  BY <1>1, <1>2, <1>4 DEF Bits
<1>6. Low(info, 8) = info \cap Bits(0, 7)
  <2>1. \A b \in info : b \in Nat /\ (b < 8 <=> b \in Bits(0, 7))
    BY DEF Bits
  <2>2. QED
    BY <2>1 DEF Low
<1>7. inj \cap Bits(8, 10) = typeAt
  BY <1>3, <1>5, <1>6 DEF INTR_VALID, INTR_DELIVER_EC, Bits
<1>8. inj \cap Bits(32, 63) = IF INTR_DELIVER_EC \in info THEN errAt ELSE {}
  BY <1>3, <1>5, <1>6 DEF INTR_VALID, INTR_DELIVER_EC, Bits
<1>9. {b - 8 : b \in typeAt} = type
  <2>1. {c - 8 : c \in {b + 8 : b \in type}} = type
    BY <1>2, ShiftedBack
  <2>2. QED
    BY <1>4, <2>1
<1>10. {b - 32 : b \in errAt} = code
  <2>1. {c - 32 : c \in {b + 32 : b \in code}} = code
    BY <1>1, ShiftedBack
  <2>2. QED
    BY <1>4, <2>1
<1>11. inj \cap Bits(0, 7) = info \cap Bits(0, 7)
  BY <1>3, <1>5, <1>6 DEF INTR_VALID, INTR_DELIVER_EC, Bits
<1>12. INTR_DELIVER_EC \in inj <=> INTR_DELIVER_EC \in info
  BY <1>3, <1>5, <1>6 DEF INTR_VALID, INTR_DELIVER_EC, Bits
<1>13. INTR_VALID \in inj
  BY <1>3
<1>14. Vector(inj) = Vector(info)
  BY <1>11 DEF Vector
<1>15. EventType(inj) = type
  BY <1>7, <1>9 DEF EventType
<1>16. QED
  BY <1>8, <1>10, <1>12, <1>13, <1>14, <1>15 DEF inj, type, code

(* The type an injectable event is given: that of each of the three kinds  *)
(* of exception is SVM's one, with a vector that one can have; the others  *)
(* keep theirs.                                                            *)
LEMMA EventTypes ==
  ASSUME NEW info \in SUBSET Bits(0, 31), INTR_VALID \in info, Injectable(info)
  PROVE  /\ svmEventType(EventType(info)) =
              IF EventType(info) \in {{0, 1}, {0, 2}, {1, 2}}
              THEN {0, 1} ELSE EventType(info)
         /\ svmEventType(EventType(info)) \in {{}, {1}, {0, 1}, {2}}
         /\ svmEventType(EventType(info)) = {0, 1} =>
              Vector(info) \subseteq Bits(0, 4) /\ Vector(info) # {1}
<1> DEFINE type == EventType(info)
           kinds == {{0, 1}, {0, 2}, {1, 2}}
<1>1. /\ type \in {{}, {1}, {2}} \cup kinds
      /\ type \in kinds => Vector(info) \subseteq Bits(0, 4) /\ Vector(info) # {1}
  BY DEF Injectable, Bits
<1> HIDE DEF type
<1>2. {} # {1} /\ {} # {2} /\ {1} # {2}
  OBVIOUS
<1>3. \A x \in kinds : x \notin {{}, {1}, {2}}
  OBVIOUS
<1>4. /\ svmEventType({}) = {} /\ svmEventType({1}) = {1} /\ svmEventType({2}) = {2}
      /\ \A x \in kinds : svmEventType(x) = {0, 1}
  BY <1>2, <1>3
  DEF svmEventType, VMX_INTR_TYPE_EXT, VMX_INTR_TYPE_NMI,
      VMX_INTR_TYPE_SW_INT, EVENTINJ_TYPE_INTR, EVENTINJ_TYPE_NMI,
      EVENTINJ_TYPE_SOFT, EVENTINJ_TYPE_EXCEPT
<1>5. svmEventType(type) = IF type \in kinds THEN {0, 1} ELSE type
  BY <1>1, <1>3, <1>4
<1>6. {0, 1} \in kinds
  OBVIOUS
<1>7. QED
  BY <1>1, <1>3, <1>5, <1>6 DEF type

(* What the conversion makes of an event VM entry takes, VMRUN takes.      *)
LEMMA EventsLegal ==
  ASSUME NEW info \in SUBSET Bits(0, 31), NEW err \in SUBSET Nat, Injectable(info)
  PROVE  LegalInjection(eventInjection(info, err))
<1>1. CASE INTR_VALID \notin info
  BY <1>1 DEF eventInjection, LegalInjection
<1>2. CASE INTR_VALID \in info
  <2> DEFINE inj  == eventInjection(info, err)
             type == svmEventType(EventType(info))
  <2>1. Vector(inj) = Vector(info) /\ EventType(inj) = type
    BY <1>2, EventFields
  <2>2. type \in {{}, {1}, {0, 1}, {2}}
    BY <1>2, EventTypes
  <2>3. type = {0, 1} => Vector(info) \subseteq Bits(0, 4) /\ Vector(info) # {1}
    BY <1>2, EventTypes
  <2> HIDE DEF inj, type
  <2>4. LegalInjection(inj)
    BY <2>1, <2>2, <2>3
    DEF LegalInjection, EVENTINJ_TYPE_INTR, EVENTINJ_TYPE_NMI,
        EVENTINJ_TYPE_EXCEPT, EVENTINJ_TYPE_SOFT
  <2>5. QED
    BY <2>4 DEF inj
<1>3. QED
  BY <1>1, <1>2
==============================================================================
