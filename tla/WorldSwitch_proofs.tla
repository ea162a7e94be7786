-------------------------- MODULE WorldSwitch_proofs --------------------------
(***************************************************************************)
(* WorldSwitch for any number of threads and processors, and any guest.    *)
(*                                                                         *)
(* IInv gives, for every step of the routine, the whole stack of a thread  *)
(* that stands there, which of its registers are the caller's and where    *)
(* the two arguments are (Stands), and ties GIF and the RAX a processor    *)
(* keeps to the thread on it (OnSome, Occupied).  CallPreserved,           *)
(* OperandsAddressed and HeldInside are parts of it.  What is said of the  *)
(* guest's registers holds until launches overlap and rests on Tracked: at *)
(* most one thread is under way (Alone), and it carries, from place to     *)
(* place, what the guest left (Carried); when none is, the fields hold it  *)
(* (Resting).                                                              *)
(***************************************************************************)
EXTENDS WorldSwitch, SequenceTheorems, TLAPS

HostValue == {Caller(r) : r \in CalleeSaved} \cup {ReturnTo, VmcbPA, G}

Return == <<ReturnTo>>
Saved  == <<Caller("rbp"), Caller("rbx"), Caller("r12"),
            Caller("r13"), Caller("r14"), Caller("r15")>>
Frame  == <<ReturnTo, Caller("rbp"), Caller("rbx"), Caller("r12"),
            Caller("r13"), Caller("r14"), Caller("r15")>>
Arguments == <<VmcbPA, G>>
Full   == <<ReturnTo, Caller("rbp"), Caller("rbx"), Caller("r12"),
            Caller("r13"), Caller("r14"), Caller("r15"), VmcbPA, G>>

LEMMA StackTypes ==
  /\ Return \in Seq(HostValue) /\ Len(Return) = 1
  /\ Saved \in Seq(HostValue) /\ Len(Saved) = 6
  /\ Frame \in Seq(HostValue) /\ Len(Frame) = 7
  /\ Full \in Seq(HostValue) /\ Len(Full) = 9
  /\ Arguments \in Seq(HostValue) /\ Len(Arguments) = 2
  /\ <<>> \in Seq(HostValue) /\ Len(<<>>) = 0
  BY DEF Return, Saved, Frame, Arguments, Full, HostValue, CalleeSaved

\* What the two pushes of the routine make of the stack.
LEMMA Appended ==
  ASSUME NEW a \in Seq(HostValue), NEW b \in Seq(HostValue), NEW s \in Seq(HostValue),
         Len(s) = Len(a) + Len(b),
         \A i \in 1 .. Len(s) : s[i] = IF i <= Len(a) THEN a[i] ELSE b[i - Len(a)]
  PROVE  a \o b = s
<1>1. a \o b \in Seq(HostValue) /\ Len(a \o b) = Len(s)
  BY ConcatProperties
<1>2. \A i \in 1 .. Len(a \o b) : (a \o b)[i] = s[i]
  BY <1>1, ConcatProperties
<1>3. QED
  BY <1>1, <1>2, SeqEqual, Zenon

LEMMA Pushes ==
  /\ <<>> \o Return = Return
  /\ Return \o Saved = Frame
  /\ Frame \o Arguments = Full
<1>1. <<>> \o Return = Return
  BY StackTypes, ConcatEmptySeq
<1>2. Return \o Saved = Frame
  <2>1. \A i \in 1 .. Len(Frame) :
          Frame[i] = IF i <= Len(Return) THEN Return[i] ELSE Saved[i - Len(Return)]
    BY StackTypes DEF Return, Saved, Frame
  <2>2. Len(Frame) = Len(Return) + Len(Saved)
    BY StackTypes
  <2>3. QED
    BY <2>1, <2>2, StackTypes, Appended, Zenon
<1>3. Frame \o Arguments = Full
  <2>1. \A i \in 1 .. Len(Full) :
          Full[i] = IF i <= Len(Frame) THEN Frame[i] ELSE Arguments[i - Len(Frame)]
    BY StackTypes DEF Frame, Full, Arguments
  <2>2. Len(Full) = Len(Frame) + Len(Arguments)
    BY StackTypes
  <2>3. QED
    BY <2>1, <2>2, StackTypes, Appended, Zenon
<1>4. QED
  BY <1>1, <1>2, <1>3

LEMMA Pops ==
  /\ SubSeq(Full, 1, 7) = Frame
  /\ SubSeq(Frame, 1, 1) = Return
  /\ SubSeq(Return, 1, 0) = <<>>
<1>1. SubSeq(Full, 1, 7) = Frame
  <2>1. \A i \in 1 .. 7 : Full[i] \in HostValue /\ Full[i] = Frame[i]
    BY DEF Full, Frame, HostValue, CalleeSaved
  <2>2. QED
    BY <2>1, StackTypes, SubSeqProperties, SeqEqual
<1>2. SubSeq(Frame, 1, 1) = Return
  <2>1. \A i \in 1 .. 1 : Frame[i] \in HostValue /\ Frame[i] = Return[i]
    BY DEF Frame, Return, HostValue, CalleeSaved
  <2>2. QED
    BY <2>1, StackTypes, SubSeqProperties, SeqEqual
<1>3. SubSeq(Return, 1, 0) = <<>>
  BY SubSeqEmpty
<1>4. QED
  BY <1>1, <1>2, <1>3
------------------------------------------------------------------------------
\* Where a thread stands

StackAt(s) ==
  CASE s \in {"caller", "returned"}  -> <<>>
    [] s \in {"save", "ret"}         -> Return
    [] s \in {"stash", "restore"}    -> Frame
    [] OTHER                         -> Full

CalleeAt(s, regs) ==
  s \in {"caller", "save", "ret", "returned"} =>
    \A r \in CalleeSaved : regs[r] = Caller(r)

ArgumentsAt(s, regs) ==
  /\ s \in {"save", "stash"} => regs["rdi"] = VmcbPA /\ regs["rsi"] = G
  /\ s = "load" => regs["rsi"] = G

RaxAt(s, regs) ==
  /\ s \in {"clgi", "vmload", "vmrun", "vmsave"} => regs["rax"] = VmcbPA
  /\ s = "store" => regs["rax"] = G

Stands(t) ==
  /\ step[t] # "astray"
  /\ stack[t] = StackAt(step[t])
  /\ CalleeAt(step[t], gpr[t])
  /\ ArgumentsAt(step[t], gpr[t])
  /\ RaxAt(step[t], gpr[t])

\* GIF is clear on the processors of the threads that cleared it, and there
\* only; the save area of a guest's processor holds the host's RAX.
Occupied(c) ==
  /\ gif[c] <=> running[c] = Idle \/ step[running[c]] \notin Inside \ {"guest"}
  /\ running[c] # Idle /\ step[running[c]] = "guest" => saveRax[c] = VmcbPA

OnSome(t) == step[t] \in Inside => \E c \in Cpu : running[c] = t

IInv ==
  /\ TypeOK
  /\ \A t \in Thread : Stands(t) /\ OnSome(t)
  /\ \A c \in Cpu : Occupied(c)

LEMMA Registers ==
  /\ CalleeSaved \subseteq Gpr
  /\ {"rax", "rdi", "rsi"} \subseteq Gpr
  /\ {"rax", "rdi", "rsi"} \cap CalleeSaved = {}
  /\ "rax" \notin Swapped
  BY DEF CalleeSaved, Gpr, Swapped, GuestGprs

LEMMA InitIInv == Init => IInv
<1> SUFFICES ASSUME Init PROVE IInv
  OBVIOUS
<1> USE DEF Init
<1>1. TypeOK
  <2>1. step \in [Thread -> Steps]
    BY DEF Steps
  <2>2. \A t \in Thread : DOMAIN gpr[t] = Gpr
    OBVIOUS
  <2>3. \A t \in Thread : Len(stack[t]) \in 0 .. 9
    <3>1. \A t \in Thread : stack[t] = <<>>
      OBVIOUS
    <3>2. Len(<<>>) \in 0 .. 9
      OBVIOUS
    <3>3. QED
      BY <3>1, <3>2, Zenon
  <2>4. gif \in [Cpu -> BOOLEAN] /\ DOMAIN vmcb = {"rax", "hidden"}
    OBVIOUS
  <2>5. QED
    BY <2>1, <2>2, <2>3, <2>4 DEF TypeOK
<1>2. \A t \in Thread : Stands(t) /\ OnSome(t)
  BY Registers DEF Stands, OnSome, StackAt, CalleeAt, ArgumentsAt, RaxAt, Inside
<1>3. \A c \in Cpu : Occupied(c)
  BY DEF Occupied
<1>4. QED
  BY <1>1, <1>2, <1>3 DEF IInv

(* Which fields and registers there are.                                   *)
LEMMA Shape ==
  ASSUME IInv
  PROVE  /\ DOMAIN gpr = Thread /\ \A u \in Thread : DOMAIN gpr[u] = Gpr
         /\ DOMAIN stack = Thread
         /\ gif \in [Cpu -> BOOLEAN] /\ DOMAIN hidden = Cpu /\ DOMAIN saveRax = Cpu
         /\ DOMAIN vmcb = {"rax", "hidden"}
         /\ DOMAIN fGprs = Swapped /\ DOMAIN owned = GuestState
         /\ overlapped \in BOOLEAN
  BY DEF IInv, TypeOK

(* The stack of the routine never holds more than nine slots.              *)
LEMMA StackDepth == \A s : Len(StackAt(s)) \in 0 .. 9
<1>1. \A s : StackAt(s) \in {<<>>, Return, Frame, Full}
  BY DEF StackAt
<1>2. \A q \in {<<>>, Return, Frame, Full} : Len(q) \in 0 .. 9
  BY StackTypes
<1>3. QED
  BY <1>1, <1>2

(* What a step of thread t on processor c has to establish: the rest of    *)
(* the system does not see it.                                             *)
LEMMA StepIInv ==
  ASSUME IInv, NEW t \in Thread, NEW c \in Cpu, NEW s \in Steps,
         running[c] = t, running' = running,
         step' = [step EXCEPT ![t] = s],
         DOMAIN gpr' = Thread, \A u \in Thread : DOMAIN gpr'[u] = Gpr,
         DOMAIN stack' = Thread,
         \A u \in Thread \ {t} : gpr'[u] = gpr[u] /\ stack'[u] = stack[u],
         gif' \in [Cpu -> BOOLEAN], DOMAIN hidden' = Cpu, DOMAIN saveRax' = Cpu,
         \A d \in Cpu \ {c} : gif'[d] = gif[d] /\ saveRax'[d] = saveRax[d],
         DOMAIN vmcb' = {"rax", "hidden"},
         DOMAIN fGprs' = Swapped, DOMAIN owned' = GuestState,
         overlapped' \in BOOLEAN,
         s # "astray", stack'[t] = StackAt(s),
         CalleeAt(s, gpr'[t]), ArgumentsAt(s, gpr'[t]), RaxAt(s, gpr'[t]),
         gif'[c] <=> s \notin Inside \ {"guest"},
         s = "guest" => saveRax'[c] = VmcbPA
  PROVE  IInv'
<1>1. step'[t] = s /\ \A u \in Thread \ {t} : step'[u] = step[u]
  BY DEF IInv, TypeOK
<1>2. \A u \in Thread : Stands(u)'
  BY <1>1 DEF IInv, Stands
<1>3. \A u \in Thread : OnSome(u)'
  BY <1>1 DEF IInv, OnSome
<1>4. \A d \in Cpu \ {c} : running[d] # t /\ running[d] \in Thread \cup {Idle}
  BY SwitchAssumption DEF IInv, TypeOK
<1>5. \A d \in Cpu : Occupied(d)'
  BY <1>1, <1>4, SwitchAssumption DEF IInv, Occupied
<1>6. TypeOK'
  <2>1. step' \in [Thread -> Steps]
    BY DEF IInv, TypeOK
  <2>2. \A u \in Thread : Len(stack'[u]) \in 0 .. 9
    BY <1>2, StackDepth DEF Stands
  <2>3. QED
    BY <2>1, <2>2 DEF IInv, TypeOK
<1>7. QED
  BY <1>2, <1>3, <1>5, <1>6 DEF IInv

\* The facts a step of t on c starts from.
LEMMA Here ==
  ASSUME IInv, NEW t \in Thread, NEW c \in Cpu, running[c] = t
  PROVE  /\ Stands(t)
         /\ gif[c] <=> step[t] \notin Inside \ {"guest"}
         /\ step[t] = "guest" => saveRax[c] = VmcbPA
  BY SwitchAssumption DEF IInv, Occupied

(* The pushes and pops: the frame is built and taken down again.           *)
LEMMA StackSteps ==
  ASSUME IInv, NEW t \in Thread, NEW c \in Cpu,
         \/ saveCallee(t, c) \/ stash(t, c)
         \/ unstash(t, c) \/ restore(t, c) \/ ret(t, c)
  PROVE  IInv'
<1> USE DEF At, Goto, Set, Drop, shared, cpus, history, local
<1>0. {"stash", "load", "restore", "ret", "returned"} \subseteq Steps \ Inside
  BY DEF Steps, Inside
<1>1. CASE saveCallee(t, c)
  <2>1. running[c] = t /\ step[t] = "save" /\ Stands(t) /\ gif[c]
    BY <1>1, Here DEF saveCallee, Inside
  <2>2. stack[t] = Return /\ CalleeAt("save", gpr[t])
    BY <2>1 DEF Stands, StackAt
  <2>3. stack'[t] = Frame /\ gpr' = gpr
    BY <1>1, <2>2, Pushes DEF saveCallee, CalleeAt, CalleeSaved, Saved, IInv, TypeOK
  <2>4. StackAt("stash") = Frame /\ CalleeAt("stash", gpr'[t]) /\ RaxAt("stash", gpr'[t])
    BY DEF StackAt, CalleeAt, RaxAt
  <2>5. ArgumentsAt("stash", gpr'[t])
    BY <2>1, <2>3 DEF Stands, ArgumentsAt
  <2>6. QED
    BY <1>0, <1>1, <2>1, <2>3, <2>4, <2>5, StepIInv, Shape, ZenonT(60) DEF saveCallee
<1>2. CASE stash(t, c)
  <2>1. running[c] = t /\ step[t] = "stash" /\ Stands(t) /\ gif[c]
    BY <1>2, Here DEF stash, Inside
  <2>2. stack[t] = Frame /\ gpr[t]["rdi"] = VmcbPA /\ gpr[t]["rsi"] = G
    BY <2>1 DEF Stands, StackAt, ArgumentsAt
  <2>3. stack'[t] = Full /\ gpr' = gpr
    BY <1>2, <2>2, Pushes DEF stash, Arguments, IInv, TypeOK
  <2>4. /\ StackAt("load") = Full /\ CalleeAt("load", gpr'[t])
        /\ RaxAt("load", gpr'[t]) /\ ArgumentsAt("load", gpr'[t])
    BY <2>2, <2>3 DEF StackAt, CalleeAt, RaxAt, ArgumentsAt
  <2>5. QED
    BY <1>0, <1>2, <2>1, <2>3, <2>4, StepIInv, Shape, ZenonT(60) DEF stash
<1>3. CASE unstash(t, c)
  <2>1. running[c] = t /\ step[t] = "unstash" /\ Stands(t) /\ gif[c]
    BY <1>3, Here DEF unstash, Inside
  <2>2. stack[t] = Full
    BY <2>1 DEF Stands, StackAt
  <2>3. stack'[t] = Frame /\ gpr' = gpr
    BY <1>3, <2>2, Pops, StackTypes DEF unstash, IInv, TypeOK
  <2>4. /\ StackAt("restore") = Frame /\ CalleeAt("restore", gpr'[t])
        /\ RaxAt("restore", gpr'[t]) /\ ArgumentsAt("restore", gpr'[t])
    BY DEF StackAt, CalleeAt, RaxAt, ArgumentsAt
  <2>5. QED
    BY <1>0, <1>3, <2>1, <2>3, <2>4, StepIInv, Shape, ZenonT(60) DEF unstash
<1>4. CASE restore(t, c)
  <2>1. running[c] = t /\ step[t] = "restore" /\ Stands(t) /\ gif[c]
    BY <1>4, Here DEF restore, Inside
  <2>2. stack[t] = Frame
    BY <2>1 DEF Stands, StackAt
  <2>3. stack'[t] = Return
    BY <1>4, <2>2, Pops, StackTypes DEF restore, IInv, TypeOK
  <2>4. /\ Top(t, 0) = Caller("r15") /\ Top(t, 1) = Caller("r14")
        /\ Top(t, 2) = Caller("r13") /\ Top(t, 3) = Caller("r12")
        /\ Top(t, 4) = Caller("rbx") /\ Top(t, 5) = Caller("rbp")
    BY <2>2, StackTypes DEF Top, Frame
  <2>5. /\ DOMAIN gpr'[t] = Gpr
        /\ \A r \in CalleeSaved : gpr'[t][r] = Caller(r)
    BY <1>4, <2>4, Registers DEF restore, CalleeSaved, IInv, TypeOK
  <2>6. /\ StackAt("ret") = Return /\ CalleeAt("ret", gpr'[t])
        /\ RaxAt("ret", gpr'[t]) /\ ArgumentsAt("ret", gpr'[t])
    BY <2>5 DEF StackAt, CalleeAt, RaxAt, ArgumentsAt
  <2>7. /\ DOMAIN gpr' = Thread /\ \A u \in Thread \ {t} : gpr'[u] = gpr[u]
        /\ DOMAIN stack' = Thread /\ \A u \in Thread \ {t} : stack'[u] = stack[u]
    BY <1>4 DEF restore, IInv, TypeOK
  <2>8. /\ step' = [step EXCEPT ![t] = "ret"]
        /\ UNCHANGED <<running, cpus, shared, history>>
    BY <1>4 DEF restore
  <2>9. \A u \in Thread : DOMAIN gpr'[u] = Gpr
    BY <2>5, <2>7 DEF IInv, TypeOK
  <2>10. QED
    BY <1>0, <2>1, <2>3, <2>6, <2>7, <2>8, <2>9, StepIInv, Shape, ZenonT(60)
<1>5. CASE ret(t, c)
  <2>1. running[c] = t /\ step[t] = "ret" /\ Stands(t) /\ gif[c]
    BY <1>5, Here DEF ret, Inside
  <2>2. stack[t] = Return /\ CalleeAt("ret", gpr[t])
    BY <2>1 DEF Stands, StackAt
  <2>3. stack'[t] = <<>> /\ gpr' = gpr
    BY <1>5, <2>2, Pops, StackTypes DEF ret, IInv, TypeOK
  <2>4. Top(t, 0) = ReturnTo
    BY <2>2, StackTypes DEF Top, Return
  <2>5. step' = [step EXCEPT ![t] = "returned"]
    BY <1>5, <2>4 DEF ret
  <2>6. /\ StackAt("returned") = <<>> /\ CalleeAt("returned", gpr'[t])
        /\ RaxAt("returned", gpr'[t]) /\ ArgumentsAt("returned", gpr'[t])
    BY <2>2, <2>3 DEF StackAt, CalleeAt, RaxAt, ArgumentsAt
  <2>7. QED
    BY <1>0, <1>5, <2>1, <2>3, <2>5, <2>6, StepIInv, Shape, ZenonT(60) DEF ret
<1>6. QED
  BY <1>1, <1>2, <1>3, <1>4, <1>5

(* The other steps leave the stack alone and change RAX, or the registers  *)
(* that at that point are the guest's.                                     *)
LEMMA RegisterSteps ==
  ASSUME IInv, NEW t \in Thread, NEW c \in Cpu,
         \/ loadGuest(t, c) \/ operand(t, c) \/ recover(t, c) \/ storeGuest(t, c)
  PROVE  IInv'
<1> USE DEF At, Goto, Set, shared, cpus, history, local
<1>0. {"operand", "clgi", "store", "unstash"} \subseteq Steps \ Inside
  BY DEF Steps, Inside
<1>1. step[t] \in {"load", "operand", "recover", "store"} /\ running[c] = t /\ stack' = stack
  BY DEF loadGuest, operand, recover, storeGuest
<1>2. /\ Stands(t) /\ gif[c] /\ stack[t] = Full
      /\ Top(t, 0) = G /\ Top(t, 1) = VmcbPA
  <2>1. Stands(t) /\ gif[c]
    BY <1>1, Here DEF Inside
  <2>2. stack[t] = Full
    BY <1>1, <2>1 DEF Stands, StackAt
  <2>3. QED
    BY <2>1, <2>2, StackTypes DEF Top, Full
<1>3. /\ DOMAIN gpr' = Thread /\ \A u \in Thread \ {t} : gpr'[u] = gpr[u]
      /\ \A u \in Thread : DOMAIN gpr'[u] = Gpr
  BY DEF loadGuest, operand, recover, storeGuest, IInv, TypeOK
<1>4. \A s \in {"operand", "clgi", "store", "unstash"} :
        /\ StackAt(s) = Full /\ CalleeAt(s, gpr'[t]) /\ ArgumentsAt(s, gpr'[t])
        /\ s \in {"operand", "unstash"} => RaxAt(s, gpr'[t])
  BY DEF StackAt, CalleeAt, ArgumentsAt, RaxAt
<1>5. CASE loadGuest(t, c)
  <2>1. step' = [step EXCEPT ![t] = "operand"] /\ UNCHANGED <<running, cpus, shared, history>>
    BY <1>5 DEF loadGuest
  <2>2. QED
    BY <1>0, <1>1, <1>2, <1>3, <1>4, <2>1, StepIInv, Shape, ZenonT(60)
<1>6. CASE operand(t, c)
  <2>1. RaxAt("clgi", gpr'[t])
    BY <1>2, <1>6, Registers DEF operand, RaxAt, IInv, TypeOK
  <2>2. step' = [step EXCEPT ![t] = "clgi"] /\ UNCHANGED <<running, cpus, shared, history>>
    BY <1>6 DEF operand
  <2>3. QED
    BY <1>0, <1>1, <1>2, <1>3, <1>4, <2>1, <2>2, StepIInv, Shape, ZenonT(60)
<1>7. CASE recover(t, c)
  <2>1. RaxAt("store", gpr'[t])
    BY <1>2, <1>7, Registers DEF recover, RaxAt, IInv, TypeOK
  <2>2. step' = [step EXCEPT ![t] = "store"] /\ UNCHANGED <<running, cpus, shared, history>>
    BY <1>7 DEF recover
  <2>3. QED
    BY <1>0, <1>1, <1>2, <1>3, <1>4, <2>1, <2>2, StepIInv, Shape, ZenonT(60)
<1>8. CASE storeGuest(t, c)
  BY <1>0, <1>1, <1>2, <1>3, <1>4, <1>8, StepIInv, Shape, ZenonT(60) DEF storeGuest
<1>9. QED
  BY <1>5, <1>6, <1>7, <1>8

(* The instructions that set and clear GIF. *)
LEMMA SvmSteps ==
  ASSUME IInv, NEW t \in Thread, NEW c \in Cpu,
         \/ clgi(t, c) \/ vmload(t, c) \/ vmrun(t, c)
         \/ \E R \in GuestSets : vmexit(t, c, R)
         \/ vmsave(t, c) \/ stgi(t, c)
  PROVE  IInv'
<1> USE DEF At, Goto, Set, shared, cpus, history, local
<1>0. Inside \cup {"recover"} \subseteq Steps \ {"astray"} /\ "recover" \notin Inside
  BY DEF Steps, Inside
<1>1. /\ step[t] \in {"clgi", "vmload", "vmrun", "guest", "vmsave", "stgi"}
      /\ running[c] = t /\ stack' = stack /\ running' = running
  BY DEF clgi, vmload, vmrun, vmexit, vmsave, stgi
<1>2. Stands(t) /\ stack[t] = Full
  BY <1>1, Here DEF Stands, StackAt
<1>3. \A s \in {"vmload", "vmrun", "guest", "vmsave", "stgi", "recover"} :
        /\ StackAt(s) = Full /\ CalleeAt(s, gpr'[t]) /\ ArgumentsAt(s, gpr'[t])
        /\ s \in {"guest", "stgi", "recover"} => RaxAt(s, gpr'[t])
        /\ gpr'[t]["rax"] = VmcbPA => RaxAt(s, gpr'[t])
  BY DEF StackAt, CalleeAt, ArgumentsAt, RaxAt
<1>4. step[t] \in {"clgi", "vmload", "vmrun"} => gpr[t]["rax"] = VmcbPA
  BY <1>2 DEF Stands, RaxAt
<1>5. CASE clgi(t, c)
  <2>1. gif' \in [Cpu -> BOOLEAN] /\ ~ gif'[c] /\ \A d \in Cpu \ {c} : gif'[d] = gif[d]
    BY <1>5 DEF clgi, IInv, TypeOK
  <2>2. "vmload" \in Inside \ {"guest"}
    BY DEF Inside
  <2>3. step' = [step EXCEPT ![t] = "vmload"]
        /\ UNCHANGED <<local, running, hidden, saveRax, shared, history>>
    BY <1>5 DEF clgi
  <2>4. gpr'[t]["rax"] = VmcbPA
    BY <1>4, <1>5, <2>3 DEF clgi
  <2>5. QED
    BY <1>0, <1>1, <1>2, <1>3, <2>1, <2>2, <2>3, <2>4, StepIInv, Shape, ZenonT(60)
<1>6. CASE vmload(t, c)
  <2>1. ~ gif[c] /\ "vmrun" \in Inside \ {"guest"}
    BY <1>1, <1>6, Here DEF vmload, Inside
  <2>2. DOMAIN hidden' = Cpu
    BY <1>6 DEF vmload, IInv, TypeOK
  <2>3. step' = [step EXCEPT ![t] = "vmrun"]
        /\ UNCHANGED <<local, running, gif, saveRax, shared, history>>
    BY <1>6 DEF vmload
  <2>4. gpr'[t]["rax"] = VmcbPA
    BY <1>4, <1>6, <2>3 DEF vmload
  <2>5. QED
    BY <1>0, <1>1, <1>2, <1>3, <2>1, <2>2, <2>3, <2>4, StepIInv, Shape, ZenonT(60)
<1>7. CASE vmrun(t, c)
  <2>1. /\ gif' \in [Cpu -> BOOLEAN] /\ gif'[c]
        /\ DOMAIN saveRax' = Cpu /\ saveRax'[c] = VmcbPA
        /\ \A d \in Cpu \ {c} : gif'[d] = gif[d] /\ saveRax'[d] = saveRax[d]
    BY <1>1, <1>4, <1>7 DEF vmrun, IInv, TypeOK
  <2>2. /\ DOMAIN gpr' = Thread /\ \A u \in Thread \ {t} : gpr'[u] = gpr[u]
        /\ \A u \in Thread : DOMAIN gpr'[u] = Gpr
    BY <1>7 DEF vmrun, IInv, TypeOK
  <2>3. step' = [step EXCEPT ![t] = "guest"] /\ UNCHANGED <<hidden, shared, history>>
    BY <1>7 DEF vmrun
  <2>4. "guest" \in Inside
    BY DEF Inside
  <2>5. /\ stack'[t] = StackAt("guest") /\ CalleeAt("guest", gpr'[t])
        /\ ArgumentsAt("guest", gpr'[t]) /\ RaxAt("guest", gpr'[t])
    BY <1>1, <1>2, <1>3
  <2>6. /\ "guest" \in Steps /\ "guest" # "astray"
        /\ running[c] = t /\ running' = running
    BY <1>0, <1>1, <2>4
  <2>7. /\ DOMAIN stack' = Thread /\ DOMAIN hidden' = Cpu
        /\ \A u \in Thread \ {t} : gpr'[u] = gpr[u] /\ stack'[u] = stack[u]
        /\ DOMAIN vmcb' = {"rax", "hidden"} /\ DOMAIN fGprs' = Swapped
        /\ DOMAIN owned' = GuestState /\ overlapped' \in BOOLEAN
    BY <1>1, <2>2, <2>3, Shape
  <2>8. QED
    BY <2>1, <2>2, <2>3, <2>5, <2>6, <2>7, StepIInv, ZenonT(60)
<1>8. CASE \E R \in GuestSets : vmexit(t, c, R)
  <2>1. PICK R \in GuestSets : vmexit(t, c, R)
    BY <1>8
  <2>2. /\ gif' \in [Cpu -> BOOLEAN] /\ ~ gif'[c]
        /\ \A d \in Cpu \ {c} : gif'[d] = gif[d]
        /\ DOMAIN hidden' = Cpu /\ DOMAIN vmcb' = {"rax", "hidden"}
        /\ DOMAIN owned' = GuestState
    BY <2>1 DEF vmexit, IInv, TypeOK
  <2>3. /\ DOMAIN gpr' = Thread /\ \A u \in Thread \ {t} : gpr'[u] = gpr[u]
        /\ \A u \in Thread : DOMAIN gpr'[u] = Gpr
        /\ gpr'[t]["rax"] = saveRax[c]
    BY <2>1, Registers DEF vmexit, IInv, TypeOK
  <2>4. saveRax[c] = VmcbPA
    BY <1>1, <2>1, Here DEF vmexit
  <2>5. /\ step' = [step EXCEPT ![t] = "vmsave"]
        /\ UNCHANGED <<saveRax, fGprs, fGuestRax, overlapped>>
    BY <2>1 DEF vmexit
  <2>6. "vmsave" \in Inside \ {"guest"}
    BY DEF Inside
  <2>7. /\ stack'[t] = StackAt("vmsave") /\ CalleeAt("vmsave", gpr'[t])
        /\ ArgumentsAt("vmsave", gpr'[t]) /\ RaxAt("vmsave", gpr'[t])
    BY <1>1, <1>2, <1>3, <2>3, <2>4
  <2>8. /\ "vmsave" \in Steps /\ "vmsave" # "astray"
        /\ running[c] = t /\ running' = running
    BY <1>0, <1>1, <2>6
  <2>9. /\ DOMAIN stack' = Thread /\ DOMAIN saveRax' = Cpu
        /\ \A u \in Thread \ {t} : gpr'[u] = gpr[u] /\ stack'[u] = stack[u]
        /\ \A d \in Cpu \ {c} : gif'[d] = gif[d] /\ saveRax'[d] = saveRax[d]
        /\ DOMAIN fGprs' = Swapped /\ overlapped' \in BOOLEAN
    BY <1>1, <2>2, <2>3, <2>5, Shape
  <2>10. /\ gif'[c] <=> "vmsave" \notin Inside \ {"guest"}
         /\ "vmsave" = "guest" => saveRax'[c] = VmcbPA
    BY <2>2, <2>6
  <2>11. QED
    BY <2>2, <2>3, <2>5, <2>7, <2>8, <2>9, <2>10, StepIInv, ZenonT(60)
<1>9. CASE vmsave(t, c)
  <2>1. ~ gif[c] /\ "stgi" \in Inside \ {"guest"}
    BY <1>1, <1>9, Here DEF vmsave, Inside
  <2>2. DOMAIN vmcb' = {"rax", "hidden"}
    BY <1>9 DEF vmsave, IInv, TypeOK
  <2>3. QED
    BY <1>0, <1>1, <1>2, <1>3, <1>9, <2>1, <2>2, StepIInv, Shape, ZenonT(60) DEF vmsave
<1>10. CASE stgi(t, c)
  <2>1. gif' \in [Cpu -> BOOLEAN] /\ gif'[c] /\ \A d \in Cpu \ {c} : gif'[d] = gif[d]
    BY <1>10 DEF stgi, IInv, TypeOK
  <2>2. /\ step' = [step EXCEPT ![t] = "recover"]
        /\ UNCHANGED <<local, hidden, saveRax, shared, history>>
    BY <1>10 DEF stgi
  <2>3. "recover" \notin Inside \ {"guest"} /\ "recover" # "guest"
    BY DEF Inside
  <2>4. QED
    BY <1>0, <1>1, <1>2, <1>3, <2>1, <2>2, <2>3, StepIInv, Shape, ZenonT(60)
<1>11. QED
  BY <1>5, <1>6, <1>7, <1>8, <1>9, <1>10

LEMMA CallerSteps ==
  ASSUME IInv, NEW t \in Thread, NEW c \in Cpu, callSwitch(t, c) \/ fetchRax(t, c)
  PROVE  IInv'
<1> USE DEF At, Goto, Set, shared, cpus, history, local
<1>0. {"caller", "save"} \subseteq Steps \ Inside
  BY DEF Steps, Inside
<1>1. CASE callSwitch(t, c)
  <2>1. running[c] = t /\ step[t] = "caller" /\ Stands(t) /\ gif[c]
    BY <1>1, Here DEF callSwitch, Inside
  <2>2. stack[t] = <<>> /\ CalleeAt("caller", gpr[t])
    BY <2>1 DEF Stands, StackAt
  <2>3. /\ stack'[t] = Return /\ DOMAIN stack' = Thread
        /\ \A u \in Thread \ {t} : stack'[u] = stack[u]
    BY <1>1, <2>2, Pushes DEF callSwitch, Return, IInv, TypeOK
  <2>4. /\ DOMAIN gpr' = Thread /\ \A u \in Thread \ {t} : gpr'[u] = gpr[u]
        /\ \A u \in Thread : DOMAIN gpr'[u] = Gpr
    BY <1>1 DEF callSwitch, IInv, TypeOK
  <2>5. /\ gpr'[t]["rdi"] = VmcbPA /\ gpr'[t]["rsi"] = G
        /\ \A r \in CalleeSaved : gpr'[t][r] = gpr[t][r]
    BY <1>1, Registers DEF callSwitch, IInv, TypeOK
  <2>6. /\ StackAt("save") = Return /\ CalleeAt("save", gpr'[t])
        /\ RaxAt("save", gpr'[t]) /\ ArgumentsAt("save", gpr'[t])
    BY <2>2, <2>5 DEF StackAt, CalleeAt, RaxAt, ArgumentsAt
  <2>7. /\ step' = [step EXCEPT ![t] = "save"] /\ DOMAIN vmcb' = {"rax", "hidden"}
        /\ overlapped' \in BOOLEAN
        /\ UNCHANGED <<running, cpus, fGprs, fGuestRax, owned>>
    BY <1>1 DEF callSwitch, IInv, TypeOK
  <2>8. QED
    BY <1>0, <2>1, <2>3, <2>4, <2>6, <2>7, StepIInv, Shape, ZenonT(60)
<1>2. CASE fetchRax(t, c)
  <2>1. running[c] = t /\ step[t] = "returned" /\ Stands(t) /\ gif[c]
    BY <1>2, Here DEF fetchRax, Inside
  <2>2. stack[t] = <<>> /\ CalleeAt("returned", gpr[t])
    BY <2>1 DEF Stands, StackAt
  <2>3. /\ DOMAIN gpr' = Thread /\ \A u \in Thread \ {t} : gpr'[u] = gpr[u]
        /\ \A u \in Thread : DOMAIN gpr'[u] = Gpr
        /\ \A r \in CalleeSaved : gpr'[t][r] = gpr[t][r]
    BY <1>2, Registers DEF fetchRax, IInv, TypeOK
  <2>4. /\ StackAt("caller") = <<>> /\ CalleeAt("caller", gpr'[t])
        /\ RaxAt("caller", gpr'[t]) /\ ArgumentsAt("caller", gpr'[t])
    BY <2>2, <2>3 DEF StackAt, CalleeAt, RaxAt, ArgumentsAt
  <2>5. /\ step' = [step EXCEPT ![t] = "caller"]
        /\ UNCHANGED <<stack, running, cpus, vmcb, fGprs, history>>
    BY <1>2 DEF fetchRax
  <2>6. QED
    BY <1>0, <2>1, <2>2, <2>3, <2>4, <2>5, StepIInv, Shape, ZenonT(60)
<1>3. QED
  BY <1>1, <1>2

(* The scheduler gives away only processors whose thread is not inside.    *)
LEMMA DispatchIInv ==
  ASSUME IInv, NEW c \in Cpu, dispatch(c)
  PROVE  IInv'
<1> USE DEF shared, cpus, history, local
<1>1. PICK u \in Thread \cup {Idle} :
        /\ \A d \in Cpu : running[d] = u => u = Idle
        /\ running' = [running EXCEPT ![c] = u]
  BY DEF dispatch
<1>2. /\ gif[c] /\ \A t \in Thread : ~ At(t, c, "guest")
      /\ UNCHANGED <<step, local, cpus, shared, history>>
  BY DEF dispatch
<1>3. running[c] # Idle => step[running[c]] \notin Inside
  BY <1>2 DEF IInv, TypeOK, Occupied, At
<1>4. u # Idle => step[u] \notin Inside
  BY <1>1 DEF IInv, OnSome
<1>5. /\ running'[c] = u /\ \A d \in Cpu \ {c} : running'[d] = running[d]
      /\ running' \in [Cpu -> Thread \cup {Idle}]
  BY <1>1 DEF IInv, TypeOK
<1>6. TypeOK'
  BY <1>1, <1>2, <1>5 DEF IInv, TypeOK
<1>7. \A t \in Thread : Stands(t)' /\ OnSome(t)'
  BY <1>2, <1>3, <1>5, SwitchAssumption DEF IInv, Stands, OnSome
<1>8. \A d \in Cpu : Occupied(d)'
  BY <1>2, <1>4, <1>5 DEF IInv, Occupied, Inside
<1>9. QED
  BY <1>6, <1>7, <1>8 DEF IInv

LEMMA NextIInv == IInv /\ [Next]_vars => IInv'
<1> SUFFICES ASSUME IInv, [Next]_vars PROVE IInv'
  OBVIOUS
<1>1. ASSUME NEW t \in Thread, NEW c \in Cpu, svmWorldSwitch(t, c) PROVE IInv'
  BY <1>1, StackSteps, RegisterSteps, SvmSteps DEF svmWorldSwitch
<1>2. CASE UNCHANGED vars
  BY <1>2 DEF vars, local, cpus, shared, history, IInv, TypeOK, Stands, OnSome, Occupied
<1>3. QED
  BY <1>1, <1>2, CallerSteps, DispatchIInv DEF Next

LEMMA Invariance == Spec => []IInv
  BY InitIInv, NextIInv, PTL DEF Spec

(* Type correctness. *)
THEOREM TypeCorrect == Spec => []TypeOK
<1>1. IInv => TypeOK
  BY DEF IInv
<1>2. QED
  BY <1>1, Invariance, PTL

(* For any number of threads and processors, any guest, and launches that  *)
(* overlap in any way: the caller gets its registers and stack back.       *)
THEOREM CallPreservedHolds == Spec => []CallPreserved
<1>1. IInv => CallPreserved
  <2> SUFFICES ASSUME IInv, NEW t \in Thread
               PROVE  /\ step[t] # "astray"
                      /\ step[t] = "returned" =>
                           /\ \A r \in CalleeSaved : gpr[t][r] = Caller(r)
                           /\ stack[t] = <<>>
                           /\ \A c \in Cpu : running[c] = t => gif[c]
    BY DEF CallPreserved
  <2>1. Stands(t) /\ \A c \in Cpu : running[c] = t /\ step[t] = "returned" => gif[c]
    BY Here DEF IInv, Inside
  <2>2. QED
    BY <2>1 DEF Stands, StackAt, CalleeAt
<1>2. QED
  BY <1>1, Invariance, PTL

(* No guest value is ever used as an address of the host.                  *)
THEOREM OperandsAddressedHolds == Spec => []OperandsAddressed
<1>1. IInv => OperandsAddressed
  BY DEF IInv, Stands, RaxAt, OperandsAddressed
<1>2. QED
  BY <1>1, Invariance, PTL

(* Between VMLOAD and VMSAVE the processor is the thread's.                *)
THEOREM HeldInsideHolds == Spec => []HeldInside
<1>1. IInv => HeldInside
  BY Here DEF IInv, OnSome, HeldInside
<1>2. QED
  BY <1>1, Invariance, PTL

------------------------------------------------------------------------------
\* The guest's registers, while no two launches have overlapped

FieldsHold  == \A r \in Swapped : fGprs[r] = owned[r]
LiveHold(t) == \A r \in Swapped : gpr[t][r] = owned[r]

\* Where the guest's registers are while t is the thread that launches.
Carried(t) ==
  /\ step[t] \in {"save", "stash", "load", "operand", "clgi", "vmload", "vmrun",
                  "unstash", "restore", "ret", "returned"} => FieldsHold
  /\ step[t] \in {"operand", "clgi", "vmload", "vmrun", "vmsave", "stgi",
                  "recover", "store"} => LiveHold(t)
  /\ step[t] \notin {"caller", "guest"} => vmcb.rax = owned["rax"]
  /\ step[t] \notin {"caller", "guest", "vmsave"} => vmcb.hidden = owned["hidden"]
  /\ step[t] \in {"vmrun", "vmsave"} =>
       \A c \in Cpu : running[c] = t => hidden[c] = owned["hidden"]

AtRest == \A t \in Thread : step[t] = "caller"

Resting ==
  AtRest => FieldsHold /\ fGuestRax = owned["rax"] /\ vmcb.hidden = owned["hidden"]

Alone ==
  \A t, u \in Thread : step[t] # "caller" /\ step[u] # "caller" => t = u

Tracked == ~ overlapped => Alone /\ Resting /\ \A t \in Thread : Carried(t)

(* The loads and the stores use the offsets of the fields they are for:    *)
(* the order of GuestGprs is the one svm_switch.S assumes.                 *)
LEMMA OffsetsAgree ==
  \A r \in Swapped : FieldAt(LoadFrom[r]) = r /\ FieldAt(StoreTo[r]) = r
<1>1. /\ 0 \div 8 = 0 /\ 8 \div 8 = 1 /\ 16 \div 8 = 2 /\ 24 \div 8 = 3
      /\ 32 \div 8 = 4 /\ 40 \div 8 = 5 /\ 48 \div 8 = 6 /\ 56 \div 8 = 7
      /\ 64 \div 8 = 8 /\ 72 \div 8 = 9 /\ 80 \div 8 = 10 /\ 88 \div 8 = 11
      /\ 96 \div 8 = 12 /\ 104 \div 8 = 13
  OBVIOUS
<1>2. Swapped = {"rbx", "rcx", "rdx", "rbp", "rsi", "rdi", "r8", "r9", "r10",
                 "r11", "r12", "r13", "r14", "r15"}
  BY DEF Swapped, GuestGprs
<1>3. \A r \in Swapped : FieldAt(LoadFrom[r]) = r
  BY <1>1, <1>2 DEF FieldAt, LoadFrom, GuestGprs
<1>4. \A r \in Swapped : FieldAt(StoreTo[r]) = r
  BY <1>1, <1>2 DEF FieldAt, StoreTo, GuestGprs
<1>5. QED
  BY <1>3, <1>4

LEMMA TrackedInit == Init => Tracked
  BY DEF Init, Tracked, Alone, Resting, FieldsHold, Carried, LiveHold, GuestState, Gpr

\* A step of the one thread that launches.
LEMMA LaunchingTracked ==
  ASSUME IInv, Tracked, NEW t \in Thread, NEW c \in Cpu,
         svmWorldSwitch(t, c), ~ overlapped
  PROVE  Tracked'
<1> USE DEF At, Goto, Set, shared, cpus, history, local
<1>1. step[t] # "caller" /\ running[c] = t /\ overlapped' = overlapped /\ running' = running
  BY DEF svmWorldSwitch, saveCallee, stash, loadGuest, operand, clgi, vmload, vmrun,
         vmexit, vmsave, stgi, recover, storeGuest, unstash, restore, ret
<1>2. PICK s \in Steps \ {"caller"} : step' = [step EXCEPT ![t] = s]
  BY DEF svmWorldSwitch, saveCallee, stash, loadGuest, operand, clgi, vmload, vmrun,
         vmexit, vmsave, stgi, recover, storeGuest, unstash, restore, ret, Steps, Inside
<1>3. /\ step'[t] = s /\ \A u \in Thread \ {t} : step'[u] = "caller" /\ step[u] = "caller"
  BY <1>1, <1>2 DEF Tracked, Alone, IInv, TypeOK
<1>4. Alone' /\ Resting'
  BY <1>3 DEF Alone, Resting, AtRest
<1>5. \A u \in Thread \ {t} : Carried(u)'
  BY <1>3 DEF Carried
<1>6. \A d \in Cpu : running[d] = t => d = c
  BY <1>1, SwitchAssumption DEF IInv, TypeOK
<1> SUFFICES Carried(t)'
  BY <1>4, <1>5 DEF Tracked
<1>7. Carried(t)
  BY DEF Tracked
<1>8. "rax" \notin Swapped /\ Swapped \subseteq Gpr /\ Gpr \subseteq GuestState
  BY Registers DEF Gpr, GuestState
<1>9. CASE saveCallee(t, c) \/ stash(t, c)
  BY <1>3, <1>7, <1>9 DEF saveCallee, stash, Carried, FieldsHold, LiveHold, IInv, TypeOK
<1>10. CASE loadGuest(t, c)
  <2>1. LiveHold(t)'
    BY <1>7, <1>8, <1>10, OffsetsAgree
    DEF loadGuest, Carried, FieldsHold, LiveHold, IInv, TypeOK
  <2>2. QED
    BY <1>7, <1>10, <2>1 DEF loadGuest, Carried, FieldsHold, IInv, TypeOK
<1>11. CASE operand(t, c)
  <2>1. LiveHold(t)'
    BY <1>7, <1>8, <1>11 DEF operand, Carried, LiveHold, IInv, TypeOK
  <2>2. QED
    BY <1>7, <1>11, <2>1 DEF operand, Carried, FieldsHold, IInv, TypeOK
<1>12. CASE clgi(t, c)
  BY <1>7, <1>12 DEF clgi, Carried, FieldsHold, LiveHold, IInv, TypeOK
<1>13. CASE vmload(t, c)
  BY <1>6, <1>7, <1>13 DEF vmload, Carried, FieldsHold, LiveHold, IInv, TypeOK
<1>14. CASE vmrun(t, c)
  BY <1>14 DEF vmrun, Carried, IInv, TypeOK
<1>15. CASE \E R \in GuestSets : vmexit(t, c, R)
  <2>1. PICK R \in GuestSets : vmexit(t, c, R)
    BY <1>15
  <2>2. LiveHold(t)'
    BY <1>8, <2>1 DEF vmexit, LiveHold, IInv, TypeOK
  <2>3. vmcb'.rax = owned'["rax"]
    BY <2>1 DEF vmexit, IInv, TypeOK, GuestState, Gpr
  <2>4. hidden'[c] = owned'["hidden"]
    BY <2>1 DEF vmexit, IInv, TypeOK, GuestState
  <2>5. step'[t] = "vmsave"
    BY <2>1 DEF vmexit, IInv, TypeOK
  <2>6. QED
    BY <1>1, <1>6, <2>2, <2>3, <2>4, <2>5 DEF Carried
<1>16. CASE vmsave(t, c)
  BY <1>1, <1>7, <1>16 DEF vmsave, Carried, FieldsHold, LiveHold, IInv, TypeOK
<1>17. CASE stgi(t, c)
  BY <1>7, <1>17 DEF stgi, Carried, FieldsHold, LiveHold, IInv, TypeOK
<1>18. CASE recover(t, c)
  <2>1. LiveHold(t)'
    BY <1>7, <1>8, <1>18 DEF recover, Carried, LiveHold, IInv, TypeOK
  <2>2. QED
    BY <1>7, <1>18, <2>1 DEF recover, Carried, FieldsHold, IInv, TypeOK
<1>19. CASE storeGuest(t, c)
  <2>1. FieldsHold'
    BY <1>7, <1>19, OffsetsAgree DEF storeGuest, Carried, FieldsHold, LiveHold, IInv, TypeOK
  <2>2. QED
    BY <1>7, <1>19, <2>1 DEF storeGuest, Carried, LiveHold, IInv, TypeOK
<1>20. CASE unstash(t, c) \/ restore(t, c) \/ ret(t, c)
  <2>1. /\ step[t] \in {"unstash", "restore", "ret"}
        /\ UNCHANGED <<running, cpus, shared, history>>
    BY <1>20 DEF unstash, restore, ret
  <2>2. step'[t] \in {"restore", "ret", "returned", "astray"}
    BY <1>20 DEF unstash, restore, ret, IInv, TypeOK
  <2>3. QED
    BY <1>7, <2>1, <2>2 DEF Carried, FieldsHold, LiveHold
<1>21. QED
  BY <1>9, <1>10, <1>11, <1>12, <1>13, <1>14, <1>15, <1>16, <1>17, <1>18, <1>19, <1>20
  DEF svmWorldSwitch

LEMMA TrackedNext == IInv /\ IInv' /\ Tracked /\ [Next]_vars => Tracked'
<1> SUFFICES ASSUME IInv, Tracked, [Next]_vars, ~ overlapped' PROVE Tracked'
  BY DEF Tracked
<1> USE DEF At, Goto, Set, shared, cpus, history, local
<1>1. ~ overlapped
  <2>1. ASSUME NEW t \in Thread, NEW c \in Cpu, svmWorldSwitch(t, c) PROVE overlapped' = overlapped
    <3>1. CASE \E R \in GuestSets : vmexit(t, c, R)
      BY <3>1 DEF vmexit
    <3>2. CASE saveCallee(t, c) \/ stash(t, c) \/ loadGuest(t, c) \/ operand(t, c) \/ clgi(t, c)
      BY <3>2 DEF saveCallee, stash, loadGuest, operand, clgi
    <3>3. CASE vmload(t, c) \/ vmrun(t, c) \/ vmsave(t, c) \/ stgi(t, c) \/ recover(t, c)
      BY <3>3 DEF vmload, vmrun, vmsave, stgi, recover
    <3>4. CASE storeGuest(t, c) \/ unstash(t, c) \/ restore(t, c) \/ ret(t, c)
      BY <3>4 DEF storeGuest, unstash, restore, ret
    <3>5. QED
      BY <2>1, <3>1, <3>2, <3>3, <3>4 DEF svmWorldSwitch
  <2>2. ASSUME NEW t \in Thread, NEW c \in Cpu, callSwitch(t, c) PROVE overlapped => overlapped'
    BY <2>2 DEF callSwitch
  <2>3. ASSUME NEW t \in Thread, NEW c \in Cpu, fetchRax(t, c) PROVE overlapped' = overlapped
    BY <2>3 DEF fetchRax
  <2>4. ASSUME NEW c \in Cpu, dispatch(c) PROVE overlapped' = overlapped
    BY <2>4 DEF dispatch
  <2>5. QED
    BY <2>1, <2>2, <2>3, <2>4 DEF Next, vars
<1>2. ASSUME NEW t \in Thread, NEW c \in Cpu, svmWorldSwitch(t, c) PROVE Tracked'
  BY <1>1, <1>2, LaunchingTracked
<1>3. ASSUME NEW t \in Thread, NEW c \in Cpu, callSwitch(t, c) PROVE Tracked'
  <2>1. \A u \in Thread : step[u] = "caller"
    BY <1>1, <1>3 DEF callSwitch
  <2>2. FieldsHold /\ fGuestRax = owned["rax"] /\ vmcb.hidden = owned["hidden"]
    BY <1>1, <2>1 DEF Tracked, Resting, AtRest
  <2>3. step'[t] = "save" /\ \A u \in Thread \ {t} : step'[u] = "caller"
    BY <1>3, <2>1 DEF callSwitch, IInv, TypeOK
  <2>4. /\ vmcb'.rax = fGuestRax /\ vmcb'.hidden = vmcb.hidden
        /\ UNCHANGED <<fGprs, owned>>
    BY <1>3 DEF callSwitch, IInv, TypeOK
  <2>5. QED
    BY <2>2, <2>3, <2>4 DEF Tracked, Alone, Resting, AtRest, Carried, FieldsHold
<1>4. ASSUME NEW t \in Thread, NEW c \in Cpu, fetchRax(t, c) PROVE Tracked'
  <2>1. step[t] = "returned" /\ Carried(t)
    BY <1>1, <1>4 DEF fetchRax, Tracked
  <2>2. \A u \in Thread : step'[u] = "caller"
    BY <1>1, <1>4, <2>1 DEF fetchRax, Tracked, Alone, IInv, TypeOK
  <2>3. fGuestRax' = vmcb.rax /\ UNCHANGED <<vmcb, fGprs, owned>>
    BY <1>4 DEF fetchRax
  <2>4. QED
    BY <2>1, <2>2, <2>3 DEF Tracked, Alone, Resting, AtRest, Carried, FieldsHold
<1>5. ASSUME NEW c \in Cpu, dispatch(c) PROVE Tracked'
  <2>1. PICK u \in Thread \cup {Idle} :
          /\ \A d \in Cpu : running[d] = u => u = Idle
          /\ running' = [running EXCEPT ![c] = u]
    BY <1>5 DEF dispatch
  <2>2. UNCHANGED <<step, local, cpus, shared, history>>
    BY <1>5 DEF dispatch
  <2>3. u # Idle => step[u] \notin Inside
    BY <2>1 DEF IInv, OnSome
  <2>4. \A t \in Thread : Carried(t)'
    BY <1>1, <2>1, <2>2, <2>3, SwitchAssumption
    DEF Tracked, Carried, FieldsHold, LiveHold, Inside, IInv, TypeOK
  <2>5. QED
    BY <1>1, <2>2, <2>4 DEF Tracked, Alone, Resting, AtRest, FieldsHold
<1>6. CASE UNCHANGED vars
  BY <1>6 DEF vars, Tracked, Alone, Resting, AtRest, Carried, FieldsHold, LiveHold
<1>7. QED
  BY <1>2, <1>3, <1>4, <1>5, <1>6 DEF Next

LEMMA TrackedInvariance == Spec => []Tracked
  BY TrackedInit, TrackedNext, Invariance, PTL DEF Spec

(* Between launches every field of GuestGprs holds the guest's register of *)
(* its name.                                                               *)
THEOREM GprsInPlaceHolds == Spec => []GprsInPlace
<1>1. Tracked => GprsInPlace
  BY DEF Tracked, Resting, AtRest, FieldsHold, GprsInPlace
<1>2. QED
  BY <1>1, TrackedInvariance, PTL

(* The guest is entered with every register as it left it, whatever        *)
(* processor each run was on.                                              *)
THEOREM GuestContinuesHolds == Spec => GuestContinues
<1> DEFINE Continues ==
      \A t \in Thread, c \in Cpu :
        vmrun(t, c) /\ ~ overlapped =>
          /\ \A r \in Gpr : gpr'[t][r] = owned[r]
          /\ hidden'[c] = owned["hidden"]
<1>1. ASSUME IInv, Tracked PROVE Continues
  <2> SUFFICES ASSUME NEW t \in Thread, NEW c \in Cpu, vmrun(t, c), ~ overlapped
               PROVE  /\ \A r \in Gpr : gpr'[t][r] = owned[r]
                      /\ hidden'[c] = owned["hidden"]
    OBVIOUS
  <2>1. step[t] = "vmrun" /\ running[c] = t /\ Carried(t)
    BY <1>1 DEF vmrun, At, Tracked
  <2>2. gpr'[t]["rax"] = vmcb.rax /\ \A r \in Swapped : gpr'[t][r] = gpr[t][r]
    BY <1>1, Registers DEF vmrun, Set, IInv, TypeOK, Gpr
  <2>3. hidden' = hidden
    BY DEF vmrun
  <2>4. QED
    BY <2>1, <2>2, <2>3 DEF Carried, LiveHold, Gpr
<1> HIDE DEF Continues
<1>2. Spec => [](IInv /\ Tracked)
  BY Invariance, TrackedInvariance, PTL
<1>3. (IInv /\ Tracked) /\ [Next]_vars => [Continues]_vars
  BY <1>1
<1>4. Spec => [][Continues]_vars
  BY <1>2, <1>3, PTL DEF Spec
<1>5. QED
  BY <1>4 DEF Continues, GuestContinues
==============================================================================
