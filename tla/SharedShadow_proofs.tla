-------------------------- MODULE SharedShadow_proofs --------------------------
(***************************************************************************)
(* SharedShadow for any number of processors, encodings, values and slots. *)
(*                                                                         *)
(* Until a race, the invariant says of each processor what its scan has    *)
(* established (Stands): that the slots behind it carry other encodings    *)
(* still, although others write meanwhile.  An append is alone (Alone),    *)
(* and its slot is not among the settled ones, whose encodings differ      *)
(* (Unique) and are as many as there are (HeldSize).                       *)
(*                                                                         *)
(* From it follow what a read returns, and that every call takes effect at *)
(* one step: a write at its store or at the last store of its append, a    *)
(* refused one where it finds the store full, a read at its last load.     *)
(***************************************************************************)
EXTENDS SharedShadow, FiniteSetTheorems, TLAPS

Appending(c) == call[c].op = "append"

SettledEnc == {fields[i].enc : i \in Settled}

Scanned(c) == \A j \in 0 .. call[c].i - 1 : fields[j].enc # call[c].enc

Stands(c) ==
  /\ call[c].op \in {"read", "write"} => call[c].i <= count /\ Scanned(c)
  /\ call[c].op \in {"load", "store"} =>
       call[c].i < count /\ fields[call[c].i].enc = call[c].enc
  /\ call[c].op = "append" =>
       /\ call[c].i < MaxFields /\ Scanned(c)
       /\ count = IF "count" \in call[c].left THEN call[c].i ELSE call[c].i + 1
       /\ "enc" \notin call[c].left => fields[call[c].i].enc = call[c].enc
       /\ "val" \notin call[c].left => fields[call[c].i].val = call[c].val

Alone == \A c, d \in Cpu : Appending(c) /\ Busy(d) => c = d

Unique == \A i, j \in Settled : fields[i].enc = fields[j].enc => i = j

\* How many slots are settled.
HeldSize ==
  /\ IsFiniteSet(SettledEnc)
  /\ (\A c \in Cpu : ~ Appending(c)) => Cardinality(SettledEnc) = count
  /\ \A c \in Cpu : Appending(c) => Cardinality(SettledEnc) = call[c].i

Typed == TypeOK /\ call \in [Cpu -> Call] /\ result \in [Cpu -> Val]

Inv == Typed /\ (\A c \in Cpu : Stands(c)) /\ Alone /\ Unique /\ HeldSize

IInv == raced \in BOOLEAN /\ (~ raced => Inv)

------------------------------------------------------------------------------
\* What a scan of an array f finds among the slots S.

Found(f, S, e) ==
  IF \E i \in S : f[i].enc = e
  THEN f[CHOOSE i \in S :
           f[i].enc = e /\ \A j \in S : f[j].enc = e => i <= j].val
  ELSE Zero

LEMMA ContentsFound == Contents = [e \in Enc |-> Found(fields, Settled, e)]
  BY DEF Contents, Found

LEMMA FoundAt ==
  ASSUME NEW f, NEW S \in SUBSET Nat, NEW i \in S,
         \A j \in S : f[j].enc = f[i].enc => j = i
  PROVE  Found(f, S, f[i].enc) = f[i].val
<1> DEFINE First(k) == f[k].enc = f[i].enc /\ \A j \in S : f[j].enc = f[i].enc => k <= j
<1>1. First(i)
  OBVIOUS
<1>2. \A k \in S : First(k) => k = i
  OBVIOUS
<1>3. (CHOOSE k \in S : First(k)) = i
  BY <1>1, <1>2
<1>4. QED
  BY <1>3 DEF Found

LEMMA FoundNowhere ==
  ASSUME NEW f, NEW S, NEW e, \A i \in S : f[i].enc # e
  PROVE  Found(f, S, e) = Zero
  BY DEF Found

\* Two arrays that are the same on the slots.
LEMMA FoundSame ==
  ASSUME NEW f, NEW g, NEW S \in SUBSET Nat, \A i \in S : f[i] = g[i],
         \A i, j \in S : f[i].enc = f[j].enc => i = j,
         NEW e
  PROVE  Found(f, S, e) = Found(g, S, e)
<1>1. CASE \E i \in S : f[i].enc = e
  <2>1. PICK i \in S : f[i].enc = e
    BY <1>1
  <2>2. Found(f, S, f[i].enc) = f[i].val
    BY FoundAt
  <2>3. \A j \in S : g[j].enc = g[i].enc => j = i
    OBVIOUS
  <2>4. Found(g, S, g[i].enc) = g[i].val
    BY <2>3, FoundAt
  <2>5. QED
    BY <2>1, <2>2, <2>4
<1>2. CASE \A i \in S : f[i].enc # e
  <2>1. Found(f, S, e) = Zero
    BY <1>2, FoundNowhere
  <2>2. \A i \in S : g[i].enc # e
    BY <1>2
  <2>3. Found(g, S, e) = Zero
    BY <2>2, FoundNowhere
  <2>4. QED
    BY <2>1, <2>3
<1>3. QED
  BY <1>1, <1>2

------------------------------------------------------------------------------
\* Which slots are settled

SettledOf(n, cs) ==
  (0 .. n - 1) \ {cs[c].i : c \in {d \in Cpu : cs[d].op \in {"append"}}}

LEMMA SettledNow == Settled = SettledOf(count, call)
  BY DEF Settled, SettledOf, Used, At

LEMMA SettledNext == Settled' = SettledOf(count', call')
  BY DEF Settled, SettledOf, Used, At

\* All that are in use, when nobody appends; all below the slot of the
\* processor that does, when there is one.
LEMMA NobodyAppends ==
  ASSUME NEW n, NEW cs, \A c \in Cpu : cs[c].op # "append"
  PROVE  SettledOf(n, cs) = 0 .. n - 1
  BY DEF SettledOf

LEMMA OneAppends ==
  ASSUME NEW n \in Nat, NEW cs, NEW c \in Cpu,
         cs[c].op = "append", cs[c].i \in Nat,
         \A d \in Cpu : cs[d].op = "append" => d = c,
         n = cs[c].i \/ n = cs[c].i + 1
  PROVE  SettledOf(n, cs) = 0 .. cs[c].i - 1
<1>1. {cs[d].i : d \in {d \in Cpu : cs[d].op \in {"append"}}} = {cs[c].i}
  OBVIOUS
<1>2. SettledOf(n, cs) = (0 .. n - 1) \ {cs[c].i}
  BY <1>1 DEF SettledOf
<1>3. QED
  BY <1>2

LEMMA AppenderLeft ==
  ASSUME Inv, NEW c \in Cpu, Appending(c)
  PROVE  /\ Settled = 0 .. call[c].i - 1
         /\ \A d \in Cpu : Busy(d) => d = c
<1>1. \A d \in Cpu : Busy(d) => d = c
  BY DEF Inv, Alone
<1>2. \A d \in Cpu : call[d].op = "append" => d = c
  BY <1>1 DEF Busy
<1>3. call[c] \in Call
  BY DEF Inv, Typed
<1>4. call[c].i \in Nat
  BY <1>3, ShadowAssumption DEF Call
<1>5. count = call[c].i \/ count = call[c].i + 1
  BY DEF Inv, Stands, Appending
<1>6. count \in Nat
  BY <1>4, <1>5
<1>7. QED
  BY <1>1, <1>2, <1>4, <1>5, <1>6, OneAppends, SettledNow DEF Appending

(* A processor at work on anything else finds nobody appending.            *)
LEMMA BusyAlone ==
  ASSUME Inv, NEW c \in Cpu, Busy(c), ~ Appending(c)
  PROVE  /\ \A d \in Cpu : ~ Appending(d)
         /\ Settled = Used
<1>1. \A d \in Cpu : ~ Appending(d)
  BY DEF Inv, Alone
<1>2. QED
  BY <1>1, NobodyAppends, SettledNow DEF Appending, Used

------------------------------------------------------------------------------
\* The invariant

LEMMA InitIInv == SharedInit => IInv
<1>1. SUFFICES ASSUME SharedInit PROVE Inv
  BY DEF IInv, SharedInit
<1> USE DEF SharedInit
<1>2. /\ count = 0 /\ Used = {} /\ Settled = {}
      /\ \A c \in Cpu : call[c] = Idle
  BY <1>1 DEF Init, Used, Settled
<1>3. Typed
  <2>1. Idle \in Call
    BY ShadowAssumption DEF Idle, Call
  <2>2. fields \in [Slot -> [enc : Enc, val : Val]]
    BY <1>1, ShadowAssumption DEF Init
  <2>3. count \in 0 .. MaxFields
    BY <1>2, ShadowAssumption
  <2>4. launched \in BOOLEAN /\ ok \in BOOLEAN
    BY <1>1 DEF Init
  <2>5. QED
    BY <1>1, <2>1, <2>2, <2>3, <2>4, ShadowAssumption DEF Typed, TypeOK
<1>4. \A c \in Cpu : ~ Busy(c) /\ Stands(c)
  BY <1>2 DEF Idle, Busy, Stands
<1>5. Alone /\ Unique
  BY <1>2, <1>4 DEF Alone, Unique
<1>6. HeldSize
  <2>1. SettledEnc = {}
    BY <1>2 DEF SettledEnc
  <2>2. \A c \in Cpu : ~ Appending(c)
    BY <1>4 DEF Busy, Appending
  <2>3. QED
    BY <1>2, <2>1, <2>2, FS_EmptySet DEF HeldSize
<1>7. QED
  BY <1>3, <1>4, <1>5, <1>6 DEF Inv

(* A step of processor c, with nobody appending before or after it, that   *)
(* neither appends a slot nor changes the encoding of one.                 *)
LEMMA QuietStep ==
  ASSUME Inv, NEW c \in Cpu,
         \A d \in Cpu : ~ Appending(d) /\ ~ Appending(d)',
         \A d \in Cpu \ {c} : call'[d] = call[d],
         count' = count,
         \A j \in Slot : fields'[j].enc = fields[j].enc,
         Typed', Stands(c)'
  PROVE  Inv'
<1>1. Settled = Used /\ Settled' = Used /\ Used \subseteq Slot
  <2>1. Settled = 0 .. count - 1
    BY NobodyAppends, SettledNow DEF Appending
  <2>2. Settled' = 0 .. count - 1
    BY NobodyAppends, SettledNext DEF Appending
  <2>3. QED
    BY <2>1, <2>2, ShadowAssumption DEF Used, Slot, Inv, Typed, TypeOK
<1>2. \A d \in Cpu : Stands(d)'
  <2>1. SUFFICES ASSUME NEW d \in Cpu, d # c PROVE Stands(d)'
    OBVIOUS
  <2>2. Stands(d) /\ call'[d] = call[d] /\ call[d] \in Call
    BY <2>1 DEF Inv, Typed
  <2>3. call[d].i \in Nat /\ count \in 0 .. MaxFields /\ call[d].op # "append"
    BY <2>2, ShadowAssumption DEF Call, Inv, Typed, TypeOK, Appending
  <2>4. CASE call[d].op \in {"read", "write"}
    <3>1. \A j \in 0 .. call[d].i - 1 : j \in Slot
      BY <2>2, <2>3, <2>4, ShadowAssumption DEF Stands, Slot
    <3>2. Scanned(d)'
      BY <2>2, <2>4, <3>1 DEF Stands, Scanned
    <3>3. QED
      BY <2>2, <2>4, <3>2 DEF Stands
  <2>5. CASE call[d].op \in {"load", "store"}
    BY <2>2, <2>3, <2>5, ShadowAssumption DEF Stands, Slot
  <2>6. QED
    BY <2>2, <2>3, <2>4, <2>5 DEF Stands
<1>3. Alone'
  BY DEF Alone
<1>4. Unique'
  BY <1>1 DEF Unique, Inv
<1>5. HeldSize'
  <2>1. SettledEnc' = SettledEnc
    BY <1>1 DEF SettledEnc
  <2>2. QED
    BY <2>1 DEF HeldSize, Inv
<1>6. QED
  BY <1>2, <1>3, <1>4, <1>5 DEF Inv

LEMMA BeginInv ==
  ASSUME Inv, NEW c \in Cpu, NEW op \in {"read", "write"},
         NEW e \in Enc, NEW v \in Val, begin(c, op, e, v), ~ raced'
  PROVE  Inv'
<1>1. /\ call' = [call EXCEPT ![c] = [Idle EXCEPT !.op = op, !.enc = e, !.val = v]]
      /\ call \in [Cpu -> Call]
      /\ vars' = vars /\ result' = result
  BY DEF begin, Inv, Typed, vars
<1>2. call'[c] = [op |-> op, enc |-> e, val |-> v, i |-> 0, left |-> {}]
  BY <1>1 DEF Idle
<1>3. /\ \A d \in Cpu \ {c} : call'[d] = call[d]
      /\ \A d \in Cpu : ~ Appending(d) /\ ~ Appending(d)'
  BY <1>1, <1>2 DEF begin, At, Appending
<1>4. Typed'
  <2>1. call'[c] \in Call
    BY <1>2, ShadowAssumption DEF Call
  <2>2. call' \in [Cpu -> Call]
    BY <1>1, <2>1
  <2>3. QED
    BY <1>1, <2>2 DEF Typed, TypeOK, Inv, vars
<1>5. Stands(c)'
  <2>1. call'[c].i = 0 /\ call'[c].op \in {"read", "write"} /\ count' = count
    BY <1>1, <1>2 DEF vars
  <2>2. count >= 0 /\ 0 .. call'[c].i - 1 = {}
    BY <2>1, ShadowAssumption DEF Inv, Typed, TypeOK
  <2>3. QED
    BY <2>1, <2>2 DEF Stands, Scanned
<1>6. QED
  BY <1>1, <1>3, <1>4, <1>5, QuietStep DEF vars

(* Goto and Return change one member of c's call, or end it.               *)
LEMMA GotoEffect ==
  ASSUME call \in [Cpu -> Call], NEW c \in Cpu,
         NEW op \in {"load", "store"}, Goto(c, op)
  PROVE  /\ call' \in [Cpu -> Call]
         /\ call'[c] = [call[c] EXCEPT !.op = op]
         /\ \A d \in Cpu \ {c} : call'[d] = call[d]
<1>1. call' = [call EXCEPT ![c] = [call[c] EXCEPT !.op = op]]
  BY DEF Goto
<1>2. [call[c] EXCEPT !.op = op] \in Call
  BY DEF Call
<1>3. QED
  BY <1>1, <1>2

LEMMA ReturnEffect ==
  ASSUME call \in [Cpu -> Call], NEW c \in Cpu, Return(c)
  PROVE  /\ call' \in [Cpu -> Call]
         /\ call'[c] = Idle
         /\ \A d \in Cpu \ {c} : call'[d] = call[d]
         /\ Stands(c)' /\ ~ Appending(c)' /\ ~ Busy(c)'
<1>1. call' = [call EXCEPT ![c] = Idle]
  BY DEF Return
<1>2. Idle \in Call
  BY ShadowAssumption DEF Idle, Call
<1>3. call'[c] = Idle
  BY <1>1
<1>4. QED
  BY <1>1, <1>2, <1>3 DEF Idle, Stands, Appending, Busy

(* A step of a processor that is at work and never comes to an append.     *)
LEMMA WorkStep ==
  ASSUME Inv, NEW c \in Cpu, Busy(c), ~ Appending(c), ~ Appending(c)',
         \A d \in Cpu \ {c} : call'[d] = call[d],
         count' = count,
         \A j \in Slot : fields'[j].enc = fields[j].enc,
         Typed', Stands(c)'
  PROVE  Inv'
<1>1. \A d \in Cpu : ~ Appending(d)
  BY BusyAlone
<1>2. \A d \in Cpu : ~ Appending(d)'
  BY <1>1 DEF Appending
<1>3. QED
  BY <1>1, <1>2, QuietStep

LEMMA AdvanceInv ==
  ASSUME Inv, NEW c \in Cpu, advance(c)
  PROVE  Inv'
<1>1. /\ call' = [call EXCEPT ![c] = [call[c] EXCEPT !.i = call[c].i + 1]]
      /\ call \in [Cpu -> Call] /\ call[c] \in Call
      /\ vars' = vars /\ result' = result
  BY DEF advance, Inv, Typed, vars
<1>2. call'[c] = [call[c] EXCEPT !.i = call[c].i + 1]
  BY <1>1
<1>3. /\ call[c].i \in Nat /\ count \in 0 .. MaxFields
      /\ call[c].i < count
      /\ call[c].op \in {"read", "write"}
      /\ fields[call[c].i].enc # call[c].enc
      /\ Scanned(c)
  BY <1>1, ShadowAssumption
     DEF advance, At, Here, Call, Inv, Typed, TypeOK, Stands
<1>4. /\ call'[c].i = call[c].i + 1 /\ call'[c].op = call[c].op
      /\ call'[c].enc = call[c].enc
  BY <1>1, <1>2 DEF Call
<1>5. Typed'
  <2>1. call'[c] \in Call
    BY <1>1, <1>2, <1>3, ShadowAssumption DEF Call
  <2>2. call' \in [Cpu -> Call]
    BY <1>1, <1>2, <2>1
  <2>3. QED
    BY <1>1, <2>2 DEF Typed, TypeOK, Inv, vars
<1>6. Stands(c)'
  <2>1. Scanned(c)'
    BY <1>1, <1>3, <1>4 DEF Scanned, vars
  <2>2. QED
    BY <1>1, <1>3, <1>4, <2>1 DEF Stands, vars
<1>7. QED
  <2>1. Busy(c) /\ ~ Appending(c) /\ ~ Appending(c)'
    BY <1>3, <1>4 DEF Busy, Appending
  <2>2. \A d \in Cpu \ {c} : call'[d] = call[d]
    BY <1>1
  <2>3. count' = count /\ fields' = fields
    BY <1>1 DEF vars
  <2>4. QED
    BY <1>5, <1>6, <2>1, <2>2, <2>3, WorkStep

LEMMA MatchInv ==
  ASSUME Inv, NEW c \in Cpu, match(c)
  PROVE  Inv'
<1> DEFINE op == IF At(c, {"read"}) THEN "load" ELSE "store"
<1>1. /\ vars' = vars /\ result' = result /\ call \in [Cpu -> Call]
      /\ Goto(c, op) /\ op \in {"load", "store"}
      /\ call[c] \in Call
  BY DEF match, Inv, Typed, vars
<1> HIDE DEF op
<1>2. /\ call' \in [Cpu -> Call]
      /\ call'[c] = [call[c] EXCEPT !.op = op]
      /\ \A d \in Cpu \ {c} : call'[d] = call[d]
  BY <1>1, GotoEffect
<1>3. /\ call'[c].i = call[c].i /\ call'[c].op = op
      /\ call'[c].enc = call[c].enc
  BY <1>1, <1>2 DEF Call
<1>4. Typed'
  BY <1>1, <1>2 DEF Typed, TypeOK, Inv, vars
<1>5. Stands(c)'
  BY <1>1, <1>3 DEF match, Here, Stands, vars
<1>6. QED
  <2>1. Busy(c) /\ ~ Appending(c) /\ ~ Appending(c)'
    BY <1>1, <1>3 DEF Busy, Appending, match, At
  <2>2. count' = count /\ fields' = fields
    BY <1>1 DEF vars
  <2>3. QED
    BY <1>2, <1>4, <1>5, <2>1, <2>2, WorkStep

LEMMA ReadReturnInv ==
  ASSUME Inv, NEW c \in Cpu, loadValue(c) \/ readAbsent(c)
  PROVE  Inv'
<1>1. /\ vars' = vars /\ call \in [Cpu -> Call] /\ Return(c)
      /\ Busy(c) /\ ~ Appending(c)
  BY DEF loadValue, readAbsent, Inv, Typed, vars, At, Busy, Appending
<1>2. result' \in [Cpu -> Val]
  <2>1. CASE loadValue(c)
    <3>1. call[c].i \in Slot
      BY <2>1, ShadowAssumption
         DEF loadValue, At, Stands, Inv, Typed, TypeOK, Call, Slot
    <3>2. Here(c).val \in Val
      BY <3>1 DEF Here, Inv, Typed, TypeOK
    <3>3. QED
      BY <2>1, <3>2 DEF loadValue, Inv, Typed
  <2>2. CASE readAbsent(c)
    BY <2>2, ShadowAssumption DEF readAbsent, Inv, Typed
  <2>3. QED
    BY <2>1, <2>2
<1>3. /\ call' \in [Cpu -> Call]
      /\ \A d \in Cpu \ {c} : call'[d] = call[d]
      /\ Stands(c)' /\ ~ Appending(c)'
  BY <1>1, ReturnEffect
<1>4. Typed'
  BY <1>1, <1>2, <1>3 DEF Typed, TypeOK, Inv, vars
<1>5. count' = count /\ fields' = fields
  BY <1>1 DEF vars
<1>6. QED
  BY <1>1, <1>3, <1>4, <1>5, WorkStep

LEMMA DropFullInv ==
  ASSUME Inv, NEW c \in Cpu, dropFull(c)
  PROVE  Inv'
<1>1. /\ call \in [Cpu -> Call] /\ Return(c)
      /\ Busy(c) /\ ~ Appending(c)
      /\ UNCHANGED <<fields, count, launched, result>> /\ ok' = FALSE
  BY DEF dropFull, Inv, Typed, At, Busy, Appending
<1>2. /\ call' \in [Cpu -> Call]
      /\ \A d \in Cpu \ {c} : call'[d] = call[d]
      /\ Stands(c)' /\ ~ Appending(c)'
  BY <1>1, ReturnEffect
<1>3. Typed'
  BY <1>1, <1>2 DEF Typed, TypeOK, Inv
<1>4. QED
  BY <1>1, <1>2, <1>3, WorkStep

(* The store of a found slot's value.                                      *)
LEMMA StoreEffect ==
  ASSUME Inv, NEW c \in Cpu, storeValue(c)
  PROVE  /\ call[c].i \in Used /\ call[c].i \in Slot
         /\ fields[call[c].i].enc = call[c].enc
         /\ call[c].enc \in Enc /\ call[c].val \in Val
         /\ fields' \in [Slot -> [enc : Enc, val : Val]]
         /\ \A j \in Slot : fields'[j].enc = fields[j].enc
         /\ fields'[call[c].i].val = call[c].val
         /\ \A j \in Slot \ {call[c].i} : fields'[j] = fields[j]
<1>1. /\ call[c] \in Call /\ fields \in [Slot -> [enc : Enc, val : Val]]
      /\ count \in 0 .. MaxFields
  BY DEF Inv, Typed, TypeOK
<1>2. call[c].enc \in Enc /\ call[c].val \in Val /\ call[c].i \in Nat
  BY <1>1, ShadowAssumption DEF Call
<1>3. call[c].i < count /\ fields[call[c].i].enc = call[c].enc
  BY DEF Inv, Stands, storeValue, At
<1>4. call[c].i \in Used /\ call[c].i \in Slot
  BY <1>1, <1>2, <1>3, ShadowAssumption DEF Used, Slot
<1>5. fields' = [fields EXCEPT ![call[c].i] =
                   [fields[call[c].i] EXCEPT !.val = call[c].val]]
  BY DEF storeValue
<1>6. QED
  BY <1>1, <1>2, <1>3, <1>4, <1>5

LEMMA StoreInv ==
  ASSUME Inv, NEW c \in Cpu, storeValue(c)
  PROVE  Inv'
<1>1. /\ call \in [Cpu -> Call] /\ Return(c)
      /\ Busy(c) /\ ~ Appending(c)
      /\ UNCHANGED <<count, launched, result>> /\ ok' = TRUE
  BY DEF storeValue, Inv, Typed, At, Busy, Appending
<1>2. /\ call' \in [Cpu -> Call]
      /\ \A d \in Cpu \ {c} : call'[d] = call[d]
      /\ Stands(c)' /\ ~ Appending(c)'
  BY <1>1, ReturnEffect
<1>3. /\ fields' \in [Slot -> [enc : Enc, val : Val]]
      /\ \A j \in Slot : fields'[j].enc = fields[j].enc
  BY StoreEffect
<1>4. Typed'
  BY <1>1, <1>2, <1>3 DEF Typed, TypeOK, Inv
<1>5. QED
  BY <1>1, <1>2, <1>3, <1>4, WorkStep

LEMMA BeginAppendEffect ==
  ASSUME Inv, NEW c \in Cpu, beginAppend(c), ~ raced'
  PROVE  /\ call' \in [Cpu -> Call] /\ vars' = vars /\ result' = result
         /\ call[c].i = count
         /\ call'[c].op = "append" /\ call'[c].i = count
         /\ call'[c].left = {"enc", "val", "count"}
         /\ call'[c].enc = call[c].enc
         /\ count < MaxFields /\ Scanned(c)
         /\ \A d \in Cpu \ {c} : call'[d] = call[d] /\ ~ Busy(d)
         /\ Settled = Used /\ Settled' = Used
<1>1. /\ call \in [Cpu -> Call] /\ call[c] \in Call /\ count \in 0 .. MaxFields
      /\ Busy(c) /\ ~ Appending(c)
      /\ call[c].i >= count /\ count < MaxFields
      /\ vars' = vars /\ result' = result
  BY DEF beginAppend, Inv, Typed, TypeOK, At, Busy, Appending, vars
<1> DEFINE next == [call[c] EXCEPT !.op = "append", !.left = {"enc", "val", "count"}]
<1>2. call' = [call EXCEPT ![c] = next]
  BY DEF beginAppend
<1>3. call[c].i = count /\ Scanned(c)
  BY <1>1, ShadowAssumption DEF beginAppend, At, Inv, Stands, Call
<1>4. next \in Call
  BY <1>1 DEF Call
<1>5. call'[c] = next
  BY <1>1, <1>2
<1>6. /\ next.op = "append" /\ next.i = call[c].i /\ next.enc = call[c].enc
      /\ next.left = {"enc", "val", "count"}
  BY <1>1 DEF Call
<1> HIDE DEF next
<1>7. \A d \in Cpu \ {c} : call'[d] = call[d] /\ ~ Busy(d)
  BY <1>1, <1>2 DEF beginAppend
<1>8. Settled = Used
  BY <1>1, BusyAlone
<1>9. Settled' = Used
  <2>1. call'[c].op = "append" /\ call'[c].i = count /\ count \in Nat /\ count' = count
    BY <1>1, <1>3, <1>5, <1>6, ShadowAssumption DEF vars
  <2>2. \A d \in Cpu : call'[d].op = "append" => d = c
    BY <1>7 DEF Busy
  <2>3. SettledOf(count, call') = 0 .. count - 1
    BY <2>1, <2>2, OneAppends
  <2>4. QED
    BY <2>1, <2>3, SettledNext DEF Used
<1>10. call' \in [Cpu -> Call]
  BY <1>1, <1>2, <1>4
<1>11. QED
  BY <1>1, <1>3, <1>5, <1>6, <1>7, <1>8, <1>9, <1>10

LEMMA BeginAppendInv ==
  ASSUME Inv, NEW c \in Cpu, beginAppend(c), ~ raced'
  PROVE  Inv'
<1>1. /\ call' \in [Cpu -> Call] /\ result' = result
      /\ fields' = fields /\ count' = count /\ launched' = launched /\ ok' = ok
      /\ call'[c].op = "append" /\ call'[c].i = count
      /\ call'[c].left = {"enc", "val", "count"}
      /\ call'[c].enc = call[c].enc
      /\ count < MaxFields /\ Scanned(c)
      /\ \A d \in Cpu \ {c} : call'[d] = call[d] /\ ~ Busy(d)
      /\ Settled' = Settled
  BY BeginAppendEffect DEF vars
<1>2. Typed'
  BY <1>1 DEF Typed, TypeOK, Inv
<1>3. \A d \in Cpu : Stands(d)'
  <2>1. \A d \in Cpu \ {c} : Stands(d)'
    BY <1>1 DEF Busy, Stands
  <2>2. call[c].i = count
    BY BeginAppendEffect
  <2>3. Scanned(c)'
    BY <1>1, <2>2 DEF Scanned
  <2>4. Stands(c)'
    BY <1>1, <2>3 DEF Stands
  <2>5. QED
    BY <2>1, <2>4
<1>4. Alone'
  BY <1>1 DEF Alone, Appending, Busy
<1>5. Unique'
  BY <1>1 DEF Unique, Inv
<1>6. HeldSize'
  <2>1. SettledEnc' = SettledEnc
    BY <1>1 DEF SettledEnc
  <2>2. \A d \in Cpu : ~ Appending(d)
    BY BusyAlone DEF beginAppend, At, Busy, Appending
  <2>3. IsFiniteSet(SettledEnc) /\ Cardinality(SettledEnc) = count
    BY <2>2 DEF HeldSize, Inv
  <2>4. \A d \in Cpu : Appending(d)' => call'[d].i = count
    BY <1>1 DEF Appending, Busy
  <2>5. Appending(c)'
    BY <1>1 DEF Appending
  <2>6. QED
    BY <2>1, <2>3, <2>4, <2>5 DEF HeldSize
<1>7. QED
  BY <1>2, <1>3, <1>4, <1>5, <1>6 DEF Inv

(* A store of an append.                                                   *)
LEMMA AppendStoreEffect ==
  ASSUME Inv, NEW c \in Cpu, NEW x \in {"enc", "val", "count"}, appendStore(c, x)
  PROVE  /\ Appending(c) /\ x \in call[c].left /\ call[c] \in Call
         /\ call[c].i \in Slot /\ Settled = 0 .. call[c].i - 1
         /\ Settled \subseteq Slot
         /\ Scanned(c)
         /\ \A d \in Cpu \ {c} : call'[d] = call[d] /\ ~ Busy(d)
         /\ fields' \in [Slot -> [enc : Enc, val : Val]]
         /\ \A j \in Settled : fields'[j] = fields[j]
         /\ fields'[call[c].i].enc =
              IF x = "enc" THEN call[c].enc ELSE fields[call[c].i].enc
         /\ fields'[call[c].i].val =
              IF x = "val" THEN call[c].val ELSE fields[call[c].i].val
         /\ count' = IF x = "count" THEN call[c].i + 1 ELSE count
         /\ launched' = launched /\ result' = result
<1>1. /\ Appending(c) /\ x \in call[c].left /\ call[c] \in Call
      /\ call \in [Cpu -> Call]
      /\ fields \in [Slot -> [enc : Enc, val : Val]]
      /\ launched' = launched /\ result' = result
  BY DEF appendStore, At, Appending, Inv, Typed, TypeOK
<1>2. call[c].enc \in Enc /\ call[c].val \in Val /\ call[c].i \in Nat
  BY <1>1, ShadowAssumption DEF Call
<1>3. call[c].i < MaxFields /\ Scanned(c)
  BY <1>1 DEF Inv, Stands, Appending
<1>4. call[c].i \in Slot
  BY <1>2, <1>3, ShadowAssumption DEF Slot
<1>5. Settled = 0 .. call[c].i - 1 /\ \A d \in Cpu : Busy(d) => d = c
  BY <1>1, AppenderLeft
<1>6. Settled \subseteq Slot /\ call[c].i \notin Settled
  BY <1>2, <1>3, <1>5, ShadowAssumption DEF Slot
<1>7. \A d \in Cpu \ {c} : call'[d] = call[d] /\ ~ Busy(d)
  BY <1>1, <1>5 DEF appendStore
<1>8. fields' = [fields EXCEPT ![call[c].i] =
                   [enc |-> IF x = "enc" THEN call[c].enc ELSE fields[call[c].i].enc,
                    val |-> IF x = "val" THEN call[c].val ELSE fields[call[c].i].val]]
  BY DEF appendStore
<1>9. /\ fields' \in [Slot -> [enc : Enc, val : Val]]
      /\ \A j \in Settled : fields'[j] = fields[j]
      /\ fields'[call[c].i].enc =
           IF x = "enc" THEN call[c].enc ELSE fields[call[c].i].enc
      /\ fields'[call[c].i].val =
           IF x = "val" THEN call[c].val ELSE fields[call[c].i].val
  BY <1>1, <1>2, <1>4, <1>6, <1>8
<1>10. count' = IF x = "count" THEN call[c].i + 1 ELSE count
  BY DEF appendStore
<1>11. QED
  BY <1>1, <1>3, <1>4, <1>5, <1>6, <1>7, <1>9, <1>10

\* One that is not the last leaves the append under way ...
LEMMA EarlierStoreEffect ==
  ASSUME Inv, NEW c \in Cpu, NEW x \in {"enc", "val", "count"},
         appendStore(c, x), call[c].left # {x}
  PROVE  /\ call' \in [Cpu -> Call]
         /\ call'[c] = [call[c] EXCEPT !.left = call[c].left \ {x}]
         /\ Appending(c)' /\ call'[c].i = call[c].i /\ call'[c].enc = call[c].enc
         /\ call'[c].val = call[c].val /\ call'[c].left = call[c].left \ {x}
         /\ count' = IF "count" \in call'[c].left THEN call[c].i ELSE call[c].i + 1
         /\ Settled' = Settled
         /\ ok' = ok
<1> DEFINE next == [call[c] EXCEPT !.left = call[c].left \ {x}]
<1>1. /\ call \in [Cpu -> Call] /\ call[c] \in Call /\ Appending(c)
      /\ call[c].i \in Slot /\ Settled = 0 .. call[c].i - 1
      /\ \A d \in Cpu \ {c} : call'[d] = call[d] /\ ~ Busy(d)
      /\ count' = IF x = "count" THEN call[c].i + 1 ELSE count
  BY AppendStoreEffect DEF Inv, Typed
<1>2. call' = [call EXCEPT ![c] = next]
  BY DEF appendStore
<1>3. next \in Call
  BY <1>1 DEF Call
<1>4. /\ next.op = "append" /\ next.i = call[c].i /\ next.enc = call[c].enc
      /\ next.val = call[c].val /\ next.left = call[c].left \ {x}
  BY <1>1 DEF Call, Appending
<1>5. call' \in [Cpu -> Call] /\ call'[c] = next
  BY <1>1, <1>2, <1>3
<1> HIDE DEF next
<1>6. count = IF "count" \in call[c].left THEN call[c].i ELSE call[c].i + 1
  BY <1>1 DEF Inv, Stands, Appending
<1>7. count' = IF "count" \in next.left THEN call[c].i ELSE call[c].i + 1
  BY <1>1, <1>4, <1>6
<1>8. Settled' = Settled
  <2>1. \A d \in Cpu : call'[d].op = "append" => d = c
    BY <1>1 DEF Busy
  <2>2. call[c].i \in Nat
    BY <1>1, ShadowAssumption DEF Slot
  <2>3. /\ call'[c].op = "append" /\ call'[c].i = call[c].i /\ count' \in Nat
        /\ count' = call[c].i \/ count' = call[c].i + 1
    BY <1>4, <1>5, <1>7, <2>2
  <2>4. SettledOf(count', call') = 0 .. call[c].i - 1
    BY <2>1, <2>2, <2>3, OneAppends
  <2>5. QED
    BY <1>1, <2>4, SettledNext
<1>9. ok' = ok
  <2>1. ok' = (ok \/ call[c].left = {x})
    BY DEF appendStore
  <2>2. ok \in BOOLEAN
    BY DEF Inv, Typed, TypeOK
  <2>3. QED
    BY <2>1, <2>2
<1>10. Appending(c)'
  BY <1>4, <1>5 DEF Appending
<1>11. QED
  BY <1>4, <1>5, <1>7, <1>8, <1>9, <1>10 DEF next

LEMMA EarlierStoreInv ==
  ASSUME Inv, NEW c \in Cpu, NEW x \in {"enc", "val", "count"},
         appendStore(c, x), call[c].left # {x}
  PROVE  Inv'
<1>1. /\ x \in call[c].left /\ call[c].i \in Slot
      /\ Settled = 0 .. call[c].i - 1 /\ Scanned(c) /\ Appending(c)
      /\ \A d \in Cpu \ {c} : call'[d] = call[d] /\ ~ Busy(d)
      /\ fields' \in [Slot -> [enc : Enc, val : Val]]
      /\ \A j \in Settled : fields'[j] = fields[j]
      /\ launched' = launched /\ result' = result
  BY AppendStoreEffect
<1>2. /\ fields'[call[c].i].enc =
           IF x = "enc" THEN call[c].enc ELSE fields[call[c].i].enc
      /\ fields'[call[c].i].val =
           IF x = "val" THEN call[c].val ELSE fields[call[c].i].val
  BY AppendStoreEffect
<1>3. /\ call' \in [Cpu -> Call]
      /\ Appending(c)' /\ call'[c].i = call[c].i /\ call'[c].enc = call[c].enc
      /\ call'[c].val = call[c].val /\ call'[c].left = call[c].left \ {x}
      /\ count' = IF "count" \in call'[c].left THEN call[c].i ELSE call[c].i + 1
      /\ Settled' = Settled
      /\ ok' = ok
  BY EarlierStoreEffect
<1>4. Typed'
  <2>1. count' \in 0 .. MaxFields
    BY <1>1, <1>3, ShadowAssumption DEF Slot
  <2>2. launched' \in BOOLEAN /\ ok' \in BOOLEAN /\ result' \in [Cpu -> Val]
    BY <1>1, <1>3 DEF Inv, Typed, TypeOK
  <2>3. QED
    BY <1>1, <1>3, <2>1, <2>2 DEF Typed, TypeOK
<1>5. \A d \in Cpu : Stands(d)'
  <2>1. \A d \in Cpu \ {c} : Stands(d)'
    BY <1>1 DEF Busy, Stands
  <2>2. /\ "enc" \notin call[c].left => fields[call[c].i].enc = call[c].enc
        /\ "val" \notin call[c].left => fields[call[c].i].val = call[c].val
    BY <1>1 DEF Inv, Stands, Appending
  <2>3. /\ "enc" \notin call'[c].left => fields'[call[c].i].enc = call[c].enc
        /\ "val" \notin call'[c].left => fields'[call[c].i].val = call[c].val
    BY <1>2, <1>3, <2>2
  <2>4. call[c].i < MaxFields
    BY <1>1, ShadowAssumption DEF Slot
  <2>5. Scanned(c)'
    BY <1>1, <1>3 DEF Scanned
  <2>6. Stands(c)'
    BY <1>3, <2>3, <2>4, <2>5 DEF Stands, Appending
  <2>7. QED
    BY <2>1, <2>6
<1>6. Alone'
  BY <1>1 DEF Alone, Appending, Busy
<1>7. Unique'
  BY <1>1, <1>3 DEF Unique, Inv
<1>8. HeldSize'
  <2>1. SettledEnc' = SettledEnc
    BY <1>1, <1>3 DEF SettledEnc
  <2>2. IsFiniteSet(SettledEnc) /\ Cardinality(SettledEnc) = call[c].i
    BY <1>1 DEF HeldSize, Inv
  <2>3. \A d \in Cpu : Appending(d)' => d = c
    BY <1>1 DEF Appending, Busy
  <2>4. QED
    BY <1>3, <2>1, <2>2, <2>3 DEF HeldSize
<1>9. QED
  BY <1>4, <1>5, <1>6, <1>7, <1>8 DEF Inv

\* ... and the last one settles the slot.
LEMMA LastStoreEffect ==
  ASSUME Inv, NEW c \in Cpu, NEW x \in {"enc", "val", "count"},
         appendStore(c, x), call[c].left = {x}
  PROVE  /\ call' \in [Cpu -> Call] /\ call'[c] = Idle
         /\ \A d \in Cpu : ~ Busy(d)'
         /\ call[c].enc \in Enc /\ call[c].val \in Val
         /\ call[c].i \in Slot /\ count' = call[c].i + 1
         /\ Settled = 0 .. call[c].i - 1 /\ Settled' = 0 .. call[c].i
         /\ fields'[call[c].i].enc = call[c].enc
         /\ fields'[call[c].i].val = call[c].val
         /\ \A j \in Settled : fields'[j] = fields[j] /\ fields[j].enc # call[c].enc
         /\ ok' = TRUE
<1>1. /\ x \in call[c].left /\ call[c].i \in Slot /\ call[c] \in Call
      /\ Settled = 0 .. call[c].i - 1 /\ Scanned(c) /\ Appending(c)
      /\ \A d \in Cpu \ {c} : call'[d] = call[d] /\ ~ Busy(d)
      /\ \A j \in Settled : fields'[j] = fields[j]
  BY AppendStoreEffect
<1>2. /\ fields'[call[c].i].enc =
           IF x = "enc" THEN call[c].enc ELSE fields[call[c].i].enc
      /\ fields'[call[c].i].val =
           IF x = "val" THEN call[c].val ELSE fields[call[c].i].val
      /\ count' = IF x = "count" THEN call[c].i + 1 ELSE count
  BY AppendStoreEffect
<1>3. /\ "enc" \notin call[c].left => fields[call[c].i].enc = call[c].enc
      /\ "val" \notin call[c].left => fields[call[c].i].val = call[c].val
      /\ count = IF "count" \in call[c].left THEN call[c].i ELSE call[c].i + 1
  BY <1>1 DEF Inv, Stands, Appending
<1>4. /\ fields'[call[c].i].enc = call[c].enc
      /\ fields'[call[c].i].val = call[c].val
      /\ count' = call[c].i + 1
  BY <1>2, <1>3
<1>5. call' \in [Cpu -> Call] /\ call'[c] = Idle
  <2>1. call' = [call EXCEPT ![c] = Idle]
    BY DEF appendStore
  <2>2. call \in [Cpu -> Call] /\ Idle \in Call
    BY ShadowAssumption DEF Idle, Call, Inv, Typed
  <2>3. QED
    BY <2>1, <2>2
<1>6. \A d \in Cpu : ~ Busy(d)'
  BY <1>1, <1>5 DEF Busy, Idle
<1>7. Settled' = 0 .. call[c].i
  <2>1. \A d \in Cpu : call'[d].op # "append"
    BY <1>6 DEF Busy, Idle
  <2>2. SettledOf(count', call') = 0 .. count' - 1
    BY <2>1, NobodyAppends
  <2>3. QED
    BY <1>1, <1>4, <2>2, SettledNext, ShadowAssumption DEF Slot
<1>8. ok' = TRUE
  BY DEF appendStore
<1>9. call[c].enc \in Enc /\ call[c].val \in Val
  BY <1>1 DEF Call
<1>10. QED
  BY <1>1, <1>4, <1>5, <1>6, <1>7, <1>8, <1>9 DEF Scanned

LEMMA LastStoreInv ==
  ASSUME Inv, NEW c \in Cpu, NEW x \in {"enc", "val", "count"},
         appendStore(c, x), call[c].left = {x}
  PROVE  Inv'
<1>1. /\ call' \in [Cpu -> Call]
      /\ \A d \in Cpu : ~ Busy(d)'
      /\ call[c].i \in Slot /\ count' = call[c].i + 1
      /\ Settled = 0 .. call[c].i - 1 /\ Settled' = 0 .. call[c].i
      /\ fields'[call[c].i].enc = call[c].enc
      /\ \A j \in Settled : fields'[j] = fields[j] /\ fields[j].enc # call[c].enc
      /\ ok' = TRUE
  BY LastStoreEffect
<1>2. /\ fields' \in [Slot -> [enc : Enc, val : Val]] /\ Appending(c)
      /\ launched' = launched /\ result' = result
  BY AppendStoreEffect
<1>3. Settled' = Settled \cup {call[c].i} /\ call[c].i \in Nat
  BY <1>1, ShadowAssumption DEF Slot
<1>4. Typed'
  <2>1. count' \in 0 .. MaxFields
    BY <1>1, ShadowAssumption DEF Slot
  <2>2. launched' \in BOOLEAN /\ ok' \in BOOLEAN /\ result' \in [Cpu -> Val]
    BY <1>1, <1>2 DEF Inv, Typed, TypeOK
  <2>3. QED
    BY <1>1, <1>2, <2>1, <2>2 DEF Typed, TypeOK
<1>5. \A d \in Cpu : Stands(d)' /\ ~ Appending(d)'
  BY <1>1 DEF Busy, Stands, Appending
<1>6. Alone'
  BY <1>5 DEF Alone
<1>7. Unique'
  BY <1>1, <1>3 DEF Unique, Inv
<1>8. HeldSize'
  <2>1. SettledEnc' = SettledEnc \cup {call[c].enc}
    BY <1>1, <1>3 DEF SettledEnc
  <2>2. call[c].enc \notin SettledEnc
    BY <1>1 DEF SettledEnc
  <2>3. IsFiniteSet(SettledEnc) /\ Cardinality(SettledEnc) = call[c].i
    BY <1>2 DEF HeldSize, Inv
  <2>4. IsFiniteSet(SettledEnc') /\ Cardinality(SettledEnc') = call[c].i + 1
    BY <2>1, <2>2, <2>3, FS_AddElement
  <2>5. QED
    BY <1>1, <1>5, <2>4 DEF HeldSize
<1>9. QED
  BY <1>4, <1>5, <1>6, <1>7, <1>8 DEF Inv

LEMMA ResetEffect ==
  ASSUME Inv, NEW c \in Cpu, sharedReset(c), ~ raced'
  PROVE  /\ call' = call /\ fields' = fields /\ ok' = ok /\ result' = result
         /\ count' = 0 /\ launched' = FALSE
         /\ \A d \in Cpu : ~ Busy(d)
         /\ Settled' = {}
<1>1. /\ call' = call /\ fields' = fields /\ ok' = ok /\ result' = result
      /\ count' = 0 /\ launched' = FALSE
      /\ \A d \in Cpu : ~ Busy(d)
  BY DEF sharedReset, reset
<1>2. \A d \in Cpu : call'[d].op # "append"
  BY <1>1 DEF Busy
<1>3. SettledOf(count', call') = 0 .. count' - 1
  BY <1>2, NobodyAppends
<1>4. Settled' = {}
  BY <1>1, <1>3, SettledNext
<1>5. QED
  BY <1>1, <1>4

LEMMA ResetInv ==
  ASSUME Inv, NEW c \in Cpu, sharedReset(c), ~ raced'
  PROVE  Inv'
<1>1. /\ call' = call /\ fields' = fields /\ ok' = ok /\ result' = result
      /\ count' = 0 /\ launched' = FALSE
      /\ \A d \in Cpu : ~ Busy(d)
      /\ Settled' = {}
  BY ResetEffect
<1>2. Typed'
  <2>1. count' \in 0 .. MaxFields
    BY <1>1, ShadowAssumption
  <2>2. QED
    BY <1>1, <2>1 DEF Typed, TypeOK, Inv
<1>3. \A d \in Cpu : Stands(d)' /\ ~ Appending(d)'
  BY <1>1 DEF Busy, Stands, Appending
<1>4. Alone' /\ Unique'
  BY <1>1, <1>3 DEF Alone, Unique
<1>5. HeldSize'
  <2>1. SettledEnc' = {}
    BY <1>1 DEF SettledEnc
  <2>2. QED
    BY <1>1, <1>3, <2>1, FS_EmptySet DEF HeldSize
<1>6. QED
  BY <1>2, <1>3, <1>4, <1>5 DEF Inv

\* Steps that leave the slots and the calls alone.
LEMMA AsideInv ==
  ASSUME Inv, UNCHANGED <<fields, count, ok, call, result>>, launched' \in BOOLEAN
  PROVE  Inv'
<1>1. Settled' = Settled
  BY SettledNow, SettledNext
<1>2. Typed'
  BY DEF Typed, TypeOK, Inv
<1>3. \A d \in Cpu : Stands(d)'
  BY DEF Stands, Scanned, Inv
<1>4. Alone' /\ Unique'
  BY <1>1 DEF Alone, Unique, Appending, Busy, Inv
<1>5. HeldSize'
  <2>1. SettledEnc' = SettledEnc
    BY <1>1 DEF SettledEnc
  <2>2. QED
    BY <2>1 DEF HeldSize, Inv, Appending
<1>6. QED
  BY <1>2, <1>3, <1>4, <1>5 DEF Inv

LEMMA RacedTyped ==
  ASSUME raced \in BOOLEAN, [SharedNext]_sharedVars
  PROVE  raced' \in BOOLEAN /\ (raced => raced')
<1>1. CASE UNCHANGED sharedVars
  BY <1>1 DEF sharedVars
<1>2. ASSUME NEW c \in Cpu,
             \/ \E e \in Enc : begin(c, "read", e, Zero)
             \/ \E e \in Enc, v \in Val : begin(c, "write", e, v)
      PROVE  raced' \in BOOLEAN /\ (raced => raced')
  BY <1>2 DEF begin
<1>3. ASSUME NEW c \in Cpu,
             \/ advance(c) \/ match(c) \/ loadValue(c) \/ readAbsent(c)
             \/ storeValue(c) \/ dropFull(c)
             \/ \E x \in {"enc", "val", "count"} : appendStore(c, x)
             \/ \E b \in BOOLEAN : sharedSetLaunched(c, b)
      PROVE  raced' = raced
  BY <1>3 DEF advance, match, loadValue, readAbsent, storeValue, dropFull,
              appendStore, sharedSetLaunched
<1>4. ASSUME NEW c \in Cpu, beginAppend(c) \/ sharedReset(c)
      PROVE  raced' \in BOOLEAN /\ (raced => raced')
  BY <1>4 DEF beginAppend, sharedReset
<1>5. QED
  BY <1>1, <1>2, <1>3, <1>4 DEF SharedNext

LEMMA StepIInv == IInv /\ [SharedNext]_sharedVars => IInv'
<1>1. SUFFICES ASSUME IInv, [SharedNext]_sharedVars, ~ raced'
               PROVE  Inv'
  BY RacedTyped DEF IInv
<1>2. Inv
  BY <1>1, RacedTyped DEF IInv
<1>3. CASE UNCHANGED sharedVars
  <2>1. UNCHANGED <<fields, count, ok, call, result>> /\ launched' = launched
    BY <1>3 DEF sharedVars, vars
  <2>2. launched \in BOOLEAN
    BY <1>2 DEF Inv, Typed, TypeOK
  <2>3. QED
    BY <1>2, <2>1, <2>2, AsideInv
<1>4. ASSUME NEW c \in Cpu, NEW e \in Enc, begin(c, "read", e, Zero)
      PROVE  Inv'
  BY <1>1, <1>2, <1>4, BeginInv, ShadowAssumption
<1>5. ASSUME NEW c \in Cpu, NEW e \in Enc, NEW v \in Val, begin(c, "write", e, v)
      PROVE  Inv'
  BY <1>1, <1>2, <1>5, BeginInv
<1>6. ASSUME NEW c \in Cpu,
             \/ advance(c) \/ match(c) \/ loadValue(c) \/ readAbsent(c)
             \/ storeValue(c) \/ dropFull(c)
      PROVE  Inv'
  BY <1>2, <1>6, AdvanceInv, MatchInv, ReadReturnInv, StoreInv, DropFullInv
<1>7. ASSUME NEW c \in Cpu, beginAppend(c)
      PROVE  Inv'
  BY <1>1, <1>2, <1>7, BeginAppendInv
<1>8. ASSUME NEW c \in Cpu, NEW x \in {"enc", "val", "count"}, appendStore(c, x)
      PROVE  Inv'
  BY <1>2, <1>8, EarlierStoreInv, LastStoreInv
<1>9. ASSUME NEW c \in Cpu, sharedReset(c)
      PROVE  Inv'
  BY <1>1, <1>2, <1>9, ResetInv
<1>10. ASSUME NEW c \in Cpu, NEW b \in BOOLEAN, sharedSetLaunched(c, b)
       PROVE  Inv'
  <2>1. UNCHANGED <<fields, count, ok, call, result>> /\ launched' = b
    BY <1>10 DEF sharedSetLaunched, setLaunched
  <2>2. QED
    BY <1>2, <2>1, AsideInv
<1>11. QED
  BY <1>1, <1>3, <1>4, <1>5, <1>6, <1>7, <1>8, <1>9, <1>10 DEF SharedNext

LEMMA AlwaysIInv == SharedSpec => []IInv
  BY InitIInv, StepIInv, PTL DEF SharedSpec

(* Until a race the shadow VMCS keeps its types, count never passes the    *)
(* end of the array and every scan stays within it, however the calls of   *)
(* the processors interleave.                                              *)
THEOREM SharedTypeCorrect == SharedSpec => []SharedTypeOK
<1>1. IInv => SharedTypeOK
  BY DEF IInv, Inv, Typed, SharedTypeOK
<1>2. QED
  BY <1>1, AlwaysIInv, PTL

------------------------------------------------------------------------------
\* Reads

(* As long as no append and no reset has overlapped another call, a read   *)
(* that overlaps other calls returns what the memory holds at its last     *)
(* load, for any number of processors.                                     *)
THEOREM ReadsCurrentHolds == SharedSpec => ReadsCurrent
<1> DEFINE Returned(c) == result'[c] = Contents[call[c].enc]
<1>1. ASSUME IInv, SharedNext, ~ raced,
             NEW c \in Cpu, At(c, {"read", "load"}), call'[c] = Idle
      PROVE  Returned(c)
  <2>1. /\ Inv /\ Busy(c) /\ ~ Appending(c) /\ call[c] \in Call
        /\ call[c].enc \in Enc /\ result \in [Cpu -> Val]
    BY <1>1 DEF IInv, Inv, Typed, At, Busy, Appending, Call
  <2>2. Settled = Used /\ Used \subseteq Nat
    BY <2>1, BusyAlone DEF Used
  <2>3. Contents[call[c].enc] = Found(fields, Used, call[c].enc)
    BY <2>1, <2>2, ContentsFound
  <2>4. CASE loadValue(c)
    <3>1. call[c].i \in Used /\ fields[call[c].i].enc = call[c].enc
      BY <2>1, <2>4, ShadowAssumption
         DEF loadValue, At, Inv, Stands, Typed, TypeOK, Call, Used
    <3>2. \A j \in Used : fields[j].enc = fields[call[c].i].enc => j = call[c].i
      BY <2>1, <2>2, <3>1 DEF Inv, Unique
    <3>3. Found(fields, Used, fields[call[c].i].enc) = fields[call[c].i].val
      BY <2>2, <3>1, <3>2, FoundAt
    <3>4. result'[c] = fields[call[c].i].val
      BY <2>1, <2>4 DEF loadValue, Here
    <3>5. QED
      BY <2>3, <3>1, <3>3, <3>4
  <2>5. CASE readAbsent(c)
    <3>1. \A j \in Used : fields[j].enc # call[c].enc
      BY <2>1, <2>5, ShadowAssumption
         DEF readAbsent, At, Inv, Stands, Scanned, Typed, TypeOK, Call, Used
    <3>2. Found(fields, Used, call[c].enc) = Zero
      BY <3>1, FoundNowhere
    <3>3. result'[c] = Zero
      BY <2>1, <2>5 DEF readAbsent
    <3>4. QED
      BY <2>3, <3>2, <3>3
  <2>6. loadValue(c) \/ readAbsent(c)
    <3>1. call[c].op \in {"read", "load"} /\ call \in [Cpu -> Call] /\ call[c] # Idle
      BY <1>1, <2>1 DEF Inv, Typed, At, Idle
    <3>2. ASSUME NEW d \in Cpu, d # c,
                 \/ \E e \in Enc : begin(d, "read", e, Zero)
                 \/ \E e \in Enc, v \in Val : begin(d, "write", e, v)
                 \/ advance(d) \/ match(d) \/ loadValue(d) \/ readAbsent(d)
                 \/ storeValue(d) \/ dropFull(d) \/ beginAppend(d)
                 \/ \E x \in {"enc", "val", "count"} : appendStore(d, x)
          PROVE  FALSE
      BY <1>1, <3>1, <3>2
         DEF begin, advance, match, loadValue, readAbsent, storeValue, dropFull,
             beginAppend, appendStore, Goto, Return
    <3>3. ASSUME NEW d \in Cpu,
                 sharedReset(d) \/ \E b \in BOOLEAN : sharedSetLaunched(d, b)
          PROVE  FALSE
      BY <1>1, <3>1, <3>3 DEF sharedReset, sharedSetLaunched
    <3>4. /\ ~ \E e \in Enc : begin(c, "read", e, Zero)
          /\ ~ \E e \in Enc, v \in Val : begin(c, "write", e, v)
          /\ ~ storeValue(c) /\ ~ dropFull(c) /\ ~ beginAppend(c)
          /\ ~ \E x \in {"enc", "val", "count"} : appendStore(c, x)
      BY <2>1, <3>1
         DEF begin, storeValue, dropFull, beginAppend, appendStore, At
    <3>5. ~ advance(c)
      <4>1. advance(c) => call'[c].op = call[c].op
        BY <2>1, <3>1 DEF advance, Call
      <4>2. QED
        BY <1>1, <3>1, <4>1 DEF Idle
    <3>6. ~ match(c)
      <4>1. match(c) => call'[c].op \in {"load", "store"}
        BY <2>1, <3>1 DEF match, Goto, Call
      <4>2. call'[c].op = "idle"
        BY <1>1 DEF Idle
      <4>3. QED
        BY <4>1, <4>2
    <3>7. QED
      BY <1>1, <3>2, <3>3, <3>4, <3>5, <3>6 DEF SharedNext
  <2>7. QED
    BY <2>4, <2>5, <2>6
<1>2. ASSUME IInv, UNCHANGED sharedVars,
             NEW c \in Cpu, At(c, {"read", "load"}), call'[c] = Idle
      PROVE  FALSE
  BY <1>2 DEF sharedVars, At, Idle
<1>3. IInv /\ [SharedNext]_sharedVars =>
        [\A c \in Cpu :
           At(c, {"read", "load"}) /\ call'[c] = Idle /\ ~ raced =>
             result'[c] = Contents[call[c].enc]]_sharedVars
  BY <1>1, <1>2
<1>4. QED
  BY <1>3, AlwaysIInv, PTL DEF SharedSpec, ReadsCurrent

------------------------------------------------------------------------------
\* The memory of VmcsStore

(* A slot i that is written, new or not, changes what is found of its own  *)
(* encoding only.  f is the array before the write, g the one after it.    *)
Written(f, g, S, i) ==
  /\ S \in SUBSET Nat /\ i \in Nat
  /\ \A j \in S \ {i} : g[j] = f[j] /\ f[j].enc # g[i].enc
  /\ i \in S => f[i].enc = g[i].enc
  /\ \A j, k \in S : f[j].enc = f[k].enc => j = k

LEMMA FoundWrite ==
  ASSUME NEW f, NEW g, NEW S, NEW i, Written(f, g, S, i)
  PROVE  \A e : Found(g, S \cup {i}, e) =
                  IF e = g[i].enc THEN g[i].val ELSE Found(f, S, e)
<1> USE DEF Written
<1> TAKE e
<1>1. CASE e = g[i].enc
  <2>1. \A j \in S \cup {i} : g[j].enc = g[i].enc => j = i
    OBVIOUS
  <2>2. Found(g, S \cup {i}, g[i].enc) = g[i].val
    BY <2>1, FoundAt
  <2>3. QED
    BY <1>1, <2>2
<1>2. ASSUME e # g[i].enc, NEW k \in S, f[k].enc = e
      PROVE  Found(g, S \cup {i}, e) = Found(f, S, e)
  <2>1. k # i /\ g[k] = f[k]
    BY <1>2
  <2>2. \A j \in S \cup {i} : g[j].enc = g[k].enc => j = k
    BY <1>2, <2>1
  <2>3. Found(g, S \cup {i}, g[k].enc) = g[k].val
    BY <2>2, FoundAt
  <2>4. Found(f, S, f[k].enc) = f[k].val
    BY FoundAt
  <2>5. QED
    BY <1>2, <2>1, <2>3, <2>4
<1>3. ASSUME e # g[i].enc, \A k \in S : f[k].enc # e
      PROVE  Found(g, S \cup {i}, e) = Found(f, S, e)
  <2>1. PICK T : T = S \cup {i}
    OBVIOUS
  <2>2. \A k \in T : g[k].enc # e
    BY <1>3, <2>1
  <2>3. Found(g, T, e) = Zero
    BY ONLY <2>2, FoundNowhere
  <2>4. Found(f, S, e) = Zero
    BY ONLY <1>3, FoundNowhere
  <2>5. QED
    BY <2>1, <2>3, <2>4
<1>4. QED
  BY <1>1, <1>2, <1>3

LEMMA ContentsNext == Contents' = [e \in Enc |-> Found(fields', Settled', e)]
  BY DEF Contents, Found

LEMMA SameCardinality == ASSUME NEW S PROVE Memory!Cardinality(S) = Cardinality(S)
  BY Zenon DEF Memory!Cardinality, Cardinality

LEMMA SettledNat == Inv => Settled \in SUBSET Nat
  BY DEF Settled, Used

LEMMA InitStore == SharedInit => Memory!StoreInit
<1>1. SUFFICES ASSUME SharedInit PROVE Memory!StoreInit
  OBVIOUS
<1>2. Settled = {}
  BY <1>1 DEF SharedInit, Init, Settled, Used
<1>3. Contents = [e \in Enc |-> Zero]
  BY <1>2, ContentsFound, FoundNowhere
<1>4. QED
  BY <1>1, <1>2, <1>3 DEF Memory!StoreInit, SharedInit, Init

\* Steps that change no settled slot.
LEMMA SettledSame ==
  ASSUME Inv, Settled' = Settled, \A j \in Settled : fields'[j] = fields[j]
  PROVE  /\ Contents' = Contents
         /\ {fields'[i].enc : i \in Settled'} = {fields[i].enc : i \in Settled}
<1>1. \A e \in Enc : Found(fields, Settled, e) = Found(fields', Settled, e)
  <2>1. \A i, j \in Settled : fields[i].enc = fields[j].enc => i = j
    BY DEF Inv, Unique
  <2>2. QED
    BY <2>1, SettledNat, FoundSame
<1>2. QED
  BY <1>1, ContentsFound, ContentsNext

LEMMA StutterRefines ==
  ASSUME Inv, Settled' = Settled, \A j \in Settled : fields'[j] = fields[j],
         launched' = launched, ok' = ok
  PROVE  UNCHANGED Memory!storeVars
  BY SettledSame DEF Memory!storeVars

\* Steps of a call that come to no append and store nothing.
LEMMA WorkSettled ==
  ASSUME Inv, NEW c \in Cpu, Busy(c), ~ Appending(c), ~ Appending(c)',
         \A d \in Cpu \ {c} : call'[d] = call[d], count' = count
  PROVE  Settled' = Settled /\ Settled = Used
<1>1. (\A d \in Cpu : ~ Appending(d)) /\ Settled = Used
  BY BusyAlone
<1>2. \A d \in Cpu : call'[d].op # "append"
  BY <1>1 DEF Appending
<1>3. SettledOf(count', call') = 0 .. count' - 1
  BY <1>2, NobodyAppends
<1>4. QED
  BY <1>1, <1>3, SettledNext DEF Used

LEMMA LookRefines ==
  ASSUME Inv, NEW c \in Cpu,
         advance(c) \/ match(c) \/ loadValue(c) \/ readAbsent(c)
  PROVE  UNCHANGED Memory!storeVars
<1>1. /\ call \in [Cpu -> Call] /\ call[c] \in Call
      /\ Busy(c) /\ ~ Appending(c)
      /\ fields' = fields /\ count' = count /\ launched' = launched /\ ok' = ok
  BY DEF Inv, Typed, advance, match, loadValue, readAbsent, At, Busy, Appending, vars
<1>2. CASE advance(c)
  BY <1>1, <1>2, WorkSettled, StutterRefines DEF advance, Call, Appending
<1>3. CASE match(c)
  BY <1>1, <1>3, WorkSettled, StutterRefines DEF match, Goto, Call, Appending
<1>4. CASE loadValue(c) \/ readAbsent(c)
  <2>1. Return(c)
    BY <1>4 DEF loadValue, readAbsent
  <2>2. QED
    BY <1>1, <2>1, ReturnEffect, WorkSettled, StutterRefines
<1>5. QED
  BY <1>2, <1>3, <1>4

LEMMA BeginRefines ==
  ASSUME Inv, NEW c \in Cpu, NEW op \in {"read", "write"},
         NEW e \in Enc, NEW v \in Val, begin(c, op, e, v), ~ raced'
  PROVE  UNCHANGED Memory!storeVars
<1>1. /\ call' = [call EXCEPT ![c] = [Idle EXCEPT !.op = op, !.enc = e, !.val = v]]
      /\ call \in [Cpu -> Call] /\ \A d \in Cpu : call[d].op # "append"
      /\ fields' = fields /\ count' = count /\ launched' = launched /\ ok' = ok
  BY DEF begin, Inv, Typed, vars, At
<1>2. \A d \in Cpu : call'[d].op # "append"
  BY <1>1 DEF Idle
<1>3. Settled' = Settled
  BY <1>1, <1>2, NobodyAppends, SettledNow, SettledNext
<1>4. QED
  BY <1>1, <1>3, StutterRefines

LEMMA StoreRefines ==
  ASSUME Inv, NEW c \in Cpu, storeValue(c)
  PROVE  Memory!StoreNext
<1>0. PICK i, e, v : i = call[c].i /\ e = call[c].enc /\ v = call[c].val
  OBVIOUS
<1>1. /\ call \in [Cpu -> Call] /\ Return(c)
      /\ Busy(c) /\ ~ Appending(c)
      /\ UNCHANGED <<count, launched>> /\ ok' = TRUE
  BY DEF storeValue, Inv, Typed, At, Busy, Appending
<1>2. Settled' = Settled /\ Settled = Used
  BY <1>1, ReturnEffect, WorkSettled
<1>3. /\ i \in Used /\ i \in Slot /\ fields[i].enc = e /\ e \in Enc /\ v \in Val
      /\ \A j \in Slot : fields'[j].enc = fields[j].enc
      /\ fields'[i].val = v
      /\ \A j \in Slot \ {i} : fields'[j] = fields[j]
  BY <1>0, StoreEffect
<1>4. Used \subseteq Slot /\ Used \in SUBSET Nat
  BY ShadowAssumption DEF Used, Slot, Inv, Typed, TypeOK
<1>5. \A j, k \in Used : fields[j].enc = fields[k].enc => j = k
  BY <1>2 DEF Inv, Unique
<1>6. \A x \in Enc : Found(fields', Used, x) = IF x = e THEN v ELSE Found(fields, Used, x)
  <2>1. \A j \in Used \ {i} : fields'[j] = fields[j] /\ fields[j].enc # fields'[i].enc
    BY <1>3, <1>4, <1>5
  <2>2. i \in Nat /\ Used \cup {i} = Used /\ fields[i].enc = fields'[i].enc
    BY <1>3, <1>4
  <2>3. Written(fields, fields', Used, i)
    BY <1>4, <1>5, <2>1, <2>2 DEF Written
  <2>4. \A x : Found(fields', Used \cup {i}, x) =
                  IF x = fields'[i].enc THEN fields'[i].val ELSE Found(fields, Used, x)
    BY <2>3, FoundWrite
  <2>5. QED
    BY <1>3, <2>2, <2>4
<1>7. Contents' = [Contents EXCEPT ![e] = v]
  BY <1>2, <1>6, ContentsFound, ContentsNext
<1>8. /\ {fields'[j].enc : j \in Settled'} = {fields[j].enc : j \in Settled}
      /\ e \in {fields[j].enc : j \in Settled}
  BY <1>2, <1>3, <1>4
<1>9. Memory!StoreWrite(e, v)
  BY <1>1, <1>7, <1>8 DEF Memory!StoreWrite
<1>10. QED
  BY <1>3, <1>9 DEF Memory!StoreNext

LEMMA DropRefines ==
  ASSUME Inv, NEW c \in Cpu, dropFull(c)
  PROVE  Memory!StoreNext
<1>1. /\ call \in [Cpu -> Call] /\ Return(c) /\ call[c] \in Call
      /\ Busy(c) /\ ~ Appending(c)
      /\ UNCHANGED <<fields, count, launched>> /\ ok' = FALSE
  BY DEF dropFull, Inv, Typed, At, Busy, Appending
<1>2. Settled' = Settled /\ Settled = Used
  BY <1>1, ReturnEffect, WorkSettled
<1>3. /\ Contents' = Contents
      /\ {fields'[i].enc : i \in Settled'} = {fields[i].enc : i \in Settled}
  BY <1>1, <1>2, SettledSame
<1>4. call[c].enc \notin SettledEnc /\ call[c].enc \in Enc
  BY <1>1, <1>2, ShadowAssumption
     DEF dropFull, At, Inv, Stands, Scanned, SettledEnc, Used, Typed, TypeOK, Call
<1>5. Memory!Cardinality(SettledEnc) >= MaxFields
  <2>1. Cardinality(SettledEnc) = count
    BY <1>1, BusyAlone DEF HeldSize, Inv
  <2>2. count >= MaxFields
    BY DEF dropFull
  <2>3. QED
    BY <2>1, <2>2, SameCardinality
<1>6. Memory!StoreRefuse(call[c].enc)
  BY <1>1, <1>3, <1>4, <1>5 DEF Memory!StoreRefuse, SettledEnc
<1>7. QED
  BY <1>4, <1>6 DEF Memory!StoreNext

LEMMA LastStoreRefines ==
  ASSUME Inv, NEW c \in Cpu, NEW x \in {"enc", "val", "count"},
         appendStore(c, x), call[c].left = {x}
  PROVE  Memory!StoreNext
<1>0. PICK i, e, v : i = call[c].i /\ e = call[c].enc /\ v = call[c].val
  OBVIOUS
<1>1. /\ e \in Enc /\ v \in Val /\ i \in Slot
      /\ Settled = 0 .. i - 1 /\ Settled' = 0 .. i
      /\ fields'[i].enc = e /\ fields'[i].val = v
      /\ \A j \in Settled : fields'[j] = fields[j] /\ fields[j].enc # e
      /\ ok' = TRUE
  BY <1>0, LastStoreEffect
<1>2. Appending(c) /\ launched' = launched
  BY AppendStoreEffect
<1>3. Cardinality(SettledEnc) = i
  BY <1>0, <1>2 DEF HeldSize, Inv
<1>4. /\ i \in Nat /\ i < MaxFields
      /\ Settled' = Settled \cup {i} /\ i \notin Settled /\ Settled \in SUBSET Nat
  BY <1>1, ShadowAssumption DEF Slot
<1>5. \A y \in Enc : Found(fields', Settled', y) =
                        IF y = e THEN v ELSE Found(fields, Settled, y)
  <2>1. \A j \in Settled \ {i} : fields'[j] = fields[j] /\ fields[j].enc # fields'[i].enc
    BY <1>1
  <2>2. \A j, k \in Settled : fields[j].enc = fields[k].enc => j = k
    BY DEF Inv, Unique
  <2>3. i \in Nat /\ Settled \in SUBSET Nat
    BY <1>4
  <2>4. i \in Settled => fields[i].enc = fields'[i].enc
    BY <1>4
  <2>5. Written(fields, fields', Settled, i)
    BY <2>1, <2>2, <2>3, <2>4 DEF Written
  <2>6. \A y : Found(fields', Settled \cup {i}, y) =
                  IF y = fields'[i].enc THEN fields'[i].val ELSE Found(fields, Settled, y)
    BY <2>5, FoundWrite
  <2>7. QED
    BY <1>1, <1>4, <2>6
<1>6. Contents' = [Contents EXCEPT ![e] = v]
  BY <1>5, ContentsFound, ContentsNext
<1>7. {fields'[j].enc : j \in Settled'} = {fields[j].enc : j \in Settled} \cup {e}
  BY <1>1, <1>4
<1>8. Memory!Cardinality(SettledEnc) < MaxFields
  BY <1>3, <1>4, SameCardinality
<1>9. Memory!StoreWrite(e, v)
  BY <1>1, <1>2, <1>6, <1>7, <1>8 DEF Memory!StoreWrite, SettledEnc
<1>10. QED
  BY <1>1, <1>9 DEF Memory!StoreNext

LEMMA ResetRefines ==
  ASSUME Inv, NEW c \in Cpu, sharedReset(c), ~ raced'
  PROVE  Memory!StoreNext
<1>1. Settled' = {} /\ launched' = FALSE /\ ok' = ok
  BY ResetEffect
<1>2. \A e \in Enc : Found(fields', Settled', e) = Zero
  BY <1>1, FoundNowhere
<1>3. Contents' = [e \in Enc |-> Zero]
  BY <1>2, ContentsNext
<1>4. QED
  BY <1>1, <1>3 DEF Memory!StoreNext, Memory!StoreReset

LEMMA SetLaunchedRefines ==
  ASSUME Inv, NEW c \in Cpu, NEW b \in BOOLEAN, sharedSetLaunched(c, b)
  PROVE  Memory!StoreNext
<1>1. UNCHANGED <<fields, count, ok, call>> /\ launched' = b
  BY DEF sharedSetLaunched, setLaunched
<1>2. Settled' = Settled
  BY <1>1, SettledNow, SettledNext
<1>3. Memory!StoreSetLaunched(b)
  BY <1>1, <1>2, SettledSame DEF Memory!StoreSetLaunched
<1>4. QED
  BY <1>3 DEF Memory!StoreNext

LEMMA StepRefines ==
  IInv /\ [SharedNext]_sharedVars =>
    [raced' \/ Memory!StoreNext]_(Memory!storeVars)
<1>1. SUFFICES ASSUME IInv, [SharedNext]_sharedVars, ~ raced'
               PROVE  Memory!StoreNext \/ UNCHANGED Memory!storeVars
  OBVIOUS
<1>2. Inv
  BY <1>1, RacedTyped DEF IInv
<1>3. CASE UNCHANGED sharedVars
  <2>1. UNCHANGED <<fields, count, launched, ok, call>>
    BY <1>3 DEF sharedVars, vars
  <2>2. Settled' = Settled
    BY <2>1, SettledNow, SettledNext
  <2>3. QED
    BY <1>2, <2>1, <2>2, StutterRefines
<1>4. ASSUME NEW c \in Cpu, NEW e \in Enc, begin(c, "read", e, Zero)
      PROVE  UNCHANGED Memory!storeVars
  BY <1>1, <1>2, <1>4, BeginRefines, ShadowAssumption
<1>5. ASSUME NEW c \in Cpu, NEW e \in Enc, NEW v \in Val, begin(c, "write", e, v)
      PROVE  UNCHANGED Memory!storeVars
  BY <1>1, <1>2, <1>5, BeginRefines
<1>6. ASSUME NEW c \in Cpu,
             advance(c) \/ match(c) \/ loadValue(c) \/ readAbsent(c)
      PROVE  UNCHANGED Memory!storeVars
  BY <1>2, <1>6, LookRefines
<1>7. ASSUME NEW c \in Cpu, storeValue(c) \/ dropFull(c)
      PROVE  Memory!StoreNext
  BY <1>2, <1>7, StoreRefines, DropRefines
<1>8. ASSUME NEW c \in Cpu, beginAppend(c)
      PROVE  UNCHANGED Memory!storeVars
  <2>1. UNCHANGED <<fields, launched, ok>> /\ Settled' = Settled
    BY <1>1, <1>2, <1>8, BeginAppendEffect DEF vars
  <2>2. QED
    BY <1>2, <2>1, StutterRefines
<1>9. ASSUME NEW c \in Cpu, NEW x \in {"enc", "val", "count"}, appendStore(c, x)
      PROVE  Memory!StoreNext \/ UNCHANGED Memory!storeVars
  <2>1. CASE call[c].left = {x}
    BY <1>2, <1>9, <2>1, LastStoreRefines
  <2>2. CASE call[c].left # {x}
    <3>1. /\ Settled' = Settled /\ ok' = ok /\ launched' = launched
          /\ \A j \in Settled : fields'[j] = fields[j]
      BY <1>2, <1>9, <2>2, EarlierStoreEffect, AppendStoreEffect
    <3>2. QED
      BY <1>2, <3>1, StutterRefines
  <2>3. QED
    BY <2>1, <2>2
<1>10. ASSUME NEW c \in Cpu, sharedReset(c)
       PROVE  Memory!StoreNext
  BY <1>1, <1>2, <1>10, ResetRefines
<1>11. ASSUME NEW c \in Cpu, NEW b \in BOOLEAN, sharedSetLaunched(c, b)
       PROVE  Memory!StoreNext
  BY <1>2, <1>11, SetLaunchedRefines
<1>12. QED
  BY <1>1, <1>3, <1>4, <1>5, <1>6, <1>7, <1>8, <1>9, <1>10, <1>11 DEF SharedNext

(* For any number of processors, encodings and slots: as long as no append *)
(* and no reset overlaps another call, every call is one step of the       *)
(* memory of VmcsStore, at a moment between its begin and its return.      *)
THEOREM SafeSharingHolds == SharedSpec => SafeSharing
  BY InitStore, StepRefines, AlwaysIInv, PTL DEF SharedSpec, SafeSharing
==============================================================================
