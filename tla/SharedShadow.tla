----------------------------- MODULE SharedShadow -----------------------------
(***************************************************************************)
(* The one ShadowVMCS of the emulator under VMREADs and VMWRITEs of        *)
(* several processors at once.  Nothing in the source excludes them, and   *)
(* nothing orders them: here every turn of the scan and every load or      *)
(* store of a value is a step of its own, and the three stores of an       *)
(* append come in any order, as a compiler may emit them.  Loads and       *)
(* stores of a member are atomic.                                          *)
(*                                                                         *)
(* A turn loads count and the encoding of one slot in one step (advance,   *)
(* match).  Loading them apart shows nothing more before a race: count     *)
(* only grows, and a slot below it keeps its encoding.                     *)
(*                                                                         *)
(* raced tells when an append or a reset has overlapped another call.      *)
(* From then on the source promises nothing - writes are lost, an encoding *)
(* may sit in two slots, and two appends to the last slot run past the     *)
(* array - and neither does this module.  Before it, the overlap of reads  *)
(* and writes of any encodings must be harmless.                           *)
(***************************************************************************)
EXTENDS ShadowVMCS

CONSTANT Cpu

VARIABLES
  call,    \* of each processor: [op, enc, val, i, left]
  result,  \* what its last read() returned
  raced    \* history

sharedVars == <<vars, call, result, raced>>

Idle == [op |-> "idle", enc |-> ZeroEnc, val |-> Zero, i |-> 0, left |-> {}]

Call == [op : {"idle", "read", "load", "write", "store", "append"},
         enc : Enc, val : Val, i : 0 .. MaxFields,
         left : SUBSET {"enc", "val", "count"}]

SharedTypeOK ==
  /\ raced \in BOOLEAN
  /\ ~ raced =>
       /\ TypeOK
       /\ call \in [Cpu -> Call]
       /\ result \in [Cpu -> Val]

SharedInit ==
  /\ Init
  /\ call = [c \in Cpu |-> Idle]
  /\ result = [c \in Cpu |-> Zero]
  /\ raced = FALSE

Busy(c)    == call[c].op # "idle"
At(c, ops) == call[c].op \in ops
Here(c)    == fields[call[c].i]

Goto(c, op) == call' = [call EXCEPT ![c].op = op]
Return(c)   == call' = [call EXCEPT ![c] = Idle]

begin(c, op, e, v) ==
  /\ ~ Busy(c)
  /\ call' = [call EXCEPT ![c] = [Idle EXCEPT !.op = op, !.enc = e, !.val = v]]
  /\ raced' = (raced \/ \E d \in Cpu : At(d, {"append"}))
  /\ UNCHANGED <<vars, result>>

\* One turn of the loop, common to read() and write().
advance(c) ==
  /\ At(c, {"read", "write"})
  /\ call[c].i < count
  /\ Here(c).enc # call[c].enc
  /\ call' = [call EXCEPT ![c].i = @ + 1]
  /\ UNCHANGED <<vars, result, raced>>

match(c) ==
  /\ At(c, {"read", "write"})
  /\ call[c].i < count
  /\ Here(c).enc = call[c].enc
  /\ Goto(c, IF At(c, {"read"}) THEN "load" ELSE "store")
  /\ UNCHANGED <<vars, result, raced>>

loadValue(c) ==
  /\ At(c, {"load"})
  /\ result' = [result EXCEPT ![c] = Here(c).val]
  /\ Return(c)
  /\ UNCHANGED <<vars, raced>>

readAbsent(c) ==
  /\ At(c, {"read"})
  /\ call[c].i >= count
  /\ result' = [result EXCEPT ![c] = Zero]
  /\ Return(c)
  /\ UNCHANGED <<vars, raced>>

\* Mutant: a slot that was found moves to the front, to be found sooner.
MoveToFront(c) ==
  /\ At(c, {"store"})
  /\ fields' = [fields EXCEPT ![call[c].i] = fields[0],
                              ![0] = [enc |-> call[c].enc, val |-> call[c].val]]
  /\ ok' = TRUE
  /\ Return(c)
  /\ UNCHANGED <<count, launched, result, raced>>

storeValue(c) ==
  /\ At(c, {"store"})
  /\ fields' = [fields EXCEPT ![call[c].i].val = call[c].val]
  /\ ok' = TRUE
  /\ Return(c)
  /\ UNCHANGED <<count, launched, result, raced>>

\* Mutant: the last slot is never used.
RefuseEarly(c) ==
  /\ At(c, {"write"})
  /\ call[c].i >= count /\ count + 1 >= MaxFields
  /\ ok' = FALSE
  /\ Return(c)
  /\ UNCHANGED <<fields, count, launched, result, raced>>

dropFull(c) ==
  /\ At(c, {"write"})
  /\ call[c].i >= count /\ count >= MaxFields
  /\ ok' = FALSE
  /\ Return(c)
  /\ UNCHANGED <<fields, count, launched, result, raced>>

\* Mutant: appended to whether there is room or not.
AppendWhenFull(c) ==
  /\ At(c, {"write"})
  /\ call[c].i >= count
  /\ call' = [call EXCEPT ![c].op = "append", ![c].left = {"enc", "val", "count"}]
  /\ raced' = (raced \/ \E d \in Cpu \ {c} : Busy(d))
  /\ UNCHANGED <<vars, result>>

beginAppend(c) ==
  /\ At(c, {"write"})
  /\ call[c].i >= count /\ count < MaxFields
  /\ call' = [call EXCEPT ![c].op = "append", ![c].left = {"enc", "val", "count"}]
  /\ raced' = (raced \/ \E d \in Cpu \ {c} : Busy(d))
  /\ UNCHANGED <<vars, result>>

\* One of the stores of an append, the last of which ends the call.
appendStore(c, x) ==
  LET me == call[c]
  IN  /\ At(c, {"append"}) /\ x \in me.left
      /\ fields' = [fields EXCEPT ![me.i] =
                      [enc |-> IF x = "enc" THEN me.enc ELSE @.enc,
                       val |-> IF x = "val" THEN me.val ELSE @.val]]
      /\ count' = IF x = "count" THEN me.i + 1 ELSE count
      /\ ok' = (ok \/ me.left = {x})
      /\ call' = [call EXCEPT ![c] = IF me.left = {x} THEN Idle
                                     ELSE [me EXCEPT !.left = @ \ {x}]]
      /\ UNCHANGED <<launched, result, raced>>

sharedReset(c) ==
  /\ ~ Busy(c)
  /\ reset
  /\ raced' = (raced \/ \E d \in Cpu : Busy(d))
  /\ UNCHANGED <<call, result>>

sharedSetLaunched(c, b) ==
  /\ ~ Busy(c)
  /\ setLaunched(b)
  /\ UNCHANGED <<call, result, raced>>

SharedNext ==
  \E c \in Cpu :
    \/ \E e \in Enc : begin(c, "read", e, Zero)
    \/ \E e \in Enc, v \in Val : begin(c, "write", e, v)
    \/ advance(c) \/ match(c)
    \/ loadValue(c) \/ readAbsent(c)
    \/ storeValue(c) \/ dropFull(c)
    \/ beginAppend(c)
    \/ \E x \in {"enc", "val", "count"} : appendStore(c, x)
    \/ sharedReset(c)
    \/ \E b \in BOOLEAN : sharedSetLaunched(c, b)

SharedSpec == SharedInit /\ [][SharedNext]_sharedVars

Unraced == ~ raced

------------------------------------------------------------------------------
\* Properties

\* The slots whose append is complete.
Settled == Used \ {call[c].i : c \in {d \in Cpu : At(d, {"append"})}}

Contents ==
  [e \in Enc |->
     IF \E i \in Settled : fields[i].enc = e
     THEN fields[CHOOSE i \in Settled :
                   /\ fields[i].enc = e
                   /\ \A j \in Settled : fields[j].enc = e => i <= j].val
     ELSE Zero]

Memory == INSTANCE VmcsStore WITH
  Capacity <- MaxFields,
  contents <- Contents,
  held     <- {fields[i].enc : i \in Settled}

(* As long as no append and no reset overlaps another call, calls that do  *)
(* overlap behave as if each were one step of the abstract memory: of two  *)
(* writes one comes first and both count, a write refused was refused by a *)
(* store that was full, and a write under way is never seen half done.     *)
SafeSharing ==
  Memory!StoreInit /\ [][raced' \/ Memory!StoreNext]_(Memory!storeVars)

(* A read that overlaps other calls, but no append and no reset, returns   *)
(* what the memory holds at its last load: writes of the same field that   *)
(* were done before are seen, and a scan is never led past the field it    *)
(* looks for.                                                              *)
ReadsCurrent ==
  [][\A c \in Cpu :
       At(c, {"read", "load"}) /\ call'[c] = Idle /\ ~ raced =>
         result'[c] = Contents[call[c].enc]]_sharedVars
==============================================================================
