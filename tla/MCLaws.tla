-------------------------------- MODULE MCLaws --------------------------------
(* The inputs of ConversionLaws: every access-rights word VM entry accepts *)
(* (2048 usable ones and the unusable one), every type of event with the   *)
(* vectors at the edges, and every walk of up to three levels over entries *)
(* with any rights that are legal in an EPT.  Those of DecodeLaws: the     *)
(* two-byte opcodes decodeVmx looks at and one it does not (0F A2, CPUID), *)
(* with every ModRM byte of the register form and the displacement-free    *)
(* memory form, every REX extension and the prefixes.                      *)
EXTENDS DecodeLaws

Vectors == {{}, {0}, {1}, {0, 1}, {2}, {1, 2, 3}, Bits(0, 4), {5}, Bits(0, 7)}
Types   == SUBSET Bits(8, 10)
MCEvents ==
  {[info |-> v \cup t \cup f, err |-> e] :
     v \in Vectors, t \in Types, f \in SUBSET {11, 31}, e \in {{}, {0, 31}}}

\* Writable but not readable is a misconfiguration on every processor.
Rights == {{}, {0}, {2}, {0, 1}, {0, 2}, {0, 1, 2}}
Tables == {r \cup {12, 51} : r \in Rights}
Leaves == {r \cup m \cup s \cup {13} :
             r \in Rights, m \in {{}, {4, 5}}, s \in {{}, {7}}}
MCWalks == {<<l>> : l \in Leaves}
             \cup {<<t, l>> : t \in Tables, l \in Leaves}
             \cup {<<t1, t2, l>> : t1, t2 \in Tables, l \in Leaves}

Prefixes == [p_66 : BOOLEAN, p_rep : {"none", "F3"}]

MCInstructions ==
  {[len |-> 4, error |-> FALSE, opcode |-> 15, opcode2 |-> o,
    p_66 |-> p.p_66, p_rep |-> p.p_rep,
    mod |-> m, reg |-> r, rm |-> b, rex_r |-> xr, rex_b |-> xb] :
     o \in {1, 56, 120, 121, 162, 199}, p \in Prefixes,
     m \in {0, 2, 3}, r, b \in 0 .. 7, xr, xb \in BOOLEAN}
  \cup
  {[len |-> 0, error |-> TRUE, opcode |-> 15, opcode2 |-> 120,
    p_66 |-> FALSE, p_rep |-> "none",
    mod |-> 3, reg |-> 0, rm |-> 0, rex_r |-> FALSE, rex_b |-> FALSE]}
==============================================================================
