SPECIFICATION SharedSpec
CONSTANTS
  Enc <- MCEnc
  Val <- MCVal
  Zero = 0
  ZeroEnc = "vpid"
  MaxFields = 2
  Cpu <- TwoCpus
  c1 = c1
  c2 = c2
INVARIANT SharedTypeOK
PROPERTIES SafeSharing ReadsCurrent
CONSTRAINT Unraced
SYMMETRY Symmetry
