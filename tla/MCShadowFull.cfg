SPECIFICATION Spec
CONSTANTS
  Enc <- MCEnc
  Val <- MCVal
  Zero = 0
  ZeroEnc = "vpid"
  MaxFields = 3
INVARIANTS TypeOK NoDuplicates
PROPERTY ImplementsStore
