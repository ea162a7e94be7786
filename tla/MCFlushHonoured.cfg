SPECIFICATION Spec
CONSTANTS
  Builds <- Launching
  Nrips = TRUE
  MaxFields = 256
  Region <- OneRegion
  NoRegion = none
  Code <- AllCode
  TrapFlags <- CarryFlags
  VmmWrites <- NestedWrites
  VmmReads <- StateReads
  GuestWrites <- None
  GuestTables <- None
  Descriptors <- None
  RaxValues <- OneRax
  EptEdits = TRUE
  SupportedAsids <- OneAsid
  MaxRip = 1
  Segs <- OneSeg
  Tables <- OneTable
  PlainRegs <- TwoRegs
  r1 = r1
INVARIANTS FlushHonoured
