SPECIFICATION FairSpec
CONSTANTS
  Builds <- Launching
  Nrips = TRUE
  MaxFields = 256
  Region <- OneRegion
  NoRegion = none
  Code <- RunCode
  TrapFlags <- CarryFlags
  VmmWrites <- ControlWrites
  VmmReads <- StateReads
  GuestWrites <- InterruptFlags
  GuestTables <- None
  Descriptors <- None
  RaxValues <- OneRax
  EptEdits = FALSE
  SupportedAsids <- OneAsid
  MaxRip = 1
  Segs <- OneSeg
  Tables <- OneTable
  PlainRegs <- TwoRegs
  r1 = r1
INVARIANTS ExitStoresVmcs EntriesConsistent AskedForArmed
PROPERTIES ExitsAskedFor GuestYields
CONSTRAINT NotStrayed
