SPECIFICATION Spec
CONSTANTS
  Builds <- BothBuilds
  Nrips = TRUE
  MaxFields = 256
  Region <- OneRegion
  NoRegion = none
  Code <- AllCode
  TrapFlags <- CarryFlags
  VmmWrites <- AllWrites
  VmmReads <- StateReads
  GuestWrites <- StateGuest
  GuestTables <- LoadsGdtr
  Descriptors <- TwoDescriptors
  RaxValues <- OneRax
  EptEdits = TRUE
  SupportedAsids <- OneAsid
  MaxRip = 1
  Segs <- OneSeg
  Tables <- OneTable
  PlainRegs <- TwoRegs
  r1 = r1
INVARIANTS TypeOK ExitStoresVmcs DisabledLaunchKeepsVmcs DisabledLaunchVisible
PROPERTIES EntryLoadsVmcs ImplementsMachine
CONSTRAINT OwnWrites
