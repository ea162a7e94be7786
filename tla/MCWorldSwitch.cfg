SPECIFICATION Spec
CONSTANTS
  Thread <- Threads
  Cpu <- TwoCpus
  Idle = idle
  GuestSets <- Everything
  t1 = t1
  t2 = t2
  c1 = c1
  c2 = c2
INVARIANTS TypeOK CallPreserved OperandsAddressed GprsInPlace HeldInside
PROPERTIES GuestContinues
SYMMETRY Symmetry
