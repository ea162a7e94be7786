SPECIFICATION Spec
CONSTANTS
  Cpu <- OneCpu
  Page <- Pages
  NoPage = 0
  Features <- AllFeatures
  SvmeSticks <- Either
  c1 = c1
  c2 = c2
  p1 = p1
  p2 = p2
  p3 = p3
  p4 = p4
INVARIANT DisableClearsAll
