SPECIFICATION FairPluginSpec
CONSTANTS
  Cpu <- TwoCpus
  Page <- Pages
  NoPage = 0
  Features <- AllFeatures
  SvmeSticks <- Either
  Kernels <- KernelShape
  c1 = c1
  c2 = c2
  p1 = p1
  p2 = p2
  p3 = p3
INVARIANTS TypeOK PagesAccounted EnabledIsPrepared SaveAreaOwned UndisturbedDisableClears
  PluginTypeOK PatchedOnlyWhenBound FirstGateRouted LaunchReady
PROPERTIES LoadReturns
