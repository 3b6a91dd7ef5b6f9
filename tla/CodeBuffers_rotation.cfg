SPECIFICATION Spec
CONSTANTS
  CoreThreads = {t1, t2}
  Compilers = {t1, t2}
  RIPs = {r1, r2}
  ConfiguredInitialSize = 1
  ConfiguredMaxSize = 2
  BlockLinkingEnabled = FALSE
  MaxBuffers = 3
  MaxFrames = 0
  Null = Null
INVARIANT NeverDies
