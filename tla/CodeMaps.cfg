SPECIFICATION MCSpec
CONSTANTS
  Threads = {t1, t2, t3}
  Files = {f1}
  Capacity = 2
  LibrarySize = 2
  MaxBlocks = 2
  MaxForks = 1
  Processes = {p1, p2, p3}
  Libraries = {l1}
  Offsets = {o1, o2}
  MaxIndex = 2
  MaxCrashes = 1
INVARIANTS ClaimsDisjoint CodeMapWhole InUseStays MergedUnlessShadowed NeverThrows
PROPERTIES CodeMapsEnd
CHECK_DEADLOCK FALSE
