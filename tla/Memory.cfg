SPECIFICATION MCSpec
CONSTANTS
  None = None
  PagesPerGranule = 2
  file = file
  anon = anon
  segment = segment
  t1 = t1
  t2 = t2
  t3 = t3
SYMMETRY MemorySymmetry
INVARIANTS  MemoSkipsOnlyNoOps GranuleTableAsTracked GranulesCoverGuest BareWhileProtected
PROPERTIES MirrorsFollow
CHECK_DEADLOCK FALSE
