SPECIFICATION MCSpec
CONSTANTS
  Threads = {t1}
  Mutators = {t1}
  Writers = {t1}
  Words = {w1, w2}
  Pages = {p1, p2}
  Blocks = {b1, b2}
  Bytes = {0, 1}
  PageOf <- MCPageOf2
  Extent <- MCExtent2
  SMCSoftInvalidate = TRUE
  SMCLazyCrossPoke = FALSE
  None = None
  p1 = p1
  p2 = p2
  w1 = w1
  w2 = w2
  b1 = b1
  b2 = b2
  m1 = m1
  m2 = m2
  x1 = x1
  alrm = alrm
  usr = usr
INVARIANTS ModesSelfCoherent ModesCodeCovered  NothingStranded
PROPERTIES ModesFaultServed ModesDrains
