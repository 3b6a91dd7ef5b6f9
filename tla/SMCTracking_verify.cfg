SPECIFICATION Spec
CONSTANTS
  Threads = {m1, m2, x1}
  Mutators = {m1, m2}
  Writers = {x1}
  Words = {w1}
  Pages = {p1}
  Blocks = {b1}
  Bytes = {0, 1}
  PageOf <- MCPageOf1
  Extent <- MCExtent1
  SMCSoftInvalidate = TRUE
  None = None
  p1 = p1
  p2 = p2
  w1 = w1
  w2 = w2
  w3 = w3
  b1 = b1
  b2 = b2
INVARIANTS RelinkIsCurrent
