SPECIFICATION MCSpec
CONSTANTS
  Threads = {m1, x1}
  Mutators = {m1}
  Writers = {x1}
  Words = {w1, w2, w3}
  Pages = {p1, p2}
  Blocks = {b1, b2}
  Bytes = {0, 1}
  PageOf <- MCPageOf
  Extent <- MCExtent
  SMCSoftInvalidate = TRUE
  None = None
  p1 = p1
  p2 = p2
  w1 = w1
  w2 = w2
  w3 = w3
  b1 = b1
  b2 = b2
  c1 = c1
  c2 = c2
  r1 = r1
  r2 = r2
  CoreThreads = {c1, c2}
  RIPs = {r1, r2}
  Null = Null
SYMMETRY RIPSymmetry
INVARIANTS LiveCodeGuarded CachesFollow RelinkIsCurrent StackCovered LookupsSound LinksSeverable LinksCurrent
