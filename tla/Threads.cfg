SPECIFICATION MCSpec
CONSTANTS
  t1 = t1
  t2 = t2
  t3 = t3
  c1 = c1
  c2 = c2
  b1 = b1
  b2 = b2
  b3 = b3
  Clients = {c1, c2}
  Buffers = {b1, b2, b3}
  None = None
  GuestThreads = {t1, t2, t3}
  Main = t1
  Commands = {"pause", "detach", "kill"}
  MaxCommands = 3
  RefCountModulus = 8
SYMMETRY Interchangeable
INVARIANTS PausedIsQuiescent CountsAwake ClaimsHold FlagsAlive
CHECK_DEADLOCK FALSE
