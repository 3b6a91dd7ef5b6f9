SPECIFICATION MCSpec
CONSTANTS
  Clients = {c1, c2}
  Servers = {s1, s2}
  None = None
  Image = TRUE
  Steam = FALSE
  MaxRuns = 2
  MaxFaults = 1
  SteamRuns = 1
INVARIANTS OneServer ServedKeepsRootFS NobodyTurnedAway
PROPERTIES SetupEnds 
CHECK_DEADLOCK FALSE
