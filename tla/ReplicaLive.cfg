SPECIFICATION FairSpec
CONSTANTS
  r1 = r1
  r2 = r2
  Replicas = {r1, r2}
  MaxOffset = 2
  MaxEpoch = 1
  Starts = {"time"}
  MaxRots = 1
  MaxFaults = 1
INVARIANTS
  TypeOK
PROPERTIES
  CatchesUp
CHECK_DEADLOCK FALSE
