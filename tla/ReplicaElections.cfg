SPECIFICATION Spec
CONSTANTS
  r1 = r1
  r2 = r2
  r3 = r3
  Replicas = {r1, r2, r3}
  MaxOffset = 2
  MaxEpoch = 2
  Starts = {"earliest", "latest"}
  MaxRots = 0
  MaxFaults = 0
SYMMETRY Symmetry
INVARIANTS
  NoFalseAlarm
  
CHECK_DEADLOCK FALSE
