SPECIFICATION FairSpec
CONSTANTS
  p1 = p1
  p2 = p2
  q1 = q1
  q2 = q2
  Partitions = {p1}
  Producers = {q1}
  MaxTransactionTimeout = 0
  Commands = {"find", "abortAt"}
  MaxOffset = 2
  MaxTime = 2
  MaxEpoch = 1
  MaxLate = 1
  MaxFaults = 1
PROPERTIES
  HangingCleared
