SPECIFICATION Spec
CONSTANTS
  p1 = p1
  p2 = p2
  q1 = q1
  q2 = q2
  Partitions = {p1}
  Producers = {q1, q2}
  MaxTransactionTimeout = 0
  Commands = {"abortAt", "abortOf"}
  MaxOffset = 3
  MaxTime = 1
  MaxEpoch = 1
  MaxLate = 1
  MaxFaults = 1
SYMMETRY Symmetry
INVARIANTS
  TypeOK
  AbortedIsClosed
PROPERTIES
  AbortIsAimed
