SPECIFICATION Spec
CONSTANTS
  b1 = b1
  b2 = b2
  b3 = b3
  b4 = b4
  p1 = p1
  p2 = p2
  p3 = p3
  t1 = t1
  t2 = t2
  s1 = s1
  s2 = s2
  Brokers = {b1, b2}
  Registered <- MCRegistered
  Partitions = {p1}
  TopicOf <- MCTopicOf
  Assignments <- MCAssignments
  Sessions = {s1, s2}
  Commands <- RacingCommands
  Serial = FALSE
  Additional = 1
  MaxFaults = 0
INVARIANTS
  VerifyClearsOnlyWhenIdle
