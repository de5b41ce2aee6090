SPECIFICATION FairSpec
CONSTANTS
  b1 = b1
  b2 = b2
  b3 = b3
  b4 = b4
  p1 = p1
  p2 = p2
  p3 = p3
  t1 = t1
  t2 = t2
  s1 = s1
  s2 = s2
  Brokers = {b1, b2, b3, b4}
  Registered <- MCRegistered
  Partitions = {p1, p2, p3}
  TopicOf <- MCTopicOf
  Assignments <- MCAssignments
  Sessions = {s1}
  Commands <- AllCommands
  Serial = TRUE
  Additional = 2
  MaxFaults = 1
INVARIANTS
  TypeOK
  OkMeansStarted
  VerifyClearsOnlyWhenIdle
  CompletedIsSettled
  VerifiedIsClean
PROPERTIES
  MovesStayThrottled
  ThrottlesLifted
