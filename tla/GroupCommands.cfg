SPECIFICATION Spec
CONSTANTS
  g1 = g1
  g2 = g2
  p1 = p1
  p2 = p2
  t1 = t1
  i1 = i1
  Groups = {g1, g2}
  Partitions = {p1, p2}
  TopicOf <- MCTopicOf
  InternalOf <- MCInternalOf
  Starts <- MCStarts
  Busy <- MCBusy
  MaxOffset = 2
  MaxMoves = 2
  MaxFaults = 1
  Resets <- MCResets
  Deletions <- MCDeletions
  MaxRuns = 2
INVARIANTS
  TypeOK
  ResetEndIsTrue
  
  CleanupAfterReset
  DeletionIsReported
  TopicsAfterGroup
CHECK_DEADLOCK FALSE
