SPECIFICATION Spec
CONSTANTS
  Commands <- MCCommands
  MaxRecords = 3
  DefaultSlots = 2
  MaxForeign = 1
  Workers <- MCWorkers
  MaxPoll = 2
  MaxDeliveries = 2
INVARIANTS
  TypeOK
  OkMeansDone
  
  SyncLeavesNoGap
  CountsAreTrue
  RenewalsEnd
  
CHECK_DEADLOCK FALSE
PROPERTY
  EndsEventually
