SPECIFICATION Spec
CONSTANTS
  Scripts <- MCScripts
  MaxFaults = 1
  MaxForeign = 1
  Names = {"t1", "t2", "__t"}
  Internal = {"__t"}
  MaxId = 5
  MaxPartitions = 3
  Conditions <- MCConditions
  TwoSpellings = {1}
  AclResources <- MCResources
  AclPrincipals = {"p", "q"}
  AclHosts = {"*", "h1", "h2"}
  Resources <- MCExisting
  Unresolvable = {"nowhere"}
  Nodes = {1, 2}
  Controllers = {1, 2, 3}
  Servers = {1, 2}
  Owners = {"o"}
  MaxTokens = 2
  Parts <- MCParts
  LogDirs <- MCLogDirs
  LogEnd = 3
  InitialTopics <- MCTopics
  InitialConfigs <- MCConfigs
  InitialLevels <- MCLevels
  InitialQuorum <- MCQuorum
  InitialLeader <- MCLeader
INVARIANTS
  TypeOK
  UndoneIsGone
  RetrySucceeds
  

  
CHECK_DEADLOCK FALSE
