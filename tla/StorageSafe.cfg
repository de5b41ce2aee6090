SPECIFICATION Spec
CONSTANTS
  c1 = c1
  c2 = c2
  NDirs = 3
  MetadataLog = 0
  Controller = TRUE
  Clusters = {c1, c2}
  MaxFaults = 2
INVARIANTS
  TypeOK
  OkMeansFormatted
  InfoOkMeansOneCluster
PROPERTIES
  NeverOverwrites
