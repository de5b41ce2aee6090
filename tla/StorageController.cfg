SPECIFICATION Spec
CONSTANTS
  c1 = c1
  c2 = c2
  NDirs = 1
  MetadataLog = 1
  Controller = TRUE
  Clusters = {c1, c2}
  MaxFaults = 1
INVARIANTS
  OkMeansControllerReady
