SPECIFICATION Spec
CONSTANTS
  TotalClusters = 5
  EntriesPerSector = 4
  NumFats = 2
  ClusterSize = 2
  Slots = {1, 2, 3}
  FileNames = {"f", "g"}
  DirNames = {"d"}
  Lengths = {0, 1, 3, 5}
  Faults = {"write"}
  SharedFiles = FALSE
  MaxOps = 3
  MaxFaults = 1
INVARIANTS
  SuccessMeansWritten
CHECK_DEADLOCK FALSE
