SPECIFICATION Spec
CONSTANTS
  TotalClusters = 5
  EntriesPerSector = 4
  NumFats = 2
  ClusterSize = 2
  Slots = {1, 2, 3}
  FileNames = {"f", "g"}
  DirNames = {"d"}
  Lengths = {0, 1, 3, 5}
  Faults = {"write", "read", "evict", "restart"}
  SharedFiles = FALSE
  MaxOps = 3
  MaxFaults = 2
INVARIANTS
  ChainsAreDisjoint
  VolumeConsistent
  ReportedWritesAreOnDisk
  NothingLeftBehind
CHECK_DEADLOCK FALSE
