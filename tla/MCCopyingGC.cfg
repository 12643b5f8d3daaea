SPECIFICATION Spec
CONSTANTS
  InitialHeaps <- MCHeaps
  Base = 8192
  Half = 288
  GC_QUEUE_CAPACITY = 8
  MaxCollections = 2
INVARIANTS
  GraphPreserved
  CopiedOnce
  BlackPointsToTo
PROPERTY
  CollectionEnds
CHECK_DEADLOCK FALSE
