SPECIFICATION Spec
CONSTANTS
  Procs = {0, 1, 2}
  MaxDepth = 2
CONSTRAINT Undisturbed
INVARIANTS
  ListsEnd
  ProtectedAreRoots
  NoDeadRoots
