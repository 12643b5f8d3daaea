CONSTANTS
    Programs <- GoPrograms
    MaxCollections = 1
SPECIFICATION Spec
INVARIANT RootsEnd
