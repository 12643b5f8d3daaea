CONSTANTS
    Programs <- FletPrograms
    MaxCollections = 1
SPECIFICATION Spec
INVARIANT ResultAgrees
