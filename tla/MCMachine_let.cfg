CONSTANTS
    Programs <- LetPrograms
    MaxCollections = 1
SPECIFICATION Spec
INVARIANT LinkedOnce
