CONSTANTS
    Programs <- MCPrograms
    MaxCollections = 2
SPECIFICATION Spec
INVARIANTS ResultAgrees NoStaleUse RootsEnd
PROPERTY Terminates
