CONSTANTS
    FIXNUM_MAGNITUDE_MASK = 7
    TAGS = 2
    LIMB_BITS = 2
    Operands <- MCOperands
    MaxInteger = 40
    Symbols = {"a", "b"}
    Chars = {1, 2}
    Shapes <- MCShapes
    MaxHeld = 3
    MaxElements = 5
    READER_TOKEN_MAX = 10
    CHAR_NAME_MAX = 8
    Forms <- MCForms
    MaxWritten = 2
SPECIFICATION LibrarySpec
INVARIANTS IntegersExact SequencesExact RoundTrip LoadedInOrder
CHECK_DEADLOCK FALSE
