CONSTANTS
    Byte = {0, 1, 200}
    Fill = {0, 1, 456}
    MemSize = 5
    SIZE_T = 16
    Bits = 10
    HexDigits = 2
    MaxLength = 5
    Lengths = {4, 5, 13}
    MaxNodes = 3
    MaxDescription = 2
    U16 = 38
    HALF = 7
SPECIFICATION Spec
CHECK_DEADLOCK FALSE
INVARIANTS
    StringsAsC
    PrintfAsC
    OptionRoundTrip
    MemoryMapSorted
PROPERTIES
    Returns
