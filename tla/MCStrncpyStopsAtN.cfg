CONSTANTS
    Byte = {0, 1, 200}
    Fill = {0, 1, 456}
    MemSize = 5
    SIZE_T = 16
SPECIFICATION Spec
CHECK_DEADLOCK FALSE
INVARIANT StrncpyStopsAtN
