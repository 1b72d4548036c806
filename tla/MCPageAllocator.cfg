\* Frames 0..2 seen from virtual page 8 on.
CONSTANTS
    ENTRIES = 2
    PAGE_SIZE = 4
    Frame = {0, 1, 2}
    PADDR_BASE = 8
    Scribble <- MCScribble
SPECIFICATION Spec
INVARIANTS
    ListIntact
PROPERTIES
    HandsOutFreshPages
    ImplementsPool
