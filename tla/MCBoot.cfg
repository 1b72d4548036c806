CONSTANTS
    ENTRIES = 4
    PAGE_SIZE = 4
    APIC_PADDR = 90
    Setups <- MCBootSetups
    KERNEL_BASE = 240
    CAPACITY = 14
    MaxEvents = 1
    Frame <- MCFrame
    DESCRIPTORS = 13
    Garbage <- MCGarbage
SPECIFICATION BootSpec
INVARIANTS
    NeverFaults
    MapAccountsForRam
    HandoverMeetsKernel
    RelocatedAtEntry
    WritesItsOwn
    OneAddressPerFrame
PROPERTIES
    ComesToAnEnd
