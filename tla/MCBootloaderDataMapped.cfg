CONSTANTS
    ENTRIES = 4
    PAGE_SIZE = 4
    Frame <- MCFrame
    BootloaderData <- MCBootloaderData
    APIC_PADDR = 40
    DESCRIPTORS = 3
    Garbage <- MCGarbage
SPECIFICATION Spec
INVARIANTS
    BootloaderDataMapped
