CONSTANTS
    ENTRIES = 4
    PAGE_SIZE = 4
    APIC_PADDR = 50
    Setups <- MCSetups
    KERNEL_BASE = 240
    CAPACITY = 14
    MaxEvents = 1
SPECIFICATION Spec
INVARIANT RuntimeMappingRequested
