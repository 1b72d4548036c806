CONSTANTS
    Others <- MCOthers
    Debug <- MCDebug
    MaxDetours = 3
SPECIFICATION Spec
INVARIANTS
    CrashHealed
    DebugBootsDirect
PROPERTIES
    EntryBeforeOrder
    GetsToBoot
    EventuallyInstalled
