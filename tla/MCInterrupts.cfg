CONSTANTS
    StackWords = 64
    Scratch = 2
    Irqs = {33}
    Faults <- MCFaults
    MaxInterrupts = 2
SPECIFICATION Spec
INVARIANTS
    FrameIsStruct
    NestingBounded
    SegmentsLoaded
    NeverFaults
PROPERTIES
    Transparent
    ShutsDown
