\* The behaviours stop where MaxPos cuts them: a loop that ended and no reset() left.
SPECIFICATION Spec
CONSTANTS
    Block = 2
    Wrap = 6
    Window = 3
    MaxPos = 8
    Sizes <- MCSizes
    FileSizes <- MCFileSizes
    Offsets <- MCOffsets
    Limits <- MCLimits
INVARIANTS
    TypeOK
    NoOverrun
    DictIntact
    StreamOfInput
    InFileOrder
PROPERTIES
    KeepsLayout
    LoopEnds
CHECK_DEADLOCK FALSE
