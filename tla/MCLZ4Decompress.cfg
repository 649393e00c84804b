\* The behaviours stop where MaxPos cuts them: a loop that ended and no reset() left.
SPECIFICATION Spec
CONSTANTS
    Block = 2
    Wrap = 4
    Window = 2
    Header = 2
    MaxCmp = 3
    MaxPos = 3
    Damaged = FALSE
    Volumes <- MCVolumes
    Files <- MCFiles
    Limits <- MCLimits
INVARIANTS
    TypeOK
    NoOverrun
    InsideScratch
    SameFraming
    RecordBytes
    ReturnsAll
PROPERTIES
    Decodes
CHECK_DEADLOCK FALSE
