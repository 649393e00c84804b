\* The behaviours stop where MaxPos cuts them: a loop that ended and no reset() left.
SPECIFICATION Spec
CONSTANTS
    Block = 2
    Wrap = 4
    Window = 2
    Header = 2
    MaxCmp = 3
    MaxPos = 3
    Damaged = TRUE
    Volumes <- MCVolumes
    Files <- MCFiles
    Limits <- MCLimits
INVARIANT
    ResetForgets
CHECK_DEADLOCK FALSE
