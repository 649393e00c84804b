SPECIFICATION Spec
CONSTANTS
    Block = 2
    Wrap = 6
    Window = 4
    Record = 5
    Small = 10
    Kept = 25
    MaxInput = 15
    MaxPos = 16
    Ratio = 4
    FrameHeader = 1
    FrameExtra = 3
    FrameSizes <- MCFrameSizes
    Volumes <- MCVolumes
    Contents <- MCContents
    Limits <- MCLimits
    IntMax = 7
    InputMax = 5
    BlockExtra = 2
    Sizes <- MCSizes
    Streams <- MCStreams
INVARIANTS
    TypeOK
    NoOverrun
    RoomEnough
    StreamOfInput
    SameResults
    IntoBuffer
PROPERTIES
    KeepsLayout
    AllocatesLittle
