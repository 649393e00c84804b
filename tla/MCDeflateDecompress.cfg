\* A call of decompress_deflate that returned is the end of a behaviour.
SPECIFICATION Spec
CONSTANTS
    BlockSize = 2
    Step = 3
    Overhead = 2
    MaxBegins = 2
    Volumes <- MCVolumes
    Misreadings <- MCMisreadings
    Inputs <- MCInputs
    Offsets <- MCOffsets
INVARIANTS
    TypeOK
    InsideBuffers
PROPERTIES
    Inflates
    LoopEnds
CHECK_DEADLOCK FALSE
