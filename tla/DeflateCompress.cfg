\* Blocks of two bytes: buffers of none, of part of a block, of whole blocks,
\* of a whole block and a part.  Output of up to three bytes more than the
\* input fills the output buffer exactly, or twice.  Chunks of none, which
\* deflate() refuses; of one byte, whose partial flush never returns; and of
\* two and three, whose output fills theirs up to three times.  Files of none,
\* of whole blocks, and of a block and a part, which grow and shrink from one
\* size to another.
SPECIFICATION Spec
CONSTANTS
    BlockSize = 2
    Overhead = 3
    MaxBegins = 2
    MaxInput = 5
    Sizes = {0, 1, 4, 5}
    ChunkSizes = {0, 1, 2, 3}
    FileSizes = {0, 3, 4}
    Offsets = {1}
    MaxChanges = 1
    CloseFirst = TRUE
INVARIANTS
    TypeOK
    WholeStream
    AllGiven
    NoNeedlessError
PROPERTIES
    LoopEnds
