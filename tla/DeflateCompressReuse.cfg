\* Files only: no buffers and no chunks.
SPECIFICATION Spec
CONSTANTS
    BlockSize = 2
    Overhead = 2
    MaxBegins = 2
    MaxInput = 0
    Sizes = {}
    ChunkSizes = {}
    FileSizes = {0, 3, 4}
    Offsets = {1}
    MaxChanges = 0
    CloseFirst = FALSE
INVARIANT
    NoNeedlessError
