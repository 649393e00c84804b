\* Up to four bytes in blocks of three and less, with two empty blocks
\* anywhere among them; reads shorter than a block, as long, and longer.
\* Each object is reset once, whatever loop was run over it before.
SPECIFICATION Spec
CONSTANTS
    MaxBlock = 3
    MaxTotal = 4
    MaxEmpty = 2
    MaxLoops = 1
    MaxRead = 4
PROPERTIES
    Streams
    LoopEnds
\* A loop that has ended, after the last reset(), is the end.
CHECK_DEADLOCK FALSE
