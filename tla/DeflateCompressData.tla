------------------------ MODULE DeflateCompressData ------------------------
(***************************************************************************)
(* class DeflateCompressData over a buffer, driven through the iterator of *)
(* DeflateBlockStreaming.  next() is taken apart at its calls of deflate();*)
(* the object has one caller, so nothing happens in between.               *)
(*                                                                         *)
(* Unlike the LZ4 classes, init() does not rewind data_offset: only        *)
(* reset() and close() do.  DeflateCompress composes it with its siblings. *)
(***************************************************************************)
EXTENDS Zlib

CONSTANTS BlockSize,  \* DEFLATE_BLOCK_SIZE, of input and of output
          Sizes,      \* the sizes of the buffers callers hand in
          MaxBegins   \* bound: begin() calls after a construction

VARIABLES data_size, data_offset,
          state,      \* DeflateState
          z,          \* strm, the part zlib keeps
          next_in, avail_in, flush,
          block,      \* bytes of output in next()'s result
          pc,         \* "idle", or "deflate" in the loop of next()
          it,         \* "none", "block", "end" or "thrown"
          begins,
          rewound     \* data_offset was 0 at the last begin()

dataVars == <<data_size, data_offset>>
strmVars == <<z, next_in, avail_in, flush>>
vars == <<dataVars, state, strmVars, block, pc, it, begins, rewound>>

Init ==
    /\ data_size \in Sizes /\ data_offset = 0
    /\ state = "NONE"
    /\ z = NewDeflate /\ next_in = 0 /\ avail_in = 0 /\ flush = "Z_NO_FLUSH"
    /\ block = 0
    /\ pc = "idle" /\ it = "none"
    /\ begins = 0 /\ rewound = FALSE

(* Wrong: the stream is over once the data is, so a buffer of no bytes and *)
(* one of whole blocks are never finished.                                 *)
PassedEarly == data_offset >= data_size

Passed == data_offset > data_size

(* Wrong: all that is left goes into one call; every call finishes.        *)
AvailInAll == data_size - data_offset
FlushEarly == "Z_FINISH"

AvailIn == Smaller(BlockSize, data_size - data_offset)

(* The last DEFLATE_BLOCK_SIZE bytes, or fewer, finish the stream.         *)
Flush == IF data_size - data_offset > BlockSize THEN "Z_NO_FLUSH" ELSE "Z_FINISH"

(* The start of next(), with the iterator's obj->state in view.            *)
StartBlock ==
    \/ /\ Passed
       /\ state' = "END"
       /\ it' = "end"
       /\ UNCHANGED <<next_in, avail_in, flush, block, pc>>
    \/ /\ ~Passed
       /\ next_in' = IF data_offset < data_size THEN data_offset ELSE next_in
       /\ avail_in' = AvailIn
       /\ flush' = Flush
       /\ block' = 0
       /\ pc' = "deflate"
       /\ state' = "INIT"
       /\ UNCHANGED it

(* begin(): init() ends the stream it had, opens another, calls next().    *)
Begin ==
    /\ pc = "idle"
    /\ begins < MaxBegins
    /\ begins' = begins + 1
    /\ rewound' = (data_offset = 0)
    /\ z' = NewDeflate
    /\ StartBlock
    /\ UNCHANGED dataVars

(* deflateInit2 has no memory: the old stream is gone and no next() will   *)
(* look at it; state and data stay.                                        *)
InitFails ==
    /\ pc = "idle"
    /\ begins < MaxBegins
    /\ begins' = begins + 1
    /\ it' = "thrown"
    /\ UNCHANGED <<dataVars, state, strmVars, block, pc, rewound>>

Increment ==
    /\ pc = "idle" /\ it = "block"
    /\ StartBlock
    /\ UNCHANGED <<dataVars, z, begins, rewound>>

(* Wrong: data_offset moves by the input taken, so it never passes the end.*)
NextOffsetByInput == data_offset + Smaller(BlockSize, data_size - data_offset)

NextOffset == data_offset + BlockSize

(* while (strm.avail_out == 0)                                             *)
Again(gave) == gave = BlockSize

(* One call of deflate().                                                  *)
Deflate ==
    /\ pc = "deflate"
    /\ \E r \in DeflateResults(z, next_in, avail_in, flush, BlockSize) :
         /\ z' = r.z
         /\ next_in' = next_in + r.took
         /\ avail_in' = avail_in - r.took
         /\ block' = block + r.gave
         /\ \/ Again(r.gave) /\ UNCHANGED <<pc, it, data_offset>>
            \/ /\ ~Again(r.gave)
               /\ pc' = "idle" /\ it' = "block"
               /\ data_offset' = NextOffset
    /\ UNCHANGED <<data_size, state, flush, begins, rewound>>

(* reset(data, size, gzip): state and the zlib stream are left alone.      *)
Reset(n) ==
    /\ pc = "idle"
    /\ data_size' = n /\ data_offset' = 0
    /\ it' = "none"
    /\ UNCHANGED <<state, strmVars, block, pc, begins, rewound>>

AddData(n) ==
    /\ pc = "idle"
    /\ data_size' = n
    /\ it' = "none"
    /\ UNCHANGED <<data_offset, state, strmVars, block, pc, begins, rewound>>

Close ==
    /\ pc = "idle"
    /\ data_offset' = 0
    /\ it' = "none"
    /\ UNCHANGED <<data_size, state, strmVars, block, pc, begins, rewound>>

Next ==
    \/ Begin \/ InitFails \/ Increment
    \/ Deflate
    \/ Close
    \/ \E n \in Sizes : Reset(n) \/ AddData(n)
=============================================================================
