----------------------- MODULE DeflateDecompressData -----------------------
(***************************************************************************)
(* class DeflateDecompressData over a buffer, driven through the iterator  *)
(* of DeflateBlockStreaming.  A truncated volume ends the iteration with   *)
(* what its bytes give; only damage throws.                                *)
(* DeflateDecompress composes it with the other decoders.                  *)
(***************************************************************************)
EXTENDS Zlib

CONSTANTS BlockSize,  \* DEFLATE_BLOCK_SIZE, of input and of output
          Volumes,    \* the compressed buffers callers hand in
          Misreadings,  \* what a stream opened raw or further on takes them for
          MaxBegins   \* bound: begin() calls after a construction

VARIABLES data,       \* the volume; its size is data_size
          data_offset, gzip,
          state,      \* DeflateState
          z,          \* strm, the part zlib keeps
          raw, base,  \* how the loop's stream was opened, and at which byte
          reading,    \* what it takes the bytes from there on for
          loops,      \* begin() calls since it was rewound; 2 for more
          next_in, avail_in,
          block,      \* bytes of output in next()'s result
          got,        \* bytes of output the caller has, since begin()
          pc,         \* "idle", or "inflate" in the loop of next()
          it,         \* "none", "block", "end", "thrown" or "failed"
          begins

dataVars == <<data, data_offset, gzip>>
strmVars == <<z, next_in, avail_in>>
loopVars == <<raw, base, reading, loops>>
vars == <<dataVars, state, strmVars, loopVars, block, got, pc, it, begins>>

data_size == data.size

Init ==
    /\ data \in Volumes /\ data_offset = 0
    /\ gzip \in BOOLEAN
    /\ raw = FALSE /\ base = 0 /\ reading = data /\ loops = 0
    /\ state = "NONE"
    /\ z = NewInflate /\ next_in = 0 /\ avail_in = 0
    /\ block = 0 /\ got = 0
    /\ pc = "idle" /\ it = "none" /\ begins = 0

Passed == data_offset > data_size

(* Wrong: all that is left goes into one call of next().                   *)
AvailInAll == data_size - data_offset

AvailIn == Smaller(BlockSize, data_size - data_offset)

(* The start of next().                                                    *)
StartBlock ==
    \/ /\ Passed
       /\ state' = "END" /\ it' = "end"
       /\ UNCHANGED <<next_in, avail_in, block, pc>>
    \/ /\ ~Passed
       /\ next_in' = IF data_offset < data_size THEN data_offset ELSE next_in
       /\ avail_in' = AvailIn
       /\ block' = 0
       /\ pc' = "inflate"
       /\ state' = "INIT"
       /\ UNCHANGED it

(* inflateInit2 by the format; where that fails, a second one may succeed, *)
(* whose stream is raw: it is tried unless gzip.                           *)
Raw == IF gzip THEN {FALSE} ELSE BOOLEAN

(* begin(): init() ends the stream it had, opens another, calls next().    *)
(* It does not rewind: a caller that has not called reset() or close()     *)
(* goes on where the last loop stopped, or gets no block at all.           *)
Begin ==
    /\ pc = "idle" /\ begins < MaxBegins
    /\ begins' = begins + 1
    /\ raw' \in Raw /\ base' = data_offset
    /\ reading' \in Readings(data, base', raw', Misreadings)
    /\ loops' = Smaller(loops + 1, 2)
    /\ z' = NewInflate
    /\ got' = 0
    /\ StartBlock
    /\ UNCHANGED dataVars

(* No inflateInit2 has memory: the old stream is gone and no next() will   *)
(* look at it; state and data stay.                                        *)
InitFails ==
    /\ pc = "idle" /\ begins < MaxBegins
    /\ begins' = begins + 1
    /\ it' = "failed"
    /\ UNCHANGED <<dataVars, state, strmVars, loopVars, block, got, pc>>

Increment ==
    /\ pc = "idle" /\ it = "block"
    /\ StartBlock
    /\ UNCHANGED <<dataVars, z, loopVars, got, begins>>

(* Wrong: data_offset stops at the end of the data.                        *)
NextOffsetByInput == data_offset + Smaller(BlockSize, data_size - data_offset)

NextOffset == data_offset + BlockSize

(* while (strm.avail_out == 0)                                             *)
Again(r) == r.gave = BlockSize

(* Wrong: no progress counts as damage.                                    *)
FatalBuf(ret) == ret \in {"Z_DATA_ERROR", "Z_BUF_ERROR"}

(* Z_BUF_ERROR only says that there was nothing to do.                     *)
Fatal(ret) == ret = "Z_DATA_ERROR"

(* One call of inflate(), and what next() makes of it.                     *)
Inflate ==
    /\ pc = "inflate"
    /\ \E r \in InflateResults(reading, z, next_in - base, avail_in, BlockSize) :
         /\ z' = r.i
         /\ next_in' = next_in + r.took
         /\ avail_in' = avail_in - r.took
         /\ \/ /\ Fatal(r.ret)
               /\ pc' = "idle" /\ it' = "thrown"
               /\ UNCHANGED <<block, got, data_offset>>
            \/ /\ ~Fatal(r.ret)
               /\ block' = block + r.gave
               /\ \/ Again(r) /\ UNCHANGED <<pc, it, got, data_offset>>
                  \/ /\ ~Again(r)
                     /\ pc' = "idle" /\ it' = "block"
                     /\ got' = got + block'
                     /\ data_offset' = NextOffset
    /\ UNCHANGED <<data, gzip, state, loopVars, begins>>

(* The caller drops its iterator; state and the zlib stream stay.          *)
DropLoop ==
    /\ pc = "idle"
    /\ it' = "none" /\ got' = 0
    /\ raw' = FALSE /\ base' = 0 /\ reading' = data'
    /\ UNCHANGED <<state, strmVars, block, pc, begins>>

(* reset(data, size, gzip)                                                 *)
Reset(v, g) ==
    /\ data' = v /\ DropLoop
    /\ data_offset' = 0 /\ loops' = 0
    /\ gzip' = g

AddData(v) ==
    /\ data' = v /\ DropLoop
    /\ UNCHANGED <<data_offset, loops, gzip>>

(* Wrong: close() leaves the buffer where the loop stopped.                *)
RewoundNever == data_offset

(* close() rewinds the buffer.                                             *)
Rewound == 0

Close ==
    /\ UNCHANGED <<data, gzip>> /\ DropLoop
    /\ data_offset' = Rewound /\ loops' = 0

Next ==
    \/ Begin \/ InitFails \/ Increment
    \/ Inflate
    \/ Close
    \/ \E v \in Volumes : AddData(v) \/ \E g \in BOOLEAN : Reset(v, g)

(* What the caller can tell of the decoding, in the words of Inflation.    *)
Verdict ==
    CASE pc = "inflate" \/ it = "block" -> "reading"
      [] pc = "idle" /\ it = "thrown" -> "corrupt"
      [] pc = "idle" /\ it \in {"none", "end", "failed"} -> it
=============================================================================
