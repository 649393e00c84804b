--------------------------- MODULE DeflateChunks ---------------------------
(***************************************************************************)
(* DeflateCompressData without a buffer: the caller init()s it, then hands *)
(* in chunks with next(input, size, flush), the last with FINISH_COMPRESS. *)
(* The output buffer of a call is as large as its input.                   *)
(***************************************************************************)
EXTENDS Zlib

CONSTANTS ChunkSizes, \* the sizes of the chunks callers hand in
          MaxInput    \* bound: bytes handed in after an init()

VARIABLES fed,        \* bytes handed in before the chunk in progress
          input_size, flush,
          fresh,      \* the loop of next() has not called deflate() yet
          in, ended,  \* strm: bytes compressed, and whether it is closed
          bits,       \* strm: bits that make no byte yet
          pending,    \* strm: bytes of output it has not given
          gave,       \* what the last call of deflate() gave
          pc          \* "none", "idle", "deflate" or "thrown"

streamVars == <<in, ended, bits, pending>>
vars == <<fed, input_size, flush, fresh, streamVars, gave, pc>>

Init ==
    /\ fed = 0 /\ input_size = 0 /\ flush = "Z_NO_FLUSH" /\ fresh = FALSE
    /\ in = 0 /\ ended = FALSE /\ bits = 0 /\ pending = 0
    /\ gave = 0
    /\ pc = "none"

(* init() with data == nullptr; a stream before is given up.               *)
InitStream ==
    /\ pc # "deflate"
    /\ pc' = "idle"
    /\ fed' = 0
    /\ in' = 0 /\ ended' = FALSE /\ bits' = 0 /\ pending' = 0
    /\ UNCHANGED <<input_size, flush, fresh, gave>>

InitFails ==
    /\ pc # "deflate"
    /\ pc' = "none"
    /\ UNCHANGED <<fed, input_size, flush, fresh, streamVars, gave>>

(* A call of next(); none follows the last chunk.                          *)
Chunk(n, f) ==
    /\ pc = "idle" /\ ~ended
    /\ fed + n <= MaxInput
    /\ input_size' = n /\ flush' = f /\ fresh' = TRUE
    /\ pc' = "deflate"
    /\ UNCHANGED <<fed, streamVars, gave>>

(* Wrong: a byte more than the vector has.                                 *)
RoomMore == input_size + 1

Room == input_size

(* Wrong: one call is taken to be enough; on until the stream is closed.   *)
AgainNever(g) == FALSE
AgainUntilEnd(g) == ~ended'

Again(g) == g = input_size

(* What deflate() adds to its pending output: whatever it makes of a chunk *)
(* and of the end; and, asked again for a partial flush when what waits    *)
(* does not fill the room, the ten bits of an empty block.                 *)
Added ==
    IF fresh THEN {a \in (0 .. input_size + Overhead) \X (0 .. 7) :
                     flush # "Z_NO_FLUSH" => a[1] > 0}
    ELSE IF flush = "Z_PARTIAL_FLUSH" /\ pending < Room
         THEN {<<(bits + 10) \div 8, (bits + 10) % 8>>}
    ELSE {<<0, bits>>}

(* One call of deflate().  It is an error to give it no room.              *)
Deflate ==
    /\ pc = "deflate"
    /\ fresh' = FALSE
    /\ \/ /\ Room = 0
          /\ pc' = "thrown" /\ gave' = 0
          /\ UNCHANGED <<fed, streamVars>>
       \/ /\ Room > 0
          /\ in' = IF fresh THEN in + input_size ELSE in
          /\ ended' = (flush = "Z_FINISH")
          /\ \E a \in Added :
               /\ bits' = a[2]
               /\ gave' = Smaller(pending + a[1], Room)
               /\ pending' = pending + a[1] - gave'
          /\ \/ Again(gave') /\ UNCHANGED <<pc, fed>>
             \/ ~Again(gave') /\ pc' = "idle" /\ fed' = fed + input_size
    /\ UNCHANGED <<input_size, flush>>

Next ==
    \/ InitStream \/ InitFails
    \/ \E n \in ChunkSizes, f \in {"Z_NO_FLUSH", "Z_PARTIAL_FLUSH", "Z_FINISH"} : Chunk(n, f)
    \/ Deflate
=============================================================================
