------------------------- MODULE DecompressDeflate -------------------------
(***************************************************************************)
(* decompress_deflate: an Inflater over the whole input, first read into a *)
(* block on the stack, then straight into a string that doubles when it is *)
(* full.                                                                   *)
(* DeflateDecompress composes it with the other decoders.                  *)
(***************************************************************************)
EXTENDS Zlib

CONSTANTS BlockSize,  \* DEFLATE_BLOCK_SIZE, the size of head
          Step,       \* Inflater::step, the most one z_stream field may hold
          Volumes     \* the compressed inputs

VARIABLES compressed,
          z, in, left,  \* Inflater: strm, in (its position), left
          avail_in,
          finished,
          total, capacity, \* of the read() in progress
          used,       \* bytes of the result; before it, what head has
          size,       \* result.size(), 0 while head is read into
          pc,         \* "ctor", "read", "grow" or "return"
          ret         \* "", "returned", "thrown" or "failed"

inflaterVars == <<z, in, left, avail_in, finished, total>>
vars == <<compressed, inflaterVars, capacity, used, size, pc, ret>>

Larger(a, b) == IF a >= b THEN a ELSE b

Init ==
    /\ compressed \in Volumes
    /\ z = NewInflate /\ in = 0 /\ left = compressed.size
    /\ avail_in = 0 /\ finished = FALSE
    /\ total = 0 /\ capacity = BlockSize
    /\ used = 0 /\ size = 0
    /\ pc = "ctor" /\ ret = ""

(* inflateInit2 has no memory, or the stream is set up for read(head).     *)
Construct ==
    /\ pc = "ctor"
    /\ \/ pc' = "read" /\ UNCHANGED ret
       \/ pc' = "return" /\ ret' = "failed"
    /\ UNCHANGED <<compressed, inflaterVars, capacity, used, size>>

(* Wrong: a step is asked for where less is left.                          *)
GivenAll == IF avail_in = 0 THEN Step ELSE 0

(* What read() gives strm to read when it has nothing: up to a step.       *)
Given == IF avail_in = 0 /\ left # 0 THEN Smaller(left, Step) ELSE 0

(* Wrong: only the stream's end finishes, or output that does not fill.    *)
FinishedAtEndOnly(r, room, has, more) == r.ret = "Z_STREAM_END"
FinishedShort(r, room, has, more) == r.ret = "Z_STREAM_END" \/ r.gave < room

(* The stream ended; or room is left, and there is nothing more to read.   *)
Finished(r, room, has, more) ==
    \/ r.ret = "Z_STREAM_END"
    \/ r.gave # room /\ has = 0 /\ more = 0

(* Wrong: the room does not shrink as the call goes on.                    *)
RoomWhole == Smaller(capacity, Step)

Room == Smaller(capacity - total, Step)

(* One round of the loop of read(dst, capacity).                           *)
Round ==
    /\ pc = "read" /\ total < capacity /\ ~finished
    /\ in' = in + Given
    /\ left' = left - Given
    /\ LET has == avail_in + Given
       IN  \E r \in InflateResults(compressed, z, in - avail_in, has, Room) :
             /\ z' = r.i
             /\ avail_in' = has - r.took
             /\ \/ /\ r.ret = "Z_DATA_ERROR"
                   /\ pc' = "return" /\ ret' = "thrown"
                   /\ UNCHANGED <<total, finished>>
                \/ /\ r.ret # "Z_DATA_ERROR"
                   /\ total' = total + r.gave
                   /\ finished' = Finished(r, Room, has - r.took, left')
                   /\ UNCHANGED <<pc, ret>>
    /\ UNCHANGED <<compressed, capacity, used, size>>

(* read(head) is over: a short output is returned from the stack, a longer *)
(* one copied to a string of its own.                                      *)
AfterHead ==
    /\ pc = "read" /\ (total = capacity \/ finished) /\ size = 0
    /\ used' = total
    /\ \/ /\ finished
          /\ pc' = "return" /\ ret' = "returned"
          /\ UNCHANGED size
       \/ /\ ~finished
          /\ size' = Larger(compressed.size, 2 * BlockSize)
          /\ pc' = "grow"
          /\ UNCHANGED ret
    /\ UNCHANGED <<compressed, inflaterVars, capacity>>

Grown == IF used = size THEN size * 2 ELSE size

(* while (!inflater.done()): the next read() goes to the end of the string.*)
ReadOn ==
    /\ pc = "grow" /\ ~finished
    /\ size' = Grown
    /\ capacity' = size' - used
    /\ total' = 0
    /\ pc' = "read"
    /\ UNCHANGED <<compressed, z, in, left, avail_in, finished, used, ret>>

AfterRead ==
    /\ pc = "read" /\ (total = capacity \/ finished) /\ size > 0
    /\ used' = used + total
    /\ pc' = "grow"
    /\ UNCHANGED <<compressed, inflaterVars, capacity, size, ret>>

(* result.resize(used)                                                     *)
Return ==
    /\ pc = "grow" /\ finished
    /\ size' = used
    /\ pc' = "return" /\ ret' = "returned"
    /\ UNCHANGED <<compressed, inflaterVars, capacity, used>>

Next == Construct \/ Round \/ AfterHead \/ ReadOn \/ AfterRead \/ Return

(* What the caller can tell of the decoding, in the words of Inflation.    *)
Decoded == IF ret = "returned" THEN used ELSE 0

Verdict ==
    CASE ret = "returned" -> "end" [] ret = "thrown" -> "corrupt" [] ret = "failed" -> "failed"
      [] pc = "ctor" -> "none"
      [] OTHER -> "reading"
=============================================================================
