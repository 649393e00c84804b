--------------------------- MODULE LZ4CompressData ---------------------------
(***************************************************************************)
(* class LZ4CompressData: the ring of LZ4Ring fed from a caller's buffer,  *)
(* driven through the iterator of LZ4BlockStreaming:                       *)
(*     for (auto it = obj.begin(); it; ++it) out.append( *it);             *)
(* LZ4BlockStreaming composes it with LZ4CompressFile.                     *)
(***************************************************************************)
EXTENDS LZ4Ring

CONSTANTS Sizes,      \* the sizes of the buffers callers hand in
          MaxPos      \* bound: no reset() or begin() once pos reaches it

VARIABLES data_size,
          data_offset,
          it,         \* "none" before begin(), then the iterator's block
                      \* ("block") or its empty string ("end")
          first       \* pos at the last begin()

dataVars == <<data_size, data_offset, it, first>>
vars == <<ringVars, dataVars>>

Init ==
    /\ RingInit
    /\ data_size \in Sizes
    /\ data_offset = 0
    /\ it = "none"
    /\ first = 0

(* Wrong: the whole buffer at once; a last block that is never empty.      *)
InputBytesAll(from) == data_size - from
AtEndAgain == "block"

InputBytes(from) == Least(Block, data_size - from)
AtEnd == "end"            \* next() returns an empty string

(* next(), entered with the data consumed up to `from'.                    *)
NextFrom(from) ==
    \/ /\ from >= data_size
       /\ data_offset' = from
       /\ it' = AtEnd
       /\ UNCHANGED ringVars
    \/ LET n == InputBytes(from) IN
       /\ from < data_size
       /\ data_offset' = from + n
       /\ it' = "block"
       /\ Compress(n)

(* Wrong: init() goes on from where the last iteration stopped.            *)
BeginWhereLeft ==
    /\ pos < MaxPos
    /\ first' = pos
    /\ NextFrom(data_offset)
    /\ UNCHANGED data_size

(* begin(): init() rewinds the data, not the ring.                         *)
Begin ==
    /\ pos < MaxPos
    /\ first' = pos
    /\ NextFrom(0)
    /\ UNCHANGED data_size

(* ++it, which the driving loop reaches only with a block at hand.         *)
Increment ==
    /\ it = "block"
    /\ NextFrom(data_offset)
    /\ UNCHANGED <<data_size, first>>

(* reset(data, size, seed): data_offset is left to the next begin().       *)
Reset(n) ==
    /\ pos < MaxPos
    /\ ResetRing
    /\ data_size' = n
    /\ it' = "none"
    /\ first' = pos
    /\ UNCHANGED data_offset

(* add_data() and close() between two iterations.                          *)
AddData(n) ==
    /\ it # "block"
    /\ data_size' = n
    /\ it' = "none"
    /\ UNCHANGED <<ringVars, data_offset, first>>

Close ==
    /\ it # "block"
    /\ data_offset' = 0
    /\ it' = "none"
    /\ UNCHANGED <<ringVars, data_size, first>>

Next ==
    \/ Begin
    \/ Increment
    \/ \E n \in Sizes : Reset(n) \/ AddData(n)
    \/ Close
=============================================================================
