------------------------------- MODULE LZ4Ring -------------------------------
(***************************************************************************)
(* The ring buffer both LZ4 compressing classes stage their input in       *)
(* (LZ4BlockStreaming::buffer and _offset, the leaf's lz4Stream) and the   *)
(* step they share: a block of n bytes is put at buffer[_offset] and       *)
(* compressed from there, then _offset advances or wraps.                  *)
(*                                                                         *)
(* Positions count from the construction of the object, so that a byte of  *)
(* an earlier stream, still in the ring after reset(), is told apart from  *)
(* the bytes of the current one.  _size and the digest follow `out'.       *)
(***************************************************************************)
EXTENDS Integers, Sequences, LZ4Codec

CONSTANTS Block,      \* LZ4_BLOCK_SIZE
          Wrap        \* LZ4_RING_BUFFER_BYTES - LZ4_BLOCK_SIZE

(* 2048, 262144 and 65535 in the code and in LZ4.                          *)
ASSUME RingAssumption ==
    /\ Block \in Nat \ {0}
    /\ Window \in Nat \ {0}
    /\ Wrap \in Nat
    /\ Wrap >= Window + Block

VARIABLES buffer,     \* address -> stream position, -1 where nothing was put
          offset,     \* _offset, where the next block goes
          dict,       \* lz4Stream's dictionary
          pos,        \* bytes compressed so far
          start,      \* pos at construction or at the last reset()
          out         \* the blocks produced since then

ringVars == <<buffer, offset, dict, pos, start, out>>

RingBytes == Wrap + Block

RingInit ==
    /\ buffer = [a \in 0 .. (RingBytes - 1) |-> -1]
    /\ offset = 0
    /\ dict = NoSpan
    /\ pos = 0 /\ start = 0
    /\ out = <<>>

(* Wrong ways to move on: the ring wraps one block late, wraps only after  *)
(* the bound was passed, or moves by a whole block after a short read.     *)
AdvancedLate(at, n) == IF at + n > Wrap THEN 0 ELSE at + n
AdvancedUnchecked(at, n) == IF at >= Wrap THEN 0 ELSE at + n
AdvancedByBlock(at, n) == IF at + Block >= Wrap THEN 0 ELSE at + Block

(* Add and wrap around the ring buffer offset.                             *)
Advanced(at, n) == IF at + n >= Wrap THEN 0 ELSE at + n

(* The body of next() once a block of n bytes is at hand.                  *)
Compress(n) ==
    /\ buffer' = Written(buffer, offset, pos, n)
    /\ out' = Append(out, [len  |-> n,
                           refs |-> Refs(buffer', Untouched(dict, offset, n))])
    /\ dict' = DictAfter(dict, offset, n)
    /\ offset' = Advanced(offset, n)
    /\ pos' = pos + n
    /\ UNCHANGED start

(* Wrong: lz4Stream is not reset and keeps its dictionary.                 *)
ResetRingOnly ==
    /\ offset' = 0
    /\ start' = pos
    /\ out' = <<>>
    /\ UNCHANGED <<buffer, dict, pos>>

(* _reset() and LZ4_resetStream(): the ring keeps its old bytes.           *)
ResetRing ==
    /\ offset' = 0
    /\ dict' = NoSpan
    /\ start' = pos
    /\ out' = <<>>
    /\ UNCHANGED <<buffer, pos>>

RingNext == ResetRing \/ \E n \in 1 .. Block : Compress(n)

RingSpec == RingInit /\ [][RingNext]_ringVars

-----------------------------------------------------------------------------
RingTypeOK ==
    /\ buffer \in [0 .. (RingBytes - 1) -> Int]
    /\ offset \in Nat
    /\ dict \in [lo : Nat, hi : Nat]
    /\ pos \in Nat /\ start \in Nat
    /\ out \in Seq([len : 1 .. Block, refs : Seq(Int)])

(* Every write of a block, memcpy or read() of up to LZ4_BLOCK_SIZE bytes  *)
(* at buffer[_offset], stays inside the ring, whatever the lengths of the  *)
(* blocks before it (a short read leaves _offset anywhere).                *)
NoOverrun == offset + Block <= RingBytes

(* The bytes lz4Stream will look for behind the next block are still the   *)
(* ones that precede it: wrapping has not overwritten what is in reach.    *)
DictIntact ==
    /\ offset > 0 => dict.hi = offset
    /\ \A d \in 1 .. Least(Window, Size(dict)) : buffer[dict.hi - d] = pos - d

(* A stream refers to no byte before its own beginning, so that a fresh    *)
(* decoder can read it, although the ring still holds older bytes.         *)
SelfContained ==
    \A i \in DOMAIN out : \A d \in DOMAIN out[i].refs : out[i].refs[d] >= start

(* The layout every producer of the format has to keep.                    *)
Layout == INSTANCE LZ4Layout WITH fill <- offset, hist <- Size(dict)

(* Each block sees exactly the bytes the layout gives it: after a wrap the *)
(* previous segment less what the block overwrote, in its segment all of   *)
(* it, never the ring's older contents.                                    *)
KeepsLayout == Layout!LayoutSpec
=============================================================================
