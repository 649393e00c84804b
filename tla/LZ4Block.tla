------------------------------ MODULE LZ4Block ------------------------------
(***************************************************************************)
(* compress_lz4_block and decompress_lz4_block: size_t arguments before a  *)
(* library that counts in int, with one state per thread, made by the      *)
(* thread's first call and never asked for again.                          *)
(***************************************************************************)
EXTENDS Integers

CONSTANTS IntMax,     \* INT32_MAX
          InputMax,   \* LZ4_MAX_INPUT_SIZE
          BlockExtra, \* LZ4_compressBound(n) - n
          Sizes,      \* the sizes of callers' buffers
          Streams     \* what callers decode: a size, what that decodes to
                      \* (`total'), and whether it is sound

ASSUME BlockAssumption ==
    /\ IntMax \in Nat /\ InputMax \in Nat /\ BlockExtra \in Nat
    /\ InputMax + BlockExtra <= IntMax
    /\ Sizes \subseteq Nat
    /\ Streams \subseteq [size : Nat, total : Nat, sound : BOOLEAN]

VARIABLES blockState, \* "none" yet, "held", or "null" for good
          blockCall   \* the last call: its arguments and what it gave

blockVars == <<blockState, blockCall>>

NoStream == [size |-> 0, total |-> 0, sound |-> FALSE]

BlockInit ==
    /\ blockState = "none"
    /\ blockCall = [fn |-> "none", stream |-> NoStream, size |-> 0, n |-> 0]

(* static_cast<int>.                                                       *)
AsInt(n) == ((n + IntMax + 1) % (2 * (IntMax + 1))) - (IntMax + 1)

(* lz4_block_bound().                                                      *)
BlockBound(n) == IF n > InputMax THEN 0 ELSE n + BlockExtra

(* Wrong: the cast alone.                                                  *)
CapacityCast(capacity) == AsInt(capacity)

CapacityInt(capacity) == IF capacity > IntMax THEN IntMax ELSE AsInt(capacity)

(* LZ4_compress_fast_extState: any length up to the bound where that fits; *)
(* else what fits, or 0.                                                   *)
Compressed(n, capacity) ==
    IF capacity >= BlockBound(n) THEN 1 .. BlockBound(n) ELSE {0} \cup 1 .. capacity

CompressBlock(size, capacity) ==
    /\ blockState' \in IF blockState = "none" THEN {"held", "null"} ELSE {blockState}
    /\ \E n \in IF blockState' = "null" \/ size > InputMax THEN {0}
                ELSE Compressed(size, CapacityInt(capacity)) :
          blockCall' = [fn |-> "compress", size |-> capacity, n |-> n,
                        stream |-> [size |-> size, total |-> size, sound |-> TRUE]]

(* LZ4_decompress_safe of the first `size' bytes into `room': the length,  *)
(* or a negative number; nothing is known of bytes cut short.              *)
DecompressSafe(v, size, room) ==
    IF size # v.size THEN {-1} \cup 0 .. room
    ELSE IF v.sound /\ v.total <= room THEN {v.total} ELSE {-1}

(* Wrong: the casts are trusted.                                           *)
OutOfRangeNever(v, size) == FALSE

OutOfRange(v, size) == v.size > IntMax \/ size > IntMax

DecompressBlock(v, size) ==
    /\ \E n \in IF OutOfRange(v, size) THEN {-1} ELSE DecompressSafe(v, AsInt(v.size), AsInt(size)) :
          blockCall' = [fn |-> "decompress", stream |-> v, size |-> size,
                        n |-> IF n = size THEN n ELSE -1]
    /\ UNCHANGED blockState

BlockNext ==
    \/ \E size, capacity \in Sizes : CompressBlock(size, capacity)
    \/ \E v \in Streams, size \in Sizes : DecompressBlock(v, size)

-----------------------------------------------------------------------------
(* compressor_lz4.h:452-463, for sizes on either side of what an int       *)
(* holds: a block stays in its buffer, 0 means that it need not fit or may *)
(* not be compressed at all, and true that the bytes decode to exactly     *)
(* what was asked for.                                                     *)
BlocksIntoBuffer ==
    /\ blockCall.fn = "compress" =>
        /\ blockCall.n <= blockCall.size
        /\ blockCall.n = 0 =>
            \/ blockState = "null"
            \/ blockCall.stream.size > InputMax
            \/ blockCall.size < BlockBound(blockCall.stream.size)
    /\ blockCall.fn = "decompress" /\ blockCall.n >= 0 =>
        blockCall.stream.sound /\ blockCall.stream.total = blockCall.size
    /\ blockCall.fn = "decompress" /\ blockCall.n < 0 =>
        \/ blockCall.size > IntMax \/ blockCall.stream.size > IntMax
        \/ ~blockCall.stream.sound \/ blockCall.stream.total # blockCall.size
=============================================================================
