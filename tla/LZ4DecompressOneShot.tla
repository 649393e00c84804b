------------------------- MODULE LZ4DecompressOneShot -------------------------
(***************************************************************************)
(* decompress_lz4: the bytes of LZ4DecompressData without the class.  The  *)
(* headers are walked first; then blocks are decoded one after another     *)
(* into scratch memory until wrap_size bytes are there, and the rest       *)
(* through a ring into a string (`spill').                                 *)
(*                                                                         *)
(* Addresses: the scratch memory from 0, the ring from RingAt on.          *)
(***************************************************************************)
EXTENDS Integers, Sequences, LZ4Codec, LZ4Framing

CONSTANTS Block,      \* LZ4_BLOCK_SIZE
          Wrap,       \* wrap_size
          Volumes,    \* the streams callers hand in
          MaxPos      \* bound: no call once pos reaches it

VARIABLES mem,        \* the scratch memory and the ring
          capacity,   \* bytes of scratch memory this call asked for
          volume,
          blocks, framing_error,   \* what the header walk found
          b,          \* blocks decoded
          total,      \* bytes decoded into the scratch memory
          roff,       \* where the ring takes the next block
          spill,      \* bytes appended to the string `spill'
          pc,         \* "idle", "direct" or "ring"
          result,     \* "none", "returned", "thrown" or "bad_alloc"
          length,     \* bytes in the string returned
          sd, pos, start, last, got, verdict   \* as in LZ4DecodeRing

callVars == <<volume, blocks, framing_error, capacity>>
stringVars == <<result, length>>
vars == <<mem, callVars, b, total, roff, spill, pc, stringVars,
          sd, pos, start, last, got, verdict>>

Decoder == INSTANCE LZ4Decoder

Records == Decoder!Records

RingBytes == Wrap + Block
contiguous_capacity == Wrap + Block
RingAt == contiguous_capacity + 1

Blank == [a \in 0 .. (RingAt + RingBytes - 1) |-> -1]

Init ==
    /\ mem = Blank
    /\ volume \in Volumes
    /\ blocks = 0 /\ framing_error = FALSE /\ capacity = 0
    /\ b = 0 /\ total = 0 /\ roff = 0 /\ spill = 0
    /\ pc = "idle" /\ result = "none" /\ length = 0
    /\ sd = NoHistory
    /\ Decoder!DecoderInit

(* Wrong: scratch memory for the first segment only.                       *)
ScratchSizeTight(count) == Least(count * Block, Wrap)

(* The scratch memory a call asks for.                                     *)
ScratchSize(count) == Least(count * Block, contiguous_capacity)

(* Wrong: one block more than the walk found.                              *)
BlocksLeftOne == b <= blocks

BlocksLeft == b < blocks

(* Blocks are decoded into the scratch memory while there is room.         *)
DirectRoom == total < Wrap

(* Wrong: every block at the front of the ring.                            *)
AdvancedNot(at, len) == 0

Advanced(at, len) == IF at + len >= Wrap THEN 0 ELSE at + len

(* The entry of a call: the header walk, the scratch memory, whose bytes   *)
(* are undefined, and a decoder of its own on the stack.                   *)
Call(v) ==
    /\ pc = "idle"
    /\ pos < MaxPos
    /\ volume' = v
    /\ blocks' = WalkBlocks(v) /\ framing_error' = WalkBroken(v)
    /\ capacity' = ScratchSize(blocks')
    /\ mem' = Blank
    /\ b' = 0 /\ total' = 0 /\ roff' = 0 /\ spill' = 0
    /\ pc' = "direct" /\ result' = "none" /\ length' = 0
    /\ sd' = NoHistory
    /\ Decoder!Open

Decodable(r, dst) == r.ok /\ r.reach <= Available(sd, dst)

(* The lambda `decode', when the record decodes.                           *)
DecodeAt(r, dst) ==
    /\ Decodable(r, dst)
    /\ last' = r
    /\ got' = Append(got, [len  |-> r.len,
                           refs |-> [d \in 1 .. r.reach |->
                                       Seen(mem, sd, dst, pos, r.len, d)]])
    /\ mem' = Written(mem, dst, pos, r.len)
    /\ sd' = HistoryAfter(sd, dst, r.len)
    /\ pos' = pos + r.len
    /\ b' = b + 1
    /\ UNCHANGED <<start, verdict>>

(* A header of 0 frames an empty body, which no block decodes from.        *)
Possible(r) == Claim(volume, b + 1) = 0 => ~r.ok

DirectBlock(r) ==
    /\ pc = "direct"
    /\ BlocksLeft /\ DirectRoom
    /\ Possible(r)
    /\ DecodeAt(r, total)
    /\ total' = total + r.len
    /\ UNCHANGED <<callVars, roff, spill, pc, stringVars>>

(* Blocks are left: `spill' takes what the scratch memory holds, and the   *)
(* ring, uninitialized, is allocated.                                      *)
StartRing ==
    /\ pc = "direct"
    /\ BlocksLeft /\ ~DirectRoom
    /\ spill' = total
    /\ roff' = 0
    /\ pc' = "ring"
    /\ UNCHANGED <<mem, callVars, b, total, stringVars,
                   sd, pos, start, last, got, verdict>>

RingBlock(r) ==
    /\ pc = "ring"
    /\ BlocksLeft
    /\ Possible(r)
    /\ DecodeAt(r, RingAt + roff)
    /\ spill' = spill + r.len
    /\ roff' = Advanced(roff, r.len)
    /\ UNCHANGED <<callVars, total, pc, stringVars>>

(* THROW from `decode': nothing of what was decoded is returned.           *)
ThrowBlock(r) ==
    /\ \/ pc = "direct" /\ BlocksLeft /\ DirectRoom /\ ~Decodable(r, total)
       \/ pc = "ring" /\ BlocksLeft /\ ~Decodable(r, RingAt + roff)
    /\ last' = r
    /\ verdict' = "corrupt"
    /\ pc' = "idle" /\ result' = "thrown"
    /\ UNCHANGED <<mem, callVars, b, total, roff, spill, length,
                   sd, pos, start, got>>

(* The framing is judged only after every framed block has decoded.        *)
ThrowFraming ==
    /\ pc # "idle" /\ b = blocks
    /\ framing_error
    /\ Decoder!BadFraming
    /\ pc' = "idle" /\ result' = "thrown"
    /\ UNCHANGED <<mem, callVars, b, total, roff, spill, length, sd>>

(* Wrong: the ring's part of the output is forgotten.                      *)
StringLengthScratch == total

StringLength == IF spill > 0 THEN spill ELSE total

Return ==
    /\ pc # "idle" /\ b = blocks
    /\ ~framing_error
    /\ length' = StringLength
    /\ pc' = "idle" /\ result' = "returned"
    /\ UNCHANGED <<mem, callVars, b, total, roff, spill,
                   sd, pos, start, last, got, verdict>>

(* spill.reserve(), an append that grows it, or `new char[]' for the ring. *)
BadAlloc ==
    /\ \/ pc = "direct" /\ BlocksLeft /\ ~DirectRoom
       \/ pc = "ring" /\ BlocksLeft
       \/ pc = "direct" /\ b = blocks /\ ~framing_error
    /\ pc' = "idle" /\ result' = "bad_alloc"
    /\ UNCHANGED <<mem, callVars, b, total, roff, spill, length,
                   sd, pos, start, last, got, verdict>>

Next ==
    \/ \E v \in Volumes : Call(v)
    \/ \E r \in Records : DirectBlock(r) \/ RingBlock(r) \/ ThrowBlock(r)
    \/ StartRing
    \/ ThrowFraming \/ Return \/ BadAlloc
=============================================================================
