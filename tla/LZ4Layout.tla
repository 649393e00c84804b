------------------------------ MODULE LZ4Layout ------------------------------
(***************************************************************************)
(* What an LZ4 compressor of this library promises about the stream it     *)
(* writes: which earlier bytes each block may refer to.  The comment over  *)
(* the one-shot helpers of compressor_lz4.cc states it: LZ4's output       *)
(* depends on where each block sits relative to the previous ones, so      *)
(* every producer has to keep the same layout.                             *)
(*                                                                         *)
(* Blocks fill a segment until it holds at least Wrap bytes; then a new    *)
(* segment begins.  A block may refer to the bytes of its own segment,     *)
(* and the first block of a segment to those of the segment before it,     *)
(* Window bytes at most.  A restart begins a stream of its own.            *)
(***************************************************************************)
EXTENDS Integers, Sequences

CONSTANTS Block,      \* LZ4_BLOCK_SIZE, the most bytes in a block
          Wrap,       \* wrap_size = LZ4_RING_BUFFER_BYTES - LZ4_BLOCK_SIZE
          Window      \* the farthest back a match may reach

VARIABLES pos,        \* bytes compressed since the compressor was created
          start,      \* the value of pos when the current stream began
          fill,       \* bytes in the segment being filled
          hist,       \* bytes a block may refer to, the Window aside
          out         \* the blocks of the current stream

layoutVars == <<pos, start, fill, hist, out>>

LayoutInit ==
    /\ pos = 0 /\ start = 0
    /\ fill = 0 /\ hist = 0
    /\ out = <<>>

(* A block of n bytes.  refs[d] is the byte at distance d before it.       *)
Emit(n) ==
    /\ out' = Append(out,
                 [len |-> n,
                  refs |-> [d \in 1 .. (IF Window <= hist THEN Window ELSE hist)
                               |-> pos - d]])
    /\ pos' = pos + n
    /\ fill' = IF fill + n >= Wrap THEN 0 ELSE fill + n
    /\ hist' = fill + n
    /\ UNCHANGED start

Restart ==
    /\ start' = pos
    /\ fill' = 0 /\ hist' = 0
    /\ out' = <<>>
    /\ UNCHANGED pos

LayoutNext == Restart \/ \E n \in 1 .. Block : Emit(n)

LayoutSpec == LayoutInit /\ [][LayoutNext]_layoutVars

-----------------------------------------------------------------------------
(* The stream of n bytes that begins at position `from', written down      *)
(* rather than produced: every block is full but the last, and Wrap is a   *)
(* multiple of Block.  Two producers that write it write the same bytes.   *)
Blocks(n) == (n + Block - 1) \div Block

HistOf(i) == LET inSegment == ((i - 1) * Block) % Wrap
             IN  IF inSegment = 0 /\ i > 1 THEN Wrap ELSE inSegment

Stream(from, n) ==
    [i \in 1 .. Blocks(n) |->
        [len  |-> IF i * Block <= n THEN Block ELSE n - (i - 1) * Block,
         refs |-> [d \in 1 .. (IF Window <= HistOf(i) THEN Window ELSE HistOf(i))
                     |-> from + (i - 1) * Block - d]]]
=============================================================================
