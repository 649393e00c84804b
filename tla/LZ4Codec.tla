------------------------------ MODULE LZ4Codec ------------------------------
(***************************************************************************)
(* What liblz4's streaming calls do to the dictionary, as the code in      *)
(* compressor_lz4.cc relies on it.  (liblz4 itself is not in the           *)
(* repository.)                                                            *)
(*                                                                         *)
(* Memory is a function from addresses to stream positions: a cell holds   *)
(* the position of the uncompressed byte last written there.  A span       *)
(* [lo, hi) of addresses is what LZ4 remembers of the bytes it has already *)
(* seen; it keeps no copy, so what a back-reference means is whatever the  *)
(* cells hold when the next block is compressed or decompressed.           *)
(***************************************************************************)
EXTENDS Integers

CONSTANT Window      \* the farthest back a match may reach (64 KB - 1 in LZ4)

Least(a, b) == IF a <= b THEN a ELSE b

NoSpan == [lo |-> 0, hi |-> 0]

Size(span) == span.hi - span.lo

(* memcpy, or the decoder's output: `len' bytes, the first of them stream  *)
(* position `from', land at address `at'.                                  *)
Written(mem, at, from, len) ==
    [a \in DOMAIN mem |-> IF a \in at .. (at + len - 1) THEN from + (a - at)
                                                        ELSE mem[a]]

-----------------------------------------------------------------------------
(* LZ4_compress_fast_continue.  A block that starts where the dictionary   *)
(* ends extends it (prefix mode).  Any other block sees the dictionary as  *)
(* an external one, less the part the block itself was copied over, and    *)
(* becomes the whole dictionary of the next block.                         *)
Untouched(dict, src, len) ==
    IF dict.lo < src + len /\ src + len < dict.hi
    THEN [lo |-> src + len, hi |-> dict.hi]
    ELSE dict

DictAfter(dict, src, len) ==
    [lo |-> IF dict.hi = src THEN dict.lo ELSE src, hi |-> src + len]

(* The stream positions a block may refer to, by distance from its start.  *)
Refs(mem, dict) ==
    [d \in 1 .. Least(Window, Size(dict)) |-> mem[dict.hi - d]]

-----------------------------------------------------------------------------
(* LZ4_decompress_safe_continue.  A block decoded right after the previous *)
(* one extends the prefix and keeps the external dictionary; a block       *)
(* decoded anywhere else makes the prefix the external dictionary.         *)
NoHistory == [prefix |-> NoSpan, ext |-> NoSpan]

Before(sd, dst) ==                \* what the block decoded at dst can see
    CASE Size(sd.prefix) = 0  -> [prefix |-> [lo |-> dst, hi |-> dst], ext |-> NoSpan]
      [] Size(sd.prefix) > 0 /\ sd.prefix.hi = dst -> sd
      [] OTHER -> [prefix |-> [lo |-> dst, hi |-> dst], ext |-> sd.prefix]

HistoryAfter(sd, dst, len) ==
    [Before(sd, dst) EXCEPT !.prefix.hi = dst + len]

Available(sd, dst) == Size(Before(sd, dst).prefix) + Size(Before(sd, dst).ext)

(* The address a decoder reads for the byte d before the block.            *)
CellAt(sd, dst, d) ==
    LET h == Before(sd, dst)
    IN  IF d <= Size(h.prefix) THEN h.prefix.hi - d
                               ELSE h.ext.hi - (d - Size(h.prefix))

(* What a block of len bytes decoded at dst finds there.  Its matches copy *)
(* while it is written: the byte d before the block is in reach until      *)
(* Window - d bytes of the block are out, and by then they may lie on it.  *)
Seen(mem, sd, dst, from, len, d) ==
    LET cell == CellAt(sd, dst, d)
    IN  IF cell \in dst .. (dst + Least(len - 1, Window - d) - 1)
        THEN from + (cell - dst)
        ELSE mem[cell]
=============================================================================
