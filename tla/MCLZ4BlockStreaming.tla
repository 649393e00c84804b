------------------------- MODULE MCLZ4BlockStreaming -------------------------
(* Three blocks of two bytes to a segment.  A buffer of thirteen bytes     *)
(* closes two segments and begins a third; the others are none, one that   *)
(* ends inside a block and one that ends on the wrap.  A file of nine      *)
(* bytes wraps the ring with full blocks, and with reads cut short by      *)
(* errors on every alignment.                                              *)
EXTENDS LZ4BlockStreaming

MCSizes == {0, 3, 6, 13}
MCFileSizes == {0, 9}
MCOffsets == {-1, 2}
MCLimits == {-1, 3}
=============================================================================
