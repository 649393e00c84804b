--------------------------- MODULE MCLZ4Decompress ---------------------------
(* Records of one or two bytes wrap a ring of four bytes and one block on  *)
(* every alignment, and five of them take decompress_lz4 once round its own.*)
(* `data' of LZ4DecompressFile holds a header and the longest body, five   *)
(* bytes; bodies of one, two and three bytes cut headers and bodies at     *)
(* every place.  There are whole streams, an empty one, some cut inside a  *)
(* header or a body, and some whose header claims more than a block takes. *)
EXTENDS LZ4Decompress

MCVolumes == {[size |-> 15, claims |-> <<1, 1, 1, 1, 1>>],
              [size |-> 4,  claims |-> <<1, 1>>],
              [size |-> 6,  claims |-> <<2, 1>>],
              [size |-> 12, claims |-> <<1, 4, 1>>],
              [size |-> 0,  claims |-> <<>>]}
MCFiles == {[size |-> 12, claims |-> <<2, 1, 3>>],
            [size |-> 10, claims |-> <<1, 1, 3>>],
            [size |-> 9,  claims |-> <<2, 4>>]}
MCLimits == {-1, 7}
=============================================================================
