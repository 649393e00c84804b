------------------------- MODULE MCDeflateDecompress -------------------------
(* Blocks of two bytes.  For the classes, volumes of four: one whose       *)
(* header gives nothing and whose rest gives more than two blocks, and one *)
(* that gives exactly a block.  For the call, with steps of three, volumes *)
(* of six: outputs that stay in the head, fill it exactly, fill the string *)
(* exactly, and make it double.  Each is whole, truncated at every place,  *)
(* followed by bytes that are not its own, or damaged at every place.  A   *)
(* loop astray finds damage at once, or bytes that happen to give a block. *)
EXTENDS DeflateDecompress

MCYields == {[k \in 0 .. 4 |-> IF k < 2 THEN 0 ELSE IF k < 3 THEN 3 ELSE 5],
             [k \in 0 .. 4 |-> IF k < 3 THEN 0 ELSE 2]}

MCVolumes == {[size |-> s, whole |-> 4, yields |-> y, bad |-> 0] :
                s \in 0 .. 6, y \in MCYields}
        \cup {[size |-> 5, whole |-> 4, yields |-> y, bad |-> b] :
                y \in MCYields, b \in 1 .. 4}

MCMisreadings ==
    {[size |-> s, whole |-> 2, yields |-> [k \in 0 .. 2 |-> 0], bad |-> 2] : s \in 0 .. 6}
        \cup
    {[size |-> s, whole |-> 2, yields |-> [k \in 0 .. 2 |-> k], bad |-> 0] : s \in 0 .. 6}

MCLongYields ==
    {[k \in 0 .. 6 |-> IF k < 2 THEN 0 ELSE IF k < 4 THEN 3 ELSE IF k < 6 THEN 9 ELSE 17],
     [k \in 0 .. 6 |-> k],
     [k \in 0 .. 6 |-> IF k < 3 THEN 0 ELSE 2]}

MCInputs == {[size |-> s, whole |-> 6, yields |-> y, bad |-> b] :
               s \in 0 .. 8, y \in MCLongYields, b \in 0 .. 6}

MCOffsets == {-1, 0}
=============================================================================
