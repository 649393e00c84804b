------------------------------ MODULE LZ4Framing ------------------------------
(***************************************************************************)
(* The framing of an LZ4 stream: records of a two-byte length and a body.  *)
(* A volume is what a decoder is handed: `size' bytes, in which headers,   *)
(* as they come, claim bodies of claims[1], claims[2], ... bytes.  A       *)
(* truncated or damaged volume has headers that claim too much.            *)
(***************************************************************************)
EXTENDS Integers, Sequences

CONSTANTS Header,     \* sizeof(uint16_t)
          MaxCmp      \* LZ4_COMPRESSBOUND(LZ4_BLOCK_SIZE)

(* The header at the end of the known claims is that of an empty body; a   *)
(* volume says what it holds up to its size.                               *)
Claim(v, i) == IF i \in DOMAIN v.claims THEN v.claims[i] ELSE 0

(* Where record i ends, if all the records before it are framed.           *)
RecordEnd(v, i) ==
    LET end[j \in 0 .. i] == IF j = 0 THEN 0 ELSE end[j - 1] + Header + Claim(v, j)
    IN  end[i]

(* The test every decoder makes of the record whose header is at `at'.     *)
FitsHeader(v, at) == Header <= v.size - at

FitsBody(v, at, claim) == claim <= MaxCmp /\ claim <= v.size - at - Header

Framed(v, i) ==
    /\ FitsHeader(v, RecordEnd(v, i - 1))
    /\ FitsBody(v, RecordEnd(v, i - 1), Claim(v, i))

(* The header walk of decompress_lz4: the records up to the first that is  *)
(* not framed, and whether bytes are left after them.                      *)
WalkBlocks(v) ==
    CHOOSE k \in 0 .. v.size : (\A i \in 1 .. k : Framed(v, i)) /\ ~Framed(v, k + 1)

WalkBroken(v) == RecordEnd(v, WalkBlocks(v)) < v.size
=============================================================================
