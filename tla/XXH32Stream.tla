---------------------------- MODULE XXH32Stream ----------------------------
(***************************************************************************)
(* xxh32_stream.h: the digest of a stream, updated piece by piece.  A byte *)
(* is its position in the stream.  The four lanes are what they have been  *)
(* fed: so many bytes from the front of the stream, or something else.     *)
(***************************************************************************)
EXTENDS Integers

CONSTANTS Width,      \* 2^32, the width of total_len
          Lens,       \* the lengths callers update with
          MaxBytes    \* bound: bytes after a reset

ASSUME StreamAssumption ==
    Width \in Nat /\ Width >= 32 /\ Lens \subseteq Nat /\ MaxBytes \in Nat

VARIABLES total_len,
          large_len,  \* total_len once reached 16
          v,          \* the lanes: bytes they took, Spoilt if not in order
          mem32,      \* the carried bytes
          memsize,
          n           \* the bytes updated with since XXH32_reset

vars == <<total_len, large_len, v, mem32, memsize, n>>

Spoilt == -1
NoByte == -1

ResetState ==
    /\ total_len = 0 /\ large_len = FALSE
    /\ v = 0
    /\ mem32 = [i \in 0 .. 15 |-> NoByte] /\ memsize = 0
    /\ n = 0

Init == ResetState

(* Wrong: the middle one of three bytes is left out.                       *)
CopiedEnds(c) ==
    IF c >= 8 THEN 0 .. 7 \cup (c - 8) .. (c - 1)
    ELSE IF c >= 4 THEN 0 .. 3 \cup (c - 4) .. (c - 1)
    ELSE IF c # 0 THEN {0, c - 1}
    ELSE {}

(* copy_small: the bytes its fixed-size, overlapping copies write.         *)
Copied(c) ==
    IF c >= 8 THEN 0 .. 7 \cup (c - 8) .. (c - 1)
    ELSE IF c >= 4 THEN 0 .. 3 \cup (c - 4) .. (c - 1)
    ELSE IF c # 0 THEN {0, c \div 2, c - 1}
    ELSE {}

(* update_pinned copies with copy_small, update_start with memcpy.         *)
Kernels == {"pinned", "start"}

CopiedBy(kernel, c) == IF kernel = "start" THEN 0 .. (c - 1) ELSE Copied(c)

(* c bytes of the stream from `first' on, into the carry from `at' on.     *)
Carry(copied, at, first) ==
    [i \in 0 .. 15 |-> IF i - at \in copied THEN first + (i - at) ELSE mem32[i]]

(* A block in the carry, through the lanes.                                *)
CarriedBlock(lanes, m) ==
    IF \A i \in 0 .. 15 : m[i] = lanes + i THEN lanes + 16 ELSE Spoilt

(* Wrong: the last whole block is left out.                                *)
BlocksBefore(p, limit) == (limit - p) \div 16

(* do ... while (p <= limit)                                               *)
BlocksUpTo(p, limit) == (limit - p) \div 16 + 1

(* The whole blocks among the rest bytes from `first' on, through them.    *)
WholeBlocks(lanes, first, rest) ==
    IF rest < 16 THEN [lanes |-> lanes, took |-> 0]
    ELSE LET took == 16 * BlocksUpTo(first, first + (rest - 16))
         IN  [lanes |-> IF lanes = first THEN lanes + took ELSE Spoilt, took |-> took]

(* Wrong: the carry is held back until there is more than a block; the     *)
(* flag forgets once total_len has wrapped.                                *)
FitsToo(len) == memsize + len <= 16
LargeNow(len, total) == len >= 16 \/ total >= 16

Fits(len) == memsize + len < 16

Large(len, total) == large_len \/ len >= 16 \/ total >= 16

(* XXH32_update_as: what the carry cannot hold goes through the lanes, the *)
(* carried block first.  (A null input changes nothing.)                   *)
Update(kernel, len) ==
    /\ n + len <= MaxBytes
    /\ n' = n + len
    /\ total_len' = (total_len + len) % Width
    /\ large_len' = Large(len, total_len')
    /\ \/ /\ Fits(len)
          /\ mem32' = Carry(Copied(len), memsize, n)
          /\ memsize' = memsize + len
          /\ UNCHANGED v
       \/ /\ ~Fits(len)
          /\ LET take   == IF memsize # 0 THEN 16 - memsize ELSE 0
                 filled == Carry(CopiedBy(kernel, take), memsize, n)
                 lanes  == IF memsize # 0 THEN CarriedBlock(v, filled) ELSE v
                 whole  == WholeBlocks(lanes, n + take, len - take)
                 tail   == len - take - whole.took
             IN  /\ v' = whole.lanes
                 /\ memsize' = tail
                 /\ mem32' = [i \in 0 .. 15 |->
                                IF i \in CopiedBy(kernel, tail)
                                THEN n + take + whole.took + i ELSE filled[i]]

Reset ==
    /\ total_len' = 0 /\ large_len' = FALSE
    /\ v' = 0
    /\ mem32' = [i \in 0 .. 15 |-> NoByte] /\ memsize' = 0
    /\ n' = 0

Next == Reset \/ \E len \in Lens, kernel \in Kernels : Update(kernel, len)

Spec == Init /\ [][Next]_vars

-----------------------------------------------------------------------------
(* XXH32_digest: all it looks at.                                          *)
Digest == [large |-> large_len, lanes |-> IF large_len THEN v ELSE 0,
           total |-> total_len, tail |-> [i \in 0 .. (memsize - 1) |-> mem32[i]]]

TypeOK ==
    /\ total_len \in 0 .. (Width - 1)
    /\ large_len \in BOOLEAN
    /\ v \in Int
    /\ mem32 \in [0 .. 15 -> Int] /\ memsize \in 0 .. 15
    /\ n \in 0 .. MaxBytes

(* The digest depends on the bytes alone, not on how they were cut into    *)
(* updates nor on which kernel took them: it is that of the definition,    *)
(* also when total_len has wrapped.                                        *)
DigestOfAll ==
    LET rest  == n % 16
        whole == n - rest
    IN  Digest = [large |-> n >= 16, lanes |-> whole, total |-> n % Width,
                  tail |-> [i \in 0 .. (rest - 1) |-> whole + i]]
=============================================================================
