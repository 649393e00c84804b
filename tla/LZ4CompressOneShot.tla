-------------------------- MODULE LZ4CompressOneShot --------------------------
(***************************************************************************)
(* compress_lz4: the stream of LZ4CompressData without the class.  The     *)
(* first wrap_size bytes are compressed from the caller's buffer, the rest *)
(* through a ring.  `enc' is thread_local: it outlives the call, with the  *)
(* dictionary the last call left, even one that threw half way.  So is the *)
(* memory the call writes to (Scratch), shared with the other codecs.      *)
(*                                                                         *)
(* Addresses: the caller's buffer from 0, the ring from RingAt on.         *)
(***************************************************************************)
EXTENDS Integers, Sequences, LZ4Codec, Scratch

CONSTANTS Block,      \* LZ4_BLOCK_SIZE
          Wrap,       \* wrap_size
          Record,     \* sizeof(uint16_t) + cmp_capacity, the longest record
          MaxInput,   \* bound: the longest input
          MaxPos      \* bound: no call once pos reaches it

ASSUME OneShotAssumption ==
    /\ Block \in Nat \ {0}
    /\ Window \in Nat \ {0}
    /\ Wrap \in Nat
    /\ Wrap >= Window + Block
    /\ Wrap % Block = 0
    /\ Record \in Nat
    /\ MaxInput \in Nat /\ MaxPos \in Nat

VARIABLES mem,        \* the caller's buffer and the ring
          enc,        \* whether LZ4_createStream had memory for this thread
          dict,       \* enc.p's dictionary
          n,          \* uncompressed.size()
          off,        \* bytes of the input compressed so far
          roff,       \* where the ring takes the next block
          pc,         \* "idle", "direct", "ring" or "leave"
          result,     \* "none", "returned" or "thrown", of the last call
          pos, start, \* bytes compressed by this thread, and before this call
          out         \* the blocks written to the scratch buffer

lz4Vars == <<mem, enc, dict, n, off, roff, pc, result, pos, start, out>>

RingBytes == Wrap + Block
RingAt == MaxInput + 1

LZ4Init ==
    /\ enc \in BOOLEAN
    /\ mem = [a \in 0 .. (RingAt + RingBytes - 1) |-> -1]
    /\ dict = NoSpan
    /\ n = 0 /\ off = 0 /\ roff = 0
    /\ pc = "idle" /\ result = "none"
    /\ pos = 0 /\ start = 0
    /\ out = <<>>

(* Blocks are compressed from the caller's buffer while it stands for the  *)
(* ring's first round.                                                     *)
DirectRoom == off < Wrap

(* Wrong: the rest of the input in one block.                              *)
BlockLengthAll == n - off

BlockLength == Least(Block, n - off)

(* Wrong: the ring wraps one block late, or not at all.                    *)
AdvancedLate(at, len) == IF at + len > Wrap THEN 0 ELSE at + len
AdvancedNever(at, len) == at + len

Advanced(at, len) == IF at + len >= Wrap THEN 0 ELSE at + len

(* Wrong: enc keeps the last call's dictionary.                            *)
EncoderKept == dict

(* LZ4_resetStream(enc.p).                                                 *)
EncoderReset == NoSpan

(* Wrong: memory for the whole blocks only.                                *)
WholeBlocks(size) == size \div Block

BlockCount(size) == (size + Block - 1) \div Block

OutSize(size) == BlockCount(size) * Record

(* The empty input returns before anything is asked for.                   *)
CallEmpty ==
    /\ pc = "idle"
    /\ n' = 0
    /\ result' = "returned"
    /\ UNCHANGED <<scratchVars, mem, enc, dict, off, roff, pc, pos, start, out>>

(* The entry of a call: `out' has its memory, the caller's bytes are in    *)
(* its buffer, and LZ4_resetStream forgets what the last call left in enc. *)
Call(size) ==
    /\ pc = "idle" /\ enc
    /\ pos < MaxPos
    /\ Acquire(OutSize(size))
    /\ n' = size /\ off' = 0 /\ roff' = 0
    /\ mem' = [a \in DOMAIN mem |-> IF a < size THEN pos + a ELSE
                                    IF a < RingAt THEN -1 ELSE mem[a]]
    /\ dict' = EncoderReset
    /\ start' = pos
    /\ out' = <<>>
    /\ pc' = "direct" /\ result' = "none"
    /\ UNCHANGED <<enc, pos>>

(* std::bad_alloc, from Scratch or because the thread has no encoder.      *)
CallRefused(size) ==
    /\ pc = "idle"
    /\ result' = "thrown"
    /\ \/ Refuse(OutSize(size)) /\ UNCHANGED pc
       \/ ~enc /\ Acquire(OutSize(size)) /\ pc' = "leave"
    /\ UNCHANGED <<mem, enc, dict, n, off, roff, pos, start, out>>

(* The lambda `block', for len bytes at src.                               *)
CompressAt(src, len) ==
    /\ out' = Append(out, [len  |-> len,
                           refs |-> Refs(mem', Untouched(dict, src, len))])
    /\ dict' = DictAfter(dict, src, len)
    /\ off' = off + len
    /\ pos' = pos + len
    /\ UNCHANGED <<scratchVars, enc, n, start, result>>

DirectBlock ==
    /\ pc = "direct"
    /\ off < n /\ DirectRoom
    /\ mem' = mem
    /\ CompressAt(off, BlockLength)
    /\ UNCHANGED <<roff, pc>>

(* `new char[]' leaves the ring's bytes undefined.                         *)
AllocateRing ==
    /\ pc = "direct"
    /\ off < n /\ ~DirectRoom
    /\ pc' = "ring" /\ roff' = 0
    /\ mem' = [a \in DOMAIN mem |-> IF a >= RingAt THEN -1 ELSE mem[a]]
    /\ UNCHANGED <<scratchVars, enc, dict, n, off, result, pos, start, out>>

RingBlock ==
    /\ pc = "ring"
    /\ off < n
    /\ LET len == BlockLength IN
       /\ mem' = Written(mem, RingAt + roff, start + off, len)
       /\ CompressAt(RingAt + roff, len)
       /\ roff' = Advanced(roff, len)
    /\ UNCHANGED pc

Return ==
    /\ pc \in {"direct", "ring"}
    /\ off = n
    /\ pc' = "leave" /\ result' = "returned"
    /\ UNCHANGED <<scratchVars, mem, enc, dict, n, off, roff, pos, start, out>>

(* std::bad_alloc from the ring or from the result string.                 *)
Throw ==
    /\ \/ pc = "direct" /\ off < n /\ ~DirectRoom
       \/ pc \in {"direct", "ring"} /\ off = n
    /\ pc' = "leave" /\ result' = "thrown"
    /\ UNCHANGED <<scratchVars, mem, enc, dict, n, off, roff, pos, start, out>>

(* A call's Scratch goes out of scope.                                     *)
Leave ==
    /\ pc = "leave"
    /\ Release
    /\ pc' = "idle"
    /\ UNCHANGED <<mem, enc, dict, n, off, roff, result, pos, start, out>>

LZ4Next ==
    \/ CallEmpty
    \/ \E size \in 1 .. MaxInput : Call(size) \/ CallRefused(size)
    \/ DirectBlock \/ AllocateRing \/ RingBlock
    \/ Return \/ Throw \/ Leave

-----------------------------------------------------------------------------
LZ4TypeOK ==
    /\ enc \in BOOLEAN
    /\ mem \in [0 .. (RingAt + RingBytes - 1) -> Int]
    /\ dict \in [lo : Nat, hi : Nat]
    /\ n \in 0 .. MaxInput /\ off \in Nat /\ roff \in Nat
    /\ pc \in {"idle", "direct", "ring", "leave"}
    /\ result \in {"none", "returned", "thrown"}
    /\ pos \in Nat /\ start \in Nat
    /\ out \in Seq([len : 1 .. Block, refs : Seq(Int)])

(* Whatever lengths the records come to, the next one still fits where it  *)
(* is written, in memory sized before anything is compressed; and a block  *)
(* copied into the ring stays inside it.                                   *)
NoOverrun ==
    /\ pc \in {"direct", "ring"} /\ off < n => (Len(out) + 1) * Record <= memory.room
    /\ pc = "ring" => roff + Block <= RingBytes

(* The layout of the class's ring, although the first segment never was in *)
(* a ring: the helpers "keep that layout" (compressor_lz4.cc:438).         *)
Layout ==
    INSTANCE LZ4Layout
    WITH fill <- IF off >= Wrap THEN roff ELSE off,
         hist <- Size(dict)

KeepsLayout == Layout!LayoutSpec

(* What a call returns is the stream the format defines for its input,     *)
(* whatever earlier calls on this thread did: "the bytes must not depend   *)
(* on earlier calls" (compressor_lz4.cc:487), and they are the class's.    *)
StreamOfInput ==
    result = "returned" /\ n > 0 => out = Layout!Stream(start, n)
=============================================================================
