---------------------------- MODULE LZ4DecodeRing ----------------------------
(***************************************************************************)
(* The ring buffer both LZ4 decompressing classes decode into, and the     *)
(* step they share: a record's block is decoded at buffer[_offset] with    *)
(* lz4StreamDecode, which finds its history in the ring, then _offset      *)
(* advances or wraps.                                                      *)
(***************************************************************************)
EXTENDS Integers, Sequences, LZ4Codec

CONSTANTS Block,      \* LZ4_BLOCK_SIZE
          Wrap        \* LZ4_RING_BUFFER_BYTES - LZ4_BLOCK_SIZE

ASSUME DecodeRingAssumption ==
    /\ Block \in Nat \ {0}
    /\ Window \in Nat \ {0}
    /\ Wrap \in Nat
    /\ Wrap >= Window + Block

VARIABLES buffer,     \* address -> stream position, -1 for no byte of a stream
          offset,     \* _offset
          sd,         \* lz4StreamDecode
          pos, start, last, got, verdict   \* as in LZ4Decoder

ringVars == <<buffer, offset, sd, pos, start, last, got, verdict>>

RingBytes == Wrap + Block

Decoder == INSTANCE LZ4Decoder

Records == Decoder!Records

RingInit ==
    /\ buffer = [a \in 0 .. (RingBytes - 1) |-> -1]
    /\ offset = 0
    /\ sd = NoHistory
    /\ Decoder!DecoderInit

(* Wrong: wraps only after the bound was passed; every block at the front. *)
AdvancedUnchecked(at, n) == IF at >= Wrap THEN 0 ELSE at + n
AdvancedNot(at, n) == 0

Advanced(at, n) == IF at + n >= Wrap THEN 0 ELSE at + n

(* Wrong: any body is taken to decode.                                     *)
DecodableAnyway(r) == r.reach <= Available(sd, offset)

(* LZ4_decompress_safe_continue refuses a match before the history it has. *)
Decodable(r) == r.ok /\ r.reach <= Available(sd, offset)

(* next() once the record's bytes are in cmpBuf.                           *)
Decode(r) ==
    /\ verdict = "open"
    /\ Decodable(r)
    /\ last' = r
    /\ got' = Append(got, [len  |-> r.len,
                           refs |-> [d \in 1 .. r.reach |->
                                       Seen(buffer, sd, offset, pos, r.len, d)]])
    /\ buffer' = Written(buffer, offset, pos, r.len)
    /\ sd' = HistoryAfter(sd, offset, r.len)
    /\ offset' = Advanced(offset, r.len)
    /\ pos' = pos + r.len
    /\ UNCHANGED <<start, verdict>>

(* THROW: what the record decoded to before the error stays in the ring.   *)
Refuse(r) ==
    /\ verdict = "open"
    /\ ~Decodable(r)
    /\ last' = r
    /\ verdict' = "corrupt"
    /\ \E k \in 0 .. Block :
         buffer' = [a \in DOMAIN buffer |->
                      IF a \in offset .. (offset + k - 1) THEN -1 ELSE buffer[a]]
    /\ UNCHANGED <<offset, sd, pos, start, got>>

RefuseFraming == Decoder!BadFraming /\ UNCHANGED <<buffer, offset, sd>>

(* begin(): the data from its start, the ring as it stands.                *)
OpenStream == Decoder!Open /\ UNCHANGED <<buffer, offset, sd>>

(* reset(): _reset() rewinds the ring; lz4StreamDecode keeps its history.  *)
ResetRing ==
    /\ Decoder!Open
    /\ offset' = 0
    /\ UNCHANGED <<buffer, sd>>

(* The records of a valid stream refer to the stream's own bytes.  Others  *)
(* are as good when the decoder remembers nothing older than the stream.   *)
InStream(r) == r.reach <= pos - start
Fresh == Available(sd, offset) <= pos - start

RingNext ==
    \/ OpenStream \/ ResetRing \/ RefuseFraming
    \/ \E r \in Records : (InStream(r) \/ Fresh) /\ (Decode(r) \/ Refuse(r))

RingSpec == RingInit /\ [][RingNext]_ringVars

-----------------------------------------------------------------------------
RingTypeOK ==
    /\ buffer \in [0 .. (RingBytes - 1) -> Int]
    /\ offset \in 0 .. (Wrap - 1)
    /\ sd \in [prefix : [lo : Nat, hi : Nat], ext : [lo : Nat, hi : Nat]]
    /\ pos \in Nat /\ start \in Nat
    /\ last \in Records \cup {Decoder!NoRecord}
    /\ got \in Seq([len : 1 .. Block, refs : Seq(Int)])
    /\ verdict \in {"open", "corrupt"}

(* A record decodes to LZ4_BLOCK_SIZE bytes at most, at _offset: never     *)
(* past the ring, whatever lengths the records before it decoded to.       *)
NoOverrun == offset + Block <= RingBytes

(* For records that stay in their stream, the ring is invisible.           *)
Decodes == Decoder!DecoderSpec
=============================================================================
