---------------------------- MODULE LZ4Decompress ----------------------------
(***************************************************************************)
(* The three decoders of an LZ4 stream: LZ4DecompressData over a buffer,   *)
(* LZ4DecompressFile over a descriptor, decompress_lz4 in one call.  A     *)
(* caller who holds a stream takes any of them, and should not be able to  *)
(* tell from the result which.                                             *)
(***************************************************************************)
EXTENDS LZ4DecodeRing, LZ4Framing, FileRead

CONSTANTS Volumes,    \* the streams callers have in memory
          Files,      \* the streams callers have on disk
          Limits,     \* fd_nbytes arguments, -1 for "to the end"
          MaxPos,     \* bound: no call, begin() or reset() once pos reaches it
          Damaged     \* whether streams may refer before their beginning

ASSUME DecompressAssumption ==
    /\ Header \in Nat \ {0} /\ MaxCmp \in Nat
    /\ Volumes \cup Files \subseteq [size : Nat, claims : Seq(Nat)]
    /\ Limits \subseteq Nat \cup {-1}
    /\ MaxPos \in Nat
    /\ Damaged \in BOOLEAN

VARIABLES decoder,    \* "data", "file" or "call"
          volume,
          data_offset, used, it, pc,             \* of the classes
          resetAt,                               \* of LZ4DecompressData
          seeks, limit, fd_nbytes, at, data,     \* of LZ4DecompressFile
          data_size, header, cmpBuf, readFailed,
          mem, capacity, blocks, framing_error,  \* of decompress_lz4
          b, total, roff, spill, result, length

bufferVars == <<resetAt>>
fileVars == <<seeks, limit, fd_nbytes, at, data, data_size, header, cmpBuf, readFailed>>
iterVars == <<data_offset, used, it>>
callVars == <<mem, capacity, blocks, framing_error, b, total, roff, spill, result, length>>
vars == <<ringVars, decoder, volume, iterVars, pc, bufferVars, fileVars, callVars>>

Data == INSTANCE LZ4DecompressData
File == INSTANCE LZ4DecompressFile WITH Volumes <- Files
OneShot == INSTANCE LZ4DecompressOneShot

NoFile ==
    /\ seeks = FALSE /\ limit = -1 /\ fd_nbytes = -1 /\ at = 0
    /\ data = File!Nothing /\ data_size = -1
    /\ header = <<>> /\ cmpBuf = <<>> /\ readFailed = FALSE

NoCall ==
    /\ mem = OneShot!Blank /\ capacity = 0
    /\ blocks = 0 /\ framing_error = FALSE
    /\ b = 0 /\ total = 0 /\ roff = 0 /\ spill = 0
    /\ result = "none" /\ length = 0

Init ==
    \/ decoder = "data" /\ Data!Init /\ pc = "idle" /\ NoFile /\ NoCall
    \/ decoder = "file" /\ File!Init /\ resetAt = 0 /\ NoCall
    \/ /\ decoder = "call" /\ OneShot!Init /\ RingInit /\ NoFile
       /\ resetAt = 0 /\ data_offset = 0 /\ used = 0 /\ it = "none"

DataNext ==
    /\ decoder = "data"
    /\ Data!Next
    /\ UNCHANGED <<decoder, pc, fileVars, callVars>>

FileNext ==
    /\ decoder = "file"
    /\ File!Next
    /\ UNCHANGED <<decoder, bufferVars, callVars>>

OneShotNext ==
    /\ decoder = "call"
    /\ OneShot!Next
    /\ UNCHANGED <<decoder, buffer, offset, iterVars, bufferVars, fileVars>>

Next == DataNext \/ FileNext \/ OneShotNext

Spec == Init /\ [][Next]_vars

-----------------------------------------------------------------------------
TypeOK ==
    /\ RingTypeOK
    /\ decoder \in {"data", "file", "call"}
    /\ volume \in Volumes \cup Files
    /\ data_offset \in Nat /\ used \in Nat /\ resetAt \in Nat
    /\ it \in {"none", "begun", "block", "end", "corrupt", "ioerror"}
    /\ pc \in {"idle", "next", "header", "size", "decode", "direct", "ring"}
    /\ limit \in Nat \cup {-1} /\ seeks \in BOOLEAN
    /\ fd_nbytes \in Nat \cup {-1} /\ at \in Nat
    /\ data \in [lo : Nat, hi : Nat]
    /\ data_size \in Nat \cup {-1}
    /\ header \in Seq(Nat) /\ cmpBuf \in Seq(Nat)
    /\ readFailed \in BOOLEAN
    /\ mem \in [DOMAIN OneShot!Blank -> Int]
    /\ capacity \in Nat /\ blocks \in Nat /\ framing_error \in BOOLEAN
    /\ b \in 0 .. blocks
    /\ total \in Nat /\ roff \in Nat /\ spill \in Nat /\ length \in Nat
    /\ result \in {"none", "returned", "thrown", "bad_alloc"}

(* decompress_lz4 may write a whole LZ4_BLOCK_SIZE at the place it gives   *)
(* to the decoder, so that much is left there at every call: in scratch    *)
(* memory sized from the headers before anything is decoded, and in its    *)
(* ring.                                                                   *)
InsideScratch ==
    /\ pc = "direct" /\ OneShot!BlocksLeft /\ OneShot!DirectRoom =>
          total + Block <= capacity
    /\ pc = "ring" => roff + Block <= RingBytes

(* The part of the stream that a limit leaves to the object.               *)
Extent == [volume EXCEPT !.size = IF limit = -1 THEN @ ELSE Least(limit, @)]

(* Unless a read failed, a class finds the records that the header walk of *)
(* decompress_lz4 finds in the same bytes, each of which it hands out, and *)
(* ends as it ends, wherever the reads cut the file: "the Data and File    *)
(* decoders agree" (fuzz/fuzz_lz4.cc:4).                                   *)
SameFraming ==
    ~readFailed =>
        /\ it = "end" =>
              Len(got) = WalkBlocks(Extent) /\ ~WalkBroken(Extent)
        /\ it = "corrupt" /\ last = Decoder!NoRecord =>
              Len(got) = WalkBlocks(Extent) /\ WalkBroken(Extent)
        /\ it # "ioerror"

(* Wherever the reads cut the file, a header and a body are the bytes of   *)
(* the file that follow the record before, none skipped, none repeated and *)
(* none taken from what an earlier read left in `data'.                    *)
RecordBytes ==
    LET from == RecordEnd(volume, used) IN
    /\ pc \in {"header", "size", "decode"} => data_offset <= data_size
    /\ pc \in {"size", "decode"} =>
          header = [k \in 1 .. Header |-> from + k - 1]
    /\ pc = "decode" =>
          cmpBuf = [k \in 1 .. File!cmpBytes |-> from + Header + k - 1]

(* decompress_lz4 returns a string only for a stream that is whole, and it *)
(* holds every byte decoded, wherever decoding stopped being contiguous.   *)
ReturnsAll ==
    result = "returned" =>
        /\ verdict = "open" /\ ~WalkBroken(volume)
        /\ Len(got) = WalkBlocks(volume)
        /\ length = pos - start

(* After reset() an LZ4DecompressData decodes "another buffer"             *)
(* (docs/API.md:54) as a new one would: a record that refers to bytes      *)
(* before its stream is corrupt, as it is for decompress_lz4, which        *)
(* accepts "exactly the classes' bytes" (compressor_lz4.h:441).            *)
ResetForgets ==
    \A i \in DOMAIN got : \A d \in DOMAIN got[i].refs : got[i].refs[d] >= resetAt
=============================================================================
