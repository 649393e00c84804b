-------------------------- MODULE DeflateDecompress --------------------------
(***************************************************************************)
(* The three decoders of a zlib volume: DeflateDecompressData over a       *)
(* buffer, DeflateDecompressFile over a descriptor, decompress_deflate in  *)
(* one call.  They share no code but zlib's, and all keep what Inflation   *)
(* promises of the stream they read.                                       *)
(***************************************************************************)
EXTENDS Zlib, FileRead

CONSTANTS BlockSize,  \* DEFLATE_BLOCK_SIZE
          Step,       \* Inflater::step
          Volumes,    \* what callers hand to the classes
          Misreadings,  \* what a stream opened raw or further on takes them for
          Inputs,     \* what callers hand to decompress_deflate
          Offsets,    \* fd_offset arguments: 0, or -1 for "where it stands"
          MaxBegins   \* bound: begin() calls after a construction

Streams == Volumes \cup Misreadings \cup Inputs

(* The more of a stream is there, the more of the output it determines.    *)
ASSUME InflateAssumption ==
    /\ BlockSize \in Nat \ {0} /\ Step \in Nat \ {0}
    /\ MaxBegins \in Nat
    /\ -1 \in Offsets /\ Offsets \subseteq {0, -1}
    /\ \A v \in Streams :
          /\ v.size \in Nat /\ v.whole \in Nat \ {0} /\ v.bad \in 0 .. v.whole
          /\ v.yields \in [0 .. v.whole -> Nat] /\ v.yields[0] = 0
          /\ \A k, m \in 0 .. v.whole : k <= m => v.yields[k] <= v.yields[m]

VARIABLES decoder,    \* "data", "file" or "call"
          volume, z, avail_in, pc,
          gzip, state, next_in, raw, base, reading, loops,   \* of the classes
          block, got, it, begins,
          data_offset,                                       \* of the buffer's
          at, fd_offset, stream,                             \* of the file's
          in, left, finished, total, capacity, used, size, ret  \* of the call's

shared == <<decoder, volume, z, avail_in, pc>>
loopVars == <<raw, base, reading, loops>>
classVars == <<gzip, state, next_in, loopVars, block, got, it, begins>>
fileVars == <<at, fd_offset, stream>>
callVars == <<in, left, finished, total, capacity, used, size, ret>>
vars == <<shared, classVars, data_offset, fileVars, callVars>>

Data == INSTANCE DeflateDecompressData WITH data <- volume
File == INSTANCE DeflateDecompressFile WITH file <- volume
OneShot == INSTANCE DecompressDeflate WITH compressed <- volume, Volumes <- Inputs

NoClass ==
    /\ gzip = FALSE /\ state = "NONE" /\ next_in = 0 /\ block = 0 /\ got = 0
    /\ raw = FALSE /\ base = 0 /\ reading = volume /\ loops = 0
    /\ it = "none" /\ begins = 0

NoFile == at = 0 /\ fd_offset = -1 /\ stream = "Z_OK"

NoCall ==
    /\ in = 0 /\ left = 0 /\ finished = FALSE /\ total = 0
    /\ capacity = BlockSize /\ used = 0 /\ size = 0 /\ ret = ""

Init ==
    \/ decoder = "data" /\ Data!Init /\ NoFile /\ NoCall
    \/ decoder = "file" /\ File!Init /\ data_offset = 0 /\ NoCall
    \/ decoder = "call" /\ OneShot!Init /\ NoClass /\ data_offset = 0 /\ NoFile

RestOfData == <<decoder, fileVars, callVars>>
RestOfFile == <<decoder, data_offset, callVars>>
RestOfCall == <<decoder, classVars, data_offset, fileVars>>

Next ==
    \/ decoder = "data" /\ Data!Next /\ UNCHANGED RestOfData
    \/ decoder = "file" /\ File!Next /\ UNCHANGED RestOfFile
    \/ decoder = "call" /\ OneShot!Next /\ UNCHANGED RestOfCall

Increment ==
    \/ decoder = "data" /\ Data!Increment /\ UNCHANGED RestOfData
    \/ decoder = "file" /\ File!Increment /\ UNCHANGED RestOfFile

(* A call that was entered.                                                *)
RunsOn ==
    \/ decoder = "data" /\ Data!Inflate /\ UNCHANGED RestOfData
    \/ decoder = "file" /\ (File!ReadBlock \/ File!Inflate) /\ UNCHANGED RestOfFile
    \/ decoder = "call" /\ OneShot!Next /\ UNCHANGED RestOfCall

(* A call that was entered runs on, and the driving loop calls ++it.       *)
Spec == Init /\ [][Next]_vars /\ WF_vars(RunsOn) /\ WF_vars(Increment)

-----------------------------------------------------------------------------
TypeOK ==
    /\ decoder \in {"data", "file", "call"}
    /\ volume \in Streams
    /\ z \in [took : Nat, made : Nat]
    /\ avail_in \in 0 .. (IF decoder = "call" THEN Step ELSE BlockSize)
    /\ pc \in {"idle", "read", "inflate", "ctor", "grow", "return"}
    /\ gzip \in BOOLEAN /\ state \in {"NONE", "INIT", "END"}
    /\ raw \in BOOLEAN /\ base \in Nat /\ reading \in Streams /\ loops \in 0 .. 2
    /\ next_in \in Nat /\ block \in Nat /\ got \in Nat
    /\ it \in {"none", "block", "end", "thrown", "failed"}
    /\ begins \in 0 .. MaxBegins
    /\ data_offset \in Nat /\ at \in Nat /\ fd_offset \in Offsets
    /\ stream \in {"Z_OK", "Z_STREAM_END", "Z_BUF_ERROR", "Z_DATA_ERROR"}
    /\ in \in 0 .. volume.size /\ left \in 0 .. volume.size
    /\ finished \in BOOLEAN
    /\ capacity \in Nat \ {0} /\ total \in 0 .. capacity
    /\ used \in Nat /\ size \in Nat
    /\ ret \in {"", "returned", "thrown", "failed"}

(* decompress_deflate writes nothing past the block on the stack, nor past *)
(* the string that doubles, and reads its input once, from the front.      *)
InsideBuffers ==
    decoder = "call" =>
      /\ IF size = 0 THEN used <= BlockSize /\ total <= BlockSize
         ELSE used <= size /\ (pc = "read" => used + total <= size)
      /\ in + left = volume.size
      /\ z.took = in - avail_in

(* A loop whose stream was opened raw, or where the one before it stopped, *)
(* has lost its way: what it decodes is not the caller's volume.  Only a   *)
(* caller that did not rewind gets the latter; a file with fd_offset # -1  *)
(* is rewound by begin().                                                  *)
Astray ==
    \/ raw
    \/ base > 0 /\ loops > 1 /\ (decoder = "data" \/ fd_offset = -1)

Followed == IF Astray THEN reading ELSE volume

Abstract ==
    INSTANCE Inflation
    WITH Volumes <- Streams,
         volume <- Followed,
         strict <- decoder = "file",
         out <- IF decoder = "call" THEN OneShot!Decoded ELSE got,
         verdict <- CASE decoder = "data" -> Data!Verdict
                      [] decoder = "file" -> File!Verdict
                      [] decoder = "call" -> OneShot!Verdict

(* docs/API.md:65 of decoding in one call: "It stops at the stream's end,  *)
(* ignoring anything after it, and at the end of the input: a truncated    *)
(* stream returns the bytes decoded so far, and only damaged data throws". *)
(* The class over a buffer promises the same.  The one over a file also    *)
(* throws for a truncated volume: its iteration ends without an exception  *)
(* only with the whole of a complete one, wherever the reads cut it.  All  *)
(* that is of the caller's volume unless the loop is Astray: begin() could *)
(* open a stream only raw, as init() tries when inflateInit2 failed, or    *)
(* was called again before reset() or close().  Such a loop promises the   *)
(* same of what it takes the bytes for, so sound volumes may be rejected.  *)
Inflates == Abstract!InflationSpec

(* Every call, and the driving loop, ends: also with a buffer that is full *)
(* where the stream, or a truncated input, ends.                           *)
LoopEnds ==
    it = "block" \/ pc \notin {"idle", "return"} ~> it # "block" /\ pc \in {"idle", "return"}
=============================================================================
