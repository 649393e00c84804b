--------------------------- MODULE DeflateCompress ---------------------------
(***************************************************************************)
(* The three ways to write a zlib stream: DeflateCompressData over a       *)
(* buffer, driven by its iterator; DeflateCompressData over none           *)
(* (data == nullptr), given chunks; and DeflateCompressFile.               *)
(***************************************************************************)
EXTENDS Zlib, FileRead

CONSTANTS BlockSize,  \* DEFLATE_BLOCK_SIZE
          Sizes,      \* the sizes of the buffers callers hand in
          ChunkSizes, \* the sizes of the chunks callers hand in
          FileSizes,  \* the sizes of the files callers hand in
          Offsets,    \* fd_offset arguments, besides -1: "from where it stands"
          MaxBegins,  \* bound: begin() calls after a construction
          MaxInput,   \* bound: bytes handed in as chunks after an init()
          MaxChanges, \* bound: changes of a file's size
          CloseFirst  \* whether callers close() a file before the next

ASSUME DeflateAssumption ==
    /\ BlockSize \in Nat \ {0} /\ Overhead \in Nat
    /\ Sizes \subseteq Nat /\ ChunkSizes \subseteq Nat /\ FileSizes \subseteq Nat
    /\ Offsets \subseteq Nat
    /\ MaxBegins \in Nat /\ MaxInput \in Nat /\ MaxChanges \in Nat
    /\ CloseFirst \in BOOLEAN

VARIABLES use,        \* "buffer", "chunks" or "file"
          pc, flush,
          state, z, next_in, avail_in, it, begins,           \* of the classes
          data_size, data_offset, block, rewound,            \* of the buffer's
          fileSize, at, fd_offset, bytes_readed, size_file, stream,
          changes, disturbed,                                \* of the file's
          fed, input_size, fresh, in, ended, bits, pending, gave

classVars == <<state, z, next_in, avail_in, it, begins>>
bufferVars == <<data_size, data_offset, block, rewound>>
fileVars == <<fileSize, at, fd_offset, bytes_readed, size_file, stream, changes,
              disturbed>>
chunkVars == <<fed, input_size, fresh, in, ended, bits, pending, gave>>
vars == <<use, pc, flush, classVars, bufferVars, fileVars, chunkVars>>

Buffer == INSTANCE DeflateCompressData
Chunks == INSTANCE DeflateChunks
File == INSTANCE DeflateCompressFile

NoClass ==
    /\ state = "NONE" /\ z = NewDeflate /\ next_in = 0 /\ avail_in = 0
    /\ it = "none" /\ begins = 0

NoBuffer == data_size = 0 /\ data_offset = 0 /\ block = 0 /\ rewound = FALSE

NoFile ==
    /\ fileSize = 0 /\ at = 0 /\ fd_offset = -1 /\ bytes_readed = 0
    /\ size_file = 0 /\ stream = "Z_OK"
    /\ changes = 0 /\ disturbed = FALSE

NoChunks ==
    /\ fed = 0 /\ input_size = 0 /\ fresh = FALSE
    /\ in = 0 /\ ended = FALSE /\ bits = 0 /\ pending = 0
    /\ gave = 0

Init ==
    \/ use = "buffer" /\ Buffer!Init /\ NoFile /\ NoChunks
    \/ use = "chunks" /\ Chunks!Init /\ NoClass /\ NoBuffer /\ NoFile
    \/ use = "file" /\ File!Init /\ NoBuffer /\ NoChunks

RestOfBuffer == <<use, fileVars, chunkVars>>
RestOfChunks == <<use, classVars, bufferVars, fileVars>>
RestOfFile == <<use, bufferVars, chunkVars>>

Next ==
    \/ use = "buffer" /\ Buffer!Next /\ UNCHANGED RestOfBuffer
    \/ use = "chunks" /\ Chunks!Next /\ UNCHANGED RestOfChunks
    \/ use = "file" /\ File!Next /\ UNCHANGED RestOfFile

Deflate ==
    \/ use = "buffer" /\ Buffer!Deflate /\ UNCHANGED RestOfBuffer
    \/ use = "chunks" /\ Chunks!Deflate /\ UNCHANGED RestOfChunks
    \/ use = "file" /\ File!Deflate /\ UNCHANGED RestOfFile

Increment ==
    \/ use = "buffer" /\ Buffer!Increment /\ UNCHANGED RestOfBuffer
    \/ use = "file" /\ File!Increment /\ UNCHANGED RestOfFile

(* A loop over deflate() runs on, and the driving loop calls ++it; begin() *)
(* and the next chunk are the caller's choice.                             *)
Spec == Init /\ [][Next]_vars /\ WF_vars(Deflate) /\ WF_vars(Increment)

-----------------------------------------------------------------------------
TypeOK ==
    /\ use \in {"buffer", "chunks", "file"}
    /\ pc \in {"none", "idle", "deflate", "thrown"}
    /\ flush \in {"Z_NO_FLUSH", "Z_PARTIAL_FLUSH", "Z_FINISH"}
    /\ state \in {"NONE", "INIT", "END"}
    /\ z \in [in : Seq(Nat), made : Nat, ended : BOOLEAN]
    /\ next_in \in Nat /\ avail_in \in 0 .. BlockSize
    /\ it \in {"none", "block", "end", "thrown"}
    /\ begins \in 0 .. MaxBegins
    /\ data_size \in Nat /\ data_offset \in Nat
    /\ block \in Nat /\ rewound \in BOOLEAN
    /\ fileSize \in Nat /\ at \in Nat /\ fd_offset \in Nat \cup {-1}
    /\ bytes_readed \in Nat /\ size_file \in Nat
    /\ stream \in {"Z_OK", "Z_STREAM_END", "error"}
    /\ changes \in 0 .. MaxChanges /\ disturbed \in BOOLEAN
    /\ fed \in 0 .. MaxInput /\ in \in 0 .. MaxInput
    /\ input_size \in ChunkSizes \cup {0}
    /\ fresh \in BOOLEAN /\ ended \in BOOLEAN
    /\ bits \in 0 .. 7 /\ pending \in Nat
    /\ gave \in Nat /\ (use = "chunks" /\ ~fresh => gave <= input_size)

(* A loop that ends without an exception wrote one closed stream of the    *)
(* whole input, its bytes in order, none twice.  Over a buffer that was    *)
(* rewound: also one of no bytes or of whole blocks, where the last call   *)
(* of next() has no input; and no loop, whatever was done to the object    *)
(* before, gives a closed stream more (compressor_deflate.cc:149: "no bad  *)
(* return value").  Over a file: the size_file bytes it had at begin(),    *)
(* whatever fails, and however the file changes, under the object.         *)
WholeStream ==
    /\ use = "buffer" /\ it = "end" /\ rewound =>
         z.ended /\ z.in = Positions(0, data_size)
    /\ use = "buffer" /\ pc = "deflate" /\ z.ended => avail_in = 0 /\ flush = "Z_FINISH"
    /\ use = "file" /\ it = "end" => z.ended /\ z.in = Positions(0, size_file)

(* Between its calls of next() the caller of chunks has all the output     *)
(* there is for them: none waits for a next call that may never come.      *)
AllGiven == use = "chunks" /\ pc = "idle" => pending = 0 /\ in = fed

(* A file that is let alone and not empty is compressed to its end: the    *)
(* block that finishes the stream is the last, at every size.              *)
NoNeedlessError ==
    use = "file" /\ it = "thrown" => disturbed \/ fileSize = 0

(* next(input, 1, Z_PARTIAL_FLUSH): every call of deflate() fills the one  *)
(* byte of output, with what waits or with an empty block, and so is made  *)
(* again.                                                                  *)
Stuck ==
    /\ use = "chunks" /\ pc = "deflate"
    /\ input_size = 1 /\ flush = "Z_PARTIAL_FLUSH"

(* The loops over deflate() and the driving loop end, however the output   *)
(* fills its buffer and although the file changes, but for exactly one:    *)
(* compressor_deflate.cc:106-115 never returns from a partial flush of a   *)
(* chunk of one byte.                                                      *)
LoopEnds ==
    /\ (it = "block" \/ pc = "deflate") /\ ~Stuck ~> it # "block" /\ pc # "deflate"
    /\ [](Stuck => []Stuck)
=============================================================================
