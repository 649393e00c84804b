----------------------- MODULE DeflateDecompressFile -----------------------
(***************************************************************************)
(* class DeflateDecompressFile.  Unlike the decoders in memory, it takes   *)
(* the end of a file for the end of the data only behind the end of the    *)
(* stream.  A block is whatever compressors::detail::read returns, so the  *)
(* volume is cut at other places than in memory.                           *)
(* DeflateDecompress composes it with the other decoders.                  *)
(***************************************************************************)
EXTENDS Zlib, FileRead

CONSTANTS BlockSize,  \* DEFLATE_BLOCK_SIZE, of input and of output
          Volumes,    \* the files callers hand in
          Misreadings,  \* what a stream opened raw or further on takes them for
          Offsets,    \* fd_offset arguments: 0, or -1 for "where it stands"
          MaxBegins   \* bound: begin() calls after a construction

VARIABLES file, at,   \* the volume on disk, the descriptor's position in it
          fd_offset, gzip,
          state, stream,
          z, next_in, avail_in,
          raw, base,  \* how the loop's stream was opened, and at which byte
          reading,    \* what it takes the bytes from there on for
          loops,      \* begin() calls since it was rewound; 2 for more
          block, got, \* output in next()'s result, and since begin()
          pc,         \* "idle", or where next() is: "read" or "inflate"
          it,         \* "none", "block", "end", "thrown" or "failed"
          begins

fileVars == <<file, at, fd_offset, gzip>>
strmVars == <<stream, z, next_in, avail_in>>
loopVars == <<raw, base, reading, loops>>
vars == <<fileVars, state, strmVars, loopVars, block, got, pc, it, begins>>

Init ==
    /\ file \in Volumes /\ at = 0
    /\ fd_offset \in Offsets /\ gzip \in BOOLEAN
    /\ raw = FALSE /\ base = 0 /\ reading = file /\ loops = 0
    /\ state = "NONE" /\ stream = "Z_OK"
    /\ z = NewInflate /\ next_in = 0 /\ avail_in = 0
    /\ block = 0 /\ got = 0
    /\ pc = "idle" /\ it = "none" /\ begins = 0

(* Wrong: the end of the file is the end of the data, as it is in memory.  *)
EndsAlways(ret) == TRUE

Ends(ret) == ret = "Z_STREAM_END"

(* Wrong: the file is read at once.                                        *)
WantAll == file.size

Want == BlockSize

(* next() reads a block of the file; when there is none, it ends or throws.*)
ReadBlock ==
    /\ pc = "read"
    /\ \E r \in ReadResults(file.size - at, Want) :
         /\ at' = at + r.n
         /\ \/ /\ Returned(r) <= 0
               /\ pc' = "idle"
               /\ \/ Ends(stream) /\ state' = "END" /\ it' = "end"
                  \/ /\ ~Ends(stream) /\ UNCHANGED state
                     /\ it' = IF r.failed THEN "failed" ELSE "thrown"
               /\ UNCHANGED <<next_in, avail_in, block>>
            \/ /\ Returned(r) > 0
               /\ next_in' = at /\ avail_in' = r.n
               /\ block' = 0
               /\ pc' = "inflate"
               /\ UNCHANGED <<state, it>>
    /\ UNCHANGED <<file, fd_offset, gzip, stream, z, loopVars, got, begins>>

(* inflateInit2 by the format; where that fails, a second one may succeed, *)
(* whose stream is raw: it is tried unless gzip.                           *)
Raw == IF gzip THEN {FALSE} ELSE BOOLEAN

(* Wrong: begin() reads on.                                                *)
SoughtNever == at

Sought == IF fd_offset = -1 THEN at ELSE fd_offset

(* begin(): init() seeks to fd_offset, or takes the file from where it     *)
(* stands: for a second loop, not where the volume starts.  Then next().   *)
Begin ==
    /\ pc = "idle" /\ begins < MaxBegins
    /\ begins' = begins + 1
    /\ at' = Sought
    /\ raw' \in Raw /\ base' = at'
    /\ reading' \in Readings(file, base', raw', Misreadings)
    /\ loops' = Smaller(loops + 1, 2)
    /\ z' = NewInflate /\ stream' = "Z_OK"
    /\ state' = "INIT"
    /\ got' = 0
    /\ pc' = "read" /\ it' = "block"
    /\ UNCHANGED <<file, fd_offset, gzip, next_in, avail_in, block>>

(* lseek fails, or every inflateInit2 that is tried.  The old stream is    *)
(* gone, and no next() will look at it.                                    *)
BeginFails ==
    /\ pc = "idle" /\ begins < MaxBegins
    /\ begins' = begins + 1
    /\ it' = "failed"
    /\ at' \in {at} \cup ({fd_offset} \ {-1})
    /\ UNCHANGED <<file, fd_offset, gzip, state, strmVars, loopVars, block, got, pc>>

Increment ==
    /\ pc = "idle" /\ it = "block"
    /\ pc' = "read"
    /\ UNCHANGED <<fileVars, state, strmVars, loopVars, block, got, it, begins>>

Fatal(ret) == ret = "Z_DATA_ERROR"

(* Wrong: on until the stream has ended.                                   *)
AgainUntilEnd(r) == r.ret # "Z_STREAM_END"

(* while (strm.avail_out == 0)                                             *)
Again(r) == r.gave = BlockSize

(* One call of inflate(), and what next() makes of it.                     *)
Inflate ==
    /\ pc = "inflate"
    /\ \E r \in InflateResults(reading, z, next_in - base, avail_in, BlockSize) :
         /\ z' = r.i /\ stream' = r.ret
         /\ next_in' = next_in + r.took
         /\ avail_in' = avail_in - r.took
         /\ \/ /\ Fatal(r.ret)
               /\ pc' = "idle" /\ it' = "thrown"
               /\ UNCHANGED <<block, got>>
            \/ /\ ~Fatal(r.ret)
               /\ block' = block + r.gave
               /\ UNCHANGED it
               /\ \/ Again(r) /\ UNCHANGED <<pc, got>>
                  \/ ~Again(r) /\ pc' = "idle" /\ got' = got + block'
    /\ UNCHANGED <<fileVars, state, loopVars, begins>>

(* reset(filename, gzip) and reset(fd, fd_offset, fd_nbytes, gzip).        *)
Reset(v, o, g) ==
    /\ pc = "idle"
    /\ file' = v /\ at' = 0 /\ fd_offset' = o /\ gzip' = g
    /\ raw' = FALSE /\ base' = 0 /\ reading' = v /\ loops' = 0
    /\ it' = "none" /\ got' = 0 /\ stream' = "Z_OK"
    /\ UNCHANGED <<state, z, next_in, avail_in, block, pc, begins>>

Next ==
    \/ Begin \/ BeginFails \/ Increment
    \/ ReadBlock \/ Inflate
    \/ \E v \in Volumes, o \in Offsets, g \in BOOLEAN : Reset(v, o, g)

(* What the caller can tell of the decoding, in the words of Inflation.    *)
Verdict ==
    CASE it = "thrown" -> "corrupt" [] it = "block" -> "reading" [] OTHER -> it
=============================================================================
