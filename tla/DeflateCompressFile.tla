------------------------ MODULE DeflateCompressFile ------------------------
(***************************************************************************)
(* class DeflateCompressFile.  The stream is finished with the block that  *)
(* brings bytes_readed to size_file, the size the file had at begin(); the *)
(* end of the file is seen only by the next read.  The file may grow or    *)
(* shrink under the object.  (Regular files; on others lseek fails.)       *)
(* DeflateCompress composes it with its siblings.                          *)
(***************************************************************************)
EXTENDS Zlib, FileRead

CONSTANTS BlockSize,  \* DEFLATE_BLOCK_SIZE, of input and of output
          FileSizes,  \* the sizes of the files callers hand in
          Offsets,    \* fd_offset arguments, besides -1: "from where it stands"
          MaxBegins,  \* bound: begin() calls after a construction
          MaxChanges, \* bound: changes of a file's size
          CloseFirst  \* whether callers close() before they use it again

VARIABLES fileSize,
          at,         \* the descriptor's position
          fd_offset, bytes_readed, size_file,
          state, stream,
          z, next_in, avail_in, flush,
          pc,         \* "idle", or "deflate" in the loop of next()
          it,         \* "none", "block", "end" or "thrown"
          begins, changes,
          disturbed   \* since begin() a call into the system or zlib failed,
                      \* or the file changed

fileVars == <<fileSize, at, fd_offset, bytes_readed, size_file>>
strmVars == <<stream, z, next_in, avail_in, flush>>
vars == <<fileVars, state, strmVars, pc, it, begins, changes, disturbed>>

(* open() and add_fildes(): a borrowed descriptor may stand anywhere.      *)
Attached(size, stands, o) ==
    /\ fileSize' = size /\ at' = stands
    /\ fd_offset' = o

Init ==
    /\ fileSize \in FileSizes /\ at \in 0 .. fileSize
    /\ fd_offset \in Offsets \cup {-1}
    /\ bytes_readed = 0 /\ size_file = 0
    /\ state = "NONE" /\ stream = "Z_OK"
    /\ z = NewDeflate /\ next_in = 0 /\ avail_in = 0 /\ flush = "Z_NO_FLUSH"
    /\ pc = "idle" /\ it = "none"
    /\ begins = 0 /\ changes = 0
    /\ disturbed = FALSE

Left(size, position) == IF position < size THEN size - position ELSE 0

(* Wrong: a block that is not full finishes the stream, and only such one. *)
FlushShort(readed, size) == IF readed % BlockSize > 0 THEN "Z_FINISH" ELSE "Z_NO_FLUSH"

Flush(readed, size) == IF readed = size THEN "Z_FINISH" ELSE "Z_NO_FLUSH"

(* Wrong: the end of the file is the end of the stream, finished or not.   *)
EndsAlways(ret) == TRUE

(* The end of the file ends the iteration only behind a finished stream.   *)
Ends(ret) == ret = "Z_STREAM_END"

(* Wrong: the file is read at once.                                        *)
WantAll == size_file

Want == BlockSize

(* The start of next(), entered with stream = ret; the file is as large as *)
(* it is now.                                                              *)
StartBlock(position, readed, size, ret, disturbedBefore) ==
    \E r \in ReadResults(Left(fileSize', position), Want) :
      /\ at' = position + r.n
      /\ disturbed' = (disturbedBefore \/ r.failed)
      /\ \/ /\ Returned(r) <= 0
            /\ bytes_readed' = readed
            /\ stream' = ret
            /\ \/ Ends(ret) /\ state' = "END" /\ it' = "end"
               \/ ~Ends(ret) /\ state' = "INIT" /\ it' = "thrown"
            /\ UNCHANGED <<next_in, avail_in, flush, pc>>
         \/ /\ Returned(r) > 0
            /\ bytes_readed' = readed + r.n
            /\ next_in' = position /\ avail_in' = r.n
            /\ flush' = Flush(bytes_readed', size)
            /\ stream' = ret
            /\ state' = "INIT" /\ it' = "none"
            /\ pc' = "deflate"

(* begin(): init() seeks to fd_offset, then learns the file's size and     *)
(* goes to the file's start.  Before it reads there the file may change.   *)
Begin ==
    /\ pc = "idle" /\ begins < MaxBegins
    /\ CloseFirst => bytes_readed = 0
    /\ begins' = begins + 1
    /\ z' = NewDeflate
    /\ size_file' = fileSize
    /\ \/ UNCHANGED <<fileSize, changes>>
       \/ /\ changes < MaxChanges /\ changes' = changes + 1
          /\ fileSize' \in FileSizes
    /\ StartBlock(0, bytes_readed, fileSize, "Z_OK", fileSize' # fileSize)
    /\ UNCHANGED fd_offset

(* lseek or deflateInit2 fails.  The old stream is gone, and no next()     *)
(* will look at it.                                                        *)
BeginFails ==
    /\ pc = "idle" /\ begins < MaxBegins
    /\ begins' = begins + 1
    /\ it' = "thrown" /\ disturbed' = TRUE
    /\ at' \in {at} \cup ({fd_offset} \ {-1})
    /\ UNCHANGED <<fileSize, fd_offset, bytes_readed, size_file, state, strmVars,
                   pc, changes>>

Increment ==
    /\ pc = "idle" /\ it = "block"
    /\ UNCHANGED <<fileSize, fd_offset, size_file, z, begins, changes>>
    /\ StartBlock(at, bytes_readed, size_file, stream, disturbed)

(* Wrong: on until the stream is closed.                                   *)
AgainUntilEnd(r) == r.ret # "Z_STREAM_END"

(* while (strm.avail_out == 0)                                             *)
Again(r) == r.gave = BlockSize

(* One call of deflate(), whose errors the loop does not look at.          *)
Deflate ==
    /\ pc = "deflate"
    /\ \E r \in DeflateResults(z, next_in, avail_in, flush, BlockSize) :
         /\ z' = r.z /\ stream' = r.ret
         /\ next_in' = next_in + r.took
         /\ avail_in' = avail_in - r.took
         /\ IF Again(r) THEN UNCHANGED <<pc, it>>
                        ELSE pc' = "idle" /\ it' = "block"
    /\ UNCHANGED <<fileVars, state, flush, begins, changes, disturbed>>

(* reset(filename) and reset(fd, fd_offset, fd_nbytes): bytes_readed stays.*)
Reset(size, o) ==
    /\ pc = "idle"
    /\ \E stands \in 0 .. size : Attached(size, stands, o)
    /\ it' = "none" /\ stream' = "Z_OK"
    /\ UNCHANGED <<bytes_readed, size_file, state, z, next_in, avail_in, flush,
                   pc, begins, changes, disturbed>>

(* close() and a reset() to the next file.                                 *)
CloseReset(size, o) ==
    /\ pc = "idle"
    /\ bytes_readed' = 0 /\ size_file' = 0
    /\ \E stands \in 0 .. size : Attached(size, stands, o)
    /\ it' = "none" /\ stream' = "Z_OK"
    /\ UNCHANGED <<state, z, next_in, avail_in, flush, pc, begins, changes, disturbed>>

(* Another process writes to the file, or truncates it.                    *)
FileChanges(size) ==
    /\ changes < MaxChanges
    /\ pc = "idle" /\ it = "block"
    /\ changes' = changes + 1
    /\ fileSize' = size /\ disturbed' = TRUE
    /\ UNCHANGED <<at, fd_offset, bytes_readed, size_file, state, strmVars, pc, it,
                   begins>>

Next ==
    \/ Begin \/ BeginFails \/ Increment
    \/ Deflate
    \/ \E size \in FileSizes :
         \/ FileChanges(size)
         \/ \E o \in Offsets \cup {-1} : Reset(size, o) \/ CloseReset(size, o)
=============================================================================
