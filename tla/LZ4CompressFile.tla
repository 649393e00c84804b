--------------------------- MODULE LZ4CompressFile ---------------------------
(***************************************************************************)
(* class LZ4CompressFile: the ring of LZ4Ring fed from a descriptor.       *)
(* LZ4File keeps the descriptor's range (fd_offset, fd_nbytes) and         *)
(* get_read_size; the file's own state is its size and the descriptor's    *)
(* position.  Who closes the descriptor is modelled in FileHandle.         *)
(***************************************************************************)
EXTENDS LZ4Ring, FileRead

CONSTANTS FileSizes,  \* the sizes of the files callers hand in
          Offsets,    \* fd_offset arguments, -1 for "from where it stands"
          Limits,     \* fd_nbytes arguments, -1 for "to the end"
          MaxPos      \* bound: no reset() or begin() once pos reaches it

VARIABLES fileSize,
          at,         \* the descriptor's position
          fd_offset, fd_nbytes,
          it,         \* "none", "block", "end", or "thrown" (LZ4IOError)
          first,      \* pos at the last begin()
          range,      \* the bytes of the file the last begin() is to cover
          readFailed  \* read() reported an error since the last begin()

fileVars == <<fileSize, at, fd_offset, fd_nbytes, it, first, range, readFailed>>
vars == <<ringVars, fileVars>>

NoRange == [lo |-> 0, hi |-> 0]

(* open(filename) and add_fildes(fd, fd_offset, fd_nbytes); a borrowed     *)
(* descriptor may stand anywhere.                                          *)
Attached(size, stands, o, n) ==
    /\ fileSize' = size /\ at' = stands
    /\ fd_offset' = o /\ fd_nbytes' = n
    /\ it' = "none" /\ readFailed' = FALSE
    /\ range' = NoRange

Init ==
    /\ RingInit
    /\ fileSize \in FileSizes /\ at = 0
    /\ \/ fd_offset = 0 /\ fd_nbytes = -1
       \/ fd_offset \in Offsets /\ fd_nbytes \in Limits
    /\ it = "none" /\ first = 0
    /\ range = NoRange /\ readFailed = FALSE

(* Wrong: the limit not cut to a block; counted down by whole blocks.      *)
ReadSizeUnbounded == IF fd_nbytes = -1 THEN Block ELSE fd_nbytes
BudgetByBlock == IF fd_nbytes = -1 THEN -1 ELSE fd_nbytes - Block

(* get_read_size(): what it returns, and what it leaves of fd_nbytes.      *)
ReadSize == IF fd_nbytes = -1 THEN Block ELSE Least(fd_nbytes, Block)
Budget == IF fd_nbytes = -1 THEN -1 ELSE fd_nbytes - ReadSize

Left(position) == IF position < fileSize THEN fileSize - position ELSE 0

(* next() takes 0 and -1 alike.                                            *)
NextFrom(position, failedBefore) ==
    \E r \in ReadResults(Left(position), ReadSize) :
      /\ fd_nbytes' = Budget
      /\ readFailed' = (failedBefore \/ r.failed)
      /\ at' = position + r.n
      /\ \/ Returned(r) <= 0 /\ it' = "end" /\ UNCHANGED ringVars
         \/ Returned(r) > 0 /\ it' = "block" /\ Compress(r.n)

(* begin(): init() seeks unless fd_offset is -1.                           *)
Begin ==
    /\ pos < MaxPos
    /\ LET from == IF fd_offset = -1 THEN at ELSE fd_offset IN
       /\ first' = pos
       /\ range' = [lo |-> from,
                    hi |-> from + (IF fd_nbytes = -1 THEN Left(from)
                                   ELSE Least(fd_nbytes, Left(from)))]
       /\ NextFrom(from, FALSE)
    /\ UNCHANGED <<fileSize, fd_offset>>

SeekFails ==
    /\ pos < MaxPos
    /\ fd_offset # -1
    /\ it' = "thrown"
    /\ first' = pos /\ range' = NoRange
    /\ UNCHANGED <<ringVars, fileSize, at, fd_offset, fd_nbytes, readFailed>>

Increment ==
    /\ it = "block"
    /\ NextFrom(at, readFailed)
    /\ UNCHANGED <<fileSize, fd_offset, first, range>>

(* reset(filename) and reset(fd, fd_offset, fd_nbytes).                    *)
ResetFile(size) ==
    /\ pos < MaxPos
    /\ ResetRing
    /\ Attached(size, 0, 0, -1)
    /\ first' = pos

ResetFildes(size, o, n) ==
    /\ pos < MaxPos
    /\ ResetRing
    /\ \E stands \in 0 .. size : Attached(size, stands, o, n)
    /\ first' = pos

Next ==
    \/ Begin \/ SeekFails \/ Increment
    \/ \E size \in FileSizes :
         \/ ResetFile(size)
         \/ \E o \in Offsets, n \in Limits : ResetFildes(size, o, n)
=============================================================================
