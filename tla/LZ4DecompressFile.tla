-------------------------- MODULE LZ4DecompressFile --------------------------
(***************************************************************************)
(* class LZ4DecompressFile: the ring of LZ4DecodeRing fed from a           *)
(* descriptor through the buffer `data', which holds LZ4_MAX_CMP_SIZE      *)
(* bytes of the file.  A record's header or body may straddle two reads    *)
(* and is put together from both.                                          *)
(*                                                                         *)
(* Bytes are named by their place in the file, counted from where the      *)
(* object starts reading.  next() is taken apart at its reads; the object  *)
(* has one caller, so nothing happens in between.                          *)
(***************************************************************************)
EXTENDS LZ4DecodeRing, LZ4Framing, FileRead

CONSTANTS Volumes,    \* the files callers hand in
          Limits,     \* fd_nbytes arguments, -1 for "to the end"
          MaxPos      \* bound: no begin() or reset() once pos reaches it

VARIABLES volume,
          seeks,      \* fd_offset # -1: begin() seeks to where the file starts
          limit,      \* fd_nbytes when begin() was called
          fd_nbytes,
          at,         \* the descriptor's position
          data,       \* the bytes of the file now in `data', data.lo first
          data_size,  \* what the last read() returned
          data_offset,
          header,     \* the bytes cmpBytes was assembled from
          cmpBuf,     \* the bytes of the body
          used,       \* records decoded or refused since begin()
          pc,         \* "idle", or where in next() the object is
          it,         \* "none", "block", "end", "corrupt" or "ioerror"
          readFailed  \* read() reported an error since begin()

rangeVars == <<volume, seeks, limit>>
fileVars == <<fd_nbytes, at, data, data_size, readFailed>>
vars == <<ringVars, rangeVars, fileVars, data_offset, header, cmpBuf, used, pc, it>>

block_size == Header + MaxCmp     \* LZ4_MAX_CMP_SIZE

Nothing == [lo |-> 0, hi |-> 0]

Init ==
    /\ RingInit
    /\ volume \in Volumes /\ limit \in Limits /\ seeks \in BOOLEAN
    /\ fd_nbytes = limit /\ at = 0
    /\ data = Nothing /\ data_size = -1 /\ data_offset = 0
    /\ header = <<>> /\ cmpBuf = <<>>
    /\ used = 0
    /\ pc = "idle" /\ it = "none" /\ readFailed = FALSE

(* Wrong: one byte on.                                                     *)
BytesOff(buf, from, n) == [k \in 1 .. n |-> buf.lo + from + k]

(* The bytes data[from], data[from + 1], ..., n of them.                   *)
Bytes(buf, from, n) == [k \in 1 .. n |-> buf.lo + from + k - 1]

(* Wrong: a limit counted down by whole reads.                             *)
BudgetByRead == IF fd_nbytes = -1 THEN -1 ELSE fd_nbytes - block_size

(* get_read_size(): what it returns, and what it leaves of fd_nbytes.      *)
ReadSize == IF fd_nbytes = -1 THEN block_size ELSE Least(fd_nbytes, block_size)
Budget == IF fd_nbytes = -1 THEN -1 ELSE fd_nbytes - ReadSize

(* compressors::detail::read(fd, data, get_read_size()): what is read      *)
(* lands at the front of `data'.                                           *)
Read(position, failedBefore) ==
    LET left == IF position < volume.size THEN volume.size - position ELSE 0
    IN  \E r \in ReadResults(left, ReadSize) :
          /\ readFailed' = (failedBefore \/ r.failed)
          /\ at' = position + r.n
          /\ data_size' = Returned(r)
          /\ data' = [lo |-> position, hi |-> position + r.n]
          /\ fd_nbytes' = Budget

(* begin(): init() seeks to fd_offset, fills `data' and goes on to next(). *)
(* Without a seek the descriptor has to stand where the file starts.       *)
MayBegin ==
    /\ pc = "idle" /\ (seeks \/ it = "none")
    /\ pos < MaxPos

Begin ==
    /\ MayBegin
    /\ limit' = fd_nbytes
    /\ Read(0, FALSE)
    /\ data_offset' = IF data_size' < 0 THEN data_offset ELSE 0
    /\ it' = IF data_size' < 0 THEN "ioerror" ELSE "none"
    /\ pc' = IF data_size' < 0 THEN "idle" ELSE "next"
    /\ used' = 0 /\ header' = <<>> /\ cmpBuf' = <<>>
    /\ OpenStream
    /\ UNCHANGED <<volume, seeks>>

SeekFails ==
    /\ MayBegin /\ seeks
    /\ it' = "ioerror" /\ readFailed' = TRUE
    /\ UNCHANGED <<ringVars, rangeVars, fd_nbytes, at, data, data_size,
                   data_offset, header, cmpBuf, used, pc>>

Increment ==
    /\ pc = "idle" /\ it = "block"
    /\ pc' = "next"
    /\ UNCHANGED <<ringVars, rangeVars, fileVars, data_offset, header, cmpBuf,
                   used, it>>

(* The start of next(): refill `data' when it is used up.                  *)
Refill ==
    /\ pc = "next" /\ data_offset = data_size
    /\ Read(at, readFailed)
    /\ data_offset' = IF data_size' <= 0 THEN data_offset ELSE 0
    /\ it' = IF data_size' < 0 THEN "ioerror" ELSE IF data_size' = 0 THEN "end" ELSE it
    /\ pc' = IF data_size' <= 0 THEN "idle" ELSE "header"
    /\ UNCHANGED <<ringVars, rangeVars, header, cmpBuf, used>>

StillFull ==
    /\ pc = "next" /\ data_offset # data_size
    /\ pc' = "header"
    /\ UNCHANGED <<ringVars, rangeVars, fileVars, data_offset, header, cmpBuf,
                   used, it>>

Rest == data_size - data_offset

HeaderWhole ==
    /\ pc = "header" /\ Header <= Rest
    /\ header' = Bytes(data, data_offset, Header)
    /\ data_offset' = data_offset + Header
    /\ pc' = "size"
    /\ UNCHANGED <<ringVars, rangeVars, fileVars, cmpBuf, used, it>>

(* Wrong: the second read is taken to hold what is missing.                *)
EnoughAlways(missing) == TRUE

(* The second read brought what is missing of a header or a body.          *)
Enough(missing) == data_size' >= missing

(* Part of the header is at the end of `data', the rest in the next read.  *)
HeaderStraddles ==
    /\ pc = "header" /\ Header > Rest
    /\ data_offset' = Header - Rest
    /\ Read(at, readFailed)
    /\ \/ /\ Enough(data_offset')
          /\ header' = Bytes(data, data_offset, Rest) \o Bytes(data', 0, data_offset')
          /\ pc' = "size"
          /\ UNCHANGED <<ringVars, it>>
       \/ /\ ~Enough(data_offset')
          /\ pc' = "idle" /\ it' = "corrupt"
          /\ RefuseFraming
          /\ UNCHANGED header
    /\ UNCHANGED <<rangeVars, cmpBuf, used>>

cmpBytes == Claim(volume, used + 1)

(* Wrong: the longest body is refused too.                                 *)
OversizedToo == cmpBytes >= MaxCmp

Oversized == cmpBytes > MaxCmp

TooLong ==
    /\ pc = "size" /\ Oversized
    /\ pc' = "idle" /\ it' = "corrupt"
    /\ RefuseFraming
    /\ UNCHANGED <<rangeVars, fileVars, data_offset, header, cmpBuf, used>>

BodyWhole ==
    /\ pc = "size" /\ ~Oversized /\ cmpBytes <= Rest
    /\ cmpBuf' = Bytes(data, data_offset, cmpBytes)
    /\ data_offset' = data_offset + cmpBytes
    /\ pc' = "decode"
    /\ UNCHANGED <<ringVars, rangeVars, fileVars, header, used, it>>

BodyStraddles ==
    /\ pc = "size" /\ ~Oversized /\ cmpBytes > Rest
    /\ data_offset' = cmpBytes - Rest
    /\ Read(at, readFailed)
    /\ \/ /\ Enough(data_offset')
          /\ cmpBuf' = Bytes(data, data_offset, Rest) \o Bytes(data', 0, data_offset')
          /\ pc' = "decode"
          /\ UNCHANGED <<ringVars, it>>
       \/ /\ ~Enough(data_offset')
          /\ pc' = "idle" /\ it' = "corrupt"
          /\ RefuseFraming
          /\ UNCHANGED cmpBuf
    /\ UNCHANGED <<rangeVars, header, used>>

DecodeRecord(r) ==
    /\ pc = "decode"
    /\ cmpBytes = 0 => ~r.ok
    /\ InStream(r) \/ Fresh
    /\ used' = used + 1
    /\ pc' = "idle"
    /\ \/ Decode(r) /\ it' = "block"
       \/ Refuse(r) /\ it' = "corrupt"
    /\ UNCHANGED <<rangeVars, fileVars, data_offset, header, cmpBuf>>

(* reset(filename) and reset(fd, fd_offset, fd_nbytes); `data' is left to  *)
(* the next begin().                                                       *)
Reset(v, n) ==
    /\ pc = "idle"
    /\ pos < MaxPos
    /\ ResetRing
    /\ volume' = v /\ limit' = n /\ seeks' \in BOOLEAN
    /\ fd_nbytes' = n /\ at' = 0
    /\ it' = "none" /\ readFailed' = FALSE
    /\ UNCHANGED <<data, data_size, data_offset, header, cmpBuf, used, pc>>

Step ==
    \/ Increment
    \/ Refill \/ StillFull
    \/ HeaderWhole \/ HeaderStraddles
    \/ TooLong \/ BodyWhole \/ BodyStraddles
    \/ \E r \in Records : DecodeRecord(r)

Next ==
    \/ Begin \/ SeekFails
    \/ Step
    \/ \E v \in Volumes, n \in Limits : Reset(v, n)
=============================================================================
