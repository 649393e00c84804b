-------------------------- MODULE LZ4DecompressData --------------------------
(***************************************************************************)
(* class LZ4DecompressData: the ring of LZ4DecodeRing fed from a caller's  *)
(* buffer.  What a record's body decodes to is chosen when it is reached.  *)
(* LZ4Decompress composes it with the other decoders.                      *)
(***************************************************************************)
EXTENDS LZ4DecodeRing, LZ4Framing

CONSTANTS Volumes,    \* the buffers callers hand in
          MaxPos,     \* bound: no begin() or reset() once pos reaches it
          Damaged     \* whether streams may refer before their beginning

VARIABLES volume,
          data_offset,
          used,       \* records read since begin()
          it,         \* "none", "begun", "block", "end", "corrupt"
          resetAt     \* pos at construction or at the last reset()

dataVars == <<volume, data_offset, used, it, resetAt>>
vars == <<ringVars, dataVars>>

Init ==
    /\ RingInit
    /\ volume \in Volumes
    /\ data_offset = 0 /\ used = 0
    /\ it = "none"
    /\ resetAt = 0

(* begin(): init() rewinds the data and goes on to next().                 *)
Begin ==
    /\ it # "begun"
    /\ pos < MaxPos
    /\ OpenStream
    /\ data_offset' = 0 /\ used' = 0
    /\ it' = "begun"
    /\ UNCHANGED <<volume, resetAt>>

(* Wrong: a piece of a header is taken for the end.                        *)
DataSpentEarly == data_offset + Header > volume.size

DataSpent == data_offset >= volume.size

(* Wrong: a record that does not decode is passed over.                    *)
OnRefusalSkip == "block"

OnRefusal == "corrupt"

(* next(), which begin() and ++it enter.                                   *)
InNext == it \in {"begun", "block"}

EndOfData ==
    /\ InNext
    /\ DataSpent
    /\ it' = "end"
    /\ UNCHANGED <<ringVars, volume, data_offset, used, resetAt>>

ShortHeader ==
    /\ InNext
    /\ ~DataSpent
    /\ ~FitsHeader(volume, data_offset)
    /\ it' = "corrupt"
    /\ RefuseFraming
    /\ UNCHANGED <<volume, data_offset, used, resetAt>>

Oversize ==
    /\ InNext
    /\ ~DataSpent
    /\ FitsHeader(volume, data_offset)
    /\ ~FitsBody(volume, data_offset, Claim(volume, used + 1))
    /\ data_offset' = data_offset + Header
    /\ it' = "corrupt"
    /\ RefuseFraming
    /\ UNCHANGED <<volume, used, resetAt>>

Record(r) ==
    LET claim == Claim(volume, used + 1) IN
    /\ InNext
    /\ ~DataSpent
    /\ FitsHeader(volume, data_offset) /\ FitsBody(volume, data_offset, claim)
    /\ claim = 0 => ~r.ok
    /\ Damaged \/ InStream(r) \/ Fresh
    /\ data_offset' = data_offset + Header + claim
    /\ used' = used + 1
    /\ \/ Decode(r) /\ it' = "block"
       \/ Refuse(r) /\ it' = OnRefusal
    /\ UNCHANGED <<volume, resetAt>>

(* reset(data, size, seed).                                                *)
Reset(v) ==
    /\ pos < MaxPos
    /\ ResetRing
    /\ volume' = v
    /\ it' = "none"
    /\ resetAt' = pos
    /\ UNCHANGED <<data_offset, used>>

Next ==
    \/ Begin
    \/ EndOfData \/ ShortHeader \/ Oversize
    \/ \E r \in Records : Record(r)
    \/ \E v \in Volumes : Reset(v)
=============================================================================
