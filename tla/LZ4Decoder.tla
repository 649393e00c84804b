------------------------------ MODULE LZ4Decoder ------------------------------
(***************************************************************************)
(* What an LZ4 decoder of this library promises, whatever it keeps its     *)
(* history in: a record decodes if and only if it is well formed and       *)
(* refers to bytes of its own stream, it then sees exactly those bytes,    *)
(* and the first record that does not decode ends the stream as corrupt.   *)
(***************************************************************************)
EXTENDS Integers, Sequences

CONSTANTS Block,      \* LZ4_BLOCK_SIZE, the most bytes a record decodes to
          Window      \* the farthest back a match may reach

(* A record: well formed or not, the bytes it decodes to, and how far      *)
(* before its first byte its matches reach.                                *)
Records == [ok : BOOLEAN, len : 1 .. Block, reach : 0 .. Window]

NoRecord == [ok |-> FALSE, len |-> 0, reach |-> 0]

VARIABLES pos,        \* bytes decoded since the decoder was created
          start,      \* the value of pos when the current stream began
          last,       \* the last record handed to the decoder
          got,        \* the blocks decoded, with the bytes they referred to
          verdict     \* "open" or "corrupt"

decoderVars == <<pos, start, last, got, verdict>>

DecoderInit ==
    /\ pos = 0 /\ start = 0
    /\ last = NoRecord
    /\ got = <<>>
    /\ verdict = "open"

Handle(r) ==
    /\ verdict = "open"
    /\ last' = r
    /\ IF r.ok /\ r.reach <= pos - start
       THEN /\ got' = Append(got, [len  |-> r.len,
                                   refs |-> [d \in 1 .. r.reach |-> pos - d]])
            /\ pos' = pos + r.len
            /\ UNCHANGED verdict
       ELSE /\ verdict' = "corrupt"
            /\ UNCHANGED <<got, pos>>
    /\ UNCHANGED start

(* The bytes end inside a record, or its header claims too much.           *)
BadFraming ==
    /\ verdict = "open"
    /\ verdict' = "corrupt"
    /\ last' = NoRecord
    /\ UNCHANGED <<pos, start, got>>

Open ==
    /\ start' = pos
    /\ last' = NoRecord
    /\ got' = <<>>
    /\ verdict' = "open"
    /\ UNCHANGED pos

DecoderNext == Open \/ BadFraming \/ \E r \in Records : Handle(r)

DecoderSpec == DecoderInit /\ [][DecoderNext]_decoderVars
=============================================================================
