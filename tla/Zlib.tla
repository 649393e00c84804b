-------------------------------- MODULE Zlib --------------------------------
(***************************************************************************)
(* zlib's streaming calls, as the code in compressor_deflate.cc relies on  *)
(* them.  (zlib itself is not in the repository.)                          *)
(*                                                                         *)
(* What a call of deflate() or inflate() takes and makes is up to zlib,    *)
(* but a call that leaves room in the output buffer has taken all of its   *)
(* input and made all the output that input gives.                         *)
(***************************************************************************)
EXTENDS Integers, Sequences

CONSTANT Overhead     \* deflateBound(n) - n, for the inputs of the model

Smaller(a, b) == IF a <= b THEN a ELSE b

Positions(from, n) == [k \in 1 .. n |-> from + k - 1]

-----------------------------------------------------------------------------
(* A deflate stream: the input bytes compressed so far, by their positions *)
(* in the caller's input, the output bytes made, and whether Z_FINISH has  *)
(* closed it.                                                              *)
NewDeflate == [in |-> <<>>, made |-> 0, ended |-> FALSE]

(* deflate() of the avail bytes from position `from' on into room bytes.   *)
(* Once the stream is closed, only a Z_FINISH without input is no error.   *)
DeflateResults(z, from, avail, flush, room) ==
    IF z.ended
    THEN {[z |-> z, took |-> 0, gave |-> 0,
           ret |-> IF flush = "Z_FINISH" /\ avail = 0 THEN "Z_STREAM_END" ELSE "error"]}
    ELSE {[z |-> [in |-> z.in \o Positions(from, t[1]), made |-> z.made + t[2],
                  ended |-> t[3]],
           took |-> t[1], gave |-> t[2], ret |-> IF t[3] THEN "Z_STREAM_END" ELSE "Z_OK"] :
             t \in {s \in (0 .. avail) \X (0 .. room) \X BOOLEAN :
                     /\ s[2] < room => s[1] = avail /\ s[3] = (flush = "Z_FINISH")
                     /\ s[3] => s[1] = avail /\ flush = "Z_FINISH"
                     /\ z.made + s[2] <= Len(z.in) + s[1] + Overhead}}

-----------------------------------------------------------------------------
(* A compressed volume: a stream of `whole' bytes, of which the caller has *)
(* `size' (fewer: truncated; more: bytes follow the stream).  yields[k] is *)
(* the output that its first k bytes determine.  Damage shows when inflate *)
(* reaches byte `bad' (0 for none).                                        *)
Present(v) == Smaller(v.size, v.whole)

Damaged(v) == v.bad > 0 /\ v.bad <= Present(v)

Complete(v) == v.bad = 0 /\ v.whole <= v.size

(* The output the bytes present give, up to the damage.                    *)
Yield(v) == v.yields[IF Damaged(v) THEN v.bad - 1 ELSE Present(v)]

(* An inflate stream: bytes taken, bytes made.                             *)
NewInflate == [took |-> 0, made |-> 0]

(* A stream opened at a volume's first byte, by its format, reads the      *)
(* volume.  One opened further on, or raw, takes the bytes from there on   *)
(* for some other stream: one of `others', of as many bytes.               *)
Readings(v, from, raw, others) ==
    IF from = 0 /\ ~raw THEN {v}
    ELSE {m \in others : m.size = v.size - Smaller(from, v.size)}

AtStreamEnd(v, i) == v.bad = 0 /\ i.took = v.whole /\ i.made = v.yields[v.whole]

(* inflate() of the avail bytes from `from' on into room bytes.  Bytes     *)
(* other than those next in the stream make a damaged one.                 *)
InflateResults(v, i, from, avail, room) ==
    IF AtStreamEnd(v, i)
    THEN {[i |-> i, took |-> 0, gave |-> 0, ret |-> "Z_STREAM_END"]}
    ELSE IF avail > 0 /\ from # i.took
    THEN {[i |-> i, took |-> 0, gave |-> 0, ret |-> "Z_DATA_ERROR"]}
    ELSE LET sound == Smaller(i.took + avail, IF v.bad > 0 THEN v.bad - 1 ELSE v.whole)
             full  == {k \in i.took .. sound : v.yields[k] >= i.made + room}
             shown == Smaller(i.took + avail, v.whole) > sound
             after(k, o) == [took |-> k, made |-> i.made + o]
             ret(k, o) == IF AtStreamEnd(v, after(k, o)) THEN "Z_STREAM_END"
                          ELSE IF k = i.took /\ o = 0 THEN "Z_BUF_ERROR"
                          ELSE "Z_OK"
         IN  {[i |-> after(k, room), took |-> k - i.took, gave |-> room, ret |-> ret(k, room)] :
                k \in full}
             \cup
             (IF v.yields[sound] >= i.made + room THEN {}
              ELSE LET o == v.yields[sound] - i.made
                   IN  {[i |-> after(sound, o), took |-> sound - i.took, gave |-> o,
                         ret |-> IF shown THEN "Z_DATA_ERROR" ELSE ret(sound, o)]})
=============================================================================
