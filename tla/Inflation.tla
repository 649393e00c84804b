----------------------------- MODULE Inflation -----------------------------
(***************************************************************************)
(* What decompressing a zlib volume promises, whichever way it is done: in *)
(* memory block by block, in one call, or from a file.  The caller is      *)
(* given output from the front of what the volume holds; the end comes     *)
(* after all of it, and damage is never mistaken for the end.              *)
(***************************************************************************)
EXTENDS Zlib

CONSTANT Volumes

VARIABLES volume,
          strict,     \* a truncated volume is an error too (the *File class)
          out,        \* bytes of output the caller has
          verdict     \* "none", "reading", "end", "corrupt" or "failed"

inflationVars == <<volume, strict, out, verdict>>

Rejected(v) == Damaged(v) \/ (strict /\ ~Complete(v))

InflationInit == volume \in Volumes /\ strict \in BOOLEAN /\ out = 0 /\ verdict = "none"

(* The caller turns to a volume (perhaps the same again), or leaves one.   *)
(* One that gives nothing may end at once.                                 *)
Open ==
    /\ volume' \in Volumes
    /\ out' = 0
    /\ \/ verdict' \in {"none", "reading"}
       \/ verdict' = "end" /\ Yield(volume') = 0 /\ ~Rejected(volume')
    /\ UNCHANGED strict

Produce ==
    /\ verdict = "reading"
    /\ out' \in out .. Yield(volume)
    /\ UNCHANGED <<volume, strict, verdict>>

(* The last of the output may come with the verdict (the one-shot call).   *)
End ==
    /\ verdict = "reading" /\ ~Rejected(volume)
    /\ verdict' = "end"
    /\ out' = Yield(volume)
    /\ UNCHANGED <<volume, strict>>

Corrupt ==
    /\ verdict = "reading" /\ Rejected(volume)
    /\ verdict' = "corrupt"
    /\ UNCHANGED <<volume, strict, out>>

(* The system or zlib has no memory, or a read failed.                     *)
Fail ==
    /\ verdict' = "failed"
    /\ UNCHANGED <<volume, strict, out>>

InflationNext == Open \/ Produce \/ End \/ Corrupt \/ Fail

InflationSpec == InflationInit /\ [][InflationNext]_inflationVars
=============================================================================
