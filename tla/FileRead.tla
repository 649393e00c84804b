------------------------------ MODULE FileRead ------------------------------
(***************************************************************************)
(* What compressors::detail::read(fd, buf, want) may return to the *File   *)
(* classes when `left' bytes precede the end of the file.  DetailRead has  *)
(* the loop that keeps this promise.                                       *)
(***************************************************************************)
EXTENDS Integers

Lesser(a, b) == IF a <= b THEN a ELSE b

(* All there is up to what was asked for; less only when read() failed on  *)
(* the way.                                                                *)
ReadResults(left, want) ==
    {r \in [n : 0 .. Lesser(want, left), failed : BOOLEAN] :
       IF r.failed THEN r.n < want ELSE r.n = Lesser(want, left)}

(* Wrong: -1 although some bytes were read.                                *)
ReturnedOnError(r) == IF r.failed THEN -1 ELSE r.n

Returned(r) == IF r.failed /\ r.n = 0 THEN -1 ELSE r.n
=============================================================================
