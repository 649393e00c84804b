----------------------------- MODULE DetailRead -----------------------------
(***************************************************************************)
(* compressors::detail::read, system call by system call.  The system may  *)
(* read less than asked for, be interrupted, or fail.                      *)
(***************************************************************************)
EXTENDS FileRead

CONSTANTS Wants,      \* nbyte arguments
          Lefts       \* bytes from the descriptor's position to the end

VARIABLES want, left, \* at the call
          done,       \* p - buf
          nbyte,
          error,      \* ::read failed with something other than EINTR
          ret         \* what the call returned, Pending before that

vars == <<want, left, done, nbyte, error, ret>>

Pending == -2

Init ==
    /\ want = 0 /\ left = 0
    /\ done = 0 /\ nbyte = 0
    /\ error = FALSE
    /\ ret = 0

Call(n, l) ==
    /\ ret # Pending
    /\ want' = n /\ left' = l
    /\ done' = 0 /\ nbyte' = n
    /\ error' = FALSE
    /\ ret' = Pending

InLoop == ret = Pending /\ nbyte # 0

(* Wrong: what is still to be read is not counted down.                    *)
RemainingKept(c) == nbyte

Remaining(c) == nbyte - c

(* ::read took c bytes; the loop ends early when they are all of them.     *)
Takes(c) ==
    /\ InLoop
    /\ c \in 1 .. Lesser(nbyte, left - done)
    /\ done' = done + c
    /\ IF c = nbyte
       THEN ret' = done' /\ UNCHANGED nbyte
       ELSE nbyte' = Remaining(c) /\ UNCHANGED ret
    /\ UNCHANGED <<want, left, error>>

(* Wrong: a read of no bytes is tried again.                               *)
OnEOFRetry == Pending

OnEOF == done

AtEOF ==
    /\ InLoop
    /\ done = left
    /\ ret' = OnEOF
    /\ UNCHANGED <<want, left, done, nbyte, error>>

(* Wrong: the bytes read before the error are given up.                    *)
OnErrorAlways == -1

OnError == IF done = 0 THEN -1 ELSE done

Fails ==
    /\ InLoop
    /\ error' = TRUE
    /\ ret' = OnError
    /\ UNCHANGED <<want, left, done, nbyte>>

(* EINTR: the same call again.                                             *)
Interrupted ==
    /\ InLoop
    /\ UNCHANGED vars

AskedForNothing ==
    /\ ret = Pending /\ nbyte = 0
    /\ ret' = done
    /\ UNCHANGED <<want, left, done, nbyte, error>>

Answered == (\E c \in 1 .. want : Takes(c)) \/ AtEOF

Next ==
    \/ \E n \in Wants, l \in Lefts : Call(n, l)
    \/ Answered \/ Fails \/ Interrupted \/ AskedForNothing
=============================================================================
