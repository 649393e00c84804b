--------------------------- MODULE FileDescriptor ---------------------------
(***************************************************************************)
(* What the *File classes do with their descriptor: FileHandle has its     *)
(* life, DetailRead the calls of compressors::detail::read on it.  The     *)
(* rest of the process goes on between any two system calls.               *)
(***************************************************************************)
EXTENDS FileRead, FiniteSets

CONSTANTS MaxFd,          \* bound: descriptors 0 .. MaxFd
          Interruptions,  \* what a close() that fails with EINTR did
          CloseFirst,     \* the caller close()s before it attaches again
          Wants, Lefts    \* bytes asked for, and bytes before the end

ASSUME DescriptorAssumption ==
    /\ MaxFd \in Nat
    /\ Interruptions \subseteq {"kept", "closed"}
    /\ CloseFirst \in BOOLEAN
    /\ Wants \subseteq Nat /\ Lefts \subseteq Nat

VARIABLES open, held, fd, fd_internal, pc, last,    \* of FileHandle
          want, left, done, nbyte, error, ret       \* of DetailRead

handleVars == <<open, held, fd, fd_internal, pc, last>>
readVars == <<want, left, done, nbyte, error, ret>>
vars == <<handleVars, readVars>>

Handle == INSTANCE FileHandle
Reading == INSTANCE DetailRead

Init == Handle!Init /\ Reading!Init

Quiet == ret # Reading!Pending

(* The object is used by one thread: it reads or it does something else.   *)
Attaches == Quiet /\ (Handle!Open \/ Handle!AddFildes) /\ UNCHANGED readVars
Detaches == Quiet /\ (Handle!Close \/ Handle!Closes \/ Handle!Interrupted) /\ UNCHANGED readVars
Reads == pc = "idle" /\ fd # -1 /\ Reading!Next /\ UNCHANGED handleVars

Others == (Handle!OtherOpens \/ Handle!OtherCloses) /\ UNCHANGED readVars

Next == Attaches \/ Detaches \/ Reads \/ Others

Answered ==
    /\ pc = "idle" /\ fd # -1
    /\ Reading!Answered \/ Reading!AskedForNothing
    /\ UNCHANGED handleVars

(* Signals do not interrupt a call for ever: the system answers one that   *)
(* is made again and again.                                                *)
Spec == Init /\ [][Next]_vars /\ WF_vars(Answered)

-----------------------------------------------------------------------------
TypeOK ==
    /\ open \subseteq Handle!Fds /\ held \subseteq Handle!Fds
    /\ fd \in Handle!Fds \cup {-1}
    /\ fd_internal \in BOOLEAN
    /\ pc \in {"idle", "closing", "gone"} /\ last \in BOOLEAN
    /\ pc = "closing" => fd # -1
    /\ want \in Wants \cup {0} /\ left \in Lefts \cup {0}
    /\ done \in 0 .. Lesser(want, left) /\ nbyte \in 0 .. want
    /\ error \in BOOLEAN
    /\ ret \in Nat \cup {-1, Reading!Pending}

(* compressor_deflate.h:32-36, compressor_lz4.h:32-36: of an adopted       *)
(* descriptor "the caller keeps ownership and the class never closes it",  *)
(* nor any other descriptor of the process.                                *)
NeverClosesAnothers == held \subseteq open

(* compressor_deflate.h:32: of a file opened by name "the class owns the   *)
(* fd and closes it": no descriptor stays open that neither the object nor *)
(* the rest of the process knows of.  It is so of callers that close()     *)
(* first; reset() by name over an open file forgets the first descriptor.  *)
NoLeak == open \ held \subseteq (IF Handle!Owns THEN {fd} ELSE {})

(* Whatever short reads and interruptions the system makes of a call, it   *)
(* returns what the *File classes count on: "a full block [...] when the   *)
(* file has the data" (compressor_io.h:59), and -1 only with no byte read. *)
Promise ==
    Quiet =>
        LET r == [n |-> done, failed |-> error]
        IN  r \in ReadResults(left, want) /\ ret = Returned(r)

(* Every call of read() returns.                                           *)
Returns == ret = Reading!Pending ~> ret # Reading!Pending
=============================================================================
