-------------------------- MODULE LZ4BlockStreaming --------------------------
(***************************************************************************)
(* The compressing classes that derive from LZ4BlockStreaming: one ring    *)
(* (LZ4Ring), fed from a buffer by LZ4CompressData or from a descriptor by *)
(* LZ4CompressFile, and the loop that drives either:                       *)
(*     for (auto it = obj.begin(); it; ++it) out.append( *it);             *)
(***************************************************************************)
EXTENDS LZ4Ring, FileRead

CONSTANTS Sizes,      \* the sizes of the buffers callers hand in
          FileSizes,  \* the sizes of the files
          Offsets,    \* fd_offset arguments, -1 for "from where it stands"
          Limits,     \* fd_nbytes arguments, -1 for "to the end"
          MaxPos      \* bound: no reset() or begin() once pos reaches it

(* The ring takes a whole number of blocks: 128 in the code.               *)
ASSUME StreamingAssumption ==
    /\ Sizes \subseteq Nat /\ FileSizes \subseteq Nat
    /\ Offsets \subseteq Nat \cup {-1} /\ Limits \subseteq Nat \cup {-1}
    /\ MaxPos \in Nat
    /\ Wrap % Block = 0

VARIABLES class,      \* what the object is: "data" or "file"
          it, first,  \* the iterator, and pos at the last begin()
          data_size, data_offset,
          fileSize, at, fd_offset, fd_nbytes, range, readFailed

dataVars == <<data_size, data_offset>>
fileVars == <<fileSize, at, fd_offset, fd_nbytes, range, readFailed>>
vars == <<ringVars, class, it, first, dataVars, fileVars>>

Data == INSTANCE LZ4CompressData
File == INSTANCE LZ4CompressFile

NoData == data_size = 0 /\ data_offset = 0

NoFile ==
    /\ fileSize = 0 /\ at = 0
    /\ fd_offset = 0 /\ fd_nbytes = -1
    /\ range = File!NoRange /\ readFailed = FALSE

Init ==
    \/ class = "data" /\ Data!Init /\ NoFile
    \/ class = "file" /\ File!Init /\ NoData

Next ==
    \/ class = "data" /\ Data!Next /\ UNCHANGED <<class, fileVars>>
    \/ class = "file" /\ File!Next /\ UNCHANGED <<class, dataVars>>

Increment ==
    \/ class = "data" /\ Data!Increment /\ UNCHANGED <<class, fileVars>>
    \/ class = "file" /\ File!Increment /\ UNCHANGED <<class, dataVars>>

(* The driving loop calls ++it until the iterator is empty; begin() and    *)
(* reset() are the caller's choice.                                        *)
Spec == Init /\ [][Next]_vars /\ WF_vars(Increment)

-----------------------------------------------------------------------------
TypeOK ==
    /\ RingTypeOK
    /\ class \in {"data", "file"}
    /\ it \in {"none", "block", "end", "thrown"}
    /\ first \in start .. pos
    /\ data_size \in Nat /\ data_offset \in Nat
    /\ fileSize \in Nat /\ at \in Nat
    /\ fd_offset \in Nat \cup {-1} /\ fd_nbytes \in Nat \cup {-1}
    /\ range \in [lo : Nat, hi : Nat]
    /\ readFailed \in BOOLEAN

(* The bytes an iteration is to compress.                                  *)
Input == IF class = "data" THEN data_size ELSE range.hi - range.lo

(* A loop that ran to its end, and met no read error, compressed all its   *)
(* input, once: neither begin() and reset() nor fd_nbytes, counted down by *)
(* what is asked for rather than what is read, drop or repeat a byte.  The *)
(* first loop after construction or reset() writes the stream the format   *)
(* defines for that input, the same for a buffer and for a file, whatever  *)
(* the object did before.                                                  *)
StreamOfInput ==
    it = "end" /\ ~readFailed =>
        /\ pos = first + Input
        /\ first = start => out = Layout!Stream(start, Input)

(* Bytes of a file reach the ring in file order, each once; those read     *)
(* before a failing read() are not lost.                                   *)
InFileOrder ==
    class = "file" /\ it \in {"block", "end"} => pos - first = at - range.lo

(* The driving loop ends.                                                  *)
LoopEnds == it = "block" ~> it # "block"
=============================================================================
