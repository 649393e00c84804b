---------------------------- MODULE BlockIterator ----------------------------
(***************************************************************************)
(* The iterator of the three BlockStreaming templates over an object, and  *)
(* the loops a caller may write with it: on operator bool, on `!= end()',  *)
(* or with read().  Bytes are positions in all the object has to give.     *)
(***************************************************************************)
EXTENDS Integers

CONSTANTS MaxBlock,   \* the longest block
          MaxTotal,   \* bound: the bytes of an object
          MaxEmpty,   \* bound: its empty blocks
          MaxLoops,   \* bound: the loops over one object
          MaxRead     \* bound: the longest read()

ASSUME IteratorAssumption ==
    /\ MaxBlock \in Nat \ {0} /\ MaxRead \in Nat \ {0}
    /\ MaxTotal \in Nat /\ MaxEmpty \in Nat \ {0} /\ MaxLoops \in Nat

VARIABLES family,     \* "deflate", "lz4" or "zstd"
          pc,         \* "begin", "loop" or "done"
          loop,       \* of this time: "bool", "end", "read", or "bool read"
          loops,      \* how many there have been before
          total,      \* how much the object has to give in this one
          empties,    \* how many empty blocks it has given
          state,      \* the object's; LZ4's objects have none
          current_str,\* the bytes from..to-1
          offset,     \* what read() has taken of them
          given       \* the last bytes the caller got

objVars == <<family, loop, loops, total>>
vars == <<objVars, pc, empties, state, current_str, offset, given>>

Run(from, n) == [from |-> from, to |-> from + n]

Length(str) == str.to - str.from

Loops == {"bool", "end", "read", "bool read"}

Init ==
    /\ family \in {"deflate", "lz4", "zstd"}
    /\ loop \in Loops /\ loops = 0
    /\ pc = "begin"
    /\ total \in 0 .. MaxTotal /\ empties = 0
    /\ state = "NONE"
    /\ current_str = Run(0, 0) /\ offset = 0 /\ given = Run(0, 0)

(* Wrong: the end is not noted.                                            *)
EndUnnoted == "INIT"

EndState == IF family = "lz4" THEN "NONE" ELSE "END"

(* Wrong: zstd's only block comes with the end.                            *)
BlockStateEnd == IF family = "zstd" THEN "END" ELSE "INIT"

(* Wrong: init() leaves the state to the constructor.                      *)
BlockStateKept == IF state = "NONE" /\ family # "lz4" THEN "INIT" ELSE state

BlockState == IF family = "lz4" THEN "NONE" ELSE "INIT"

(* reset(): other data, and the state as the last loop left it.            *)
Reset ==
    /\ pc = "done" /\ loops < MaxLoops
    /\ pc' = "begin" /\ loops' = loops + 1
    /\ loop' \in Loops
    /\ total' \in 0 .. MaxTotal /\ empties' = 0
    /\ current_str' = Run(0, 0) /\ offset' = 0 /\ given' = Run(0, 0)
    /\ UNCHANGED <<family, state>>

(* init() or next(): a block; the end, without bytes, comes in a call of   *)
(* its own, only LZ4's in init().  deflate() and inflate() may have        *)
(* nothing yet to show for their input; zstd gives everything in init().   *)
NextBlock ==
    \/ /\ family # "zstd"
       /\ \E n \in 1 .. MaxBlock :
             current_str.to + n <= total /\ current_str' = Run(current_str.to, n)
       /\ state' = BlockState
       /\ UNCHANGED empties
    \/ /\ family = "deflate" /\ empties < MaxEmpty
       /\ current_str' = Run(current_str.to, 0) /\ state' = BlockState
       /\ empties' = empties + 1
    \/ /\ family = "zstd" /\ pc = "begin"
       /\ current_str' = Run(0, total) /\ state' = BlockState
       /\ UNCHANGED empties
    \/ /\ current_str.to = total /\ (pc = "begin" => family = "lz4")
       /\ current_str' = Run(total, 0) /\ state' = EndState
       /\ UNCHANGED empties

Begin ==
    /\ pc = "begin"
    /\ NextBlock /\ offset' = 0
    /\ pc' = "loop"
    /\ UNCHANGED <<objVars, given>>

(* Wrong: one family's test in the others.                                 *)
MoreBytes == Length(current_str) > 0
MoreState == state # "END"

(* operator bool.                                                          *)
More == IF family = "lz4" THEN Length(current_str) > 0 ELSE state # "END"

(* it == end(): the strings are compared.                                  *)
AtEnd == Length(current_str) = 0

(* The body of a loop on operator bool or `!= end()', then ++it.           *)
Increment ==
    /\ pc = "loop"
    /\ (loop = "bool" /\ More) \/ (loop = "end" /\ ~AtEnd)
    /\ given' = IF AtEnd THEN given ELSE current_str
    /\ NextBlock /\ offset' = 0
    /\ UNCHANGED <<objVars, pc>>

Spent == Length(current_str) = offset

(* Wrong: the place in the block before.                                   *)
StartKept == offset

(* Where read() goes on in a block it has just asked for.                  *)
Start == 0

(* memcpy of n bytes or of what the block still has.                       *)
Take(str, at, n) ==
    LET size == IF Length(str) - at < n THEN Length(str) - at ELSE n
    IN  /\ offset' = at + size
        /\ given' = IF size = 0 THEN given ELSE Run(str.from + at, size)
        /\ pc' = IF size = 0 /\ loop = "read" THEN "done" ELSE "loop"

(* read(buf, n), in a loop that ends when it returns 0, or on operator bool.*)
Read(n) ==
    /\ pc = "loop"
    /\ loop = "read" \/ (loop = "bool read" /\ More)
    /\ \/ Spent /\ NextBlock /\ Take(current_str', Start, n)
       \/ ~Spent /\ Take(current_str, offset, n) /\ UNCHANGED <<current_str, state, empties>>
    /\ UNCHANGED objVars

Done ==
    /\ pc = "loop"
    /\ (loop \in {"bool", "bool read"} /\ ~More) \/ (loop = "end" /\ AtEnd)
    /\ pc' = "done"
    /\ UNCHANGED <<objVars, empties, state, current_str, offset, given>>

Loop == Begin \/ Increment \/ Done \/ \E n \in 1 .. MaxRead : Read(n)

Next == Loop \/ Reset

(* A loop goes on once it is begun.                                        *)
Spec == Init /\ [][Next]_vars /\ WF_vars(Loop)

-----------------------------------------------------------------------------
(* The contract of ARCHITECTURE.md:35-47, for every codec and loop: the    *)
(* caller gets the bytes in order, none twice and none left out, whether   *)
(* by blocks or by reads of any length, in every loop over an object that  *)
(* is reset between them.  A loop on operator bool ends with all of them,  *)
(* the last block included.  The others may only end early at a deflate    *)
(* object's empty block, which `==' and a length of 0 do not tell from     *)
(* the end.                                                                *)
Streams ==
    [][/\ given' # given /\ pc # "done" => given'.from = given.to
       /\ pc' = "done" /\ given'.to # total =>
            /\ loop \in {"end", "read"}
            /\ family = "deflate" /\ empties' > 0]_vars

(* Every loop ends: the end is noticed although an object says it in one   *)
(* way of three, and although read() asks for blocks by itself.            *)
LoopEnds == pc = "loop" ~> pc = "done"
=============================================================================
