------------------------ MODULE BlockIteratorProofs ------------------------
(***************************************************************************)
(* The iterator hands over every byte once and in order, for blocks,       *)
(* reads and objects of any length.                                        *)
(***************************************************************************)
EXTENDS BlockIterator, TLAPS

(* A string of no bytes is the end, or an empty block of zlib's.           *)
AtTotal == current_str.to = total \/ (family = "deflate" /\ empties > 0)

StringInv ==
    /\ total \in Nat /\ empties \in Nat
    /\ current_str \in [from : Nat, to : Nat] /\ given \in [from : Nat, to : Nat]
    /\ current_str.from <= current_str.to /\ current_str.to <= total
    /\ offset \in Nat /\ offset <= Length(current_str)

(* An object says its end only with a string of no bytes behind all.       *)
EndInv ==
    pc = "loop" =>
        /\ state = "END" /\ family # "lz4" => Length(current_str) = 0 /\ current_str.to = total
        /\ Length(current_str) = 0 => AtTotal

(* What the caller has: the blocks before this one, or the reads of it.    *)
GivenInv ==
    /\ pc = "begin" => current_str = Run(0, 0) /\ given = Run(0, 0) /\ offset = 0
    /\ pc = "loop" => given.to = current_str.from + offset
    /\ pc = "loop" /\ loop \in {"bool", "end"} => offset = 0

TypeInv ==
    /\ family \in {"deflate", "lz4", "zstd"} /\ loop \in Loops
    /\ pc \in {"begin", "loop", "done"}

IteratorInv == TypeInv /\ StringInv /\ EndInv /\ GivenInv

-----------------------------------------------------------------------------
(* init() and next() of all three: the string goes on where the one before *)
(* ended.                                                                  *)
LEMMA Continues ==
    ASSUME IteratorInv, NextBlock, UNCHANGED objVars,
           pc = "begin" \/ pc = "loop"
    PROVE  /\ empties' \in Nat
           /\ current_str' \in [from : Nat, to : Nat]
           /\ current_str'.from = current_str.to
           /\ current_str'.from <= current_str'.to /\ current_str'.to <= total
           /\ Length(current_str)' = current_str'.to - current_str'.from
           /\ state' = "END" /\ family # "lz4" =>
                Length(current_str)' = 0 /\ current_str'.to = total
           /\ Length(current_str)' = 0 => AtTotal'
<1> USE DEF IteratorInv, TypeInv, StringInv, GivenInv, Run, Length, AtTotal, objVars
<1>1. ASSUME NEW n \in 1 .. MaxBlock, family # "zstd", current_str.to + n <= total,
             current_str' = Run(current_str.to, n), state' = BlockState, UNCHANGED empties
      PROVE  /\ empties' \in Nat
             /\ current_str' = [from |-> current_str.to, to |-> current_str.to + n]
             /\ state' # "END"
  BY <1>1 DEF BlockState
<1>2. CASE /\ family = "deflate" /\ current_str' = Run(current_str.to, 0)
           /\ state' = BlockState /\ empties' = empties + 1
  BY <1>2 DEF BlockState
<1>3. CASE /\ family = "zstd" /\ pc = "begin" /\ current_str' = Run(0, total)
           /\ state' = BlockState /\ UNCHANGED empties
  BY <1>3 DEF BlockState
<1>4. CASE /\ current_str.to = total /\ current_str' = Run(total, 0)
           /\ state' = EndState /\ UNCHANGED empties
  BY <1>4
<1> QED
  BY <1>1, <1>2, <1>3, <1>4, IteratorAssumption DEF NextBlock

LEMMA StepBegin ==
    ASSUME IteratorInv, Begin
    PROVE  IteratorInv'
<1>1. /\ empties' \in Nat
      /\ current_str' \in [from : Nat, to : Nat]
      /\ current_str'.from = current_str.to
      /\ current_str'.from <= current_str'.to /\ current_str'.to <= total
      /\ state' = "END" /\ family # "lz4" => Length(current_str)' = 0 /\ current_str'.to = total
      /\ Length(current_str)' = 0 => AtTotal'
  BY Continues DEF Begin
<1>2. current_str = Run(0, 0) /\ given = Run(0, 0)
  BY DEF Begin, IteratorInv, GivenInv
<1>3. given.to = 0 /\ current_str.to = 0
  BY <1>2 DEF Run
<1> QED
  BY <1>1, <1>3 DEF Begin, IteratorInv, TypeInv, StringInv, EndInv, GivenInv, objVars, Length

LEMMA StepIncrement ==
    ASSUME IteratorInv, Increment
    PROVE  /\ IteratorInv'
           /\ given' # given => given'.from = given.to
<1>1. /\ empties' \in Nat
      /\ current_str' \in [from : Nat, to : Nat]
      /\ current_str'.from = current_str.to
      /\ current_str'.from <= current_str'.to /\ current_str'.to <= total
      /\ state' = "END" /\ family # "lz4" => Length(current_str)' = 0 /\ current_str'.to = total
      /\ Length(current_str)' = 0 => AtTotal'
  BY Continues DEF Increment
<1>2. /\ given.to = current_str.from
      /\ given' = IF AtEnd THEN given ELSE current_str
      /\ AtEnd => current_str.from = current_str.to
  BY DEF Increment, IteratorInv, GivenInv, StringInv, AtEnd, Length
<1>3. given'.to = current_str.to /\ given' \in [from : Nat, to : Nat]
  BY <1>2 DEF IteratorInv, StringInv
<1>4. IteratorInv'
  BY <1>1, <1>3 DEF Increment, IteratorInv, TypeInv, StringInv, EndInv, GivenInv, objVars, Length
<1> QED
  BY <1>2, <1>4

(* The copy of a read, from `at' in the string it is made from.            *)
LEMMA Taken ==
    ASSUME NEW str \in [from : Nat, to : Nat], NEW at \in Nat, at <= Length(str),
           NEW n \in 1 .. MaxRead, given \in [from : Nat, to : Nat], given.to = str.from + at,
           Take(str, at, n)
    PROVE  /\ offset' \in Nat /\ offset' <= Length(str)
           /\ given' \in [from : Nat, to : Nat] /\ given'.to = str.from + offset'
           /\ given' # given => given'.from = given.to
           /\ pc' \in {"loop", "done"}
           /\ pc' = "done" => loop = "read" /\ Length(str) = at /\ given' = given
<1> DEFINE size == IF Length(str) - at < n THEN Length(str) - at ELSE n
<1>1. /\ Length(str) \in Int /\ size \in Nat /\ size <= Length(str) - at
      /\ size = 0 => Length(str) = at
  BY IteratorAssumption DEF Length
<1>2. /\ offset' = at + size
      /\ given' = IF size = 0 THEN given ELSE Run(str.from + at, size)
      /\ pc' = IF size = 0 /\ loop = "read" THEN "done" ELSE "loop"
  BY DEF Take
<1> HIDE DEF size
<1>3. CASE size = 0
  BY <1>1, <1>2, <1>3
<1>4. CASE size # 0
  <2>1. given' = [from |-> str.from + at, to |-> str.from + at + size]
    BY <1>2, <1>4 DEF Run
  <2> QED
    BY <1>1, <1>2, <1>4, <2>1
<1> QED
  BY <1>3, <1>4

LEMMA StepRead ==
    ASSUME IteratorInv, NEW n \in 1 .. MaxRead, Read(n)
    PROVE  /\ IteratorInv'
           /\ given' # given => given'.from = given.to
           /\ pc' = "done" /\ given'.to # total =>
                loop = "read" /\ family = "deflate" /\ empties' > 0
<1>1. /\ given \in [from : Nat, to : Nat] /\ given.to = current_str.from + offset
      /\ current_str \in [from : Nat, to : Nat] /\ offset \in Nat
      /\ offset <= Length(current_str) /\ pc = "loop" /\ loop \in {"read", "bool read"}
  BY DEF Read, IteratorInv, StringInv, GivenInv
<1>2. CASE Spent /\ NextBlock /\ Take(current_str', Start, n)
  <2>1. /\ empties' \in Nat
        /\ current_str' \in [from : Nat, to : Nat]
        /\ current_str'.from = current_str.to
        /\ current_str'.from <= current_str'.to /\ current_str'.to <= total
        /\ state' = "END" /\ family # "lz4" => Length(current_str)' = 0 /\ current_str'.to = total
        /\ Length(current_str)' = 0 => AtTotal'
    BY <1>2, Continues DEF Read
  <2>2. given.to = current_str'.from
    <3>1. offset = current_str.to - current_str.from
      BY <1>2 DEF Spent, Length
    <3>2. current_str.from \in Nat /\ current_str.to \in Nat
      BY <1>1
    <3>3. given.to = current_str.from + offset
      BY <1>1
    <3>4. given.to = current_str.to
      BY <3>1, <3>2, <3>3
    <3> QED
      BY <2>1, <3>4
  <2>3. /\ offset' \in Nat /\ offset' <= Length(current_str')
        /\ given' \in [from : Nat, to : Nat] /\ given'.to = current_str'.from + offset'
        /\ given' # given => given'.from = given.to
        /\ pc' \in {"loop", "done"}
        /\ pc' = "done" => loop = "read" /\ Length(current_str') = 0 /\ given' = given
    <3>1. Take(current_str', 0, n)
      BY <1>2 DEF Start
    <3>2. 0 \in Nat /\ 0 <= Length(current_str')
      BY <2>1 DEF Length
    <3>3. given.to = current_str'.from + 0
      BY <2>1, <2>2
    <3> QED
      BY <1>1, <2>1, <3>1, <3>2, <3>3, Taken
  <2>4. IteratorInv'
    BY <1>1, <2>1, <2>3 DEF Read, IteratorInv, TypeInv, StringInv, EndInv, GivenInv, objVars, Length
  <2>5. pc' = "done" /\ given'.to # total => loop = "read" /\ family = "deflate" /\ empties' > 0
    BY <2>1, <2>2, <2>3 DEF Read, objVars, AtTotal, Length
  <2> QED
    BY <2>3, <2>4, <2>5
<1>3. CASE ~Spent /\ Take(current_str, offset, n) /\ UNCHANGED <<current_str, state, empties>>
  <2>1. /\ offset' \in Nat /\ offset' <= Length(current_str)
        /\ given' \in [from : Nat, to : Nat] /\ given'.to = current_str.from + offset'
        /\ given' # given => given'.from = given.to
        /\ pc' = "loop"
    BY <1>1, <1>3, Taken DEF Spent
  <2> QED
    BY <1>1, <1>3, <2>1 DEF Read, IteratorInv, TypeInv, StringInv, EndInv, AtTotal, GivenInv, objVars, Length
<1> QED
  BY <1>2, <1>3 DEF Read

LEMMA StepDone ==
    ASSUME IteratorInv, Done
    PROVE  /\ IteratorInv' /\ given' = given
           /\ given'.to # total => loop = "end" /\ family = "deflate" /\ empties' > 0
<1>1. IteratorInv' /\ given' = given
  BY DEF Done, IteratorInv, TypeInv, StringInv, EndInv, AtTotal, GivenInv, objVars, Length
<1>2. ASSUME given.to # total
      PROVE  loop = "end" /\ family = "deflate" /\ empties > 0
  <2>1. /\ given.to = current_str.from + offset /\ offset \in Nat
        /\ offset <= Length(current_str)
        /\ current_str \in [from : Nat, to : Nat]
        /\ state = "END" /\ family # "lz4" => Length(current_str) = 0 /\ current_str.to = total
        /\ Length(current_str) = 0 => AtTotal
    BY DEF Done, IteratorInv, StringInv, EndInv, GivenInv
  <2>2. Length(current_str) = 0 => given.to = current_str.to
    BY <2>1 DEF Length
  <2>3. CASE loop \in {"bool", "bool read"} /\ ~More
    <3>1. CASE family = "lz4"
      <4>1. Length(current_str) = 0
        <5>1. Length(current_str) \in Nat
          BY <2>1 DEF Length
        <5>2. ~(Length(current_str) > 0)
          BY <2>3, <3>1 DEF More
        <5> QED
          BY <5>1, <5>2
      <4> QED
        BY <1>2, <2>1, <2>2, <3>1, <4>1 DEF AtTotal
    <3>2. CASE family # "lz4"
      <4>1. state = "END"
        BY <2>3, <3>2 DEF More
      <4> QED
        BY <1>2, <2>1, <2>2, <3>2, <4>1
    <3> QED
      BY <3>1, <3>2
  <2>4. CASE loop = "end" /\ AtEnd
    BY <1>2, <2>1, <2>2, <2>4 DEF AtEnd, AtTotal
  <2> QED
    BY <2>3, <2>4 DEF Done
<1> QED
  BY <1>1, <1>2 DEF Done

LEMMA StepReset ==
    ASSUME IteratorInv, Reset
    PROVE  IteratorInv'
BY IteratorAssumption
DEF Reset, IteratorInv, TypeInv, StringInv, EndInv, GivenInv, Run, Length

-----------------------------------------------------------------------------
THEOREM IteratorInvariant == Spec => []IteratorInv
<1>1. Init => IteratorInv
  BY IteratorAssumption DEF Init, IteratorInv, TypeInv, StringInv, EndInv, GivenInv, Run, Length
<1>2. IteratorInv /\ [Next]_vars => IteratorInv'
  <2> SUFFICES ASSUME IteratorInv, [Next]_vars PROVE IteratorInv'
    OBVIOUS
  <2>1. CASE UNCHANGED vars
    BY <2>1 DEF vars, objVars, IteratorInv, TypeInv, StringInv, EndInv, AtTotal, GivenInv, Length
  <2> QED
    BY <2>1, StepBegin, StepIncrement, StepRead, StepDone, StepReset DEF Next, Loop
<1> QED
  BY <1>1, <1>2, PTL DEF Spec

(* ARCHITECTURE.md:35-47, for every length of block and read: the bytes    *)
(* come once and in order, and only a loop that takes an empty string for  *)
(* the end may miss the last, at an empty block.                           *)
THEOREM LoopsGetTheStream == Spec => Streams
<1>1. ASSUME IteratorInv, [Next]_vars
      PROVE  [/\ given' # given /\ pc # "done" => given'.from = given.to
              /\ pc' = "done" /\ given'.to # total =>
                   /\ loop \in {"end", "read"}
                   /\ family = "deflate" /\ empties' > 0]_vars
  <2>1. CASE Begin
    BY <2>1 DEF Begin
  <2>2. CASE Increment
    BY <1>1, <2>2, StepIncrement DEF Increment
  <2>3. ASSUME NEW n \in 1 .. MaxRead, Read(n)
        PROVE  /\ given' # given => given'.from = given.to
               /\ pc' = "done" /\ given'.to # total =>
                    loop = "read" /\ family = "deflate" /\ empties' > 0
    BY <1>1, <2>3, StepRead
  <2>4. CASE Done
    BY <1>1, <2>4, StepDone
  <2>5. CASE Reset
    BY <2>5 DEF Reset
  <2>6. CASE UNCHANGED vars
    BY <2>6
  <2> QED
    BY <1>1, <2>1, <2>2, <2>3, <2>4, <2>5, <2>6 DEF Next, Loop
<1> QED
  BY <1>1, IteratorInvariant, PTL DEF Spec, Streams
=============================================================================
