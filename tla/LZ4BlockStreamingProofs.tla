----------------------- MODULE LZ4BlockStreamingProofs -----------------------
(***************************************************************************)
(* The ring of the compressing classes keeps the layout of the format, for *)
(* every block size, ring size and window with Wrap >= Window + Block; and *)
(* the classes, which feed the ring from a buffer or from a file, write    *)
(* the one stream the format has for their input, all of it, once.         *)
(***************************************************************************)
EXTENDS LZ4BlockStreaming, SequenceTheorems, TLAPS

-----------------------------------------------------------------------------
(* The ring, whoever feeds it.                                             *)

(* The dictionary is always what stands at the front of the ring: the      *)
(* segment being filled or, when a new one is about to begin, all of the   *)
(* segment just closed; and its cells hold the bytes that precede pos.     *)
ShapeInv ==
    /\ buffer \in [0 .. (RingBytes - 1) -> Int]
    /\ offset \in 0 .. (Wrap - 1)
    /\ pos \in Nat /\ start \in Nat
    /\ dict \in [lo : {0}, hi : Nat]
    /\ offset > 0 => dict.hi = offset
    /\ offset = 0 => dict.hi = 0 \/ dict.hi \in Wrap .. (Wrap + Block - 1)
    /\ dict.hi <= pos - start

ContentsInv == \A a \in 0 .. (dict.hi - 1) : buffer[a] = pos - dict.hi + a

RingInv == ShapeInv /\ ContentsInv

-----------------------------------------------------------------------------
(* What a block refers to: exactly the bytes the layout gives it, whether  *)
(* it goes on in a segment or wraps onto the one just closed.              *)
LEMMA RefsExact ==
    ASSUME RingInv, NEW n \in 1 .. Block,
           buffer' = Written(buffer, offset, pos, n)
    PROVE  Refs(buffer', Untouched(dict, offset, n))
             = [d \in 1 .. Least(Window, Size(dict)) |-> pos - d]
<1> USE RingAssumption DEF RingInv
<1> DEFINE u == Untouched(dict, offset, n)
<1>0. dict.hi \in Nat /\ RingBytes \in Nat /\ dict.hi <= RingBytes - 1 /\ dict.lo = 0
  <2>1. CASE offset > 0
    BY <2>1 DEF ShapeInv, RingBytes
  <2>2. CASE offset = 0
    BY <2>2 DEF ShapeInv, RingBytes
  <2> QED
    BY <2>1, <2>2 DEF ShapeInv
<1>1. Least(Window, Size(u)) = Least(Window, Size(dict)) /\ u.hi = dict.hi
  <2>1. CASE offset > 0
    <3>1. u = dict
      BY <2>1 DEF Untouched, ShapeInv
    <3> QED
      BY <3>1
  <2>2. CASE offset = 0 /\ dict.hi = 0
    <3>1. u = dict
      BY <2>2 DEF Untouched, ShapeInv
    <3> QED
      BY <3>1
  <2>3. CASE offset = 0 /\ dict.hi \in Wrap .. (Wrap + Block - 1)
    <3>1. u = [lo |-> n, hi |-> dict.hi]
      BY <2>3 DEF Untouched, ShapeInv
    <3>2. Size(u) >= Window /\ Size(dict) >= Window
      BY <1>0, <3>1, <2>3 DEF Size
    <3> QED
      BY <1>0, <3>1, <3>2 DEF Least, Size
  <2> QED
    BY <2>1, <2>2, <2>3 DEF ShapeInv
<1>2. ASSUME NEW d \in 1 .. Least(Window, Size(dict))
      PROVE  buffer'[dict.hi - d] = pos - d
  <2>1. d \in Nat /\ d >= 1 /\ d <= Window /\ d <= dict.hi
    BY <1>0 DEF Least, Size
  <2>2. dict.hi - d \in 0 .. (dict.hi - 1) /\ dict.hi - d \in 0 .. (RingBytes - 1)
    BY <1>0, <2>1
  <2>3. dict.hi - d \notin offset .. (offset + n - 1)
    <3>1. CASE offset > 0
      BY <3>1, <2>1 DEF ShapeInv
    <3>2. CASE offset = 0
      BY <3>2, <1>0, <2>1 DEF ShapeInv
    <3> QED
      BY <3>1, <3>2 DEF ShapeInv
  <2>4. buffer'[dict.hi - d] = buffer[dict.hi - d]
    BY <2>2, <2>3 DEF Written, ShapeInv
  <2>5. buffer[dict.hi - d] = pos - dict.hi + (dict.hi - d)
    BY <2>2 DEF ContentsInv
  <2> QED
    BY <1>0, <2>1, <2>4, <2>5 DEF ShapeInv
<1>3. Refs(buffer', u) = [d \in 1 .. Least(Window, Size(dict)) |-> buffer'[dict.hi - d]]
  BY <1>1 DEF Refs
<1> QED
  BY <1>2, <1>3

LEMMA InvInit == RingInit => RingInv
BY RingAssumption DEF RingInit, RingInv, ShapeInv, ContentsInv, NoSpan, RingBytes

LEMMA InvCompress ==
    ASSUME RingInv, NEW n \in 1 .. Block, Compress(n)
    PROVE  RingInv'
<1> USE RingAssumption DEF RingInv
<1>1. buffer' \in [0 .. (RingBytes - 1) -> Int]
  BY DEF Compress, Written, ShapeInv, RingBytes
<1>2. dict' = [lo |-> 0, hi |-> offset + n]
  BY DEF Compress, DictAfter, ShapeInv
<1>3. ShapeInv'
  BY <1>1, <1>2 DEF Compress, ShapeInv, Advanced
<1>4. ASSUME NEW a \in 0 .. (offset + n - 1)
      PROVE  buffer'[a] = pos + n - (offset + n) + a
  <2>1. a \in DOMAIN buffer
    BY DEF ShapeInv, RingBytes
  <2>2. CASE a >= offset
    BY <2>1, <2>2 DEF Compress, Written, ShapeInv
  <2>3. CASE a < offset
    <3>1. buffer'[a] = buffer[a]
      BY <2>1, <2>3 DEF Compress, Written, ShapeInv
    <3> QED
      BY <3>1, <2>3 DEF ShapeInv, ContentsInv
  <2> QED
    BY <2>2, <2>3 DEF ShapeInv
<1>5. ContentsInv'
  <2>1. dict'.hi = offset + n /\ pos' = pos + n
    BY <1>2 DEF Compress
  <2>2. \A a \in 0 .. (dict'.hi - 1) : buffer'[a] = pos' - dict'.hi + a
    BY <1>4, <2>1 DEF ShapeInv
  <2> QED
    BY <2>2 DEF ContentsInv
<1> QED
  BY <1>3, <1>5

LEMMA InvReset == RingInv /\ ResetRing => RingInv'
BY RingAssumption DEF RingInv, ShapeInv, ContentsInv, ResetRing, NoSpan, RingBytes

LEMMA InvStutter == RingInv /\ UNCHANGED ringVars => RingInv'
BY DEF RingInv, ShapeInv, ContentsInv, ringVars

(* The invariant holds in every reachable state of the ring, whoever feeds *)
(* it.                                                                     *)
THEOREM RingInvariant == RingSpec => []RingInv
<1>1. RingInit => RingInv
  BY InvInit
<1>2. RingInv /\ [RingNext]_ringVars => RingInv'
  <2> SUFFICES ASSUME RingInv, [RingNext]_ringVars PROVE RingInv'
    OBVIOUS
  <2>1. ASSUME NEW n \in 1 .. Block, Compress(n) PROVE RingInv'
    BY <2>1, InvCompress
  <2>2. CASE ResetRing
    BY <2>2, InvReset
  <2>3. CASE UNCHANGED ringVars
    BY <2>3, InvStutter
  <2> QED
    BY <2>1, <2>2, <2>3 DEF RingNext
<1> QED
  BY <1>1, <1>2, PTL DEF RingSpec

-----------------------------------------------------------------------------
(* No block is ever written past the ring.                                 *)
THEOREM RingNoOverrun == RingSpec => []NoOverrun
<1>1. RingInv => NoOverrun
  BY RingAssumption DEF RingInv, ShapeInv, NoOverrun, RingBytes
<1> QED
  BY <1>1, RingInvariant, PTL

(* The bytes lz4Stream refers to are intact whenever a block is at hand.   *)
THEOREM RingDictIntact == RingSpec => []DictIntact
<1>1. RingInv => DictIntact
  BY RingAssumption DEF RingInv, ShapeInv, ContentsInv, DictIntact, Least, Size
<1> QED
  BY <1>1, RingInvariant, PTL

(* The blocks of a stream, none of them before its first byte was put.     *)
Produced == Seq([len : 1 .. Block, refs : Seq(Int)])

OutInv ==
    /\ out \in Produced
    /\ SelfContained
    /\ pos = start => out = <<>>

LEMMA OutCompress ==
    ASSUME RingInv, OutInv, NEW n \in 1 .. Block, Compress(n)
    PROVE  OutInv'
<1> DEFINE k == Least(Window, Size(dict))
           refs == [d \in 1 .. k |-> pos - d]
<1>1. k \in Nat /\ k <= pos - start /\ pos \in Nat /\ start \in Nat
  BY RingAssumption DEF RingInv, ShapeInv, Least, Size
<1>2. out' = Append(out, [len |-> n, refs |-> refs]) /\ start' = start /\ pos' = pos + n
  BY RefsExact DEF Compress
<1>3. refs \in Seq(Int) /\ \A d \in DOMAIN refs : refs[d] >= start
  <2> HIDE DEF k
  <2> QED
    BY <1>1
<1> HIDE DEF refs
<1>4. out' \in Produced
  BY <1>2, <1>3 DEF OutInv, Produced
<1>5. ASSUME NEW i \in DOMAIN out'
      PROVE  \A d \in DOMAIN out'[i].refs : out'[i].refs[d] >= start
  <2>1. CASE i \in DOMAIN out
    BY <1>2, <2>1 DEF OutInv, Produced, SelfContained
  <2>2. CASE i = Len(out) + 1
    BY <1>2, <1>3, <2>2 DEF OutInv, Produced
  <2> QED
    BY <1>2, <2>1, <2>2 DEF OutInv, Produced
<1>6. pos' # start'
  BY <1>1, <1>2 DEF RingInv, ShapeInv
<1> QED
  BY <1>2, <1>4, <1>5, <1>6 DEF OutInv, SelfContained

THEOREM RingOutInv == RingSpec => []OutInv
<1>1. RingInit => OutInv
  BY DEF RingInit, OutInv, Produced, SelfContained
<1>2. RingInv /\ OutInv /\ [RingNext]_ringVars => OutInv'
  <2> SUFFICES ASSUME RingInv, OutInv, [RingNext]_ringVars PROVE OutInv'
    OBVIOUS
  <2>1. CASE ResetRing
    BY <2>1 DEF ResetRing, OutInv, Produced, SelfContained
  <2>2. CASE UNCHANGED ringVars
    BY <2>2 DEF ringVars, OutInv, Produced, SelfContained
  <2> QED
    BY <2>1, <2>2, OutCompress DEF RingNext
<1> QED
  BY <1>1, <1>2, RingInvariant, PTL DEF RingSpec

(* A stream refers to nothing older than itself, although the ring still   *)
(* holds what earlier streams left there.                                  *)
THEOREM RingSelfContained == RingSpec => []SelfContained
<1>1. OutInv => SelfContained
  BY DEF OutInv
<1> QED
  BY <1>1, RingOutInv, PTL

(* The ring implements the layout: every block and every reset() is a step *)
(* of LZ4Layout, with the fill of the segment in _offset and the length of *)
(* what may be referred to in lz4Stream.                                   *)
THEOREM RingKeepsLayout == RingSpec => KeepsLayout
<1>1. RingInit => Layout!LayoutInit
  BY DEF RingInit, Layout!LayoutInit, NoSpan, Size
<1>2. RingInv /\ [RingNext]_ringVars => [Layout!LayoutNext]_(Layout!layoutVars)
  <2> SUFFICES ASSUME RingInv, [RingNext]_ringVars
               PROVE  [Layout!LayoutNext]_(Layout!layoutVars)
    OBVIOUS
  <2>1. ASSUME NEW n \in 1 .. Block, Compress(n) PROVE Layout!Emit(n)
    <3>1. Refs(buffer', Untouched(dict, offset, n))
            = [d \in 1 .. (IF Window <= Size(dict) THEN Window ELSE Size(dict)) |-> pos - d]
      BY <2>1, RefsExact DEF Compress, Least
    <3>2. Size(dict)' = offset + n
      BY <2>1, RingAssumption DEF Compress, DictAfter, Size, RingInv, ShapeInv
    <3> QED
      BY <2>1, <3>1, <3>2 DEF Compress, Advanced, Layout!Emit
  <2>2. CASE ResetRing
    BY <2>2 DEF ResetRing, Layout!LayoutNext, Layout!Restart, NoSpan, Size
  <2>3. CASE UNCHANGED ringVars
    BY <2>3 DEF ringVars, Layout!layoutVars, Size
  <2> QED
    BY <2>1, <2>2, <2>3 DEF RingNext, Layout!LayoutNext
<1> QED
  BY <1>1, <1>2, RingInvariant, PTL DEF RingSpec, KeepsLayout, Layout!LayoutSpec

-----------------------------------------------------------------------------
(* The classes feed the ring: each step of theirs is one of its steps.     *)
LEMMA DataIsRing ==
    /\ Data!RingInit <=> RingInit
    /\ \A n : Data!Compress(n) <=> Compress(n)
    /\ Data!ResetRing <=> ResetRing
    /\ \A a, b : Data!Least(a, b) = Least(a, b)
BY DEF Data!RingInit, RingInit, Data!Compress, Compress, Data!ResetRing, ResetRing,
       Data!Least, Least, Data!Written, Written, Data!Refs, Refs, Data!Untouched, Untouched,
       Data!DictAfter, DictAfter, Data!Advanced, Advanced, Data!Size, Size, Data!NoSpan, NoSpan,
       Data!RingBytes, RingBytes

LEMMA FileIsRing ==
    /\ File!RingInit <=> RingInit
    /\ \A n : File!Compress(n) <=> Compress(n)
    /\ File!ResetRing <=> ResetRing
    /\ \A a, b : File!Least(a, b) = Least(a, b)
    /\ \A left, want : File!ReadResults(left, want) = ReadResults(left, want)
    /\ \A r : File!Returned(r) = Returned(r)
BY DEF File!RingInit, RingInit, File!Compress, Compress, File!ResetRing, ResetRing,
       File!Least, Least, File!Written, Written, File!Refs, Refs, File!Untouched, Untouched,
       File!DictAfter, DictAfter, File!Advanced, Advanced, File!Size, Size, File!NoSpan, NoSpan,
       File!RingBytes, RingBytes, File!ReadResults, ReadResults, File!Lesser, Lesser,
       File!Returned, Returned

(* What the classes keep beside the ring.                                  *)
DataType == data_size \in Nat /\ data_offset \in Nat

FileType ==
    /\ fileSize \in Nat /\ at \in Nat
    /\ fd_offset \in Nat \cup {-1} /\ fd_nbytes \in Nat \cup {-1}
    /\ range \in [lo : Nat, hi : Nat]
    /\ readFailed \in BOOLEAN

FeedType ==
    /\ class \in {"data", "file"}
    /\ it \in {"none", "block", "end", "thrown"}
    /\ DataType /\ FileType

(* next() over a buffer.                                                   *)
LEMMA DataNext ==
    ASSUME DataType, NEW from \in Nat, Data!NextFrom(from)
    PROVE  \/ /\ from >= data_size /\ data_offset' = from /\ it' = "end"
              /\ UNCHANGED ringVars
           \/ \E n \in 1 .. Block :
                /\ n = Least(Block, data_size - from)
                /\ from < data_size /\ data_offset' = from + n /\ it' = "block"
                /\ Compress(n)
<1>1. CASE from >= data_size
  BY <1>1 DEF Data!NextFrom, Data!AtEnd, DataType, Data!ringVars, ringVars
<1>2. CASE from < data_size
  <2>1. Least(Block, data_size - from) \in 1 .. Block
    BY <1>2, RingAssumption DEF DataType, Least
  <2> QED
    BY <1>2, <2>1, DataIsRing DEF Data!NextFrom, Data!InputBytes, DataType
<1> QED
  BY <1>1, <1>2 DEF DataType

(* next() over a file.                                                     *)
LEMMA FileNext ==
    ASSUME FileType, NEW position \in Nat, NEW before, File!NextFrom(position, before)
    PROVE  \E r \in ReadResults(File!Left(position), File!ReadSize) :
             /\ r.n \in 0 .. Block /\ r.failed \in BOOLEAN
             /\ fd_nbytes' = File!Budget
             /\ readFailed' = (before \/ r.failed)
             /\ at' = position + r.n
             /\ \/ r.n = 0 /\ it' = "end" /\ UNCHANGED ringVars
                \/ r.n \in 1 .. Block /\ it' = "block" /\ Compress(r.n)
<1>1. PICK r \in ReadResults(File!Left(position), File!ReadSize) :
        /\ fd_nbytes' = File!Budget
        /\ readFailed' = (before \/ r.failed)
        /\ at' = position + r.n
        /\ \/ Returned(r) <= 0 /\ it' = "end" /\ UNCHANGED ringVars
           \/ Returned(r) > 0 /\ it' = "block" /\ Compress(r.n)
  BY FileIsRing DEF File!NextFrom, File!ringVars, ringVars
<1>2. File!ReadSize \in 0 .. Block /\ File!Left(position) \in Nat
  BY RingAssumption, FileIsRing DEF FileType, File!ReadSize, File!Left, Least
<1>3. /\ r.n \in 0 .. Block /\ r.failed \in BOOLEAN
      /\ Returned(r) = IF r.failed /\ r.n = 0 THEN -1 ELSE r.n
  BY <1>2, RingAssumption DEF ReadResults, Lesser, Returned
<1> QED
  BY <1>1, <1>3

LEMMA BudgetType == FileType => File!Budget \in Nat \cup {-1}
BY RingAssumption, FileIsRing DEF FileType, File!Budget, File!ReadSize, Least

LEMMA StepOfClass ==
    ASSUME FeedType, [Next]_vars
    PROVE  FeedType' /\ [RingNext]_ringVars
<1> USE DEF FeedType
<1>1. CASE class = "data" /\ Data!Next /\ UNCHANGED <<class, fileVars>>
  <2> USE <1>1
  <2>1. FileType' /\ class' = class
    BY DEF fileVars, FileType
  <2>2. ASSUME NEW from \in Nat, Data!NextFrom(from), UNCHANGED data_size
        PROVE  FeedType' /\ [RingNext]_ringVars
    BY <2>1, <2>2, DataNext DEF DataType, RingNext
  <2>3. CASE Data!Begin
    <3>1. 0 \in Nat /\ Data!NextFrom(0) /\ UNCHANGED data_size
      BY <2>3 DEF Data!Begin
    <3> QED
      BY <2>2, <3>1
  <2>4. CASE Data!Increment
    BY <2>2, <2>4 DEF Data!Increment, DataType
  <2>5. ASSUME NEW m \in Sizes, Data!Reset(m) \/ Data!AddData(m)
        PROVE  FeedType' /\ [RingNext]_ringVars
    BY <2>1, <2>5, DataIsRing, StreamingAssumption
    DEF Data!Reset, Data!AddData, DataType, RingNext, Data!ringVars, ringVars
  <2>6. CASE Data!Close
    BY <2>1, <2>6 DEF Data!Close, DataType, Data!ringVars, ringVars
  <2> QED
    BY <2>3, <2>4, <2>5, <2>6 DEF Data!Next
<1>2. CASE class = "file" /\ File!Next /\ UNCHANGED <<class, dataVars>>
  <2> USE <1>2
  <2>1. DataType' /\ class' = class
    BY DEF dataVars, DataType
  <2>2. ASSUME NEW position \in Nat, NEW before \in BOOLEAN, File!NextFrom(position, before),
               UNCHANGED <<fileSize, fd_offset>>, range' \in [lo : Nat, hi : Nat]
        PROVE  FeedType' /\ [RingNext]_ringVars
    <3>1. PICK r \in ReadResults(File!Left(position), File!ReadSize) :
             /\ r.n \in 0 .. Block /\ r.failed \in BOOLEAN
             /\ fd_nbytes' = File!Budget
             /\ readFailed' = (before \/ r.failed)
             /\ at' = position + r.n
             /\ \/ it' = "end" /\ UNCHANGED ringVars
                \/ r.n \in 1 .. Block /\ it' = "block" /\ Compress(r.n)
      BY <2>2, FileNext
    <3>2. FileType'
      BY <2>2, <3>1, BudgetType DEF FileType
    <3> QED
      BY <2>1, <3>1, <3>2 DEF RingNext
  <2>3. CASE File!Begin
    <3> DEFINE from == IF fd_offset = -1 THEN at ELSE fd_offset
    <3>1. from \in Nat
      BY DEF FileType
    <3>2. File!Left(from) \in Nat
      BY <3>1 DEF FileType, File!Left
    <3>3. range' \in [lo : Nat, hi : Nat]
      BY <2>3, <3>1, <3>2, FileIsRing DEF File!Begin, FileType, Least
    <3> QED
      BY <2>2, <2>3, <3>1, <3>3 DEF File!Begin
  <2>4. CASE File!SeekFails
    BY <2>1, <2>4 DEF File!SeekFails, FileType, File!NoRange, File!ringVars, ringVars
  <2>5. CASE File!Increment
    BY <2>2, <2>5 DEF File!Increment, FileType
  <2>6. ASSUME NEW size \in FileSizes, NEW o \in Offsets \cup {0}, NEW m \in Limits \cup {-1},
               NEW stands \in 0 .. size, ResetRing, File!Attached(size, stands, o, m)
        PROVE  FeedType' /\ [RingNext]_ringVars
    <3>1. readFailed' \in BOOLEAN
      BY <2>6 DEF File!Attached
    <3>2. /\ fileSize' \in Nat /\ at' \in Nat /\ range' \in [lo : Nat, hi : Nat]
          /\ fd_offset' \in Nat \cup {-1} /\ fd_nbytes' \in Nat \cup {-1}
      BY <2>6, StreamingAssumption DEF File!Attached, File!NoRange
    <3>3. it' = "none"
      BY <2>6 DEF File!Attached
    <3> QED
      BY <2>1, <2>6, <3>1, <3>2, <3>3 DEF FileType, RingNext
  <2>7. ASSUME NEW size \in FileSizes, File!ResetFile(size)
        PROVE  FeedType' /\ [RingNext]_ringVars
    <3>1. 0 \in 0 .. size
      BY StreamingAssumption
    <3> QED
      BY <2>6, <2>7, <3>1, FileIsRing DEF File!ResetFile
  <2>8. ASSUME NEW size \in FileSizes, NEW o \in Offsets, NEW m \in Limits,
               File!ResetFildes(size, o, m)
        PROVE  FeedType' /\ [RingNext]_ringVars
    BY <2>6, <2>8, FileIsRing DEF File!ResetFildes
  <2> QED
    BY <2>3, <2>4, <2>5, <2>7, <2>8 DEF File!Next
<1>3. CASE UNCHANGED vars
  BY <1>3 DEF vars, dataVars, fileVars, DataType, FileType
<1> QED
  BY <1>1, <1>2, <1>3 DEF Next

LEMMA InitOfClass == Init => FeedType /\ RingInit
<1> SUFFICES ASSUME Init PROVE FeedType /\ RingInit
  OBVIOUS
<1> USE StreamingAssumption
<1>1. CASE class = "data" /\ Data!Init /\ NoFile
  <2>1. readFailed \in BOOLEAN
    BY <1>1 DEF NoFile
  <2> QED
    BY <1>1, <2>1, DataIsRing
    DEF Data!Init, NoFile, File!NoRange, FeedType, DataType, FileType
<1>2. CASE class = "file" /\ File!Init /\ NoData
  <2>1. readFailed \in BOOLEAN
    BY <1>2 DEF File!Init
  <2>2. fileSize \in Nat
    BY <1>2 DEF File!Init
  <2>3. fd_offset \in Offsets \cup {0} /\ fd_nbytes \in Limits \cup {-1}
    BY <1>2 DEF File!Init
  <2>4. fd_offset \in Nat \cup {-1} /\ fd_nbytes \in Nat \cup {-1}
    BY <2>3
  <2> QED
    BY <1>2, <2>1, <2>2, <2>4, FileIsRing
    DEF File!Init, NoData, File!NoRange, FeedType, DataType, FileType
<1> QED
  BY <1>1, <1>2 DEF Init

THEOREM ClassFeedType == Spec => []FeedType
BY InitOfClass, StepOfClass, PTL DEF Spec

(* Whatever buffers and files the classes are given, however read() cuts   *)
(* the blocks, and in every order of their operations, they use the ring   *)
(* as LZ4Ring has it: blocks of 1 to Block bytes, and resets.              *)
THEOREM ClassesAreRings == Spec => RingSpec
<1>1. Init => RingInit
  BY InitOfClass
<1>2. FeedType /\ [Next]_vars => [RingNext]_ringVars
  BY StepOfClass
<1> QED
  BY <1>1, <1>2, ClassFeedType, PTL DEF Spec, RingSpec

(* No block the classes read or copy lands past the end of the ring.       *)
THEOREM ClassNoOverrun == Spec => []NoOverrun
BY ClassesAreRings, RingNoOverrun, PTL

(* What lz4Stream refers to in the classes' ring is intact.                *)
THEOREM ClassDictIntact == Spec => []DictIntact
BY ClassesAreRings, RingDictIntact, PTL

(* The classes implement the layout of the format.                         *)
THEOREM ClassKeepsLayout == Spec => KeepsLayout
BY ClassesAreRings, RingKeepsLayout, PTL

-----------------------------------------------------------------------------
(* The types, with the pos of the last begin() within the stream.          *)
FirstInv == first \in start .. pos

LEMMA PosMoves ==
    ASSUME RingInv, [RingNext]_ringVars
    PROVE  /\ start \in Nat /\ pos \in Nat /\ start <= pos
           /\ start' \in Nat /\ pos' \in Nat /\ start' <= pos' /\ pos <= pos'
           /\ start' = start \/ (start' = pos /\ pos' = pos)
<1> USE DEF RingInv, ShapeInv
<1>1. start \in Nat /\ pos \in Nat /\ start <= pos
  OBVIOUS
<1>2. ASSUME NEW n \in 1 .. Block, Compress(n)
      PROVE  start' = start /\ pos' = pos + n /\ n \in Nat
  BY <1>2, RingAssumption DEF Compress
<1>3. CASE ResetRing
  BY <1>1, <1>3 DEF ResetRing
<1>4. CASE UNCHANGED ringVars
  BY <1>1, <1>4 DEF ringVars
<1>5. CASE \E n \in 1 .. Block : Compress(n)
  BY <1>1, <1>2, <1>5
<1> QED
  BY <1>3, <1>4, <1>5 DEF RingNext

LEMMA StepFirst ==
    ASSUME FeedType, RingInv, FirstInv, [Next]_vars
    PROVE  FirstInv'
<1>1. /\ start \in Nat /\ pos \in Nat /\ start <= pos
      /\ start' \in Nat /\ pos' \in Nat /\ start' <= pos' /\ pos <= pos'
      /\ start' = start \/ (start' = pos /\ pos' = pos)
  BY StepOfClass, PosMoves
<1>2. (first' = first /\ start' = start) \/ first' = pos
  <2>1. CASE Data!Begin \/ File!Begin \/ File!SeekFails
    BY <2>1 DEF Data!Begin, File!Begin, File!SeekFails
  <2>2. CASE UNCHANGED <<first, start>>
    BY <2>2
  <2>3. CASE first' = pos
    BY <2>3
  <2>4. class = "data" /\ Data!Next => Data!Begin \/ UNCHANGED <<first, start>> \/ first' = pos
    <3>1. ASSUME NEW from, Data!NextFrom(from) PROVE start' = start
      BY <3>1, DataIsRing DEF Data!NextFrom, Compress, Data!ringVars
    <3>2. Data!Increment => UNCHANGED <<first, start>>
      BY <3>1 DEF Data!Increment
    <3>3. Data!Close => UNCHANGED <<first, start>>
      BY DEF Data!Close, Data!ringVars
    <3>4. \A n : Data!AddData(n) => UNCHANGED <<first, start>>
      BY DEF Data!AddData, Data!ringVars
    <3>5. \A n : Data!Reset(n) => first' = pos
      BY DEF Data!Reset
    <3> QED
      BY <3>2, <3>3, <3>4, <3>5 DEF Data!Next
  <2>5. class = "file" /\ File!Next =>
          File!Begin \/ File!SeekFails \/ UNCHANGED <<first, start>> \/ first' = pos
    <3>1. ASSUME NEW position, NEW before, File!NextFrom(position, before) PROVE start' = start
      BY <3>1, FileIsRing DEF File!NextFrom, Compress, File!ringVars
    <3>2. File!Increment => UNCHANGED <<first, start>>
      BY <3>1 DEF File!Increment
    <3>3. \A size : File!ResetFile(size) => first' = pos
      BY DEF File!ResetFile
    <3>4. \A size, o, n : File!ResetFildes(size, o, n) => first' = pos
      BY DEF File!ResetFildes
    <3> QED
      BY <3>2, <3>3, <3>4 DEF File!Next
  <2>6. UNCHANGED vars => UNCHANGED <<first, start>>
    BY DEF vars, ringVars
  <2> QED
    BY <2>1, <2>2, <2>3, <2>4, <2>5, <2>6 DEF Next
<1> QED
  BY <1>1, <1>2 DEF FirstInv

THEOREM ClassFirstInv == Spec => []FirstInv
<1>1. Init => FirstInv
  BY InitOfClass DEF Init, Data!Init, File!Init, RingInit, FirstInv
<1> QED
  BY <1>1, StepFirst, ClassFeedType, ClassesAreRings, RingInvariant, PTL DEF Spec

(* Every variable of the classes keeps its type.                           *)
THEOREM ClassTypeOK == Spec => []TypeOK
<1>1. RingInv /\ OutInv => RingTypeOK
  BY RingAssumption DEF RingInv, ShapeInv, OutInv, Produced, RingTypeOK
<1>2. RingTypeOK /\ FeedType /\ FirstInv => TypeOK
  BY DEF FeedType, DataType, FileType, FirstInv, TypeOK
<1> QED
  BY <1>1, <1>2, ClassFeedType, ClassFirstInv, ClassesAreRings, RingInvariant, RingOutInv, PTL
-----------------------------------------------------------------------------
(* The stream of the format, block by block.                               *)

(* Division by b undoes multiplication, and leaves the rest.               *)
LEMMA DivMod ==
    ASSUME NEW b \in Nat \ {0}, NEW q \in Nat, NEW r \in 0 .. (b - 1)
    PROVE  (q * b + r) \div b = q /\ (q * b + r) % b = r
<1> DEFINE x == q * b + r
           d == x \div b
           m == x % b
<1>1. x \in Nat /\ d \in Int /\ m \in Int
  OBVIOUS
<1>2. x = d * b + m /\ 0 <= m /\ m < b
  OBVIOUS
<1>3. (q - d) * b = m - r
  BY <1>2
<1> HIDE DEF d, m
<1>4. ~(q - d >= 1)
  <2>1. q - d >= 1 => (q - d) * b >= b
    BY <1>1
  <2> QED
    BY <2>1, <1>3, <1>2, <1>1
<1>5. ~(q - d <= -1)
  <2>1. q - d <= -1 => (q - d) * b <= -b
    BY <1>1
  <2> QED
    BY <2>1, <1>3, <1>2, <1>1
<1>6. q = d
  BY <1>4, <1>5, <1>1
<1>7. m = r
  BY <1>6, <1>2, <1>1
<1> QED
  BY <1>6, <1>7 DEF d, m

(* A full block fits between a multiple of Block and Wrap.                 *)
LEMMA BlockInWrap ==
    ASSUME NEW k \in Nat
    PROVE  (k * Block) % Wrap \in Nat /\ ((k * Block) % Wrap) + Block <= Wrap
<1> DEFINE Q == Wrap \div Block
           d == k \div Q
           m == k % Q
<1> USE RingAssumption, StreamingAssumption
<1>1. Q \in Nat /\ Wrap = Q * Block
  OBVIOUS
<1>2. Q >= 1
  BY <1>1
<1> HIDE DEF Q
<1>3. d \in Nat /\ m \in Nat /\ k = d * Q + m /\ m <= Q - 1
  BY <1>1, <1>2
<1> HIDE DEF d, m
<1>4. k * Block = d * Wrap + m * Block
  <2>1. (d * Q + m) * Block = d * (Q * Block) + m * Block
    BY <1>1, <1>3
  <2> QED
    BY <2>1, <1>1, <1>3
<1>5. m * Block \in Nat /\ m * Block + Block <= Wrap
  <2>1. (Q - 1 - m) * Block >= 0
    BY <1>1, <1>3
  <2>2. (Q - 1 - m) * Block = Q * Block - Block - m * Block
    BY <1>1, <1>3
  <2> QED
    BY <2>1, <2>2, <1>1, <1>3
<1>6. (d * Wrap + m * Block) % Wrap = m * Block
  <2> DEFINE r == m * Block
  <2>1. r \in 0 .. (Wrap - 1) /\ Wrap \in Nat \ {0}
    BY <1>5
  <2> HIDE DEF r
  <2>2. (d * Wrap + r) % Wrap = r
    BY <1>3, <2>1, DivMod
  <2> QED
    BY <2>2 DEF r
<1> QED
  BY <1>4, <1>5, <1>6

(* How many blocks k full ones are, with a last one of n bytes or without. *)
LEMMA BlocksOf ==
    ASSUME NEW k \in Nat
    PROVE  /\ Layout!Blocks(k * Block) = k
           /\ \A n \in 1 .. Block : Layout!Blocks(k * Block + n) = k + 1
<1> USE RingAssumption, StreamingAssumption
<1>1. k * Block + Block - 1 = k * Block + (Block - 1) /\ k * Block \in Nat
  OBVIOUS
<1>2. (k * Block + (Block - 1)) \div Block = k
  BY DivMod
<1>3. Layout!Blocks(k * Block) = k
  BY <1>1, <1>2 DEF Layout!Blocks
<1>4. ASSUME NEW n \in 1 .. Block
      PROVE  Layout!Blocks(k * Block + n) = k + 1
  <2>1. k * Block + n + Block - 1 = (k + 1) * Block + (n - 1)
    BY <1>1
  <2>2. ((k + 1) * Block + (n - 1)) \div Block = k + 1
    BY DivMod
  <2> QED
    BY <2>1, <2>2 DEF Layout!Blocks
<1> QED
  BY <1>3, <1>4

(* What block i of a stream refers to when it stands at position p.        *)
Referred(p, i) ==
    [d \in 1 .. (IF Window <= Layout!HistOf(i) THEN Window ELSE Layout!HistOf(i)) |-> p - d]

(* The stream grows by one block after full ones.                          *)
LEMMA StreamGrows ==
    ASSUME NEW from \in Nat, NEW k \in Nat, NEW n \in 1 .. Block
    PROVE  Layout!Stream(from, k * Block + n)
             = Append(Layout!Stream(from, k * Block), [len |-> n, refs |-> Referred(from + k * Block, k + 1)])
<1> USE RingAssumption, StreamingAssumption
<1> DEFINE S == Layout!Stream(from, k * Block + n)
           T == Layout!Stream(from, k * Block)
           e == [len |-> n, refs |-> Referred(from + k * Block, k + 1)]
           Set == {T[i] : i \in 1 .. k} \cup {e}
<1>0. k * Block \in Nat
  OBVIOUS
<1>1. S = [i \in 1 .. (k + 1) |->
             [len |-> IF i * Block <= k * Block + n THEN Block ELSE k * Block + n - (i - 1) * Block,
              refs |-> Referred(from + (i - 1) * Block, i)]]
  <2>1. Layout!Blocks(k * Block + n) = k + 1
    BY BlocksOf
  <2> QED
    BY <2>1 DEF Layout!Stream, Referred
<1>2. T = [i \in 1 .. k |->
             [len |-> IF i * Block <= k * Block THEN Block ELSE k * Block - (i - 1) * Block,
              refs |-> Referred(from + (i - 1) * Block, i)]]
  BY BlocksOf DEF Layout!Stream, Referred
<1>3. ASSUME NEW i \in 1 .. k
      PROVE  S[i] = T[i]
  <2>1. (k - i) * Block >= 0 /\ (k - i) * Block = k * Block - i * Block
    OBVIOUS
  <2>2. i * Block <= k * Block /\ i * Block <= k * Block + n
    BY <2>1
  <2> HIDE DEF S, T
  <2>3. S[i] = [len |-> Block, refs |-> Referred(from + (i - 1) * Block, i)]
    BY <1>1, <2>2
  <2>4. T[i] = [len |-> Block, refs |-> Referred(from + (i - 1) * Block, i)]
    BY <1>2, <2>2
  <2> QED
    BY <2>3, <2>4
<1>4. S[k + 1] = e
  <2>1. (k + 1) * Block = k * Block + Block /\ (k + 1 - 1) * Block = k * Block
    OBVIOUS
  <2>2. (IF (k + 1) * Block <= k * Block + n THEN Block ELSE k * Block + n - (k + 1 - 1) * Block) = n
    BY <1>0, <2>1
  <2> HIDE DEF S
  <2> QED
    BY <1>1, <2>2
<1> HIDE DEF S, T, e
<1>5. T \in Seq(Set) /\ Len(T) = k
  <2>1. T \in [1 .. k -> Set]
    BY <1>2
  <2> QED
    BY <2>1
<1> DEFINE A == Append(T, e)
<1>6. A \in Seq(Set) /\ Len(A) = k + 1
  BY <1>5
<1>7. (\A i \in 1 .. k : A[i] = T[i]) /\ A[k + 1] = e
  BY <1>5
<1> HIDE DEF A
<1>8. S \in Seq(Set) /\ Len(S) = k + 1
  <2>1. S \in [1 .. (k + 1) -> Set]
    <3>1. \A i \in 1 .. (k + 1) : S[i] \in Set
      BY <1>3, <1>4
    <3>2. S = [i \in 1 .. (k + 1) |-> S[i]]
      BY <1>1
    <3> QED
      BY <3>1, <3>2
  <2> QED
    BY <2>1
<1>9. \A i \in 1 .. (k + 1) : S[i] = A[i]
  BY <1>3, <1>4, <1>7
<1>10. S = A
  BY <1>6, <1>8, <1>9, SeqEqual
<1> QED
  BY <1>10 DEF A, S, T, e

(* So do the segment and what may be referred to.                          *)
LEMMA HistGrows ==
    ASSUME NEW k \in Nat
    PROVE  LET seg == (k * Block) % Wrap
           IN  /\ Layout!HistOf(k + 2) = seg + Block
               /\ ((k + 1) * Block) % Wrap = IF seg + Block >= Wrap THEN 0 ELSE seg + Block
<1> USE RingAssumption, StreamingAssumption
<1> DEFINE seg == (k * Block) % Wrap
<1>1. seg \in Nat /\ seg + Block <= Wrap
  BY BlockInWrap
<1>2. k * Block \in Nat /\ (k + 1) * Block = k * Block + Block /\ (k + 2 - 1) * Block = k * Block + Block
  OBVIOUS
<1>3. ((k + 1) * Block) % Wrap = IF seg + Block = Wrap THEN 0 ELSE seg + Block
  <2> DEFINE d == (k * Block) \div Wrap
  <2>1. d \in Nat /\ k * Block = d * Wrap + seg
    BY <1>2
  <2> HIDE DEF d, seg
  <2>2. CASE seg + Block = Wrap
    <3>1. (k + 1) * Block = (d + 1) * Wrap + 0
      BY <1>1, <1>2, <2>1, <2>2
    <3>2. ((d + 1) * Wrap + 0) % Wrap = 0
      BY <2>1, DivMod
    <3> QED
      BY <3>1, <3>2, <2>2
  <2>3. CASE seg + Block # Wrap
    <3> DEFINE r == seg + Block
    <3>1. (k + 1) * Block = d * Wrap + r /\ r \in 0 .. (Wrap - 1) /\ Wrap \in Nat \ {0}
      BY <1>1, <1>2, <2>1, <2>3
    <3> HIDE DEF r
    <3>2. (d * Wrap + r) % Wrap = r
      BY <2>1, <3>1, DivMod
    <3>3. ((k + 1) * Block) % Wrap = r
      BY <3>1, <3>2
    <3> QED
      BY <3>3, <2>3 DEF r
  <2> QED
    BY <2>2, <2>3
<1> HIDE DEF seg
<1>4. Layout!HistOf(k + 2) = seg + Block
  BY <1>1, <1>2, <1>3 DEF Layout!HistOf
<1> QED
  BY <1>1, <1>2, <1>3, <1>4 DEF seg
(* The stream so far is k full blocks.                                     *)
Full(k) ==
    /\ pos - start = k * Block
    /\ offset = (k * Block) % Wrap
    /\ Size(dict) = Layout!HistOf(k + 1)

Streamed == out = Layout!Stream(start, pos - start)

(* After full blocks, one more of any length continues the stream.         *)
LEMMA EmitStream ==
    ASSUME RingInv, Streamed, NEW k \in Nat, Full(k), NEW n \in 1 .. Block, Compress(n)
    PROVE  Streamed' /\ (n = Block => Full(k + 1)')
<1> USE RingAssumption, StreamingAssumption
<1>1. /\ pos \in Nat /\ start \in Nat /\ start <= pos
      /\ pos' = pos + n /\ start' = start /\ offset' = Advanced(offset, n)
  BY DEF RingInv, ShapeInv, Compress
<1>2. Refs(buffer', Untouched(dict, offset, n)) = Referred(pos, k + 1)
  <2>1. Refs(buffer', Untouched(dict, offset, n)) = [d \in 1 .. Least(Window, Size(dict)) |-> pos - d]
    BY RefsExact DEF Compress
  <2> QED
    BY <2>1 DEF Referred, Full, Least
<1>3. out' = Append(out, [len |-> n, refs |-> Referred(pos, k + 1)])
  BY <1>2 DEF Compress
<1>4. Streamed'
  <2>1. out = Layout!Stream(start, k * Block)
    BY DEF Full, Streamed
  <2>2. Layout!Stream(start, k * Block + n)
          = Append(Layout!Stream(start, k * Block), [len |-> n, refs |-> Referred(pos, k + 1)])
    <3>1. pos = start + k * Block
      BY <1>1 DEF Full
    <3> QED
      BY <1>1, <3>1, StreamGrows
  <2>3. pos' - start' = k * Block + n
    BY <1>1 DEF Full
  <2>4. out' = Layout!Stream(start, k * Block + n)
    BY <1>3, <2>1, <2>2
  <2>5. Streamed' <=> out' = Layout!Stream(start', pos' - start')
    BY DEF Streamed, Layout!Stream, Layout!Blocks, Layout!HistOf
  <2> QED
    BY <1>1, <2>3, <2>4, <2>5
<1>5. ASSUME n = Block
      PROVE  Full(k + 1)'
  <2> DEFINE a == (k * Block) % Wrap
  <2>1. a = offset /\ offset \in Nat
    BY DEF Full, RingInv, ShapeInv
  <2>2. Layout!HistOf(k + 2) = a + Block /\ ((k + 1) * Block) % Wrap = Advanced(a, Block)
    BY HistGrows DEF Advanced
  <2> HIDE DEF a
  <2>3. dict' = [lo |-> 0, hi |-> offset + n]
    BY DEF Compress, DictAfter, RingInv, ShapeInv
  <2>4. Size(dict)' = offset + Block
    BY <1>5, <2>1, <2>3 DEF Size
  <2>5. pos' - start' = (k + 1) * Block
    BY <1>1, <1>5 DEF Full
  <2>6. offset' = ((k + 1) * Block) % Wrap
    BY <1>1, <1>5, <2>1, <2>2
  <2>7. Size(dict)' = Layout!HistOf(k + 1 + 1)
    BY <2>1, <2>2, <2>4
  <2>8. Layout!HistOf(k + 1 + 1)' = Layout!HistOf(k + 1 + 1)
    BY DEF Layout!HistOf
  <2> QED
    BY <2>5, <2>6, <2>7, <2>8 DEF Full
<1> QED
  BY <1>4, <1>5

(* Where a stream begins, nothing is in it and no block precedes.          *)
LEMMA NothingStreamed ==
    ASSUME RingInv, OutInv, pos = start
    PROVE  Streamed /\ \E k \in Nat : Full(k)
<1> USE RingAssumption, StreamingAssumption
<1>1. out = <<>> /\ pos - start = 0 /\ offset = 0 /\ Size(dict) = 0
  BY DEF OutInv, RingInv, ShapeInv, Size
<1>2. 0 * Block = 0 /\ 0 % Wrap = 0 /\ (0 + 1 - 1) * Block = 0
  OBVIOUS
<1>3. Layout!HistOf(0 + 1) = 0
  BY <1>2 DEF Layout!HistOf
<1>4. Full(0)
  BY <1>1, <1>2, <1>3 DEF Full
<1>5. Layout!Blocks(0) = 0
  BY <1>2, BlocksOf
<1>6. Layout!Stream(start, 0) = <<>>
  BY <1>5 DEF Layout!Stream
<1> QED
  BY <1>1, <1>4, <1>6 DEF Streamed
-----------------------------------------------------------------------------
(* The loops.  What a read from position p has still to deliver when the   *)
(* budget is b (fd_nbytes), and what either class has left to compress.    *)
Cut(p, b) == IF b = -1 THEN File!Left(p) ELSE Least(b, File!Left(p))

Rest == IF class = "data" THEN data_size - data_offset ELSE Cut(at, fd_nbytes)

(* Where an iteration stands in its input.                                 *)
DataFed ==
    /\ it = "block" => data_offset <= data_size /\ pos - first = data_offset
    /\ it = "end" => pos - first = data_size

FileFed ==
    it \in {"block", "end"} =>
        /\ pos - first = at - range.lo
        /\ ~readFailed => range.hi - at = IF it = "end" THEN 0 ELSE Cut(at, fd_nbytes)

FedInv == (class = "data" => DataFed) /\ (class = "file" => FileFed)

(* The first loop of a stream has written the stream of what it took, and  *)
(* its blocks are full as long as there is input left.                     *)
StreamInv ==
    first = start /\ it \in {"block", "end"} /\ ~readFailed =>
        /\ Streamed
        /\ it = "block" /\ Rest > 0 => \E k \in Nat : Full(k)

(* A read that met no error delivers a block, or less when nothing is left *)
(* after it; and the budget goes down with what there is to read.          *)
LEMMA Unfailed ==
    ASSUME FileType, NEW p \in Nat,
           NEW r \in ReadResults(File!Left(p), File!ReadSize), ~r.failed
    PROVE  /\ Cut(p, fd_nbytes) \in Nat
           /\ Cut(p + r.n, File!Budget) = Cut(p, fd_nbytes) - r.n
           /\ r.n = 0 => Cut(p, fd_nbytes) = 0
           /\ r.n < Block => Cut(p + r.n, File!Budget) = 0
<1> USE RingAssumption
<1>1. File!Left(p) \in Nat /\ fd_nbytes \in Nat \cup {-1} /\ Block \in Nat /\ fileSize \in Nat
  BY DEF FileType, File!Left
<1>2. File!ReadSize = IF fd_nbytes = -1 THEN Block ELSE Least(fd_nbytes, Block)
  BY FileIsRing DEF File!ReadSize
<1>3. r.n = Lesser(File!ReadSize, File!Left(p))
  BY DEF ReadResults
<1>4. File!ReadSize \in Nat /\ r.n \in Nat
  BY <1>1, <1>2, <1>3 DEF Least, Lesser
<1>5. File!Left(p + r.n) = File!Left(p) - r.n
  BY <1>1, <1>3, <1>4 DEF File!Left, Lesser
<1>6. CASE fd_nbytes = -1
  <2>1. File!Budget = -1
    BY <1>6 DEF File!Budget
  <2> QED
    BY <1>1, <1>2, <1>3, <1>4, <1>5, <1>6, <2>1 DEF Cut, Lesser
<1>7. CASE fd_nbytes # -1
  <2>1. File!Budget = fd_nbytes - File!ReadSize /\ fd_nbytes - File!ReadSize # -1
    BY <1>1, <1>2, <1>7 DEF File!Budget, Least
  <2> QED
    BY <1>1, <1>2, <1>3, <1>4, <1>5, <1>7, <2>1 DEF Cut, Lesser, Least
<1> QED
  BY <1>6, <1>7

(* next() of either class, from wherever it is entered.                    *)
LEMMA DataLoop ==
    ASSUME RingInv, FeedType, class = "data", class' = class, readFailed' = readFailed,
           data_size' = data_size, NEW from \in Nat, Data!NextFrom(from), first' \in Nat,
           from <= data_size, pos - first' = from,
           first' = start /\ ~readFailed =>
               Streamed /\ (from < data_size => \E k \in Nat : Full(k))
    PROVE  (FedInv /\ StreamInv)'
<1> USE RingAssumption
<1>1. data_size \in Nat /\ data_offset \in Nat /\ DataType /\ pos \in Nat
  BY DEF FeedType, DataType, RingInv, ShapeInv
<1>2. CASE from >= data_size /\ data_offset' = from /\ it' = "end" /\ UNCHANGED ringVars
  <2>0. pos' = pos /\ data_offset' = data_size
    BY <1>1, <1>2 DEF ringVars
  <2>1. pos' - first' = data_size'
    BY <1>1, <1>2, <2>0
  <2>2. FedInv'
    BY <1>2, <2>1 DEF FedInv, DataFed
  <2>3. Streamed => Streamed'
    BY <1>2 DEF Streamed, ringVars, Layout!Stream, Layout!Blocks, Layout!HistOf
  <2>4. StreamInv'
    BY <1>2, <2>3 DEF StreamInv, ringVars
  <2> QED
    BY <2>2, <2>4
<1>3. ASSUME NEW n \in 1 .. Block,
             n = Least(Block, data_size - from), from < data_size,
             data_offset' = from + n, it' = "block", Compress(n)
      PROVE  (FedInv /\ StreamInv)'
  <2>1. pos' = pos + n /\ start' = start
    BY <1>3 DEF Compress
  <2>0. data_offset' <= data_size' /\ pos' - first' = data_offset'
    <3>1. n \in Nat /\ n <= data_size - from
      BY <1>1, <1>3 DEF Least
    <3>2. data_offset' = from + n /\ from + n <= data_size
      BY <1>1, <1>3, <3>1
    <3>3. pos' - first' = from + n
      <4>1. pos' = pos + n /\ pos \in Nat /\ n \in Nat
        BY <1>1, <2>1, <3>1
      <4>2. first' \in Int /\ from = pos - first' /\ from \in Int
        OBVIOUS
      <4> QED
        BY ONLY <4>1, <4>2
    <3> QED
      BY <3>2, <3>3
  <2>2. FedInv'
    BY <1>3, <2>0 DEF FedInv, DataFed
  <2>3. ASSUME first' = start', ~readFailed'
        PROVE  Streamed' /\ (Rest' > 0 => \E k \in Nat : Full(k)')
    <3>1. PICK k \in Nat : Full(k) /\ Streamed
      BY <1>3, <2>1, <2>3
    <3>2. Streamed' /\ (n = Block => Full(k + 1)')
      BY <1>3, <3>1, EmitStream
    <3>3. Rest' > 0 => n = Block
      BY <1>1, <1>3 DEF Rest, Least
    <3>4. k + 1 \in Nat
      OBVIOUS
    <3> QED
      BY <3>2, <3>3, <3>4
  <2>4. StreamInv'
    BY <2>3 DEF StreamInv
  <2> QED
    BY <2>2, <2>4
<1> QED
  BY <1>1, <1>2, <1>3, DataNext

LEMMA FileLoop ==
    ASSUME RingInv, FeedType, class = "file", class' = class, UNCHANGED fileSize,
           NEW position \in Nat, NEW before \in BOOLEAN, File!NextFrom(position, before),
           first' \in Nat, range' \in [lo : Nat, hi : Nat],
           pos - first' = position - range'.lo,
           ~before => range'.hi - position = Cut(position, fd_nbytes),
           first' = start /\ ~before =>
               Streamed /\ (Cut(position, fd_nbytes) > 0 => \E k \in Nat : Full(k))
    PROVE  (FedInv /\ StreamInv)'
<1> USE RingAssumption
<1>1. FileType /\ pos \in Nat
  BY DEF FeedType, RingInv, ShapeInv
<1>2. PICK r \in ReadResults(File!Left(position), File!ReadSize) :
        /\ r.n \in 0 .. Block /\ r.failed \in BOOLEAN
        /\ fd_nbytes' = File!Budget
        /\ readFailed' = (before \/ r.failed)
        /\ at' = position + r.n
        /\ \/ r.n = 0 /\ it' = "end" /\ UNCHANGED ringVars
           \/ r.n \in 1 .. Block /\ it' = "block" /\ Compress(r.n)
  BY <1>1, FileNext
<1>3. ~readFailed' => ~before /\ ~r.failed
  BY <1>2
<1>4. pos' = pos + r.n /\ start' = start
  BY <1>1, <1>2 DEF ringVars, Compress
<1>5. Cut(at, fd_nbytes)' = Cut(position + r.n, File!Budget)
  BY <1>2 DEF Cut, File!Left, Least
<1>6. ~r.failed =>
        /\ Cut(position, fd_nbytes) \in Nat
        /\ Cut(at, fd_nbytes)' = Cut(position, fd_nbytes) - r.n
        /\ r.n = 0 => Cut(position, fd_nbytes) = 0
        /\ r.n < Block => Cut(at, fd_nbytes)' = 0
  BY <1>1, <1>5, Unfailed
<1>7. FedInv'
  <2>1. pos' - first' = at' - range'.lo
    BY <1>1, <1>2, <1>4
  <2>2. ASSUME ~readFailed'
        PROVE  range'.hi - at' = IF it' = "end" THEN 0 ELSE Cut(at, fd_nbytes)'
    BY <1>1, <1>2, <1>3, <1>6, <2>2
  <2> QED
    BY <2>1, <2>2 DEF FedInv, FileFed
<1>8. ASSUME first' = start', ~readFailed'
      PROVE  Streamed' /\ (it' = "block" /\ Rest' > 0 => \E k \in Nat : Full(k)')
  <2>1. Streamed /\ (Cut(position, fd_nbytes) > 0 => \E k \in Nat : Full(k))
    BY <1>3, <1>4, <1>8
  <2>2. CASE r.n = 0 /\ it' = "end" /\ UNCHANGED ringVars
    BY <2>1, <2>2 DEF Streamed, ringVars, Layout!Stream, Layout!Blocks, Layout!HistOf
  <2>3. CASE r.n \in 1 .. Block /\ it' = "block" /\ Compress(r.n)
    <3>1. Rest' = Cut(at, fd_nbytes)'
      BY DEF Rest
    <3>2. Cut(position, fd_nbytes) > 0
      <4>1. Cut(at, fd_nbytes)' \in Nat
        <5>1. File!Left(position + r.n) \in Nat /\ File!Budget \in Nat \cup {-1}
          BY <1>1, <1>2, BudgetType DEF File!Left, FileType
        <5> QED
          BY <1>5, <5>1 DEF Cut, Least
      <4> QED
        BY <1>3, <1>6, <1>8, <2>3, <4>1
    <3>3. PICK k \in Nat : Full(k)
      BY <2>1, <3>2
    <3>4. Streamed' /\ (r.n = Block => Full(k + 1)')
      BY <2>1, <2>3, <3>3, EmitStream
    <3>5. Rest' > 0 => r.n = Block
      BY <1>3, <1>6, <1>8, <2>3, <3>1
    <3>6. k + 1 \in Nat
      OBVIOUS
    <3> QED
      BY <3>4, <3>5, <3>6
  <2> QED
    BY <1>2, <2>2, <2>3
<1>9. StreamInv'
  BY <1>8 DEF StreamInv
<1> QED
  BY <1>7, <1>9
LEMMA LoopStep ==
    ASSUME RingInv, OutInv, FeedType, FirstInv, FedInv, StreamInv, [Next]_vars
    PROVE  (FedInv /\ StreamInv)'
<1> USE RingAssumption
<1>1. ASSUME it' \notin {"block", "end"}
      PROVE  (FedInv /\ StreamInv)'
  BY <1>1 DEF FedInv, DataFed, FileFed, StreamInv
<1>2. pos \in Nat /\ start \in Nat /\ first \in Nat
  BY DEF RingInv, ShapeInv, FirstInv
<1>3. CASE class = "data" /\ Data!Next /\ UNCHANGED <<class, fileVars>>
  <2>1. class = "data" /\ class' = class /\ readFailed' = readFailed
    BY <1>3 DEF fileVars
  <2>2. data_size \in Nat /\ data_offset \in Nat
    BY DEF FeedType, DataType
  <2>3. CASE Data!Begin
    <3>1. Data!NextFrom(0) /\ first' = pos /\ data_size' = data_size
      BY <2>3 DEF Data!Begin
    <3>2. 0 \in Nat /\ 0 <= data_size /\ first' \in Nat /\ pos - first' = 0
      BY <1>2, <2>2, <3>1
    <3>3. first' = start => Streamed /\ \E k \in Nat : Full(k)
      BY <3>1, NothingStreamed
    <3> QED
      BY <2>1, <3>1, <3>2, <3>3, DataLoop
  <2>4. CASE Data!Increment
    <3>1. /\ Data!NextFrom(data_offset) /\ it = "block"
          /\ first' = first /\ data_size' = data_size
      BY <2>4 DEF Data!Increment
    <3>2. data_offset <= data_size /\ pos - first = data_offset
      BY <2>1, <3>1 DEF FedInv, DataFed
    <3>3. ASSUME first = start, ~readFailed
          PROVE  Streamed /\ (data_offset < data_size => \E k \in Nat : Full(k))
      BY <2>1, <2>2, <3>1, <3>3 DEF StreamInv, Rest
    <3> QED
      BY <1>2, <2>1, <2>2, <3>1, <3>2, <3>3, DataLoop
  <2>5. CASE Data!Close \/ \E n \in Sizes : Data!Reset(n) \/ Data!AddData(n)
    BY <1>1, <2>5 DEF Data!Close, Data!Reset, Data!AddData
  <2> QED
    BY <1>3, <2>3, <2>4, <2>5 DEF Data!Next
<1>4. CASE class = "file" /\ File!Next /\ UNCHANGED <<class, dataVars>>
  <2>1. class = "file" /\ class' = class /\ FileType /\ readFailed \in BOOLEAN
    BY <1>4 DEF FeedType, FileType
  <2>2. CASE File!Begin
    <3> DEFINE from == IF fd_offset = -1 THEN at ELSE fd_offset
    <3>1. /\ File!NextFrom(from, FALSE) /\ first' = pos /\ UNCHANGED fileSize
          /\ range' = [lo |-> from, hi |-> from + Cut(from, fd_nbytes)]
      BY <2>2, FileIsRing DEF File!Begin, Cut
    <3>2. from \in Nat
      BY <2>1 DEF FileType
    <3> HIDE DEF from
    <3>3. Cut(from, fd_nbytes) \in Nat
      BY <2>1, <3>2 DEF FileType, Cut, File!Left, Least
    <3>4. range' \in [lo : Nat, hi : Nat] /\ range'.lo = from /\ range'.hi - from = Cut(from, fd_nbytes)
      BY <3>1, <3>2, <3>3
    <3>5. first' \in Nat /\ pos - first' = from - range'.lo
      BY <1>2, <3>1, <3>2, <3>4
    <3>6. first' = start => Streamed /\ \E k \in Nat : Full(k)
      BY <3>1, NothingStreamed
    <3>7. FALSE \in BOOLEAN
      OBVIOUS
    <3> QED
      BY <2>1, <3>1, <3>2, <3>4, <3>5, <3>6, <3>7, FileLoop
  <2>3. CASE File!Increment
    <3>1. /\ File!NextFrom(at, readFailed) /\ it = "block"
          /\ first' = first /\ range' = range /\ UNCHANGED fileSize
      BY <2>3 DEF File!Increment
    <3>2. at \in Nat /\ range' \in [lo : Nat, hi : Nat]
      BY <2>1, <3>1 DEF FileType
    <3>3. pos - first' = at - range'.lo
      BY <2>1, <3>1 DEF FedInv, FileFed
    <3>4. ~readFailed => range'.hi - at = Cut(at, fd_nbytes)
      BY <2>1, <3>1 DEF FedInv, FileFed
    <3>5. ASSUME first' = start, ~readFailed
          PROVE  Streamed /\ (Cut(at, fd_nbytes) > 0 => \E k \in Nat : Full(k))
      BY <2>1, <3>1, <3>5 DEF StreamInv, Rest
    <3>6. first' \in Nat
      BY <1>2, <3>1
    <3> QED
      BY <2>1, <3>1, <3>2, <3>3, <3>4, <3>5, <3>6, FileLoop
  <2>4. CASE File!SeekFails
    BY <1>1, <2>4 DEF File!SeekFails
  <2>5. ASSUME NEW size, File!ResetFile(size)
        PROVE  (FedInv /\ StreamInv)'
    BY <1>1, <2>5 DEF File!ResetFile, File!Attached
  <2>6. ASSUME NEW size, NEW o, NEW n, File!ResetFildes(size, o, n)
        PROVE  (FedInv /\ StreamInv)'
    BY <1>1, <2>6 DEF File!ResetFildes, File!Attached
  <2> QED
    BY <1>4, <2>2, <2>3, <2>4, <2>5, <2>6 DEF File!Next
<1>5. CASE UNCHANGED vars
  <2>1. FedInv'
    BY <1>5 DEF vars, ringVars, dataVars, fileVars, FedInv, DataFed, FileFed, Cut, File!Left, Least
  <2>2. (Streamed' <=> Streamed) /\ \A k \in Nat : Full(k)' <=> Full(k)
    BY <1>5 DEF vars, ringVars, Streamed, Full, Size,
                Layout!Stream, Layout!Blocks, Layout!HistOf
  <2>3. Rest' = Rest
    BY <1>5 DEF vars, dataVars, fileVars, Rest, Cut, File!Left, Least
  <2>4. UNCHANGED <<first, start, it, readFailed>>
    BY <1>5 DEF vars, ringVars, fileVars
  <2>5. ASSUME first' = start', it' \in {"block", "end"}, ~readFailed'
        PROVE  Streamed' /\ (it' = "block" /\ Rest' > 0 => \E k \in Nat : Full(k)')
    <3>1. first = start /\ it \in {"block", "end"} /\ ~readFailed
      BY <2>4, <2>5
    <3>2. Streamed /\ (it = "block" /\ Rest > 0 => \E k \in Nat : Full(k))
      BY <3>1 DEF StreamInv
    <3>3. it' = "block" /\ Rest' > 0 => it = "block" /\ Rest > 0
      BY <2>3, <2>4
    <3> QED
      BY <2>2, <3>2, <3>3
  <2>6. StreamInv'
    BY <2>5 DEF StreamInv
  <2> QED
    BY <2>1, <2>6
<1> QED
  BY <1>3, <1>4, <1>5 DEF Next

THEOREM LoopInv == Spec => [](FedInv /\ StreamInv)
<1>1. Init => FedInv /\ StreamInv
  BY DEF Init, Data!Init, File!Init, FedInv, DataFed, FileFed, StreamInv
<1> QED
  BY <1>1, LoopStep, ClassFeedType, ClassFirstInv, ClassesAreRings, RingInvariant, RingOutInv, PTL
  DEF Spec

(* What a file has given, up to a failing read() too, reached the ring in  *)
(* file order, each byte once.                                             *)
THEOREM FileInOrder == Spec => []InFileOrder
<1>1. FedInv => InFileOrder
  BY DEF FedInv, FileFed, InFileOrder
<1> QED
  BY <1>1, LoopInv, PTL

(* A loop that ran to its end without a read error took all of its input,  *)
(* and the first loop of a stream wrote the one stream the format has for  *)
(* it: full blocks but for the last, each with the references the layout   *)
(* gives it.  A buffer and a file of the same bytes compress alike.        *)
THEOREM LoopsWriteTheStream == Spec => []StreamOfInput
<1>1. RingInv /\ FirstInv /\ FeedType /\ FedInv /\ StreamInv => StreamOfInput
  <2> SUFFICES ASSUME RingInv, FirstInv, FeedType, FedInv, StreamInv, it = "end", ~readFailed
               PROVE  pos = first + Input /\ (first = start => out = Layout!Stream(start, Input))
    BY DEF StreamOfInput
  <2>1. pos \in Nat /\ first \in Nat /\ Input \in Int
    BY DEF RingInv, ShapeInv, FirstInv, FeedType, DataType, FileType, Input
  <2>2. pos - first = Input
    <3>1. CASE class = "data"
      BY <3>1 DEF FedInv, DataFed, Input
    <3>2. CASE class = "file"
      BY <2>1, <3>2 DEF FedInv, FileFed, Input, FeedType, FileType
    <3> QED
      BY <3>1, <3>2 DEF FeedType
  <2>3. first = start => Streamed
    BY DEF StreamInv
  <2> QED
    BY <2>1, <2>2, <2>3 DEF Streamed
<1> QED
  BY <1>1, LoopInv, ClassFeedType, ClassFirstInv, ClassesAreRings, RingInvariant, PTL
=============================================================================
