------------------------ MODULE DeflateCompressProofs ------------------------
(***************************************************************************)
(* The three ways to write a zlib stream write a whole one, for every      *)
(* block size, input and file, whatever zlib makes of each call.           *)
(***************************************************************************)
EXTENDS DeflateCompress, SequenceTheorems, TLAPS

(* The input a stream has, up to the bytes not yet taken.                  *)
Has(n) == z.in = Positions(0, n)

(* Over a buffer.  What next() is given ends at the next block's place, or *)
(* where the data does.                                                    *)
Target == Smaller(data_offset + BlockSize, data_size)

BufferInv ==
    use = "buffer" =>
        /\ it = "block" /\ pc = "idle" =>
              /\ z.ended <=> data_offset >= data_size
              /\ rewound => Has(Smaller(data_offset, data_size))
        /\ pc = "deflate" =>
              /\ data_offset <= data_size
              /\ flush = IF data_size - data_offset > BlockSize THEN "Z_NO_FLUSH"
                                                                ELSE "Z_FINISH"
              /\ z.ended => avail_in = 0 /\ flush = "Z_FINISH"
              /\ avail_in > 0 => next_in = Target - avail_in
              /\ avail_in <= Target
              /\ rewound => Has(Target - avail_in)
        /\ it = "end" => data_offset > data_size /\ (rewound => z.ended /\ Has(data_size))

(* Over a file that callers close() before they use the object for the     *)
(* next.  bytes_readed is where the descriptor stands.  Behind a stream    *)
(* that is closed, the file may have grown; what it has more is refused.   *)
FileActive == it = "block" \/ pc = "deflate"

FileInv ==
    use = "file" =>
        /\ FileActive =>
              /\ at = bytes_readed
              /\ avail_in <= bytes_readed
              /\ IF z.ended THEN Has(size_file) /\ bytes_readed >= size_file
                            ELSE Has(bytes_readed - avail_in)
              /\ stream = "Z_STREAM_END" => z.ended
              /\ ~disturbed => fileSize = size_file /\ bytes_readed <= size_file
        /\ pc = "deflate" =>
              /\ it = "none"
              /\ avail_in > 0 => next_in = bytes_readed - avail_in
              /\ flush = IF bytes_readed = size_file THEN "Z_FINISH" ELSE "Z_NO_FLUSH"
              /\ z.ended /\ bytes_readed = size_file => avail_in = 0
        /\ pc = "idle" /\ it = "block" =>
              /\ ~z.ended => avail_in = 0 /\ bytes_readed # size_file
              /\ z.ended /\ bytes_readed = size_file => stream = "Z_STREAM_END"
        /\ it = "end" => z.ended /\ Has(size_file)
        /\ it = "thrown" => disturbed \/ fileSize = 0

(* In chunks.  Each call of next() leaves zlib with no output to give.     *)
ChunkInv ==
    use = "chunks" =>
        /\ pc = "idle" => in = fed /\ pending = 0
        /\ pc = "deflate" =>
              /\ in = IF fresh THEN fed ELSE fed + input_size
              /\ fed + input_size <= MaxInput
              /\ fresh => pending = 0

-----------------------------------------------------------------------------
(* zlib's deflate(), as far as the invariants look at it.                  *)
Deflated == [in : Seq(Nat), made : Nat, ended : BOOLEAN]

LEMMA PositionsType ==
    ASSUME NEW a \in Nat, NEW n \in Nat
    PROVE  /\ Positions(a, n) \in Seq(Nat)
           /\ Len(Positions(a, n)) = n
           /\ \A k \in 1 .. n : Positions(a, n)[k] = a + k - 1
BY DEF Positions

LEMMA PositionsJoin ==
    ASSUME NEW a \in Nat, NEW n \in Nat
    PROVE  Positions(0, a) \o Positions(a, n) = Positions(0, a + n)
<1> DEFINE p == Positions(0, a)
           q == Positions(a, n)
           r == Positions(0, a + n)
<1>1. p \in Seq(Nat) /\ Len(p) = a /\ \A k \in 1 .. a : p[k] = k - 1
  BY PositionsType, 0 \in Nat
<1>2. q \in Seq(Nat) /\ Len(q) = n /\ \A k \in 1 .. n : q[k] = a + k - 1
  BY PositionsType
<1>3. r \in Seq(Nat) /\ Len(r) = a + n /\ \A k \in 1 .. (a + n) : r[k] = k - 1
  BY PositionsType, 0 \in Nat, a + n \in Nat
<1> HIDE DEF p, q, r
<1> DEFINE pq == p \o q
<1>4. /\ pq \in Seq(Nat) /\ Len(pq) = a + n
      /\ \A k \in 1 .. (a + n) : pq[k] = IF k <= a THEN p[k] ELSE q[k - a]
  BY <1>1, <1>2, ConcatProperties
<1> HIDE DEF pq
<1>5. \A k \in 1 .. (a + n) : pq[k] = r[k]
  <2> TAKE k \in 1 .. (a + n)
  <2>1. pq[k] = k - 1
    <3>1. CASE k <= a
      <4>1. k \in 1 .. a
        BY <3>1
      <4> QED
        BY <3>1, <4>1, <1>1, <1>4
    <3>2. CASE k > a
      <4>1. k - a \in 1 .. n /\ ~(k <= a)
        BY <3>2
      <4>2. q[k - a] = k - 1
        BY <4>1, <1>2
      <4> QED
        BY <4>1, <4>2, <1>4
    <3> QED
      BY <3>1, <3>2
  <2> QED
    BY <2>1, <1>3
<1>6. pq = r
  BY <1>3, <1>4, <1>5, SeqEqual
<1> QED
  BY <1>6 DEF p, q, r, pq

LEMMA NoPositions ==
    ASSUME NEW s \in Seq(Nat), NEW from
    PROVE  s \o Positions(from, 0) = s
BY DEF Positions

LEMMA ClosedTakesNothing ==
    ASSUME NEW s \in Deflated, s.ended, NEW from \in Nat, NEW avail \in Nat, NEW f,
           NEW room \in Nat, NEW r \in DeflateResults(s, from, avail, f, room)
    PROVE  /\ r.z = s /\ r.took = 0 /\ r.gave = 0
           /\ r.ret = IF f = "Z_FINISH" /\ avail = 0 THEN "Z_STREAM_END" ELSE "error"
BY DEF DeflateResults

LEMMA DeflateGives ==
    ASSUME NEW s \in Deflated, ~s.ended, NEW from \in Nat, NEW avail \in Nat, NEW f,
           NEW room \in Nat, NEW r \in DeflateResults(s, from, avail, f, room)
    PROVE  /\ r.z \in Deflated /\ r.took \in 0 .. avail /\ r.gave \in 0 .. room
           /\ r.gave # room => r.took = avail /\ (f = "Z_FINISH" => r.z.ended)
           /\ r.z.ended => r.took = avail /\ f = "Z_FINISH"
           /\ r.ret = IF r.z.ended THEN "Z_STREAM_END" ELSE "Z_OK"
<1>1. PICK t \in (0 .. avail) \X (0 .. room) \X BOOLEAN :
        /\ t[2] < room => t[1] = avail /\ t[3] = (f = "Z_FINISH")
        /\ t[3] => t[1] = avail /\ f = "Z_FINISH"
        /\ r = [z |-> [in |-> s.in \o Positions(from, t[1]), made |-> s.made + t[2], ended |-> t[3]],
                took |-> t[1], gave |-> t[2], ret |-> IF t[3] THEN "Z_STREAM_END" ELSE "Z_OK"]
  BY DEF DeflateResults
<1>2. t[1] \in 0 .. avail /\ t[2] \in 0 .. room /\ t[3] \in BOOLEAN
  OBVIOUS
<1>3. Positions(from, t[1]) \in Seq(Nat)
  <2>1. t[1] \in Nat
    BY <1>2
  <2> QED
    BY <2>1, PositionsType
<1> QED
  BY <1>1, <1>2, <1>3 DEF Deflated

(* Stream t has the n bytes from position `from' on more than stream s.    *)
Appends(t, s, from, n) == t.in = s.in \o Positions(from, n)

LEMMA DeflateAppends ==
    ASSUME NEW s \in Deflated, ~s.ended, NEW from \in Nat, NEW avail \in Nat, NEW f,
           NEW room \in Nat, NEW r \in DeflateResults(s, from, avail, f, room)
    PROVE  Appends(r.z, s, from, r.took)
<1>1. PICK t \in (0 .. avail) \X (0 .. room) \X BOOLEAN :
        r = [z |-> [in |-> s.in \o Positions(from, t[1]), made |-> s.made + t[2], ended |-> t[3]],
             took |-> t[1], gave |-> t[2], ret |-> IF t[3] THEN "Z_STREAM_END" ELSE "Z_OK"]
  BY DEF DeflateResults
<1>2. r.z = [in |-> s.in \o Positions(from, t[1]), made |-> s.made + t[2], ended |-> t[3]]
  BY <1>1
<1>3. r.took = t[1]
  BY <1>1
<1> QED
  BY <1>2, <1>3 DEF Appends

LEMMA DeflateType ==
    ASSUME NEW s \in Deflated, NEW from \in Nat, NEW avail \in Nat, NEW f,
           NEW room \in Nat, NEW r \in DeflateResults(s, from, avail, f, room)
    PROVE  /\ r.z \in Deflated /\ r.took \in 0 .. avail /\ r.gave \in 0 .. room
           /\ r.ret \in {"Z_OK", "Z_STREAM_END", "error"}
<1>1. CASE s.ended
  <2>1. r.z = s /\ r.took = 0 /\ r.gave = 0 /\ r.ret \in {"Z_STREAM_END", "error"}
    BY <1>1, ClosedTakesNothing
  <2> QED
    BY <2>1
<1>2. CASE ~s.ended
  <2>1. /\ r.z \in Deflated /\ r.took \in 0 .. avail /\ r.gave \in 0 .. room
        /\ r.ret = IF r.z.ended THEN "Z_STREAM_END" ELSE "Z_OK"
    BY <1>2, DeflateGives
  <2> QED
    BY <2>1
<1> QED
  BY <1>1, <1>2

(* The instances have zlib alike.                                          *)
LEMMA BufferZlib ==
    /\ Buffer!NewDeflate = NewDeflate
    /\ \A a, b : Buffer!Smaller(a, b) = Smaller(a, b)
    /\ \A s, from, avail, f, room :
         Buffer!DeflateResults(s, from, avail, f, room) = DeflateResults(s, from, avail, f, room)
BY DEF Buffer!NewDeflate, NewDeflate, Buffer!Smaller, Smaller, Buffer!DeflateResults,
       DeflateResults, Buffer!Positions, Positions

-----------------------------------------------------------------------------
(* The types, by the classes that change them.                             *)
PcType ==
    /\ pc \in {"none", "idle", "deflate", "thrown"}
    /\ flush \in {"Z_NO_FLUSH", "Z_PARTIAL_FLUSH", "Z_FINISH"}

ClassType ==
    /\ state \in {"NONE", "INIT", "END"}
    /\ z \in Deflated
    /\ next_in \in Nat /\ avail_in \in 0 .. BlockSize
    /\ it \in {"none", "block", "end", "thrown"}
    /\ begins \in 0 .. MaxBegins

BufferType ==
    /\ data_size \in Nat /\ data_offset \in Nat
    /\ block \in Nat /\ rewound \in BOOLEAN

FileType ==
    /\ fileSize \in Nat /\ at \in Nat /\ fd_offset \in Nat \cup {-1}
    /\ bytes_readed \in Nat /\ size_file \in Nat
    /\ stream \in {"Z_OK", "Z_STREAM_END", "error"}
    /\ changes \in 0 .. MaxChanges /\ disturbed \in BOOLEAN

ChunkType ==
    /\ fed \in 0 .. MaxInput /\ in \in 0 .. MaxInput
    /\ input_size \in ChunkSizes \cup {0}
    /\ fresh \in BOOLEAN /\ ended \in BOOLEAN
    /\ bits \in 0 .. 7 /\ pending \in Nat
    /\ gave \in Nat

GaveType == use = "chunks" /\ ~fresh => gave <= input_size

LEMMA TypeParts ==
    TypeOK <=> /\ use \in {"buffer", "chunks", "file"}
               /\ PcType /\ ClassType /\ BufferType /\ FileType /\ ChunkType
               /\ GaveType
BY DEF TypeOK, PcType, ClassType, BufferType, FileType, ChunkType, GaveType, Deflated

LEMMA TypePartsNext ==
    TypeOK' <=> /\ use' \in {"buffer", "chunks", "file"}
                /\ PcType' /\ ClassType' /\ BufferType' /\ FileType' /\ ChunkType'
                /\ GaveType'
BY DEF TypeOK, PcType, ClassType, BufferType, FileType, ChunkType, GaveType, Deflated

LEMMA NewType == NewDeflate \in Deflated /\ ~NewDeflate.ended /\ NewDeflate.in = Positions(0, 0)
BY DEF NewDeflate, Deflated, Positions

-----------------------------------------------------------------------------
(* Over a buffer.                                                          *)
LEMMA SmallerType ==
    ASSUME NEW a \in Nat, NEW b \in Nat
    PROVE  Smaller(a, b) \in Nat /\ Smaller(a, b) <= a /\ Smaller(a, b) <= b
BY DEF Smaller

LEMMA BufferAvail ==
    ASSUME ClassType, BufferType, ~Buffer!Passed
    PROVE  Buffer!AvailIn \in 0 .. BlockSize /\ data_offset <= data_size
<1>1. data_size - data_offset \in Nat /\ data_offset <= data_size
  BY DEF BufferType, Buffer!Passed
<1> QED
  BY <1>1, SmallerType, BufferZlib, DeflateAssumption DEF Buffer!AvailIn

LEMMA BufferStepType ==
    ASSUME PcType, ClassType, BufferType, Buffer!Next
    PROVE  PcType' /\ ClassType' /\ BufferType'
<1> USE DEF PcType, ClassType, BufferType, Buffer!dataVars, Buffer!strmVars
<1>1. ASSUME Buffer!StartBlock, UNCHANGED Buffer!dataVars
      PROVE  /\ PcType' /\ next_in' \in Nat /\ avail_in' \in 0 .. BlockSize
             /\ state' \in {"INIT", "END"} /\ it' \in {"none", "block", "end", "thrown"}
             /\ block' \in Nat
  <2>1. CASE Buffer!Passed
    BY <2>1, <1>1 DEF Buffer!StartBlock
  <2>2. CASE ~Buffer!Passed
    BY <2>2, <1>1, BufferAvail DEF Buffer!StartBlock, Buffer!Flush
  <2> QED
    BY <2>1, <2>2
<1>2. CASE Buffer!Begin
  BY <1>2, <1>1, NewType, BufferZlib, DeflateAssumption DEF Buffer!Begin
<1>3. CASE Buffer!InitFails
  BY <1>3, DeflateAssumption DEF Buffer!InitFails
<1>4. CASE Buffer!Increment
  BY <1>4, <1>1 DEF Buffer!Increment
<1>5. CASE Buffer!Deflate
  <2>1. PICK r \in DeflateResults(z, next_in, avail_in, flush, BlockSize) :
          /\ z' = r.z
          /\ next_in' = next_in + r.took
          /\ avail_in' = avail_in - r.took
          /\ block' = block + r.gave
          /\ \/ UNCHANGED <<pc, it, data_offset>>
             \/ pc' = "idle" /\ it' = "block" /\ data_offset' = Buffer!NextOffset
    BY <1>5, BufferZlib DEF Buffer!Deflate
  <2>2. r.z \in Deflated /\ r.took \in 0 .. avail_in /\ r.gave \in 0 .. BlockSize
    BY <2>1, DeflateType, DeflateAssumption
  <2> QED
    BY <1>5, <2>1, <2>2, DeflateAssumption DEF Buffer!Deflate, Buffer!NextOffset
<1>6. ASSUME NEW n \in Sizes, Buffer!Reset(n) \/ Buffer!AddData(n)
      PROVE  PcType' /\ ClassType' /\ BufferType'
  BY <1>6, DeflateAssumption DEF Buffer!Reset, Buffer!AddData
<1>7. CASE Buffer!Close
  BY <1>7 DEF Buffer!Close
<1> QED
  BY <1>2, <1>3, <1>4, <1>5, <1>6, <1>7 DEF Buffer!Next

-----------------------------------------------------------------------------
(* In chunks.                                                              *)
LEMMA ChunksZlib == \A a, b : Chunks!Smaller(a, b) = Smaller(a, b)
BY DEF Chunks!Smaller, Smaller

LEMMA AddedType ==
    ASSUME ChunkType, PcType, NEW a \in Chunks!Added
    PROVE  a[1] \in Nat /\ a[2] \in 0 .. 7
<1> USE DEF Chunks!Added, ChunkType, PcType
<1>0. input_size \in Nat /\ input_size + Overhead \in Nat /\ bits \in Nat
  BY DeflateAssumption
<1>1. CASE fresh
  <2>1. a \in (0 .. input_size + Overhead) \X (0 .. 7)
    BY <1>1
  <2> QED
    BY <2>1, <1>0
<1>2. CASE ~fresh /\ flush = "Z_PARTIAL_FLUSH" /\ pending < Chunks!Room
  <2>1. a = <<(bits + 10) \div 8, (bits + 10) % 8>>
    BY <1>2
  <2>2. (bits + 10) \div 8 \in Nat /\ (bits + 10) % 8 \in 0 .. 7
    BY <1>0
  <2> QED
    BY <2>1, <2>2
<1>3. CASE ~fresh /\ ~(flush = "Z_PARTIAL_FLUSH" /\ pending < Chunks!Room)
  <2>1. a = <<0, bits>>
    BY <1>3
  <2> QED
    BY <2>1
<1> QED
  BY <1>1, <1>2, <1>3

(* Each call of next() hands its chunk to zlib once, and leaves zlib with  *)
(* no output to give.                                                      *)
LEMMA ChunksStep ==
    ASSUME use = "chunks", PcType, ChunkType, GaveType, ChunkInv, Chunks!Next, UNCHANGED use
    PROVE  PcType' /\ ChunkType' /\ GaveType' /\ ChunkInv'
<1> USE DEF PcType, ChunkType, ChunkInv, Chunks!streamVars
<1>1. CASE Chunks!InitStream
  <2> USE <1>1 DEF Chunks!InitStream
  <2>1. fed' \in 0 .. MaxInput /\ in' \in 0 .. MaxInput
    BY DeflateAssumption
  <2>2. PcType' /\ ChunkInv'
    OBVIOUS
  <2>3. fresh' \in BOOLEAN /\ ended' \in BOOLEAN
    OBVIOUS
  <2>4. ChunkType'
    BY <2>1, <2>3
  <2>5. GaveType'
    BY DEF GaveType
  <2> QED
    BY <2>2, <2>4, <2>5
<1>2. CASE Chunks!InitFails
  BY <1>2 DEF Chunks!InitFails, GaveType
<1>3. ASSUME NEW n \in ChunkSizes, NEW f \in {"Z_NO_FLUSH", "Z_PARTIAL_FLUSH", "Z_FINISH"},
             Chunks!Chunk(n, f)
      PROVE  PcType' /\ ChunkType' /\ GaveType' /\ ChunkInv'
  BY <1>3, DeflateAssumption DEF Chunks!Chunk, GaveType
<1>4. CASE Chunks!Deflate
  <2>0. input_size \in Nat
    BY DeflateAssumption
  <2>1. CASE Chunks!Room = 0
    <3>1. /\ pc' = "thrown" /\ gave' = 0 /\ fresh' = FALSE
          /\ UNCHANGED <<fed, in, ended, bits, pending, input_size, flush>>
      BY <1>4, <2>1 DEF Chunks!Deflate, Chunks!Room
    <3>2. PcType' /\ ChunkInv'
      BY <3>1
    <3>3. ChunkType'
      BY <3>1
    <3>4. GaveType'
      BY <3>1, <2>0 DEF GaveType
    <3> QED
      BY <3>2, <3>3, <3>4
  <2>2. CASE Chunks!Room > 0
    <3>1. PICK a \in Chunks!Added :
            /\ bits' = a[2]
            /\ gave' = Smaller(pending + a[1], input_size)
            /\ pending' = pending + a[1] - gave'
      BY <1>4, <2>2, ChunksZlib DEF Chunks!Deflate, Chunks!Room
    <3>2. a[1] \in Nat /\ a[2] \in 0 .. 7
      BY AddedType
    <3>3. /\ gave' \in Nat /\ gave' <= input_size /\ pending' \in Nat
          /\ gave' # input_size => pending' = 0
      BY <2>0, <3>1, <3>2 DEF Smaller
    <3>4. /\ pc = "deflate" /\ fresh' = FALSE
          /\ in' = fed + input_size
          /\ UNCHANGED <<input_size, flush>>
      BY <1>4, <2>2, <2>0 DEF Chunks!Deflate, Chunks!Room
    <3>12. fresh' \in BOOLEAN /\ ended' \in BOOLEAN
      BY <1>4, <2>2 DEF Chunks!Deflate, Chunks!Room
    <3>5. \/ gave' = input_size /\ UNCHANGED <<pc, fed>>
          \/ gave' # input_size /\ pc' = "idle" /\ fed' = fed + input_size
      BY <1>4, <2>2 DEF Chunks!Deflate, Chunks!Room, Chunks!Again
    <3>6. in' \in 0 .. MaxInput /\ fed' \in 0 .. MaxInput
      BY <2>0, <3>4, <3>5, DeflateAssumption
    <3>7. ChunkType'
      BY <2>0, <3>1, <3>2, <3>3, <3>4, <3>6, <3>12
    <3>8. GaveType'
      BY <3>3, <3>4 DEF GaveType
    <3>9. PcType'
      BY <3>4, <3>5
    <3>10. ChunkInv'
      BY <2>0, <3>3, <3>4, <3>5
    <3> QED
      BY <3>7, <3>8, <3>9, <3>10
  <2> QED
    BY <2>0, <2>1, <2>2 DEF Chunks!Room
<1> QED
  BY <1>1, <1>2, <1>3, <1>4 DEF Chunks!Next

-----------------------------------------------------------------------------
(* Over a file.                                                            *)
LEMMA FileZlib ==
    /\ File!NewDeflate = NewDeflate
    /\ \A s, from, avail, f, room :
         File!DeflateResults(s, from, avail, f, room) = DeflateResults(s, from, avail, f, room)
    /\ \A left, want : File!ReadResults(left, want) = ReadResults(left, want)
    /\ \A r : File!Returned(r) = Returned(r)
BY DEF File!NewDeflate, NewDeflate, File!DeflateResults, DeflateResults,
       File!Positions, Positions, File!ReadResults, ReadResults, File!Lesser, Lesser,
       File!Returned, Returned

LEMMA ReadGives ==
    ASSUME NEW left \in Nat, NEW want \in Nat, NEW r \in ReadResults(left, want)
    PROVE  /\ r.n \in 0 .. want /\ r.n <= left /\ r.failed \in BOOLEAN
           /\ ~r.failed => r.n = Smaller(left, want)
           /\ Returned(r) <= 0 <=> r.n = 0
BY DEF ReadResults, Lesser, Smaller, Returned

LEMMA LeftType ==
    ASSUME NEW size \in Nat, NEW position \in Nat
    PROVE  File!Left(size, position) \in Nat
BY DEF File!Left

LEMMA FileStepType ==
    ASSUME PcType, ClassType, FileType, File!Next
    PROVE  PcType' /\ ClassType' /\ FileType'
<1> USE DEF PcType, ClassType, FileType, File!fileVars, File!strmVars
<1>1. ASSUME NEW position \in Nat, NEW size \in Nat, NEW ret \in {"Z_OK", "Z_STREAM_END", "error"},
             NEW before \in BOOLEAN, fileSize' \in Nat,
             File!StartBlock(position, bytes_readed, size, ret, before)
      PROVE  /\ PcType' /\ next_in' \in Nat /\ avail_in' \in 0 .. BlockSize
             /\ state' \in {"INIT", "END"} /\ it' \in {"none", "end", "thrown"}
             /\ at' \in Nat /\ bytes_readed' \in Nat /\ disturbed' \in BOOLEAN
             /\ stream' \in {"Z_OK", "Z_STREAM_END", "error"}
  <2>1. PICK r \in ReadResults(File!Left(fileSize', position), BlockSize) :
          /\ at' = position + r.n
          /\ disturbed' = (before \/ r.failed)
          /\ stream' = ret
          /\ \/ /\ bytes_readed' = bytes_readed
                /\ state' \in {"INIT", "END"} /\ it' \in {"end", "thrown"}
                /\ UNCHANGED <<next_in, avail_in, flush, pc>>
             \/ /\ bytes_readed' = bytes_readed + r.n
                /\ next_in' = position /\ avail_in' = r.n
                /\ flush' \in {"Z_NO_FLUSH", "Z_FINISH"}
                /\ state' = "INIT" /\ it' = "none" /\ pc' = "deflate"
    BY <1>1, FileZlib DEF File!StartBlock, File!Want, File!Flush
  <2>3. File!Left(fileSize', position) \in Nat
    BY <1>1, LeftType
  <2>2. r.n \in 0 .. BlockSize /\ r.failed \in BOOLEAN
    BY <2>3, ReadGives, DeflateAssumption
  <2> QED
    BY <2>1, <2>2, DeflateAssumption
<1>2. CASE File!Begin
  <2>1. File!StartBlock(0, bytes_readed, fileSize, "Z_OK", fileSize' # fileSize)
    BY <1>2 DEF File!Begin
  <2>2. /\ begins' \in 0 .. MaxBegins /\ size_file' \in Nat
        /\ z' \in Deflated /\ UNCHANGED fd_offset
    BY <1>2, NewType, FileZlib, DeflateAssumption DEF File!Begin
  <2>5. fileSize' \in Nat /\ changes' \in 0 .. MaxChanges
    <3>1. CASE UNCHANGED <<fileSize, changes>>
      BY <3>1
    <3>2. CASE changes < MaxChanges /\ changes' = changes + 1 /\ fileSize' \in FileSizes
      BY <3>2, DeflateAssumption
    <3> QED
      BY <1>2, <3>1, <3>2 DEF File!Begin
  <2>3. 0 \in Nat /\ fileSize \in Nat /\ (fileSize' # fileSize) \in BOOLEAN
    OBVIOUS
  <2>4. /\ PcType' /\ next_in' \in Nat /\ avail_in' \in 0 .. BlockSize
        /\ state' \in {"INIT", "END"} /\ it' \in {"none", "end", "thrown"}
        /\ at' \in Nat /\ bytes_readed' \in Nat /\ disturbed' \in BOOLEAN
        /\ stream' \in {"Z_OK", "Z_STREAM_END", "error"}
    BY <1>1, <2>1, <2>3, <2>5
  <2> QED
    BY <2>2, <2>4, <2>5
<1>3. CASE File!BeginFails
  BY <1>3, DeflateAssumption DEF File!BeginFails
<1>4. CASE File!Increment
  BY <1>4, <1>1 DEF File!Increment
<1>5. CASE File!Deflate
  <2>1. PICK r \in DeflateResults(z, next_in, avail_in, flush, BlockSize) :
          /\ z' = r.z /\ stream' = r.ret
          /\ next_in' = next_in + r.took
          /\ avail_in' = avail_in - r.took
          /\ \/ UNCHANGED <<pc, it>>
             \/ pc' = "idle" /\ it' = "block"
    BY <1>5, FileZlib DEF File!Deflate
  <2>2. /\ r.z \in Deflated /\ r.took \in 0 .. avail_in
        /\ r.ret \in {"Z_OK", "Z_STREAM_END", "error"}
    BY <2>1, DeflateType, DeflateAssumption
  <2>3. /\ z' \in Deflated /\ avail_in' \in 0 .. BlockSize /\ next_in' \in Nat
        /\ stream' \in {"Z_OK", "Z_STREAM_END", "error"}
    BY <2>1, <2>2, DeflateAssumption
  <2>4. UNCHANGED <<File!fileVars, state, flush, begins, changes, disturbed>>
    BY <1>5 DEF File!Deflate
  <2> QED
    BY <2>1, <2>3, <2>4
<1>6. ASSUME NEW size \in FileSizes, NEW o \in Offsets \cup {-1},
             File!Reset(size, o) \/ File!CloseReset(size, o)
      PROVE  PcType' /\ ClassType' /\ FileType'
  BY <1>6, DeflateAssumption DEF File!Reset, File!CloseReset, File!Attached
<1>7. ASSUME NEW size \in FileSizes, File!FileChanges(size)
      PROVE  PcType' /\ ClassType' /\ FileType'
  BY <1>7, DeflateAssumption DEF File!FileChanges
<1> QED
  BY <1>2, <1>3, <1>4, <1>5, <1>6, <1>7 DEF File!Next

-----------------------------------------------------------------------------
(* What deflate() takes it appends, where it is given what follows.        *)
LEMMA Appended ==
    ASSUME NEW s \in Deflated, ~s.ended, NEW from \in Nat, NEW avail \in Nat, NEW f,
           NEW room \in Nat, NEW r \in DeflateResults(s, from, avail, f, room),
           NEW n \in Nat, avail <= n, avail > 0 => from = n - avail,
           s.in = Positions(0, n - avail)
    PROVE  r.z.in = Positions(0, n - (avail - r.took))
<1>1. r.took \in 0 .. avail
  BY DeflateType
<1>2. r.z.in = s.in \o Positions(from, r.took)
  <2>1. Appends(r.z, s, from, r.took)
    BY DeflateAppends
  <2> QED
    BY <2>1 DEF Appends
<1>3. CASE r.took = 0
  <2>1. s.in \in Seq(Nat)
    BY DEF Deflated
  <2>2. r.z.in = s.in
    BY <1>2, <1>3, <2>1, NoPositions
  <2> QED
    BY <1>3, <2>2
<1>4. CASE r.took # 0
  <2>1. from = n - avail /\ n - avail \in Nat /\ r.took \in Nat
    BY <1>1, <1>4
  <2>2. Positions(0, n - avail) \o Positions(n - avail, r.took)
          = Positions(0, (n - avail) + r.took)
    BY <2>1, PositionsJoin
  <2>3. (n - avail) + r.took = n - (avail - r.took)
    BY <2>1
  <2> QED
    BY <1>2, <2>1, <2>2, <2>3
<1> QED
  BY <1>3, <1>4

(* Over a buffer: each next() compresses up to the next block's place.     *)
LEMMA BufferInit == Init => BufferInv
BY DEF Init, BufferInv, Buffer!Init, NoClass, Chunks!Init, File!Init

LEMMA BufferStart ==
    ASSUME use' = "buffer", BufferType, BufferType', Buffer!StartBlock, pc = "idle",
           ClassType', UNCHANGED Buffer!dataVars,
           Buffer!Passed /\ rewound' => z'.ended /\ z'.in = Positions(0, data_size),
           ~Buffer!Passed =>
             /\ it # "end"
             /\ z'.ended => data_offset >= data_size
             /\ rewound' => z'.in = Positions(0, data_offset)
    PROVE  BufferInv'
<1> USE DEF BufferInv, Has
<1>0. UNCHANGED <<data_size, data_offset>> /\ data_size \in Nat /\ data_offset \in Nat
  BY DEF Buffer!dataVars, BufferType
<1>1. CASE Buffer!Passed
  <2>1. pc' = "idle" /\ it' = "end"
    BY <1>1 DEF Buffer!StartBlock
  <2>2. data_offset > data_size
    BY <1>1 DEF Buffer!Passed
  <2> QED
    BY <1>0, <1>1, <2>1, <2>2
<1>2. CASE ~Buffer!Passed
  <2>1. /\ next_in' = IF data_offset < data_size THEN data_offset ELSE next_in
        /\ avail_in' = Smaller(BlockSize, data_size - data_offset)
        /\ flush' = IF data_size - data_offset > BlockSize THEN "Z_NO_FLUSH" ELSE "Z_FINISH"
        /\ pc' = "deflate" /\ it' = it
    BY <1>2, BufferZlib DEF Buffer!StartBlock, Buffer!AvailIn, Buffer!Flush
  <2>2. data_offset <= data_size
    BY <1>0, <1>2 DEF Buffer!Passed
  <2>3. /\ Target' - avail_in' = data_offset /\ avail_in' <= Target'
        /\ avail_in' > 0 => data_offset < data_size
    BY <1>0, <2>1, <2>2, DeflateAssumption DEF Target, Smaller
  <2>4. z'.ended => avail_in' = 0 /\ flush' = "Z_FINISH"
    BY <1>0, <1>2, <2>1, <2>2, DeflateAssumption DEF Smaller
  <2> QED
    BY <1>0, <1>2, <2>1, <2>2, <2>3, <2>4
<1> QED
  BY <1>1, <1>2

LEMMA BufferStep ==
    ASSUME use = "buffer", PcType, ClassType, BufferType, BufferInv, Buffer!Next, UNCHANGED use
    PROVE  BufferInv'
<1>0. use' = "buffer" /\ PcType' /\ ClassType' /\ BufferType'
  BY BufferStepType
<1>1. CASE Buffer!Begin
  <2>1. /\ pc = "idle" /\ rewound' = (data_offset = 0) /\ z' = NewDeflate
        /\ Buffer!StartBlock /\ UNCHANGED Buffer!dataVars
    BY <1>1, BufferZlib DEF Buffer!Begin
  <2>2. Buffer!Passed => data_offset # 0
    BY DEF Buffer!Passed, BufferType
  <2>3. it = "end" => Buffer!Passed
    BY DEF BufferInv, Buffer!Passed
  <2> QED
    BY <1>0, <2>1, <2>2, <2>3, NewType, BufferStart
<1>2. CASE Buffer!InitFails
  BY <1>2 DEF Buffer!InitFails, BufferInv
<1>3. CASE Buffer!Increment
  <2>1. /\ pc = "idle" /\ it = "block" /\ Buffer!StartBlock /\ UNCHANGED Buffer!dataVars
        /\ UNCHANGED <<z, rewound>>
    BY <1>3 DEF Buffer!Increment
  <2>2. /\ z.ended <=> data_offset >= data_size
        /\ rewound => Has(Smaller(data_offset, data_size))
    BY <2>1 DEF BufferInv
  <2>3. Buffer!Passed /\ rewound => z.ended /\ Has(data_size)
    BY <2>2 DEF Buffer!Passed, Smaller, BufferType
  <2>4. ~Buffer!Passed /\ rewound => Has(data_offset)
    BY <2>2 DEF Buffer!Passed, Smaller, BufferType
  <2> QED
    BY <1>0, <2>1, <2>2, <2>3, <2>4, BufferStart DEF Has
<1>4. CASE Buffer!Deflate
  <2>1. PICK r \in DeflateResults(z, next_in, avail_in, flush, BlockSize) :
          /\ z' = r.z
          /\ next_in' = next_in + r.took
          /\ avail_in' = avail_in - r.took
          /\ \/ r.gave = BlockSize /\ UNCHANGED <<pc, it, data_offset>>
             \/ /\ r.gave # BlockSize
                /\ pc' = "idle" /\ it' = "block" /\ data_offset' = data_offset + BlockSize
    BY <1>4, BufferZlib DEF Buffer!Deflate, Buffer!Again, Buffer!NextOffset
  <2>2. pc = "deflate" /\ UNCHANGED <<data_size, flush, rewound>>
    BY <1>4 DEF Buffer!Deflate
  <2>3. /\ data_offset <= data_size
        /\ flush = IF data_size - data_offset > BlockSize THEN "Z_NO_FLUSH" ELSE "Z_FINISH"
        /\ z.ended => avail_in = 0 /\ flush = "Z_FINISH"
        /\ avail_in > 0 => next_in = Target - avail_in
        /\ avail_in <= Target
        /\ rewound => Has(Target - avail_in)
        /\ it # "end"
    BY <2>2 DEF BufferInv, BufferType
  <2>4. /\ avail_in \in Nat /\ next_in \in Nat /\ data_size \in Nat /\ data_offset \in Nat
        /\ z \in Deflated /\ Target \in Nat /\ BlockSize \in Nat \ {0}
    BY DeflateAssumption DEF ClassType, BufferType, Target, Smaller
  <2>5. flush = "Z_FINISH" <=> data_offset + BlockSize >= data_size
    BY <2>3, <2>4
  <2>6. CASE z.ended
    <3>1. r.z = z /\ r.took = 0 /\ r.gave = 0
      BY <2>4, <2>6, ClosedTakesNothing
    <3>2. pc' = "idle" /\ it' = "block" /\ data_offset' = data_offset + BlockSize /\ z' = z
      BY <2>1, <2>4, <3>1
    <3>3. Target - avail_in = Smaller(data_offset', data_size')
      BY <2>2, <2>3, <2>4, <2>6, <3>2 DEF Target
    <3> QED
      BY <1>0, <2>2, <2>3, <2>4, <2>5, <2>6, <3>2, <3>3 DEF BufferInv, Has
  <2>7. CASE ~z.ended
    <3>1. /\ r.took \in 0 .. avail_in
          /\ r.gave # BlockSize => r.took = avail_in /\ (flush = "Z_FINISH" => r.z.ended)
          /\ r.z.ended => r.took = avail_in /\ flush = "Z_FINISH"
      BY <2>4, <2>7, DeflateGives
    <3>2. rewound => r.z.in = Positions(0, Target - (avail_in - r.took))
      BY <2>3, <2>4, <2>7, Appended DEF Has
    <3>3. CASE r.gave = BlockSize
      <4>1. UNCHANGED <<pc, it, data_offset>> /\ Target' = Target
        BY <2>1, <2>2, <3>3 DEF Target
      <4>2. /\ avail_in' > 0 => next_in' = Target - avail_in'
            /\ avail_in' <= Target
            /\ z'.ended => avail_in' = 0 /\ flush = "Z_FINISH"
        BY <2>1, <2>3, <2>4, <3>1
      <4> QED
        BY <1>0, <2>1, <2>2, <2>3, <3>2, <4>1, <4>2 DEF BufferInv, Has
    <3>4. CASE r.gave # BlockSize
      <4>1. pc' = "idle" /\ it' = "block" /\ data_offset' = data_offset + BlockSize
        BY <2>1, <3>4
      <4>2. avail_in - r.took = 0 /\ (r.z.ended <=> flush = "Z_FINISH")
        BY <2>4, <3>1, <3>4
      <4>3. Target - (avail_in - r.took) = Smaller(data_offset', data_size')
        BY <2>2, <2>4, <4>1, <4>2 DEF Target
      <4> QED
        BY <1>0, <2>1, <2>2, <2>5, <3>2, <4>1, <4>2, <4>3 DEF BufferInv, Has
    <3> QED
      BY <3>3, <3>4
  <2> QED
    BY <2>6, <2>7
<1>5. ASSUME NEW n \in Sizes, Buffer!Reset(n) \/ Buffer!AddData(n)
      PROVE  BufferInv'
  BY <1>5 DEF Buffer!Reset, Buffer!AddData, BufferInv
<1>6. CASE Buffer!Close
  BY <1>6 DEF Buffer!Close, BufferInv
<1> QED
  BY <1>1, <1>2, <1>3, <1>4, <1>5, <1>6 DEF Buffer!Next

(* Over a file: bytes_readed is where the descriptor stands, and what zlib *)
(* has is what was read but for what is still before it.                   *)
LEMMA FileInit == Init => FileInv
BY DEF Init, FileInv, FileActive, Buffer!Init, Chunks!Init, NoClass, File!Init

LEMMA SmallerOfSome ==
    ASSUME NEW n \in Nat, NEW m \in Nat, m < n, NEW b \in Nat \ {0}
    PROVE  Smaller(n - m, b) # 0
BY DEF Smaller

(* A block begins where the last ended.                                    *)
StartsWell(position, size, ret, before) ==
    /\ position = bytes_readed
    /\ IF z'.ended THEN z'.in = Positions(0, size) /\ bytes_readed >= size
                   ELSE z'.in = Positions(0, bytes_readed)
    /\ ret = "Z_STREAM_END" => z'.ended
    /\ ~before => fileSize' = size /\ bytes_readed <= size
    /\ ~before /\ bytes_readed = size /\ ret # "Z_STREAM_END" => fileSize' = 0

LEMMA FileStart ==
    ASSUME use' = "file", FileType, FileType', ClassType', pc = "idle",
           NEW position \in Nat, NEW size \in Nat, NEW ret, NEW before \in BOOLEAN,
           File!StartBlock(position, bytes_readed, size, ret, before),
           StartsWell(position, size, ret, before),
           size_file' = size
    PROVE  FileInv'
<1> USE DEF FileInv, FileActive, Has
<1>0. fileSize' \in Nat /\ bytes_readed \in Nat /\ BlockSize \in Nat \ {0}
  BY DeflateAssumption DEF FileType
<1>1. PICK r \in ReadResults(File!Left(fileSize', position), BlockSize) :
        /\ at' = position + r.n
        /\ disturbed' = (before \/ r.failed)
        /\ stream' = ret
        /\ \/ /\ Returned(r) <= 0
              /\ bytes_readed' = bytes_readed
              /\ \/ ret = "Z_STREAM_END" /\ it' = "end"
                 \/ ret # "Z_STREAM_END" /\ it' = "thrown"
              /\ UNCHANGED pc
           \/ /\ Returned(r) > 0
              /\ bytes_readed' = bytes_readed + r.n
              /\ next_in' = position /\ avail_in' = r.n
              /\ flush' = IF bytes_readed' = size THEN "Z_FINISH" ELSE "Z_NO_FLUSH"
              /\ it' = "none" /\ pc' = "deflate"
  BY FileZlib DEF File!StartBlock, File!Want, File!Flush, File!Ends
<1>2. /\ r.n \in 0 .. BlockSize /\ r.n <= File!Left(fileSize', position) /\ r.failed \in BOOLEAN
      /\ ~r.failed => r.n = Smaller(File!Left(fileSize', position), BlockSize)
      /\ Returned(r) <= 0 <=> r.n = 0
  BY <1>0, LeftType, ReadGives
<1>3. Returned(r) \in Int
  BY <1>2 DEF Returned
<1>4. r.n <= IF bytes_readed < fileSize' THEN fileSize' - bytes_readed ELSE 0
  BY <1>2 DEF StartsWell, File!Left
<1>5. ~r.failed /\ r.n = 0 => bytes_readed >= fileSize'
  <2>1. position = bytes_readed
    BY DEF StartsWell
  <2>2. CASE bytes_readed < fileSize'
    <3>1. File!Left(fileSize', position) = fileSize' - bytes_readed
      BY <2>1, <2>2 DEF File!Left
    <3>2. ~r.failed => r.n = Smaller(fileSize' - bytes_readed, BlockSize)
      BY <1>2, <3>1
    <3>3. Smaller(fileSize' - bytes_readed, BlockSize) # 0
      BY <1>0, <2>2, SmallerOfSome
    <3> QED
      BY <3>2, <3>3
  <2> QED
    BY <1>0, <2>2
<1>6. CASE r.n = 0
  <2>1. /\ bytes_readed' = bytes_readed /\ pc' = "idle"
        /\ \/ ret = "Z_STREAM_END" /\ it' = "end"
           \/ ret # "Z_STREAM_END" /\ it' = "thrown"
    BY <1>1, <1>2, <1>3, <1>6
  <2>2. CASE it' = "end"
    BY <2>1, <2>2 DEF StartsWell
  <2>3. CASE it' = "thrown"
    <3>1. ~disturbed' => ~r.failed /\ ~before
      BY <1>1
    <3>2. ~disturbed' => fileSize' = size /\ bytes_readed = size
      BY <1>0, <1>5, <1>6, <3>1 DEF StartsWell
    <3>3. disturbed' \/ fileSize' = 0
      BY <2>1, <2>3, <3>1, <3>2 DEF StartsWell
    <3> QED
      BY <2>1, <2>3, <3>3
  <2> QED
    BY <2>1, <2>2, <2>3
<1>7. CASE r.n # 0
  <2>1. /\ bytes_readed' = bytes_readed + r.n
        /\ next_in' = position /\ avail_in' = r.n
        /\ flush' = IF bytes_readed' = size THEN "Z_FINISH" ELSE "Z_NO_FLUSH"
        /\ it' = "none" /\ pc' = "deflate"
    BY <1>1, <1>2, <1>3, <1>7
  <2>2. bytes_readed' - avail_in' = bytes_readed /\ bytes_readed' > bytes_readed
    BY <1>0, <1>2, <1>7, <2>1
  <2>3. /\ at' = bytes_readed' /\ avail_in' <= bytes_readed'
        /\ next_in' = bytes_readed' - avail_in'
    BY <1>0, <1>1, <1>2, <2>1 DEF StartsWell
  <2>4. IF z'.ended THEN z'.in = Positions(0, size) /\ bytes_readed' > size
                    ELSE z'.in = Positions(0, bytes_readed' - avail_in')
    <3>1. z'.ended => z'.in = Positions(0, size) /\ bytes_readed' > size
      BY <1>0, <2>2 DEF StartsWell, FileType
    <3>2. ~z'.ended => z'.in = Positions(0, bytes_readed)
      BY DEF StartsWell
    <3>3. Positions(0, bytes_readed) = Positions(0, bytes_readed' - avail_in')
      BY <2>2
    <3> QED
      BY <3>1, <3>2, <3>3
  <2>5. stream' = "Z_STREAM_END" => z'.ended
    BY <1>1 DEF StartsWell
  <2>6. ~disturbed' => fileSize' = size /\ bytes_readed' <= size
    BY <1>0, <1>1, <1>2, <1>4, <1>7, <2>1 DEF StartsWell
  <2>7. /\ bytes_readed' >= size \/ ~z'.ended
        /\ ~(z'.ended /\ bytes_readed' = size)
    BY <1>0, <2>1, <2>4
  <2> QED
    BY <2>1, <2>3, <2>4, <2>5, <2>6, <2>7
<1> QED
  BY <1>6, <1>7

LEMMA FileStep ==
    ASSUME CloseFirst, use = "file", PcType, ClassType, FileType, FileInv, File!Next,
           UNCHANGED use
    PROVE  FileInv'
<1>0. use' = "file" /\ PcType' /\ ClassType' /\ FileType'
  BY FileStepType
<1>1. CASE File!Begin
  <2>1. /\ pc = "idle" /\ bytes_readed = 0 /\ z' = NewDeflate /\ size_file' = fileSize
        /\ File!StartBlock(0, bytes_readed, fileSize, "Z_OK", fileSize' # fileSize)
    BY <1>1, FileZlib DEF File!Begin
  <2>2. 0 \in Nat /\ fileSize \in Nat /\ (fileSize' # fileSize) \in BOOLEAN
    BY DEF FileType
  <2>3. StartsWell(0, fileSize, "Z_OK", fileSize' # fileSize)
    BY <2>1, <2>2, NewType DEF StartsWell
  <2> QED
    BY <1>0, <2>1, <2>2, <2>3, FileStart
<1>2. CASE File!BeginFails
  BY <1>2 DEF File!BeginFails, FileInv, FileActive
<1>3. CASE File!Increment
  <2>1. /\ pc = "idle" /\ it = "block" /\ UNCHANGED z /\ size_file' = size_file
        /\ File!StartBlock(at, bytes_readed, size_file, stream, disturbed)
        /\ fileSize' = fileSize
    BY <1>3 DEF File!Increment
  <2>2. at \in Nat /\ size_file \in Nat /\ disturbed \in BOOLEAN
    BY DEF FileType
  <2>3. StartsWell(at, size_file, stream, disturbed)
    <3>1. /\ at = bytes_readed
          /\ IF z.ended THEN Has(size_file) /\ bytes_readed >= size_file
                        ELSE Has(bytes_readed - avail_in)
          /\ stream = "Z_STREAM_END" => z.ended
          /\ ~disturbed => fileSize = size_file /\ bytes_readed <= size_file
          /\ ~z.ended => avail_in = 0 /\ bytes_readed # size_file
          /\ z.ended /\ bytes_readed = size_file => stream = "Z_STREAM_END"
      BY <2>1 DEF FileInv, FileActive
    <3>2. ~z.ended => bytes_readed - avail_in = bytes_readed
      BY <3>1 DEF FileType
    <3> QED
      BY <2>1, <3>1, <3>2 DEF StartsWell, Has
  <2> QED
    BY <1>0, <2>1, <2>2, <2>3, FileStart
<1>4. CASE File!Deflate
  <2>1. PICK r \in DeflateResults(z, next_in, avail_in, flush, BlockSize) :
          /\ z' = r.z /\ stream' = r.ret
          /\ next_in' = next_in + r.took
          /\ avail_in' = avail_in - r.took
          /\ \/ r.gave = BlockSize /\ UNCHANGED <<pc, it>>
             \/ r.gave # BlockSize /\ pc' = "idle" /\ it' = "block"
    BY <1>4, FileZlib DEF File!Deflate, File!Again
  <2>2. pc = "deflate" /\ UNCHANGED <<fileSize, at, bytes_readed, size_file, flush, disturbed>>
    BY <1>4 DEF File!Deflate, File!fileVars
  <2>3. /\ at = bytes_readed /\ avail_in <= bytes_readed
        /\ IF z.ended THEN Has(size_file) /\ bytes_readed >= size_file
                      ELSE Has(bytes_readed - avail_in)
        /\ ~disturbed => fileSize = size_file /\ bytes_readed <= size_file
        /\ it = "none"
        /\ avail_in > 0 => next_in = bytes_readed - avail_in
        /\ flush = IF bytes_readed = size_file THEN "Z_FINISH" ELSE "Z_NO_FLUSH"
        /\ z.ended /\ bytes_readed = size_file => avail_in = 0
    BY <2>2 DEF FileInv, FileActive
  <2>4. /\ avail_in \in Nat /\ next_in \in Nat /\ bytes_readed \in Nat /\ size_file \in Nat
        /\ z \in Deflated /\ BlockSize \in Nat \ {0}
    BY DeflateAssumption DEF ClassType, FileType
  <2>5. CASE z.ended
    <3>1. /\ r.z = z /\ r.took = 0 /\ r.gave = 0
          /\ r.ret = IF flush = "Z_FINISH" /\ avail_in = 0 THEN "Z_STREAM_END" ELSE "error"
      BY <2>4, <2>5, ClosedTakesNothing
    <3>2. pc' = "idle" /\ it' = "block" /\ z' = z /\ avail_in' = avail_in
      BY <2>1, <2>4, <3>1
    <3>3. bytes_readed = size_file => stream' = "Z_STREAM_END"
      BY <2>1, <2>3, <2>5, <3>1
    <3> QED
      BY <1>0, <2>2, <2>3, <2>5, <3>2, <3>3 DEF FileInv, FileActive, Has
  <2>6. CASE ~z.ended
    <3>1. /\ r.took \in 0 .. avail_in
          /\ r.gave # BlockSize => r.took = avail_in /\ (flush = "Z_FINISH" => r.z.ended)
          /\ r.z.ended => r.took = avail_in /\ flush = "Z_FINISH"
          /\ r.ret = IF r.z.ended THEN "Z_STREAM_END" ELSE "Z_OK"
      BY <2>4, <2>6, DeflateGives
    <3>2. r.z.in = Positions(0, bytes_readed - (avail_in - r.took))
      BY <2>3, <2>4, <2>6, Appended DEF Has
    <3>3. /\ avail_in' \in Nat /\ avail_in' <= bytes_readed
          /\ avail_in' > 0 => next_in' = bytes_readed - avail_in'
      BY <2>1, <2>3, <2>4, <3>1
    <3>4. z'.ended => /\ avail_in' = 0 /\ bytes_readed = size_file
                      /\ stream' = "Z_STREAM_END" /\ z'.in = Positions(0, size_file)
      BY <2>1, <2>3, <2>4, <3>1, <3>2
    <3>5. ~z'.ended => z'.in = Positions(0, bytes_readed - avail_in')
      BY <2>1, <3>2
    <3>6. stream' = "Z_STREAM_END" => z'.ended
      BY <2>1, <3>1
    <3>7. r.gave # BlockSize /\ ~z'.ended => avail_in' = 0 /\ bytes_readed # size_file
      BY <2>1, <2>3, <2>4, <3>1
    <3>8. CASE r.gave = BlockSize
      <4>1. pc' = "deflate" /\ it' = "none"
        BY <2>1, <2>2, <2>3, <3>8
      <4> QED
        BY <1>0, <2>2, <2>3, <2>4, <3>3, <3>4, <3>5, <3>6, <4>1 DEF FileInv, FileActive, Has
    <3>9. CASE r.gave # BlockSize
      <4>1. pc' = "idle" /\ it' = "block"
        BY <2>1, <3>9
      <4> QED
        BY <1>0, <2>2, <2>3, <2>4, <3>3, <3>4, <3>5, <3>6, <3>7, <3>9, <4>1
        DEF FileInv, FileActive, Has
    <3> QED
      BY <3>8, <3>9
  <2> QED
    BY <2>5, <2>6
<1>5. ASSUME NEW size \in FileSizes, NEW o \in Offsets \cup {-1},
             File!Reset(size, o) \/ File!CloseReset(size, o)
      PROVE  FileInv'
  BY <1>5 DEF File!Reset, File!CloseReset, FileInv, FileActive
<1>6. ASSUME NEW size \in FileSizes, File!FileChanges(size)
      PROVE  FileInv'
  BY <1>6 DEF File!FileChanges, File!strmVars, FileInv, FileActive, Has
<1> QED
  BY <1>1, <1>2, <1>3, <1>4, <1>5, <1>6 DEF File!Next

-----------------------------------------------------------------------------
(* The step of one class leaves the variables of the others alone.         *)
LEMMA InitTypes == Init => TypeOK
<1> SUFFICES ASSUME Init PROVE TypeOK
  OBVIOUS
<1> USE DeflateAssumption
<1>1. NoClass => ClassType
  BY NewType DEF NoClass, ClassType
<1>2. NoBuffer => BufferType
  <2>1. NoBuffer => rewound \in BOOLEAN
    BY DEF NoBuffer
  <2> QED
    BY <2>1 DEF NoBuffer, BufferType
<1>3. NoFile => FileType
  <2>1. NoFile => disturbed \in BOOLEAN
    BY DEF NoFile
  <2> QED
    BY <2>1 DEF NoFile, FileType
<1>4. NoChunks => ChunkType
  <2>1. NoChunks => fresh \in BOOLEAN /\ ended \in BOOLEAN
    BY DEF NoChunks
  <2> QED
    BY <2>1 DEF NoChunks, ChunkType
<1>5. NoChunks => GaveType
  BY DEF NoChunks, GaveType
<1>6. CASE use = "buffer" /\ Buffer!Init /\ NoFile /\ NoChunks
  <2>1. PcType /\ BufferType
    BY <1>6 DEF Buffer!Init, PcType, BufferType
  <2>2. ClassType
    BY <1>6, NewType, BufferZlib DEF Buffer!Init, ClassType
  <2> QED
    BY <1>3, <1>4, <1>5, <1>6, <2>1, <2>2, TypeParts
<1>7. CASE use = "chunks" /\ Chunks!Init /\ NoClass /\ NoBuffer /\ NoFile
  <2>1. PcType /\ GaveType
    BY <1>7 DEF Chunks!Init, PcType, GaveType
  <2>2. NoChunks
    BY <1>7 DEF Chunks!Init, NoChunks
  <2> QED
    BY <1>1, <1>2, <1>3, <1>4, <1>7, <2>1, <2>2, TypeParts
<1>8. CASE use = "file" /\ File!Init /\ NoBuffer /\ NoChunks
  <2>1. PcType
    BY <1>8 DEF File!Init, PcType
  <2>2. ClassType
    BY <1>8, NewType, FileZlib DEF File!Init, ClassType
  <2>3. fileSize \in Nat /\ at \in Nat /\ fd_offset \in Nat \cup {-1}
    BY <1>8 DEF File!Init
  <2>4. disturbed \in BOOLEAN
    BY <1>8 DEF File!Init
  <2>5. FileType
    BY <1>8, <2>3, <2>4 DEF File!Init, FileType
  <2> QED
    BY <1>2, <1>4, <1>5, <1>8, <2>1, <2>2, <2>5, TypeParts
<1> QED
  BY <1>6, <1>7, <1>8 DEF Init

LEMMA InitChunks == Init => ChunkInv
BY DEF Init, ChunkInv, Chunks!Init

(* TypeOK is inductive with what is known of the chunks, whose sum bounds  *)
(* what zlib has of them.                                                  *)
LEMMA StepTypes == TypeOK /\ ChunkInv /\ [Next]_vars => TypeOK' /\ ChunkInv'
<1> SUFFICES ASSUME TypeOK, ChunkInv, [Next]_vars PROVE TypeOK' /\ ChunkInv'
  OBVIOUS
<1>0. /\ use \in {"buffer", "chunks", "file"}
      /\ PcType /\ ClassType /\ BufferType /\ FileType /\ ChunkType /\ GaveType
  BY TypeParts
<1>1. CASE use = "buffer" /\ Buffer!Next /\ UNCHANGED RestOfBuffer
  <2>1. PcType' /\ ClassType' /\ BufferType'
    BY <1>0, <1>1, BufferStepType
  <2>2. use' = "buffer" /\ UNCHANGED fileVars /\ UNCHANGED chunkVars
    BY <1>1 DEF RestOfBuffer
  <2>3. FileType' /\ ChunkType' /\ GaveType'
    BY <1>0, <2>2 DEF FileType, ChunkType, GaveType, fileVars, chunkVars
  <2>4. ChunkInv'
    BY <2>2 DEF ChunkInv
  <2> QED
    BY <2>1, <2>2, <2>3, <2>4, TypePartsNext
<1>2. CASE use = "chunks" /\ Chunks!Next /\ UNCHANGED RestOfChunks
  <2>2. /\ use' = "chunks"
        /\ UNCHANGED classVars /\ UNCHANGED bufferVars /\ UNCHANGED fileVars
    BY <1>2 DEF RestOfChunks
  <2>1. PcType' /\ ChunkType' /\ GaveType' /\ ChunkInv'
    BY <1>0, <1>2, <2>2, ChunksStep
  <2>3. ClassType' /\ BufferType' /\ FileType'
    BY <1>0, <2>2 DEF ClassType, BufferType, FileType, classVars, bufferVars, fileVars
  <2> QED
    BY <2>1, <2>2, <2>3, TypePartsNext
<1>3. CASE use = "file" /\ File!Next /\ UNCHANGED RestOfFile
  <2>1. PcType' /\ ClassType' /\ FileType'
    BY <1>0, <1>3, FileStepType
  <2>2. use' = "file" /\ UNCHANGED bufferVars /\ UNCHANGED chunkVars
    BY <1>3 DEF RestOfFile
  <2>3. BufferType' /\ ChunkType' /\ GaveType'
    BY <1>0, <2>2 DEF BufferType, ChunkType, GaveType, bufferVars, chunkVars
  <2>4. ChunkInv'
    BY <2>2 DEF ChunkInv
  <2> QED
    BY <2>1, <2>2, <2>3, <2>4, TypePartsNext
<1>4. CASE UNCHANGED vars
  BY <1>4 DEF vars, classVars, bufferVars, fileVars, chunkVars, TypeOK, ChunkInv
<1> QED
  BY <1>1, <1>2, <1>3, <1>4 DEF Next

LEMMA StepBuffer == TypeOK /\ BufferInv /\ [Next]_vars => BufferInv'
<1> SUFFICES ASSUME TypeOK, BufferInv, [Next]_vars PROVE BufferInv'
  OBVIOUS
<1>1. CASE use = "buffer" /\ Buffer!Next /\ UNCHANGED RestOfBuffer
  BY <1>1, TypeParts, BufferStep DEF RestOfBuffer
<1>2. CASE use' # "buffer"
  BY <1>2 DEF BufferInv
<1>3. CASE UNCHANGED vars
  BY <1>3 DEF vars, classVars, bufferVars, BufferInv, Has, Target
<1> QED
  BY <1>1, <1>2, <1>3 DEF Next, RestOfChunks, RestOfFile

LEMMA StepFile == CloseFirst /\ TypeOK /\ FileInv /\ [Next]_vars => FileInv'
<1> SUFFICES ASSUME CloseFirst, TypeOK, FileInv, [Next]_vars PROVE FileInv'
  OBVIOUS
<1>1. CASE use = "file" /\ File!Next /\ UNCHANGED RestOfFile
  BY <1>1, TypeParts, FileStep DEF RestOfFile
<1>2. CASE use' # "file"
  BY <1>2 DEF FileInv
<1>3. CASE UNCHANGED vars
  BY <1>3 DEF vars, classVars, fileVars, FileInv, FileActive, Has
<1> QED
  BY <1>1, <1>2, <1>3 DEF Next, RestOfBuffer, RestOfChunks

-----------------------------------------------------------------------------
(* Every variable keeps its type, for any sizes and however zlib cuts its  *)
(* output.                                                                 *)
THEOREM DeflateTypeOK == Spec => []TypeOK
<1>1. Init => TypeOK /\ ChunkInv
  BY InitTypes, InitChunks
<1> QED
  BY <1>1, StepTypes, PTL DEF Spec

THEOREM DeflateChunkInv == Spec => []ChunkInv
<1>1. Init => TypeOK /\ ChunkInv
  BY InitTypes, InitChunks
<1> QED
  BY <1>1, StepTypes, PTL DEF Spec

(* Between its calls of next() the caller of chunks has all the output     *)
(* there is for them: the loop over a call with room for as many bytes as  *)
(* the chunk has ends with zlib empty.                                     *)
THEOREM ChunksGetAll == Spec => []AllGiven
<1>1. TypeOK /\ ChunkInv => AllGiven
  BY TypeParts DEF ChunkInv, AllGiven, ChunkType
<1> QED
  BY <1>1, DeflateTypeOK, DeflateChunkInv, PTL

(* A partial flush of a chunk of one byte never returns, whatever zlib     *)
(* makes of the byte: what LoopEnds leaves out is left out rightly.        *)
THEOREM OneByteNeverReturns == Spec => [](Stuck => []Stuck)
<1>1. TypeOK /\ Stuck /\ [Next]_vars => Stuck'
  <2> SUFFICES ASSUME TypeOK, Stuck, [Next]_vars PROVE Stuck'
    OBVIOUS
  <2> USE DEF Stuck
  <2>1. CASE Chunks!Deflate /\ UNCHANGED RestOfChunks
    <3>1. Chunks!Room = 1 /\ UNCHANGED <<use, input_size, flush>>
      BY <2>1 DEF Chunks!Room, Chunks!Deflate, RestOfChunks
    <3>2. PICK a \in Chunks!Added :
            /\ gave' = Smaller(pending + a[1], 1)
            /\ gave' = 1 => UNCHANGED pc
      BY <2>1, <3>1, ChunksZlib DEF Chunks!Deflate, Chunks!Again
    <3>3. pending \in Nat /\ bits \in 0 .. 7 /\ a[1] \in Nat
      BY TypeParts, AddedType DEF ChunkType
    <3>4. pending + a[1] >= 1
      <4>1. CASE fresh
        BY <3>3, <4>1 DEF Chunks!Added
      <4>2. CASE ~fresh /\ pending < Chunks!Room
        <5>1. a[1] = (bits + 10) \div 8
          BY <4>2 DEF Chunks!Added
        <5> QED
          BY <3>3, <5>1
      <4>3. CASE ~(pending < Chunks!Room)
        BY <3>1, <3>3, <4>3
      <4> QED
        BY <4>1, <4>2, <4>3
    <3>5. gave' = 1
      BY <3>2, <3>3, <3>4 DEF Smaller
    <3> QED
      BY <3>1, <3>2, <3>5
  <2>2. CASE UNCHANGED vars
    BY <2>2 DEF vars, chunkVars
  <2> QED
    BY <2>1, <2>2 DEF Next, Chunks!Next, Chunks!InitStream, Chunks!InitFails, Chunks!Chunk
<1> QED
  BY <1>1, DeflateTypeOK, PTL DEF Spec

THEOREM DeflateBufferInv == Spec => []BufferInv
BY BufferInit, StepBuffer, DeflateTypeOK, PTL DEF Spec

THEOREM DeflateFileInv == CloseFirst => (Spec => []FileInv)
<1> SUFFICES ASSUME CloseFirst PROVE Spec => []FileInv
  OBVIOUS
<1>1. TypeOK /\ FileInv /\ [Next]_vars => FileInv'
  BY StepFile
<1> QED
  BY <1>1, FileInit, DeflateTypeOK, PTL DEF Spec

(* A loop that ends without an exception wrote one closed stream of the    *)
(* whole input, its bytes in order and none twice: over a buffer that was  *)
(* rewound, and over a file that was closed before the next was given, as  *)
(* large as it was at begin(), whatever fails and however it changes.      *)
THEOREM StreamIsWhole == CloseFirst => (Spec => []WholeStream)
<1> SUFFICES ASSUME CloseFirst PROVE Spec => []WholeStream
  OBVIOUS
<1>1. BufferInv /\ FileInv => WholeStream
  BY DEF BufferInv, FileInv, WholeStream, Has
<1> QED
  BY <1>1, DeflateBufferInv, DeflateFileInv, PTL

(* A file that is let alone and not empty is compressed to its end: the    *)
(* block that finishes the stream is the last, at every size.              *)
THEOREM NoErrorWithoutCause == CloseFirst => (Spec => []NoNeedlessError)
<1> SUFFICES ASSUME CloseFirst PROVE Spec => []NoNeedlessError
  OBVIOUS
<1>1. FileInv => NoNeedlessError
  BY DEF FileInv, NoNeedlessError
<1> QED
  BY <1>1, DeflateFileInv, PTL
=============================================================================
