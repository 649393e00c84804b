------------------------ MODULE LZ4DecompressProofs ------------------------
(***************************************************************************)
(* The ring of the decompressing classes is invisible: they decode as the  *)
(* abstract decoder does, for every block size, ring size and window with  *)
(* Wrap >= Window + Block, whatever records they are handed; and so does   *)
(* decompress_lz4, whose blocks leave the scratch memory for a ring.       *)
(***************************************************************************)
EXTENDS LZ4Decompress, SequenceTheorems, WellFoundedInduction, TLAPS

(* Where the history is.  Every prefix starts at the front of the ring,    *)
(* since _offset returns there before a block is decoded anywhere but      *)
(* behind the last one.  In a segment, the stream is in the prefix, or the *)
(* segment before it is the external dictionary, and is whole.  When one   *)
(* begins, the last is whole or the stream has no bytes yet.               *)
Filled == sd.prefix.hi

ShapeInv ==
    /\ buffer \in [0 .. (RingBytes - 1) -> Int]
    /\ offset \in 0 .. (Wrap - 1)
    /\ pos \in Nat /\ start \in Nat /\ start <= pos
    /\ verdict \in {"open", "corrupt"}
    /\ sd \in [prefix : [lo : {0}, hi : 0 .. (Wrap + Block - 1)],
               ext : [lo : {0}, hi : 0 .. (Wrap + Block - 1)]]
    /\ offset > 0 => /\ Filled = offset
                     /\ pos - start <= Filled \/ sd.ext.hi >= Wrap
    /\ offset = 0 => pos = start \/ Filled >= Wrap

(* What the history holds, of the current stream: the byte of position p   *)
(* is in the prefix or, where the prefix has not grown over it, in the     *)
(* external dictionary.                                                    *)
ContentsInv ==
    verdict = "open" =>
        /\ \A a \in 0 .. (Filled - 1) :
              pos - Filled + a >= start => buffer[a] = pos - Filled + a
        /\ offset > 0 =>
              \A a \in Filled .. (sd.ext.hi - 1) :
                  pos - Filled - sd.ext.hi + a >= start =>
                      buffer[a] = pos - Filled - sd.ext.hi + a

DecodeInv == ShapeInv /\ ContentsInv

-----------------------------------------------------------------------------
(* What the decoder sees behind a block: in a segment the prefix and then  *)
(* the external dictionary, at its front the whole last segment.           *)
LEMMA BeforeInSegment ==
    ASSUME ShapeInv, offset > 0
    PROVE  Before(sd, offset) = sd
BY DecodeRingAssumption DEF ShapeInv, Before, Size, Filled

LEMMA BeforeAtFront ==
    ASSUME ShapeInv, offset = 0, Filled > 0
    PROVE  Before(sd, offset) = [prefix |-> NoSpan, ext |-> sd.prefix]
BY DecodeRingAssumption DEF ShapeInv, Before, Size, Filled, NoSpan

LEMMA BeforeAll ==
    ASSUME ShapeInv, offset = 0, Filled = 0
    PROVE  Before(sd, offset) = [prefix |-> NoSpan, ext |-> NoSpan]
BY DecodeRingAssumption DEF ShapeInv, Before, Size, Filled, NoSpan

(* Nothing of the stream that a match may reach is out of the decoder's    *)
(* sight.                                                                  *)
LEMMA Sight ==
    ASSUME ShapeInv
    PROVE  /\ Available(sd, offset) \in Nat
           /\ \A reach \in 0 .. Window : reach <= pos - start => reach <= Available(sd, offset)
<1> USE DecodeRingAssumption
<1>1. CASE offset > 0
  <2>1. Available(sd, offset) = Filled + sd.ext.hi
    BY <1>1, BeforeInSegment DEF Available, Size, ShapeInv, Filled
  <2> QED
    BY <1>1, <2>1 DEF ShapeInv, Filled
<1>2. CASE offset = 0 /\ Filled > 0
  <2>1. Available(sd, offset) = Filled
    BY <1>2, BeforeAtFront DEF Available, Size, ShapeInv, Filled, NoSpan
  <2> QED
    BY <1>2, <2>1 DEF ShapeInv, Filled
<1>3. CASE offset = 0 /\ Filled = 0
  <2>1. Available(sd, offset) = 0
    BY <1>3, BeforeAll DEF Available, Size, NoSpan
  <2>2. pos - start = 0
    BY <1>3 DEF ShapeInv
  <2> QED
    BY <2>1, <2>2
<1> QED
  BY <1>1, <1>2, <1>3 DEF ShapeInv, Filled

(* A match sees the bytes of the stream that precede its block: a block at *)
(* the front of the ring is written behind the bytes its matches read.     *)
LEMMA SeenIsStream ==
    ASSUME DecodeInv, verdict = "open",
           NEW r \in Records, NEW d \in 1 .. r.reach, r.reach <= pos - start
    PROVE  Seen(buffer, sd, offset, pos, r.len, d) = pos - d
<1> USE DecodeRingAssumption DEF DecodeInv
<1>1. /\ d \in Nat /\ 1 <= d /\ d <= Window /\ d <= pos - start
      /\ r.len \in Nat /\ 1 <= r.len
  <2>1. r.len \in 1 .. Block /\ r.reach \in 0 .. Window
    BY DEF Records, Decoder!Records
  <2>2. pos - start \in Int
    BY DEF ShapeInv
  <2> QED
    BY <2>1, <2>2
<1>2. /\ Least(r.len - 1, Window - d) \in Int
      /\ Least(r.len - 1, Window - d) <= Window - d
  BY <1>1 DEF Least
<1> DEFINE m == Least(r.len - 1, Window - d)
           cell == CellAt(sd, offset, d)
<1>3. SUFFICES /\ cell \in Int
               /\ cell < offset \/ cell > offset + m - 1
               /\ buffer[cell] = pos - d
  BY <1>2 DEF Seen, ShapeInv
<1>4. CASE offset > 0 /\ d <= Filled
  <2>1. cell = Filled - d
    BY <1>1, <1>4, BeforeInSegment DEF CellAt, Size, ShapeInv, Filled
  <2>2. cell \in 0 .. (Filled - 1) /\ pos - Filled + cell = pos - d
    BY <1>1, <1>4, <2>1 DEF ShapeInv, Filled
  <2>3. pos - d >= start
    BY <1>1 DEF ShapeInv
  <2>4. buffer[cell] = pos - d
    BY <2>2, <2>3 DEF ContentsInv
  <2>5. cell < offset
    BY <1>4, <2>2 DEF ShapeInv
  <2> QED
    BY <2>2, <2>4, <2>5
<1>5. CASE offset > 0 /\ d > Filled
  <2>1. cell = sd.ext.hi - (d - Filled)
    BY <1>1, <1>5, BeforeInSegment DEF CellAt, Size, ShapeInv, Filled
  <2>2. sd.ext.hi >= Wrap /\ Filled = offset
    BY <1>1, <1>5 DEF ShapeInv, Filled
  <2>3. cell \in Filled .. (sd.ext.hi - 1) /\ pos - Filled - sd.ext.hi + cell = pos - d
    BY <1>1, <1>5, <2>1, <2>2 DEF ShapeInv, Filled
  <2>4. pos - d >= start
    BY <1>1 DEF ShapeInv
  <2>5. buffer[cell] = pos - d
    BY <1>5, <2>3, <2>4 DEF ContentsInv
  <2>6. cell > offset + m - 1
    <3>1. cell = offset + (sd.ext.hi - d)
      BY <1>1, <2>1, <2>2 DEF ShapeInv
    <3> QED
      BY <1>1, <1>2, <2>2, <3>1 DEF ShapeInv
  <2> QED
    BY <2>3, <2>5, <2>6 DEF ShapeInv
<1>6. CASE offset = 0
  <2>1. Filled >= Wrap
    BY <1>1, <1>6 DEF ShapeInv
  <2>2. cell = Filled - d
    BY <1>1, <1>6, <2>1, BeforeAtFront DEF CellAt, Size, ShapeInv, Filled, NoSpan
  <2>3. cell \in 0 .. (Filled - 1) /\ pos - Filled + cell = pos - d
    BY <1>1, <2>1, <2>2 DEF ShapeInv, Filled
  <2>4. pos - d >= start
    BY <1>1 DEF ShapeInv
  <2>5. buffer[cell] = pos - d
    BY <2>3, <2>4 DEF ContentsInv
  <2>6. cell > offset + m - 1
    <3>1. Filled \in Nat /\ Filled >= Window
      BY <2>1 DEF ShapeInv, Filled
    <3> HIDE DEF m, cell
    <3>2. m \in Int /\ m <= Window - d
      BY <1>2 DEF m
    <3> QED
      BY <1>1, <1>6, <2>2, <3>1, <3>2
  <2> QED
    BY <2>3, <2>5, <2>6
<1> QED
  BY <1>4, <1>5, <1>6 DEF ShapeInv, Filled

-----------------------------------------------------------------------------
LEMMA InvInit == RingInit => DecodeInv
BY DecodeRingAssumption
   DEF RingInit, Decoder!DecoderInit, NoHistory, NoSpan, DecodeInv, ShapeInv,
       ContentsInv, Filled, RingBytes

(* Where a decoded block leaves the history.                               *)
LEMMA HistoryInSegment ==
    ASSUME ShapeInv, offset > 0, NEW n \in 1 .. Block
    PROVE  HistoryAfter(sd, offset, n)
             = [prefix |-> [lo |-> 0, hi |-> offset + n], ext |-> sd.ext]
BY BeforeInSegment DEF HistoryAfter, ShapeInv

LEMMA HistoryAtFront ==
    ASSUME ShapeInv, offset = 0, NEW n \in 1 .. Block
    PROVE  HistoryAfter(sd, offset, n)
             = [prefix |-> [lo |-> 0, hi |-> n],
                ext |-> IF Filled > 0 THEN sd.prefix ELSE NoSpan]
<1>1. CASE Filled > 0
  BY <1>1, BeforeAtFront DEF HistoryAfter, NoSpan
<1>2. CASE Filled = 0
  BY <1>2, BeforeAll DEF HistoryAfter, NoSpan
<1> QED
  BY <1>1, <1>2 DEF ShapeInv, Filled

LEMMA InvDecode ==
    ASSUME DecodeInv, NEW r \in Records, Decode(r)
    PROVE  DecodeInv'
<1> DEFINE n == r.len
<1>0. n \in 1 .. Block
  BY DEF Records, Decoder!Records
<1> HIDE DEF n
<1> USE DecodeRingAssumption, <1>0 DEF DecodeInv
<1>1. /\ buffer' = Written(buffer, offset, pos, n)
      /\ sd' = HistoryAfter(sd, offset, n)
      /\ offset' = Advanced(offset, n)
      /\ pos' = pos + n /\ start' = start
      /\ verdict = "open" /\ verdict' = "open"
  BY DEF Decode, n
<1>2. /\ buffer' \in [0 .. (RingBytes - 1) -> Int]
      /\ \A a \in 0 .. (RingBytes - 1) :
            buffer'[a] = IF a >= offset /\ a < offset + n THEN pos + (a - offset) ELSE buffer[a]
  BY <1>1 DEF Written, ShapeInv, RingBytes
<1>3. CASE offset > 0
  <2>1. sd' = [prefix |-> [lo |-> 0, hi |-> offset + n], ext |-> sd.ext]
    BY <1>1, <1>3, HistoryInSegment
  <2>2. ShapeInv'
    BY <1>1, <1>2, <1>3, <2>1 DEF ShapeInv, Filled, Advanced
  <2>3. Filled' = offset + n /\ sd'.ext.hi = sd.ext.hi /\ Filled = offset
    BY <1>3, <2>1 DEF Filled, ShapeInv
  <2> DEFINE e == sd.ext.hi
  <2>a. /\ offset \in Nat /\ n \in Nat /\ pos \in Nat /\ e \in Nat
        /\ offset + n <= RingBytes /\ e <= RingBytes /\ RingBytes \in Nat
    BY DEF ShapeInv, RingBytes
  <2> HIDE DEF e
  <2>4. ASSUME NEW a \in 0 .. (offset + n - 1), pos' - Filled' + a >= start
        PROVE  buffer'[a] = pos' - Filled' + a
    <3>1. a \in 0 .. (RingBytes - 1) /\ pos' - Filled' + a = pos - offset + a
      BY <1>1, <2>3 DEF ShapeInv, RingBytes
    <3>2. CASE a >= offset
      BY <1>2, <3>1, <3>2 DEF ShapeInv
    <3>3. CASE a < offset
      <4>1. buffer[a] = pos - offset + a
        BY <1>1, <2>3, <2>4, <3>1, <3>3 DEF ContentsInv, ShapeInv
      <4> QED
        <5>1. ~(a >= offset)
          BY <2>a, <3>3
        <5>2. buffer'[a] = buffer[a]
          BY <1>2, <3>1, <5>1
        <5> QED
          BY <3>1, <4>1, <5>2
    <3> QED
      BY <2>a, <3>2, <3>3
  <2>5. ASSUME NEW a \in (offset + n) .. (e - 1), pos' - Filled' - e + a >= start
        PROVE  buffer'[a] = pos' - Filled' - e + a
    <3>1. /\ a \in 0 .. (RingBytes - 1) /\ a \in offset .. (e - 1)
          /\ ~(a < offset + n)
          /\ pos' - Filled' - e + a = pos - offset - e + a
      BY <1>1, <2>3, <2>a
    <3>2. buffer[a] = pos - offset - e + a
      BY <1>1, <1>3, <2>3, <2>5, <3>1 DEF ContentsInv, e
    <3>3. buffer'[a] = buffer[a]
      BY <1>2, <3>1
    <3> QED
      BY <3>1, <3>2, <3>3
  <2>6. ContentsInv'
    <3>1. start' = start /\ sd'.ext.hi = e
      BY <1>1, <2>3 DEF e
    <3>2. \A a \in 0 .. (Filled' - 1) :
             pos' - Filled' + a >= start' => buffer'[a] = pos' - Filled' + a
      <4> SUFFICES ASSUME NEW a \in 0 .. (Filled' - 1), pos' - Filled' + a >= start'
                   PROVE  buffer'[a] = pos' - Filled' + a
        OBVIOUS
      <4>1. a \in 0 .. (offset + n - 1)
        BY <2>3, <2>a
      <4>2. pos' - Filled' + a >= start
        BY <3>1
      <4> QED
        BY <2>4, <4>1, <4>2
    <3>3. \A a \in Filled' .. (sd'.ext.hi - 1) :
             pos' - Filled' - sd'.ext.hi + a >= start' =>
                 buffer'[a] = pos' - Filled' - sd'.ext.hi + a
      BY <2>3, <2>5, <3>1
    <3> QED
      BY <3>2, <3>3 DEF ContentsInv
  <2> QED
    BY <2>2, <2>6
<1>4. CASE offset = 0
  <2> DEFINE h == IF Filled > 0 THEN Filled ELSE 0
  <2>0. h = Filled /\ h \in 0 .. (Wrap + Block - 1)
    BY DEF ShapeInv, Filled
  <2>1. /\ sd'.prefix = [lo |-> 0, hi |-> n]
        /\ sd'.ext = [lo |-> 0, hi |-> Filled]
        /\ sd' = [prefix |-> sd'.prefix, ext |-> sd'.ext]
    BY <1>1, <1>4, HistoryAtFront DEF ShapeInv, Filled, NoSpan
  <2>2. ShapeInv'
    BY <1>1, <1>2, <1>4, <2>1, <2>0 DEF ShapeInv, Filled, Advanced
  <2>3. Filled' = n /\ sd'.ext.hi = Filled
    BY <2>1 DEF Filled
  <2>4. ASSUME NEW a \in 0 .. (n - 1), pos' - Filled' + a >= start
        PROVE  buffer'[a] = pos' - Filled' + a
    <3>1. a \in 0 .. (RingBytes - 1) /\ pos' - Filled' + a = pos + a
      BY <1>1, <2>3 DEF ShapeInv, RingBytes
    <3> QED
      BY <1>2, <1>4, <3>1 DEF ShapeInv
  <2>5. ASSUME NEW a \in n .. (Filled - 1),
               pos' - Filled' - Filled + a >= start
        PROVE  buffer'[a] = pos' - Filled' - Filled + a
    <3>1. /\ a \in 0 .. (RingBytes - 1) /\ a \in 0 .. (Filled - 1)
          /\ pos' - Filled' - Filled + a = pos - Filled + a
      BY <1>1, <2>0, <2>3 DEF ShapeInv, RingBytes
    <3>2. buffer[a] = pos - Filled + a
      BY <1>1, <2>5, <3>1 DEF ContentsInv
    <3> QED
      BY <1>2, <1>4, <3>1, <3>2
  <2>6. ContentsInv'
    BY <1>1, <2>3, <2>4, <2>5 DEF ContentsInv
  <2> QED
    BY <2>2, <2>6
<1> QED
  BY <1>3, <1>4 DEF ShapeInv

LEMMA InvRefuse ==
    ASSUME DecodeInv, NEW r \in Records, Refuse(r)
    PROVE  DecodeInv'
<1>1. /\ verdict' = "corrupt"
      /\ UNCHANGED <<offset, sd, pos, start>>
  BY DEF Refuse
<1>2. buffer' \in [0 .. (RingBytes - 1) -> Int]
  BY DEF Refuse, DecodeInv, ShapeInv
<1> QED
  BY <1>1, <1>2 DEF DecodeInv, ShapeInv, ContentsInv, Filled

(* A stream that begins has no bytes yet, wherever the ring stands.        *)
LEMMA InvOpen ==
    ASSUME DecodeInv, OpenStream \/ ResetRing
    PROVE  DecodeInv'
<1>1. /\ UNCHANGED <<buffer, sd, pos>>
      /\ start' = pos /\ verdict' = "open"
      /\ offset' = offset \/ offset' = 0
  BY DEF OpenStream, ResetRing, Decoder!Open
<1>2. ShapeInv'
  BY <1>1, DecodeRingAssumption DEF DecodeInv, ShapeInv, Filled
<1>3. ContentsInv'
  BY <1>1 DEF DecodeInv, ShapeInv, ContentsInv, Filled
<1> QED
  BY <1>2, <1>3 DEF DecodeInv

(* The invariant holds in every reachable state of the ring, whatever      *)
(* records it is handed and whenever its object is rewound.                *)
THEOREM DecodeInvariant == RingSpec => []DecodeInv
<1>1. DecodeInv /\ [RingNext]_ringVars => DecodeInv'
  <2> SUFFICES ASSUME DecodeInv, [RingNext]_ringVars PROVE DecodeInv'
    OBVIOUS
  <2>1. ASSUME NEW r \in Records, Decode(r) PROVE DecodeInv'
    BY <2>1, InvDecode
  <2>2. ASSUME NEW r \in Records, Refuse(r) PROVE DecodeInv'
    BY <2>2, InvRefuse
  <2>3. CASE OpenStream \/ ResetRing
    BY <2>3, InvOpen
  <2>4. CASE RefuseFraming
    BY <2>4 DEF RefuseFraming, Decoder!BadFraming, DecodeInv, ShapeInv, ContentsInv, Filled
  <2>5. CASE UNCHANGED ringVars
    BY <2>5 DEF ringVars, DecodeInv, ShapeInv, ContentsInv, Filled
  <2> QED
    BY <2>1, <2>2, <2>3, <2>4, <2>5 DEF RingNext
<1> QED
  BY InvInit, <1>1, PTL DEF RingSpec

-----------------------------------------------------------------------------
(* No block is decoded to where it could pass the end of the ring.         *)
THEOREM DecodeNoOverrun == RingSpec => []NoOverrun
<1>1. DecodeInv => NoOverrun
  BY DecodeRingAssumption DEF DecodeInv, ShapeInv, NoOverrun, RingBytes
<1> QED
  BY <1>1, DecodeInvariant, PTL

LEMMA DecodeHandles ==
    ASSUME DecodeInv, NEW r \in Records, InStream(r) \/ Fresh, Decode(r)
    PROVE  Decoder!Handle(r)
<1>1. r.ok /\ r.reach <= Available(sd, offset) /\ verdict = "open"
  BY DEF Decode, Decodable
<1>2. r.reach <= pos - start
  <2>1. r.reach \in Nat /\ Available(sd, offset) \in Nat /\ pos - start \in Int
    BY Sight, DecodeRingAssumption DEF Records, Decoder!Records, DecodeInv, ShapeInv
  <2> QED
    BY <1>1, <2>1 DEF InStream, Fresh
<1>3. [d \in 1 .. r.reach |-> Seen(buffer, sd, offset, pos, r.len, d)]
        = [d \in 1 .. r.reach |-> pos - d]
  BY <1>1, <1>2, SeenIsStream
<1> QED
  BY <1>1, <1>2, <1>3 DEF Decode, Decoder!Handle

LEMMA RefuseHandles ==
    ASSUME DecodeInv, NEW r \in Records, Refuse(r)
    PROVE  Decoder!Handle(r)
<1>1. verdict = "open" /\ ~(r.ok /\ r.reach <= Available(sd, offset))
  BY DEF Refuse, Decodable
<1>2. ~(r.ok /\ r.reach <= pos - start)
  <2>1. r.reach \in 0 .. Window
    BY DEF Records, Decoder!Records
  <2> QED
    BY <1>1, <2>1, Sight DEF DecodeInv
<1> QED
  BY <1>1, <1>2 DEF Refuse, Decoder!Handle

(* The classes' ring implements the abstract decoder: every record that    *)
(* stays in its stream decodes, to the bytes that precede it, whatever the *)
(* ring has wrapped over; no other does, as long as the ring remembers     *)
(* nothing older than the stream.                                          *)
THEOREM RingDecodes == RingSpec => Decodes
<1>1. RingInit => Decoder!DecoderInit
  BY DEF RingInit
<1>2. DecodeInv /\ [RingNext]_ringVars => [Decoder!DecoderNext]_(Decoder!decoderVars)
  <2> SUFFICES ASSUME DecodeInv, [RingNext]_ringVars
               PROVE  [Decoder!DecoderNext]_(Decoder!decoderVars)
    OBVIOUS
  <2>1. ASSUME NEW r \in Records, InStream(r) \/ Fresh, Decode(r) \/ Refuse(r)
        PROVE  Decoder!DecoderNext
    BY <2>1, DecodeHandles, RefuseHandles DEF Decoder!DecoderNext, Records
  <2>2. CASE OpenStream \/ ResetRing \/ RefuseFraming
    BY <2>2 DEF OpenStream, ResetRing, RefuseFraming, Decoder!DecoderNext
  <2>3. CASE UNCHANGED ringVars
    BY <2>3 DEF ringVars, Decoder!decoderVars
  <2> QED
    BY <2>1, <2>2, <2>3 DEF RingNext
<1> QED
  BY <1>1, <1>2, DecodeInvariant, PTL DEF RingSpec, Decodes, Decoder!DecoderSpec

-----------------------------------------------------------------------------
(* The classes step the ring: each of their steps is one of its steps, for *)
(* a record that stays in its stream unless streams may be damaged.        *)
RingStep ==
    \/ OpenStream \/ ResetRing \/ RefuseFraming
    \/ \E r \in Records :
          (Damaged \/ InStream(r) \/ Fresh) /\ (Decode(r) \/ Refuse(r))
    \/ UNCHANGED ringVars

LEMMA DataIsRing ==
    /\ Data!RingInit <=> RingInit
    /\ Data!OpenStream <=> OpenStream
    /\ Data!ResetRing <=> ResetRing
    /\ Data!RefuseFraming <=> RefuseFraming
    /\ \A r : Data!Decode(r) <=> Decode(r)
    /\ \A r : Data!Refuse(r) <=> Refuse(r)
    /\ \A r : Data!InStream(r) <=> InStream(r)
    /\ Data!Fresh <=> Fresh
    /\ Data!Records = Records
    /\ Data!ringVars = ringVars
BY DEF Data!RingInit, RingInit, Data!OpenStream, OpenStream, Data!ResetRing, ResetRing,
       Data!RefuseFraming, RefuseFraming, Data!Decode, Decode, Data!Refuse, Refuse,
       Data!InStream, InStream, Data!Fresh, Fresh, Data!Records, Records, Data!ringVars, ringVars,
       Data!Decoder!DecoderInit, Decoder!DecoderInit, Data!Decoder!Open, Decoder!Open,
       Data!Decoder!BadFraming, Decoder!BadFraming, Data!Decoder!NoRecord, Decoder!NoRecord,
       Data!Decoder!Records, Decoder!Records, Data!Decodable, Decodable,
       Data!Available, Available, Data!Seen, Seen, Data!CellAt, CellAt, Data!Before, Before,
       Data!HistoryAfter, HistoryAfter, Data!Written, Written, Data!Advanced, Advanced,
       Data!Size, Size, Data!Least, Least, Data!NoSpan, NoSpan, Data!NoHistory, NoHistory,
       Data!RingBytes, RingBytes

LEMMA FileIsRing ==
    /\ File!RingInit <=> RingInit
    /\ File!OpenStream <=> OpenStream
    /\ File!ResetRing <=> ResetRing
    /\ File!RefuseFraming <=> RefuseFraming
    /\ \A r : File!Decode(r) <=> Decode(r)
    /\ \A r : File!Refuse(r) <=> Refuse(r)
    /\ \A r : File!InStream(r) <=> InStream(r)
    /\ File!Fresh <=> Fresh
    /\ File!Records = Records
    /\ File!ringVars = ringVars
BY DEF File!RingInit, RingInit, File!OpenStream, OpenStream, File!ResetRing, ResetRing,
       File!RefuseFraming, RefuseFraming, File!Decode, Decode, File!Refuse, Refuse,
       File!InStream, InStream, File!Fresh, Fresh, File!Records, Records, File!ringVars, ringVars,
       File!Decoder!DecoderInit, Decoder!DecoderInit, File!Decoder!Open, Decoder!Open,
       File!Decoder!BadFraming, Decoder!BadFraming, File!Decoder!NoRecord, Decoder!NoRecord,
       File!Decoder!Records, Decoder!Records, File!Decodable, Decodable,
       File!Available, Available, File!Seen, Seen, File!CellAt, CellAt, File!Before, Before,
       File!HistoryAfter, HistoryAfter, File!Written, Written, File!Advanced, Advanced,
       File!Size, Size, File!Least, Least, File!NoSpan, NoSpan, File!NoHistory, NoHistory,
       File!RingBytes, RingBytes

LEMMA ClassStep ==
    ASSUME DataNext \/ FileNext
    PROVE  RingStep
<1>1. CASE DataNext
  <2>1. CASE Data!Begin
    BY <2>1, DataIsRing DEF Data!Begin, RingStep
  <2>2. CASE Data!EndOfData
    BY <2>2 DEF Data!EndOfData, RingStep, Data!ringVars, ringVars
  <2>3. CASE Data!ShortHeader \/ Data!Oversize
    BY <2>3, DataIsRing DEF Data!ShortHeader, Data!Oversize, RingStep
  <2>4. ASSUME NEW r \in Data!Records, Data!Record(r) PROVE RingStep
    BY <2>4, DataIsRing DEF Data!Record, RingStep
  <2>5. ASSUME NEW v \in Volumes, Data!Reset(v) PROVE RingStep
    BY <2>5, DataIsRing DEF Data!Reset, RingStep
  <2> QED
    BY <1>1, <2>1, <2>2, <2>3, <2>4, <2>5 DEF DataNext, Data!Next
<1>2. CASE FileNext
  <2>1. CASE File!Begin
    BY <2>1, FileIsRing DEF File!Begin, RingStep
  <2>2. CASE File!SeekFails \/ File!Increment \/ File!Refill \/ File!StillFull
             \/ File!HeaderWhole \/ File!BodyWhole
    BY <2>2, FileIsRing
       DEF File!SeekFails, File!Increment, File!Refill, File!StillFull, File!HeaderWhole,
           File!BodyWhole, File!ringVars, ringVars, RingStep
  <2>3. CASE File!HeaderStraddles \/ File!BodyStraddles \/ File!TooLong
    BY <2>3, FileIsRing
       DEF File!HeaderStraddles, File!BodyStraddles, File!TooLong, File!ringVars, ringVars, RingStep
  <2>4. ASSUME NEW r \in File!Records, File!DecodeRecord(r) PROVE RingStep
    BY <2>4, FileIsRing DEF File!DecodeRecord, RingStep
  <2>5. ASSUME NEW v \in Files, NEW n \in Limits, File!Reset(v, n) PROVE RingStep
    BY <2>5, FileIsRing DEF File!Reset, RingStep
  <2> QED
    BY <1>2, <2>1, <2>2, <2>3, <2>4, <2>5 DEF FileNext, File!Next, File!Step
<1> QED
  BY <1>1, <1>2

(* The blocks the abstract decoder has handed out, and its last record.    *)
OutType ==
    /\ last \in Records \cup {Decoder!NoRecord}
    /\ got \in Seq([len : 1 .. Block, refs : Seq(Int)])

LEMMA SeenType ==
    ASSUME ShapeInv, NEW r \in Records, NEW d \in 1 .. Available(sd, offset)
    PROVE  Seen(buffer, sd, offset, pos, r.len, d) \in Int
<1> DEFINE cell == CellAt(sd, offset, d)
<1>1. cell \in 0 .. (RingBytes - 1)
  <2>1. CASE offset > 0
    BY <2>1, BeforeInSegment, DecodeRingAssumption
       DEF Available, CellAt, Size, ShapeInv, Filled, RingBytes
  <2>2. CASE offset = 0 /\ Filled > 0
    BY <2>2, BeforeAtFront, DecodeRingAssumption
       DEF Available, CellAt, Size, ShapeInv, Filled, NoSpan, RingBytes
  <2>3. CASE offset = 0 /\ Filled = 0
    BY <2>3, BeforeAll DEF Available, Size, NoSpan
  <2> QED
    BY <2>1, <2>2, <2>3 DEF ShapeInv, Filled
<1>2. buffer[cell] \in Int
  BY <1>1 DEF ShapeInv
<1> HIDE DEF cell
<1>3. pos + (cell - offset) \in Int
  BY <1>1 DEF ShapeInv, RingBytes
<1> QED
  BY <1>2, <1>3 DEF Seen, cell

LEMMA OutDecode ==
    ASSUME DecodeInv, OutType, NEW r \in Records, Decode(r) \/ Refuse(r)
    PROVE  OutType'
<1>1. last' = r
  BY DEF Decode, Refuse
<1>2. CASE Refuse(r)
  BY <1>1, <1>2 DEF Refuse, OutType
<1>3. CASE Decode(r)
  <2> DEFINE R == [d \in 1 .. r.reach |-> Seen(buffer, sd, offset, pos, r.len, d)]
             g == [len |-> r.len, refs |-> R]
  <2>1. r.len \in 1 .. Block /\ r.reach \in Nat /\ r.reach <= Available(sd, offset)
    BY <1>3, DecodeRingAssumption DEF Decode, Decodable, Records, Decoder!Records
  <2>2. Available(sd, offset) \in Nat
    BY Sight DEF DecodeInv
  <2>3. \A d \in 1 .. r.reach : d \in 1 .. Available(sd, offset)
    BY <2>1, <2>2
  <2>4. R \in [1 .. r.reach -> Int]
    BY <2>3, SeenType DEF DecodeInv
  <2>5. g \in [len : 1 .. Block, refs : Seq(Int)]
    <3> HIDE DEF R
    <3> QED
      BY <2>1, <2>4
  <2>6. got' = Append(got, g)
    BY <1>3 DEF Decode
  <2> HIDE DEF g
  <2> QED
    BY <1>1, <2>5, <2>6 DEF OutType
<1> QED
  BY <1>2, <1>3

LEMMA ClassHolds ==
    ASSUME DecodeInv, OutType, RingStep
    PROVE  DecodeInv' /\ OutType'
<1>1. ASSUME NEW r \in Records, Decode(r) PROVE DecodeInv' /\ OutType'
  BY <1>1, InvDecode, OutDecode
<1>2. ASSUME NEW r \in Records, Refuse(r) PROVE DecodeInv' /\ OutType'
  BY <1>2, InvRefuse, OutDecode
<1>3. CASE OpenStream \/ ResetRing
  <2>1. last' = Decoder!NoRecord /\ got' = <<>>
    BY <1>3 DEF OpenStream, ResetRing, Decoder!Open
  <2> QED
    BY <1>3, <2>1, InvOpen DEF OutType
<1>4. CASE RefuseFraming
  BY <1>4 DEF RefuseFraming, Decoder!BadFraming, DecodeInv, ShapeInv, ContentsInv, Filled, OutType
<1>5. CASE UNCHANGED ringVars
  BY <1>5 DEF ringVars, DecodeInv, ShapeInv, ContentsInv, Filled, OutType
<1> QED
  BY <1>1, <1>2, <1>3, <1>4, <1>5 DEF RingStep

-----------------------------------------------------------------------------
(* A non-empty set of naturals has a least member.                         *)
LEMMA LeastOf ==
    ASSUME NEW T \in SUBSET Nat, T # {}
    PROVE  \E x \in T : \A y \in T : x <= y
<1> DEFINE R == {ss \in Nat \X Nat : ss[1] < ss[2]}
<1>1. IsWellFoundedOn(R, Nat)
  BY NatLessThanWellFounded DEF OpToRel
<1>2. PICK x \in T : \A y \in T : ~(<<y, x>> \in R)
  <2> HIDE DEF R
  <2> QED
    BY <1>1, WFMin
<1>3. \A y \in T : x <= y
  <2> TAKE y \in T
  <2>1. x \in Nat /\ y \in Nat
    OBVIOUS
  <2>2. ~(<<y, x>> \in R)
    BY <1>2
  <2>3. <<y, x>> \in R <=> y < x
    BY <2>1
  <2> QED
    BY <2>1, <2>2, <2>3
<1> QED
  BY <1>3

LEMMA Induction ==
    ASSUME NEW S, 0 \in S, \A n \in Nat : n \in S => n + 1 \in S
    PROVE  Nat \subseteq S
<1> DEFINE Bad == {n \in Nat : n \notin S}
<1>1. SUFFICES ASSUME Bad # {} PROVE FALSE
  OBVIOUS
<1>2. PICK n \in Bad : \A m \in Bad : n <= m
  BY <1>1, LeastOf
<1>3. n # 0 /\ n \in Nat
  OBVIOUS
<1>4. n - 1 \in Nat /\ n - 1 \notin Bad
  BY <1>2, <1>3
<1> QED
  BY <1>3, <1>4

Ends(v, i, f) ==
    f = [j \in 0 .. i |-> IF j = 0 THEN 0 ELSE f[j - 1] + Header + Claim(v, j)]

LEMMA EndsExist ==
    ASSUME NEW v, NEW i \in Nat
    PROVE  \E f : Ends(v, i, f)
<1> DEFINE S == {k \in Nat : \E f : Ends(v, k, f)}
<1>1. 0 \in S
  <2>1. Ends(v, 0, [j \in 0 .. 0 |-> 0])
    BY DEF Ends
  <2> QED
    BY <2>1
<1>2. ASSUME NEW k \in Nat, k \in S PROVE k + 1 \in S
  <2>1. PICK f : Ends(v, k, f)
    BY <1>2
  <2> DEFINE g == [j \in 0 .. (k + 1) |->
                     IF j <= k THEN f[j] ELSE f[k] + Header + Claim(v, k + 1)]
  <2>2. Ends(v, k + 1, g)
    <3> DEFINE h == [j \in 0 .. (k + 1) |-> IF j = 0 THEN 0 ELSE g[j - 1] + Header + Claim(v, j)]
    <3>1. ASSUME NEW j \in 0 .. (k + 1) PROVE g[j] = h[j]
      <4>1. CASE j = 0
        BY <2>1, <4>1 DEF Ends
      <4>2. CASE j # 0 /\ j <= k
        <5>1. j \in 0 .. k /\ j - 1 \in 0 .. k /\ j - 1 \in 0 .. (k + 1)
          BY <4>2
        <5>2. f[j] = f[j - 1] + Header + Claim(v, j)
          BY <2>1, <4>2, <5>1 DEF Ends
        <5> QED
          BY <4>2, <5>1, <5>2
      <4>3. CASE j = k + 1
        BY <4>3
      <4> QED
        BY <4>1, <4>2, <4>3
    <3> QED
      BY <3>1 DEF Ends
  <2> HIDE DEF g
  <2> QED
    BY <2>2
<1> HIDE DEF S
<1>3. Nat \subseteq S
  BY <1>1, <1>2, Induction
<1> QED
  BY <1>3 DEF S

LEMMA EndsAgree ==
    ASSUME NEW v, NEW i \in Nat, NEW k \in Nat, NEW f, NEW g,
           Ends(v, i, f), Ends(v, k, g), i <= k
    PROVE  f[i] = g[i]
<1> DEFINE S == {j \in Nat : j <= i => f[j] = g[j]}
<1>1. 0 \in S
  BY DEF Ends
<1>2. ASSUME NEW j \in Nat, j \in S PROVE j + 1 \in S
  <2>1. CASE j + 1 <= i
    <3>1. j + 1 \in 0 .. i /\ j + 1 \in 0 .. k /\ (j + 1) - 1 = j /\ j + 1 # 0 /\ j <= i
      BY <2>1
    <3>2. f[j + 1] = f[j] + Header + Claim(v, j + 1) /\ g[j + 1] = g[j] + Header + Claim(v, j + 1)
      BY <3>1 DEF Ends
    <3>3. f[j] = g[j]
      BY <1>2, <3>1
    <3> QED
      BY <3>2, <3>3
  <2> QED
    BY <2>1
<1> HIDE DEF S
<1>3. Nat \subseteq S
  BY <1>1, <1>2, Induction
<1> QED
  BY <1>3 DEF S

LEMMA EndOf ==
    ASSUME NEW v, NEW i \in Nat
    PROVE  \E f : Ends(v, i, f) /\ RecordEnd(v, i) = f[i]
<1> DEFINE e == CHOOSE f : Ends(v, i, f)
<1>1. Ends(v, i, e)
  BY EndsExist
<1>2. RecordEnd(v, i) = e[i]
  BY DEF RecordEnd, Ends
<1> QED
  BY <1>1, <1>2

LEMMA RecordEnds ==
    ASSUME NEW v
    PROVE  /\ RecordEnd(v, 0) = 0
           /\ \A i \in Nat : RecordEnd(v, i + 1) = RecordEnd(v, i) + Header + Claim(v, i + 1)
<1>1. RecordEnd(v, 0) = 0
  <2>1. PICK f : Ends(v, 0, f) /\ RecordEnd(v, 0) = f[0]
    BY EndOf
  <2> QED
    BY <2>1 DEF Ends
<1>2. ASSUME NEW i \in Nat
      PROVE  RecordEnd(v, i + 1) = RecordEnd(v, i) + Header + Claim(v, i + 1)
  <2>1. PICK f : Ends(v, i, f) /\ RecordEnd(v, i) = f[i]
    BY EndOf
  <2>2. PICK g : Ends(v, i + 1, g) /\ RecordEnd(v, i + 1) = g[i + 1]
    BY EndOf
  <2>3. f[i] = g[i]
    BY <2>1, <2>2, EndsAgree
  <2>4. g[i + 1] = g[(i + 1) - 1] + Header + Claim(v, i + 1)
    BY <2>2 DEF Ends
  <2> QED
    BY <2>1, <2>2, <2>3, <2>4
<1> QED
  BY <1>1, <1>2

LEMMA SameClaims ==
    ASSUME NEW v, NEW w, \A i : Claim(v, i) = Claim(w, i), NEW i \in Nat
    PROVE  RecordEnd(v, i) = RecordEnd(w, i)
<1>1. PICK f : Ends(v, i, f) /\ RecordEnd(v, i) = f[i]
  BY EndOf
<1>2. PICK g : Ends(w, i, g) /\ RecordEnd(w, i) = g[i]
  BY EndOf
<1>3. Ends(v, i, g)
  BY <1>2 DEF Ends
<1>4. f[i] = g[i]
  BY <1>1, <1>3, EndsAgree
<1> QED
  BY <1>1, <1>2, <1>4

(* What a decoder can be handed.                                           *)
Streams == [size : Nat, claims : Seq(Nat)]

LEMMA ClaimType ==
    ASSUME NEW v \in Streams, NEW i
    PROVE  Claim(v, i) \in Nat
BY DEF Streams, Claim

(* Every record takes its header at least.                                 *)
LEMMA EndsGrow ==
    ASSUME NEW v \in Streams, NEW i \in Nat
    PROVE  RecordEnd(v, i) \in Nat /\ RecordEnd(v, i) >= i
<1> DEFINE S == {k \in Nat : RecordEnd(v, k) \in Nat /\ RecordEnd(v, k) >= k}
<1>1. 0 \in S
  BY RecordEnds
<1>2. ASSUME NEW k \in Nat, k \in S PROVE k + 1 \in S
  <2>1. RecordEnd(v, k + 1) = RecordEnd(v, k) + Header + Claim(v, k + 1)
    BY RecordEnds
  <2> QED
    BY <1>2, <2>1, ClaimType, DecompressAssumption
<1> HIDE DEF S
<1>3. Nat \subseteq S
  BY <1>1, <1>2, Induction
<1> QED
  BY <1>3 DEF S

(* The header walk stops at the first record that is not framed, which it  *)
(* reaches since the stream ends.                                          *)
LEMMA WalkStops ==
    ASSUME NEW v \in Streams
    PROVE  /\ WalkBlocks(v) \in Nat
           /\ \A i \in 1 .. WalkBlocks(v) : Framed(v, i)
           /\ ~Framed(v, WalkBlocks(v) + 1)
<1> DEFINE T == {k \in Nat : ~Framed(v, k + 1)}
<1>1. v.size \in Nat
  BY DEF Streams
<1>2. v.size \in T
  <2>1. RecordEnd(v, v.size) \in Nat /\ RecordEnd(v, v.size) >= v.size
    BY <1>1, EndsGrow
  <2>2. ~(Header <= v.size - RecordEnd(v, (v.size + 1) - 1))
    <3>1. (v.size + 1) - 1 = v.size
      BY <1>1
    <3> QED
      BY <1>1, <2>1, <3>1, DecompressAssumption
  <2> QED
    BY <1>1, <2>2 DEF Framed, FitsHeader
<1>3. PICK k \in T : \A j \in T : k <= j
  BY <1>2, LeastOf
<1>4. k \in 0 .. v.size
  BY <1>1, <1>2, <1>3
<1>5. ASSUME NEW i \in 1 .. k PROVE Framed(v, i)
  <2>1. i - 1 \in Nat /\ i - 1 < k /\ (i - 1) + 1 = i
    BY <1>4
  <2>2. i - 1 \notin T
    BY <1>3, <1>4, <2>1
  <2> QED
    BY <2>1, <2>2
<1>6. \E n \in 0 .. v.size : (\A i \in 1 .. n : Framed(v, i)) /\ ~Framed(v, n + 1)
  BY <1>3, <1>4, <1>5
<1>7. /\ WalkBlocks(v) \in 0 .. v.size
      /\ (\A i \in 1 .. WalkBlocks(v) : Framed(v, i)) /\ ~Framed(v, WalkBlocks(v) + 1)
  BY <1>6 DEF WalkBlocks
<1> QED
  BY <1>1, <1>7

(* Whoever stops there has found the same records.                         *)
LEMMA WalkIs ==
    ASSUME NEW v \in Streams, NEW n \in Nat,
           \A i \in 1 .. n : Framed(v, i), ~Framed(v, n + 1)
    PROVE  WalkBlocks(v) = n
<1>1. WalkBlocks(v) \in Nat
  BY WalkStops
<1>2. ~(WalkBlocks(v) < n)
  <2>1. SUFFICES ASSUME WalkBlocks(v) < n PROVE FALSE
    OBVIOUS
  <2>2. WalkBlocks(v) + 1 \in 1 .. n
    BY <1>1, <2>1
  <2> QED
    BY <2>2, WalkStops
<1>3. ~(n < WalkBlocks(v))
  <2>1. SUFFICES ASSUME n < WalkBlocks(v) PROVE FALSE
    OBVIOUS
  <2>2. n + 1 \in 1 .. WalkBlocks(v)
    BY <1>1, <2>1
  <2> QED
    BY <2>2, WalkStops
<1> QED
  BY <1>1, <1>2, <1>3

-----------------------------------------------------------------------------
(* decompress_lz4 shares the codec and its memory is its own.              *)
LEMMA CallIsCodec ==
    /\ \A s, dst : OneShot!Available(s, dst) = Available(s, dst)
    /\ \A s, dst, n : OneShot!HistoryAfter(s, dst, n) = HistoryAfter(s, dst, n)
    /\ \A m, dst, from, n : OneShot!Written(m, dst, from, n) = Written(m, dst, from, n)
    /\ \A m, s, dst, from, n, d :
          OneShot!Seen(m, s, dst, from, n, d) = Seen(m, s, dst, from, n, d)
    /\ \A x, y : OneShot!Least(x, y) = Least(x, y)
    /\ OneShot!NoHistory = NoHistory
    /\ OneShot!Records = Records
    /\ OneShot!Decoder!Open <=> Decoder!Open
    /\ OneShot!Decoder!BadFraming <=> Decoder!BadFraming
    /\ OneShot!Decoder!DecoderInit <=> Decoder!DecoderInit
    /\ \A v : OneShot!WalkBlocks(v) = WalkBlocks(v)
    /\ \A v : OneShot!WalkBroken(v) = WalkBroken(v)
<1>1. \A v, i : OneShot!RecordEnd(v, i) = RecordEnd(v, i)
  BY DEF OneShot!RecordEnd, RecordEnd, OneShot!Claim, Claim
<1>2. \A v, i : OneShot!Framed(v, i) <=> Framed(v, i)
  BY <1>1 DEF OneShot!Framed, Framed, OneShot!FitsHeader, FitsHeader, OneShot!FitsBody, FitsBody,
              OneShot!Claim, Claim
<1>3. \A v : OneShot!WalkBlocks(v) = WalkBlocks(v)
  BY <1>2 DEF OneShot!WalkBlocks, WalkBlocks
<1>4. \A v : OneShot!WalkBroken(v) = WalkBroken(v)
  BY <1>1, <1>3 DEF OneShot!WalkBroken, WalkBroken
<1> QED
  BY <1>3, <1>4
     DEF OneShot!Available, Available, OneShot!HistoryAfter, HistoryAfter, OneShot!Written, Written,
         OneShot!Seen, Seen, OneShot!CellAt, CellAt, OneShot!Before, Before, OneShot!Size, Size,
         OneShot!Least, Least, OneShot!NoHistory, NoHistory, OneShot!NoSpan, NoSpan,
         OneShot!Records, Records, OneShot!Decoder!Records, Decoder!Records,
         OneShot!Decoder!Open, Decoder!Open, OneShot!Decoder!BadFraming, Decoder!BadFraming,
         OneShot!Decoder!DecoderInit, Decoder!DecoderInit,
         OneShot!Decoder!NoRecord, Decoder!NoRecord

(* Where the next block goes, in a segment from Front on, and what of the  *)
(* last segment the decoder still has.                                     *)
RingAt == OneShot!RingAt
MemoryEnd == RingAt + RingBytes

Front == IF pc = "direct" THEN 0 ELSE RingAt
Place == IF pc = "direct" THEN total ELSE RingAt + roff
LastSegment == Before(sd, Place).ext

(* A segment that a block was put behind: the scratch memory or the ring.  *)
Ended(s) ==
    \/ s.lo = 0 /\ s.hi \in Wrap .. (Wrap + Block - 1)
    \/ s.lo = RingAt /\ s.hi \in (RingAt + Wrap) .. (RingAt + Wrap + Block - 1)

MemoryShape ==
    /\ mem \in [0 .. (MemoryEnd - 1) -> Int]
    /\ pos \in Nat /\ start \in Nat /\ start <= pos
    /\ total \in 0 .. (Wrap + Block - 1) /\ roff \in 0 .. (Wrap - 1)
    /\ sd \in [prefix : [lo : Nat, hi : Nat], ext : [lo : Nat, hi : Nat]]
    /\ pc \in {"idle", "direct", "ring"}

(* A call's decoder has the whole segment it is in and, in the ring, the   *)
(* whole segment before: at least a window of its stream.                  *)
HistoryShape ==
    /\ LastSegment \in [lo : Nat, hi : Nat]
    /\ Before(sd, Place) = [prefix |-> [lo |-> Front, hi |-> Place], ext |-> LastSegment]
    /\ pc = "direct" => LastSegment = NoSpan /\ pos - start = total
    /\ pc = "ring" => Ended(LastSegment) /\ pos - start >= roff + Size(LastSegment)

HistoryContents ==
    /\ \A a \in Front .. (Place - 1) : mem[a] = pos - Place + a
    /\ \A a \in LastSegment.lo .. (LastSegment.hi - 1) :
          a < Front \/ a >= Place =>
              mem[a] = pos - (Place - Front) - LastSegment.hi + a

MemoryInv == MemoryShape /\ (pc # "idle" => HistoryShape /\ HistoryContents)

LEMMA CallSight ==
    ASSUME MemoryShape, HistoryShape, pc # "idle"
    PROVE  /\ Available(sd, Place) \in Nat
           /\ Available(sd, Place) <= pos - start
           /\ pc = "direct" => Available(sd, Place) = pos - start
           /\ Available(sd, Place) >= Window \/ Available(sd, Place) = pos - start
<1> USE DecodeRingAssumption
<1>1. CASE pc = "direct"
  BY <1>1 DEF Available, Size, NoSpan, MemoryShape, HistoryShape, Front, Place
<1>2. CASE pc = "ring"
  <2>1. Available(sd, Place) = roff + Size(LastSegment)
    BY <1>2 DEF Available, Size, MemoryShape, HistoryShape, Front, Place, RingAt,
                OneShot!RingAt, OneShot!contiguous_capacity
  <2>2. Size(LastSegment) \in Nat /\ Size(LastSegment) >= Wrap
    BY <1>2 DEF HistoryShape, Ended, Size, RingAt, OneShot!RingAt, OneShot!contiguous_capacity
  <2> HIDE DEF LastSegment
  <2> QED
    BY <1>2, <2>1, <2>2 DEF MemoryShape, HistoryShape
<1> QED
  BY <1>1, <1>2 DEF MemoryShape

(* A match of a call sees the bytes of the stream that precede its block.  *)
LEMMA CallSeen ==
    ASSUME MemoryShape, HistoryShape, HistoryContents, pc # "idle",
           NEW r \in Records, NEW d \in 1 .. r.reach, r.reach <= Available(sd, Place)
    PROVE  Seen(mem, sd, Place, pos, r.len, d) = pos - d
<1> USE DecodeRingAssumption
<1> DEFINE m == Least(r.len - 1, Window - d)
           cell == CellAt(sd, Place, d)
           L == LastSegment
<1>1. /\ d \in Nat /\ 1 <= d /\ d <= Window /\ d <= Available(sd, Place)
      /\ r.len \in Nat /\ 1 <= r.len
  <2>1. r.len \in 1 .. Block /\ r.reach \in 0 .. Window
    BY DEF Records, Decoder!Records
  <2>2. Available(sd, Place) \in Nat
    BY CallSight
  <2> QED
    BY <2>1, <2>2
<1>2. m \in Int /\ m <= Window - d
  BY <1>1 DEF Least
<1>3. SUFFICES /\ cell \in Int
               /\ cell < Place \/ cell > Place + m - 1
               /\ mem[cell] = pos - d
  <2>1. Place \in Int
    BY DEF Place, MemoryShape, RingAt, OneShot!RingAt, OneShot!contiguous_capacity
  <2> HIDE DEF m, cell
  <2>2. cell \notin Place .. (Place + m - 1)
    BY <1>2, <2>1
  <2> QED
    BY <2>2 DEF Seen, m, cell
<1>4. Place \in Nat /\ Front \in Nat /\ Front <= Place /\ RingAt = Wrap + Block + 1
  BY DEF Place, Front, MemoryShape, RingAt, OneShot!RingAt, OneShot!contiguous_capacity
<1>5. Size([lo |-> Front, hi |-> Place]) = Place - Front
  BY DEF Size
<1>6. CASE d <= Place - Front
  <2>1. cell = Place - d
    BY <1>5, <1>6 DEF CellAt, HistoryShape
  <2>2. cell \in Front .. (Place - 1)
    BY <1>1, <1>4, <1>6, <2>1
  <2>3. mem[cell] = pos - Place + cell
    BY <2>2 DEF HistoryContents
  <2> HIDE DEF cell
  <2>4. pos \in Nat
    BY DEF MemoryShape
  <2> QED
    BY <1>1, <1>4, <2>1, <2>2, <2>3, <2>4
<1>7. CASE d > Place - Front
  <2>1. cell = L.hi - (d - (Place - Front))
    BY <1>4, <1>5, <1>7, <1>1 DEF CellAt, HistoryShape
  <2>2. pc = "ring"
    BY <1>1, <1>7, CallSight DEF MemoryShape, HistoryShape, Place, Front
  <2>3. Place - Front = roff /\ Place = RingAt + roff /\ Front = RingAt /\ roff \in Nat
    BY <1>4, <2>2 DEF Place, Front, MemoryShape
  <2>4. Ended(L) /\ L \in [lo : Nat, hi : Nat]
    BY <2>2 DEF HistoryShape
  <2>5. L.lo \in Nat /\ L.hi \in Nat /\ L.lo + Wrap <= L.hi
    BY <1>4, <2>4 DEF Ended
  <2> HIDE DEF L, cell, m
  <2>6. cell \in L.lo .. (L.hi - 1)
    BY <1>1, <1>7, <2>1, <2>3, <2>5
  <2>7. cell < Front \/ (cell >= Place /\ cell > Place + m - 1)
    BY <1>1, <1>2, <1>4, <2>1, <2>3, <2>4, <2>6 DEF Ended
  <2>8. mem[cell] = pos - (Place - Front) - L.hi + cell
    <3>1. cell < Front \/ cell >= Place
      BY <2>7
    <3> QED
      BY <2>6, <3>1 DEF HistoryContents, L
  <2>9. pos \in Nat
    BY DEF MemoryShape
  <2>10. pos - (Place - Front) - L.hi + cell = pos - d
    BY <1>1, <2>1, <2>3, <2>5, <2>9
  <2>11. cell < Place \/ cell > Place + m - 1
    BY <2>3, <2>6, <2>7, <1>4, <2>5
  <2> QED
    BY <2>6, <2>8, <2>10, <2>11, <2>5 DEF cell
<1> QED
  BY <1>4, <1>6, <1>7, <1>1

LEMMA SegmentInMemory ==
    ASSUME MemoryShape, HistoryShape, pc # "idle"
    PROVE  LastSegment.lo \in Nat /\ LastSegment.hi \in Nat /\ LastSegment.hi <= MemoryEnd
<1>1. MemoryEnd = Wrap + Block + 1 + Wrap + Block /\ RingAt = Wrap + Block + 1
  BY DecodeRingAssumption DEF MemoryEnd, RingBytes, RingAt, OneShot!RingAt, OneShot!contiguous_capacity
<1>2. CASE pc = "direct"
  BY <1>1, <1>2, DecodeRingAssumption DEF HistoryShape, NoSpan
<1>3. CASE pc = "ring"
  BY <1>1, <1>3, DecodeRingAssumption DEF HistoryShape, Ended
<1> QED
  BY <1>2, <1>3 DEF MemoryShape

(* A block put behind the last one extends the segment it is in.           *)
LEMMA CallExtends ==
    ASSUME MemoryInv, pc # "idle", NEW n \in 1 .. Block,
           mem' = Written(mem, Place, pos, n), sd' = HistoryAfter(sd, Place, n),
           pos' = pos + n, start' = start, pc' = pc,
           Place' = Place + n, Front' = Front,
           \/ pc = "direct" /\ total < Wrap /\ total' = total + n /\ roff' = roff
           \/ pc = "ring" /\ roff + n < Wrap /\ roff' = roff + n /\ total' = total
    PROVE  MemoryInv'
<1> USE DecodeRingAssumption
<1> DEFINE L == LastSegment
<1>1. /\ HistoryShape /\ HistoryContents /\ MemoryShape
      /\ Place \in Nat /\ Front \in Nat /\ Front <= Place /\ RingAt = Wrap + Block + 1
      /\ L \in [lo : Nat, hi : Nat] /\ n \in Nat /\ n > 0
      /\ Place + n <= MemoryEnd /\ MemoryEnd \in Nat /\ pos \in Nat
  BY DEF MemoryInv, MemoryShape, HistoryShape, Place, Front, RingAt, OneShot!RingAt,
         OneShot!contiguous_capacity, MemoryEnd, RingBytes
<1>2. /\ mem' \in [0 .. (MemoryEnd - 1) -> Int]
      /\ \A a \in 0 .. (MemoryEnd - 1) :
            mem'[a] = IF a >= Place /\ a < Place + n THEN pos + (a - Place) ELSE mem[a]
  BY <1>1 DEF Written, MemoryShape
<1>3. sd' = [prefix |-> [lo |-> Front, hi |-> Place + n], ext |-> L]
  BY <1>1 DEF HistoryAfter, HistoryShape
<1>4. sd' \in [prefix : [lo : Nat, hi : Nat], ext : [lo : Nat, hi : Nat]]
  <2> HIDE DEF L
  <2> QED
    BY <1>1, <1>3
<1>5. Before(sd', Place') = [prefix |-> [lo |-> Front, hi |-> Place + n], ext |-> L]
  <2> HIDE DEF L
  <2> QED
    BY <1>1, <1>3 DEF Before, Size
<1>6. LastSegment' = L
  BY <1>5 DEF LastSegment
<1>7. MemoryShape'
  <2>1. total' \in 0 .. (Wrap + Block - 1) /\ roff' \in 0 .. (Wrap - 1)
    BY <1>1 DEF MemoryShape
  <2>2. pos' \in Nat /\ start' \in Nat /\ start' <= pos'
    BY <1>1 DEF MemoryShape
  <2>3. MemoryEnd' = MemoryEnd /\ pc' \in {"idle", "direct", "ring"}
    BY <1>1 DEF MemoryShape, MemoryEnd, RingBytes, RingAt, OneShot!RingAt,
                OneShot!contiguous_capacity
  <2> QED
    BY <1>2, <1>4, <2>1, <2>2, <2>3 DEF MemoryShape
<1>8. HistoryShape'
  <2>1. CASE pc = "direct"
    BY <1>1, <1>5, <1>6, <2>1 DEF HistoryShape, MemoryShape, Place, Front
  <2>2. CASE pc = "ring"
    <3>1. Ended(L) /\ pos - start >= roff + Size(L)
      BY <1>1, <2>2 DEF HistoryShape
    <3>2. Ended(L)' /\ Size(L) \in Int /\ start \in Nat
      BY <1>1, <1>6, <3>1 DEF Ended, MemoryShape, Size
    <3>3. pos' - start' >= roff' + Size(LastSegment')
      BY <1>1, <1>6, <2>2, <3>1, <3>2 DEF MemoryShape
    <3>4. Ended(LastSegment')
      BY <1>6, <3>1
    <3>5. Before(sd', Place') = [prefix |-> [lo |-> Front', hi |-> Place'], ext |-> LastSegment']
      BY <1>5, <1>6
    <3> QED
      BY <1>1, <1>6, <2>2, <3>3, <3>4, <3>5 DEF HistoryShape, Ended, RingAt, OneShot!RingAt,
         OneShot!contiguous_capacity, Size
  <2> QED
    BY <1>1, <2>1, <2>2 DEF MemoryShape
<1>9. HistoryContents'
  <2>1. ASSUME NEW a \in Front .. (Place + n - 1)
        PROVE  mem'[a] = pos - Place + a
    <3>1. a \in 0 .. (MemoryEnd - 1)
      BY <1>1
    <3>2. CASE a >= Place
      BY <1>1, <1>2, <3>1, <3>2
    <3>3. CASE a < Place
      <4>1. mem[a] = pos - Place + a
        BY <1>1, <3>3 DEF HistoryContents
      <4> QED
        BY <1>1, <1>2, <3>1, <3>3, <4>1
    <3> QED
      BY <1>1, <3>2, <3>3
  <2>2. ASSUME NEW a \in L.lo .. (L.hi - 1), a < Front \/ a >= Place + n
        PROVE  mem'[a] = pos - (Place - Front) - L.hi + a
    <3>1. mem[a] = pos - (Place - Front) - L.hi + a
      BY <1>1, <2>2 DEF HistoryContents
    <3>2. a \in 0 .. (MemoryEnd - 1)
      <4>1. L.lo \in Nat /\ L.hi \in Nat /\ L.hi <= MemoryEnd
        BY <1>1, SegmentInMemory
      <4> QED
        BY <1>1, <2>2, <4>1
    <3>3. ~(a >= Place /\ a < Place + n)
      BY <1>1, <2>2
    <3> QED
      BY <1>2, <3>1, <3>2, <3>3
  <2>3. \A a \in Front' .. (Place' - 1) : mem'[a] = pos' - Place' + a
    <3> TAKE a \in Front' .. (Place' - 1)
    <3>1. a \in Front .. (Place + n - 1)
      BY <1>1
    <3>2. mem'[a] = pos - Place + a
      BY <2>1, <3>1
    <3> QED
      BY <1>1, <3>2
  <2>4. \A a \in LastSegment'.lo .. (LastSegment'.hi - 1) :
           a < Front' \/ a >= Place' =>
               mem'[a] = pos' - (Place' - Front') - LastSegment'.hi + a
    <3> SUFFICES ASSUME NEW a \in LastSegment'.lo .. (LastSegment'.hi - 1),
                        a < Front' \/ a >= Place'
                 PROVE  mem'[a] = pos' - (Place' - Front') - LastSegment'.hi + a
      OBVIOUS
    <3>1. mem'[a] = pos - (Place - Front) - L.hi + a
      BY <1>6, <2>2
    <3>2. a \in Int /\ L.hi \in Nat
      BY <1>1, <1>6
    <3> HIDE DEF L
    <3> QED
      BY <1>1, <1>6, <3>1, <3>2
  <2> QED
    BY <2>3, <2>4 DEF HistoryContents
<1> QED
  BY <1>7, <1>8, <1>9 DEF MemoryInv

(* A segment that has ended is the whole history of a block at the ring's  *)
(* front.                                                                  *)
LEMMA CallTurns ==
    ASSUME MemoryShape', roff' = 0, pc' = "ring", NEW s, NEW x,
           s \in [lo : Nat, hi : Nat], Ended(s),
           x \in [lo : Nat, hi : Nat], sd' = [prefix |-> s, ext |-> x],
           pos' - start' >= s.hi - s.lo,
           \A a \in s.lo .. (s.hi - 1) : mem'[a] = pos' - s.hi + a
    PROVE  MemoryInv'
<1> USE DecodeRingAssumption
<1>1. /\ RingAt = Wrap + Block + 1
      /\ RingAt' = RingAt /\ RingAt \in Nat
  BY DEF RingAt, OneShot!RingAt, OneShot!contiguous_capacity
<1>2. Place' = RingAt /\ Front' = RingAt
  BY <1>1 DEF Place, Front
<1>3. s.hi # RingAt /\ s.hi - s.lo > 0 /\ s.lo \in Nat /\ s.hi \in Nat
  BY <1>1 DEF Ended
<1>4. Before(sd', Place') = [prefix |-> [lo |-> RingAt, hi |-> RingAt], ext |-> s]
  BY <1>2, <1>3 DEF Before, Size
<1>5. LastSegment' = s
  BY <1>4 DEF LastSegment
<1>6. HistoryShape'
  <2>1. Ended(s)' /\ Size(s)' = s.hi - s.lo
    BY <1>1 DEF Ended, Size
  <2>2. pos' - start' >= roff' + Size(s)'
    BY <1>3, <2>1
  <2>3. Ended(LastSegment)' /\ (pos - start >= roff + Size(LastSegment))'
    BY <1>5, <2>1, <2>2 DEF Ended, Size
  <2> QED
    BY <1>2, <1>4, <1>5, <2>3 DEF HistoryShape
<1>7. HistoryContents'
  <2>1. \A a \in Front' .. (Place' - 1) : mem'[a] = pos' - Place' + a
    BY <1>1, <1>2
  <2>2. \A a \in s.lo .. (s.hi - 1) : mem'[a] = pos' - (Place' - Front') - s.hi + a
    <3>1. pos' \in Nat
      BY DEF MemoryShape
    <3> QED
      BY <1>1, <1>2, <1>3, <3>1
  <2> QED
    BY <1>5, <2>1, <2>2 DEF HistoryContents
<1> QED
  BY <1>6, <1>7 DEF MemoryInv

LEMMA CallWraps ==
    ASSUME MemoryInv, pc = "ring", NEW n \in 1 .. Block,
           mem' = Written(mem, Place, pos, n), sd' = HistoryAfter(sd, Place, n),
           pos' = pos + n, start' = start, pc' = pc,
           roff + n >= Wrap, roff' = 0, total' = total
    PROVE  MemoryInv'
<1> USE DecodeRingAssumption
<1> DEFINE L == LastSegment
           s == [lo |-> RingAt, hi |-> RingAt + roff + n]
<1>1. /\ HistoryShape /\ HistoryContents /\ MemoryShape
      /\ Place = RingAt + roff /\ Front = RingAt
      /\ RingAt = Wrap + Block + 1 /\ MemoryEnd = RingAt + Wrap + Block
      /\ L \in [lo : Nat, hi : Nat] /\ n \in 1 .. Block
      /\ pos \in Nat /\ start \in Nat /\ start <= pos /\ roff \in 0 .. (Wrap - 1)
  BY DEF MemoryInv, MemoryShape, HistoryShape, Place, Front, RingAt, OneShot!RingAt,
         OneShot!contiguous_capacity, MemoryEnd, RingBytes
<1>2. /\ mem' \in [0 .. (MemoryEnd - 1) -> Int]
      /\ \A a \in 0 .. (MemoryEnd - 1) :
            mem'[a] = IF a >= Place /\ a < Place + n THEN pos + (a - Place) ELSE mem[a]
  BY <1>1 DEF Written, MemoryShape
<1>3. sd' = [prefix |-> s, ext |-> L]
  BY <1>1 DEF HistoryAfter, HistoryShape
<1>4. s \in [lo : Nat, hi : Nat] /\ Ended(s)
  BY <1>1 DEF Ended
<1>5. MemoryShape'
  <2>1. sd' \in [prefix : [lo : Nat, hi : Nat], ext : [lo : Nat, hi : Nat]]
    <3> HIDE DEF L, s
    <3> QED
      BY <1>1, <1>3, <1>4
  <2>2. MemoryEnd' = MemoryEnd
    BY DEF MemoryEnd, RingBytes, RingAt, OneShot!RingAt, OneShot!contiguous_capacity
  <2>3. total' \in 0 .. (Wrap + Block - 1) /\ roff' \in 0 .. (Wrap - 1)
    BY <1>1 DEF MemoryShape
  <2> QED
    BY <1>1, <1>2, <2>1, <2>2, <2>3 DEF MemoryShape
<1>6. ASSUME NEW a \in RingAt .. (RingAt + roff + n - 1)
      PROVE  mem'[a] = pos' - (RingAt + roff + n) + a
  <2>1. a \in 0 .. (MemoryEnd - 1)
    BY <1>1
  <2>2. CASE a >= Place
    BY <1>1, <1>2, <2>1, <2>2
  <2>3. CASE a < Place
    <3>1. mem[a] = pos - Place + a
      BY <1>1, <2>3 DEF HistoryContents
    <3> QED
      BY <1>1, <1>2, <2>1, <2>3, <3>1
  <2> QED
    BY <1>1, <2>2, <2>3
<1>7. pos - start >= roff
  <2>1. Size(L) \in Nat
    BY <1>1 DEF HistoryShape, Ended, Size
  <2>2. pos - start >= roff + Size(L)
    BY <1>1 DEF HistoryShape
  <2> HIDE DEF L
  <2> QED
    BY <1>1, <2>1, <2>2
<1>8. pos' - start' >= s.hi - s.lo
  BY <1>1, <1>7
<1>9. \A a \in s.lo .. (s.hi - 1) : mem'[a] = pos' - s.hi + a
  <2>1. s.lo = RingAt /\ s.hi = RingAt + roff + n
    OBVIOUS
  <2> HIDE DEF s
  <2> TAKE a \in s.lo .. (s.hi - 1)
  <2>2. a \in RingAt .. (RingAt + roff + n - 1)
    BY <1>1, <2>1
  <2>3. mem'[a] = pos' - (RingAt + roff + n) + a
    BY <1>6, <2>2
  <2> QED
    BY <2>1, <2>3
<1> HIDE DEF s, L
<1> QED
  BY <1>1, <1>3, <1>4, <1>5, <1>8, <1>9, CallTurns

LEMMA CallStartsRing ==
    ASSUME MemoryInv, pc = "direct", total >= Wrap,
           pc' = "ring", roff' = 0, UNCHANGED <<mem, sd, pos, start, total>>
    PROVE  MemoryInv'
<1> USE DecodeRingAssumption
<1> DEFINE s == [lo |-> 0, hi |-> total]
<1>1. /\ HistoryShape /\ HistoryContents /\ MemoryShape
      /\ Place = total /\ Front = 0
      /\ pos \in Nat /\ start \in Nat /\ pos - start = total
      /\ total \in Wrap .. (Wrap + Block - 1)
  BY DEF MemoryInv, MemoryShape, HistoryShape, Place, Front
<1>2. MemoryShape'
  BY <1>1 DEF MemoryShape, MemoryEnd, RingBytes, RingAt, OneShot!RingAt,
              OneShot!contiguous_capacity
<1>3. sd' = [prefix |-> s, ext |-> NoSpan]
  BY <1>1 DEF HistoryShape, Before, Size, MemoryShape, NoSpan
<1>4. s \in [lo : Nat, hi : Nat] /\ Ended(s) /\ NoSpan \in [lo : Nat, hi : Nat]
  BY <1>1 DEF Ended, NoSpan
<1>5. \A a \in s.lo .. (s.hi - 1) : mem'[a] = pos' - s.hi + a
  BY <1>1 DEF HistoryContents
<1>6. pos' - start' >= s.hi - s.lo
  BY <1>1
<1> HIDE DEF s
<1> QED
  BY <1>2, <1>3, <1>4, <1>5, <1>6, CallTurns

(* A call starts from nothing.                                             *)
LEMMA CallBegins ==
    ASSUME MemoryInv, pc' = "direct", mem' = OneShot!Blank, sd' = NoHistory,
           pos' = pos, start' = pos, total' = 0, roff' = 0
    PROVE  MemoryInv'
<1> USE DecodeRingAssumption
<1>1. pos \in Nat
  BY DEF MemoryInv, MemoryShape
<1>2. OneShot!Blank \in [0 .. (MemoryEnd - 1) -> Int]
  BY DEF OneShot!Blank, MemoryEnd, RingAt, RingBytes, OneShot!RingBytes, OneShot!RingAt,
         OneShot!contiguous_capacity
<1>3. MemoryEnd' = MemoryEnd /\ Place' = 0 /\ Front' = 0
  BY DEF MemoryEnd, RingBytes, RingAt, OneShot!RingAt, OneShot!contiguous_capacity, Place, Front
<1>4. MemoryShape'
  BY <1>1, <1>2, <1>3 DEF MemoryShape, NoHistory, NoSpan
<1>5. Before(sd', Place') = [prefix |-> [lo |-> 0, hi |-> 0], ext |-> NoSpan]
  BY <1>3 DEF Before, NoHistory, NoSpan, Size
<1>6. LastSegment' = NoSpan
  BY <1>5 DEF LastSegment
<1>7. HistoryShape'
  BY <1>1, <1>3, <1>5, <1>6 DEF HistoryShape, NoSpan
<1>8. HistoryContents'
  BY <1>3, <1>6 DEF HistoryContents, NoSpan
<1> QED
  BY <1>4, <1>7, <1>8 DEF MemoryInv

LEMMA CallRests ==
    ASSUME MemoryInv, pc' = "idle" \/ pc' = pc, UNCHANGED <<mem, sd, pos, start, total, roff>>
    PROVE  MemoryInv'
<1>1. MemoryShape'
  BY DEF MemoryInv, MemoryShape, MemoryEnd, RingBytes, RingAt, OneShot!RingAt,
         OneShot!contiguous_capacity
<1>2. CASE pc' = pc
  BY <1>1, <1>2 DEF MemoryInv, HistoryShape, HistoryContents, LastSegment, Place, Front, Ended,
     RingAt, OneShot!RingAt, OneShot!contiguous_capacity
<1>3. CASE pc' = "idle"
  BY <1>1, <1>3 DEF MemoryInv
<1> QED
  BY <1>2, <1>3

(* What else a call keeps, and how it adds up.                             *)
CallType ==
    /\ volume \in Volumes
    /\ blocks \in Nat /\ framing_error \in BOOLEAN /\ capacity \in Nat
    /\ b \in 0 .. blocks /\ spill \in Nat /\ length \in Nat
    /\ result \in {"none", "returned", "thrown", "bad_alloc"}
    /\ verdict \in {"open", "corrupt"}

CallCounts ==
    /\ pc # "idle" =>
          /\ verdict = "open" /\ result = "none"
          /\ Len(got) = b
          /\ blocks = WalkBlocks(volume)
          /\ framing_error <=> WalkBroken(volume)
          /\ capacity = Least(blocks * Block, Wrap + Block)
    /\ pc = "direct" => spill = 0 /\ total <= b * Block
    /\ pc = "ring" => spill = pos - start /\ spill > 0

CallInv == MemoryInv /\ CallType /\ OutType /\ CallCounts /\ ReturnsAll

LEMMA Products ==
    ASSUME NEW x \in Nat, NEW y \in Nat, x < y
    PROVE  /\ x * Block \in Nat /\ y * Block \in Nat
           /\ x * Block + Block = (x + 1) * Block
           /\ x * Block + Block <= y * Block
<1> USE DecodeRingAssumption
<1>1. x * Block \in Nat /\ y * Block \in Nat /\ (x + 1) * Block \in Nat
  OBVIOUS
<1>2. x * Block + Block = (x + 1) * Block
  OBVIOUS
<1>3. (x + 1) * Block <= y * Block
  <2>1. PICK z \in Nat : y = (x + 1) + z
    <3>1. y - (x + 1) \in Nat
      OBVIOUS
    <3> QED
      BY <3>1
  <2>2. y * Block = (x + 1) * Block + z * Block
    BY <2>1
  <2>3. z * Block \in Nat
    OBVIOUS
  <2> QED
    BY <1>1, <2>2, <2>3
<1> QED
  BY <1>1, <1>2, <1>3

(* The room for a block, wherever it is decoded.                           *)
LEMMA CallRoom ==
    ASSUME CallInv
    PROVE  InsideScratch
<1>1. ASSUME pc = "direct", b < blocks, total < Wrap PROVE total + Block <= capacity
  <2>1. total <= b * Block /\ capacity = Least(blocks * Block, Wrap + Block)
    BY <1>1 DEF CallInv, CallCounts
  <2>2. b \in Nat /\ blocks \in Nat /\ total \in Nat
    BY DEF CallInv, CallType, MemoryInv, MemoryShape
  <2>3. b * Block \in Nat /\ blocks * Block \in Nat /\ b * Block + Block <= blocks * Block
    BY <1>1, <2>2, Products
  <2> DEFINE x == b * Block
             y == blocks * Block
  <2>4. x \in Nat /\ y \in Nat /\ x + Block <= y /\ total <= x /\ capacity = Least(y, Wrap + Block)
    BY <2>1, <2>3
  <2> HIDE DEF x, y
  <2> QED
    BY <1>1, <2>2, <2>4, DecodeRingAssumption DEF Least
<1>2. roff + Block <= RingBytes
  BY DecodeRingAssumption DEF CallInv, MemoryInv, MemoryShape, RingBytes
<1> QED
  BY <1>1, <1>2 DEF InsideScratch, OneShot!BlocksLeft, OneShot!DirectRoom

(* A block that decodes.                                                   *)
LEMMA CallOut ==
    ASSUME CallInv, pc # "idle", NEW r \in Records,
           r.ok, r.reach <= Available(sd, Place), last' = r,
           got' = Append(got, [len  |-> r.len,
                               refs |-> [d \in 1 .. r.reach |->
                                           Seen(mem, sd, Place, pos, r.len, d)]])
    PROVE  /\ got' = Append(got, [len |-> r.len, refs |-> [d \in 1 .. r.reach |-> pos - d]])
           /\ OutType' /\ Len(got') = Len(got) + 1
           /\ r.reach <= pos - start
<1>1. MemoryShape /\ HistoryShape /\ HistoryContents
  BY DEF CallInv, MemoryInv
<1>2. r.len \in 1 .. Block /\ r.reach \in Nat /\ pos \in Nat /\ start \in Nat
  BY <1>1, DecodeRingAssumption DEF Records, Decoder!Records, MemoryShape
<1>3. [d \in 1 .. r.reach |-> Seen(mem, sd, Place, pos, r.len, d)]
        = [d \in 1 .. r.reach |-> pos - d]
  BY <1>1, CallSeen
<1> DEFINE R == [d \in 1 .. r.reach |-> pos - d]
           g == [len |-> r.len, refs |-> R]
<1>4. g \in [len : 1 .. Block, refs : Seq(Int)]
  <2>1. R \in [1 .. r.reach -> Int]
    BY <1>2
  <2> HIDE DEF R
  <2> QED
    BY ONLY <1>2, <2>1
<1>5. got' = Append(got, g)
  BY <1>3
<1>6. OutType' /\ Len(got') = Len(got) + 1
  <2> HIDE DEF g
  <2>1. got \in Seq([len : 1 .. Block, refs : Seq(Int)])
    BY DEF CallInv, OutType
  <2>2. got' \in Seq([len : 1 .. Block, refs : Seq(Int)])
    BY ONLY <1>4, <1>5, <2>1
  <2>3. last' \in Records \cup {Decoder!NoRecord}
    OBVIOUS
  <2>4. Len(got') = Len(got) + 1
    BY ONLY <1>4, <1>5, <2>1
  <2> QED
    BY <2>2, <2>3, <2>4 DEF OutType
<1>7. r.reach <= pos - start
  <2>1. Available(sd, Place) \in Nat /\ Available(sd, Place) <= pos - start
    BY <1>1, CallSight
  <2> QED
    BY <1>2, <2>1
<1> QED
  BY <1>5, <1>6, <1>7

(* One that does not.                                                      *)
LEMMA CallRefuses ==
    ASSUME CallInv, pc # "idle", NEW r \in Records, ~(r.ok /\ r.reach <= Available(sd, Place))
    PROVE  ~(r.ok /\ r.reach <= pos - start)
<1>1. MemoryShape /\ HistoryShape
  BY DEF CallInv, MemoryInv
<1>2. r.reach \in 0 .. Window /\ pos \in Nat /\ start \in Nat
  BY <1>1 DEF Records, Decoder!Records, MemoryShape
<1> QED
  BY <1>1, <1>2, CallSight, DecodeRingAssumption

(* The actions of a call, in terms of the codec.                           *)
LEMMA CallDecodes ==
    ASSUME CallInv, NEW r \in Records, OneShot!DirectBlock(r) \/ OneShot!RingBlock(r)
    PROVE  /\ CallInv'
           /\ Decoder!Handle(r)
<1> USE DecodeRingAssumption
<1> DEFINE n == r.len
<1>1. /\ MemoryInv /\ MemoryShape /\ CallType /\ OutType /\ CallCounts
      /\ n \in 1 .. Block
  BY DEF CallInv, MemoryInv, Records, Decoder!Records
<1>2. /\ r.ok /\ r.reach <= Available(sd, Place) /\ last' = r
      /\ got' = Append(got, [len  |-> r.len,
                             refs |-> [d \in 1 .. r.reach |->
                                         Seen(mem, sd, Place, pos, r.len, d)]])
      /\ mem' = Written(mem, Place, pos, n) /\ sd' = HistoryAfter(sd, Place, n)
      /\ pos' = pos + n /\ start' = start /\ verdict' = verdict /\ pc' = pc
      /\ b' = b + 1 /\ b < blocks
      /\ UNCHANGED <<volume, blocks, framing_error, capacity, result, length>>
      /\ pc # "idle"
  <2>1. CASE OneShot!DirectBlock(r)
    <3>1. Place = total /\ pc = "direct"
      BY <2>1 DEF OneShot!DirectBlock, Place
    <3> QED
      BY <2>1, <3>1, CallIsCodec
         DEF OneShot!DirectBlock, OneShot!DecodeAt, OneShot!Decodable, OneShot!BlocksLeft,
             OneShot!callVars, OneShot!stringVars
  <2>2. CASE OneShot!RingBlock(r)
    <3>1. Place = OneShot!RingAt + roff /\ pc = "ring"
      BY <2>2 DEF OneShot!RingBlock, Place, RingAt
    <3> QED
      BY <2>2, <3>1, CallIsCodec
         DEF OneShot!RingBlock, OneShot!DecodeAt, OneShot!Decodable, OneShot!BlocksLeft,
             OneShot!callVars, OneShot!stringVars
  <2> QED
    BY <2>1, <2>2
<1>3. \/ pc = "direct" /\ total < Wrap /\ total' = total + n /\ roff' = roff /\ spill' = spill
      \/ /\ pc = "ring" /\ total' = total /\ spill' = spill + n
         /\ roff' = IF roff + n >= Wrap THEN 0 ELSE roff + n
  BY DEF OneShot!DirectBlock, OneShot!RingBlock, OneShot!DirectRoom, OneShot!Advanced
<1>4. MemoryInv'
  <2> HIDE DEF n
  <2>1. CASE pc = "direct"
    <3>1. Place' = Place + n /\ Front' = Front
      BY <1>2, <1>3, <2>1 DEF Place, Front
    <3> QED
      BY <1>1, <1>2, <1>3, <2>1, <3>1, CallExtends
  <2>2. CASE pc = "ring" /\ roff + n < Wrap
    <3>0. roff \in Nat /\ n \in Nat /\ RingAt \in Nat /\ RingAt' = RingAt
      BY <1>1 DEF MemoryShape, RingAt, OneShot!RingAt, OneShot!contiguous_capacity
    <3>1. roff' = roff + n
      BY <1>3, <2>2, <3>0
    <3>2. Place' = Place + n /\ Front' = Front
      BY <1>2, <2>2, <3>0, <3>1 DEF Place, Front
    <3> QED
      BY <1>1, <1>2, <1>3, <2>2, <3>1, <3>2, CallExtends
  <2>3. CASE pc = "ring" /\ roff + n >= Wrap
    <3>1. roff' = 0
      BY <1>3, <2>3
    <3> QED
      BY <1>1, <1>2, <1>3, <2>3, <3>1, CallWraps
  <2> QED
    BY <1>1, <1>2, <2>1, <2>2, <2>3 DEF MemoryShape
<1>5. /\ got' = Append(got, [len |-> r.len, refs |-> [d \in 1 .. r.reach |-> pos - d]])
      /\ OutType' /\ Len(got') = Len(got) + 1
      /\ r.reach <= pos - start
  BY <1>2, CallOut
<1>6. CallType'
  <2>1. n \in Nat /\ spill' \in Nat
    BY <1>1, <1>3 DEF CallType
  <2>2. b' \in 0 .. blocks'
    BY <1>1, <1>2 DEF CallType
  <2> QED
    BY <1>1, <1>2, <2>1, <2>2 DEF CallType
<1>7. CallCounts'
  <2>1. /\ verdict' = "open" /\ result' = "none" /\ Len(got') = b'
        /\ blocks' = WalkBlocks(volume')
        /\ framing_error' <=> WalkBroken(volume')
        /\ capacity' = Least(blocks' * Block, Wrap + Block)
    BY <1>1, <1>2, <1>5 DEF CallCounts
  <2>2. pc' = "direct" => spill' = 0 /\ total' <= b' * Block
    <3>1. SUFFICES ASSUME pc = "direct" PROVE spill' = 0 /\ total' <= b' * Block
      BY <1>2
    <3>2. total <= b * Block /\ total \in Nat /\ b \in Nat /\ blocks \in Nat /\ n \in 1 .. Block
      BY <1>1, <3>1 DEF CallCounts, CallType, MemoryShape
    <3>3. b * Block \in Nat /\ b * Block + Block = (b + 1) * Block
      BY <1>2, <3>2, Products
    <3>4. total' = total + n /\ b' = b + 1 /\ spill' = spill
      BY <1>2, <1>3, <3>1
    <3> DEFINE x == b * Block
               y == (b + 1) * Block
    <3>5. x \in Nat /\ x + Block = y /\ total <= x
      BY <3>2, <3>3
    <3> HIDE DEF x, y, n
    <3>6. total + n <= y
      BY <3>2, <3>5
    <3> QED
      BY <1>1, <3>1, <3>4, <3>6 DEF CallCounts, y
  <2>3. pc' = "ring" => spill' = pos' - start' /\ spill' > 0
    <3>1. SUFFICES ASSUME pc = "ring" PROVE spill' = pos' - start' /\ spill' > 0
      BY <1>2
    <3>2. spill = pos - start /\ spill > 0 /\ pos \in Nat /\ start \in Nat
      BY <1>1, <3>1 DEF CallCounts, MemoryShape
    <3> QED
      BY <1>1, <1>2, <1>3, <3>1, <3>2
  <2> QED
    BY <1>2, <2>1, <2>2, <2>3 DEF CallCounts
<1>8. ReturnsAll'
  BY <1>1, <1>2 DEF CallCounts, ReturnsAll
<1>9. Decoder!Handle(r)
  <2>1. verdict = "open" /\ r.ok
    BY <1>1, <1>2 DEF CallCounts
  <2> QED
    BY <1>2, <1>5, <2>1 DEF Decoder!Handle
<1> QED
  BY <1>4, <1>5, <1>6, <1>7, <1>8, <1>9 DEF CallInv

LEMMA CallThrows ==
    ASSUME CallInv, NEW r \in Records, OneShot!ThrowBlock(r)
    PROVE  /\ CallInv'
           /\ Decoder!Handle(r)
<1>1. /\ pc # "idle" /\ pc' = "idle" /\ ~(r.ok /\ r.reach <= Available(sd, Place))
      /\ last' = r /\ verdict' = "corrupt" /\ result' = "thrown"
      /\ UNCHANGED <<mem, volume, blocks, framing_error, capacity, b, total, roff, spill, length,
                     sd, pos, start, got>>
  <2>1. \/ pc = "direct" /\ Place = total /\ ~OneShot!Decodable(r, total)
        \/ pc = "ring" /\ Place = RingAt + roff /\ ~OneShot!Decodable(r, RingAt + roff)
    BY DEF OneShot!ThrowBlock, Place, RingAt
  <2> QED
    BY <2>1, CallIsCodec DEF OneShot!ThrowBlock, OneShot!Decodable, OneShot!callVars
<1>2. MemoryInv'
  BY <1>1, CallRests DEF CallInv
<1>3. CallType' /\ CallCounts' /\ ReturnsAll'
  BY <1>1 DEF CallInv, CallType, CallCounts, ReturnsAll
<1>4. OutType'
  BY <1>1 DEF CallInv, OutType
<1>5. Decoder!Handle(r)
  <2>1. ~(r.ok /\ r.reach <= pos - start)
    BY <1>1, CallRefuses
  <2>2. verdict = "open"
    BY <1>1 DEF CallInv, CallCounts
  <2> QED
    BY <1>1, <2>1, <2>2 DEF Decoder!Handle
<1> QED
  BY <1>2, <1>3, <1>4, <1>5 DEF CallInv

LEMMA CallEnters ==
    ASSUME CallInv, NEW v \in Volumes, OneShot!Call(v)
    PROVE  CallInv' /\ Decoder!Open
<1>1. /\ pc = "idle" /\ pc' = "direct" /\ volume' = v
      /\ blocks' = WalkBlocks(v) /\ framing_error' = WalkBroken(v)
      /\ capacity' = Least(blocks' * Block, Wrap + Block)
      /\ mem' = OneShot!Blank /\ sd' = NoHistory
      /\ b' = 0 /\ total' = 0 /\ roff' = 0 /\ spill' = 0
      /\ result' = "none" /\ length' = 0
      /\ Decoder!Open
  BY CallIsCodec DEF OneShot!Call, OneShot!ScratchSize, OneShot!contiguous_capacity
<1>2. /\ start' = pos /\ pos' = pos /\ verdict' = "open"
      /\ last' = Decoder!NoRecord /\ got' = <<>>
  BY <1>1 DEF Decoder!Open
<1>3. MemoryInv'
  BY <1>1, <1>2, CallBegins DEF CallInv
<1>4. WalkBlocks(v) \in Nat /\ WalkBroken(v) \in BOOLEAN
  BY WalkStops, DecompressAssumption DEF Streams, WalkBroken
<1>5. capacity' \in Nat
  <2>1. blocks' * Block \in Nat
    BY <1>1, <1>4, DecodeRingAssumption
  <2> QED
    BY <1>1, <2>1, DecodeRingAssumption DEF Least
<1>6. CallType'
  <2>1. framing_error' \in BOOLEAN
    BY <1>1, <1>4
  <2>2. blocks' \in Nat /\ b' \in 0 .. blocks' /\ spill' \in Nat /\ length' \in Nat
    BY <1>1, <1>4
  <2> QED
    BY <1>1, <1>2, <1>5, <2>1, <2>2 DEF CallType
<1>7. OutType'
  BY <1>2 DEF OutType
<1>8. CallCounts'
  <2>1. Len(got') = b'
    BY <1>1, <1>2
  <2>2. total' <= b' * Block
    BY <1>1, DecodeRingAssumption
  <2> QED
    BY <1>1, <1>2, <2>1, <2>2 DEF CallCounts
<1>9. ReturnsAll'
  BY <1>1 DEF ReturnsAll
<1> QED
  BY <1>1, <1>3, <1>6, <1>7, <1>8, <1>9 DEF CallInv

(* Steps that decode nothing.                                              *)
LEMMA CallSpills ==
    ASSUME CallInv, OneShot!StartRing
    PROVE  CallInv' /\ UNCHANGED Decoder!decoderVars
<1>1. /\ pc = "direct" /\ pc' = "ring" /\ total >= Wrap /\ spill' = total /\ roff' = 0
      /\ UNCHANGED <<mem, volume, blocks, framing_error, capacity, b, total, result, length,
                     sd, pos, start, last, got, verdict>>
  BY DecodeRingAssumption
     DEF OneShot!StartRing, OneShot!DirectRoom, OneShot!callVars, OneShot!stringVars,
         CallInv, MemoryInv, MemoryShape
<1>2. MemoryInv'
  BY <1>1, CallStartsRing DEF CallInv
<1>3. /\ total \in Nat /\ total > 0 /\ pos - start = total
  BY <1>1, DecodeRingAssumption DEF CallInv, MemoryInv, MemoryShape, HistoryShape
<1>4. CallType'
  BY <1>1, <1>3 DEF CallInv, CallType
<1>5. CallCounts' /\ ReturnsAll'
  BY <1>1, <1>3 DEF CallInv, CallCounts, ReturnsAll
<1>6. OutType'
  BY <1>1 DEF CallInv, OutType
<1> QED
  BY <1>1, <1>2, <1>4, <1>5, <1>6 DEF CallInv, Decoder!decoderVars

LEMMA CallReturns ==
    ASSUME CallInv, OneShot!Return
    PROVE  CallInv' /\ UNCHANGED Decoder!decoderVars
<1>1. /\ pc # "idle" /\ b = blocks /\ ~framing_error
      /\ pc' = "idle" /\ result' = "returned"
      /\ length' = IF spill > 0 THEN spill ELSE total
      /\ UNCHANGED <<mem, volume, blocks, framing_error, capacity, b, total, roff, spill,
                     sd, pos, start, last, got, verdict>>
  BY DEF OneShot!Return, OneShot!StringLength, OneShot!callVars
<1>2. MemoryInv'
  BY <1>1, CallRests DEF CallInv
<1>3. length' = pos - start /\ length' \in Nat
  <2>1. CASE pc = "direct"
    BY <1>1, <2>1 DEF CallInv, CallCounts, CallType, MemoryInv, MemoryShape, HistoryShape
  <2>2. CASE pc = "ring"
    BY <1>1, <2>2 DEF CallInv, CallCounts, CallType
  <2> QED
    BY <1>1, <2>1, <2>2 DEF CallInv, MemoryInv, MemoryShape
<1>4. CallType'
  BY <1>1, <1>3 DEF CallInv, CallType
<1>5. ReturnsAll'
  <2>1. verdict = "open" /\ ~WalkBroken(volume) /\ Len(got) = WalkBlocks(volume)
    BY <1>1 DEF CallInv, CallCounts
  <2> QED
    BY <1>1, <1>3, <2>1 DEF ReturnsAll
<1>6. OutType' /\ CallCounts'
  BY <1>1 DEF CallInv, OutType, CallCounts
<1> QED
  BY <1>1, <1>2, <1>4, <1>5, <1>6 DEF CallInv, Decoder!decoderVars

LEMMA CallFails ==
    ASSUME CallInv, OneShot!BadAlloc \/ OneShot!ThrowFraming
    PROVE  /\ CallInv'
           /\ Decoder!BadFraming \/ UNCHANGED Decoder!decoderVars
<1>1. /\ pc' = "idle" /\ result' \in {"bad_alloc", "thrown"}
      /\ UNCHANGED <<mem, volume, blocks, framing_error, capacity, b, total, roff, spill, length,
                     sd, pos, start, got>>
      /\ \/ UNCHANGED <<last, verdict>>
         \/ last' = Decoder!NoRecord /\ verdict' = "corrupt" /\ Decoder!BadFraming
  BY CallIsCodec DEF OneShot!BadAlloc, OneShot!ThrowFraming, OneShot!callVars, Decoder!BadFraming
<1>2. MemoryInv'
  BY <1>1, CallRests DEF CallInv
<1>3. CallType' /\ CallCounts' /\ ReturnsAll'
  BY <1>1 DEF CallInv, CallType, CallCounts, ReturnsAll
<1>4. OutType'
  BY <1>1 DEF CallInv, OutType
<1> QED
  BY <1>1, <1>2, <1>3, <1>4 DEF CallInv, Decoder!decoderVars

LEMMA CallStep ==
    ASSUME CallInv, OneShot!Next
    PROVE  CallInv' /\ [Decoder!DecoderNext]_(Decoder!decoderVars)
<1>1. ASSUME NEW v \in Volumes, OneShot!Call(v)
      PROVE  CallInv' /\ [Decoder!DecoderNext]_(Decoder!decoderVars)
  BY <1>1, CallEnters DEF Decoder!DecoderNext
<1>2. ASSUME NEW r \in Records,
             OneShot!DirectBlock(r) \/ OneShot!RingBlock(r) \/ OneShot!ThrowBlock(r)
      PROVE  CallInv' /\ [Decoder!DecoderNext]_(Decoder!decoderVars)
  BY <1>2, CallDecodes, CallThrows DEF Decoder!DecoderNext, Records
<1>3. CASE OneShot!StartRing
  BY <1>3, CallSpills
<1>4. CASE OneShot!Return
  BY <1>4, CallReturns
<1>5. CASE OneShot!BadAlloc \/ OneShot!ThrowFraming
  BY <1>5, CallFails DEF Decoder!DecoderNext
<1> QED
  BY <1>1, <1>2, <1>3, <1>4, <1>5, CallIsCodec DEF OneShot!Next

LEMMA CallInit ==
    ASSUME OneShot!Init
    PROVE  CallInv
<1>1. /\ mem = OneShot!Blank /\ volume \in Volumes
      /\ blocks = 0 /\ framing_error = FALSE /\ capacity = 0
      /\ b = 0 /\ total = 0 /\ roff = 0 /\ spill = 0
      /\ pc = "idle" /\ result = "none" /\ length = 0
      /\ sd = NoHistory /\ Decoder!DecoderInit
  BY CallIsCodec DEF OneShot!Init
<1>2. /\ pos = 0 /\ start = 0 /\ last = Decoder!NoRecord /\ got = <<>> /\ verdict = "open"
  BY <1>1 DEF Decoder!DecoderInit
<1>3. OneShot!Blank \in [0 .. (MemoryEnd - 1) -> Int]
  BY DecodeRingAssumption
     DEF OneShot!Blank, MemoryEnd, RingAt, RingBytes, OneShot!RingBytes, OneShot!RingAt,
         OneShot!contiguous_capacity
<1>4. MemoryInv
  BY <1>1, <1>2, <1>3, DecodeRingAssumption DEF MemoryInv, MemoryShape, NoHistory, NoSpan
<1>5. CallCounts /\ ReturnsAll
  BY <1>1, <1>2 DEF CallCounts, ReturnsAll
<1>6. CallType
  <2>1. b \in 0 .. blocks /\ blocks \in Nat /\ capacity \in Nat /\ spill \in Nat /\ length \in Nat
    BY <1>1
  <2> QED
    BY <1>1, <1>2, <2>1 DEF CallType
<1>7. OutType
  BY <1>2 DEF OutType
<1> QED
  BY <1>4, <1>5, <1>6, <1>7 DEF CallInv

-----------------------------------------------------------------------------
(* The records a decoder has read when it stands behind record n, and what *)
(* it finds there.                                                         *)
Walked(v, n) == \A i \in 1 .. n : Framed(v, i)

LEMMA WalkedFar ==
    ASSUME NEW v \in Streams, NEW n \in Nat, Walked(v, n)
    PROVE  RecordEnd(v, n) <= v.size
<1>1. CASE n = 0
  BY <1>1, RecordEnds DEF Streams
<1>2. CASE n > 0
  <2>1. Framed(v, n) /\ n - 1 \in Nat /\ (n - 1) + 1 = n
    BY <1>2 DEF Walked
  <2>2. RecordEnd(v, n) = RecordEnd(v, n - 1) + Header + Claim(v, n) /\ RecordEnd(v, n - 1) \in Nat
    BY <2>1, RecordEnds, EndsGrow
  <2>3. Claim(v, n) <= v.size - RecordEnd(v, n - 1) - Header
    BY <2>1 DEF Framed, FitsBody
  <2>4. v.size \in Nat /\ Claim(v, n) \in Nat
    BY ClaimType DEF Streams
  <2> QED
    BY <2>2, <2>3, <2>4, DecompressAssumption
<1> QED
  BY <1>1, <1>2

LEMMA WalkedNext ==
    ASSUME NEW v \in Streams, NEW n \in Nat, Walked(v, n),
           FitsHeader(v, RecordEnd(v, n)), FitsBody(v, RecordEnd(v, n), Claim(v, n + 1))
    PROVE  Walked(v, n + 1)
<1>1. (n + 1) - 1 = n
  OBVIOUS
<1>2. Framed(v, n + 1)
  BY <1>1 DEF Framed
<1>3. \A i \in 1 .. (n + 1) : i \in 1 .. n \/ i = n + 1
  OBVIOUS
<1> QED
  BY <1>2, <1>3 DEF Walked

LEMMA WalkedAll ==
    ASSUME NEW v \in Streams, NEW n \in Nat, Walked(v, n), RecordEnd(v, n) >= v.size
    PROVE  WalkBlocks(v) = n /\ ~WalkBroken(v)
<1>1. v.size \in Nat /\ RecordEnd(v, n) \in Nat /\ (n + 1) - 1 = n
  BY EndsGrow DEF Streams
<1>2. ~Framed(v, n + 1)
  BY <1>1, DecompressAssumption DEF Framed, FitsHeader
<1>3. WalkBlocks(v) = n
  BY <1>2, WalkIs DEF Walked
<1> QED
  BY <1>1, <1>3 DEF WalkBroken

LEMMA WalkedShort ==
    ASSUME NEW v \in Streams, NEW n \in Nat, Walked(v, n), RecordEnd(v, n) < v.size,
           \/ ~FitsHeader(v, RecordEnd(v, n))
           \/ ~FitsBody(v, RecordEnd(v, n), Claim(v, n + 1))
    PROVE  WalkBlocks(v) = n /\ WalkBroken(v)
<1>1. (n + 1) - 1 = n
  OBVIOUS
<1>2. ~Framed(v, n + 1)
  BY <1>1 DEF Framed
<1>3. WalkBlocks(v) = n
  BY <1>2, WalkIs DEF Walked
<1> QED
  BY <1>3 DEF WalkBroken

(* LZ4DecompressData: next() stands at the record after the last it handed *)
(* out, and ends where the walk ends.                                      *)
DataFraming(v) ==
    /\ it \in {"begun", "block"} =>
          data_offset = RecordEnd(v, used) /\ Walked(v, used) /\ Len(got) = used
    /\ it = "end" => Len(got) = WalkBlocks(v) /\ ~WalkBroken(v)
    /\ it = "corrupt" /\ last = Decoder!NoRecord => Len(got) = WalkBlocks(v) /\ WalkBroken(v)

DataInv ==
    /\ volume \in Volumes
    /\ data_offset \in Nat /\ used \in Nat /\ resetAt \in Nat
    /\ it \in {"none", "begun", "block", "end", "corrupt"} /\ pc = "idle"
    /\ DataFraming(volume)

LEMMA DataIsFraming ==
    /\ \A v, i : Data!Claim(v, i) = Claim(v, i)
    /\ \A v, place : Data!FitsHeader(v, place) <=> FitsHeader(v, place)
    /\ \A v, place, claim : Data!FitsBody(v, place, claim) <=> FitsBody(v, place, claim)
BY DEF Data!Claim, Claim, Data!FitsHeader, FitsHeader, Data!FitsBody, FitsBody

LEMMA NotNoRecord == Decoder!NoRecord \notin Records
BY DecodeRingAssumption DEF Decoder!NoRecord, Records, Decoder!Records

(* What a step of the ring does to the blocks handed out.                  *)
LEMMA GotGrows ==
    ASSUME OutType, NEW r \in Records, Decode(r)
    PROVE  Len(got') = Len(got) + 1
<1> DEFINE g == [len |-> r.len, refs |-> [d \in 1 .. r.reach |->
                                            Seen(buffer, sd, offset, pos, r.len, d)]]
<1>1. got' = Append(got, g)
  BY DEF Decode
<1>2. got \in Seq([len : 1 .. Block, refs : Seq(Int)])
  BY DEF OutType
<1> HIDE DEF g
<1> QED
  BY ONLY <1>1, <1>2

LEMMA DataStep ==
    ASSUME DataInv, ShapeInv, OutType, DataNext
    PROVE  DataInv'
<1>0. /\ volume \in Streams /\ volume.size \in Nat
      /\ data_offset \in Nat /\ used \in Nat /\ resetAt \in Nat
      /\ it \in {"none", "begun", "block", "end", "corrupt"} /\ pc = "idle" /\ pc' = "idle"
  BY DecompressAssumption DEF DataInv, Streams, DataNext
<1>1. CASE Data!Begin
  <2>1. /\ data_offset' = 0 /\ used' = 0 /\ it' = "begun" /\ got' = <<>>
        /\ UNCHANGED <<volume, resetAt>>
    BY <1>1, DataIsRing DEF Data!Begin, OpenStream, Decoder!Open
  <2>2. DataFraming(volume)'
    BY <2>1, RecordEnds DEF DataFraming, Walked
  <2> QED
    BY <1>0, <2>1, <2>2 DEF DataInv
<1>2. CASE Data!EndOfData
  <2>1. /\ it \in {"begun", "block"} /\ data_offset >= volume.size /\ it' = "end"
        /\ UNCHANGED <<got, last, volume, data_offset, used, resetAt>>
    BY <1>2 DEF Data!EndOfData, Data!InNext, Data!DataSpent, Data!ringVars
  <2>2. DataFraming(volume)'
    BY <1>0, <2>1, WalkedAll DEF DataInv, DataFraming
  <2> QED
    BY <1>0, <2>1, <2>2 DEF DataInv
<1>3. CASE Data!ShortHeader
  <2>1. /\ it \in {"begun", "block"} /\ data_offset < volume.size /\ it' = "corrupt"
        /\ ~FitsHeader(volume, data_offset)
        /\ UNCHANGED <<got, volume, data_offset, used, resetAt>>
    BY <1>0, <1>3, DataIsRing, DataIsFraming
       DEF Data!ShortHeader, Data!InNext, Data!DataSpent, RefuseFraming, Decoder!BadFraming
  <2>2. DataFraming(volume)'
    BY <1>0, <2>1, WalkedShort DEF DataInv, DataFraming
  <2> QED
    BY <1>0, <2>1, <2>2 DEF DataInv
<1>4. CASE Data!Oversize
  <2>1. /\ it \in {"begun", "block"} /\ data_offset < volume.size /\ it' = "corrupt"
        /\ ~FitsBody(volume, data_offset, Claim(volume, used + 1))
        /\ data_offset' = data_offset + Header
        /\ UNCHANGED <<got, volume, used, resetAt>>
    BY <1>0, <1>4, DataIsRing, DataIsFraming
       DEF Data!Oversize, Data!InNext, Data!DataSpent, RefuseFraming, Decoder!BadFraming
  <2>2. DataFraming(volume)'
    BY <1>0, <2>1, WalkedShort DEF DataInv, DataFraming
  <2>3. data_offset' \in Nat
    BY <1>0, <2>1, DecompressAssumption
  <2> QED
    BY <1>0, <2>1, <2>2, <2>3 DEF DataInv
<1>5. ASSUME NEW r \in Data!Records, Data!Record(r) PROVE DataInv'
  <2> DEFINE claim == Claim(volume, used + 1)
  <2>1. /\ it \in {"begun", "block"}
        /\ FitsHeader(volume, data_offset) /\ FitsBody(volume, data_offset, claim)
        /\ data_offset' = data_offset + Header + claim /\ used' = used + 1
        /\ \/ Decode(r) /\ it' = "block"
           \/ Refuse(r) /\ it' = "corrupt"
        /\ UNCHANGED <<volume, resetAt>>
    BY <1>5, DataIsRing, DataIsFraming DEF Data!Record, Data!InNext, Data!OnRefusal
  <2>2. claim \in Nat
    BY <1>0, ClaimType
  <2>3. data_offset' \in Nat /\ used' \in Nat
    BY <1>0, <2>1, <2>2, DecompressAssumption
  <2>4. data_offset = RecordEnd(volume, used) /\ Walked(volume, used) /\ Len(got) = used
    BY <2>1 DEF DataInv, DataFraming
  <2>5. CASE Decode(r) /\ it' = "block"
    <3>1. Walked(volume, used + 1)
      BY <1>0, <2>1, <2>4, WalkedNext
    <3>2. RecordEnd(volume, used + 1) = data_offset'
      BY <1>0, <2>1, <2>4, RecordEnds
    <3>3. Len(got') = used'
      BY <1>5, <2>1, <2>4, <2>5, GotGrows, DataIsRing
    <3>4. DataFraming(volume)'
      BY <2>1, <2>5, <3>1, <3>2, <3>3 DEF DataFraming
    <3> QED
      BY <1>0, <2>1, <2>3, <2>5, <3>4 DEF DataInv
  <2>6. CASE Refuse(r) /\ it' = "corrupt"
    <3>1. last' # Decoder!NoRecord
      BY <1>5, <2>6, NotNoRecord, DataIsRing DEF Refuse
    <3>2. DataFraming(volume)'
      BY <2>6, <3>1 DEF DataFraming
    <3> QED
      BY <1>0, <2>1, <2>3, <2>6, <3>2 DEF DataInv
  <2> QED
    BY <2>1, <2>5, <2>6
<1>6. ASSUME NEW v \in Volumes, Data!Reset(v) PROVE DataInv'
  <2>1. /\ volume' = v /\ it' = "none" /\ resetAt' = pos
        /\ UNCHANGED <<data_offset, used>>
    BY <1>6 DEF Data!Reset
  <2>2. pos \in Nat
    BY DEF ShapeInv
  <2>3. DataFraming(volume)'
    BY <2>1 DEF DataFraming
  <2> QED
    BY <1>0, <2>1, <2>2, <2>3 DEF DataInv
<1> QED
  BY <1>1, <1>2, <1>3, <1>4, <1>5, <1>6 DEF DataNext, Data!Next

-----------------------------------------------------------------------------
(* LZ4DecompressFile reads through `data'.  While it walks, `data' ends at *)
(* the descriptor, data_offset stands behind what was taken of record      *)
(* used + 1, and what was taken are that record's bytes.                   *)
FileType ==
    /\ volume \in Files
    /\ data_offset \in Nat /\ used \in Nat
    /\ it \in {"none", "block", "end", "corrupt", "ioerror"}
    /\ pc \in {"idle", "next", "header", "size", "decode"}
    /\ limit \in Nat \cup {-1} /\ fd_nbytes \in Nat \cup {-1} /\ at \in Nat
    /\ seeks \in BOOLEAN /\ readFailed \in BOOLEAN
    /\ data \in [lo : Nat, hi : Nat] /\ data_size \in Nat \cup {-1}
    /\ header \in Seq(Nat) /\ cmpBuf \in Seq(Nat)
    /\ pc # "idle" => it \in {"none", "block"}

Walking == pc # "idle" \/ it = "block"

Taken ==
    CASE pc = "size"   -> Header
      [] pc = "decode" -> Header + Claim(volume, used + 1)
      [] OTHER         -> 0

FilePlace ==
    /\ data_size \in Nat /\ data_offset <= data_size
    /\ at = data.hi /\ data.hi = data.lo + data_size
    /\ data.lo + data_offset = RecordEnd(volume, used) + Taken
    /\ pc = "header" => data_offset < data_size
    /\ pc = "decode" => Claim(volume, used + 1) <= MaxCmp

(* As long as no read failed, the descriptor and the limit add up.         *)
Budgeted(lim, place, rest) ==
    /\ place <= volume.size
    /\ lim = -1 => rest = -1
    /\ lim # -1 =>
          /\ rest # -1
          /\ place + rest = lim \/ (place = volume.size /\ volume.size <= lim)

FileFraming ==
    ~readFailed =>
        /\ Walking => /\ Budgeted(limit, at, fd_nbytes)
                      /\ Walked(Extent, used) /\ Len(got) = used
        /\ it = "end" => Len(got) = WalkBlocks(Extent) /\ ~WalkBroken(Extent)
        /\ it = "corrupt" /\ last = Decoder!NoRecord =>
              Len(got) = WalkBlocks(Extent) /\ WalkBroken(Extent)
        /\ it # "ioerror"

FileInv ==
    /\ FileType
    /\ Walking => FilePlace
    /\ RecordBytes
    /\ FileFraming

-----------------------------------------------------------------------------
LEMMA FileIsFraming ==
    /\ \A v, i : File!Claim(v, i) = Claim(v, i)
    /\ \A x, y : File!Least(x, y) = Least(x, y)
    /\ \A left, want : File!ReadResults(left, want) = ReadResults(left, want)
    /\ \A r : File!Returned(r) = Returned(r)
BY DEF File!Claim, Claim, File!Least, Least, File!ReadResults, ReadResults, File!Lesser, Lesser,
       File!Returned, Returned

(* The limit cuts the stream and leaves its headers.                       *)
LEMMA ExtentIsStream ==
    ASSUME FileType
    PROVE  /\ volume \in Streams /\ volume.size \in Nat
           /\ Extent \in Streams /\ Extent.size \in Nat
           /\ Extent.size = IF limit = -1 THEN volume.size ELSE Least(limit, volume.size)
           /\ \A i : Claim(Extent, i) = Claim(volume, i)
           /\ \A i \in Nat : RecordEnd(Extent, i) = RecordEnd(volume, i)
<1>1. volume \in Streams /\ volume.size \in Nat
  BY DecompressAssumption DEF FileType, Streams
<1>2. Extent.size = IF limit = -1 THEN volume.size ELSE Least(limit, volume.size)
  BY <1>1 DEF Extent, Streams
<1>3. Extent.claims = volume.claims
  BY <1>1 DEF Extent, Streams
<1>4. Extent.size \in Nat
  BY <1>1, <1>2 DEF FileType, Least
<1>5. Extent \in Streams
  BY <1>1, <1>2, <1>4 DEF Extent, Streams
<1>6. \A i : Claim(Extent, i) = Claim(volume, i)
  BY <1>3 DEF Claim
<1>7. \A i \in Nat : RecordEnd(Extent, i) = RecordEnd(volume, i)
  BY <1>6, SameClaims
<1> QED
  BY <1>1, <1>2, <1>4, <1>5, <1>6, <1>7

(* A read puts what follows `place' at the front of `data'.  One that does *)
(* not fail keeps the budget, and is cut short only where the file or the  *)
(* limit ends.                                                             *)
ExtentSize(lim) == IF lim = -1 THEN volume.size ELSE Least(lim, volume.size)

LEMMA ReadBudget ==
    ASSUME FileType, NEW place \in Nat, NEW lim \in Nat \cup {-1},
           Budgeted(lim, place, fd_nbytes), NEW n,
           n = Lesser(File!ReadSize, volume.size - place)
    PROVE  /\ Budgeted(lim, place + n, File!Budget)
           /\ n < File!block_size => place + n = ExtentSize(lim)
<1> DEFINE want == File!ReadSize
           size == volume.size
           most == File!block_size
           left == size - place
<1>1. size \in Nat /\ left \in Nat
  BY ExtentIsStream DEF Budgeted
<1>2. most \in Nat /\ most > 0
  BY DecompressAssumption DEF File!block_size
<1>3. /\ want = IF fd_nbytes = -1 THEN most ELSE Least(fd_nbytes, most)
      /\ File!Budget = IF fd_nbytes = -1 THEN -1 ELSE fd_nbytes - want
  BY FileIsFraming DEF File!ReadSize, File!Budget
<1>4. fd_nbytes \in Nat \cup {-1}
  BY DEF FileType
<1> HIDE DEF left, want, size, most
<1>5. want \in Nat /\ want <= most
  BY <1>2, <1>3, <1>4 DEF Least
<1>6. n \in Nat /\ n <= want /\ n <= left /\ (n = want \/ n = left)
  BY <1>1, <1>5 DEF Lesser, want, left, size
<1>7. place + n <= size
  BY <1>1, <1>6 DEF left
<1>8. CASE lim = -1
  <2>1. fd_nbytes = -1 /\ want = most /\ File!Budget = -1
    BY <1>3, <1>8 DEF Budgeted
  <2>2. n < most => place + n = size
    BY <1>1, <1>2, <1>6, <2>1 DEF left
  <2> QED
    BY <1>7, <1>8, <2>1, <2>2 DEF size, most, Budgeted, ExtentSize
<1>9. CASE lim # -1
  <2>1. /\ fd_nbytes \in Nat /\ want = Least(fd_nbytes, most) /\ File!Budget = fd_nbytes - want
        /\ place + fd_nbytes = lim \/ (place = size /\ size <= lim)
    BY <1>3, <1>4, <1>9 DEF Budgeted, size
  <2>2. want <= fd_nbytes /\ (want = fd_nbytes \/ want = most) /\ File!Budget \in Nat
    BY <1>2, <1>5, <2>1 DEF Least
  <2>3. (place + n) + File!Budget = lim \/ (place + n = size /\ size <= lim)
    BY <1>1, <1>5, <1>6, <1>9, <2>1, <2>2 DEF left
  <2>4. n < most => place + n = Least(lim, size)
    BY <1>1, <1>5, <1>6, <1>9, <2>1, <2>2 DEF Least, left
  <2>5. File!Budget # -1
    BY <2>2
  <2>6. ExtentSize(lim) = Least(lim, size)
    BY <1>9 DEF ExtentSize, size
  <2>7. Budgeted(lim, place + n, File!Budget)
    BY ONLY <1>7, <1>9, <2>3, <2>5 DEF Budgeted, size
  <2> QED
    BY <2>4, <2>6, <2>7 DEF most
<1> QED
  BY <1>8, <1>9

LEMMA ReadResult ==
    ASSUME FileType, NEW place \in Nat, NEW before \in BOOLEAN, File!Read(place, before)
    PROVE  \E n \in Nat, rest \in Nat \cup {-1}, failed \in BOOLEAN :
             /\ at' = place + n /\ data' = [lo |-> place, hi |-> place + n]
             /\ fd_nbytes' = rest /\ readFailed' = failed
             /\ data_size' = n \/ (data_size' = -1 /\ failed)
             /\ before => failed
             /\ ~failed =>
                  \A lim \in Nat \cup {-1} :
                     Budgeted(lim, place, fd_nbytes) =>
                        /\ Budgeted(lim, place + n, rest)
                        /\ n < File!block_size => place + n = ExtentSize(lim)
<1> DEFINE left == IF place < volume.size THEN volume.size - place ELSE 0
           want == File!ReadSize
<1>1. volume.size \in Nat /\ left \in Nat
  BY ExtentIsStream
<1>2. want \in Nat /\ File!Budget \in Nat \cup {-1}
  <2>1. /\ fd_nbytes = -1 => want = File!block_size /\ File!Budget = -1
        /\ fd_nbytes # -1 => /\ want = Least(fd_nbytes, File!block_size)
                             /\ File!Budget = fd_nbytes - want
    BY FileIsFraming DEF File!ReadSize, File!Budget
  <2>2. fd_nbytes \in Nat \cup {-1} /\ File!block_size \in Nat
    BY DecompressAssumption DEF FileType, File!block_size
  <2> HIDE DEF want
  <2> QED
    BY <2>1, <2>2 DEF Least
<1>3. PICK r \in ReadResults(left, want) :
        /\ readFailed' = (before \/ r.failed)
        /\ at' = place + r.n
        /\ data_size' = Returned(r)
        /\ data' = [lo |-> place, hi |-> place + r.n]
        /\ fd_nbytes' = File!Budget
  BY FileIsFraming DEF File!Read
<1>4. r.n \in Nat /\ r.failed \in BOOLEAN
  <2> HIDE DEF left, want
  <2> QED
    BY <1>1, <1>2 DEF ReadResults, Lesser
<1>5. Returned(r) = r.n \/ (Returned(r) = -1 /\ r.failed)
  BY <1>4 DEF Returned
<1> DEFINE failed == before \/ r.failed
<1>6. failed \in BOOLEAN /\ (before => failed) /\ (r.failed => failed)
  BY <1>4
<1>7. ASSUME ~failed, NEW lim \in Nat \cup {-1}, Budgeted(lim, place, fd_nbytes)
      PROVE  /\ Budgeted(lim, place + r.n, File!Budget)
             /\ r.n < File!block_size => place + r.n = ExtentSize(lim)
  <2>1. r.n = Lesser(want, left)
    BY <1>3, <1>7 DEF ReadResults
  <2>2. left = volume.size - place
    BY <1>1, <1>7 DEF Budgeted
  <2> QED
    BY <1>7, <2>1, <2>2, ReadBudget
<1> HIDE DEF left, want
<1>8. /\ at' = place + r.n /\ data' = [lo |-> place, hi |-> place + r.n]
      /\ fd_nbytes' = File!Budget /\ readFailed' = failed
      /\ data_size' = r.n \/ (data_size' = -1 /\ failed)
  BY <1>3, <1>5, <1>6
<1> HIDE DEF failed
<1> QED
  BY <1>2, <1>4, <1>6, <1>7, <1>8, Zenon

(* Consecutive bytes, put together from two reads.                         *)
LEMMA Joined ==
    ASSUME NEW x \in Nat, NEW n \in Nat, NEW m \in Nat
    PROVE  [k \in 1 .. n |-> x + k - 1] \o [k \in 1 .. m |-> x + n + k - 1]
             = [k \in 1 .. (n + m) |-> x + k - 1]
<1> DEFINE f == [k \in 1 .. n |-> x + k - 1]
           g == [k \in 1 .. m |-> x + n + k - 1]
           h == [k \in 1 .. (n + m) |-> x + k - 1]
<1>1. f \in Seq(Nat) /\ g \in Seq(Nat) /\ h \in Seq(Nat) /\ Len(f) = n /\ Len(g) = m /\ Len(h) = n + m
  OBVIOUS
<1>2. ASSUME NEW k \in 1 .. (n + m) PROVE (f \o g)[k] = h[k]
  <2>1. CASE k <= n
    <3>1. k \in 1 .. n /\ (f \o g)[k] = f[k]
      BY <1>1, <2>1, ConcatProperties
    <3> QED
      BY <3>1
  <2>2. CASE k > n
    <3>1. k - n \in 1 .. m
      BY <2>2
    <3>2. (f \o g)[k] = g[k - n]
      <4> HIDE DEF f, g
      <4>1. k \in 1 .. (Len(f) + Len(g)) /\ ~(k <= Len(f)) /\ k - Len(f) = k - n
        BY <1>1, <2>2
      <4>2. (f \o g)[k] = g[k - Len(f)]
        BY <1>1, <4>1, ConcatProperties
      <4> QED
        BY <4>1, <4>2
    <3>3. g[k - n] = x + n + (k - n) - 1
      BY <3>1
    <3> QED
      BY <3>2, <3>3
  <2> QED
    BY <2>1, <2>2
<1>3. f \o g \in Seq(Nat) /\ Len(f \o g) = n + m
  <2> HIDE DEF f, g
  <2> QED
    BY <1>1, ConcatProperties
<1> HIDE DEF f, g, h
<1>4. f \o g = h
  BY <1>1, <1>2, <1>3, SeqEqual
<1> QED
  BY <1>4 DEF f, g, h

LEMMA Consecutive ==
    ASSUME NEW x \in Nat, NEW n \in Nat
    PROVE  [k \in 1 .. n |-> x + k - 1] \in Seq(Nat)
OBVIOUS

LEMMA FileBegins ==
    ASSUME FileInv, File!Begin
    PROVE  FileInv'
<1>1. /\ limit' = fd_nbytes /\ File!Read(0, FALSE)
      /\ data_offset' = IF data_size' < 0 THEN data_offset ELSE 0
      /\ it' = IF data_size' < 0 THEN "ioerror" ELSE "none"
      /\ pc' = IF data_size' < 0 THEN "idle" ELSE "next"
      /\ used' = 0 /\ header' = <<>> /\ cmpBuf' = <<>> /\ got' = <<>>
      /\ UNCHANGED <<volume, seeks>>
  BY FileIsRing DEF File!Begin, OpenStream, Decoder!Open
<1>2. FileType /\ fd_nbytes \in Nat \cup {-1} /\ volume.size \in Nat
  BY ExtentIsStream DEF FileInv, FileType
<1>3. PICK n \in Nat, rest \in Nat \cup {-1}, failed \in BOOLEAN :
        /\ at' = 0 + n /\ data' = [lo |-> 0, hi |-> 0 + n]
        /\ fd_nbytes' = rest /\ readFailed' = failed
        /\ data_size' = n \/ (data_size' = -1 /\ failed)
        /\ FALSE => failed
        /\ ~failed =>
             \A lim \in Nat \cup {-1} :
                Budgeted(lim, 0, fd_nbytes) =>
                   /\ Budgeted(lim, 0 + n, rest)
                   /\ n < File!block_size => 0 + n = ExtentSize(lim)
  BY <1>1, <1>2, ReadResult
<1>4. RecordBytes'
  BY <1>1 DEF RecordBytes
<1>5. FileType' /\ (~failed => it' # "ioerror")
  <2>1. data_size' \in Nat \cup {-1} /\ (data_size' = -1 \/ data_size' = n)
    BY <1>3
  <2>2. data_offset' \in Nat
    BY <1>1, <1>2 DEF FileType
  <2>3. at' \in Nat /\ data' \in [lo : Nat, hi : Nat]
    BY <1>3
  <2>4. ~failed => ~(data_size' < 0)
    BY <1>3
  <2> QED
    BY <1>1, <1>2, <1>3, <2>1, <2>2, <2>3, <2>4 DEF FileType
<1>6. CASE data_size' = -1
  <2>1. it' = "ioerror" /\ pc' = "idle" /\ failed
    BY <1>1, <1>3, <1>6
  <2>2. FileFraming'
    BY <1>3, <2>1 DEF FileFraming
  <2> QED
    BY <1>4, <1>5, <2>1, <2>2 DEF FileInv, Walking
<1>7. CASE data_size' = n
  <2>1. it' = "none" /\ pc' = "next" /\ data_offset' = 0
    BY <1>1, <1>7
  <2>2. FilePlace'
    <3>1. Taken' = 0
      BY <2>1 DEF Taken
    <3>2. RecordEnd(volume', used') = 0
      BY <1>1, RecordEnds
    <3>3. data'.lo = 0 /\ data'.hi = n /\ at' = n
      BY <1>3
    <3> QED
      BY <1>7, <2>1, <3>1, <3>2, <3>3 DEF FilePlace
  <2>3. FileFraming'
    <3>1. SUFFICES ASSUME ~failed
                   PROVE  Budgeted(limit, at, fd_nbytes)' /\ Walked(Extent', 0) /\ Len(got') = used'
      BY <1>1, <1>3, <2>1 DEF FileFraming
    <3>2. Walked(Extent', 0) /\ Len(got') = used'
      BY <1>1 DEF Walked
    <3>3. Budgeted(fd_nbytes, 0, fd_nbytes)
      BY <1>2 DEF Budgeted
    <3>4. Budgeted(fd_nbytes, 0 + n, rest)
      BY <1>2, <1>3, <3>1, <3>3
    <3>5. 0 + n = n
      OBVIOUS
    <3>6. Budgeted(limit, at, fd_nbytes)'
      BY <1>1, <1>3, <3>4, <3>5 DEF Budgeted
    <3> QED
      BY <3>2, <3>6
  <2> QED
    BY <1>4, <1>5, <2>2, <2>3 DEF FileInv
<1> QED
  BY <1>3, <1>6, <1>7

LEMMA InExtent ==
    ASSUME FileType, Budgeted(limit, at, fd_nbytes)
    PROVE  Extent.size = ExtentSize(limit) /\ at <= Extent.size
<1>1. Extent.size = ExtentSize(limit) /\ volume.size \in Nat
  BY ExtentIsStream DEF ExtentSize
<1>2. /\ at \in Nat /\ limit \in Nat \cup {-1} /\ fd_nbytes \in Nat \cup {-1}
      /\ at <= volume.size
      /\ limit # -1 => fd_nbytes \in Nat
      /\ limit # -1 => at + fd_nbytes = limit \/ (at = volume.size /\ volume.size <= limit)
  BY DEF FileType, Budgeted
<1>3. at <= ExtentSize(limit)
  BY ONLY <1>1, <1>2 DEF ExtentSize, Least
<1> QED
  BY <1>1, <1>3

(* What the object knows while it walks.                                   *)
LEMMA WalkingKnows ==
    ASSUME FileInv, Walking
    PROVE  /\ FileType /\ FilePlace
           /\ data_size \in Nat /\ data_offset \in Nat /\ used \in Nat
           /\ data.lo \in Nat /\ at \in Nat
           /\ RecordEnd(volume, used) \in Nat /\ RecordEnd(Extent, used) = RecordEnd(volume, used)
           /\ Claim(volume, used + 1) \in Nat
           /\ Claim(Extent, used + 1) = Claim(volume, used + 1)
           /\ Extent \in Streams /\ Extent.size \in Nat
           /\ ~readFailed => /\ Budgeted(limit, at, fd_nbytes) /\ at <= Extent.size
                             /\ Extent.size = ExtentSize(limit)
                             /\ Walked(Extent, used) /\ Len(got) = used
<1>1. FileType /\ FilePlace /\ FileFraming
  BY DEF FileInv
<1>2. data_size \in Nat /\ data_offset \in Nat /\ used \in Nat /\ data.lo \in Nat /\ at \in Nat
  BY <1>1 DEF FileType, FilePlace
<1>3. RecordEnd(volume, used) \in Nat /\ RecordEnd(Extent, used) = RecordEnd(volume, used)
  BY <1>1, <1>2, ExtentIsStream, EndsGrow
<1>4. Claim(volume, used + 1) \in Nat /\ Claim(Extent, used + 1) = Claim(volume, used + 1)
  BY <1>1, ExtentIsStream, ClaimType
<1>5. Extent \in Streams /\ Extent.size \in Nat
  BY <1>1, ExtentIsStream
<1>6. ASSUME ~readFailed
      PROVE  /\ Budgeted(limit, at, fd_nbytes) /\ at <= Extent.size
             /\ Extent.size = ExtentSize(limit)
             /\ Walked(Extent, used) /\ Len(got) = used
  BY <1>1, <1>6, InExtent DEF FileFraming
<1> QED
  BY <1>1, <1>2, <1>3, <1>4, <1>5, <1>6

(* Steps that read nothing and hand out nothing.                           *)
LEMMA FileWaits ==
    ASSUME FileInv, File!SeekFails \/ File!Increment \/ File!StillFull
    PROVE  FileInv'
<1>1. FileType /\ RecordBytes /\ FileFraming
  BY DEF FileInv
<1>2. CASE File!SeekFails
  <2>1. /\ pc = "idle" /\ it' = "ioerror" /\ readFailed' = TRUE
        /\ UNCHANGED <<volume, seeks, limit, fd_nbytes, at, data, data_size, data_offset,
                       header, cmpBuf, used, pc>>
    BY <1>2 DEF File!SeekFails, File!MayBegin, File!rangeVars
  <2>2. FileType' /\ RecordBytes'
    BY <1>1, <2>1 DEF FileType, RecordBytes
  <2>3. FileFraming' /\ ~Walking'
    BY <2>1 DEF FileFraming, Walking
  <2> QED
    BY <2>2, <2>3 DEF FileInv
<1>3. CASE File!Increment \/ File!StillFull
  <2>1. /\ \/ pc = "idle" /\ it = "block" /\ pc' = "next"
           \/ pc = "next" /\ data_offset # data_size /\ pc' = "header"
        /\ UNCHANGED <<volume, seeks, limit, fd_nbytes, at, data, data_size, readFailed,
                       data_offset, header, cmpBuf, used, it, got, last>>
    BY <1>3 DEF File!Increment, File!StillFull, File!rangeVars, File!fileVars, File!ringVars
  <2>2. Walking
    BY <2>1 DEF Walking
  <2>3. FileType'
    BY <1>1, <2>1 DEF FileType
  <2>4. FilePlace /\ Taken = 0 /\ Taken' = 0
    BY <2>1, <2>2 DEF FileInv, Taken
  <2>5. FilePlace'
    <3>1. pc' = "header" => data_offset < data_size
      BY <2>1, <2>4, <1>1 DEF FilePlace, FileType
    <3> QED
      BY <2>1, <2>4, <3>1 DEF FilePlace
  <2>6. RecordBytes'
    <3>1. data_offset' <= data_size' /\ pc' # "size" /\ pc' # "decode"
      BY <2>1, <2>4 DEF FilePlace
    <3> QED
      BY <3>1 DEF RecordBytes
  <2>7. FileFraming'
    <3>1. Extent' = Extent
      BY <2>1 DEF Extent
    <3> QED
      BY <1>1, <2>1, <2>2, <3>1 DEF FileFraming, Budgeted, Walking
  <2> QED
    BY <2>3, <2>5, <2>6, <2>7 DEF FileInv
<1> QED
  BY <1>2, <1>3

LEMMA FileResets ==
    ASSUME FileInv, NEW v \in Files, NEW n \in Limits, File!Reset(v, n)
    PROVE  FileInv'
<1>1. /\ pc = "idle" /\ volume' = v /\ limit' = n /\ seeks' \in BOOLEAN
      /\ fd_nbytes' = n /\ at' = 0 /\ it' = "none" /\ readFailed' = FALSE
      /\ UNCHANGED <<data, data_size, data_offset, header, cmpBuf, used, pc>>
  BY DEF File!Reset
<1>2. n \in Nat \cup {-1}
  BY DecompressAssumption
<1>3. FileType' /\ RecordBytes'
  BY <1>1, <1>2 DEF FileInv, FileType, RecordBytes
<1>4. FileFraming' /\ ~Walking'
  BY <1>1 DEF FileFraming, Walking
<1> QED
  BY <1>3, <1>4 DEF FileInv

(* A step that goes on with the same record keeps what the walk has found. *)
LEMMA SameRecord ==
    ASSUME FileInv, Walking, FileType', it' = it, pc' # "idle",
           readFailed => readFailed',
           ~readFailed' => Budgeted(limit, at, fd_nbytes)',
           UNCHANGED <<volume, limit, used, got>>
    PROVE  FileFraming'
<1>1. Extent' = Extent
  BY DEF Extent
<1>2. FileFraming /\ FileType
  BY DEF FileInv
<1>3. it' \in {"none", "block"}
  BY DEF FileType
<1> SUFFICES ASSUME ~readFailed'
             PROVE  /\ Budgeted(limit, at, fd_nbytes)'
                    /\ Walked(Extent, used)' /\ Len(got)' = used'
                    /\ it' \notin {"end", "corrupt", "ioerror"}
  BY DEF FileFraming
<1>4. Walked(Extent, used) /\ Len(got) = used
  BY <1>2 DEF FileFraming
<1> QED
  BY <1>1, <1>3, <1>4 DEF Walked

(* next() ends where `data' and the file are used up.                      *)
LEMMA FileRefills ==
    ASSUME FileInv, File!Refill
    PROVE  FileInv'
<1>1. /\ pc = "next" /\ data_offset = data_size /\ File!Read(at, readFailed)
      /\ data_offset' = IF data_size' <= 0 THEN data_offset ELSE 0
      /\ it' = IF data_size' < 0 THEN "ioerror" ELSE IF data_size' = 0 THEN "end" ELSE it
      /\ pc' = IF data_size' <= 0 THEN "idle" ELSE "header"
      /\ UNCHANGED <<volume, seeks, limit, header, cmpBuf, used, got, last>>
  BY DEF File!Refill, File!rangeVars, File!ringVars
<1>2. Walking
  BY <1>1 DEF Walking
<1>3. /\ FileType /\ FilePlace /\ at \in Nat /\ readFailed \in BOOLEAN /\ limit \in Nat \cup {-1}
      /\ data_offset \in Nat /\ data.lo \in Nat
  BY <1>2, WalkingKnows DEF FileType
<1>4. PICK n \in Nat, rest \in Nat \cup {-1}, failed \in BOOLEAN :
        /\ at' = at + n /\ data' = [lo |-> at, hi |-> at + n]
        /\ fd_nbytes' = rest /\ readFailed' = failed
        /\ data_size' = n \/ (data_size' = -1 /\ failed)
        /\ readFailed => failed
        /\ ~failed =>
             \A lim \in Nat \cup {-1} :
                Budgeted(lim, at, fd_nbytes) =>
                   /\ Budgeted(lim, at + n, rest)
                   /\ n < File!block_size => at + n = ExtentSize(lim)
  BY <1>1, <1>3, ReadResult
<1>5. /\ at' \in Nat /\ data' \in [lo : Nat, hi : Nat] /\ fd_nbytes' \in Nat \cup {-1}
      /\ readFailed' \in BOOLEAN /\ data_size' \in Nat \cup {-1} /\ data_offset' \in Nat
  <2>1. at' \in Nat /\ data' \in [lo : Nat, hi : Nat] /\ fd_nbytes' \in Nat \cup {-1}
    BY <1>3, <1>4
  <2>2. data_size' \in Nat \cup {-1}
    BY <1>4
  <2>3. data_offset' \in Nat
    BY <1>1, <1>3
  <2>4. readFailed' \in BOOLEAN
    BY <1>4
  <2> QED
    BY <2>1, <2>2, <2>3, <2>4
<1>6. FileType'
  BY <1>1, <1>3, <1>5 DEF FileType
<1>7. RecordEnd(volume, used) = at
  <2>1. Taken = 0
    BY <1>1 DEF Taken
  <2>2. data.lo + data_offset = RecordEnd(volume, used) + Taken /\ at = data.lo + data_size
    BY <1>3 DEF FilePlace
  <2> QED
    BY <1>1, <1>2, <2>1, <2>2, WalkingKnows
<1>8. CASE data_size' = -1
  <2>1. it' = "ioerror" /\ pc' = "idle" /\ failed
    BY <1>1, <1>4, <1>8
  <2>2. FileFraming' /\ RecordBytes' /\ ~Walking'
    BY <1>4, <2>1 DEF FileFraming, RecordBytes, Walking
  <2> QED
    BY <1>6, <2>2 DEF FileInv
<1>9. CASE data_size' = n /\ n = 0
  <2>1. it' = "end" /\ pc' = "idle"
    BY <1>1, <1>9
  <2>2. ASSUME ~failed PROVE Len(got) = WalkBlocks(Extent) /\ ~WalkBroken(Extent)
    <3>1. /\ Budgeted(limit, at, fd_nbytes) /\ Extent.size = ExtentSize(limit)
          /\ Walked(Extent, used) /\ Len(got) = used /\ Extent \in Streams /\ used \in Nat
          /\ RecordEnd(Extent, used) = RecordEnd(volume, used)
      BY <1>2, <1>4, <2>2, WalkingKnows
    <3>2. n < File!block_size /\ at + n = at
      BY <1>3, <1>9, DecompressAssumption DEF File!block_size
    <3>3. at = Extent.size
      BY <1>3, <1>4, <2>2, <3>1, <3>2
    <3> QED
      BY <1>3, <1>7, <3>1, <3>3, WalkedAll
  <2>3. Extent' = Extent
    BY <1>1 DEF Extent
  <2>4. FileFraming'
    BY <1>1, <1>4, <2>1, <2>2, <2>3 DEF FileFraming, Walking
  <2>5. RecordBytes' /\ ~Walking'
    BY <2>1 DEF RecordBytes, Walking
  <2> QED
    BY <1>6, <2>4, <2>5 DEF FileInv
<1>10. CASE data_size' = n /\ n > 0
  <2>1. it' = it /\ pc' = "header" /\ data_offset' = 0
    BY <1>1, <1>10
  <2>2. FilePlace'
    <3>1. Taken' = 0
      BY <2>1 DEF Taken
    <3>2. data'.lo = at /\ data'.hi = at + n
      BY <1>4
    <3>3. RecordEnd(volume', used') = at
      BY <1>1, <1>7
    <3> QED
      BY <1>3, <1>4, <1>10, <2>1, <3>1, <3>2, <3>3 DEF FilePlace
  <2>3. RecordBytes'
    <3>1. data_offset' <= data_size'
      BY <1>10, <2>1
    <3> QED
      BY <2>1, <3>1 DEF RecordBytes
  <2>4. FileFraming'
    <3>1. ASSUME ~failed PROVE Budgeted(limit, at + n, rest)
      BY <1>2, <1>3, <1>4, <3>1, WalkingKnows
    <3>2. ~readFailed' => Budgeted(limit, at, fd_nbytes)'
      BY <1>1, <1>4, <3>1 DEF Budgeted
    <3> QED
      BY <1>1, <1>2, <1>4, <1>6, <2>1, <3>2, SameRecord
  <2> QED
    BY <1>6, <2>2, <2>3, <2>4 DEF FileInv
<1> QED
  BY <1>4, <1>8, <1>9, <1>10

(* A header or a body that lies in `data' as a whole.                      *)
LEMMA FileHeader ==
    ASSUME FileInv, File!HeaderWhole
    PROVE  FileInv'
<1>1. /\ pc = "header" /\ Header <= data_size - data_offset
      /\ header' = [k \in 1 .. Header |-> data.lo + data_offset + k - 1]
      /\ data_offset' = data_offset + Header /\ pc' = "size"
      /\ UNCHANGED <<volume, seeks, limit, fd_nbytes, at, data, data_size, readFailed,
                     cmpBuf, used, it, got, last>>
  BY DEF File!HeaderWhole, File!Rest, File!Bytes, File!rangeVars, File!fileVars, File!ringVars
<1>2. Walking /\ Header \in Nat \ {0}
  BY <1>1, DecompressAssumption DEF Walking
<1>3. /\ FileType /\ FilePlace /\ data_size \in Nat /\ data_offset \in Nat /\ data.lo \in Nat
      /\ RecordEnd(volume, used) \in Nat
      /\ ~readFailed => Budgeted(limit, at, fd_nbytes)
  BY <1>2, WalkingKnows
<1>4. data.lo + data_offset = RecordEnd(volume, used)
  BY <1>1, <1>3 DEF FilePlace, Taken
<1> DEFINE from == RecordEnd(volume, used)
<1>5. header' = [k \in 1 .. Header |-> from + k - 1] /\ header' \in Seq(Nat)
  <2>1. header' = [k \in 1 .. Header |-> from + k - 1]
    BY <1>1, <1>4
  <2> HIDE DEF from
  <2> QED
    BY <1>2, <1>3, <2>1, Consecutive DEF from
<1>6. data_offset + Header \in Nat /\ data_offset + Header <= data_size
  BY <1>1, <1>2, <1>3
<1>7. FileType'
  BY <1>1, <1>3, <1>5, <1>6 DEF FileType
<1>8. FilePlace'
  <2>1. Taken' = Header
    BY <1>1 DEF Taken
  <2>2. data.lo + (data_offset + Header) = from + Header
    BY <1>2, <1>3, <1>4
  <2> QED
    BY <1>1, <1>3, <1>6, <2>1, <2>2 DEF FilePlace
<1>9. RecordBytes'
  BY <1>1, <1>5, <1>6 DEF RecordBytes
<1>10. FileFraming'
  <2>1. ~readFailed' => Budgeted(limit, at, fd_nbytes)'
    BY <1>1, <1>3 DEF Budgeted
  <2> QED
    BY <1>1, <1>2, <1>7, <2>1, SameRecord
<1> QED
  BY <1>7, <1>8, <1>9, <1>10 DEF FileInv

LEMMA FileBody ==
    ASSUME FileInv, File!BodyWhole
    PROVE  FileInv'
<1> DEFINE claim == Claim(volume, used + 1)
           from == RecordEnd(volume, used)
<1>1. /\ pc = "size" /\ claim <= MaxCmp /\ claim <= data_size - data_offset
      /\ cmpBuf' = [k \in 1 .. claim |-> data.lo + data_offset + k - 1]
      /\ data_offset' = data_offset + claim /\ pc' = "decode"
      /\ UNCHANGED <<volume, seeks, limit, fd_nbytes, at, data, data_size, readFailed,
                     header, used, it, got, last>>
  <2>1. File!cmpBytes = claim /\ claim \in Nat /\ MaxCmp \in Nat
    BY FileIsFraming, ClaimType, DecompressAssumption DEF File!cmpBytes, FileInv, FileType, Streams
  <2> HIDE DEF claim
  <2> QED
    BY <2>1 DEF File!BodyWhole, File!Oversized, File!Rest, File!Bytes, File!rangeVars,
       File!fileVars, File!ringVars
<1>2. Walking /\ Header \in Nat \ {0}
  BY <1>1, DecompressAssumption DEF Walking
<1>3. /\ FileType /\ FilePlace /\ RecordBytes /\ data_size \in Nat /\ data_offset \in Nat
      /\ data.lo \in Nat /\ from \in Nat /\ claim \in Nat
      /\ ~readFailed => Budgeted(limit, at, fd_nbytes)
  BY <1>2, WalkingKnows DEF FileInv
<1>4. data.lo + data_offset = from + Header
  BY <1>1, <1>3 DEF FilePlace, Taken
<1>5. cmpBuf' = [k \in 1 .. claim |-> from + Header + k - 1] /\ cmpBuf' \in Seq(Nat)
  <2>1. cmpBuf' = [k \in 1 .. claim |-> from + Header + k - 1]
    BY <1>1, <1>4
  <2>2. from + Header \in Nat
    BY <1>2, <1>3
  <2> HIDE DEF from, claim
  <2> QED
    BY <1>3, <2>1, <2>2, Consecutive
<1>6. data_offset + claim \in Nat /\ data_offset + claim <= data_size
  <2> HIDE DEF claim
  <2> QED
    BY <1>1, <1>3
<1>7. FileType'
  BY <1>1, <1>3, <1>5, <1>6 DEF FileType
<1>8. FilePlace'
  <2>1. Taken' = Header + claim
    BY <1>1 DEF Taken
  <2>2. data.lo + (data_offset + claim) = from + (Header + claim)
    <3> HIDE DEF claim, from
    <3> QED
      BY <1>2, <1>3, <1>4
  <2> QED
    BY <1>1, <1>3, <1>6, <2>1, <2>2 DEF FilePlace
<1>9. RecordBytes'
  <2>1. header' = [k \in 1 .. Header |-> from + k - 1]
    BY <1>1, <1>3 DEF RecordBytes
  <2>2. File!cmpBytes' = claim
    BY <1>1, FileIsFraming DEF File!cmpBytes, Claim, File!Claim
  <2>3. RecordEnd(volume, used)' = from
    BY <1>1
  <2> QED
    BY <1>1, <1>5, <1>6, <2>1, <2>2, <2>3 DEF RecordBytes
<1>10. FileFraming'
  <2>1. ~readFailed' => Budgeted(limit, at, fd_nbytes)'
    BY <1>1, <1>3 DEF Budgeted
  <2> QED
    BY <1>1, <1>2, <1>7, <2>1, SameRecord
<1> QED
  BY <1>7, <1>8, <1>9, <1>10 DEF FileInv

(* Where a step finds that the bytes are not a record, they are not.       *)
LEMMA FileEnds ==
    ASSUME FileInv, Walking, FileType', pc' = "idle", it' = "corrupt",
           readFailed => readFailed',
           ~readFailed' =>
              /\ RecordEnd(volume, used) < Extent.size
              /\ \/ ~FitsHeader(Extent, RecordEnd(volume, used))
                 \/ ~FitsBody(Extent, RecordEnd(volume, used), Claim(volume, used + 1)),
           UNCHANGED <<volume, limit, used, got>>
    PROVE  FileInv'
<1>1. Extent' = Extent
  BY DEF Extent
<1>2. RecordBytes' /\ ~Walking'
  BY DEF RecordBytes, Walking
<1>3. FileFraming'
  <2> SUFFICES ASSUME ~readFailed'
               PROVE  Len(got) = WalkBlocks(Extent) /\ WalkBroken(Extent)
    BY <1>1, <1>2 DEF FileFraming
  <2>1. /\ Extent \in Streams /\ used \in Nat /\ Walked(Extent, used) /\ Len(got) = used
        /\ RecordEnd(Extent, used) = RecordEnd(volume, used)
        /\ Claim(Extent, used + 1) = Claim(volume, used + 1)
    BY WalkingKnows
  <2> QED
    BY <2>1, WalkedShort
<1> QED
  BY <1>2, <1>3 DEF FileInv

LEMMA FileTooLong ==
    ASSUME FileInv, File!TooLong
    PROVE  FileInv'
<1>1. /\ pc = "size" /\ Claim(volume, used + 1) > MaxCmp /\ pc' = "idle" /\ it' = "corrupt"
      /\ UNCHANGED <<volume, seeks, limit, fd_nbytes, at, data, data_size, readFailed,
                     data_offset, header, cmpBuf, used, got>>
  BY FileIsRing, FileIsFraming
     DEF File!TooLong, File!Oversized, File!cmpBytes, File!rangeVars, File!fileVars,
         RefuseFraming, Decoder!BadFraming
<1>2. Walking /\ Header \in Nat \ {0} /\ MaxCmp \in Nat
  BY <1>1, DecompressAssumption DEF Walking
<1>3. FileType'
  BY <1>1 DEF FileInv, FileType
<1>4. ASSUME ~readFailed PROVE RecordEnd(volume, used) < Extent.size
  <2>1. /\ RecordEnd(volume, used) \in Nat /\ Extent.size \in Nat /\ data.lo \in Nat
        /\ data_offset \in Nat /\ data_size \in Nat /\ at \in Nat /\ at <= Extent.size /\ FilePlace
    BY <1>2, <1>4, WalkingKnows
  <2>2. /\ data.lo + data_offset = RecordEnd(volume, used) + Header
        /\ at = data.lo + data_size /\ data_offset <= data_size
    BY <1>1, <2>1 DEF FilePlace, Taken
  <2> QED
    BY <1>2, <2>1, <2>2
<1>5. ~FitsBody(Extent, RecordEnd(volume, used), Claim(volume, used + 1))
  <2>1. Claim(volume, used + 1) \in Nat
    BY <1>2, WalkingKnows
  <2> QED
    BY <1>1, <1>2, <2>1 DEF FitsBody
<1> QED
  BY <1>1, <1>2, <1>3, <1>4, <1>5, FileEnds

(* One that straddles two reads is put together from both.                 *)
LEMMA Assembled ==
    ASSUME FileInv, Walking, NEW want \in Nat, want > data_size - data_offset,
           NEW next, next.lo = at
    PROVE  File!Bytes(data, data_offset, File!Rest) \o File!Bytes(next, 0, want - File!Rest)
             = [k \in 1 .. want |-> data.lo + data_offset + k - 1]
<1> DEFINE x == data.lo + data_offset
           rest == data_size - data_offset
           more == want - rest
<1>1. /\ data_size \in Nat /\ data_offset \in Nat /\ data.lo \in Nat /\ data_offset <= data_size
      /\ at = data.lo + data_size
  BY WalkingKnows DEF FilePlace
<1>2. x \in Nat /\ rest \in Nat /\ more \in Nat /\ rest + more = want /\ x + rest = at
  BY <1>1
<1>3. /\ File!Bytes(data, data_offset, File!Rest) = [k \in 1 .. rest |-> x + k - 1]
      /\ File!Bytes(next, 0, want - File!Rest) = [k \in 1 .. more |-> next.lo + 0 + k - 1]
  BY DEF File!Bytes, File!Rest
<1>4. [k \in 1 .. more |-> next.lo + 0 + k - 1] = [k \in 1 .. more |-> x + rest + k - 1]
  <2>1. ASSUME NEW k \in 1 .. more PROVE next.lo + 0 + k - 1 = x + rest + k - 1
    <3> HIDE DEF x, rest, more
    <3>1. next.lo = x + rest
      BY <1>2
    <3> QED
      BY <1>2, <3>1
  <2> HIDE DEF x, rest, more
  <2> QED
    BY <2>1
<1> HIDE DEF x, rest, more
<1>5. [k \in 1 .. rest |-> x + k - 1] \o [k \in 1 .. more |-> x + rest + k - 1]
        = [k \in 1 .. (rest + more) |-> x + k - 1]
  BY <1>2, Joined
<1> QED
  BY <1>2, <1>3, <1>4, <1>5 DEF x

LEMMA FileStraddledHeader ==
    ASSUME FileInv, File!HeaderStraddles
    PROVE  FileInv'
<1> DEFINE from == RecordEnd(volume, used)
           miss == Header - (data_size - data_offset)
<1>1. /\ pc = "header" /\ Header > data_size - data_offset /\ File!Read(at, readFailed)
      /\ data_offset' = miss
      /\ \/ /\ data_size' >= miss
            /\ header' = File!Bytes(data, data_offset, File!Rest)
                           \o File!Bytes(data', 0, Header - File!Rest)
            /\ pc' = "size" /\ it' = it /\ got' = got
         \/ /\ ~(data_size' >= miss) /\ pc' = "idle" /\ it' = "corrupt" /\ got' = got
            /\ header' = header
      /\ UNCHANGED <<volume, seeks, limit, cmpBuf, used>>
  BY FileIsRing
     DEF File!HeaderStraddles, File!Rest, File!Enough, File!rangeVars, File!ringVars,
         RefuseFraming, Decoder!BadFraming
<1>2. Walking /\ Header \in Nat \ {0} /\ MaxCmp \in Nat /\ File!block_size = Header + MaxCmp
  BY <1>1, DecompressAssumption DEF Walking, File!block_size
<1>3. /\ FileType /\ FilePlace /\ data_size \in Nat /\ data_offset \in Nat /\ data.lo \in Nat
      /\ at \in Nat /\ from \in Nat /\ readFailed \in BOOLEAN /\ limit \in Nat \cup {-1}
  BY <1>2, WalkingKnows DEF FileType
<1>4. /\ data.lo + data_offset = from /\ at = data.lo + data_size /\ data_offset < data_size
      /\ miss \in Nat /\ miss > 0 /\ miss < Header
  BY <1>1, <1>2, <1>3 DEF FilePlace, Taken
<1>5. PICK n \in Nat, rest \in Nat \cup {-1}, failed \in BOOLEAN :
        /\ at' = at + n /\ data' = [lo |-> at, hi |-> at + n]
        /\ fd_nbytes' = rest /\ readFailed' = failed
        /\ data_size' = n \/ (data_size' = -1 /\ failed)
        /\ readFailed => failed
        /\ ~failed =>
             \A lim \in Nat \cup {-1} :
                Budgeted(lim, at, fd_nbytes) =>
                   /\ Budgeted(lim, at + n, rest)
                   /\ n < File!block_size => at + n = ExtentSize(lim)
  BY <1>1, <1>3, ReadResult
<1> HIDE DEF miss, from
<1>6. CASE data_size' >= miss
  <2>1. data_size' = n /\ n >= miss
    BY <1>4, <1>5, <1>6
  <2>2. pc' = "size" /\ it' = it /\ got' = got
    BY <1>1, <1>6
  <2>3. header' = [k \in 1 .. Header |-> from + k - 1] /\ header' \in Seq(Nat)
    <3>1. data'.lo = at
      BY <1>5
    <3>2. File!Bytes(data, data_offset, File!Rest) \o File!Bytes(data', 0, Header - File!Rest)
            = [k \in 1 .. Header |-> data.lo + data_offset + k - 1]
      BY <1>1, <1>2, <3>1, Assembled
    <3>3. header' = [k \in 1 .. Header |-> from + k - 1]
      BY <1>1, <1>4, <1>6, <3>2
    <3> QED
      BY <1>2, <1>3, <3>3, Consecutive
  <2>4. FileType'
    <3>1. at' \in Nat /\ data' \in [lo : Nat, hi : Nat] /\ fd_nbytes' \in Nat \cup {-1}
      BY <1>3, <1>5
    <3>2. data_size' \in Nat \cup {-1}
      BY <1>5, <2>1
    <3>3. data_offset' \in Nat
      BY <1>1, <1>4
    <3>4. readFailed' \in BOOLEAN
      BY <1>5
    <3> QED
      BY <1>1, <1>3, <2>2, <2>3, <3>1, <3>2, <3>3, <3>4 DEF FileType
  <2>5. FilePlace'
    <3>1. Taken' = Header /\ RecordEnd(volume, used)' = from
      BY <1>1, <2>2 DEF Taken, from
    <3>2. at + miss = from + Header
      BY <1>2, <1>3, <1>4 DEF miss
    <3>3. data'.lo = at /\ data'.hi = at + n
      BY <1>5
    <3> QED
      BY <1>1, <1>3, <1>4, <1>5, <2>1, <2>2, <3>1, <3>2, <3>3 DEF FilePlace
  <2>6. RecordBytes'
    <3>1. data_offset' <= data_size'
      BY <1>1, <2>1
    <3> QED
      BY <1>1, <2>2, <2>3, <3>1 DEF RecordBytes, from
  <2>7. FileFraming'
    <3>1. ASSUME ~failed PROVE Budgeted(limit, at + n, rest)
      BY <1>2, <1>3, <1>5, <3>1, WalkingKnows
    <3>2. ~readFailed' => Budgeted(limit, at, fd_nbytes)'
      BY <1>1, <1>5, <3>1 DEF Budgeted
    <3> QED
      BY <1>1, <1>2, <1>5, <2>2, <2>4, <3>2, SameRecord
  <2> QED
    BY <2>4, <2>5, <2>6, <2>7 DEF FileInv
<1>7. CASE ~(data_size' >= miss)
  <2>1. pc' = "idle" /\ it' = "corrupt" /\ got' = got /\ header' = header
    BY <1>1, <1>7
  <2>2. FileType'
    <3>1. at' \in Nat /\ data' \in [lo : Nat, hi : Nat] /\ fd_nbytes' \in Nat \cup {-1}
      BY <1>3, <1>5
    <3>2. data_size' \in Nat \cup {-1}
      BY <1>5
    <3>3. data_offset' \in Nat
      BY <1>1, <1>4
    <3>4. readFailed' \in BOOLEAN
      BY <1>5
    <3> QED
      BY <1>1, <1>3, <2>1, <3>1, <3>2, <3>3, <3>4 DEF FileType
  <2>3. ASSUME ~failed PROVE from < Extent.size /\ ~FitsHeader(Extent, from)
    <3>1. data_size' = n /\ n < miss
      BY <1>4, <1>5, <1>7, <2>3
    <3>2. /\ Budgeted(limit, at, fd_nbytes) /\ at <= Extent.size /\ Extent.size \in Nat
          /\ Extent.size = ExtentSize(limit)
      BY <1>2, <1>5, <2>3, WalkingKnows
    <3>3. n < File!block_size
      BY <1>2, <1>4, <3>1
    <3>4. at + n = Extent.size
      BY <1>3, <1>5, <2>3, <3>2, <3>3
    <3>5. from < at /\ at + miss = from + Header
      BY <1>2, <1>3, <1>4 DEF miss
    <3> QED
      BY <1>2, <1>3, <1>4, <3>1, <3>2, <3>4, <3>5 DEF FitsHeader
  <2> QED
    BY <1>1, <1>2, <1>5, <2>1, <2>2, <2>3, FileEnds DEF from
<1> QED
  BY <1>6, <1>7

LEMMA FileStraddledBody ==
    ASSUME FileInv, File!BodyStraddles
    PROVE  FileInv'
<1> DEFINE claim == Claim(volume, used + 1)
           from == RecordEnd(volume, used)
           miss == claim - (data_size - data_offset)
<1>1. /\ pc = "size" /\ claim <= MaxCmp /\ claim > data_size - data_offset
      /\ File!Read(at, readFailed) /\ data_offset' = miss
      /\ \/ /\ data_size' >= miss
            /\ cmpBuf' = File!Bytes(data, data_offset, File!Rest)
                           \o File!Bytes(data', 0, claim - File!Rest)
            /\ pc' = "decode" /\ it' = it /\ got' = got
         \/ /\ ~(data_size' >= miss) /\ pc' = "idle" /\ it' = "corrupt" /\ got' = got
            /\ cmpBuf' = cmpBuf
      /\ UNCHANGED <<volume, seeks, limit, header, used>>
  <2>1. File!cmpBytes = claim /\ claim \in Nat /\ MaxCmp \in Nat
    BY FileIsFraming, ClaimType, DecompressAssumption DEF File!cmpBytes, FileInv, FileType, Streams
  <2> HIDE DEF claim
  <2> QED
    BY <2>1, FileIsRing
       DEF File!BodyStraddles, File!Oversized, File!Rest, File!Enough, File!rangeVars,
           File!ringVars, RefuseFraming, Decoder!BadFraming
<1>2. Walking /\ Header \in Nat \ {0} /\ MaxCmp \in Nat /\ File!block_size = Header + MaxCmp
  BY <1>1, DecompressAssumption DEF Walking, File!block_size
<1>3. /\ FileType /\ FilePlace /\ RecordBytes /\ data_size \in Nat /\ data_offset \in Nat
      /\ data.lo \in Nat /\ at \in Nat /\ from \in Nat /\ claim \in Nat
      /\ readFailed \in BOOLEAN /\ limit \in Nat \cup {-1}
  BY <1>2, WalkingKnows DEF FileType, FileInv
<1> HIDE DEF claim
<1>4. /\ data.lo + data_offset = from + Header /\ at = data.lo + data_size
      /\ data_offset <= data_size
      /\ miss \in Nat /\ miss > 0 /\ miss <= claim
  BY <1>1, <1>2, <1>3 DEF FilePlace, Taken
<1>5. PICK n \in Nat, rest \in Nat \cup {-1}, failed \in BOOLEAN :
        /\ at' = at + n /\ data' = [lo |-> at, hi |-> at + n]
        /\ fd_nbytes' = rest /\ readFailed' = failed
        /\ data_size' = n \/ (data_size' = -1 /\ failed)
        /\ readFailed => failed
        /\ ~failed =>
             \A lim \in Nat \cup {-1} :
                Budgeted(lim, at, fd_nbytes) =>
                   /\ Budgeted(lim, at + n, rest)
                   /\ n < File!block_size => at + n = ExtentSize(lim)
  BY <1>1, <1>3, ReadResult
<1> HIDE DEF miss, from
<1>a. /\ claim' = claim /\ from' = from
      /\ (volume' = volume /\ used' = used)
  BY <1>1 DEF claim, from
<1>6. CASE data_size' >= miss
  <2>1. data_size' = n /\ n >= miss
    BY <1>4, <1>5, <1>6
  <2>2. pc' = "decode" /\ it' = it /\ got' = got
    BY <1>1, <1>6
  <2>3. cmpBuf' = [k \in 1 .. claim |-> from + Header + k - 1] /\ cmpBuf' \in Seq(Nat)
    <3>1. data'.lo = at
      BY <1>5
    <3>2. File!Bytes(data, data_offset, File!Rest) \o File!Bytes(data', 0, claim - File!Rest)
            = [k \in 1 .. claim |-> data.lo + data_offset + k - 1]
      BY <1>1, <1>2, <1>3, <3>1, Assembled
    <3>3. cmpBuf' = [k \in 1 .. claim |-> from + Header + k - 1]
      BY <1>1, <1>4, <1>6, <3>2
    <3>4. from + Header \in Nat
      BY <1>2, <1>3
    <3> QED
      BY <1>3, <3>3, <3>4, Consecutive
  <2>4. FileType'
    <3>1. at' \in Nat /\ data' \in [lo : Nat, hi : Nat] /\ fd_nbytes' \in Nat \cup {-1}
      BY <1>3, <1>5
    <3>2. data_size' \in Nat \cup {-1}
      BY <1>5, <2>1
    <3>3. data_offset' \in Nat
      BY <1>1, <1>4
    <3>4. readFailed' \in BOOLEAN
      BY <1>5
    <3> QED
      BY <1>1, <1>3, <2>2, <2>3, <3>1, <3>2, <3>3, <3>4 DEF FileType
  <2>5. FilePlace'
    <3>1. Taken' = Header + claim /\ RecordEnd(volume, used)' = from
      BY <1>1, <1>a, <2>2 DEF Taken, from, claim
    <3>2. at + miss = from + (Header + claim)
      BY <1>2, <1>3, <1>4 DEF miss
    <3>3. data'.lo = at /\ data'.hi = at + n
      BY <1>5
    <3>4. Claim(volume, used + 1)' <= MaxCmp
      BY <1>1, <1>a DEF claim
    <3> QED
      BY <1>1, <1>3, <1>4, <1>5, <2>1, <2>2, <3>1, <3>2, <3>3, <3>4 DEF FilePlace
  <2>6. RecordBytes'
    <3>1. data_offset' <= data_size'
      BY <1>1, <2>1
    <3>2. header' = [k \in 1 .. Header |-> from + k - 1]
      BY <1>1, <1>3 DEF RecordBytes, from
    <3>3. File!cmpBytes' = claim
      BY <1>1, FileIsFraming DEF File!cmpBytes, claim, Claim, File!Claim
    <3>4. RecordEnd(volume, used)' = from
      BY <1>1 DEF from
    <3> QED
      BY <2>2, <2>3, <3>1, <3>2, <3>3, <3>4 DEF RecordBytes
  <2>7. FileFraming'
    <3>1. ASSUME ~failed PROVE Budgeted(limit, at + n, rest)
      BY <1>2, <1>3, <1>5, <3>1, WalkingKnows
    <3>2. ~readFailed' => Budgeted(limit, at, fd_nbytes)'
      BY <1>1, <1>5, <3>1 DEF Budgeted
    <3> QED
      BY <1>1, <1>2, <1>5, <2>2, <2>4, <3>2, SameRecord
  <2> QED
    BY <2>4, <2>5, <2>6, <2>7 DEF FileInv
<1>7. CASE ~(data_size' >= miss)
  <2>1. pc' = "idle" /\ it' = "corrupt" /\ got' = got /\ cmpBuf' = cmpBuf
    BY <1>1, <1>7
  <2>2. FileType'
    <3>1. at' \in Nat /\ data' \in [lo : Nat, hi : Nat] /\ fd_nbytes' \in Nat \cup {-1}
      BY <1>3, <1>5
    <3>2. data_size' \in Nat \cup {-1}
      BY <1>5
    <3>3. data_offset' \in Nat
      BY <1>1, <1>4
    <3>4. readFailed' \in BOOLEAN
      BY <1>5
    <3> QED
      BY <1>1, <1>3, <2>1, <3>1, <3>2, <3>3, <3>4 DEF FileType
  <2>3. ASSUME ~failed PROVE from < Extent.size /\ ~FitsBody(Extent, from, claim)
    <3>1. data_size' = n /\ n < miss
      BY <1>4, <1>5, <1>7, <2>3
    <3>2. /\ Budgeted(limit, at, fd_nbytes) /\ at <= Extent.size /\ Extent.size \in Nat
          /\ Extent.size = ExtentSize(limit)
      BY <1>2, <1>5, <2>3, WalkingKnows
    <3>3. n < File!block_size
      BY <1>1, <1>2, <1>3, <1>4, <3>1
    <3>4. at + n = Extent.size
      BY <1>3, <1>5, <2>3, <3>2, <3>3
    <3>5. from + Header <= at /\ at + miss = from + (Header + claim)
      BY <1>2, <1>3, <1>4 DEF miss
    <3> QED
      BY <1>2, <1>3, <1>4, <3>1, <3>2, <3>4, <3>5 DEF FitsBody
  <2> QED
    BY <1>1, <1>2, <1>5, <2>1, <2>2, <2>3, FileEnds DEF from, claim
<1> QED
  BY <1>6, <1>7

(* A record that is handed out was framed; the next one begins behind it.  *)
LEMMA FileDecodes ==
    ASSUME FileInv, OutType, NEW r \in Records, File!DecodeRecord(r)
    PROVE  FileInv'
<1> DEFINE claim == Claim(volume, used + 1)
           from == RecordEnd(volume, used)
<1>1. /\ pc = "decode" /\ used' = used + 1 /\ pc' = "idle"
      /\ \/ Decode(r) /\ it' = "block"
         \/ Refuse(r) /\ it' = "corrupt"
      /\ UNCHANGED <<volume, seeks, limit, fd_nbytes, at, data, data_size, readFailed,
                     data_offset, header, cmpBuf>>
  BY FileIsRing DEF File!DecodeRecord, File!rangeVars, File!fileVars
<1>2. Walking /\ Header \in Nat \ {0} /\ MaxCmp \in Nat
  BY <1>1, DecompressAssumption DEF Walking
<1>3. /\ FileType /\ FilePlace /\ data_size \in Nat /\ data_offset \in Nat /\ data.lo \in Nat
      /\ used \in Nat /\ at \in Nat /\ from \in Nat /\ claim \in Nat
      /\ RecordEnd(Extent, used) = from /\ Claim(Extent, used + 1) = claim
      /\ Extent \in Streams /\ Extent.size \in Nat
  BY <1>2, WalkingKnows
<1>4. /\ data.lo + data_offset = from + (Header + claim) /\ at = data.lo + data_size
      /\ data_offset <= data_size /\ claim <= MaxCmp
  BY <1>1, <1>3 DEF FilePlace, Taken
<1>5. used + 1 \in Nat /\ RecordEnd(volume, used + 1) = from + Header + claim
  <2>1. used \in Nat /\ used + 1 \in Nat
    BY <1>3
  <2> QED
    BY <2>1, RecordEnds
<1>6. ASSUME it' \in {"block", "corrupt"} PROVE FileType'
  BY <1>1, <1>3, <1>5, <1>6 DEF FileType
<1>7. RecordBytes' /\ Extent' = Extent
  BY <1>1 DEF RecordBytes, Extent
<1> HIDE DEF claim, from
<1>8. CASE Decode(r) /\ it' = "block"
  <2>1. FilePlace'
    <3>1. Taken' = 0 /\ RecordEnd(volume, used)' = from + Header + claim
      BY <1>1, <1>5 DEF Taken
    <3>2. data.lo + data_offset = from + Header + claim
      BY <1>2, <1>3, <1>4
    <3> QED
      BY <1>1, <1>2, <1>3, <1>4, <3>1, <3>2 DEF FilePlace
  <2>2. FileFraming'
    <3> SUFFICES ASSUME ~readFailed
                 PROVE  Budgeted(limit, at, fd_nbytes)' /\ Walked(Extent, used + 1)
                        /\ Len(got') = used + 1
      BY <1>1, <1>7, <1>8 DEF FileFraming
    <3>1. /\ Budgeted(limit, at, fd_nbytes) /\ at <= Extent.size
          /\ Walked(Extent, used) /\ Len(got) = used
      BY <1>2, WalkingKnows
    <3>2. FitsHeader(Extent, from) /\ FitsBody(Extent, from, claim)
      <4> DEFINE size == Extent.size
      <4>1. size \in Nat /\ at <= size
        BY <1>3, <3>1
      <4> HIDE DEF size
      <4>2. from + (Header + claim) <= size
        BY <1>2, <1>3, <1>4, <4>1
      <4>3. Header <= size - from /\ claim <= size - from - Header
        BY <1>2, <1>3, <4>1, <4>2
      <4> QED
        BY <1>4, <4>3 DEF FitsHeader, FitsBody, size
    <3>3. Walked(Extent, used + 1)
      BY <1>3, <3>1, <3>2, WalkedNext
    <3>4. Len(got') = used + 1
      BY <1>8, <3>1, GotGrows
    <3>5. Budgeted(limit, at, fd_nbytes)'
      BY <1>1, <3>1 DEF Budgeted
    <3> QED
      BY <3>3, <3>4, <3>5
  <2> QED
    BY <1>6, <1>7, <1>8, <2>1, <2>2 DEF FileInv
<1>9. CASE Refuse(r) /\ it' = "corrupt"
  <2>1. last' # Decoder!NoRecord
    BY <1>9, NotNoRecord DEF Refuse
  <2>2. FileFraming' /\ ~Walking'
    BY <1>1, <1>9, <2>1 DEF FileFraming, Walking
  <2> QED
    BY <1>6, <1>7, <1>9, <2>2 DEF FileInv
<1> QED
  BY <1>1, <1>8, <1>9

LEMMA FileStep ==
    ASSUME FileInv, OutType, FileNext
    PROVE  FileInv'
<1>1. ASSUME NEW r \in File!Records, File!DecodeRecord(r) PROVE FileInv'
  BY <1>1, FileDecodes, FileIsRing
<1>2. CASE File!Step
  BY <1>1, <1>2, FileWaits, FileRefills, FileHeader, FileStraddledHeader, FileTooLong, FileBody,
     FileStraddledBody DEF File!Step
<1> QED
  BY <1>2, FileBegins, FileWaits, FileResets DEF FileNext, File!Next

LEMMA FileInit ==
    ASSUME File!Init
    PROVE  FileInv
<1>1. /\ volume \in Files /\ limit \in Limits /\ seeks \in BOOLEAN
      /\ fd_nbytes = limit /\ at = 0 /\ data = [lo |-> 0, hi |-> 0] /\ data_size = -1
      /\ data_offset = 0 /\ header = <<>> /\ cmpBuf = <<>> /\ used = 0
      /\ pc = "idle" /\ it = "none" /\ readFailed = FALSE
  BY DEF File!Init, File!Nothing
<1>2. FileType
  <2>1. limit \in Nat \cup {-1} /\ fd_nbytes \in Nat \cup {-1}
    BY <1>1, DecompressAssumption
  <2>2. header \in Seq(Nat) /\ cmpBuf \in Seq(Nat)
    BY <1>1
  <2>3. data \in [lo : Nat, hi : Nat]
    BY <1>1
  <2> QED
    BY <1>1, <2>1, <2>2, <2>3 DEF FileType
<1>3. RecordBytes /\ FileFraming /\ ~Walking
  BY <1>1 DEF RecordBytes, FileFraming, Walking
<1> QED
  BY <1>2, <1>3 DEF FileInv

-----------------------------------------------------------------------------
(* The three decoders, each with its own invariant and nothing of the      *)
(* other two.                                                              *)
DataRuns == decoder = "data" /\ DecodeInv /\ OutType /\ DataInv /\ NoFile /\ NoCall

FileRuns == decoder = "file" /\ DecodeInv /\ OutType /\ FileInv /\ resetAt = 0 /\ NoCall

OneShotRuns ==
    /\ decoder = "call" /\ CallInv /\ NoFile
    /\ buffer \in [0 .. (RingBytes - 1) -> Int] /\ offset = 0
    /\ resetAt = 0 /\ data_offset = 0 /\ used = 0 /\ it = "none"

DecompressInv == DataRuns \/ FileRuns \/ OneShotRuns

LEMMA DecompressInit == Init => DecompressInv
<1>1. ASSUME decoder = "data" /\ Data!Init /\ pc = "idle" /\ NoFile /\ NoCall PROVE DataRuns
  <2>1. RingInit /\ volume \in Volumes /\ data_offset = 0 /\ used = 0 /\ it = "none" /\ resetAt = 0
    BY <1>1, DataIsRing DEF Data!Init
  <2>2. DecodeInv
    BY <2>1, InvInit
  <2>3. OutType
    BY <2>1 DEF RingInit, Decoder!DecoderInit, OutType
  <2>4. DataInv
    BY <1>1, <2>1 DEF DataInv, DataFraming
  <2> QED
    BY <1>1, <2>2, <2>3, <2>4 DEF DataRuns
<1>2. ASSUME decoder = "file" /\ File!Init /\ resetAt = 0 /\ NoCall PROVE FileRuns
  <2>1. RingInit
    BY <1>2, FileIsRing DEF File!Init
  <2>2. DecodeInv
    BY <2>1, InvInit
  <2>3. OutType
    BY <2>1 DEF RingInit, Decoder!DecoderInit, OutType
  <2>4. FileInv
    BY <1>2, FileInit
  <2> QED
    BY <1>2, <2>2, <2>3, <2>4 DEF FileRuns
<1>3. ASSUME /\ decoder = "call" /\ OneShot!Init /\ RingInit /\ NoFile
             /\ resetAt = 0 /\ data_offset = 0 /\ used = 0 /\ it = "none"
      PROVE  OneShotRuns
  <2>1. CallInv
    BY <1>3, CallInit
  <2>2. buffer \in [0 .. (RingBytes - 1) -> Int] /\ offset = 0
    <3>1. RingInit
      BY <1>3
    <3>2. buffer = [a \in 0 .. (RingBytes - 1) |-> -1] /\ offset = 0
      BY <3>1 DEF RingInit
    <3> QED
      BY ONLY <3>2
  <2> QED
    BY <1>3, <2>1, <2>2 DEF OneShotRuns
<1> QED
  BY <1>1, <1>2, <1>3 DEF Init, DecompressInv

LEMMA DecompressStep ==
    ASSUME DecompressInv, [Next]_vars
    PROVE  DecompressInv'
<1>1. CASE UNCHANGED vars
  <2>1. /\ UNCHANGED <<buffer, offset, sd, pos, start, last, got, verdict>>
        /\ UNCHANGED <<decoder, volume, data_offset, used, it, pc, resetAt>>
        /\ UNCHANGED <<seeks, limit, fd_nbytes, at, data, data_size, header, cmpBuf, readFailed>>
        /\ UNCHANGED <<mem, capacity, blocks, framing_error, b, total, roff, spill, result, length>>
    BY <1>1 DEF vars, ringVars, iterVars, bufferVars, fileVars, callVars
  <2>2. DecodeInv' <=> DecodeInv
    BY <2>1 DEF DecodeInv, ShapeInv, ContentsInv, Filled
  <2>3. OutType' <=> OutType
    BY <2>1 DEF OutType
  <2>4. NoFile' <=> NoFile
    BY <2>1 DEF NoFile
  <2>5. NoCall' <=> NoCall
    BY <2>1 DEF NoCall
  <2>6. DataInv' <=> DataInv
    BY <2>1 DEF DataInv, DataFraming
  <2>7. FileInv' <=> FileInv
    BY <2>1 DEF FileInv, FileType, Walking, FilePlace, Taken, RecordBytes, FileFraming, Budgeted,
       Extent, File!cmpBytes
  <2>8. CallInv' <=> CallInv
    <3>1. MemoryShape' <=> MemoryShape
      BY <2>1 DEF MemoryShape
    <3>2. Place' = Place /\ Front' = Front
      BY <2>1 DEF Place, Front
    <3>3. LastSegment' = LastSegment
      BY <2>1, <3>2 DEF LastSegment
    <3>4. HistoryShape' <=> HistoryShape
      BY <2>1, <3>2, <3>3 DEF HistoryShape, Ended
    <3>5. HistoryContents' <=> HistoryContents
      BY <2>1, <3>2, <3>3 DEF HistoryContents
    <3>6. MemoryInv' <=> MemoryInv
      BY <2>1, <3>1, <3>4, <3>5 DEF MemoryInv
    <3>7. CallType' <=> CallType
      BY <2>1 DEF CallType
    <3>8. CallCounts' <=> CallCounts
      BY <2>1 DEF CallCounts
    <3>9. ReturnsAll' <=> ReturnsAll
      BY <2>1 DEF ReturnsAll
    <3> QED
      BY <2>3, <3>6, <3>7, <3>8, <3>9 DEF CallInv
  <2>9. /\ DataRuns' <=> DataRuns
        /\ FileRuns' <=> FileRuns
        /\ OneShotRuns' <=> OneShotRuns
    BY <2>1, <2>2, <2>3, <2>4, <2>5, <2>6, <2>7, <2>8 DEF DataRuns, FileRuns, OneShotRuns
  <2> QED
    BY <2>9 DEF DecompressInv
<1>2. CASE DataNext
  <2>1. DataRuns
    BY <1>2 DEF DataNext, DecompressInv, FileRuns, OneShotRuns
  <2>2. DecodeInv' /\ OutType'
    BY <1>2, <2>1, ClassStep, ClassHolds DEF DataRuns
  <2>3. DataInv'
    BY <1>2, <2>1, DataStep DEF DataRuns, DecodeInv
  <2>4. decoder' = "data" /\ NoFile' /\ NoCall'
    BY <1>2, <2>1 DEF DataRuns, DataNext, fileVars, callVars, NoFile, NoCall
  <2> QED
    BY <2>2, <2>3, <2>4 DEF DataRuns, DecompressInv
<1>3. CASE FileNext
  <2>1. FileRuns
    BY <1>3 DEF FileNext, DecompressInv, DataRuns, OneShotRuns
  <2>2. DecodeInv' /\ OutType'
    BY <1>3, <2>1, ClassStep, ClassHolds DEF FileRuns
  <2>3. FileInv'
    BY <1>3, <2>1, FileStep DEF FileRuns
  <2>4. decoder' = "file" /\ resetAt' = 0 /\ NoCall'
    BY <1>3, <2>1 DEF FileRuns, FileNext, bufferVars, callVars, NoCall
  <2> QED
    BY <2>2, <2>3, <2>4 DEF FileRuns, DecompressInv
<1>4. CASE OneShotNext
  <2>1. OneShotRuns
    BY <1>4 DEF OneShotNext, DecompressInv, DataRuns, FileRuns
  <2>2. CallInv'
    BY <1>4, <2>1, CallStep DEF OneShotRuns, OneShotNext
  <2>3. NoFile'
    BY <1>4, <2>1 DEF OneShotRuns, OneShotNext, fileVars, NoFile
  <2>4. /\ decoder' = decoder /\ UNCHANGED <<buffer, offset, resetAt, data_offset, used, it>>
    BY <1>4 DEF OneShotNext, bufferVars, iterVars
  <2> QED
    BY <2>1, <2>2, <2>3, <2>4 DEF OneShotRuns, DecompressInv
<1> QED
  BY <1>1, <1>2, <1>3, <1>4 DEF Next

THEOREM DecodersInv == Spec => []DecompressInv
BY DecompressInit, DecompressStep, PTL DEF Spec

(* A decoder that does not run has the state it started with.              *)
LEMMA RestOfCall ==
    ASSUME NoCall
    PROVE  /\ mem \in [DOMAIN OneShot!Blank -> Int]
           /\ capacity \in Nat /\ blocks \in Nat /\ framing_error \in BOOLEAN /\ b \in 0 .. blocks
           /\ total \in Nat /\ roff \in Nat /\ spill \in Nat /\ length \in Nat
           /\ result \in {"none", "returned", "thrown", "bad_alloc"}
<1>1. mem = OneShot!Blank
  BY DEF NoCall
<1>2. OneShot!Blank \in [DOMAIN OneShot!Blank -> Int]
  BY ONLY DEF OneShot!Blank
<1>3. capacity = 0 /\ blocks = 0 /\ b = 0 /\ total = 0 /\ roff = 0 /\ spill = 0 /\ length = 0
  BY DEF NoCall
<1>4. framing_error \in BOOLEAN /\ result \in {"none", "returned", "thrown", "bad_alloc"}
  BY DEF NoCall
<1>5. /\ capacity \in Nat /\ blocks \in Nat /\ b \in 0 .. blocks
      /\ total \in Nat /\ roff \in Nat /\ spill \in Nat /\ length \in Nat
  BY ONLY <1>3
<1> QED
  BY <1>1, <1>2, <1>4, <1>5

LEMMA RestOfFile ==
    ASSUME NoFile
    PROVE  /\ limit \in Nat \cup {-1} /\ seeks \in BOOLEAN /\ fd_nbytes \in Nat \cup {-1}
           /\ at \in Nat /\ data \in [lo : Nat, hi : Nat] /\ data_size \in Nat \cup {-1}
           /\ header \in Seq(Nat) /\ cmpBuf \in Seq(Nat) /\ readFailed \in BOOLEAN
<1>1. limit = -1 /\ fd_nbytes = -1 /\ at = 0 /\ data_size = -1
  BY DEF NoFile
<1>2. seeks \in BOOLEAN /\ readFailed \in BOOLEAN
  BY DEF NoFile
<1>3. data = [lo |-> 0, hi |-> 0] /\ header = <<>> /\ cmpBuf = <<>>
  BY DEF NoFile, File!Nothing
<1>4. data \in [lo : Nat, hi : Nat]
  BY ONLY <1>3
<1>5. header \in Seq(Nat) /\ cmpBuf \in Seq(Nat)
  BY ONLY <1>3
<1>6. /\ limit \in Nat \cup {-1} /\ fd_nbytes \in Nat \cup {-1}
      /\ at \in Nat /\ data_size \in Nat \cup {-1}
  BY ONLY <1>1
<1> QED
  BY <1>2, <1>4, <1>5, <1>6

(* Every variable keeps its type, whichever decoder runs.                  *)
THEOREM DecodersTypeOK == Spec => []TypeOK
<1>1. DataRuns => TypeOK
  <2> SUFFICES ASSUME DataRuns PROVE TypeOK
    OBVIOUS
  <2>1. RingTypeOK
    BY DecodeRingAssumption DEF DataRuns, DecodeInv, ShapeInv, OutType, RingTypeOK, RingBytes
  <2>2. /\ volume \in Volumes /\ data_offset \in Nat /\ used \in Nat /\ resetAt \in Nat
        /\ it \in {"none", "begun", "block", "end", "corrupt"} /\ pc = "idle" /\ decoder = "data"
    BY DEF DataRuns, DataInv
  <2>3. /\ limit \in Nat \cup {-1} /\ seeks \in BOOLEAN /\ fd_nbytes \in Nat \cup {-1}
        /\ at \in Nat /\ data \in [lo : Nat, hi : Nat] /\ data_size \in Nat \cup {-1}
        /\ header \in Seq(Nat) /\ cmpBuf \in Seq(Nat) /\ readFailed \in BOOLEAN
    BY RestOfFile DEF DataRuns
  <2>4. /\ mem \in [DOMAIN OneShot!Blank -> Int]
        /\ capacity \in Nat /\ blocks \in Nat /\ framing_error \in BOOLEAN /\ b \in 0 .. blocks
        /\ total \in Nat /\ roff \in Nat /\ spill \in Nat /\ length \in Nat
        /\ result \in {"none", "returned", "thrown", "bad_alloc"}
    BY RestOfCall DEF DataRuns
  <2> QED
    BY <2>1, <2>2, <2>3, <2>4 DEF TypeOK
<1>2. FileRuns => TypeOK
  <2> SUFFICES ASSUME FileRuns PROVE TypeOK
    OBVIOUS
  <2>1. RingTypeOK
    BY DecodeRingAssumption DEF FileRuns, DecodeInv, ShapeInv, OutType, RingTypeOK, RingBytes
  <2>2. FileType /\ resetAt = 0 /\ decoder = "file"
    BY DEF FileRuns, FileInv
  <2>3. /\ mem \in [DOMAIN OneShot!Blank -> Int]
        /\ capacity \in Nat /\ blocks \in Nat /\ framing_error \in BOOLEAN /\ b \in 0 .. blocks
        /\ total \in Nat /\ roff \in Nat /\ spill \in Nat /\ length \in Nat
        /\ result \in {"none", "returned", "thrown", "bad_alloc"}
    BY RestOfCall DEF FileRuns
  <2> QED
    BY <2>1, <2>2, <2>3 DEF TypeOK, FileType
<1>3. OneShotRuns => TypeOK
  <2> SUFFICES ASSUME OneShotRuns PROVE TypeOK
    OBVIOUS
  <2>1. CallType /\ OutType /\ MemoryShape
    BY DEF OneShotRuns, CallInv, MemoryInv
  <2>2. RingTypeOK
    <3>1. offset \in 0 .. (Wrap - 1) /\ buffer \in [0 .. (RingBytes - 1) -> Int]
      <4>1. offset = 0 /\ buffer \in [0 .. (RingBytes - 1) -> Int]
        BY DEF OneShotRuns
      <4> QED
        BY <4>1, DecodeRingAssumption
    <3> QED
      BY <2>1, <3>1 DEF CallType, MemoryShape, OutType, RingTypeOK
  <2>3. /\ limit \in Nat \cup {-1} /\ seeks \in BOOLEAN /\ fd_nbytes \in Nat \cup {-1}
        /\ at \in Nat /\ data \in [lo : Nat, hi : Nat] /\ data_size \in Nat \cup {-1}
        /\ header \in Seq(Nat) /\ cmpBuf \in Seq(Nat) /\ readFailed \in BOOLEAN
    BY RestOfFile DEF OneShotRuns
  <2>4. mem \in [DOMAIN OneShot!Blank -> Int]
    <3>1. DOMAIN OneShot!Blank = 0 .. (MemoryEnd - 1)
      <4>1. OneShot!Blank \in [0 .. (MemoryEnd - 1) -> Int]
        BY DecodeRingAssumption
           DEF OneShot!Blank, MemoryEnd, RingAt, RingBytes, OneShot!RingBytes, OneShot!RingAt,
               OneShot!contiguous_capacity
      <4> QED
        BY ONLY <4>1
    <3>2. mem \in [0 .. (MemoryEnd - 1) -> Int]
      BY <2>1 DEF MemoryShape
    <3> QED
      BY ONLY <3>1, <3>2
  <2>5. /\ data_offset \in Nat /\ used \in Nat /\ resetAt \in Nat /\ it = "none"
        /\ decoder = "call"
    BY DEF OneShotRuns
  <2>6. /\ volume \in Volumes /\ pc \in {"idle", "direct", "ring"}
        /\ capacity \in Nat /\ blocks \in Nat /\ framing_error \in BOOLEAN /\ b \in 0 .. blocks
        /\ spill \in Nat /\ length \in Nat
        /\ result \in {"none", "returned", "thrown", "bad_alloc"}
    BY <2>1 DEF CallType, MemoryShape
  <2>7. total \in Nat /\ roff \in Nat
    BY <2>1 DEF MemoryShape
  <2> QED
    BY <2>2, <2>3, <2>4, <2>5, <2>6, <2>7 DEF TypeOK
<1> QED
  BY <1>1, <1>2, <1>3, DecodersInv, PTL DEF DecompressInv

(* No decoder writes a block where it could pass the end of its memory:    *)
(* the ring of a class, which takes a whole block at every _offset, and    *)
(* the scratch memory and the ring of a call.                              *)
THEOREM DecodersNoOverrun == Spec => []NoOverrun
<1>1. DecompressInv => NoOverrun
  <2> SUFFICES ASSUME DecompressInv PROVE NoOverrun
    OBVIOUS
  <2>1. DecodeInv => offset \in 0 .. (Wrap - 1)
    BY DEF DecodeInv, ShapeInv
  <2>2. OneShotRuns => offset = 0
    BY DEF OneShotRuns
  <2>3. offset = 0 \/ offset \in 0 .. (Wrap - 1)
    BY <2>1, <2>2 DEF DecompressInv, DataRuns, FileRuns
  <2> QED
    BY <2>3, DecodeRingAssumption DEF NoOverrun, RingBytes
<1> QED
  BY <1>1, DecodersInv, PTL

THEOREM CallsInsideScratch == Spec => []InsideScratch
<1>1. DataRuns \/ FileRuns => InsideScratch
  BY DEF DataRuns, DataInv, FileRuns, FileInv, FileType, InsideScratch
<1>2. OneShotRuns => InsideScratch
  BY CallRoom DEF OneShotRuns
<1> QED
  BY <1>1, <1>2, DecodersInv, PTL DEF DecompressInv

(* The decoders agree on where the records are and on what ends a stream,  *)
(* for every stream and wherever the reads cut the file: what a class has  *)
(* handed out when it ends is what the header walk of decompress_lz4       *)
(* counts.                                                                 *)
THEOREM DecodersAgree == Spec => []SameFraming
<1>1. DataRuns => SameFraming
  <2> SUFFICES ASSUME DataRuns PROVE SameFraming
    OBVIOUS
  <2>1. volume \in Volumes /\ limit = -1 /\ DataFraming(volume) /\ it # "ioerror"
    BY DEF DataRuns, DataInv, NoFile
  <2>2. Extent = volume
    BY <2>1, DecompressAssumption DEF Extent
  <2> QED
    BY <2>1, <2>2 DEF DataFraming, SameFraming
<1>2. FileRuns => SameFraming
  BY DEF FileRuns, FileInv, FileFraming, SameFraming
<1>3. OneShotRuns => SameFraming
  BY DEF OneShotRuns, SameFraming
<1> QED
  BY <1>1, <1>2, <1>3, DecodersInv, PTL DEF DecompressInv

(* LZ4DecompressFile puts every header and body together from the bytes of *)
(* the file that follow the record before, wherever the reads cut it.      *)
THEOREM FileRecordBytes == Spec => []RecordBytes
<1>1. DataRuns => RecordBytes
  BY DEF DataRuns, DataInv, RecordBytes
<1>2. FileRuns => RecordBytes
  BY DEF FileRuns, FileInv
<1>3. OneShotRuns => RecordBytes
  BY DEF OneShotRuns, CallInv, MemoryInv, MemoryShape, RecordBytes
<1> QED
  BY <1>1, <1>2, <1>3, DecodersInv, PTL DEF DecompressInv

(* decompress_lz4 returns a string only for a stream that is whole, and it *)
(* holds every byte decoded.                                               *)
THEOREM CallReturnsAll == Spec => []ReturnsAll
<1>1. DataRuns \/ FileRuns => ReturnsAll
  BY DEF DataRuns, FileRuns, NoCall, ReturnsAll
<1>2. OneShotRuns => ReturnsAll
  BY DEF OneShotRuns, CallInv
<1> QED
  BY <1>1, <1>2, DecodersInv, PTL DEF DecompressInv

(* Each of the three implements the abstract decoder, as long as a stream  *)
(* does not refer to what came before it: every record that is well formed *)
(* decodes, to the bytes that precede it, and no other does.               *)
THEOREM DecodersDecode == ~Damaged => (Spec => Decodes)
<1> SUFFICES ASSUME ~Damaged PROVE Spec => Decodes
  OBVIOUS
<1>1. Init => Decoder!DecoderInit
  BY DataIsRing, FileIsRing, CallIsCodec DEF Init, Data!Init, File!Init, OneShot!Init, RingInit
<1>2. DecompressInv /\ [Next]_vars => [Decoder!DecoderNext]_(Decoder!decoderVars)
  <2> SUFFICES ASSUME DecompressInv, [Next]_vars
               PROVE  [Decoder!DecoderNext]_(Decoder!decoderVars)
    OBVIOUS
  <2>1. CASE DataNext \/ FileNext
    <3>1. DecodeInv
      BY <2>1 DEF DataNext, FileNext, DecompressInv, DataRuns, FileRuns, OneShotRuns
    <3>2. ASSUME NEW r \in Records, InStream(r) \/ Fresh, Decode(r) \/ Refuse(r)
          PROVE  Decoder!DecoderNext
      BY <3>1, <3>2, DecodeHandles, RefuseHandles DEF Decoder!DecoderNext, Records
    <3>3. CASE OpenStream \/ ResetRing \/ RefuseFraming
      BY <3>3 DEF OpenStream, ResetRing, RefuseFraming, Decoder!DecoderNext
    <3>4. CASE UNCHANGED ringVars
      BY <3>4 DEF ringVars, Decoder!decoderVars
    <3> QED
      BY <2>1, <3>2, <3>3, <3>4, ClassStep DEF RingStep
  <2>2. CASE OneShotNext
    <3>1. CallInv /\ OneShot!Next
      BY <2>2 DEF OneShotNext, DecompressInv, DataRuns, FileRuns, OneShotRuns
    <3> QED
      BY <3>1, CallStep
  <2>3. CASE UNCHANGED vars
    BY <2>3 DEF vars, ringVars, Decoder!decoderVars
  <2> QED
    BY <2>1, <2>2, <2>3 DEF Next
<1> QED
  BY <1>1, <1>2, DecodersInv, PTL DEF Spec, Decodes, Decoder!DecoderSpec
=============================================================================
