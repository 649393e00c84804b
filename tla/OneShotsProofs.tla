--------------------------- MODULE OneShotsProofs ---------------------------
(***************************************************************************)
(* The one-shot functions of a thread, for every ratio, every size and     *)
(* every volume: their memory, zstd's decoders, and the functions that     *)
(* write to a caller's buffer.                                             *)
(***************************************************************************)
EXTENDS OneShots, SequenceTheorems, TLAPS

-----------------------------------------------------------------------------
(* Scratch on its own, for every size of the stack buffer and every limit  *)
(* on what a thread keeps.                                                 *)

(* The recorded size never exceeds what is allocated: a refused allocation *)
(* leaves both as they were, one that succeeds sets both.                  *)
CacheInv ==
    /\ cache \in [p : 0 .. Kept, size : 0 .. Kept]
    /\ cache.size <= cache.p

ScratchInv ==
    /\ CacheInv
    /\ memory \in [need : Nat, at : {"none", "stack", "cache", "heap"}, room : Nat]
    /\ RoomEnough

-----------------------------------------------------------------------------
LEMMA InvAcquire ==
    ASSUME ScratchInv, NEW need \in Nat, Acquire(need)
    PROVE  ScratchInv'
<1> USE ScratchAssumption DEF ScratchInv, CacheInv, RoomEnough
<1>1. CASE UseStack(need)
  BY <1>1 DEF UseStack
<1>2. CASE UseCache(need)
  BY <1>2 DEF UseCache, Enough
<1>3. CASE GrowCache(need)
  BY <1>3 DEF GrowCache, Keepable
<1>4. CASE UseHeap(need)
  BY <1>4 DEF UseHeap
<1> QED
  BY <1>1, <1>2, <1>3, <1>4 DEF Acquire

LEMMA InvRefuse ==
    ASSUME ScratchInv, NEW need \in Nat, Refuse(need)
    PROVE  ScratchInv'
BY DEF ScratchInv, CacheInv, RoomEnough, Refuse, RefuseCache, RefuseHeap,
       AfterBadAlloc, scratchVars

(* Scratch::Scratch and ~Scratch, in every order a thread's calls take:    *)
(* the block that is kept is as large as its recorded size, and the call   *)
(* in progress has the room it asked for.                                  *)
THEOREM ScratchInvariant == ScratchSpec => []ScratchInv
<1>1. ScratchInit => ScratchInv
  BY ScratchAssumption DEF ScratchInit, ScratchInv, CacheInv, RoomEnough, NoMemory
<1>2. ScratchInv /\ [ScratchNext]_scratchVars => ScratchInv'
  <2> SUFFICES ASSUME ScratchInv, [ScratchNext]_scratchVars PROVE ScratchInv'
    OBVIOUS
  <2>1. CASE Release
    BY <2>1 DEF Release, ScratchInv, CacheInv, RoomEnough, NoMemory
  <2>2. ASSUME NEW need \in Nat, Acquire(need) PROVE ScratchInv'
    BY <2>2, InvAcquire
  <2>3. ASSUME NEW need \in Nat, Refuse(need) PROVE ScratchInv'
    BY <2>3, InvRefuse
  <2>4. CASE UNCHANGED scratchVars
    BY <2>4 DEF scratchVars, ScratchInv, CacheInv, RoomEnough
  <2> QED
    BY <2>1, <2>2, <2>3, <2>4 DEF ScratchNext
<1> QED
  BY <1>1, <1>2, PTL DEF ScratchSpec

(* compressor_scratch.h:33: no call is given less memory than it asked     *)
(* for, whatever was asked for, kept and refused before it.                *)
THEOREM RoomIsEnough == ScratchSpec => []RoomEnough
<1>1. ScratchInv => RoomEnough
  BY DEF ScratchInv
<1> QED
  BY <1>1, ScratchInvariant, PTL

-----------------------------------------------------------------------------
(* The guard against damaged headers, in both directions: no frame that    *)
(* can hold its content is turned away, and what is let through asks for   *)
(* memory in proportion.                                                   *)
LEMMA Quotient ==
    ASSUME NEW h \in Nat, NEW R \in Nat \ {0}
    PROVE  /\ h \div R \in Nat
           /\ R * (h \div R) <= h /\ h < R * (h \div R) + R
OBVIOUS

LEMMA Monotone ==
    ASSUME NEW a \in Nat, NEW b \in Nat, NEW R \in Nat \ {0}, a <= b
    PROVE  R * a <= R * b
OBVIOUS

LEMMA HeldIsRead ==
    ASSUME NEW h \in Nat, NEW s \in Nat, CanHold(s, h)
    PROVE  ~(h \div Ratio > s)
<1> USE ZstdAssumption
<1>1. h <= Ratio * s
  <2>1. s - FrameHeader \in Int /\ Ratio * (s - FrameHeader) <= Ratio * s
    OBVIOUS
  <2> QED
    BY <2>1 DEF CanHold
<1>2. SUFFICES ASSUME s + 1 <= h \div Ratio PROVE FALSE
  BY Quotient
<1>3. Ratio * (s + 1) <= Ratio * (h \div Ratio)
  BY <1>2, Quotient, Monotone
<1>4. Ratio * (s + 1) = Ratio * s + Ratio
  OBVIOUS
<1> QED
  BY <1>1, <1>3, <1>4, Quotient

LEMMA ClaimIsBounded ==
    ASSUME NEW h \in Nat, NEW s \in Nat, ~(h \div Ratio > s)
    PROVE  h < Ratio * (s + 1)
<1> USE ZstdAssumption
<1>1. h \div Ratio <= s
  BY Quotient
<1>2. Ratio * (h \div Ratio) <= Ratio * s
  BY <1>1, Quotient, Monotone
<1>3. Ratio * (s + 1) = Ratio * s + Ratio
  OBVIOUS
<1> QED
  BY <1>2, <1>3, Quotient

-----------------------------------------------------------------------------
(* What a call of zstd's functions leaves behind.                          *)
StateInv ==
    /\ contexts \in [c : 0 .. 1, d : 0 .. 1]
    /\ string \in [capacity : Nat, held : Nat] /\ string.held <= string.capacity

CallOK ==
    /\ call \in [fn : Callees, volume : AnyBytes, limit : Nat, given : Nat, asked : Nat,
                 end : {"returned", "corrupt", "failed", "refused", "no memory", "compressing"}]
    /\ Volume(call.volume)
    /\ Compressing => call.fn = "compress"

AsksLittle ==
    /\ call.asked < Ratio * (call.volume.size + 1)
    /\ call.fn = "limited" => call.asked <= call.limit

CallInv == CallOK /\ AsksLittle /\ SameResults /\ FramesIntoBuffer

ZstdInv == StateInv /\ CallInv

(* One record, whatever was called.                                        *)
LEMMA CallIs ==
    ASSUME NEW fn \in Callees, NEW v, Volume(v), NEW limit \in Nat, NEW end, NEW given \in Nat,
           NEW asked \in Nat, Called(fn, v, limit, end, given, asked),
           end \in {"returned", "corrupt", "failed", "refused", "no memory", "compressing"},
           end = "compressing" => fn = "compress"
    PROVE  /\ CallOK'
           /\ call'.fn = fn /\ call'.volume = v /\ call'.limit = limit
           /\ call'.end = end /\ call'.given = given /\ call'.asked = asked
BY DEF Called, CallOK, Volume, Compressing

(* Nothing is asked for, or what a header that was let through says.       *)
Asked(v, asked) ==
    \/ asked = 0
    \/ ~Refused(v) /\ asked = v.header

LEMMA NothingAsked ==
    ASSUME NEW v
    PROVE  Asked(v, 0)
BY DEF Asked

LEMMA HeaderAsked ==
    ASSUME NEW v, ~Refused(v)
    PROVE  Asked(v, v.header)
BY DEF Asked

LEMMA AskedIsBounded ==
    ASSUME NEW v, Volume(v), NEW asked \in Nat, Asked(v, asked)
    PROVE  asked < Ratio * (v.size + 1)
<1>1. v.size \in Nat
  BY DEF Volume, AnyBytes
<1>2. CASE asked = 0
  <2>1. 0 \div Ratio = 0
    BY ZstdAssumption
  <2> QED
    BY <1>1, <1>2, <2>1, ClaimIsBounded
<1>3. CASE ~Refused(v) /\ asked = v.header
  BY <1>1, <1>3, ClaimIsBounded DEF Refused
<1> QED
  BY <1>2, <1>3 DEF Asked

(* What to show of the call of a decoder.                                  *)
LEMMA Judged ==
    ASSUME NEW fn \in Callees, NEW v, Volume(v), NEW limit \in Nat, NEW given \in Nat,
           NEW end \in {"returned", "corrupt", "failed", "refused", "no memory"},
           NEW asked \in Nat, Called(fn, v, limit, end, given, asked),
           Asked(v, asked), fn = "limited" => asked <= limit,
           fn # "compress into",
           fn \in {"class", "string", "reuse", "limited"} /\ end # "no memory" =>
               end = Outcome(fn, v, limit) /\ (end = "returned" => given = v.header),
           fn = "into" /\ end # "no memory" =>
               (end = "returned" <=> v.sound /\ v.total = limit)
    PROVE  CallInv'
<1>1. /\ CallOK'
      /\ call'.fn = fn /\ call'.volume = v /\ call'.limit = limit
      /\ call'.end = end /\ call'.given = given /\ call'.asked = asked
  BY CallIs
<1>2. SameResults'
  BY <1>1 DEF SameResults
<1>3. FramesIntoBuffer'
  BY <1>1 DEF FramesIntoBuffer
<1>4. AsksLittle'
  BY <1>1, AskedIsBounded DEF AsksLittle
<1> QED
  BY <1>1, <1>2, <1>3, <1>4 DEF CallInv

LEMMA ContextKept ==
    ASSUME StateInv, NEW k \in {"c", "d"}, Context(k) \/ NoContext(k) \/ UNCHANGED contexts
    PROVE  contexts' \in [c : 0 .. 1, d : 0 .. 1]
BY DEF StateInv, Context, NoContext, Absent

(* A frame that decodes to what it records passes every check of it.       *)
LEMMA ExactIsRead ==
    ASSUME NEW v, Volume(v), v.header \in Nat, v.sound
    PROVE  ~Unreadable(v) /\ ~Refused(v) /\ \A max : RefusedBeyond(v, max) => v.header > max
<1>1. v.size \in Nat /\ CanHold(v.size, v.header)
  BY DEF Volume, AnyBytes
<1>2. ~(v.header \div Ratio > v.size)
  BY <1>1, HeldIsRead
<1> QED
  BY <1>2 DEF Unreadable, Refused, RefusedBeyond, CONTENTSIZE_ERROR, CONTENTSIZE_UNKNOWN

LEMMA ReadIsRecorded ==
    ASSUME NEW v, Volume(v)
    PROVE  /\ Unreadable(v) <=> Refused(v)
           /\ ~Refused(v) => v.header \in Nat
           /\ \A max : ~RefusedBeyond(v, max) => ~Refused(v) /\ ~(v.header > max)
BY DEF Unreadable, Refused, RefusedBeyond, Volume, AnyBytes, CONTENTSIZE_ERROR, CONTENTSIZE_UNKNOWN

LEMMA DecodedIsExact ==
    ASSUME NEW v, Volume(v), ~Refused(v)
    PROVE  /\ Decodes(v, v.header) <=> Exact(v)
           /\ Exact(v) => v.total = v.header
<1>1. v.header \in Nat /\ v.total \in Nat
  BY ReadIsRecorded DEF Volume, AnyBytes
<1>2. v.header >= 0
  BY <1>1
<1>3. v.sound => v.total >= v.header
  BY <1>2 DEF Volume
<1>4. v.total <= v.header /\ v.total >= v.header <=> v.total = v.header
  BY <1>1
<1> QED
  BY <1>2, <1>3, <1>4 DEF Decodes, Exact

(* The shape of a decoder that returns a string: how it may end, and the   *)
(* call it leaves.                                                         *)
LEMMA DecoderEnds ==
    ASSUME NEW fn \in {"class", "string", "reuse"}, NEW v, Volume(v), NEW asked \in Nat, Asked(v, asked),
           \/ Refused(v) /\ Ends(fn, v, 0, "corrupt", 0, 0)
           \/ Ends(fn, v, 0, "no memory", 0, asked)
           \/ ~Refused(v) /\ Decodes(v, v.header) /\ Ends(fn, v, 0, "returned", v.total, asked)
           \/ ~Refused(v) /\ ~Decodes(v, v.header) /\ Ends(fn, v, 0, "failed", 0, asked)
    PROVE  CallInv'
<1> USE DEF Ends
<1>1. v.total \in Nat /\ v.sound \in BOOLEAN
  BY DEF Volume, AnyBytes
<1>2. Unreadable(v) <=> Refused(v)
  BY ReadIsRecorded
<1>3. CASE Refused(v) /\ Called(fn, v, 0, "corrupt", 0, 0)
  <2>1. ~Exact(v)
    BY <1>3, ExactIsRead, ReadIsRecorded DEF Exact, Volume, AnyBytes, Refused, CONTENTSIZE_ERROR, CONTENTSIZE_UNKNOWN
  <2> QED
    BY <1>3, <1>2, <2>1, Judged, NothingAsked, HeaderAsked DEF Callees, Outcome
<1>4. CASE Called(fn, v, 0, "no memory", 0, asked)
  BY <1>4, Judged, NothingAsked, HeaderAsked DEF Callees, Outcome
<1>5. CASE ~Refused(v) /\ Decodes(v, v.header) /\ Called(fn, v, 0, "returned", v.total, asked)
  <2>1. Exact(v) /\ v.total = v.header
    BY <1>5, DecodedIsExact
  <2> QED
    <3>1. Outcome(fn, v, 0) = "returned"
      BY <2>1 DEF Outcome
    <3> QED
      BY <1>1, <1>5, <2>1, <3>1, Judged DEF Callees
<1>6. CASE ~Refused(v) /\ ~Decodes(v, v.header) /\ Called(fn, v, 0, "failed", 0, asked)
  <2>1. ~Exact(v)
    BY <1>6, DecodedIsExact
  <2> QED
    BY <1>6, <1>2, <2>1, Judged, NothingAsked, HeaderAsked DEF Callees, Outcome
<1> QED
  BY <1>3, <1>4, <1>5, <1>6

LEMMA StepClass ==
    ASSUME ZstdInv, NEW v, Volume(v), DecompressClass(v)
    PROVE  ZstdInv'
<1>1. v.header \in Nat \/ Refused(v)
  BY ReadIsRecorded
<1>2. Unreadable(v) <=> Refused(v)
  BY ReadIsRecorded
<1>3. CallInv'
  <2>1. CASE Refused(v)
    BY <1>2, <2>1, DecoderEnds, NothingAsked, HeaderAsked DEF DecompressClass
  <2>2. CASE ~Refused(v)
    BY <1>1, <1>2, <2>2, DecoderEnds, NothingAsked, HeaderAsked DEF DecompressClass
  <2> QED
    BY <2>1, <2>2
<1> QED
  BY <1>3 DEF ZstdInv, StateInv, DecompressClass

LEMMA StepString ==
    ASSUME ZstdInv, NEW v, Volume(v), Decompress(v)
    PROVE  ZstdInv'
<1>1. v.header \in Nat \/ Refused(v)
  BY ReadIsRecorded
<1>2. CallInv'
  BY <1>1, DecoderEnds, NothingAsked, HeaderAsked DEF Decompress, DecompressFrame
<1>3. contexts' \in [c : 0 .. 1, d : 0 .. 1]
  BY ContextKept DEF Decompress, DecompressFrame, ZstdInv
<1> QED
  BY <1>2, <1>3 DEF ZstdInv, StateInv, Decompress

LEMMA StepReuse ==
    ASSUME ZstdInv, NEW v, Volume(v), DecompressReuse(v)
    PROVE  ZstdInv'
<1> DEFINE asked == IF Capacity(v.header) = string.capacity THEN 0 ELSE Capacity(v.header)
<1>1. CASE Refused(v) /\ Ends("reuse", v, 0, "corrupt", 0, 0) /\ UNCHANGED <<contexts, string>>
  <2>1. CallInv'
    BY <1>1, DecoderEnds, NothingAsked, HeaderAsked
  <2> QED
    BY <1>1, <2>1 DEF ZstdInv, StateInv
<1>2. CASE ~Refused(v)
  <2>1. v.header \in Nat
    BY <1>2, ReadIsRecorded
  <2>2. Capacity(v.header) \in Nat /\ asked \in Nat
    BY <2>1 DEF Capacity, ZstdInv, StateInv
  <2>3. Asked(v, asked)
    BY <1>2, <2>1, <2>2 DEF Asked, Capacity, ZstdInv, StateInv
  <2>4. CallInv'
    BY <1>2, <2>2, <2>3, DecoderEnds, NothingAsked DEF DecompressReuse, DecompressFrame, Room
  <2>5. contexts' \in [c : 0 .. 1, d : 0 .. 1]
    BY <1>2, ContextKept DEF DecompressReuse, DecompressFrame, ZstdInv
  <2>6. string' \in [capacity : Nat, held : Nat] /\ string'.held <= string'.capacity
    <3>1. \/ UNCHANGED string
          \/ string' = [capacity |-> Capacity(v.header),
                        held |-> IF v.header > string.held THEN v.header ELSE string.held]
      BY <1>2, Zenon DEF DecompressReuse
    <3> QED
      BY <2>1, <3>1 DEF Capacity, ZstdInv, StateInv
  <2> QED
    BY <2>4, <2>5, <2>6 DEF ZstdInv, StateInv
<1> QED
  BY <1>1, <1>2 DEF DecompressReuse

LEMMA StepLimited ==
    ASSUME ZstdInv, NEW v, Volume(v), NEW max \in Nat, DecompressLimited(v, max)
    PROVE  ZstdInv'
<1> DEFINE good == Decodes(v, v.header) /\ v.total = v.header
<1>1. CallInv'
  <2>1. CASE RefusedBeyond(v, max) /\ Called("limited", v, max, "corrupt", 0, 0)
    <3>1. ASSUME Exact(v), v.header <= max PROVE FALSE
      <4>1. v.header \in Nat
        BY <3>1 DEF Exact, Volume, AnyBytes, CONTENTSIZE_ERROR, CONTENTSIZE_UNKNOWN
      <4> QED
        BY <2>1, <3>1, <4>1, ExactIsRead DEF Exact
    <3>2. 0 <= max
      OBVIOUS
    <3> QED
      BY <2>1, <3>1, <3>2, Judged, NothingAsked, HeaderAsked DEF Callees, Outcome
  <2>2. CASE ~RefusedBeyond(v, max)
    <3>1. ~Refused(v) /\ v.header \in Nat /\ v.header <= max /\ v.total \in Nat
      BY <2>2, ReadIsRecorded DEF Volume, AnyBytes
    <3>2. CASE Called("limited", v, max, "no memory", 0, v.header)
      BY <3>1, <3>2, Judged, NothingAsked, HeaderAsked DEF Callees
    <3>3. CASE good /\ Called("limited", v, max, "returned", v.total, v.header)
      <4>1. Exact(v)
        BY <3>1, <3>3 DEF Exact, Decodes
      <4> QED
        BY <3>1, <3>3, <4>1, Judged, NothingAsked, HeaderAsked DEF Callees, Outcome
    <3>4. CASE ~good /\ Called("limited", v, max, "corrupt", 0, v.header)
      <4>1. ~Exact(v)
        BY <3>1, <3>4 DEF Exact, Decodes
      <4> QED
        BY <3>1, <3>4, <4>1, Judged, NothingAsked, HeaderAsked DEF Callees, Outcome
    <3> QED
      BY <2>2, <3>2, <3>3, <3>4 DEF DecompressLimited, DecompressFrame, Ends
  <2> QED
    BY <2>1, <2>2 DEF DecompressLimited, Ends
<1>2. contexts' \in [c : 0 .. 1, d : 0 .. 1]
  BY ContextKept DEF DecompressLimited, DecompressFrame, ZstdInv
<1> QED
  BY <1>1, <1>2 DEF ZstdInv, StateInv, DecompressLimited

LEMMA StepInto ==
    ASSUME ZstdInv, NEW v, Volume(v), NEW size \in Nat, DecompressInto(v, size)
    PROVE  ZstdInv'
<1>1. CallInv'
  <2>1. v.total \in Nat /\ v.sound \in BOOLEAN
    BY DEF Volume, AnyBytes
  <2>2. CASE Called("into", v, size, "no memory", 0, 0)
    BY <2>2, Judged, NothingAsked, HeaderAsked DEF Callees
  <2>3. CASE Filled(v, size) /\ Called("into", v, size, "returned", v.total, 0)
    BY <2>1, <2>3, Judged, NothingAsked, HeaderAsked DEF Callees, Filled, Decodes
  <2>4. CASE ~Filled(v, size) /\ Called("into", v, size, "refused", 0, 0)
    <3>1. ~(v.sound /\ v.total = size)
      BY <2>1, <2>4 DEF Filled, Decodes
    <3> QED
      BY <2>4, <3>1, Judged, NothingAsked, HeaderAsked DEF Callees
  <2> QED
    BY <2>2, <2>3, <2>4 DEF DecompressInto, Ends
<1>2. contexts' \in [c : 0 .. 1, d : 0 .. 1]
  BY ContextKept DEF DecompressInto, ZstdInv
<1> QED
  BY <1>1, <1>2 DEF ZstdInv, StateInv, DecompressInto

-----------------------------------------------------------------------------
(* The compressors: what they leave is a frame, or nothing.                *)
LEMMA FrameIs ==
    ASSUME NEW len \in Nat, NEW v \in Frames(len)
    PROVE  /\ Volume(v) /\ Exact(v)
           /\ v.size \in Nat /\ v.size <= FrameBound(len)
<1>1. /\ v.size \in Nat /\ v.header = len /\ v.total = len /\ v.sound = TRUE
      /\ v.size \in FrameHeader .. CompressBound(len) /\ CanHold(v.size, len)
      /\ v \in [size : FrameSizes, header : {len}, total : {len}, sound : {TRUE}]
  BY ZstdAssumption DEF Frames
<1>2. v \in AnyBytes
  BY <1>1, ZstdAssumption DEF AnyBytes
<1>3. v.size <= FrameBound(len)
  BY <1>1, ZstdAssumption DEF FrameBound, CompressBound
<1>4. v.header >= 0 /\ v.total >= v.header
  BY <1>1
<1> QED
  BY <1>1, <1>2, <1>3, <1>4 DEF Volume, Exact

LEMMA NothingIsVolume == Volume(Nothing)
BY DEF Nothing, Volume, AnyBytes, CONTENTSIZE_ERROR

LEMMA Encoded ==
    ASSUME NEW fn \in {"compress class", "compress", "compress into"}, NEW v, Volume(v),
           NEW limit \in Nat, NEW given \in Nat,
           NEW end \in {"returned", "refused", "no memory", "compressing"},
           Called(fn, v, limit, end, given, 0),
           end = "compressing" => fn = "compress",
           fn = "compress into" /\ end = "returned" => given <= limit /\ Exact(v),
           fn = "compress into" /\ end = "refused" => limit < FrameBound(given)
    PROVE  CallInv'
<1>1. /\ CallOK'
      /\ call'.fn = fn /\ call'.volume = v /\ call'.limit = limit
      /\ call'.end = end /\ call'.given = given /\ call'.asked = 0
  <2>1. fn \in Callees /\ 0 \in Nat
    BY DEF Callees
  <2>2. end \in {"returned", "corrupt", "failed", "refused", "no memory", "compressing"}
    OBVIOUS
  <2> QED
    BY <2>1, <2>2, CallIs
<1>2. SameResults'
  BY <1>1 DEF SameResults
<1>3. FramesIntoBuffer'
  BY <1>1 DEF FramesIntoBuffer
<1>4. AsksLittle'
  <2>1. 0 \in Nat /\ Asked(v, 0)
    BY NothingAsked
  <2>2. 0 < Ratio * (v.size + 1)
    BY <2>1, AskedIsBounded
  <2> QED
    BY <1>1, <2>2 DEF AsksLittle
<1> QED
  BY <1>1, <1>2, <1>3, <1>4 DEF CallInv

LEMMA StepCompressClass ==
    ASSUME ZstdInv, NEW len \in Nat, CompressClass(len)
    PROVE  ZstdInv'
<1>1. CASE Called("compress class", Nothing, len, "no memory", 0, 0)
  BY <1>1, NothingIsVolume, Encoded DEF CompressClass, ZstdInv, StateInv
<1>2. ASSUME NEW v \in Frames(len), Called("compress class", v, len, "returned", v.size, 0)
      PROVE  ZstdInv'
  BY <1>2, FrameIs, Encoded DEF CompressClass, ZstdInv, StateInv
<1> QED
  BY <1>1, <1>2 DEF CompressClass, Ends

LEMMA StepCompressEnter ==
    ASSUME ZstdInv, NEW len \in Nat, CompressEnter(len)
    PROVE  ZstdInv'
<1>1. CallInv'
  <2>1. CASE Called("compress", Nothing, len, "no memory", 0, 0)
    BY <2>1, NothingIsVolume, Encoded
  <2>2. ASSUME NEW v \in Frames(len), Called("compress", v, len, "compressing", v.size, 0)
        PROVE  CallInv'
    BY <2>2, FrameIs, Encoded
  <2> QED
    BY <2>1, <2>2 DEF CompressEnter, Ends
<1>2. contexts' \in [c : 0 .. 1, d : 0 .. 1]
  BY ContextKept DEF CompressEnter, ZstdInv
<1> QED
  BY <1>1, <1>2 DEF ZstdInv, StateInv, CompressEnter

LEMMA StepCompressLeave ==
    ASSUME ZstdInv, CompressLeave
    PROVE  ZstdInv'
<1>1. call.fn = "compress"
  BY DEF ZstdInv, CallInv, CallOK, CompressLeave
<1>2. /\ call'.fn = "compress" /\ call'.volume = call.volume /\ call'.asked = call.asked
      /\ call'.limit = call.limit
      /\ call' \in [fn : Callees, volume : AnyBytes, limit : Nat, given : Nat, asked : Nat,
                     end : {"returned", "no memory"}]
  BY <1>1 DEF ZstdInv, CallInv, CallOK, CompressLeave
<1>3. CallInv'
  BY <1>1, <1>2 DEF ZstdInv, CallInv, CallOK, AsksLittle, SameResults, FramesIntoBuffer, Compressing
<1> QED
  BY <1>3 DEF ZstdInv, StateInv, CompressLeave

LEMMA StepCompressInto ==
    ASSUME ZstdInv, NEW len \in Nat, NEW capacity \in Nat, CompressInto(len, capacity)
    PROVE  ZstdInv'
<1>1. CallInv'
  <2>1. CASE Called("compress into", Nothing, capacity, "no memory", 0, 0)
    BY <2>1, NothingIsVolume, Encoded
  <2>2. ASSUME NEW tooSmall \in BOOLEAN, tooSmall => capacity < FrameBound(len),
               Called("compress into", Nothing, capacity, OnError(tooSmall), len, 0)
        PROVE  CallInv'
    <3>1. CASE tooSmall
      BY <2>2, <3>1, NothingIsVolume, Encoded DEF OnError
    <3>2. CASE ~tooSmall
      BY <2>2, <3>2, NothingIsVolume, Encoded DEF OnError
    <3> QED
      BY <3>1, <3>2
  <2>3. ASSUME NEW v \in Frames(len), v.size <= capacity,
               Called("compress into", v, capacity, "returned", v.size, 0)
        PROVE  CallInv'
    BY <2>3, FrameIs, Encoded
  <2> QED
    BY <2>1, <2>2, <2>3 DEF CompressInto, Ends
<1>2. contexts' \in [c : 0 .. 1, d : 0 .. 1]
  BY ContextKept DEF CompressInto, ZstdInv
<1> QED
  BY <1>1, <1>2 DEF ZstdInv, StateInv, CompressInto

-----------------------------------------------------------------------------
LEMMA StepFrames ==
    ASSUME ZstdInv, ZstdNext
    PROVE  ZstdInv'
<1> USE CallerAssumption
<1>1. CASE CompressLeave
  BY <1>1, StepCompressLeave
<1>2. ASSUME NEW len \in Contents, CompressClass(len) \/ CompressEnter(len)
      PROVE  ZstdInv'
  BY <1>2, StepCompressClass, StepCompressEnter
<1>3. ASSUME NEW len \in Contents, NEW room \in Limits, CompressInto(len, room)
      PROVE  ZstdInv'
  BY <1>3, StepCompressInto
<1>4. ASSUME NEW v \in Volumes \cup {call.volume}
      PROVE  Volume(v)
  BY DEF ZstdInv, CallInv, CallOK
<1>5. ASSUME NEW v \in Volumes \cup {call.volume},
             DecompressClass(v) \/ Decompress(v) \/ DecompressReuse(v)
      PROVE  ZstdInv'
  BY <1>4, <1>5, StepClass, StepString, StepReuse
<1>6. ASSUME NEW v \in Volumes \cup {call.volume}, NEW limit \in Limits,
             DecompressLimited(v, limit) \/ DecompressInto(v, limit)
      PROVE  ZstdInv'
  BY <1>4, <1>6, StepLimited, StepInto
<1> QED
  BY <1>1, <1>2, <1>3, <1>5, <1>6 DEF ZstdNext

(* The thread's other calls leave zstd's state alone.                      *)
LEMMA InitZstd == Init => ZstdInv
<1> SUFFICES ASSUME Init PROVE ZstdInv
  OBVIOUS
<1>1. StateInv /\ call = NoCall
  BY DEF Init, ZstdInit, StateInv
<1>2. 0 < Ratio * (Nothing.size + 1)
  BY NothingIsVolume, NothingAsked, AskedIsBounded
<1>3. CallInv
  BY <1>1, <1>2, NothingIsVolume
  DEF CallInv, CallOK, Callees, Volume, AsksLittle, SameResults, FramesIntoBuffer, NoCall, Compressing
<1> QED
  BY <1>1, <1>3 DEF ZstdInv

LEMMA OtherCall ==
    ASSUME ZstdInv, call' = NoCall, UNCHANGED <<contexts, string>>
    PROVE  ZstdInv'
<1>1. 0 < Ratio * (Nothing.size + 1)
  BY NothingIsVolume, NothingAsked, AskedIsBounded
<1>2. CallInv'
  BY <1>1, NothingIsVolume
  DEF CallInv, CallOK, Callees, Volume, AsksLittle, SameResults, FramesIntoBuffer, NoCall, Compressing
<1> QED
  BY <1>2 DEF ZstdInv, StateInv

LEMMA KeptZstd ==
    ASSUME ZstdInv, UNCHANGED zstdVars
    PROVE  ZstdInv'
BY DEF ZstdInv, StateInv, CallInv, CallOK, AsksLittle, SameResults, FramesIntoBuffer,
       Compressing, zstdVars

LEMMA StepZstd ==
    ASSUME ZstdInv, [Next]_vars
    PROVE  ZstdInv'
<1>1. CASE call' = NoCall /\ UNCHANGED <<contexts, string>>
  BY <1>1, OtherCall
<1>2. CASE CompressLeave
  BY <1>2, StepCompressLeave
<1>3. ASSUME NEW size \in Contents, CompressEnter(size)
      PROVE  ZstdInv'
  BY <1>3, CallerAssumption, StepCompressEnter
<1>4. CASE ZstdNext
  BY <1>4, StepFrames
<1>5. CASE UNCHANGED zstdVars
  BY <1>5, KeptZstd
<1> QED
  BY <1>1, <1>2, <1>3, <1>4, <1>5 DEF Next, vars

THEOREM ZstdInvariant == Spec => []ZstdInv
BY InitZstd, StepZstd, PTL DEF Spec

(* compressor_zstd.h:261, 266: the three decoders of strings and the class *)
(* agree about every volume, in every order of a thread's calls.           *)
THEOREM DecodersAgree == Spec => []SameResults
<1>1. ZstdInv => SameResults
  BY DEF ZstdInv, CallInv
<1> QED
  BY <1>1, ZstdInvariant, PTL

-----------------------------------------------------------------------------
LEMMA CallNamed ==
    ASSUME NEW fn, NEW v, NEW limit, NEW end, NEW given, NEW asked,
           Called(fn, v, limit, end, given, asked)
    PROVE  call'.fn = fn /\ call'.volume = v /\ call'.asked = asked
BY DEF Called

(* Only the decoder into a string asks for more than the string has, and   *)
(* not for what the string has held.                                       *)
LEMMA ReuseAsksNothing ==
    ASSUME ZstdInv, NEW v, Volume(v), DecompressReuse(v), v.header <= string.held
    PROVE  call'.asked = 0
<1>1. CASE Refused(v)
  BY <1>1, CallNamed DEF DecompressReuse, Ends
<1>2. CASE ~Refused(v)
  <2>1. v.header \in Nat
    BY <1>2, ReadIsRecorded
  <2>2. Capacity(v.header) = string.capacity
    BY <2>1 DEF Capacity, ZstdInv, StateInv
  <2> QED
    BY <1>2, <2>2, CallNamed DEF DecompressReuse, DecompressFrame, Ends
<1> QED
  BY <1>1, <1>2

(* Every other function's call bears that function's name.                 *)
LEMMA NameOfClass ==
    ASSUME NEW v, DecompressClass(v)
    PROVE  call'.fn = "class"
BY CallNamed DEF DecompressClass, Ends

LEMMA NameOfString ==
    ASSUME NEW v, Decompress(v)
    PROVE  call'.fn = "string"
BY CallNamed DEF Decompress, DecompressFrame, Ends

LEMMA NameOfReuse ==
    ASSUME NEW v, DecompressReuse(v)
    PROVE  call'.volume = v
BY CallNamed DEF DecompressReuse, DecompressFrame, Ends

LEMMA NameOfLimited ==
    ASSUME NEW v, NEW max, DecompressLimited(v, max)
    PROVE  call'.fn = "limited"
BY CallNamed DEF DecompressLimited, DecompressFrame, Ends

LEMMA NameOfInto ==
    ASSUME NEW v, NEW size, DecompressInto(v, size)
    PROVE  call'.fn = "into"
BY CallNamed DEF DecompressInto, Ends

LEMMA NameOfCompressors ==
    ASSUME NEW len, NEW room
    PROVE  /\ CompressClass(len) => call'.fn = "compress class"
           /\ CompressEnter(len) => call'.fn = "compress"
           /\ CompressInto(len, room) => call'.fn = "compress into"
<1>1. CompressClass(len) => call'.fn = "compress class"
  BY CallNamed DEF CompressClass, Ends
<1>2. CompressEnter(len) => call'.fn = "compress"
  BY CallNamed DEF CompressEnter, Ends
<1>3. CompressInto(len, room) => call'.fn = "compress into"
  BY CallNamed DEF CompressInto, Ends
<1> QED
  BY <1>1, <1>2, <1>3

LEMMA ReuseOnly ==
    ASSUME ZstdInv, ZstdNext, call'.fn = "reuse"
    PROVE  \E v : Volume(v) /\ DecompressReuse(v) /\ call'.volume = v
<1>1. ~CompressLeave
  BY DEF CompressLeave, Compressing, ZstdInv, CallInv, CallOK
<1>2. PICK v \in Volumes \cup {call.volume} : DecompressReuse(v)
  BY <1>1, NameOfClass, NameOfString, NameOfLimited, NameOfInto, NameOfCompressors DEF ZstdNext
<1>3. Volume(v)
  BY <1>2, CallerAssumption DEF ZstdInv, CallInv, CallOK
<1> QED
  BY <1>2, <1>3, NameOfReuse

LEMMA OthersAskNothing ==
    ASSUME ZstdInv, Next, call'.fn = "reuse"
    PROVE  ZstdNext \/ UNCHANGED zstdVars
<1>1. call' # NoCall
  BY DEF NoCall
<1>2. ~CompressLeave
  BY DEF CompressLeave, Compressing, ZstdInv, CallInv, CallOK
<1>3. \A size \in Contents : ~CompressEnter(size)
  BY NameOfCompressors
<1> QED
  BY <1>1, <1>2, <1>3 DEF Next

(* compressor_zstd.cc:138, compressor_zstd.h:270: a context of each kind,  *)
(* no allocation for a string that has held as much, and none that the     *)
(* volume's own length does not bound.                                     *)
THEOREM MemoryIsBounded == Spec => AllocatesLittle
<1>1. ASSUME ZstdInv, ZstdInv', [Next]_vars
      PROVE  [/\ contexts'.c <= 1 /\ contexts'.d <= 1
              /\ call'.fn = "reuse" /\ call'.volume.header <= string.held => call'.asked = 0
              /\ call'.asked < Ratio * (call'.volume.size + 1)
              /\ call'.fn = "limited" => call'.asked <= call'.limit]_zstdVars
  <2>1. contexts'.c <= 1 /\ contexts'.d <= 1
    BY <1>1 DEF ZstdInv, StateInv
  <2>2. /\ call'.asked < Ratio * (call'.volume.size + 1)
        /\ call'.fn = "limited" => call'.asked <= call'.limit
    BY <1>1 DEF ZstdInv, CallInv, AsksLittle
  <2>3. ASSUME ~UNCHANGED zstdVars, call'.fn = "reuse", call'.volume.header <= string.held
        PROVE  call'.asked = 0
    <3>1. Next
      BY <1>1, <2>3 DEF vars
    <3>2. PICK v : Volume(v) /\ DecompressReuse(v) /\ call'.volume = v
      BY <1>1, <2>3, <3>1, OthersAskNothing, ReuseOnly
    <3> QED
      BY <1>1, <2>3, <3>2, ReuseAsksNothing
  <2> QED
    BY <2>1, <2>2, <2>3
<1> QED
  BY <1>1, ZstdInvariant, PTL DEF Spec, AllocatesLittle

-----------------------------------------------------------------------------
(* Raw LZ4 blocks: an int holds what is handed to the library.             *)
LEMMA AsIntIs ==
    ASSUME NEW size \in 0 .. IntMax
    PROVE  AsInt(size) = size
<1> DEFINE a == size + IntMax + 1
<1>1. a \in Nat /\ 2 * (IntMax + 1) \in Nat \ {0} /\ a < 2 * (IntMax + 1)
  BY BlockAssumption
<1>2. a % (2 * (IntMax + 1)) = a
  <2> HIDE DEF a
  <2> DEFINE m == 2 * (IntMax + 1)
  <2>1. m \in Nat \ {0} /\ a \in Nat /\ a < m
    BY <1>1
  <2> HIDE DEF m
  <2>2. a % m = a
    BY <2>1
  <2> QED
    BY <2>2 DEF m
<1> QED
  BY <1>2, BlockAssumption DEF AsInt

LEMMA StepCompressBlock ==
    ASSUME NEW size \in Nat, NEW capacity \in Nat, CompressBlock(size, capacity)
    PROVE  BlocksIntoBuffer'
<1> USE BlockAssumption
<1>1. /\ CapacityInt(capacity) \in Nat
      /\ CapacityInt(capacity) <= capacity
      /\ capacity > IntMax => CapacityInt(capacity) = IntMax
      /\ ~(capacity > IntMax) => CapacityInt(capacity) = capacity
  BY AsIntIs DEF CapacityInt
<1>2. PICK len : /\ len \in IF blockState' = "null" \/ size > InputMax THEN {0}
                             ELSE Compressed(size, CapacityInt(capacity))
                 /\ blockCall' = [fn |-> "compress", size |-> capacity, n |-> len,
                                  stream |-> [size |-> size, total |-> size, sound |-> TRUE]]
  BY DEF CompressBlock
<1>3. /\ blockCall'.fn = "compress" /\ blockCall'.size = capacity
      /\ blockCall'.n = len /\ blockCall'.stream.size = size
  BY <1>2
<1>4. /\ len <= capacity
      /\ len = 0 => \/ blockState' = "null" \/ size > InputMax
                    \/ capacity < BlockBound(size)
  <2>1. CASE blockState' = "null" \/ size > InputMax
    BY <1>2, <2>1
  <2>2. CASE blockState' # "null" /\ ~(size > InputMax)
    <3>1. BlockBound(size) \in Nat /\ BlockBound(size) <= IntMax
      BY <2>2 DEF BlockBound
    <3> QED
      BY <1>1, <1>2, <2>2, <3>1 DEF Compressed
  <2> QED
    BY <2>1, <2>2
<1> QED
  BY <1>3, <1>4 DEF BlocksIntoBuffer

LEMMA StepDecompressBlock ==
    ASSUME NEW v \in Streams, NEW size \in Nat, DecompressBlock(v, size)
    PROVE  BlocksIntoBuffer'
<1> USE BlockAssumption
<1>1. v.size \in Nat /\ v.total \in Nat /\ v.sound \in BOOLEAN
  OBVIOUS
<1>2. PICK len : /\ len \in IF OutOfRange(v, size) THEN {-1}
                             ELSE DecompressSafe(v, AsInt(v.size), AsInt(size))
                 /\ blockCall' = [fn |-> "decompress", stream |-> v, size |-> size,
                                  n |-> IF len = size THEN len ELSE -1]
  BY DEF DecompressBlock
<1>3. /\ blockCall'.fn = "decompress" /\ blockCall'.size = size
      /\ blockCall'.n = (IF len = size THEN len ELSE -1) /\ blockCall'.stream = v
  BY <1>2
<1>4. CASE OutOfRange(v, size)
  <2>1. len = -1 /\ (size > IntMax \/ v.size > IntMax)
    BY <1>2, <1>4 DEF OutOfRange
  <2> QED
    BY <1>3, <2>1 DEF BlocksIntoBuffer
<1>5. CASE ~OutOfRange(v, size)
  <2>1. AsInt(v.size) = v.size /\ AsInt(size) = size
    BY <1>1, <1>5, AsIntIs DEF OutOfRange
  <2>2. len \in IF v.sound /\ v.total <= size THEN {v.total} ELSE {-1}
    BY <1>2, <1>5, <2>1 DEF DecompressSafe
  <2>3. CASE v.sound /\ v.total = size
    BY <1>1, <1>3, <2>2, <2>3 DEF BlocksIntoBuffer
  <2>4. CASE ~(v.sound /\ v.total = size)
    <3>1. len # size
      BY <1>1, <2>2, <2>4
    <3> QED
      BY <1>1, <1>3, <2>4, <3>1 DEF BlocksIntoBuffer
  <2> QED
    BY <2>3, <2>4
<1> QED
  BY <1>4, <1>5

(* The caller's buffers, for every width of an int and every size: what is *)
(* written fits, and `true' means exactly what was asked for.              *)
THEOREM BuffersAreKept == Spec => []IntoBuffer
<1>1. Init => BlocksIntoBuffer
  BY DEF Init, BlockInit, BlocksIntoBuffer
<1>2. BlocksIntoBuffer /\ [Next]_vars => BlocksIntoBuffer'
  <2> SUFFICES ASSUME BlocksIntoBuffer, [Next]_vars PROVE BlocksIntoBuffer'
    OBVIOUS
  <2> USE BlockAssumption
  <2>1. ASSUME NEW size \in Sizes, NEW capacity \in Sizes, CompressBlock(size, capacity)
        PROVE  BlocksIntoBuffer'
    BY <2>1, StepCompressBlock
  <2>2. ASSUME NEW v \in Streams, NEW size \in Sizes, DecompressBlock(v, size)
        PROVE  BlocksIntoBuffer'
    BY <2>2, StepDecompressBlock
  <2>3. CASE UNCHANGED blockVars
    BY <2>3 DEF blockVars, BlocksIntoBuffer
  <2> QED
    BY <2>1, <2>2, <2>3 DEF Next, vars, BlockNext
<1>3. ZstdInv /\ BlocksIntoBuffer => IntoBuffer
  BY DEF ZstdInv, CallInv, IntoBuffer
<1> QED
  BY <1>1, <1>2, <1>3, ZstdInvariant, PTL DEF Spec

-----------------------------------------------------------------------------
(* What compress_lz4 and compress_zstd ask Scratch for.                    *)
LEMMA NeedsAreLengths ==
    /\ \A size \in Nat : OutSize(size) \in Nat
    /\ \A size \in Contents : FrameBound(size) \in Nat
<1>1. ASSUME NEW size \in Nat PROVE OutSize(size) \in Nat
  <2>1. size + Block - 1 \in Nat
    BY OneShotAssumption
  <2>2. BlockCount(size) \in Nat
    BY <2>1, Quotient, OneShotAssumption DEF BlockCount
  <2> QED
    BY <2>2, OneShotAssumption DEF OutSize
<1>2. ASSUME NEW size \in Contents PROVE FrameBound(size) \in Nat
  BY CallerAssumption, ZstdAssumption DEF FrameBound, CompressBound
<1> QED
  BY <1>1, <1>2

LEMMA StepScratch ==
    ASSUME [Next]_vars
    PROVE  [ScratchNext]_scratchVars
<1>1. ASSUME NEW need \in Nat, Acquire(need) \/ Refuse(need)
      PROVE  ScratchNext
  BY <1>1 DEF ScratchNext
<1>2. CASE LZ4Next
  <2>1. ASSUME NEW size \in 1 .. MaxInput, Call(size) \/ CallRefused(size)
        PROVE  ScratchNext
    <3>1. size \in Nat
      BY OneShotAssumption
    <3>2. Acquire(OutSize(size)) \/ Refuse(OutSize(size))
      BY <2>1 DEF Call, CallRefused
    <3> QED
      BY <1>1, <3>1, <3>2, NeedsAreLengths
  <2>2. CallEmpty => UNCHANGED scratchVars
    BY DEF CallEmpty, scratchVars
  <2>3. DirectBlock \/ RingBlock => UNCHANGED scratchVars
    BY DEF DirectBlock, RingBlock, CompressAt, scratchVars
  <2>4. AllocateRing \/ Return \/ Throw => UNCHANGED scratchVars
    BY DEF AllocateRing, Return, Throw, scratchVars
  <2>5. Leave => ScratchNext
    BY DEF Leave, ScratchNext
  <2> QED
    BY <1>2, <2>1, <2>2, <2>3, <2>4, <2>5 DEF LZ4Next
<1>3. ASSUME NEW size \in Contents, CompressEnter(size)
      PROVE  [ScratchNext]_scratchVars
  BY <1>1, <1>3, NeedsAreLengths DEF CompressEnter, Ends
<1>4. CompressLeave => ScratchNext
  BY DEF CompressLeave, ScratchNext
<1>5. CASE ZstdNext
  <2>1. ASSUME NEW size, CompressClass(size) PROVE UNCHANGED scratchVars
    BY <2>1 DEF CompressClass, Ends
  <2>2. ASSUME NEW size, NEW room, CompressInto(size, room) PROVE UNCHANGED scratchVars
    BY <2>2 DEF CompressInto, Ends
  <2>3. ASSUME NEW v, DecompressClass(v) \/ Decompress(v) \/ DecompressReuse(v)
        PROVE  UNCHANGED scratchVars
    BY <2>3 DEF DecompressClass, Decompress, DecompressReuse, DecompressFrame, Ends
  <2>4. ASSUME NEW v, NEW limit, DecompressLimited(v, limit) \/ DecompressInto(v, limit)
        PROVE  UNCHANGED scratchVars
    BY <2>4 DEF DecompressLimited, DecompressInto, DecompressFrame, Ends
  <2> QED
    BY <1>3, <1>4, <1>5, <2>1, <2>2, <2>3, <2>4 DEF ZstdNext
<1>6. CASE UNCHANGED scratchVars
  BY <1>6
<1> QED
  BY <1>2, <1>3, <1>4, <1>5, <1>6 DEF Next, vars

(* compress_lz4 and compress_zstd, refused, thrown out of or returned      *)
(* from, use Scratch only as its own specification has it.                 *)
THEOREM CallsAreScratch == Spec => ScratchSpec
<1>1. Init => ScratchInit
  BY DEF Init
<1> QED
  BY <1>1, StepScratch, PTL DEF Spec, ScratchSpec

(* compressor_scratch.h:33: whatever the two codecs leave each other.      *)
THEOREM RoomForEveryCall == Spec => []RoomEnough
BY CallsAreScratch, RoomIsEnough, PTL

-----------------------------------------------------------------------------
(* compress_lz4 keeps the layout of the class.  While the caller's buffer  *)
(* is compressed in place, the dictionary is all of it so far; the ring    *)
(* begins with that buffer for its dictionary, and has then its own front  *)
(* like the class's: the segment being filled, or all of the last.         *)
InCall == pc \in {"direct", "ring"}

RecordType == [len : 1 .. Block, refs : Seq(Int)]

FieldsInv ==
    /\ mem \in [0 .. (RingAt + RingBytes - 1) -> Int]
    /\ n \in 0 .. MaxInput
    /\ off \in Nat /\ roff \in Nat /\ pos \in Nat /\ start \in Nat
    /\ dict \in [lo : Nat, hi : Nat]
    /\ out \in Seq(RecordType)
    /\ pc \in {"idle", "direct", "ring", "leave"}

ThreadInv == pc # "idle" => uses = "compressors" /\ ~Compressing

ProgressInv ==
    InCall =>
        /\ memory.need = OutSize(n)
        /\ off <= n /\ pos = start + off
        /\ off < n => off = Len(out) * Block

DirectInv ==
    pc = "direct" =>
        /\ roff = 0
        /\ dict = [lo |-> 0, hi |-> off]
        /\ \A a \in 0 .. (n - 1) : mem[a] = start + a

RingInv ==
    pc = "ring" =>
        /\ off >= Wrap /\ roff < Wrap
        /\ \/ roff = 0 /\ dict = [lo |-> 0, hi |-> off]
           \/ roff > 0 /\ dict = [lo |-> RingAt, hi |-> RingAt + roff]
           \/ /\ roff = 0 /\ dict.lo = RingAt
              /\ dict.hi \in (RingAt + Wrap) .. (RingAt + RingBytes - 1)
        /\ \A a \in dict.lo .. (dict.hi - 1) : mem[a] = pos - dict.hi + a

CallInvariant == FieldsInv /\ ThreadInv /\ ProgressInv /\ DirectInv /\ RingInv

-----------------------------------------------------------------------------
LEMMA LengthIs ==
    ASSUME FieldsInv, off < n
    PROVE  /\ BlockLength \in 1 .. Block
           /\ off + BlockLength <= n
           /\ off + BlockLength < n => BlockLength = Block
BY OneShotAssumption DEF FieldsInv, BlockLength, Least

(* What a block may refer to, in place and through the ring.               *)
LEMMA DirectRefs ==
    ASSUME CallInvariant, pc = "direct", off < n
    PROVE  Refs(mem, Untouched(dict, off, BlockLength))
             = [d \in 1 .. Least(Window, Size(dict)) |-> pos - d]
<1> USE OneShotAssumption DEF CallInvariant
<1> DEFINE len == BlockLength
<1>1. dict = [lo |-> 0, hi |-> off] /\ off \in Nat /\ n \in Nat /\ start \in Nat
  BY DEF DirectInv, FieldsInv
<1>2. pos = start + off
  BY DEF ProgressInv, InCall
<1>3. len \in Nat
  BY LengthIs
<1> HIDE DEF len
<1>4. Untouched(dict, off, len) = dict
  BY <1>1, <1>3 DEF Untouched
<1>5. ASSUME NEW d \in 1 .. Least(Window, Size(dict)) PROVE mem[dict.hi - d] = pos - d
  <2>1. d \in Nat /\ 1 <= d /\ d <= off
    BY <1>1 DEF Least, Size
  <2>2. off - d \in 0 .. (n - 1)
    BY <1>1, <2>1
  <2>3. mem[off - d] = start + (off - d)
    BY <2>2 DEF DirectInv
  <2> QED
    BY <1>1, <1>2, <2>1, <2>3
<1> QED
  BY <1>4, <1>5 DEF Refs, len

LEMMA RingRefs ==
    ASSUME CallInvariant, pc = "ring", off < n,
           mem' = Written(mem, RingAt + roff, start + off, BlockLength)
    PROVE  Refs(mem', Untouched(dict, RingAt + roff, BlockLength))
             = [d \in 1 .. Least(Window, Size(dict)) |-> pos - d]
<1> USE OneShotAssumption DEF CallInvariant
<1> DEFINE len == BlockLength
           u == Untouched(dict, RingAt + roff, len)
<1>1. len \in Nat /\ 1 <= len /\ len <= Block
  BY LengthIs
<1> HIDE DEF len
<1>2. /\ off \in Nat /\ n \in Nat /\ pos \in Nat /\ roff \in Nat
      /\ dict.lo \in Nat /\ dict.hi \in Nat /\ RingAt \in Nat /\ RingBytes \in Nat
      /\ n < RingAt /\ RingBytes = Wrap + Block
  BY DEF FieldsInv, RingAt, RingBytes
<1>3. /\ Least(Window, Size(u)) = Least(Window, Size(dict)) /\ u.hi = dict.hi
      /\ \A d \in 1 .. Least(Window, Size(dict)) :
            dict.hi - d \notin (RingAt + roff) .. (RingAt + roff + len - 1)
  <2>1. CASE roff = 0 /\ dict = [lo |-> 0, hi |-> off]
    <3>1. u = dict
      BY <1>1, <1>2, <2>1 DEF Untouched
    <3>2. Least(Window, Size(dict)) \in Int
      BY <1>2 DEF Least, Size
    <3> QED
      BY <1>2, <2>1, <3>1, <3>2
  <2>2. CASE roff > 0 /\ dict = [lo |-> RingAt, hi |-> RingAt + roff]
    <3>1. u = dict
      BY <1>1, <1>2, <2>2 DEF Untouched
    <3>2. Least(Window, Size(dict)) \in Int
      BY <1>2 DEF Least, Size
    <3> QED
      BY <1>2, <2>2, <3>1, <3>2
  <2>3. CASE /\ roff = 0 /\ dict.lo = RingAt
             /\ dict.hi \in (RingAt + Wrap) .. (RingAt + RingBytes - 1)
    <3>1. u = [lo |-> RingAt + len, hi |-> dict.hi]
      BY <1>1, <1>2, <2>3 DEF Untouched
    <3>2. /\ Size(u) \in Int /\ Size(u) >= Window
          /\ Size(dict) \in Int /\ Size(dict) >= Window
      BY <1>1, <1>2, <2>3, <3>1 DEF Size
    <3>3. Least(Window, Size(u)) = Window /\ Least(Window, Size(dict)) = Window
      BY <3>2 DEF Least
    <3> QED
      BY <1>1, <1>2, <2>3, <3>1, <3>3
  <2> QED
    BY <2>1, <2>2, <2>3 DEF RingInv
<1>4. ASSUME NEW d \in 1 .. Least(Window, Size(dict)) PROVE mem'[dict.hi - d] = pos - d
  <2>1. d \in Nat /\ 1 <= d /\ dict.hi - d \in dict.lo .. (dict.hi - 1)
    BY <1>2 DEF Least, Size
  <2>2. mem[dict.hi - d] = pos - d
    BY <1>2, <2>1 DEF RingInv
  <2>3. dict.hi <= RingAt + RingBytes
    BY <1>2 DEF RingInv, ProgressInv, InCall
  <2>4. dict.hi - d \in DOMAIN mem
    BY <1>2, <2>1, <2>3 DEF FieldsInv
  <2> QED
    BY <1>3, <2>2, <2>4 DEF Written, len
<1> QED
  BY <1>3, <1>4 DEF Refs, len

-----------------------------------------------------------------------------
LEMMA InitCall == Init => CallInvariant
BY OneShotAssumption
   DEF Init, LZ4Init, CallInvariant, FieldsInv, ThreadInv, ProgressInv, DirectInv, RingInv,
       InCall, RingAt, RingBytes, NoSpan

LEMMA AcquireNeed ==
    ASSUME NEW need, Acquire(need)
    PROVE  memory'.need = need
BY DEF Acquire, UseStack, UseCache, GrowCache, UseHeap

LEMMA StepCall ==
    ASSUME CallInvariant, uses = "compressors", uses' = uses, ~Compressing',
           NEW size \in 1 .. MaxInput, Call(size)
    PROVE  CallInvariant' /\ Layout!Restart
<1> USE OneShotAssumption DEF CallInvariant
<1>1. /\ n' = size /\ off' = 0 /\ roff' = 0 /\ dict' = NoSpan
      /\ start' = pos /\ pos' = pos /\ out' = <<>> /\ pc' = "direct"
      /\ mem' = [a \in DOMAIN mem |-> IF a < size THEN pos + a ELSE
                                      IF a < RingAt THEN -1 ELSE mem[a]]
      /\ memory'.need = OutSize(size)
  BY AcquireNeed DEF Call, EncoderReset
<1>2. DOMAIN mem = 0 .. (RingAt + RingBytes - 1) /\ size \in Nat /\ size < RingAt
  BY DEF FieldsInv, RingAt
<1>3. mem' \in [0 .. (RingAt + RingBytes - 1) -> Int]
  BY <1>1, <1>2 DEF FieldsInv
<1>4. FieldsInv'
  BY <1>1, <1>3 DEF FieldsInv, NoSpan
<1>5. ThreadInv'
  BY DEF ThreadInv
<1>6. ProgressInv'
  BY <1>1 DEF ProgressInv, FieldsInv
<1>7. DirectInv'
  <2>1. ASSUME NEW a \in 0 .. (size - 1) PROVE mem'[a] = pos + a
    <3>1. a \in DOMAIN mem /\ a < size
      BY <1>2 DEF RingAt, RingBytes
    <3> QED
      BY <1>1, <3>1
  <2> QED
    BY <1>1, <2>1 DEF DirectInv, NoSpan
<1>8. RingInv'
  BY <1>1 DEF RingInv
<1>9. Layout!Restart
  BY <1>1 DEF Layout!Restart, NoSpan, Size
<1> QED
  BY <1>4, <1>5, <1>6, <1>7, <1>8, <1>9

(* One more block of a length the input allows: what CompressAt has in     *)
(* common in place and through the ring.                                   *)
LEMMA BlockDone ==
    ASSUME CallInvariant, InCall, off < n, InCall',
           NEW src \in Nat, CompressAt(src, BlockLength),
           Refs(mem', Untouched(dict, src, BlockLength))
             = [d \in 1 .. Least(Window, Size(dict)) |-> pos - d]
    PROVE  /\ out' \in Seq(RecordType)
           /\ off' = off + BlockLength /\ pos' = pos + BlockLength
           /\ start' = start /\ n' = n
           /\ dict' = DictAfter(dict, src, BlockLength)
           /\ ProgressInv'
           /\ out' = Append(out, [len |-> BlockLength,
                                  refs |-> [d \in 1 .. Least(Window, Size(dict)) |-> pos - d]])
<1> USE OneShotAssumption DEF CallInvariant
<1> DEFINE len == BlockLength
           k == Least(Window, Size(dict))
           refs == [d \in 1 .. k |-> pos - d]
<1>1. /\ len \in 1 .. Block /\ off + len <= n
      /\ off + len < n => len = Block
  BY LengthIs
<1>2. /\ out' = Append(out, [len |-> len, refs |-> refs])
      /\ off' = off + len /\ pos' = pos + len
      /\ start' = start /\ n' = n /\ memory' = memory
      /\ dict' = DictAfter(dict, src, len)
  BY DEF CompressAt, scratchVars
<1>3. k \in Int /\ (k >= 0 \/ k < 0)
  BY DEF FieldsInv, Least, Size
<1>4. refs \in Seq(Int)
  <2>1. Size(dict) \in Nat
    BY DEF DirectInv, RingInv, InCall, FieldsInv, Size, RingAt, RingBytes
  <2>2. k \in Nat /\ pos \in Int
    BY <2>1 DEF Least, FieldsInv
  <2> HIDE DEF k
  <2> QED
    BY <2>2
<1> HIDE DEF len, k, refs
<1>5. out' \in Seq(RecordType) /\ Len(out') = Len(out) + 1
  <2>1. [len |-> len, refs |-> refs] \in RecordType
    BY <1>1, <1>4 DEF RecordType
  <2> QED
    BY <1>2, <2>1 DEF FieldsInv
<1>6. memory'.need = OutSize(n')
  BY <1>2 DEF ProgressInv
<1>7. off' <= n' /\ pos' = start' + off'
  BY <1>1, <1>2 DEF ProgressInv, FieldsInv
<1>8. off' < n' => off' = Len(out') * Block
  <2>1. SUFFICES ASSUME off + len < n PROVE off + Block = (Len(out) + 1) * Block
    BY <1>1, <1>2, <1>5
  <2>2. off = Len(out) * Block /\ Len(out) \in Nat
    BY DEF ProgressInv, FieldsInv
  <2> QED
    BY <2>2
<1> QED
  BY <1>2, <1>5, <1>6, <1>7, <1>8 DEF ProgressInv, len, k, refs

LEMMA StepDirect ==
    ASSUME CallInvariant, uses' = uses, ~Compressing', DirectBlock
    PROVE  CallInvariant' /\ Layout!Emit(BlockLength)
<1> USE OneShotAssumption DEF CallInvariant
<1> DEFINE len == BlockLength
<1>1. /\ pc = "direct" /\ off < n /\ off < Wrap /\ mem' = mem
      /\ CompressAt(off, len)
      /\ roff' = roff /\ pc' = pc
  BY DEF DirectBlock, DirectRoom
<1>2. /\ dict = [lo |-> 0, hi |-> off] /\ roff = 0
      /\ \A a \in 0 .. (n - 1) : mem[a] = start + a
  BY <1>1 DEF DirectInv
<1>3. off \in Nat /\ n \in Nat /\ pos \in Nat /\ start \in Nat /\ pos = start + off
  BY <1>1 DEF FieldsInv, ProgressInv, InCall
<1>4. len \in Nat /\ 1 <= len /\ len <= Block /\ off + len <= n
  BY <1>1, LengthIs
<1>5. Refs(mem', Untouched(dict, off, len)) = [d \in 1 .. Least(Window, Size(dict)) |-> pos - d]
  BY <1>1, DirectRefs
<1>6. /\ out' \in Seq(RecordType)
      /\ off' = off + len /\ pos' = pos + len /\ start' = start /\ n' = n
      /\ dict' = DictAfter(dict, off, len)
      /\ ProgressInv'
      /\ out' = Append(out, [len |-> len,
                             refs |-> [d \in 1 .. Least(Window, Size(dict)) |-> pos - d]])
  BY <1>1, <1>3, <1>5, BlockDone DEF InCall
<1> HIDE DEF len
<1>7. dict' = [lo |-> 0, hi |-> off + len]
  BY <1>2, <1>6 DEF DictAfter
<1>8. FieldsInv'
  BY <1>1, <1>2, <1>3, <1>4, <1>6, <1>7 DEF FieldsInv
<1>9. ThreadInv' /\ RingInv'
  BY <1>1 DEF ThreadInv, RingInv
<1>10. DirectInv'
  BY <1>1, <1>2, <1>6, <1>7 DEF DirectInv
<1>11. Layout!Emit(len)
  <2>1. Size(dict) = off /\ Size(dict') = off + len
    BY <1>2, <1>3, <1>4, <1>7 DEF Size
  <2>2. (IF off' >= Wrap THEN roff' ELSE off') = IF off + len >= Wrap THEN 0 ELSE off + len
    BY <1>1, <1>2, <1>6
  <2>3. ~(off >= Wrap)
    BY <1>1, <1>3
  <2>4. Least(Window, Size(dict)) = IF Window <= Size(dict) THEN Window ELSE Size(dict)
    BY DEF Least
  <2> QED
    BY <1>6, <2>1, <2>2, <2>3, <2>4 DEF Layout!Emit
<1> QED
  BY <1>6, <1>8, <1>9, <1>10, <1>11 DEF len

LEMMA StepRing ==
    ASSUME CallInvariant, uses' = uses, ~Compressing', RingBlock
    PROVE  CallInvariant' /\ Layout!Emit(BlockLength)
<1> USE OneShotAssumption DEF CallInvariant
<1> DEFINE len == BlockLength
           src == RingAt + roff
<1>1. /\ pc = "ring" /\ off < n
      /\ mem' = Written(mem, src, start + off, len)
      /\ CompressAt(src, len)
      /\ roff' = Advanced(roff, len) /\ pc' = pc
  BY DEF RingBlock
<1>2. /\ off \in Nat /\ n \in Nat /\ pos \in Nat /\ start \in Nat /\ pos = start + off
      /\ roff \in Nat /\ roff < Wrap /\ off >= Wrap
      /\ RingAt \in Nat /\ RingBytes = Wrap + Block /\ off < n /\ n < RingAt
      /\ dict.lo \in Nat /\ dict.hi \in Nat
  BY <1>1 DEF FieldsInv, ProgressInv, RingInv, InCall, RingAt, RingBytes
<1>3. len \in Nat /\ 1 <= len /\ len <= Block /\ off + len <= n
  BY <1>1, LengthIs
<1>4. Refs(mem', Untouched(dict, src, len)) = [d \in 1 .. Least(Window, Size(dict)) |-> pos - d]
  BY <1>1, RingRefs
<1>5. src \in Nat
  BY <1>2
<1>6. /\ out' \in Seq(RecordType)
      /\ off' = off + len /\ pos' = pos + len /\ start' = start /\ n' = n
      /\ dict' = DictAfter(dict, src, len)
      /\ ProgressInv'
      /\ out' = Append(out, [len |-> len,
                             refs |-> [d \in 1 .. Least(Window, Size(dict)) |-> pos - d]])
  BY <1>1, <1>4, <1>5, BlockDone DEF InCall
<1> HIDE DEF len
<1>7. dict' = [lo |-> RingAt, hi |-> src + len]
  <2>1. CASE roff = 0 /\ dict = [lo |-> 0, hi |-> off]
    <3>1. dict.hi # src
      BY <1>2, <2>1
    <3> QED
      BY <1>2, <1>6, <2>1, <3>1 DEF DictAfter
  <2>2. CASE roff > 0 /\ dict = [lo |-> RingAt, hi |-> RingAt + roff]
    BY <1>6, <2>2 DEF DictAfter
  <2>3. CASE /\ roff = 0 /\ dict.lo = RingAt
             /\ dict.hi \in (RingAt + Wrap) .. (RingAt + RingBytes - 1)
    <3>1. dict.hi # src
      BY <1>2, <2>3
    <3> QED
      BY <1>2, <1>6, <2>3, <3>1 DEF DictAfter
  <2> QED
    BY <1>1, <2>1, <2>2, <2>3 DEF RingInv
<1>8. mem' \in [0 .. (RingAt + RingBytes - 1) -> Int]
  BY <1>1, <1>2, <1>5 DEF FieldsInv, Written
<1>9. FieldsInv'
  <2>1. roff' \in Nat
    BY <1>1, <1>2, <1>3 DEF Advanced
  <2>2. src + len \in Nat
    BY <1>3, <1>5
  <2> HIDE DEF src
  <2> QED
    BY <1>1, <1>2, <1>3, <1>6, <1>7, <1>8, <2>1, <2>2 DEF FieldsInv
<1>10. ThreadInv' /\ DirectInv'
  BY <1>1 DEF ThreadInv, DirectInv
<1>11. ASSUME NEW a \in RingAt .. (src + len - 1)
       PROVE  mem'[a] = pos + len - (src + len) + a
  <2>1. a \in Nat /\ a \in DOMAIN mem
    BY <1>2, <1>3 DEF FieldsInv
  <2>2. CASE a >= src
    <3>1. a \in src .. (src + len - 1)
      BY <1>3, <1>5, <2>1, <2>2
    <3>2. mem'[a] = start + off + (a - src)
      BY <1>1, <2>1, <3>1 DEF Written
    <3> HIDE DEF src
    <3> QED
      BY <1>2, <1>3, <1>5, <2>1, <3>2
  <2>3. CASE a < src
    <3>1. dict.lo = RingAt /\ dict.hi = src
      BY <1>1, <1>2, <2>1, <2>3 DEF RingInv
    <3>2. mem[a] = pos - src + a
      BY <1>1, <1>2, <2>1, <2>3, <3>1 DEF RingInv
    <3>3. mem'[a] = mem[a]
      BY <1>1, <1>5, <2>1, <2>3 DEF Written
    <3> HIDE DEF src
    <3> QED
      BY <1>2, <1>3, <1>5, <2>1, <3>2, <3>3
  <2> QED
    BY <1>5, <2>1, <2>2, <2>3
<1>12. RingInv'
  <2>1. dict'.lo = RingAt /\ dict'.hi = src + len
    BY <1>7
  <2>2. \A a \in dict'.lo .. (dict'.hi - 1) : mem'[a] = pos' - dict'.hi + a
    <3> SUFFICES ASSUME NEW a \in dict'.lo .. (dict'.hi - 1)
                 PROVE  mem'[a] = pos' - dict'.hi + a
      OBVIOUS
    <3> HIDE DEF src
    <3>1. a \in RingAt .. (src + len - 1)
      BY <1>2, <1>3, <1>5, <2>1
    <3>2. mem'[a] = pos + len - (src + len) + a
      BY <1>11, <3>1
    <3>3. pos' = pos + len /\ dict'.hi = src + len
      BY <1>6, <2>1
    <3>4. a \in Int /\ pos \in Int /\ len \in Int /\ src \in Int
      BY <1>2, <1>3, <1>5, <3>1
    <3> QED
      BY <3>2, <3>3, <3>4
  <2>3. \/ roff' > 0 /\ dict' = [lo |-> RingAt, hi |-> RingAt + roff']
        \/ /\ roff' = 0 /\ dict'.lo = RingAt
           /\ dict'.hi \in (RingAt + Wrap) .. (RingAt + RingBytes - 1)
    BY <1>1, <1>2, <1>3, <1>7, <2>1 DEF Advanced
  <2>4. off' >= Wrap /\ roff' < Wrap
    BY <1>1, <1>2, <1>3, <1>6 DEF Advanced
  <2> QED
    BY <2>2, <2>3, <2>4 DEF RingInv
<1>13. Layout!Emit(len)
  <2>1. Size(dict') = roff + len
    BY <1>2, <1>3, <1>7 DEF Size
  <2>2. off >= Wrap /\ off' >= Wrap
    BY <1>2, <1>3, <1>6
  <2>3. Least(Window, Size(dict)) = IF Window <= Size(dict) THEN Window ELSE Size(dict)
    BY DEF Least
  <2> QED
    BY <1>1, <1>6, <2>1, <2>2, <2>3 DEF Layout!Emit, Advanced
<1> QED
  BY <1>6, <1>9, <1>10, <1>12, <1>13 DEF len

(* What the rest of a call leaves alone: all that the layout is made of.   *)
LEMMA LayoutKept ==
    ASSUME CallInvariant, UNCHANGED <<off, dict, pos, start, out>>,
           roff' = roff \/ off < Wrap
    PROVE  UNCHANGED Layout!layoutVars
<1>1. ~(off < Wrap /\ off >= Wrap)
  BY OneShotAssumption DEF CallInvariant, FieldsInv
<1> QED
  BY <1>1 DEF Layout!layoutVars, Size

LEMMA OutsideCall ==
    ASSUME CallInvariant, UNCHANGED <<mem, off, dict, pos, start, out, roff>>,
           n' \in 0 .. MaxInput, pc' \in {"idle", "leave"},
           pc' # "idle" => uses' = "compressors" /\ ~Compressing'
    PROVE  CallInvariant' /\ UNCHANGED Layout!layoutVars
<1>1. ~InCall' /\ pc' # "direct" /\ pc' # "ring"
  BY DEF InCall
<1>2. FieldsInv'
  BY DEF CallInvariant, FieldsInv
<1> QED
  BY <1>1, <1>2, LayoutKept DEF CallInvariant, ThreadInv, ProgressInv, DirectInv, RingInv

LEMMA StepAllocate ==
    ASSUME CallInvariant, uses' = uses, ~Compressing', AllocateRing
    PROVE  CallInvariant' /\ UNCHANGED Layout!layoutVars
<1> USE OneShotAssumption DEF CallInvariant
<1>1. /\ pc = "direct" /\ pc' = "ring" /\ ~(off < Wrap) /\ roff' = 0 /\ off < n
      /\ mem' = [a \in DOMAIN mem |-> IF a >= RingAt THEN -1 ELSE mem[a]]
      /\ UNCHANGED <<dict, n, off, pos, start, out>> /\ memory' = memory
  BY DEF AllocateRing, DirectRoom, scratchVars
<1>2. /\ roff = 0 /\ dict = [lo |-> 0, hi |-> off]
      /\ \A a \in 0 .. (n - 1) : mem[a] = start + a
  BY <1>1 DEF DirectInv
<1>3. /\ off \in Nat /\ n \in Nat /\ pos \in Nat /\ start \in Nat /\ pos = start + off
      /\ n < RingAt /\ RingAt \in Nat /\ RingBytes \in Nat
  BY <1>1 DEF FieldsInv, ProgressInv, InCall, RingAt, RingBytes
<1>4. FieldsInv'
  <2>1. mem' \in [0 .. (RingAt + RingBytes - 1) -> Int]
    BY <1>1 DEF FieldsInv
  <2> QED
    BY <1>1, <2>1 DEF FieldsInv
<1>5. ThreadInv' /\ DirectInv'
  BY <1>1 DEF ThreadInv, DirectInv
<1>6. ProgressInv'
  BY <1>1 DEF ProgressInv, InCall
<1>7. ASSUME NEW a \in 0 .. (off - 1) PROVE mem'[a] = pos - off + a
  <2>1. a \in 0 .. (n - 1) /\ a \in DOMAIN mem /\ ~(a >= RingAt)
    BY <1>1, <1>3 DEF FieldsInv
  <2>2. mem'[a] = mem[a]
    BY <1>1, <2>1
  <2>3. mem[a] = start + a
    BY <1>2, <2>1
  <2> QED
    BY <1>3, <2>2, <2>3
<1>8. RingInv'
  <2>1. dict' = [lo |-> 0, hi |-> off] /\ roff' = 0
    BY <1>1, <1>2
  <2>2. off' >= Wrap /\ roff' < Wrap
    BY <1>1, <1>3
  <2>3. \A a \in dict'.lo .. (dict'.hi - 1) : mem'[a] = pos' - dict'.hi + a
    BY <1>1, <1>7, <2>1
  <2> QED
    BY <1>1, <2>1, <2>2, <2>3 DEF RingInv
<1>9. UNCHANGED Layout!layoutVars
  BY <1>1, <1>2, LayoutKept
<1> QED
  BY <1>4, <1>5, <1>6, <1>8, <1>9

LEMMA StepOutside ==
    ASSUME CallInvariant, uses = "compressors", uses' = uses, ~Compressing',
           \/ CallEmpty \/ Return \/ Throw \/ Leave
           \/ \E size \in 1 .. MaxInput : CallRefused(size)
    PROVE  CallInvariant' /\ UNCHANGED Layout!layoutVars
<1>1. UNCHANGED <<mem, off, dict, pos, start, out, roff>>
  BY DEF CallEmpty, Return, Throw, Leave, CallRefused
<1>2. n' \in 0 .. MaxInput
  <2>1. n' = 0 \/ n' = n
    BY DEF CallEmpty, Return, Throw, Leave, CallRefused
  <2> QED
    BY <2>1, OneShotAssumption DEF CallInvariant, FieldsInv
<1>3. pc' \in {"idle", "leave"}
  BY DEF CallEmpty, Return, Throw, Leave, CallRefused
<1> QED
  BY <1>1, <1>2, <1>3, OutsideCall

(* One step of a thread is one of the layout's, or leaves it alone.        *)
LEMMA StepLayout ==
    ASSUME CallInvariant, [Next]_vars
    PROVE  CallInvariant' /\ [Layout!LayoutNext]_(Layout!layoutVars)
<1>1. CASE /\ uses = "compressors" /\ uses' = uses /\ ~Compressing
           /\ LZ4Next /\ call' = NoCall
  <2>1. ~Compressing'
    BY <1>1 DEF Compressing, NoCall
  <2>2. ASSUME NEW size \in 1 .. MaxInput, Call(size)
        PROVE  CallInvariant' /\ Layout!Restart
    BY <1>1, <2>1, <2>2, StepCall
  <2>3. ASSUME NEW size \in 1 .. MaxInput, CallRefused(size)
        PROVE  CallInvariant' /\ UNCHANGED Layout!layoutVars
    BY <1>1, <2>1, <2>3, StepOutside
  <2>4. CASE CallEmpty \/ Return \/ Throw \/ Leave
    BY <1>1, <2>1, <2>4, StepOutside
  <2>5. CASE AllocateRing
    BY <1>1, <2>1, <2>5, StepAllocate
  <2>6. CASE DirectBlock
    <3>1. BlockLength \in 1 .. Block
      BY <2>6, LengthIs DEF DirectBlock, CallInvariant
    <3> QED
      BY <1>1, <2>1, <2>6, <3>1, StepDirect DEF Layout!LayoutNext
  <2>7. CASE RingBlock
    <3>1. BlockLength \in 1 .. Block
      BY <2>7, LengthIs DEF RingBlock, CallInvariant
    <3> QED
      BY <1>1, <2>1, <2>7, <3>1, StepRing DEF Layout!LayoutNext
  <2> QED
    BY <1>1, <2>2, <2>3, <2>4, <2>5, <2>6, <2>7 DEF LZ4Next, Layout!LayoutNext
<1>2. CASE pc = "idle" /\ UNCHANGED lz4Vars
  <2>1. UNCHANGED <<mem, off, dict, pos, start, out, roff, n, pc>>
    BY <1>2 DEF lz4Vars
  <2> QED
    BY <1>2, <2>1, OutsideCall DEF CallInvariant, FieldsInv
<1>3. CASE UNCHANGED vars
  <2>1. UNCHANGED <<lz4Vars, uses, call, memory>>
    BY <1>3 DEF vars, zstdVars, scratchVars
  <2>2. CallInvariant'
    BY <2>1 DEF lz4Vars, CallInvariant, FieldsInv, ThreadInv, ProgressInv, DirectInv, RingInv,
       InCall, Compressing
  <2> QED
    BY <2>1, <2>2, LayoutKept DEF lz4Vars
<1>4. uses # "compressors" => pc = "idle"
  BY DEF CallInvariant, ThreadInv
<1> QED
  BY <1>1, <1>2, <1>3, <1>4 DEF Next

LEMMA CallInvariantHolds == Spec => []CallInvariant
<1>1. CallInvariant /\ [Next]_vars => CallInvariant'
  BY StepLayout
<1> QED
  BY <1>1, InitCall, PTL DEF Spec

(* compress_lz4 is the layout of the class, call after call on a thread,   *)
(* for every block, wrap point and window, and every input.                *)
THEOREM OneShotKeepsLayout == Spec => KeepsLayout
<1>1. Init => Layout!LayoutInit
  BY OneShotAssumption DEF Init, LZ4Init, Layout!LayoutInit, NoSpan, Size
<1>2. CallInvariant /\ [Next]_vars => [Layout!LayoutNext]_(Layout!layoutVars)
  BY StepLayout
<1> QED
  BY <1>1, <1>2, CallInvariantHolds, PTL DEF Spec, KeepsLayout, Layout!LayoutSpec

-----------------------------------------------------------------------------
(* A record more than the blocks so far is within the records asked for.   *)
LEMMA RecordsFit ==
    ASSUME NEW k \in Nat, NEW size \in Nat, k * Block < size
    PROVE  (k + 1) * Record <= OutSize(size)
<1> USE OneShotAssumption
<1>1. size + Block - 1 \in Nat /\ BlockCount(size) \in Nat
  BY Quotient DEF BlockCount
<1>2. size + Block - 1 < Block * BlockCount(size) + Block
  BY <1>1, Quotient DEF BlockCount
<1>3. k + 1 <= BlockCount(size)
  <2>1. SUFFICES ASSUME BlockCount(size) <= k PROVE FALSE
    BY <1>1
  <2>2. Block * BlockCount(size) <= Block * k
    BY <1>1, <2>1, Monotone
  <2>3. Block * k = k * Block
    OBVIOUS
  <2> QED
    BY <1>1, <1>2, <2>2, <2>3
<1>4. CASE Record = 0
  BY <1>1, <1>4 DEF OutSize
<1>5. CASE Record > 0
  <2>1. Record * (k + 1) <= Record * BlockCount(size)
    BY <1>1, <1>3, <1>5, Monotone
  <2>2. Record * (k + 1) = (k + 1) * Record /\ Record * BlockCount(size) = BlockCount(size) * Record
    BY <1>1
  <2> QED
    BY <2>1, <2>2 DEF OutSize
<1> QED
  BY <1>4, <1>5

(* compress_lz4 never writes past the memory it has asked for, nor past    *)
(* its ring.                                                               *)
THEOREM OneShotNoOverrun == Spec => []NoOverrun
<1>1. CallInvariant /\ ScratchInv => NoOverrun
  <2> SUFFICES ASSUME CallInvariant, ScratchInv PROVE NoOverrun
    OBVIOUS
  <2>1. ASSUME InCall, off < n PROVE (Len(out) + 1) * Record <= memory.room
    <3>1. n \in Nat /\ Len(out) \in Nat /\ Len(out) * Block < n
      BY <2>1 DEF CallInvariant, FieldsInv, ProgressInv
    <3>2. (Len(out) + 1) * Record <= memory.need
      BY <2>1, <3>1, RecordsFit DEF CallInvariant, ProgressInv
    <3>3. memory.need <= memory.room /\ memory.need \in Nat /\ memory.room \in Nat
      BY DEF ScratchInv, RoomEnough
    <3>4. (Len(out) + 1) * Record \in Nat
      BY <3>1, OneShotAssumption
    <3> QED
      BY <3>2, <3>3, <3>4
  <2>2. ASSUME pc = "ring" PROVE roff + Block <= RingBytes
    BY <2>2, OneShotAssumption DEF CallInvariant, FieldsInv, RingInv, RingBytes
  <2> QED
    BY <2>1, <2>2 DEF NoOverrun, InCall
<1>2. Spec => []ScratchInv
  BY CallsAreScratch, ScratchInvariant, PTL
<1> QED
  BY <1>1, <1>2, CallInvariantHolds, PTL

-----------------------------------------------------------------------------
(* The types of all that the thread keeps.                                 *)
ResultType == enc \in BOOLEAN /\ result \in {"none", "returned", "thrown"}

LEMMA StepResult ==
    ASSUME ResultType, [Next]_vars
    PROVE  ResultType'
<1>1. CASE LZ4Next
  <2>1. enc' = enc
    BY <1>1 DEF LZ4Next, CallEmpty, Call, CallRefused, DirectBlock, AllocateRing, RingBlock,
                CompressAt, Return, Throw, Leave
  <2>2. result' \in {result, "none", "returned", "thrown"}
    BY <1>1 DEF LZ4Next, CallEmpty, Call, CallRefused, DirectBlock, AllocateRing, RingBlock,
                CompressAt, Return, Throw, Leave
  <2> QED
    BY <2>1, <2>2 DEF ResultType
<1>2. CASE UNCHANGED lz4Vars
  BY <1>2 DEF lz4Vars, ResultType
<1> QED
  BY <1>1, <1>2 DEF Next, vars

(* Every variable of the thread keeps its type, in every order of calls.   *)
THEOREM OneShotsTypeOK == Spec => []TypeOK
<1>1. Init => ResultType
  BY DEF Init, LZ4Init, ResultType
<1>2. Spec => []ResultType
  BY <1>1, StepResult, PTL DEF Spec
<1>3. Spec => []ScratchInv
  BY CallsAreScratch, ScratchInvariant, PTL
<1>4. ResultType /\ ScratchInv /\ CallInvariant /\ ZstdInv => TypeOK
  <2> SUFFICES ASSUME ResultType, ScratchInv, CallInvariant, ZstdInv PROVE TypeOK
    OBVIOUS
  <2>1. ScratchTypeOK
    BY DEF ScratchInv, CacheInv, ScratchTypeOK
  <2>2. LZ4TypeOK
    BY DEF ResultType, CallInvariant, FieldsInv, RecordType, LZ4TypeOK
  <2>3. ZstdTypeOK
    <3>1. contexts \in [c : Nat, d : Nat] /\ string \in [capacity : Nat, held : Nat]
      BY DEF ZstdInv, StateInv
    <3>2. CallOK
      BY DEF ZstdInv, CallInv
    <3> QED
      BY <3>1, <3>2 DEF CallOK, ZstdTypeOK
  <2> QED
    BY <2>1, <2>2, <2>3 DEF TypeOK
<1> QED
  BY <1>2, <1>3, <1>4, CallInvariantHolds, ZstdInvariant, PTL

-----------------------------------------------------------------------------
(* The stream of the format, block by block.                               *)

(* Division by b undoes multiplication, and leaves the rest.               *)
LEMMA DivMod ==
    ASSUME NEW b \in Nat \ {0}, NEW q \in Nat, NEW r \in 0 .. (b - 1)
    PROVE  (q * b + r) \div b = q /\ (q * b + r) % b = r
<1> DEFINE x == q * b + r
           d == x \div b
           m == x % b
<1>1. x \in Nat /\ d \in Int /\ m \in Int
  OBVIOUS
<1>2. x = d * b + m /\ 0 <= m /\ m < b
  OBVIOUS
<1>3. (q - d) * b = m - r
  BY <1>2
<1> HIDE DEF d, m
<1>4. ~(q - d >= 1)
  <2>1. q - d >= 1 => (q - d) * b >= b
    BY <1>1
  <2> QED
    BY <2>1, <1>3, <1>2, <1>1
<1>5. ~(q - d <= -1)
  <2>1. q - d <= -1 => (q - d) * b <= -b
    BY <1>1
  <2> QED
    BY <2>1, <1>3, <1>2, <1>1
<1>6. q = d
  BY <1>4, <1>5, <1>1
<1>7. m = r
  BY <1>6, <1>2, <1>1
<1> QED
  BY <1>6, <1>7 DEF d, m

(* A full block fits between a multiple of Block and Wrap.                 *)
LEMMA BlockInWrap ==
    ASSUME NEW k \in Nat
    PROVE  (k * Block) % Wrap \in Nat /\ ((k * Block) % Wrap) + Block <= Wrap
<1> DEFINE Q == Wrap \div Block
           d == k \div Q
           m == k % Q
<1> USE OneShotAssumption
<1>1. Q \in Nat /\ Wrap = Q * Block
  OBVIOUS
<1>2. Q >= 1
  BY <1>1
<1> HIDE DEF Q
<1>3. d \in Nat /\ m \in Nat /\ k = d * Q + m /\ m <= Q - 1
  BY <1>1, <1>2
<1> HIDE DEF d, m
<1>4. k * Block = d * Wrap + m * Block
  <2>1. (d * Q + m) * Block = d * (Q * Block) + m * Block
    BY <1>1, <1>3
  <2> QED
    BY <2>1, <1>1, <1>3
<1>5. m * Block \in Nat /\ m * Block + Block <= Wrap
  <2>1. (Q - 1 - m) * Block >= 0
    BY <1>1, <1>3
  <2>2. (Q - 1 - m) * Block = Q * Block - Block - m * Block
    BY <1>1, <1>3
  <2> QED
    BY <2>1, <2>2, <1>1, <1>3
<1>6. (d * Wrap + m * Block) % Wrap = m * Block
  <2> DEFINE r == m * Block
  <2>1. r \in 0 .. (Wrap - 1) /\ Wrap \in Nat \ {0}
    BY <1>5
  <2> HIDE DEF r
  <2>2. (d * Wrap + r) % Wrap = r
    BY <1>3, <2>1, DivMod
  <2> QED
    BY <2>2 DEF r
<1> QED
  BY <1>4, <1>5, <1>6

(* How many blocks k full ones are, with a last one of n bytes or without. *)
LEMMA BlocksOf ==
    ASSUME NEW k \in Nat
    PROVE  /\ Layout!Blocks(k * Block) = k
           /\ \A len \in 1 .. Block : Layout!Blocks(k * Block + len) = k + 1
<1> USE OneShotAssumption
<1>1. k * Block + Block - 1 = k * Block + (Block - 1) /\ k * Block \in Nat
  OBVIOUS
<1>2. (k * Block + (Block - 1)) \div Block = k
  BY DivMod
<1>3. Layout!Blocks(k * Block) = k
  BY <1>1, <1>2 DEF Layout!Blocks
<1>4. ASSUME NEW len \in 1 .. Block
      PROVE  Layout!Blocks(k * Block + len) = k + 1
  <2>1. k * Block + len + Block - 1 = (k + 1) * Block + (len - 1)
    BY <1>1
  <2>2. ((k + 1) * Block + (len - 1)) \div Block = k + 1
    BY DivMod
  <2> QED
    BY <2>1, <2>2 DEF Layout!Blocks
<1> QED
  BY <1>3, <1>4

(* What block i of a stream refers to when it stands at position p.        *)
Referred(p, i) ==
    [d \in 1 .. (IF Window <= Layout!HistOf(i) THEN Window ELSE Layout!HistOf(i)) |-> p - d]

(* The stream grows by one block after full ones.                          *)
LEMMA StreamGrows ==
    ASSUME NEW from \in Nat, NEW k \in Nat, NEW len \in 1 .. Block
    PROVE  Layout!Stream(from, k * Block + len)
             = Append(Layout!Stream(from, k * Block), [len |-> len, refs |-> Referred(from + k * Block, k + 1)])
<1> USE OneShotAssumption
<1> DEFINE S == Layout!Stream(from, k * Block + len)
           T == Layout!Stream(from, k * Block)
           e == [len |-> len, refs |-> Referred(from + k * Block, k + 1)]
           Set == {T[i] : i \in 1 .. k} \cup {e}
<1>0. k * Block \in Nat
  OBVIOUS
<1>1. S = [i \in 1 .. (k + 1) |->
             [len |-> IF i * Block <= k * Block + len THEN Block ELSE k * Block + len - (i - 1) * Block,
              refs |-> Referred(from + (i - 1) * Block, i)]]
  <2>1. Layout!Blocks(k * Block + len) = k + 1
    BY BlocksOf
  <2> QED
    BY <2>1 DEF Layout!Stream, Referred
<1>2. T = [i \in 1 .. k |->
             [len |-> IF i * Block <= k * Block THEN Block ELSE k * Block - (i - 1) * Block,
              refs |-> Referred(from + (i - 1) * Block, i)]]
  BY BlocksOf DEF Layout!Stream, Referred
<1>3. ASSUME NEW i \in 1 .. k
      PROVE  S[i] = T[i]
  <2>1. (k - i) * Block >= 0 /\ (k - i) * Block = k * Block - i * Block
    OBVIOUS
  <2>2. i * Block <= k * Block /\ i * Block <= k * Block + len
    BY <2>1
  <2> HIDE DEF S, T
  <2>3. S[i] = [len |-> Block, refs |-> Referred(from + (i - 1) * Block, i)]
    BY <1>1, <2>2
  <2>4. T[i] = [len |-> Block, refs |-> Referred(from + (i - 1) * Block, i)]
    BY <1>2, <2>2
  <2> QED
    BY <2>3, <2>4
<1>4. S[k + 1] = e
  <2>1. (k + 1) * Block = k * Block + Block /\ (k + 1 - 1) * Block = k * Block
    OBVIOUS
  <2>2. (IF (k + 1) * Block <= k * Block + len THEN Block ELSE k * Block + len - (k + 1 - 1) * Block) = len
    BY <1>0, <2>1
  <2> HIDE DEF S
  <2> QED
    BY <1>1, <2>2
<1> HIDE DEF S, T, e
<1>5. T \in Seq(Set) /\ Len(T) = k
  <2>1. T \in [1 .. k -> Set]
    BY <1>2
  <2> QED
    BY <2>1
<1> DEFINE A == Append(T, e)
<1>6. A \in Seq(Set) /\ Len(A) = k + 1
  BY <1>5
<1>7. (\A i \in 1 .. k : A[i] = T[i]) /\ A[k + 1] = e
  BY <1>5
<1> HIDE DEF A
<1>8. S \in Seq(Set) /\ Len(S) = k + 1
  <2>1. S \in [1 .. (k + 1) -> Set]
    <3>1. \A i \in 1 .. (k + 1) : S[i] \in Set
      BY <1>3, <1>4
    <3>2. S = [i \in 1 .. (k + 1) |-> S[i]]
      BY <1>1
    <3> QED
      BY <3>1, <3>2
  <2> QED
    BY <2>1
<1>9. \A i \in 1 .. (k + 1) : S[i] = A[i]
  BY <1>3, <1>4, <1>7
<1>10. S = A
  BY <1>6, <1>8, <1>9, SeqEqual
<1> QED
  BY <1>10 DEF A, S, T, e

(* So do the segment and what may be referred to.                          *)
LEMMA HistGrows ==
    ASSUME NEW k \in Nat
    PROVE  LET seg == (k * Block) % Wrap
           IN  /\ Layout!HistOf(k + 2) = seg + Block
               /\ ((k + 1) * Block) % Wrap = IF seg + Block >= Wrap THEN 0 ELSE seg + Block
<1> USE OneShotAssumption
<1> DEFINE seg == (k * Block) % Wrap
<1>1. seg \in Nat /\ seg + Block <= Wrap
  BY BlockInWrap
<1>2. k * Block \in Nat /\ (k + 1) * Block = k * Block + Block /\ (k + 2 - 1) * Block = k * Block + Block
  OBVIOUS
<1>3. ((k + 1) * Block) % Wrap = IF seg + Block = Wrap THEN 0 ELSE seg + Block
  <2> DEFINE d == (k * Block) \div Wrap
  <2>1. d \in Nat /\ k * Block = d * Wrap + seg
    BY <1>2
  <2> HIDE DEF d, seg
  <2>2. CASE seg + Block = Wrap
    <3>1. (k + 1) * Block = (d + 1) * Wrap + 0
      BY <1>1, <1>2, <2>1, <2>2
    <3>2. ((d + 1) * Wrap + 0) % Wrap = 0
      BY <2>1, DivMod
    <3> QED
      BY <3>1, <3>2, <2>2
  <2>3. CASE seg + Block # Wrap
    <3> DEFINE r == seg + Block
    <3>1. (k + 1) * Block = d * Wrap + r /\ r \in 0 .. (Wrap - 1) /\ Wrap \in Nat \ {0}
      BY <1>1, <1>2, <2>1, <2>3
    <3> HIDE DEF r
    <3>2. (d * Wrap + r) % Wrap = r
      BY <2>1, <3>1, DivMod
    <3>3. ((k + 1) * Block) % Wrap = r
      BY <3>1, <3>2
    <3> QED
      BY <3>3, <2>3 DEF r
  <2> QED
    BY <2>2, <2>3
<1> HIDE DEF seg
<1>4. Layout!HistOf(k + 2) = seg + Block
  BY <1>1, <1>2, <1>3 DEF Layout!HistOf
<1> QED
  BY <1>1, <1>2, <1>3, <1>4 DEF seg
(* The call's stream so far is k full blocks.                              *)
Fill == IF off >= Wrap THEN roff ELSE off

Full(k) ==
    /\ off = k * Block
    /\ Fill = (k * Block) % Wrap
    /\ Size(dict) = Layout!HistOf(k + 1)

(* What a call has compressed is the stream of what it has read, in full   *)
(* blocks as long as there is input left; and what the last one returned   *)
(* stays the stream of its input.                                          *)
StreamInv ==
    /\ InCall =>
         /\ out = Layout!Stream(start, off)
         /\ off < n => \E k \in Nat : Full(k)
         /\ result # "returned"
    /\ StreamOfInput

(* After full blocks, one more of any length continues the stream.         *)
LEMMA EmitStream ==
    ASSUME CallInvariant, InCall, out = Layout!Stream(start, off), NEW k \in Nat, Full(k),
           NEW len \in 1 .. Block, Layout!Emit(len), off' = off + len
    PROVE  /\ out' = Layout!Stream(start, off')
           /\ len = Block => Full(k + 1)'
<1> USE OneShotAssumption DEF CallInvariant
<1>1. off \in Nat /\ start \in Nat /\ pos = start + off /\ off = k * Block /\ Fill = (k * Block) % Wrap
  BY DEF FieldsInv, ProgressInv, Full
<1>2. out' = Append(out, [len |-> len, refs |-> Referred(pos, k + 1)])
  BY DEF Layout!Emit, Full, Referred
<1>3. out' = Layout!Stream(start, off')
  <2>1. pos = start + k * Block /\ off' = k * Block + len
    BY <1>1
  <2>2. Layout!Stream(start, k * Block + len)
          = Append(Layout!Stream(start, k * Block), [len |-> len, refs |-> Referred(pos, k + 1)])
    BY <1>1, <2>1, StreamGrows
  <2> QED
    BY <1>1, <1>2, <2>1, <2>2
<1>4. ASSUME len = Block
      PROVE  Full(k + 1)'
  <2> DEFINE a == (k * Block) % Wrap
  <2>1. a = Fill
    BY <1>1
  <2>2. Layout!HistOf(k + 2) = a + Block
    BY HistGrows
  <2>3. ((k + 1) * Block) % Wrap = IF a + Block >= Wrap THEN 0 ELSE a + Block
    BY HistGrows
  <2> HIDE DEF a
  <2>4. Fill' = (IF Fill + Block >= Wrap THEN 0 ELSE Fill + Block) /\ Size(dict)' = Fill + Block
    BY <1>4 DEF Layout!Emit, Fill
  <2>5. off' = (k + 1) * Block
    BY <1>1, <1>4
  <2>6. Fill' = ((k + 1) * Block) % Wrap /\ Size(dict)' = Layout!HistOf(k + 1 + 1)
    BY <2>1, <2>2, <2>3, <2>4
  <2>7. Layout!HistOf(k + 1 + 1)' = Layout!HistOf(k + 1 + 1)
    BY DEF Layout!HistOf
  <2> QED
    BY <2>5, <2>6, <2>7 DEF Full
<1> QED
  BY <1>3, <1>4

LEMMA NothingStreamed ==
    ASSUME off' = 0, dict' = NoSpan, NEW from \in Nat
    PROVE  Layout!Stream(from, 0) = <<>> /\ Full(0)'
<1> USE OneShotAssumption
<1>1. 0 * Block = 0 /\ 0 % Wrap = 0 /\ (0 + 1 - 1) * Block = 0
  OBVIOUS
<1>2. Layout!HistOf(0 + 1)' = 0
  BY <1>1 DEF Layout!HistOf
<1>3. Fill' = 0 /\ Size(dict)' = 0
  BY DEF Fill, Size, NoSpan
<1>4. Layout!Blocks(0) = 0
  BY <1>1, BlocksOf
<1>5. Layout!Stream(from, 0) = <<>>
  BY <1>4 DEF Layout!Stream
<1> QED
  BY <1>1, <1>2, <1>3, <1>5 DEF Full

LEMMA StepStreamBlock ==
    ASSUME CallInvariant, StreamInv, uses' = uses, ~Compressing', DirectBlock \/ RingBlock
    PROVE  StreamInv'
<1> USE OneShotAssumption
<1>1. /\ InCall /\ InCall' /\ off < n /\ result' = result /\ start' = start /\ n' = n
      /\ off' = off + BlockLength
  BY DEF DirectBlock, RingBlock, CompressAt, InCall
<1>2. /\ BlockLength \in 1 .. Block /\ off + BlockLength <= n
      /\ off + BlockLength < n => BlockLength = Block
  BY <1>1, LengthIs DEF CallInvariant
<1>3. Layout!Emit(BlockLength)
  BY StepDirect, StepRing
<1>4. PICK k \in Nat : Full(k)
  BY <1>1 DEF StreamInv
<1>5. /\ out' = Layout!Stream(start, off')
      /\ BlockLength = Block => Full(k + 1)'
  BY <1>1, <1>2, <1>3, <1>4, EmitStream DEF StreamInv
<1>6. out' = Layout!Stream(start, off)' /\ result' # "returned"
  BY <1>1, <1>5 DEF StreamInv, Layout!Stream, Layout!Blocks, Layout!HistOf
<1>7. off' < n' => \E j \in Nat : Full(j)'
  BY <1>1, <1>2, <1>4, <1>5
<1> QED
  BY <1>6, <1>7 DEF StreamInv, StreamOfInput

LEMMA StepStreamCall ==
    ASSUME CallInvariant, NEW size \in 1 .. MaxInput, Call(size)
    PROVE  StreamInv'
<1>1. /\ n' = size /\ off' = 0 /\ dict' = NoSpan /\ start' = pos /\ out' = <<>>
      /\ result' = "none" /\ pos \in Nat
  BY DEF Call, EncoderReset, CallInvariant, FieldsInv
<1>2. Layout!Stream(pos, 0) = <<>> /\ Full(0)'
  BY <1>1, NothingStreamed
<1>3. out' = Layout!Stream(start, off)' /\ 0 \in Nat
  BY <1>1, <1>2 DEF Layout!Stream, Layout!Blocks, Layout!HistOf
<1> QED
  BY <1>1, <1>2, <1>3 DEF StreamInv, StreamOfInput

LEMMA StepStreamOutside ==
    ASSUME CallInvariant, StreamInv,
           \/ CallEmpty \/ Return \/ Throw \/ Leave
           \/ \E size \in 1 .. MaxInput : CallRefused(size)
    PROVE  StreamInv'
<1>1. ~InCall' /\ UNCHANGED <<off, start, out>>
  BY DEF CallEmpty, Return, Throw, Leave, CallRefused, InCall
<1>2. \/ n' = 0
      \/ result' = "thrown"
      \/ n' = n /\ InCall /\ off = n
      \/ n' = n /\ result' = result
  BY DEF CallEmpty, Return, Throw, Leave, CallRefused, InCall
<1>3. StreamOfInput'
  <2>1. ASSUME n' = n, out = Layout!Stream(start, n) PROVE out' = Layout!Stream(start, n)'
    BY <1>1, <2>1 DEF Layout!Stream, Layout!Blocks, Layout!HistOf
  <2> QED
    BY <1>2, <2>1 DEF StreamInv, StreamOfInput
<1> QED
  BY <1>1, <1>3 DEF StreamInv

LEMMA StreamKept ==
    ASSUME StreamInv, InCall' <=> InCall, UNCHANGED <<off, start, n, out, result, dict, Fill>>
    PROVE  StreamInv'
<1>1. \A k : Full(k)' <=> Full(k)
  BY DEF Full, Size, Layout!HistOf
<1> QED
  BY <1>1 DEF StreamInv, StreamOfInput, Layout!Stream, Layout!Blocks, Layout!HistOf

LEMMA StepStream ==
    ASSUME CallInvariant, StreamInv, [Next]_vars
    PROVE  StreamInv'
<1>1. CASE /\ uses = "compressors" /\ uses' = uses /\ ~Compressing
           /\ LZ4Next /\ call' = NoCall
  <2>1. ~Compressing'
    BY <1>1 DEF Compressing, NoCall
  <2>2. CASE AllocateRing
    <3>1. Layout!layoutVars' = Layout!layoutVars
      BY <1>1, <2>1, <2>2, StepAllocate
    <3>2. UNCHANGED <<off, start, n, out, result, dict>> /\ (InCall' <=> InCall)
      BY <2>2 DEF AllocateRing, InCall
    <3>3. Fill' = Fill
      BY <3>1 DEF Layout!layoutVars, Fill
    <3> QED
      BY <3>2, <3>3, StreamKept
  <2> QED
    BY <1>1, <2>1, <2>2, StepStreamBlock, StepStreamCall, StepStreamOutside DEF LZ4Next
<1>2. CASE UNCHANGED lz4Vars
  BY <1>2, StreamKept DEF lz4Vars, InCall, Fill
<1> QED
  BY <1>1, <1>2 DEF Next, vars

(* compressor_lz4.cc:438, 487: what a call of compress_lz4 returns is the  *)
(* one stream the format has for its input, whatever the thread's earlier  *)
(* calls left in the encoder; with LoopsWriteTheStream, the class's.       *)
THEOREM OneShotWritesTheStream == Spec => []StreamOfInput
<1>1. Init => StreamInv
  BY DEF Init, LZ4Init, StreamInv, StreamOfInput, InCall
<1>2. StreamInv => StreamOfInput
  BY DEF StreamInv
<1> QED
  BY <1>1, <1>2, StepStream, CallInvariantHolds, PTL DEF Spec
=============================================================================
