---------------------------- MODULE ZstdOneShot ----------------------------
(***************************************************************************)
(* compressor_zstd.cc on one thread: the one-shot functions over the       *)
(* thread's contexts and scratch memory, and init() of the decompressing   *)
(* class, whose results they promise.  The decoders repeat one another's   *)
(* checks; callers hand each of them any volume, what the last call read   *)
(* or wrote among them.  Levels and bytes are left out.                    *)
(***************************************************************************)
EXTENDS Integers, Scratch

CONSTANTS Ratio,      \* content bytes per frame byte at best: 32768
          FrameHeader,\* the least bytes of a frame, its blocks aside
          FrameExtra, \* ZSTD_compressBound(n) - n, for the model's inputs
          FrameSizes, \* bound: the lengths that frames come to
          Volumes,    \* the volumes callers hand in
          Contents,   \* the lengths of the inputs they compress
          Limits      \* max_size, dst_size and capacity arguments

ASSUME ZstdAssumption ==
    /\ Ratio \in Nat \ {0}
    /\ FrameHeader \in Nat /\ FrameExtra \in Nat /\ FrameExtra >= FrameHeader
    /\ FrameSizes \subseteq Nat

-----------------------------------------------------------------------------
(* libzstd's calls on whole buffers, as compressor_zstd.cc relies on them. *)
(* (zstd itself is not in the repository.)  A volume is what a decoder is  *)
(* handed: `size' bytes, at their front a frame that records its content   *)
(* size (`header'), or records none, or is no frame, and perhaps more      *)
(* frames behind it.  `total' is the content of all of them; `sound':      *)
(* decoding finds nothing wrong to the end.                                *)
CONTENTSIZE_UNKNOWN == -1
CONTENTSIZE_ERROR == -2

(* A block is at best a run of 4 bytes for 128 KB.                         *)
CanHold(size, content) == content <= Ratio * (size - FrameHeader)

CompressBound(content) == content + FrameExtra

(* The frames ZSTD_compress may write for so many bytes, at any level.     *)
Frames(content) ==
    {v \in [size : FrameSizes, header : {content}, total : {content}, sound : {TRUE}] :
        v.size \in FrameHeader .. CompressBound(content) /\ CanHold(v.size, content)}

(* What decoding can be handed.  A sound frame has the size it records;    *)
(* the content of the frames behind it comes on top.                       *)
AnyBytes ==
    [size : Nat, header : Nat \cup {CONTENTSIZE_UNKNOWN, CONTENTSIZE_ERROR},
     total : Nat, sound : BOOLEAN]

Volume(v) ==
    /\ v \in AnyBytes
    /\ v.sound /\ v.header >= 0 => v.total >= v.header /\ CanHold(v.size, v.header)

(* ZSTD_decompress and ZSTD_decompressDCtx into room bytes.                *)
Decodes(v, room) == v.sound /\ v.total <= room

-----------------------------------------------------------------------------
ASSUME CallerAssumption ==
    /\ \A v \in Volumes : Volume(v)
    /\ Contents \subseteq Nat /\ Limits \subseteq Nat

VARIABLES contexts,   \* how many contexts of each kind the thread created
          string,     \* the string callers reuse: its capacity, and the
                      \* largest content it has held
          call        \* the last of zstd's calls: its volume, how it
                      \* ended, the bytes it gave and those a decoder
                      \* asked a string to grow to

zstdVars == <<contexts, string, call>>

Nothing == [size |-> 0, header |-> CONTENTSIZE_ERROR, total |-> 0, sound |-> TRUE]

NoCall == [fn |-> "none", volume |-> Nothing, limit |-> 0,
           end |-> "returned", given |-> 0, asked |-> 0]

ZstdInit ==
    /\ contexts = [c |-> 0, d |-> 0]
    /\ string = [capacity |-> 0, held |-> 0]
    /\ call = NoCall

-----------------------------------------------------------------------------
(* Wrong: a context per call.                                              *)
AbsentAlways(k) == TRUE

(* The test of compression_context() and decompression_context().          *)
Absent(k) == contexts[k] = 0

Context(k) == contexts' = IF Absent(k) THEN [contexts EXCEPT ![k] = @ + 1] ELSE contexts

(* No memory for one: the thread's next call tries again.                  *)
NoContext(k) == Absent(k) /\ UNCHANGED contexts

Called(fn, v, limit, end, given, asked) ==
    call' = [fn |-> fn, volume |-> v, limit |-> limit,
             end |-> end, given |-> given, asked |-> asked]

(* A call of a function that uses no scratch memory.                       *)
Ends(fn, v, limit, end, given, asked) ==
    Called(fn, v, limit, end, given, asked) /\ UNCHANGED scratchVars

-----------------------------------------------------------------------------
(* Wrong: no bound on what a header may claim; a bound that is one off.    *)
RefusedUnbounded(v) == v.header \in {CONTENTSIZE_ERROR, CONTENTSIZE_UNKNOWN}
RefusedTight(v) == v.header < 0 \/ v.header \div Ratio >= v.size

(* The checks of ZstdDecompressData::init().                               *)
Unreadable(v) ==
    \/ v.header = CONTENTSIZE_ERROR
    \/ v.header = CONTENTSIZE_UNKNOWN
    \/ v.header \div Ratio > v.size

(* Of frame_content_size().                                                *)
Refused(v) ==
    \/ v.header = CONTENTSIZE_ERROR
    \/ v.header = CONTENTSIZE_UNKNOWN
    \/ v.header \div Ratio > v.size

(* Wrong: the limit is not looked at.                                      *)
RefusedBeyondNone(v, max) == Refused(v)

(* Of decompress_zstd(compressed, max_size).                               *)
RefusedBeyond(v, max) ==
    \/ v.header = CONTENTSIZE_ERROR \/ v.header = CONTENTSIZE_UNKNOWN
    \/ v.header > max
    \/ v.header \div Ratio > v.size

(* ZstdDecompressData::init(): ZSTD_decompress has a context of its own.   *)
DecompressClass(v) ==
    /\ \/ Unreadable(v) /\ Ends("class", v, 0, "corrupt", 0, 0)
       \/ /\ ~Unreadable(v)
          /\ \/ Ends("class", v, 0, "no memory", 0, v.header)
             \/ Decodes(v, v.header) /\ Ends("class", v, 0, "returned", v.total, v.header)
             \/ ~Decodes(v, v.header) /\ Ends("class", v, 0, "failed", 0, v.header)
    /\ UNCHANGED <<contexts, string>>

(* decompress_frame(), whose result is good or throws what `bad' says.     *)
DecompressFrame(fn, v, limit, asked, good, bad) ==
    \/ NoContext("d") /\ Ends(fn, v, limit, "no memory", 0, asked)
    \/ Context("d") /\ good /\ Ends(fn, v, limit, "returned", v.total, asked)
    \/ Context("d") /\ ~good /\ Ends(fn, v, limit, bad, 0, asked)

(* decompress_zstd(compressed).                                            *)
Decompress(v) ==
    /\ \/ Refused(v) /\ Ends("string", v, 0, "corrupt", 0, 0) /\ UNCHANGED contexts
       \/ /\ ~Refused(v)
          /\ \/ Ends("string", v, 0, "no memory", 0, v.header) /\ UNCHANGED contexts
             \/ DecompressFrame("string", v, 0, v.header, Decodes(v, v.header), "failed")
    /\ UNCHANGED string

(* Wrong: the string is swapped for one of just the content's size.        *)
CapacityFor(size) == size

(* std::string::resize() keeps a capacity that is enough.                  *)
Capacity(size) == IF size > string.capacity THEN size ELSE string.capacity

(* Wrong: as much room as the string has.                                  *)
RoomKept(size) == Capacity(size)

Room(size) == size

(* decompress_zstd(compressed, out).  out has its new length before        *)
(* anything is decoded, and keeps it whatever comes of that.               *)
DecompressReuse(v) ==
    LET asked == IF Capacity(v.header) = string.capacity THEN 0 ELSE Capacity(v.header)
    IN  /\ \/ /\ Refused(v) /\ Ends("reuse", v, 0, "corrupt", 0, 0)
              /\ UNCHANGED <<contexts, string>>
           \/ /\ ~Refused(v) /\ asked > 0 /\ Ends("reuse", v, 0, "no memory", 0, asked)
              /\ UNCHANGED <<contexts, string>>
           \/ /\ ~Refused(v)
              /\ string' = [capacity |-> Capacity(v.header),
                            held |-> IF v.header > string.held THEN v.header ELSE string.held]
              /\ DecompressFrame("reuse", v, 0, asked, Decodes(v, Room(v.header)), "failed")

(* decompress_zstd(compressed, max_size): whatever fails is corrupt.       *)
DecompressLimited(v, max) ==
    /\ \/ RefusedBeyond(v, max) /\ Ends("limited", v, max, "corrupt", 0, 0) /\ UNCHANGED contexts
       \/ /\ ~RefusedBeyond(v, max)
          /\ \/ Ends("limited", v, max, "no memory", 0, v.header) /\ UNCHANGED contexts
             \/ DecompressFrame("limited", v, max, v.header,
                                Decodes(v, v.header) /\ v.total = v.header, "corrupt")
    /\ UNCHANGED string

(* Wrong: whatever was decoded is enough.                                  *)
FilledPartly(v, size) == Decodes(v, size)

Filled(v, size) == Decodes(v, size) /\ v.total = size

(* decompress_zstd_into(): false for anything that goes wrong; the         *)
(* recorded size does not matter to it.                                    *)
DecompressInto(v, size) ==
    /\ \/ NoContext("d") /\ Ends("into", v, size, "no memory", 0, 0)
       \/ Context("d") /\ Filled(v, size) /\ Ends("into", v, size, "returned", v.total, 0)
       \/ Context("d") /\ ~Filled(v, size) /\ Ends("into", v, size, "refused", 0, 0)
    /\ UNCHANGED string

-----------------------------------------------------------------------------
FrameBound(n) == CompressBound(n)        \* zstd_frame_bound()

Compressing == call.end = "compressing"

(* ZstdCompressData::init(), by ZSTD_compress into a string of the bound.  *)
CompressClass(n) ==
    /\ \/ Ends("compress class", Nothing, n, "no memory", 0, 0)
       \/ \E v \in Frames(n) : Ends("compress class", v, n, "returned", v.size, 0)
    /\ UNCHANGED <<contexts, string>>

(* compress_zstd() up to its result: a context is had, and kept, before    *)
(* there is memory to write to.                                            *)
CompressEnter(n) ==
    /\ ~Compressing
    /\ \/ NoContext("c") /\ Ends("compress", Nothing, n, "no memory", 0, 0)
       \/ /\ Context("c") /\ Refuse(FrameBound(n))
          /\ Called("compress", Nothing, n, "no memory", 0, 0)
       \/ /\ Context("c") /\ Acquire(FrameBound(n))
          /\ \E v \in Frames(n) : Called("compress", v, n, "compressing", v.size, 0)
    /\ UNCHANGED string

(* The copy of the frame, or an exception: zstd or the copy had no memory. *)
(* The scratch memory is given up in any case.                             *)
CompressLeave ==
    /\ Compressing
    /\ Release
    /\ \/ call' = [call EXCEPT !.end = "returned"]
       \/ call' = [call EXCEPT !.end = "no memory"]
    /\ UNCHANGED <<contexts, string>>

(* Wrong: every error is taken for a frame that does not fit.              *)
OnErrorFits(tooSmall) == "refused"

OnError(tooSmall) == IF tooSmall THEN "refused" ELSE "no memory"

(* compress_zstd_into(): 0 for a frame that does not fit.  zstd may want   *)
(* more room than the frame takes, up to the bound.                        *)
CompressInto(n, capacity) ==
    /\ \/ NoContext("c") /\ Ends("compress into", Nothing, capacity, "no memory", 0, 0)
       \/ /\ Context("c")
          /\ \E tooSmall \in BOOLEAN :
                /\ tooSmall => capacity < FrameBound(n)
                /\ Ends("compress into", Nothing, capacity, OnError(tooSmall), n, 0)
       \/ /\ Context("c")
          /\ \E v \in Frames(n) :
                /\ v.size <= capacity
                /\ Ends("compress into", v, capacity, "returned", v.size, 0)
    /\ UNCHANGED string

ZstdNext ==
    \/ CompressLeave
    \/ /\ ~Compressing
       /\ \/ \E n \in Contents :
                \/ CompressClass(n) \/ CompressEnter(n)
                \/ \E room \in Limits : CompressInto(n, room)
          \/ \E v \in Volumes \cup {call.volume} :
                \/ DecompressClass(v) \/ Decompress(v) \/ DecompressReuse(v)
                \/ \E limit \in Limits : DecompressLimited(v, limit) \/ DecompressInto(v, limit)

-----------------------------------------------------------------------------
Callees ==
    {"none", "class", "string", "reuse", "limited", "into",
     "compress class", "compress", "compress into"}

ZstdTypeOK ==
    /\ contexts \in [c : Nat, d : Nat]
    /\ string \in [capacity : Nat, held : Nat]
    /\ call \in [fn : Callees, volume : AnyBytes, limit : Nat, given : Nat, asked : Nat,
                 end : {"returned", "corrupt", "failed", "refused", "no memory", "compressing"}]
    /\ Volume(call.volume)

(* A frame that decodes to the size it records, and nothing behind it.     *)
Exact(v) == v.sound /\ v.header >= 0 /\ v.total = v.header

(* compressor_zstd.h:266, "The same results and exceptions as              *)
(* ZstdDecompressData", of every decoder that returns a string: exactly    *)
(* the frames that hold what they record are returned, whole, and the      *)
(* guard against damaged headers never turns one of them away; any other   *)
(* volume is called corrupt, or fails, by all alike.  With max_size,       *)
(* "anything else throws ZstdCorruptVolume" (compressor_zstd.h:261).       *)
Outcome(fn, v, max) ==
    IF Exact(v) /\ (fn = "limited" => v.header <= max) THEN "returned"
    ELSE IF fn = "limited" \/ Unreadable(v) THEN "corrupt"
    ELSE "failed"

SameResults ==
    call.fn \in {"class", "string", "reuse", "limited"} /\ call.end # "no memory" =>
        /\ call.end = Outcome(call.fn, call.volume, call.limit)
        /\ call.end = "returned" => call.given = call.volume.header

(* "a steady stream of calls creates none" (compressor_zstd.cc:138): one   *)
(* context of each kind, whatever was refused.  A reader that decodes into *)
(* one string "allocates nothing once `out' has held the largest"          *)
(* (compressor_zstd.h:270), also where a decoding failed.  And no header,  *)
(* sound or not, sizes an allocation out of proportion to the volume.      *)
AllocatesLittle ==
    [][/\ contexts'.c <= 1 /\ contexts'.d <= 1
       /\ call'.fn = "reuse" /\ call'.volume.header <= string.held => call'.asked = 0
       /\ call'.asked < Ratio * (call'.volume.size + 1)
       /\ call'.fn = "limited" => call'.asked <= call'.limit]_zstdVars

(* What the functions with a buffer of the caller's promise: nothing past  *)
(* its end, 0 only for a frame that need not fit, and true exactly for     *)
(* what fills the buffer (compressor_zstd.h:281-288).                      *)
FramesIntoBuffer ==
    /\ call.fn = "compress into" =>
        /\ call.end = "returned" => call.given <= call.limit /\ Exact(call.volume)
        /\ call.end = "refused" => call.limit < FrameBound(call.given)
    /\ call.fn = "into" /\ call.end # "no memory" =>
        (call.end = "returned" <=> call.volume.sound /\ call.volume.total = call.limit)
=============================================================================
