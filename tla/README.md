# A TLA+ model of `compressors`

`compressors` puts deflate (zlib), LZ4 and zstd behind one function shape. The
codecs themselves are libraries. What this repository adds, and what can go
wrong in it, is the code around them: ring buffers whose bytes LZ4 keeps
pointing into, two or three implementations of each format that must agree,
loops that end when a library call leaves room in a buffer, iterators that must
not signal the end together with the last block, descriptors that are owned or
borrowed, objects and per-thread state that are used again. These modules model
that code, TLC checks it on small instances, and TLAPS proves every safety property
and every refinement that TLC checks for all values of the constants: the LZ4
producers write the format's stream and its three readers agree on it, deflate
streams are finished once with all of their input in them, no decoder takes
damage for the end or leaves its memory, the XXH32 digest is that of the bytes,
the one-shot functions keep their promises, an iterator gives each byte once,
descriptors are closed by their owner, and only by it. What a caller has to do for
that (`close()` before the next file, `reset()` before the next loop) is a named
hypothesis, with a run that shows why. Liveness stays with TLC.

Contents: [the system](#the-system), [the modules](#the-modules),
[the runs](#the-runs), [fairness](#fairness), [the proofs](#the-proofs),
[where code and documents disagree](#where-code-and-documents-disagree),
[what is not modelled](#what-is-not-modelled), [plan](#plan).

## The system

| component | state it keeps | operations | what makes it correct |
|---|---|---|---|
| LZ4 block format (`compressor_lz4.{cc,h}`) | none: a sequence of `[uint16 length][block]` records, in segments of 256 KB | written by two producers, read by three decoders | every producer puts blocks at the same places, so that each block may refer to the same bytes; every decoder finds them there |
| `LZ4CompressData`, `LZ4CompressFile` over `LZ4BlockStreaming` | a ring (`buffer`, `_offset`), `lz4Stream`, a digest, where the input is | `begin` (`init`), `++it` (`next`), `reset`, `add_data`, `close`, `open`, `add_fildes` | the ring is not overrun; bytes LZ4 may refer to are intact; a stream refers to nothing older than itself; all input, once, in order |
| `compress_lz4` | a `thread_local` encoder; scratch memory; a ring of its own for long inputs | one call | the class's bytes, whatever earlier calls on the thread did |
| `LZ4DecompressData`, `LZ4DecompressFile` | a ring, `lz4StreamDecode`, the input or a read buffer | `begin`, `++it`, `reset` | history is where LZ4 looks for it; a record cut by two reads is put together from its own bytes |
| `decompress_lz4` | scratch memory, then a ring and a string | one call | never past the scratch memory, which is sized from the headers; the class's bytes and verdicts |
| `DeflateCompressData`, `compress_deflate` | `strm`, `data_offset`, output block | `begin`, `++it`, `reset`, `add_data`, `close`; `init` and `next(input, size, flush)` | the stream is finished once, with all of the input in it; the loop over `deflate()` ends |
| `DeflateCompressFile` | the same, `bytes_readed`, `size_file`, a descriptor | the same over a file | never a part of the file passed off as the whole |
| `DeflateDecompressData`, `DeflateDecompressFile` | `strm`, input, output block | `begin`, `++it`, `reset`, ... | all the output of a complete volume that is read from its front, in order; damage is not mistaken for the end |
| `decompress_deflate` | an `Inflater`, a block on the stack, a string that doubles | one call | the same, and never past its buffers |
| block iterators (`BlockStreaming::iterator`, three times) | the current block, how much `read` has taken of it, a pointer to the object | `begin`, `++it`, `operator bool`, `read`, `==` | every loop over an object gets its bytes in order, the last block too |
| file descriptors (`compressor_io.h`, `LZ4File`, `DeflateFile`) | `fd`, `fd_internal` | `open`, `add_fildes`, `close`, the destructor, `detail::read`, `detail::close` | an owned descriptor is closed once, a borrowed one never; `read` returns a full block if the file has it |
| `Scratch` (`compressor_scratch.h`) | a block per thread, kept up to 1 MB, shared by the codecs | constructor, destructor | a call has the room it asked for, also after a failed allocation |
| XXH32 (`xxh32_stream.h`) | `total_len`, `large_len`, four lanes, a carry of 16 bytes | `reset`, `update`, `digest` | the digest is that of the bytes, however they were cut, past 4 GB too |
| zstd (`compressor_zstd.{cc,h}`) | a compression and a decompression context per thread | one-shot functions, `Zstd*Data` | five decoders that agree on what they accept; memory in proportion to the input |
| raw LZ4 blocks (`compressor_lz4.{cc,h}`) | an encoder state per thread | `lz4_block_bound`, `compress_lz4_block`, `decompress_lz4_block` | sizes of `size_t` before a library that counts in `int` |

**Interaction.** There are no messages and no locks. Components meet in four
ways. An iterator calls its object's `init()` and `next()`; the caller decides
when, and in what order with `reset()` and `close()`. An object calls a library
whose state refers into the object's own buffers (LZ4) or that decides how much
it gives at once (zlib). File classes call the operating system, which reads
short, is interrupted, fails, and lets other processes change the file and other
threads open descriptors. And per-thread state (the LZ4 encoder, zstd's contexts,
the scratch block, which `compress_lz4` and `compress_zstd` share) outlives a
call, even one that threw.

**What is hard.** *Long sequences*: a ring goes wrong at its first wrap, after
256 KB, and only for some alignment of short blocks. *Reuse*: `reset()` after a
loop that was abandoned, or threw, on an object whose fields `reset()` only
partly clears. *Boundaries*: output that fills a buffer exactly, a stream that
ends where a buffer does, inputs of whole blocks, empty inputs. *Partial
failure*: a read that fails after some bytes, an allocation refused in the
middle. *Agreement*: the same format handled by separate code. `PROJECT.json`
lists each hazard at its line with the properties that watch it.

## The modules

Each component has a module with one action per operation; a handler's body is
split only where the code can be observed or resumed in between (a loop over
library calls, system calls), and everything it does on the way belongs to that
action. A module that ends in `Next` without a specification is composed with
its siblings by another, which holds the specification and the properties.

Libraries are modelled from the outside, in `LZ4Codec`, `Zlib` and
`FileRead`: any result the code around them has to expect.

Definitions whose comment begins "Wrong:" are plausible mistakes and used by no
action. For each checked property, "mutants" in `PROJECT.json` names one of them
and the definition it replaces; TLC then finds the property violated.

### LZ4

- `LZ4Codec` (external): what `LZ4_compress_fast_continue` and
  `LZ4_decompress_safe_continue` remember, as spans of addresses: the
  dictionary, the part of it that a new block overwrites, and the cells a block
  may refer to. Bytes are modelled by their **position in the stream**, so that
  a byte of an earlier stream still in the ring, or one already overwritten, is
  told apart from the right one. Compressed lengths are not modelled: no control
  depends on them in the compressors.
- `LZ4Layout` (abstract): a producer's promise, without any buffer: which bytes
  each block may refer to. It states the comment over the one-shot helpers ("LZ4's
  output depends on where each block sits relative to the previous ones"). Two
  producers that implement it write the same bytes.
- `LZ4Ring`: the ring both compressing classes stage input in; `Advanced` and
  `ResetRing` are its whole difficulty. Implements `LZ4Layout`.
- `LZ4CompressData`, `LZ4CompressFile`: where the input comes from. The file
  class has ranges (`fd_offset`, `fd_nbytes`), `lseek` that fails, and reads
  from `FileRead`.
- `LZ4BlockStreaming` composes the two over the ring, with the loop that drives
  them. `class` says which one the object is.
- `LZ4CompressOneShot`: `compress_lz4`, call after call on one thread. The first
  `wrap_size` bytes are compressed in the caller's buffer, the rest in a ring;
  the two together keep the same layout. Composed by `OneShots`.
- `LZ4Block`: the functions on raw blocks, for sizes on either side of what an
  `int` and LZ4 hold. Composed by `OneShots`.
- `LZ4Decoder` (abstract): a record decodes if and only if it is well formed and
  refers to its own stream; the first that does not ends the stream as corrupt.
- `LZ4Framing`: records as headers and claimed lengths, and the header walk of
  `decompress_lz4`.
- `LZ4DecodeRing`: the ring of the decoding classes, with `lz4StreamDecode`'s
  prefix and external dictionary.
- `LZ4DecompressData`, `LZ4DecompressFile`, `LZ4DecompressOneShot`: the three
  decoders. What a body decodes to is chosen when it is reached. In the file
  class the header and the body are sequences of file positions, put together
  from what is left in `data` and what the next read brings.
- `LZ4Decompress` composes the three: `decoder` says which one the caller took.

### Deflate

- `Zlib` (external): `deflate()` and `inflate()` as relations. A call takes some
  of its input and gives some of its output, subject to what the zlib manual
  promises and the code relies on. `Overhead` bounds how much longer than its
  input an output may be. A volume is a size, the size of the whole stream in
  it, how much output each prefix allows, and where it is damaged.
- `DeflateCompressData`, `DeflateChunks`: the iteration over a buffer, and
  the public `next(input, size, flush)`.
- `DeflateCompressFile`: with a file that changes from the moment `init()` has
  taken its size until the last read, the first read included. `CloseFirst` says
  whether callers `close()` an object before they `reset()` it to the next file.
- `DeflateCompress` composes the three (`use` says which way in the caller took).
- `Inflation` (abstract): output in order, the end only after all of it, damage
  never taken for the end.
- `DeflateDecompressData`, `DeflateDecompressFile`, `DecompressDeflate`
  (`Inflater` and the growing result, round by round); `DeflateDecompress`
  composes the three and shows that each implements `Inflation`.
  The classes read what their stream makes of the bytes it gets, and that is not
  always the volume the caller handed in. `init()` tries `inflateInit2` again for a
  raw stream where the first call failed and `gzip` is not set; and it does not
  rewind, so that a second `begin()` (`loops`) opens its stream where the last loop
  stopped (`base`), in the middle of the volume or behind it. In either case, `Astray`,
  the bytes are read as one of `Misreadings`, any volume at all (`reading`); what
  is left to promise is `Inflation` of that. A loop that is not astray reads
  the caller's volume, which is what `Followed` says.

### The rest

- `ZstdOneShot`: the one-shot functions of a thread over its contexts, with
  `ZstdCompressData` and `ZstdDecompressData`, whose results they promise. A
  volume is a length, the content size its first frame records (or that it
  records none, or is no frame), what its frames hold, and whether they decode;
  libzstd's calls on such volumes are a section of the module (external).
- `OneShots` composes `LZ4CompressOneShot`, `ZstdOneShot` and `LZ4Block` over
  `Scratch`, call after call on one thread. `uses` says what the thread calls
  them for: the two compressors that share `Scratch`, zstd's functions, or raw
  blocks. A call of `compress_zstd` is two steps, as its memory is held between
  them; the other functions of zstd, which leave nothing behind that could be
  met in the middle, are one.
- `BlockIterator` (abstract in its object): the iterator of the three
  `BlockStreaming` templates, over an object that gives blocks, empty blocks and
  its end as deflate's, LZ4's and zstd's `init()` and `next()` do, with the four
  loops a caller may write: on `operator bool`, on `!= end()`, and on `read`
  with or without `operator bool`.
- `FileRead`: what `detail::read` returns, as its callers see it. `DetailRead`
  is the same function system call by system call, and `Promise` in
  `FileDescriptor` says that the first describes the second.
- `FileHandle`: ownership and closing of the descriptor, with other threads
  opening and closing theirs between any two system calls.
  `FileDescriptor` composes the two.
- `Scratch`: stack, kept block and heap, with refused allocations.
  `ScratchSpec` is its specification on its own.
- `XXH32Stream`: which bytes go to the carry and which to the lanes, for both
  kernels. `Width` is `2^32`, the range of `total_len`.
- `LZ4BlockStreamingProofs`, `LZ4DecompressProofs`, `OneShotsProofs`,
  `DeflateCompressProofs`, `DeflateDecompressProofs`, `BlockIteratorProofs`,
  `FileDescriptorProofs`, `XXH32StreamProofs`: the proofs.

An `MC*` module gives the constants that are sets of records or functions, its
`.cfg` the rest; where a `.cfg` can give all of them (`BlockIterator`,
`DeflateCompress`, `FileDescriptor`, `XXH32Stream`), the run takes the module itself. `map` in
`PROJECT.json` relates every definition to its lines.

## The runs

Blocks of 2048 bytes become blocks of two, the ring of 262144 bytes and LZ4's
window of 65535 shrink with the relation the code depends on kept:
`Wrap >= Window + Block`. Two is the least size that has a whole, a partial and
an empty block; three blocks to a segment give the ring a first, a middle and a
last place. `MaxPos`, `MaxInput`, `MaxBegins` and `MaxChanges` bound how long
the caller goes on, and every bound is a guard with that name.

| run | question | bounds |
|---|---|---|
| `lz4_block_streaming` | Do the compressing classes write the format's stream for their input, whatever was done with the object before? | `Block` 2, `Wrap` 6, `Window` 3; a buffer of 13 bytes closes two segments and begins a third, others end inside a block, on the wrap, or are empty; files with ranges, reads cut by errors on every alignment |
| `one_shots` | Is a call independent of the calls before it on the thread, is its memory large enough, and do zstd's decoders agree? | `compress_lz4`: `Block` 2, `Wrap` 6, `Window` 4, inputs to 15 bytes (three segments, the ring twice round), after calls that returned or threw anywhere; `Scratch` needs on the stack, kept, and on the heap, from both compressors. zstd: `Ratio` 4; frames that are what they say, hold less or more, are followed by another, claim just as much as they may and just too much, record nothing, or are none; a call's volume may be the one before's. Raw blocks: an `int` of four bits, sizes in range, negative as an `int`, and small again |
| `lz4_decompress` | Do the three decoders agree, and stay in their memory? | `Block` 2, `Wrap` 4, `Window` 2; five records of one or two bytes wrap on every alignment; streams that are whole, cut in a header or a body, or claim too much; the file buffer (five bytes) cuts records at every place |
| `lz4_decompress_reuse` | Does `reset()` make a decoder as good as new? **No**: see below | the same, for damaged streams |
| `deflate_compress` | Is the stream finished once with everything in it, can a part be passed off as the whole, and do the loops end? | buffers of none, part of a block, whole blocks, a block and a part; output up to three bytes longer than the input, so that it fills the output block exactly and again; chunks of 0 to 3 bytes; files of 0, 3, 4 bytes, growing and shrinking from one to the other, reads that fail |
| `deflate_compress_file_reuse` | Does `reset()` serve for the next file? **No** | the same, without `close()` |
| `deflate_decompress` | Do the three decoders implement `Inflation`, stay in their buffers, and end? | volumes of four and six bytes, whole, truncated and damaged at every place, or followed by other bytes; outputs that fill the head, fill the string, or make it double; two `begin()`s on one object, rewound or not, opened by the format or raw; a misreading is damaged after a byte or two, or gives a block |
| `file_descriptor` | Is anything closed that should not be, or left open by callers who `close()` first? Does `read` keep its promise? | four descriptors; calls for 0, 1 and 4 bytes, short in every way |
| `file_descriptor_reuse` | And by callers who do not? **The descriptor leaks** | the same, without `close()` |
| `file_descriptor_eintr` | And where an interrupted `close` has closed? **Another's is closed** | the same |
| `xxh32_stream` | Is the digest that of the bytes? | the real block of 16 bytes, `Width` 32, streams of 70 bytes, so that `total_len` wraps twice; every length that `copy_small` treats differently |
| `block_iterator` | Does every loop over an object get all of its bytes in order, and end? | blocks to 3 bytes, two of them empty, objects to 4 bytes, reads to 4 bytes, shorter and longer than a block; each object reset once, after whatever loop |

What the properties say, in the order of the runs:

- *`StreamOfInput`*: a loop (or call) that ended without an error compressed all
  of its input once, and the first after construction or `reset()` wrote exactly
  the stream `LZ4Layout` writes down for that input. Since it holds of the class
  over a buffer, over a file and of `compress_lz4`, the three write the same
  bytes. *`NoOverrun`* and *`DictIntact`* are about the ring: no block past its
  end, no byte LZ4 may still refer to overwritten. *`KeepsLayout`* is the
  refinement of `LZ4Layout`. *`InFileOrder`* covers reads that fail after some
  bytes. *`RoomEnough`* and the one-shot's *`NoOverrun`* are about `Scratch` and
  the size asked of it.
- *`SameResults`*: all decoders of zstd frames that return a string accept the
  same volumes, exactly those that hold what they record, and fail in the same
  way on the others. *`AllocatesLittle`*: one context of each kind for a thread,
  no allocation for a string that has held as much, and none out of proportion
  to the volume, whatever its header says. *`IntoBuffer`*: the functions of zstd
  and LZ4 that write to the caller's memory stay inside it, and their 0, `true`
  and lengths mean what is promised, at every edge of `int` and `size_t`.
- *`Decodes`* is the refinement of `LZ4Decoder`, by all three decoders.
  *`SameFraming`*: a class finds as many records as the header walk of
  `decompress_lz4` finds, and ends as it ends. *`RecordBytes`*: a header and a
  body cut by a read are made of the bytes of the file that follow the record
  before. *`InsideScratch`* and *`ReturnsAll`* are about the memory and the
  result of `decompress_lz4`.
- *`WholeStream`*: a loop over rewound data, or over a file, that ends without an
  exception wrote one closed stream of all the data, of `size_file` bytes for a
  file that changes; `deflate()` gets no input after the stream is closed.
  *`AllGiven`*: between its calls of `next()` the caller of chunks has all of the
  output there is for them. *`NoNeedlessError`*: the file class throws only where
  something went wrong.
- *`LoopEnds`*, for the compressors, names its one exception, `Stuck`: a partial
  flush of a chunk of one byte, which stays in its loop for ever.
- *`Inflates`* is the refinement of `Inflation` by the volume the caller handed in,
  or, in a loop astray, by what its stream takes the bytes for. *`InsideBuffers`* is about the
  raw pointers of `decompress_deflate`.
- *`NoLeak`*: no descriptor that the object opened is still open after it let go
  of it; it holds of callers who `close()` before they attach another file.
  *`NeverClosesAnothers`*, *`Promise`*, *`Returns`*: descriptors and
  `detail::read`. *`DigestOfAll`*: the digest takes the bytes of the stream from
  the lanes and the carry, each once, in order, and in the form for its length.
- *`Streams`*: the contract of `ARCHITECTURE.md:35`, over every codec, by blocks
  or by reads: the bytes in order, none twice, all of them before the end. The
  exception it states is a loop that takes a deflate object's empty block for
  the end, below.

Behaviours that stop at a bound, or because a one-shot call has returned, are
why some configurations say `CHECK_DEADLOCK FALSE`.

## Fairness

*`LoopEnds`* (stated of each loop, in four modules) and *`Returns`* are the only liveness
properties. What they assume:

- weak fairness of one iteration of a loop already entered inside `next()` or a
  one-shot call: the code is sequential and runs on;
- weak fairness of `++it`: the documented loop,
  `for (auto it = obj.begin(); it; ++it)`, calls it while the iterator is not
  empty. In `BlockIterator` it is one weak fairness condition over the steps of
  a loop already begun, `read` among them;
- in `FileDescriptor`, weak fairness of a system call that answers: signals do
  not interrupt one call for ever.

Nothing is assumed of `begin()`, `reset()`, `close()` or the next chunk, which
are the caller's choice, nor of failures. Termination itself comes from the code:
the loops over `deflate()` and `inflate()` end because a call that fills the
output buffer has used up some of the finite output. That argument has one
exception. A partial flush that is asked for again adds an empty block of ten bits,
so its output is not finite: into a buffer of two bytes and more the block leaves
room, but `next(input, 1, flush)` has one byte, every call fills it, and the
loop of `compressor_deflate.cc:106-115` never ends. The run has chunks of that
size, `LoopEnds` excludes exactly that call (`Stuck`) and says that it never
returns, and `OneByteNeverReturns` proves that for every block and chunk size. No
document or test promises that `next` returns, so it is not listed as a
disagreement.

## The proofs

What is assumed of the constants is named in the module that declares them, and
TLC evaluates it on every run: sizes are natural numbers, positive where a block
or a step is meant; `Wrap >= Window + Block` (`RingAssumption`; 262144, 65535 and
2048 in the code) and, where whole streams are compared, `Wrap % Block = 0`
(`StreamingAssumption`); of a zlib volume, that a longer part of it determines
at least as much output, none of it nothing, and that a stream has at least a
byte (`InflateAssumption`). Bounds such as `MaxPos` are arbitrary.

**`LZ4BlockStreamingProofs`**, the compressing classes:

- `RingInvariant`: `RingSpec => []RingInv`. The properties are not inductive as
  they stand: that the next block overwrites nothing needed depends on where the
  dictionary is, and that depends on all the blocks before. `ShapeInv` says that
  the dictionary always stands at the front of the ring: it is the segment
  being filled (`dict.hi = offset`), or, when a segment is about to begin, all of
  the one just closed, at least `Wrap` bytes. `ContentsInv` says that its cells hold the
  bytes just before `pos`. The one interesting case is the first block after a
  wrap: it overwrites `0 .. n-1`, what is left is at least
  `Wrap - Block >= Window` bytes, which is all LZ4 looks at (lemma `RefsExact`).
- `RingNoOverrun`, `RingDictIntact`, `RingSelfContained`: the safety properties
  of the ring on its own, from the invariant. `RingSelfContained` strengthens it
  by what is already in `out`. `RingKeepsLayout` is the refinement; `RefsExact` is
  the whole argument: the references a block of the ring gets are the ones
  `LZ4Layout!Emit` gives it.
- `ClassesAreRings`: `Spec => RingSpec`. Whatever the buffer, the range of the
  file, and wherever a read stops, a class hands its ring blocks of `1 .. Block`
  bytes. It gives `ClassNoOverrun`, `ClassDictIntact` and `ClassKeepsLayout`, the
  properties of the run, and with the types of the input's side `ClassTypeOK`.
- `FileInOrder` and `LoopsWriteTheStream` (`InFileOrder`, `StreamOfInput`), from
  `LoopInv`: what was fed and what is left make up the input (`FedInv`), and while
  all blocks but the last are full, `out` is what `LZ4Layout!Stream` writes down
  for that many bytes (`StreamInv`). `Stream` is a definition by block and
  segment; `StreamGrows` says what one more block adds to it, which is what
  `Emit` appends.

**`XXH32StreamProofs`**, for every set of lengths, every `MaxBytes` and every
`Width` of at least 32 (`StreamAssumption`), so for the real `2^32`:

- `StreamInvariant`: the lanes have the whole blocks of the stream, the carry
  holds the bytes after them, `total_len` is the length modulo `Width`, and
  `large_len` remembers whether a block was ever full.
- `StreamTypeOK`, `DigestIsOfBytes`: `TypeOK` and `DigestOfAll` from it. The
  lemmas are about the overlapping copies (`CopiedAll`), the modular sum
  (`ModSum`), the block arithmetic (`WholeBlocksAll`), and each way through
  `update` (`CarryOnly`, `CarryCompletes`, `ThroughLanes`).

**`LZ4DecompressProofs`**, the three decoders, whatever records come and
whatever `reset()` and earlier streams have left in the ring:

- `DecodeInvariant`: `DecodeInv`, of two parts. `ShapeInv`: every prefix starts
  at the front of the ring; inside a segment, the stream so far is in the
  prefix, or the external dictionary is a whole segment, at least `Wrap` bytes;
  at the front, the last segment is whole or the stream has no bytes yet.
  `ContentsInv`: while no record was refused, the cells of both hold the bytes
  they should, those of the current stream.
- `DecodeNoOverrun`; and `RingDecodes`, the refinement of `LZ4Decoder` by the
  ring on its own, from two lemmas: nothing a record of this stream may reach is
  out of the decoder's sight (`Sight`), and it sees the right byte there, although
  a block at the front of the ring is being written over the history it reads
  (`SeenIsStream`: the write stays behind the reading).
- `DecodersInv`: `DecompressInv`, one invariant for each decoder. For the classes
  it adds to `DecodeInv` where in the stream they stand: `FilePlace` says which
  bytes of the file are in `data`, in the header and in the block put together,
  for every place a read can cut. For `decompress_lz4` it is `MemoryInv`: the
  history is in scratch memory, in the ring's current and previous segment, or,
  just after the step from one to the other, in both, at addresses that the next
  record cannot overwrite; and `CallCounts`: records decoded and records left add
  up to those the header walk counted.
- From it `DecodersNoOverrun`, `CallsInsideScratch`, `CallReturnsAll`,
  `FileRecordBytes`, `DecodersTypeOK`, and `DecodersDecode`, the refinement of
  `LZ4Decoder` by all three. Its hypothesis `~Damaged`, that streams do not refer
  to what came before them, is part of the theorem; `lz4_decompress_reuse` shows
  that it is needed.
- `DecodersAgree` (`SameFraming`) compares a loop of the classes with the header
  walk of `decompress_lz4`, which `LZ4Framing` defines by a recursive function
  (`RecordEnd`). The library's induction theorem cannot be used, so what the
  function computes is proved from the least number principle: `LeastOf`,
  `Induction`, then `RecordEnds` and `WalkIs`, on which the rest stands.

**`OneShotsProofs`**, over `OneShots`, so for every order of a thread's calls:

- `ScratchInvariant`, `RoomIsEnough`: `Scratch` on its own, for every
  `Small <= Kept`. The recorded size of the kept block never exceeds what is
  allocated (`CacheInv`), also after a refused allocation. `CallsAreScratch`
  shows that `compress_lz4` and `compress_zstd` together implement
  `ScratchSpec`, and gives `RoomForEveryCall`.
- `DecodersAgree`, `MemoryIsBounded`: `SameResults` and `AllocatesLittle`, for
  every ratio, volume and `max_size`, from `ZstdInv`. Two lemmas about the guard
  `content_size / 32768 > size` carry them: it turns no frame away that can hold
  what it records (`HeldIsRead`), and what it lets pass is in proportion to the
  frame (`ClaimIsBounded`).
- `BuffersAreKept`: `IntoBuffer`, for every width of `int`. A size that passes
  the range checks is the same number as an `int` (`AsIntIs`).
- `OneShotKeepsLayout`: `compress_lz4` implements `LZ4Layout`, as the class
  does. Its invariant, `CallInvariant`, joins three shapes of the dictionary: in
  the caller's buffer, all of the input so far; just after the step to the ring,
  that buffer still, by an address no block of the ring overwrites; from the
  ring's first block on, what `LZ4BlockStreamingProofs` has. `OneShotNoOverrun` adds that
  the memory asked for has room for a record more for as long as there is input
  (`RecordsFit`). `OneShotWritesTheStream` (`StreamOfInput`) is the same statement
  about `LZ4Layout!Stream` as `LoopsWriteTheStream`, so that together they say
  that class and call write the same blocks. `OneShotsTypeOK`: `TypeOK`.

**`DeflateCompressProofs`**, for every block size, every `Overhead` and wherever
`deflate()` cuts its output:

- `DeflateTypeOK` and `DeflateChunkInv` are proved together, as the room of a
  call for chunks is a type that depends on where it stands. `ChunksGetAll`
  (`AllGiven`): a round that leaves room has left nothing inside zlib.
- `OneByteNeverReturns`: the exception of `LoopEnds` is real, `Spec => [](Stuck =>
  []Stuck)`.
- `StreamIsWhole` (`WholeStream`) and `NoErrorWithoutCause` (`NoNeedlessError`),
  from `BufferInv` and `FileInv`. They say which positions of the input zlib has
  taken, as one run of positions from the front (`PositionsJoin`), that this
  ends where the block in hand begins, and that the flush is `Z_FINISH` exactly
  for the block that ends the data. For a file, `bytes_readed` is where the
  descriptor stands, which is what a missing `close()` breaks: both theorems
  assume `CloseFirst`. `deflate_compress_file_reuse` shows that the second needs
  it. So does the first: on top of the count of the loop before, a part of the
  file completes `size_file` and is finished, and if the next read fails, the loop
  ends without an exception.

**`DeflateDecompressProofs`**, for every volume, block size and step, and
wherever `inflate()` and the reads stop:

- One call of `inflate()` is one lemma (`InflateGives`): it stays on the output
  the bytes determine (`Follows`), reports damage only where it reaches it, and
  leaves room only when what it was given is used up.
- `DecompressInvariant`: what `inflate()` took ends where the bytes in hand
  begin. `DataInv`: these end where a block of the buffer ends; `FileInv`: at the
  descriptor, and `stream` is `Z_STREAM_END` exactly behind the end; `CallInv`: at
  `in`, and who finds the input finished has all of the output (`CallDone`).
- `DecodersInflate` is the refinement of `Inflation` of `Followed`: of the caller's
  volume, unless the loop is astray. So it does not say that a sound volume is
  never reported as damaged; `Astray` says when it may be. Every step of each
  decoder is one of `Moves`, which are `Inflation`'s (`MovesInflate`). Two facts carry it:
  a decoder that has used up its volume and has room left has all the output
  there is, and the volume was sound (`TakenAll`); one that got an error has met
  damage among the bytes that are there (`DamageReached`). `CallInsideBuffers`
  (`InsideBuffers`) and `InflateTypeOK` follow from the invariant.

**`BlockIteratorProofs`**: `LoopsGetTheStream`, for blocks, reads and objects of
any length. `IteratorInv` relates what the caller has to where the iterator
stands: at the start of the current block in a loop over blocks, behind `offset`
bytes of it in a loop of reads; and an empty string means the end, or zlib.

**`FileDescriptorProofs`**, for any number of descriptors and lengths:
`NoDescriptorLeaks`, whatever an interrupted `close` did, under the hypothesis
`CloseFirst`, which `file_descriptor_reuse` shows to be needed (`KnownInv`);
`OthersAreKept`, where it has not closed (`OwnInv`; the hypothesis
`"closed" \notin Interruptions` is part of the theorem, and
`file_descriptor_eintr` shows that it is needed); `ReadKeepsPromise` (`ReadInv`:
what is still asked for and what has been read add up); `DescriptorTypeOK`.

**Only model-checked.** `LoopEnds` and `Returns`: liveness under fairness is out of
the prover's reach, and with it that the loops end. The four violations are
counterexamples. Everything else a run checks is proved, under the hypotheses
named above.

## Where code and documents disagree

Four runs show a disagreement by a counterexample.

1. `lz4_decompress_reuse`: `LZ4DecompressData::reset()` clears neither
   the decoder's dictionary nor the ring (`compressor_lz4.h:285`), so a damaged stream
   whose first block refers to bytes before it is decoded with bytes of the
   previous stream, where a new object and `decompress_lz4` reject it. Valid
   streams are not affected (`Decodes`).
2. `deflate_compress_file_reuse`: `DeflateCompressFile::reset()` keeps
   `bytes_readed` (`compressor_deflate.h:362`); without `close()` in between,
   the second file is not finished, and a sound file ends in an exception.
   If the read behind the premature end fails, a part even passes for the whole.
3. `file_descriptor_reuse`: `open()`, `add_fildes()` and `reset()` assign `fd`
   without looking at the descriptor the object has (`compressor_deflate.h:322`,
   `compressor_lz4.h:340`), so an object that opened one file by name and is reset
   to the next leaves the first open, where `compressor_deflate.h:32` says "the class
   owns the fd and closes it".
4. `file_descriptor_eintr`: `detail::close()` repeats `close()` after `EINTR`
   (`compressor_io.h:49`). POSIX leaves the descriptor's state open; where the number is
   already free, as on Linux, the second call closes whatever another thread was
   given. Under the other reading the property holds (`file_descriptor`).

Smaller ones, met while modelling, which no run is spent on:

- With `fd_offset = -1`, `DeflateCompressFile` reads from the start of the file:
  `init()` seeks there after it has learned the size (`compressor_deflate.cc:291`),
  where `test/test.cc:186` says it reads from the current position.
- With `gzip` not set, both inflating classes try a raw stream where the first
  `inflateInit2` failed (`compressor_deflate.cc:190`, `380`). That call never looks at
  the data: it fails for lack of memory. If the second then succeeds, a sound volume
  is read as raw deflate and reported as damaged; and raw deflate data is never
  served by the retry, as the first call does not fail for it.
- A second `begin()` on `DeflateCompressData` or `DeflateDecompressData` without
  `reset()` or `close()` ends from `init()` with no block
  (`compressor_deflate.cc:127`, `213`), or starts in the middle of the data where
  the first loop was abandoned. So may one on `DeflateDecompressFile` with
  `fd_offset = -1`, whose `init()` then does not seek.
- `next(input, 0, flush)` gives `deflate()` no room, which is an error, so a
  chunked stream cannot be finished with an empty chunk
  (`compressor_deflate.cc:106`); a chunk of one byte with a partial flush never
  returns ([fairness](#fairness)).
- `LZ4CompressFile` takes a read error for the end of the file
  (`compressor_lz4.cc:250`), so a stream may be cut short without an exception.
- A loop with `!= end()`, a range-based `for` among them, or one of `read`s until 0,
  over a deflate object stops at a block without bytes, which zlib may produce
  in the middle (`compressor_deflate.h:156`; `Streams`).
- `decompress_zstd` accepts a recorded size up to 32768 times that of the frame
  and another 32767 bytes (`compressor_zstd.cc:182`), where `README.md:90` says
  32,768 times.
- `decompress_zstd` with `max_size` throws `ZstdException` when there is no
  memory for a context, where `compressor_zstd.h:260` says that anything else is
  `ZstdCorruptVolume`; and `decompress_zstd_into` then returns `false` for a sound frame.
- `zstd_frame_bound` of a size no frame can have is zstd's error code as a huge
  number, where `lz4_block_bound` returns 0 (`compressor_zstd.cc:257`).
- `DeflateCompressFile` throws for an empty file; `fd_nbytes` is ignored by both
  deflate file classes; `docs/API.md:49` calls the zlib wrapper "raw deflate".

## What is not modelled

- **Bytes.** Compressed bytes, lengths of compressed blocks, byte order of the
  headers, XXH32's arithmetic: no control of this code depends on them, except
  that a length is in range, which is a choice in the model.
- **Levels** of zstd: they choose among outputs the model allows anyway.
- **Copies of iterators**, which share their object but not the block they hold: the
  documented loops have one.
- **Failures that need no state**: `lz4Stream` refused at construction, and
  `LZ4_compress_fast_continue` failing in a buffer sized by
  `LZ4_compressBound`, which LZ4 excludes.
- **`DeflateCompressData` over no data, through the iterator**
  (`compressor_deflate.cc:87-93`): `begin()` gives an empty block, and the `++it`
  after it asserts a buffer that was never allocated. An object without data is
  modelled as what it is for, chunks handed to `next(input, size, flush)`.
- **`fd_nbytes`** of the deflate file classes: it is stored and never read.
- **`exception.h`, `likely.h`**, the build, tests, benchmarks, fuzzers and examples.

## Plan

The order followed the format outwards: the ring and its layout first, since
every LZ4 producer and decoder depends on it, then the code that feeds it, then
the decoders, deflate, what both share, zstd, and the iterators; the proofs
followed the same order. Still to come:

1. **Round trip**: the stream `LZ4Layout` writes down, read by `LZ4Decoder`, as
   one behaviour in which each block is decoded after the one that was written.
2. **Proofs** about that composition, and about what the modules share: that the
   records the producers write are those `LZ4Framing` finds again.
