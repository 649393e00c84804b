----------------------- MODULE DeflateDecompressProofs -----------------------
(***************************************************************************)
(* The three decoders of a zlib volume keep what Inflation promises, for   *)
(* every block size, every volume and wherever zlib and the reads stop.    *)
(***************************************************************************)
EXTENDS DeflateDecompress, TLAPS

(* How far inflate() can get in a volume, and what it keeps of it.         *)
Sound(v) == IF v.bad > 0 THEN v.bad - 1 ELSE v.whole

Follows(v, i) ==
    /\ i \in [took : Nat, made : Nat]
    /\ i.took <= Sound(v) /\ i.made <= v.yields[i.took]

LEMMA StreamType ==
    ASSUME NEW v \in Streams
    PROVE  /\ v.size \in Nat /\ v.whole \in Nat \ {0} /\ v.bad \in 0 .. v.whole
           /\ Sound(v) \in 0 .. v.whole
           /\ \A k \in 0 .. v.whole : v.yields[k] \in Nat
           /\ v.yields[0] = 0
           /\ \A k, m \in 0 .. v.whole : k <= m => v.yields[k] <= v.yields[m]
<1>1. /\ v.size \in Nat /\ v.whole \in Nat \ {0} /\ v.bad \in 0 .. v.whole
      /\ v.yields \in [0 .. v.whole -> Nat] /\ v.yields[0] = 0
      /\ \A k, m \in 0 .. v.whole : k <= m => v.yields[k] <= v.yields[m]
  BY InflateAssumption DEF Streams
<1>2. Sound(v) \in 0 .. v.whole
  BY <1>1 DEF Sound
<1> QED
  BY <1>1, <1>2

LEMMA NewFollows ==
    ASSUME NEW v \in Streams
    PROVE  Follows(v, NewInflate) /\ ~AtStreamEnd(v, NewInflate)
BY StreamType DEF Follows, NewInflate, AtStreamEnd

(* What a call of inflate() gives, that is handed the bytes which follow   *)
(* those it took: the bytes' output as far as there is room, an error only *)
(* where it reaches the damage, and the end only at the end.               *)
LEMMA InflateGives ==
    ASSUME NEW v \in Streams, NEW i, Follows(v, i),
           NEW from \in Int, NEW avail \in Nat, NEW room \in Nat \ {0},
           avail > 0 /\ ~AtStreamEnd(v, i) => from = i.took,
           NEW r \in InflateResults(v, i, from, avail, room)
    PROVE  /\ r.took \in 0 .. avail /\ r.gave \in 0 .. room
           /\ r.i.took = i.took + r.took /\ r.i.made = i.made + r.gave
           /\ Follows(v, r.i)
           /\ r.ret \in {"Z_OK", "Z_STREAM_END", "Z_BUF_ERROR", "Z_DATA_ERROR"}
           /\ r.ret = "Z_DATA_ERROR" => v.bad > 0 /\ v.bad <= i.took + avail /\ avail > 0
           /\ r.ret = "Z_STREAM_END" <=> AtStreamEnd(v, r.i)
           /\ r.ret # "Z_DATA_ERROR" /\ r.gave # room =>
                 /\ r.i.made = v.yields[r.i.took]
                 /\ AtStreamEnd(v, r.i) \/ r.took = avail
<1> DEFINE sound == Smaller(i.took + avail, Sound(v))
           shown == Smaller(i.took + avail, v.whole) > sound
           after(k, o) == [took |-> k, made |-> i.made + o]
           code(k, o) == IF AtStreamEnd(v, after(k, o)) THEN "Z_STREAM_END"
                        ELSE IF k = i.took /\ o = 0 THEN "Z_BUF_ERROR"
                        ELSE "Z_OK"
           o == v.yields[sound] - i.made
<1>1. /\ i \in [took : Nat, made : Nat] /\ i.took \in Nat /\ i.made \in Nat
      /\ i.took <= Sound(v) /\ i.made <= v.yields[i.took]
      /\ v.whole \in Nat /\ Sound(v) \in 0 .. v.whole /\ i.took \in 0 .. v.whole
      /\ v.bad \in Nat
  BY StreamType DEF Follows
<1>2. /\ sound \in 0 .. v.whole /\ sound \in i.took .. (i.took + avail) /\ sound <= Sound(v)
      /\ v.yields[sound] \in Nat /\ i.made <= v.yields[sound]
  <2>1. /\ sound \in 0 .. v.whole /\ sound \in i.took .. (i.took + avail) /\ sound <= Sound(v)
    <3> DEFINE s == Sound(v)
    <3> HIDE DEF s
    <3>1. s \in 0 .. v.whole /\ i.took <= s /\ sound = Smaller(i.took + avail, s)
      BY <1>1 DEF s
    <3>2. /\ sound \in 0 .. v.whole /\ sound \in i.took .. (i.took + avail) /\ sound <= s
      BY <1>1, <3>1 DEF Smaller
    <3> QED
      BY <3>2 DEF s
  <2> HIDE DEF sound
  <2>2. v.yields[i.took] <= v.yields[sound] /\ v.yields[sound] \in Nat /\ v.yields[i.took] \in Nat
    BY <1>1, <2>1, StreamType
  <2> QED
    BY <1>1, <2>1, <2>2
<1>3. CASE AtStreamEnd(v, i)
  <2>1. r = [i |-> i, took |-> 0, gave |-> 0, ret |-> "Z_STREAM_END"]
    BY <1>3 DEF InflateResults
  <2>2. r.took = 0 /\ r.gave = 0 /\ r.i = i /\ r.ret = "Z_STREAM_END"
    BY <2>1
  <2>3. i.made = v.yields[i.took]
    BY <1>3 DEF AtStreamEnd
  <2> QED
    BY <1>1, <1>3, <2>2, <2>3
<1>4. CASE ~AtStreamEnd(v, i)
  <2>1. ~(avail > 0 /\ from # i.took)
    BY <1>4
  <2>2. \/ \E k \in i.took .. sound :
             /\ v.yields[k] >= i.made + room
             /\ r = [i |-> after(k, room), took |-> k - i.took, gave |-> room, ret |-> code(k, room)]
        \/ /\ ~(v.yields[sound] >= i.made + room)
           /\ r = [i |-> after(sound, o), took |-> sound - i.took, gave |-> o,
                   ret |-> IF shown THEN "Z_DATA_ERROR" ELSE code(sound, o)]
    BY <1>4, <2>1 DEF InflateResults, Sound
  <2>3. ASSUME NEW k \in i.took .. sound, v.yields[k] >= i.made + room,
               r = [i |-> after(k, room), took |-> k - i.took, gave |-> room, ret |-> code(k, room)]
        PROVE  /\ r.took = k - i.took /\ r.gave = room
               /\ r.i = after(k, room) /\ r.ret = code(k, room)
    BY <2>3
  <2>4. ASSUME r = [i |-> after(sound, o), took |-> sound - i.took, gave |-> o,
                    ret |-> IF shown THEN "Z_DATA_ERROR" ELSE code(sound, o)]
        PROVE  /\ r.took = sound - i.took /\ r.gave = o /\ r.i = after(sound, o)
               /\ r.ret = IF shown THEN "Z_DATA_ERROR" ELSE code(sound, o)
    BY <2>4
  <2>5. CASE \E k \in i.took .. sound :
               /\ v.yields[k] >= i.made + room
               /\ r = [i |-> after(k, room), took |-> k - i.took, gave |-> room, ret |-> code(k, room)]
    <3>1. PICK k \in i.took .. sound :
             /\ v.yields[k] >= i.made + room
             /\ r = [i |-> after(k, room), took |-> k - i.took, gave |-> room, ret |-> code(k, room)]
      BY <2>5
    <3>2. /\ r.took = k - i.took /\ r.gave = room
          /\ r.i = after(k, room) /\ r.ret = code(k, room)
      BY <2>3, <3>1
    <3>3. r.i.took = k /\ r.i.made = i.made + room /\ r.i \in [took : Nat, made : Nat]
      BY <1>1, <1>2, <3>2
    <3> HIDE DEF sound
    <3>4. k \in 0 .. v.whole /\ k <= Sound(v) /\ k - i.took \in 0 .. avail /\ i.took + (k - i.took) = k
      BY <1>1, <1>2
    <3>5. Follows(v, r.i)
      BY <3>1, <3>3, <3>4 DEF Follows
    <3>6. /\ r.ret \in {"Z_OK", "Z_STREAM_END", "Z_BUF_ERROR"}
          /\ r.ret = "Z_STREAM_END" <=> AtStreamEnd(v, r.i)
      <4>1. r.i = after(k, room)
        BY <3>2
      <4> HIDE DEF after
      <4> QED
        BY <3>2, <4>1
    <3> QED
      BY <3>2, <3>3, <3>4, <3>5, <3>6
  <2>6. CASE /\ ~(v.yields[sound] >= i.made + room)
             /\ r = [i |-> after(sound, o), took |-> sound - i.took, gave |-> o,
                     ret |-> IF shown THEN "Z_DATA_ERROR" ELSE code(sound, o)]
    <3>1. /\ r.took = sound - i.took /\ r.gave = o
          /\ r.i = after(sound, o)
          /\ r.ret = IF shown THEN "Z_DATA_ERROR" ELSE code(sound, o)
      BY <2>4, <2>6
    <3>2. r.i.took = sound /\ r.i.made = v.yields[sound] /\ r.i \in [took : Nat, made : Nat]
      <4>1. i.made + o = v.yields[sound]
        BY <1>1, <1>2
      <4> HIDE DEF sound, o
      <4> QED
        BY <1>1, <1>2, <3>1, <4>1
    <3>3. o \in 0 .. room /\ i.made + o = v.yields[sound]
      <4> DEFINE s == v.yields[sound]
      <4>1. s \in Nat /\ i.made <= s /\ i.made \in Nat /\ room \in Nat /\ ~(s >= i.made + room)
        BY <1>1, <1>2, <2>6
      <4>2. o = s - i.made
        OBVIOUS
      <4> HIDE DEF s, o
      <4>3. o \in 0 .. room /\ i.made + o = s
        BY <4>1, <4>2
      <4> QED
        BY <4>3 DEF s
    <3>4. sound - i.took \in 0 .. avail /\ i.took + (sound - i.took) = sound
      <4> HIDE DEF sound
      <4> QED
        BY <1>1, <1>2
    <3>5. Follows(v, r.i)
      <4> HIDE DEF sound
      <4> QED
        BY <1>1, <1>2, <3>2 DEF Follows
    <3>6. shown => v.bad > 0 /\ v.bad <= i.took + avail /\ avail > 0
      BY <1>1 DEF Sound, Smaller
    <3>7. ~shown => AtStreamEnd(v, r.i) \/ sound - i.took = avail
      <4>1. SUFFICES ASSUME ~shown, ~(sound - i.took = avail) PROVE AtStreamEnd(v, r.i)
        OBVIOUS
      <4>2. v.bad = 0 /\ sound = v.whole
        BY <1>1, <4>1, StreamType DEF Sound, Smaller
      <4> QED
        BY <3>2, <4>2 DEF AtStreamEnd
    <3>8. shown => ~AtStreamEnd(v, r.i)
      BY <1>1, <3>6 DEF AtStreamEnd
    <3>9. /\ r.ret \in {"Z_OK", "Z_STREAM_END", "Z_BUF_ERROR", "Z_DATA_ERROR"}
          /\ r.ret = "Z_DATA_ERROR" <=> shown
          /\ r.ret = "Z_STREAM_END" <=> AtStreamEnd(v, r.i)
      <4>1. r.i = after(sound, o)
        BY <3>1
      <4> HIDE DEF after, shown, sound, o
      <4> QED
        BY <3>1, <3>8, <4>1
    <3> HIDE DEF shown, sound, o
    <3> QED
      BY <3>1, <3>2, <3>3, <3>4, <3>5, <3>6, <3>7, <3>9
  <2> QED
    BY <2>2, <2>5, <2>6
<1> QED
  BY <1>3, <1>4

-----------------------------------------------------------------------------
(* All three use the same zlib, and the file's reads are FileRead's.       *)
LEMMA SameZlib ==
    /\ \A v, i, from, avail, room :
          Data!InflateResults(v, i, from, avail, room) = InflateResults(v, i, from, avail, room)
    /\ \A v, i, from, avail, room :
          File!InflateResults(v, i, from, avail, room) = InflateResults(v, i, from, avail, room)
    /\ \A v, i, from, avail, room :
          OneShot!InflateResults(v, i, from, avail, room) = InflateResults(v, i, from, avail, room)
    /\ \A v, from, any, others :
          Data!Readings(v, from, any, others) = Readings(v, from, any, others)
    /\ \A v, from, any, others :
          File!Readings(v, from, any, others) = Readings(v, from, any, others)
    /\ Data!NewInflate = NewInflate /\ File!NewInflate = NewInflate
    /\ OneShot!NewInflate = NewInflate
    /\ \A x, y : Data!Smaller(x, y) = Smaller(x, y)
    /\ \A x, y : File!Smaller(x, y) = Smaller(x, y)
    /\ \A x, y : OneShot!Smaller(x, y) = Smaller(x, y)
    /\ \A rest, want : File!ReadResults(rest, want) = ReadResults(rest, want)
    /\ \A r : File!Returned(r) = Returned(r)
    /\ \A v : Abstract!Yield(v) = Yield(v)
    /\ \A v : Abstract!Damaged(v) <=> Damaged(v)
    /\ \A v : Abstract!Complete(v) <=> Complete(v)
BY DEF Data!InflateResults, File!InflateResults, OneShot!InflateResults, InflateResults,
       Data!AtStreamEnd, File!AtStreamEnd, OneShot!AtStreamEnd, AtStreamEnd,
       Data!Smaller, File!Smaller, OneShot!Smaller, Smaller,
       Data!Readings, File!Readings, Readings,
       Data!NewInflate, File!NewInflate, OneShot!NewInflate, NewInflate,
       File!ReadResults, ReadResults, File!Lesser, Lesser, File!Returned, Returned,
       Abstract!Yield, Yield, Abstract!Damaged, Damaged, Abstract!Complete, Complete,
       Abstract!Present, Present, Abstract!Smaller

(* What a decoder makes of a volume whose bytes it has taken to their end, *)
(* and of damage.                                                          *)
LEMMA TakenWithin ==
    ASSUME NEW v \in Streams, NEW i, Follows(v, i), i.took <= v.size
    PROVE  Yield(v) \in Nat /\ i.made \in Nat /\ i.made <= Yield(v)
<1> DEFINE most == IF Damaged(v) THEN v.bad - 1 ELSE Present(v)
<1>1. /\ i \in [took : Nat, made : Nat] /\ i.took <= Sound(v) /\ i.made <= v.yields[i.took]
      /\ v.size \in Nat /\ v.whole \in Nat /\ v.bad \in 0 .. v.whole
  BY StreamType DEF Follows
<1>2. most \in 0 .. v.whole /\ i.took \in 0 .. v.whole /\ i.took <= most
  BY <1>1 DEF Damaged, Present, Sound, Smaller
<1>3. Yield(v) = v.yields[most]
  BY DEF Yield
<1> HIDE DEF most
<1>4. v.yields[most] \in Nat /\ v.yields[i.took] \in Nat /\ v.yields[i.took] <= v.yields[most]
  BY <1>2, StreamType
<1> QED
  BY <1>1, <1>3, <1>4

LEMMA TakenAll ==
    ASSUME NEW v \in Streams, NEW i, Follows(v, i), i.took <= v.size,
           i.made = v.yields[i.took], AtStreamEnd(v, i) \/ i.took = v.size
    PROVE  ~Damaged(v) /\ i.made = Yield(v)
<1>1. /\ i.took \in Nat /\ i.took <= Sound(v)
      /\ v.size \in Nat /\ v.whole \in Nat /\ v.bad \in 0 .. v.whole
  BY StreamType DEF Follows
<1>2. ~Damaged(v)
  BY <1>1 DEF Damaged, AtStreamEnd, Present, Sound, Smaller
<1>3. Present(v) = i.took
  BY <1>1 DEF AtStreamEnd, Present, Sound, Smaller
<1> QED
  BY <1>2, <1>3 DEF Yield

LEMMA DamageReached ==
    ASSUME NEW v \in Streams, NEW n \in Nat, v.bad > 0, v.bad <= n, n <= v.size
    PROVE  Damaged(v)
BY StreamType DEF Damaged, Present, Smaller

(* What a caller holds and can tell, and how Inflation lets that change.   *)
Out == IF decoder = "call" THEN OneShot!Decoded ELSE got

Told ==
    CASE decoder = "data" -> Data!Verdict
      [] decoder = "file" -> File!Verdict
      [] decoder = "call" -> OneShot!Verdict

(* v and w are the stream the decoder reads, before the step and after it. *)
Moves(v, w) ==
    \/ w \in Streams /\ Out' = 0 /\ Told' \in {"none", "reading"}
    \/ /\ w \in Streams /\ Out' = 0 /\ Told' = "end"
       /\ Yield(w) = 0 /\ ~Damaged(w) /\ decoder # "file"
    \/ /\ w = v /\ Told = "reading" /\ Told' = "reading"
       /\ Out' \in Out .. Yield(v)
    \/ /\ w = v /\ Told = "reading" /\ Told' = "end"
       /\ ~Damaged(v) /\ (decoder = "file" => Complete(v))
       /\ Out' = Yield(v)
    \/ /\ w = v /\ Told = "reading" /\ Told' = "corrupt"
       /\ Damaged(v) \/ (decoder = "file" /\ ~Complete(v))
       /\ Out' = Out
    \/ w = v /\ Told' = "failed" /\ Out' = Out
    \/ w = v /\ UNCHANGED <<Told, Out>>

LEMMA MovesInflate ==
    ASSUME NEW v, NEW w, Moves(v, w), Followed = v, Followed' = w, decoder' = decoder
    PROVE  [Abstract!InflationNext]_(Abstract!inflationVars)
<1>1. Abstract!inflationVars = <<v, decoder = "file", Out, Told>>
  BY DEF Abstract!inflationVars, Out, Told
<1>2. Abstract!inflationVars' = <<w, decoder' = "file", Out', Told'>>
  BY DEF Abstract!inflationVars, Out, Told
<1>3. (decoder' = "file") = (decoder = "file")
  OBVIOUS
<1>4. ASSUME w \in Streams, Out' = 0, Told' \in {"none", "reading"}
      PROVE  Abstract!Open
  BY <1>3, <1>4 DEF Abstract!Open, Out, Told
<1>0. ASSUME w \in Streams, Out' = 0, Told' = "end", Yield(w) = 0, ~Damaged(w),
             decoder # "file"
      PROVE  Abstract!Open
  <2>1. Abstract!Yield(Followed') = 0 /\ ~Abstract!Damaged(Followed')
    BY <1>0, SameZlib
  <2> QED
    BY <1>0, <1>3, <2>1 DEF Abstract!Open, Abstract!Rejected, Out, Told
<1>5. ASSUME w = v, Told = "reading", Told' = "reading", Out' \in Out .. Yield(v)
      PROVE  Abstract!Produce
  BY <1>3, <1>5, SameZlib DEF Abstract!Produce, Out, Told
<1>6. ASSUME w = v, Told = "reading", Told' = "end",
             ~Damaged(v), decoder = "file" => Complete(v), Out' = Yield(v)
      PROVE  Abstract!End
  BY <1>3, <1>6, SameZlib DEF Abstract!End, Abstract!Rejected, Out, Told
<1>7. ASSUME w = v, Told = "reading", Told' = "corrupt",
             Damaged(v) \/ (decoder = "file" /\ ~Complete(v)), Out' = Out
      PROVE  Abstract!Corrupt
  BY <1>3, <1>7, SameZlib DEF Abstract!Corrupt, Abstract!Rejected, Out, Told
<1>8. ASSUME w = v, Told' = "failed", Out' = Out
      PROVE  Abstract!Fail
  BY <1>3, <1>8 DEF Abstract!Fail, Out, Told
<1>9. ASSUME w = v, UNCHANGED <<Told, Out>>
      PROVE  UNCHANGED Abstract!inflationVars
  BY <1>1, <1>2, <1>3, <1>9
<1> QED
  BY <1>0, <1>4, <1>5, <1>6, <1>7, <1>8, <1>9 DEF Moves, Abstract!InflationNext

(* A loop that is not astray reads the caller's volume.                    *)
LoopType ==
    /\ gzip \in BOOLEAN /\ raw \in BOOLEAN /\ base \in Nat /\ reading \in Streams
    /\ loops \in 0 .. 2
    /\ ~Astray => reading = volume

(* Opened where the volume starts, or astray in the rest of it.            *)
LEMMA OpenedLoop ==
    ASSUME NEW v \in Volumes, NEW from \in Nat, NEW any \in BOOLEAN,
           NEW m \in Readings(v, from, any, Misreadings)
    PROVE  /\ m \in Streams
           /\ ~(any \/ from > 0) => m = v
           /\ m.size = v.size - Smaller(from, v.size)
<1>1. v \in Streams /\ v.size \in Nat
  BY StreamType DEF Streams
<1>2. CASE from = 0 /\ ~any
  <2>1. m = v
    BY <1>2 DEF Readings
  <2> QED
    BY <1>1, <1>2, <2>1 DEF Smaller
<1>3. CASE ~(from = 0 /\ ~any)
  BY <1>3 DEF Readings, Streams
<1> QED
  BY <1>2, <1>3

-----------------------------------------------------------------------------
(* DeflateDecompressData: what inflate() took are the bytes up to the ones *)
(* it has, which end where a block of the buffer ends; between two calls   *)
(* of next() all of a block is taken and all its output handed out.        *)
DataType ==
    /\ volume \in Volumes /\ LoopType
    /\ data_offset \in Nat
    /\ state \in {"NONE", "INIT", "END"}
    /\ z \in [took : Nat, made : Nat]
    /\ next_in \in Nat /\ avail_in \in 0 .. BlockSize
    /\ block \in Nat /\ got \in Nat
    /\ pc \in {"idle", "inflate"}
    /\ it \in {"none", "block", "end", "thrown", "failed"}
    /\ begins \in 0 .. MaxBegins
    /\ loops = 0 => data_offset = 0
    /\ pc = "inflate" \/ it = "block" => loops # 0

DataReading == pc = "inflate" \/ it = "block"

DataPlace ==
    /\ Follows(reading, z) /\ z.took <= reading.size
    /\ base + reading.size = volume.size
    /\ pc = "inflate" =>
          /\ data_offset <= volume.size
          /\ got + block = z.made
          /\ ~AtStreamEnd(reading, z) =>
                /\ base + z.took + avail_in = Smaller(data_offset + BlockSize, volume.size)
                /\ avail_in > 0 => next_in = base + z.took
    /\ pc = "idle" =>
          /\ got = z.made /\ z.made = reading.yields[z.took]
          /\ ~AtStreamEnd(reading, z) => base + z.took = Smaller(data_offset, volume.size)

DataInv == DataType /\ (DataReading => DataPlace)

LEMMA DataTold ==
    ASSUME decoder = "data"
    PROVE  /\ Out = got
           /\ DataReading => Told = "reading"
           /\ pc = "idle" /\ it = "thrown" => Told = "corrupt"
           /\ pc = "idle" /\ it \in {"none", "end", "failed"} => Told = it
BY DEF Out, Told, Data!Verdict, DataReading

LEMMA DataStartsBlock ==
    ASSUME volume \in Volumes, LoopType, data_offset \in Nat, next_in \in Nat,
           NEW i, Follows(reading, i), i.took <= reading.size, NEW start \in Nat,
           start + reading.size = volume.size,
           data_offset <= volume.size,
           ~AtStreamEnd(reading, i) => start + i.took = data_offset
    PROVE  LET has == Smaller(BlockSize, volume.size - data_offset)
               from == IF data_offset < volume.size THEN data_offset ELSE next_in
           IN  /\ has \in 0 .. BlockSize /\ from \in Nat
               /\ ~AtStreamEnd(reading, i) =>
                     /\ start + i.took + has = Smaller(data_offset + BlockSize, volume.size)
                     /\ has > 0 => from = start + i.took
<1>1. /\ volume \in Streams /\ volume.size \in Nat /\ data_offset \in Nat
      /\ i.took \in Nat /\ BlockSize \in Nat
  BY StreamType, InflateAssumption DEF Streams, Follows
<1> DEFINE held == volume.size
           has == Smaller(BlockSize, held - data_offset)
           from == IF data_offset < held THEN data_offset ELSE next_in
<1> HIDE DEF held
<1>2. held \in Nat /\ data_offset <= held
  BY <1>1 DEF held
<1>3. data_offset + has = Smaller(data_offset + BlockSize, held)
  BY <1>1, <1>2 DEF Smaller
<1>4. has > 0 => data_offset < held
  BY <1>1, <1>2 DEF Smaller
<1>5. has \in 0 .. BlockSize /\ from \in Nat
  BY <1>1, <1>2 DEF Smaller
<1>6. ASSUME ~AtStreamEnd(reading, i)
      PROVE  /\ start + i.took + has = Smaller(data_offset + BlockSize, held)
             /\ has > 0 => from = start + i.took
  <2>1. start + i.took = data_offset
    BY <1>6
  <2> QED
    BY <1>3, <1>4, <2>1
<1> QED
  BY <1>5, <1>6 DEF held

LEMMA DataInflates ==
    ASSUME DataInv, decoder = "data", decoder' = "data", Data!Inflate
    PROVE  DataInv' /\ Moves(reading, reading')
<1>1. /\ pc = "inflate" /\ DataType /\ DataPlace /\ DataReading
      /\ volume \in Streams /\ reading \in Streams /\ BlockSize \in Nat \ {0}
  BY InflateAssumption DEF Data!Inflate, DataInv, DataReading, DataType, LoopType, Streams
<1>2. PICK r \in InflateResults(reading, z, next_in - base, avail_in, BlockSize) :
        /\ z' = r.i
        /\ next_in' = next_in + r.took
        /\ avail_in' = avail_in - r.took
        /\ \/ /\ r.ret = "Z_DATA_ERROR"
              /\ pc' = "idle" /\ it' = "thrown"
              /\ UNCHANGED <<block, got, data_offset>>
           \/ /\ r.ret # "Z_DATA_ERROR"
              /\ block' = block + r.gave
              /\ \/ r.gave = BlockSize /\ UNCHANGED <<pc, it, got, data_offset>>
                 \/ /\ r.gave # BlockSize
                    /\ pc' = "idle" /\ it' = "block"
                    /\ got' = got + block'
                    /\ data_offset' = data_offset + BlockSize
  BY SameZlib DEF Data!Inflate, Data!Fatal, Data!Again, Data!NextOffset
<1>3. UNCHANGED <<volume, gzip, state, raw, base, reading, loops,
            begins>>
  BY DEF Data!Inflate, Data!loopVars
<1>t. LoopType /\ LoopType'
  BY <1>1, <1>3 DEF DataType, LoopType, Astray
<1>4. /\ next_in \in Nat /\ avail_in \in Nat /\ avail_in <= BlockSize
      /\ z.took \in Nat /\ z.made \in Nat /\ volume.size \in Nat /\ reading.size \in Nat
      /\ block \in Nat /\ got \in Nat /\ data_offset \in Nat /\ base \in Nat
  BY <1>1, StreamType DEF DataType, LoopType
<1>5. /\ r.took \in 0 .. avail_in /\ r.gave \in 0 .. BlockSize
      /\ r.i.took = z.took + r.took /\ r.i.made = z.made + r.gave
      /\ Follows(reading, r.i)
      /\ r.ret = "Z_DATA_ERROR" =>
            reading.bad > 0 /\ reading.bad <= z.took + avail_in /\ avail_in > 0
      /\ r.ret # "Z_DATA_ERROR" /\ r.gave # BlockSize =>
            /\ r.i.made = reading.yields[r.i.took]
            /\ AtStreamEnd(reading, r.i) \/ r.took = avail_in
      /\ AtStreamEnd(reading, z) => AtStreamEnd(reading, r.i) /\ r.took = 0
  <2>1. /\ Follows(reading, z)
        /\ avail_in > 0 /\ ~AtStreamEnd(reading, z) => next_in - base = z.took
        /\ next_in - base \in Int
    BY <1>1, <1>4 DEF DataPlace
  <2>2. AtStreamEnd(reading, z) => r.i = z /\ r.took = 0
    BY <1>2 DEF InflateResults
  <2> QED
    BY <1>1, <1>2, <1>4, <2>1, <2>2, InflateGives
<1> DEFINE held == volume.size
           upto == Smaller(data_offset + BlockSize, held)
<1>6. /\ data_offset <= held /\ got + block = z.made /\ z.took <= reading.size
      /\ base + reading.size = held
      /\ ~AtStreamEnd(reading, z) =>
            base + z.took + avail_in = upto /\ (avail_in > 0 => next_in = base + z.took)
  BY <1>1 DEF DataPlace
<1>7. r.i.took <= reading.size
  <2>1. upto \in Nat /\ upto <= held
    BY <1>1, <1>4 DEF Smaller
  <2> HIDE DEF upto, held
  <2>2. CASE AtStreamEnd(reading, z)
    BY <1>4, <1>5, <1>6, <2>2
  <2>3. CASE ~AtStreamEnd(reading, z)
    <3>1. base + z.took + avail_in <= held
      BY <1>6, <2>1, <2>3
    <3>2. held \in Nat
      BY <1>4 DEF held
    <3> QED
      BY <1>4, <1>5, <1>6, <3>1, <3>2
  <2> QED
    BY <2>2, <2>3
<1>8. /\ r.i \in [took : Nat, made : Nat]
      /\ next_in + r.took \in Nat /\ avail_in - r.took \in 0 .. BlockSize
      /\ block + r.gave \in Nat /\ got + (block + r.gave) \in Nat
      /\ got + (block + r.gave) = r.i.made /\ data_offset + BlockSize \in Nat
  BY <1>1, <1>4, <1>5, <1>6 DEF Follows
<1>9. /\ r.i.made \in Nat /\ r.i.made <= Yield(reading) /\ got <= r.i.made
  BY <1>1, <1>4, <1>5, <1>6, <1>7, TakenWithin
<1>10. Told = "reading" /\ Out = got /\ Out' = got'
  BY <1>1, DataTold DEF Out
<1>a. CASE r.ret = "Z_DATA_ERROR"
  <2>1. pc' = "idle" /\ it' = "thrown" /\ UNCHANGED <<block, got, data_offset>>
    BY <1>2, <1>a
  <2>2. DataInv'
    BY <1>1, <1>2, <1>3, <1>t, <1>8, <2>1 DEF DataInv, DataType, DataReading
  <2>3. Told' = "corrupt"
    BY <2>1 DEF Told, Data!Verdict
  <2>4. Damaged(reading)
    <3>1. ~AtStreamEnd(reading, z)
      BY <1>5, <1>a, StreamType DEF AtStreamEnd
    <3>2. z.took + avail_in <= reading.size /\ z.took + avail_in \in Nat
      BY <1>1, <1>4, <1>6, <3>1 DEF Smaller
    <3> QED
      BY <1>1, <1>5, <1>a, <3>2, DamageReached
  <2> QED
    BY <1>3, <1>10, <2>1, <2>2, <2>3, <2>4 DEF Moves
<1>b. CASE r.ret # "Z_DATA_ERROR" /\ r.gave = BlockSize
  <2>1. block' = block + r.gave /\ UNCHANGED <<pc, it, got, data_offset>>
    BY <1>1, <1>2, <1>b
  <2>2. DataType'
    BY <1>1, <1>2, <1>3, <1>t, <1>8, <2>1 DEF DataType
  <2>3. DataPlace'
    <3>1. got' + block' = z'.made
      BY <1>2, <1>8, <2>1
    <3>2. ASSUME ~AtStreamEnd(reading, r.i)
          PROVE  /\ base + r.i.took + (avail_in - r.took) = upto
                 /\ avail_in - r.took > 0 => next_in + r.took = base + r.i.took
      <4>1. ~AtStreamEnd(reading, z)
        BY <1>5, <3>2
      <4> HIDE DEF upto
      <4> QED
        BY <1>4, <1>5, <1>6, <4>1
    <3> QED
      BY <1>1, <1>2, <1>3, <1>5, <1>6, <1>7, <2>1, <3>1, <3>2 DEF DataPlace
  <2>4. Told' = "reading"
    BY <1>1, <2>1 DEF Told, Data!Verdict
  <2>5. Out' = Out /\ Told' = Told
    BY <1>10, <2>1, <2>4
  <2> QED
    BY <1>3, <2>2, <2>3, <2>5 DEF DataInv, Moves
<1>c. CASE r.ret # "Z_DATA_ERROR" /\ r.gave # BlockSize
  <2>1. /\ block' = block + r.gave /\ pc' = "idle" /\ it' = "block" /\ got' = got + block'
        /\ data_offset' = data_offset + BlockSize
    BY <1>2, <1>c
  <2>2. got' = r.i.made
    BY <1>8, <2>1
  <2>3. DataType'
    BY <1>1, <1>2, <1>3, <1>t, <1>8, <1>9, <2>1, <2>2 DEF DataType
  <2>4. DataPlace'
    <3>1. ASSUME ~AtStreamEnd(reading, r.i) PROVE base + r.i.took = upto
      <4>1. ~AtStreamEnd(reading, z) /\ r.took = avail_in
        BY <1>5, <1>c, <3>1
      <4> HIDE DEF upto
      <4> QED
        BY <1>4, <1>5, <1>6, <4>1
    <3> QED
      BY <1>2, <1>3, <1>5, <1>6, <1>7, <1>c, <2>1, <2>2, <3>1 DEF DataPlace
  <2>5. Told' = "reading"
    BY <2>1 DEF Told, Data!Verdict
  <2>6. Out' \in Out .. Yield(reading)
    <3>1. Yield(reading) \in Nat
      BY <1>1, <1>5, <1>7, TakenWithin
    <3> QED
      BY <1>4, <1>9, <1>10, <2>2, <3>1
  <2> QED
    BY <1>3, <1>10, <2>3, <2>4, <2>5, <2>6 DEF DataInv, Moves
<1> QED
  BY <1>a, <1>b, <1>c

(* next() that finds the buffer passed has handed all of it out.           *)
LEMMA DataContinues ==
    ASSUME DataInv, decoder = "data", decoder' = "data", Data!Increment
    PROVE  DataInv' /\ Moves(reading, reading')
<1>1. /\ pc = "idle" /\ it = "block"
      /\ UNCHANGED <<volume, data_offset, gzip, z, raw, base, reading, loops, got, begins>>
      /\ \/ /\ data_offset > volume.size
            /\ state' = "END" /\ it' = "end"
            /\ UNCHANGED <<next_in, avail_in, block, pc>>
         \/ /\ ~(data_offset > volume.size)
            /\ next_in' = IF data_offset < volume.size THEN data_offset ELSE next_in
            /\ avail_in' = Smaller(BlockSize, volume.size - data_offset)
            /\ block' = 0 /\ pc' = "inflate" /\ state' = "INIT" /\ it' = it
  BY SameZlib DEF Data!Increment, Data!StartBlock, Data!Passed, Data!AvailIn, Data!dataVars,
     Data!loopVars, Data!data_size
<1>2. /\ DataReading /\ DataType /\ DataPlace /\ volume \in Streams /\ reading \in Streams
      /\ volume.size \in Nat /\ data_offset \in Nat /\ z.took \in Nat /\ BlockSize \in Nat
      /\ reading.size \in Nat /\ base \in Nat
  BY <1>1, StreamType, InflateAssumption
     DEF DataInv, DataReading, DataType, LoopType, Streams
<1>t. LoopType /\ LoopType'
  BY <1>1, <1>2 DEF DataType, LoopType, Astray
<1>3. /\ Follows(reading, z) /\ z.took <= reading.size
      /\ base + reading.size = volume.size
      /\ got = z.made /\ z.made = reading.yields[z.took]
      /\ ~AtStreamEnd(reading, z) => base + z.took = Smaller(data_offset, volume.size)
  BY <1>1, <1>2 DEF DataPlace
<1>4. Told = "reading" /\ Out = got /\ Out' = got'
  BY <1>2, DataTold DEF Out
<1>5. CASE data_offset > volume.size
  <2>1. state' = "END" /\ it' = "end" /\ UNCHANGED <<next_in, avail_in, block, pc>>
    BY <1>1, <1>5
  <2>2. DataInv'
    BY <1>1, <1>2, <1>t, <2>1 DEF DataInv, DataType, DataReading
  <2>3. Told' = "end"
    BY <1>1, <2>1 DEF Told, Data!Verdict
  <2>4. ~AtStreamEnd(reading, z) => z.took = reading.size
    <3>1. ~AtStreamEnd(reading, z) => base + z.took = volume.size
      BY <1>2, <1>3, <1>5 DEF Smaller
    <3> QED
      BY <1>2, <1>3, <3>1
  <2>5. ~Damaged(reading) /\ z.made = Yield(reading)
    BY <1>2, <1>3, <2>4, TakenAll
  <2> QED
    BY <1>1, <1>3, <1>4, <2>2, <2>3, <2>5 DEF Moves
<1>6. CASE ~(data_offset > volume.size)
  <2>1. /\ next_in' = IF data_offset < volume.size THEN data_offset ELSE next_in
        /\ avail_in' = Smaller(BlockSize, volume.size - data_offset)
        /\ block' = 0 /\ pc' = "inflate" /\ state' = "INIT" /\ it' = it
    BY <1>1, <1>6
  <2>2. data_offset <= volume.size
    BY <1>2, <1>6
  <2>3. ~AtStreamEnd(reading, z) => base + z.took = data_offset
    BY <1>2, <1>3, <2>2 DEF Smaller
  <2>4. /\ avail_in' \in 0 .. BlockSize /\ next_in' \in Nat
        /\ ~AtStreamEnd(reading, z) =>
              /\ base + z.took + avail_in' = Smaller(data_offset + BlockSize, volume.size)
              /\ avail_in' > 0 => next_in' = base + z.took
    BY <1>2, <1>3, <1>t, <2>1, <2>2, <2>3, DataStartsBlock DEF DataType
  <2>5. DataType'
    BY <1>1, <1>2, <1>t, <2>1, <2>4 DEF DataType
  <2>6. DataPlace'
    <3>1. got' + block' = z.made /\ z.made \in Nat
      BY <1>1, <1>2, <1>3, <2>1 DEF DataType
    <3> QED
      BY <1>1, <1>3, <2>1, <2>2, <2>4, <3>1 DEF DataPlace
  <2>7. Told' = "reading"
    BY <2>1 DEF Told, Data!Verdict
  <2> QED
    BY <1>1, <1>4, <2>5, <2>6, <2>7 DEF DataInv, Moves
<1> QED
  BY <1>5, <1>6

(* begin() opens a stream where data_offset stands: over nothing when the  *)
(* data is passed.                                                         *)
LEMMA DataBegins ==
    ASSUME DataInv, decoder = "data", decoder' = "data", Data!Begin
    PROVE  DataInv' /\ Moves(reading, reading')
<1>1. /\ volume \in Streams /\ volume \in Volumes /\ volume.size \in Nat /\ DataType
      /\ BlockSize \in Nat /\ data_offset \in Nat /\ next_in \in Nat
  BY StreamType, InflateAssumption DEF DataInv, DataType, Streams
<1>2. /\ pc = "idle" /\ begins < MaxBegins /\ begins' = begins + 1
      /\ z' = NewInflate /\ got' = 0
      /\ raw' \in Data!Raw /\ base' = data_offset /\ loops' = Smaller(loops + 1, 2)
      /\ reading' \in Readings(volume, base', raw', Misreadings)
      /\ UNCHANGED <<volume, data_offset, gzip>>
      /\ \/ /\ data_offset > volume.size
            /\ state' = "END" /\ it' = "end"
            /\ UNCHANGED <<next_in, avail_in, block, pc>>
         \/ /\ ~(data_offset > volume.size)
            /\ next_in' = IF data_offset < volume.size THEN data_offset ELSE next_in
            /\ avail_in' = Smaller(BlockSize, volume.size - data_offset)
            /\ block' = 0 /\ pc' = "inflate" /\ state' = "INIT" /\ it' = it
  BY <1>1, SameZlib DEF Data!Begin, Data!StartBlock, Data!Passed, Data!AvailIn, Data!dataVars,
     Data!data_size
<1>3. begins + 1 \in 0 .. MaxBegins
  BY <1>1, <1>2, InflateAssumption DEF DataType
<1>4. raw' \in BOOLEAN
  BY <1>2 DEF Data!Raw
<1>5. /\ reading' \in Streams /\ reading'.size \in Nat
      /\ ~(raw' \/ base' > 0) => reading' = volume
      /\ reading'.size = volume.size - Smaller(data_offset, volume.size)
  <2>1. base' \in Nat
    BY <1>1, <1>2
  <2>2. /\ reading' \in Streams
        /\ ~(raw' \/ base' > 0) => reading' = volume
        /\ reading'.size = volume.size - Smaller(base', volume.size)
    BY <1>1, <1>2, <1>4, <2>1, OpenedLoop
  <2> QED
    BY <1>2, <2>2, StreamType
<1>n. loops' \in 1 .. 2 /\ (loops' > 1 \/ loops = 0)
  BY <1>1, <1>2 DEF DataType, LoopType, Smaller
<1>t. LoopType'
  <2>1. data_offset > 0 => loops' > 1
    BY <1>1, <1>n DEF DataType
  <2>2. ~Astray' => ~(raw' \/ base' > 0)
    BY <1>2, <2>1 DEF Astray
  <2>3. gzip' \in BOOLEAN /\ base' \in Nat /\ loops' \in 0 .. 2
    BY <1>1, <1>2, <1>n DEF DataType, LoopType
  <2> QED
    BY <1>2, <1>4, <1>5, <2>2, <2>3 DEF LoopType
<1>6. /\ Follows(reading', NewInflate) /\ ~AtStreamEnd(reading', NewInflate)
      /\ NewInflate.took = 0 /\ NewInflate.made = 0 /\ NewInflate \in [took : Nat, made : Nat]
  BY <1>5, NewFollows DEF NewInflate
<1>7. Out' = 0
  BY <1>2 DEF Out
<1>8. CASE data_offset > volume.size
  <2>1. state' = "END" /\ it' = "end" /\ UNCHANGED <<next_in, avail_in, block, pc>>
    BY <1>1, <1>2, <1>8
  <2>2. DataInv'
    BY <1>1, <1>2, <1>3, <1>6, <1>n, <1>t, <2>1 DEF DataInv, DataType, DataReading
  <2>3. Told' = "end"
    BY <1>2, <2>1 DEF Told, Data!Verdict
  <2>4. reading'.size = 0
    BY <1>1, <1>5, <1>8 DEF Smaller
  <2>5. ~Damaged(reading') /\ Yield(reading') = 0
    BY <1>5, <2>4, StreamType DEF Damaged, Yield, Present, Smaller
  <2> QED
    BY <1>5, <1>7, <2>2, <2>3, <2>5 DEF Moves
<1>9. CASE ~(data_offset > volume.size)
  <2>1. /\ next_in' = IF data_offset < volume.size THEN data_offset ELSE next_in
        /\ avail_in' = Smaller(BlockSize, volume.size - data_offset)
        /\ block' = 0 /\ pc' = "inflate" /\ state' = "INIT" /\ it' = it
    BY <1>1, <1>2, <1>9
  <2>2. data_offset <= volume.size /\ base' + reading'.size = volume.size
    BY <1>1, <1>2, <1>5, <1>9 DEF Smaller
  <2>3. /\ avail_in' \in 0 .. BlockSize /\ next_in' \in Nat
        /\ data_offset + avail_in' = Smaller(data_offset + BlockSize, volume.size)
        /\ avail_in' > 0 => next_in' = data_offset
    <3> DEFINE held == volume.size
               has == Smaller(BlockSize, held - data_offset)
    <3> HIDE DEF held
    <3>1. held \in Nat /\ data_offset <= held
      BY <1>1, <2>2 DEF held
    <3>2. /\ has \in 0 .. BlockSize /\ data_offset + has = Smaller(data_offset + BlockSize, held)
          /\ has > 0 => data_offset < held
      BY <1>1, <3>1 DEF Smaller
    <3> QED
      BY <1>1, <2>1, <3>2 DEF held
  <2>4. DataType'
    BY <1>1, <1>2, <1>3, <1>6, <1>n, <1>t, <2>1, <2>3 DEF DataType
  <2>5. DataPlace'
    <3>1. /\ base' + 0 + avail_in' = Smaller(data_offset + BlockSize, volume.size)
          /\ avail_in' > 0 => next_in' = base' + 0
      BY <1>1, <1>2, <2>3
    <3> QED
      BY <1>2, <1>5, <1>6, <2>1, <2>2, <3>1 DEF DataPlace
  <2>6. Told' = "reading"
    BY <2>1 DEF Told, Data!Verdict
  <2> QED
    BY <1>5, <1>7, <2>4, <2>5, <2>6 DEF DataInv, Moves
<1> QED
  BY <1>8, <1>9

LEMMA DataStep ==
    ASSUME DataInv, decoder = "data", decoder' = "data", Data!Next
    PROVE  DataInv' /\ Moves(reading, reading')
<1>1. CASE Data!InitFails
  <2>1. /\ pc = "idle" /\ begins < MaxBegins /\ begins' = begins + 1 /\ it' = "failed"
        /\ UNCHANGED <<volume, data_offset, gzip, state, z, next_in, avail_in, raw, base,
                       reading, loops, block, got, pc>>
    BY <1>1 DEF Data!InitFails, Data!dataVars, Data!strmVars, Data!loopVars
  <2>2. begins + 1 \in 0 .. MaxBegins
    BY <2>1, InflateAssumption DEF DataInv, DataType
  <2>3. DataInv'
    BY <2>1, <2>2 DEF DataInv, DataType, LoopType, Astray, DataReading
  <2>4. Told' = "failed" /\ Out' = Out
    BY <2>1 DEF Told, Out, Data!Verdict
  <2> QED
    BY <2>1, <2>3, <2>4 DEF Moves
<1>2. CASE \/ Data!Close
           \/ \E v \in Volumes : Data!AddData(v) \/ \E g \in BOOLEAN : Data!Reset(v, g)
  <2>1. /\ pc = "idle" /\ volume' \in Volumes /\ data_offset' \in Nat /\ gzip' \in BOOLEAN
        /\ it' = "none" /\ got' = 0
        /\ raw' = FALSE /\ base' = 0 /\ reading' = volume' /\ loops' \in 0 .. 2
        /\ loops' = 0 => data_offset' = 0
        /\ UNCHANGED <<state, z, next_in, avail_in, block, pc, begins>>
    BY <1>2 DEF Data!Close, Data!Rewound, Data!Reset, Data!AddData, Data!DropLoop, Data!strmVars,
                DataInv, DataType, LoopType
  <2>2. LoopType'
    BY <2>1 DEF LoopType, Streams
  <2>3. DataInv'
    BY <2>1, <2>2 DEF DataInv, DataType, DataReading
  <2>4. Told' = "none" /\ Out' = 0
    BY <2>1 DEF Told, Out, Data!Verdict
  <2> QED
    BY <2>1, <2>3, <2>4 DEF Moves, Streams
<1> QED
  BY <1>1, <1>2, DataBegins, DataContinues, DataInflates DEF Data!Next

-----------------------------------------------------------------------------
(* DeflateDecompressFile: inflate() took the bytes up to the ones it has,  *)
(* which end at the descriptor.  `stream' tells whether the volume's end   *)
(* was reached, which is all that tells a whole volume from a truncated    *)
(* one.                                                                    *)
FileType ==
    /\ volume \in Volumes /\ LoopType
    /\ at \in Nat /\ at <= volume.size /\ fd_offset \in Offsets
    /\ state \in {"NONE", "INIT", "END"}
    /\ stream \in {"Z_OK", "Z_STREAM_END", "Z_BUF_ERROR", "Z_DATA_ERROR"}
    /\ z \in [took : Nat, made : Nat]
    /\ next_in \in Nat /\ avail_in \in 0 .. BlockSize
    /\ block \in Nat /\ got \in Nat
    /\ pc \in {"idle", "read", "inflate"}
    /\ it \in {"none", "block", "end", "thrown", "failed"}
    /\ pc # "idle" => it = "block"
    /\ begins \in 0 .. MaxBegins
    /\ loops = 0 => at = 0
    /\ it = "block" => loops # 0

FilePlace ==
    /\ Follows(reading, z) /\ z.took <= reading.size
    /\ base + reading.size = volume.size
    /\ stream = "Z_STREAM_END" <=> AtStreamEnd(reading, z)
    /\ pc = "inflate" =>
          /\ got + block = z.made
          /\ ~AtStreamEnd(reading, z) =>
                /\ base + z.took + avail_in = at
                /\ avail_in > 0 => next_in = base + z.took
    /\ pc # "inflate" =>
          /\ got = z.made /\ z.made = reading.yields[z.took]
          /\ ~AtStreamEnd(reading, z) => base + z.took = at

FileInv == FileType /\ (it = "block" => FilePlace)

LEMMA FileTold ==
    ASSUME decoder = "file"
    PROVE  /\ Out = got
           /\ it = "block" => Told = "reading"
           /\ it = "thrown" => Told = "corrupt"
           /\ it \in {"none", "end", "failed"} => Told = it
BY DEF Out, Told, File!Verdict

LEMMA FileInflates ==
    ASSUME FileInv, decoder = "file", decoder' = "file", File!Inflate
    PROVE  FileInv' /\ Moves(reading, reading')
<1>1. /\ pc = "inflate" /\ it = "block" /\ FileType /\ FilePlace
      /\ volume \in Streams /\ reading \in Streams /\ BlockSize \in Nat \ {0}
  BY InflateAssumption DEF File!Inflate, FileInv, FileType, LoopType, Streams
<1>2. PICK r \in InflateResults(reading, z, next_in - base, avail_in, BlockSize) :
        /\ z' = r.i /\ stream' = r.ret
        /\ next_in' = next_in + r.took
        /\ avail_in' = avail_in - r.took
        /\ \/ /\ r.ret = "Z_DATA_ERROR"
              /\ pc' = "idle" /\ it' = "thrown"
              /\ UNCHANGED <<block, got>>
           \/ /\ r.ret # "Z_DATA_ERROR"
              /\ block' = block + r.gave /\ it' = it
              /\ \/ r.gave = BlockSize /\ UNCHANGED <<pc, got>>
                 \/ /\ r.gave # BlockSize
                    /\ pc' = "idle" /\ got' = got + block'
  BY SameZlib DEF File!Inflate, File!Fatal, File!Again
<1>3. UNCHANGED <<volume, at, fd_offset, gzip, state, raw, base, reading, loops,
            begins>>
  BY DEF File!Inflate, File!fileVars, File!loopVars
<1>t. LoopType'
  BY <1>1, <1>3 DEF FileType, LoopType, Astray
<1>4. /\ next_in \in Nat /\ avail_in \in Nat /\ avail_in <= BlockSize
      /\ z.took \in Nat /\ z.made \in Nat /\ volume.size \in Nat /\ reading.size \in Nat
      /\ block \in Nat /\ got \in Nat /\ at \in Nat /\ at <= volume.size /\ base \in Nat
  BY <1>1, StreamType DEF FileType, LoopType
<1>5. /\ r.took \in 0 .. avail_in /\ r.gave \in 0 .. BlockSize
      /\ r.i.took = z.took + r.took /\ r.i.made = z.made + r.gave
      /\ Follows(reading, r.i)
      /\ r.ret \in {"Z_OK", "Z_STREAM_END", "Z_BUF_ERROR", "Z_DATA_ERROR"}
      /\ r.ret = "Z_DATA_ERROR" =>
            reading.bad > 0 /\ reading.bad <= z.took + avail_in /\ avail_in > 0
      /\ r.ret = "Z_STREAM_END" <=> AtStreamEnd(reading, r.i)
      /\ r.ret # "Z_DATA_ERROR" /\ r.gave # BlockSize =>
            /\ r.i.made = reading.yields[r.i.took]
            /\ AtStreamEnd(reading, r.i) \/ r.took = avail_in
      /\ AtStreamEnd(reading, z) => AtStreamEnd(reading, r.i) /\ r.took = 0
  <2>1. /\ Follows(reading, z)
        /\ avail_in > 0 /\ ~AtStreamEnd(reading, z) => next_in - base = z.took
        /\ next_in - base \in Int
    BY <1>1, <1>4 DEF FilePlace
  <2>2. AtStreamEnd(reading, z) => r.i = z /\ r.took = 0
    BY <1>2 DEF InflateResults
  <2> QED
    BY <1>1, <1>2, <1>4, <2>1, <2>2, InflateGives
<1>6. /\ got + block = z.made /\ z.took <= reading.size
      /\ base + reading.size = volume.size
      /\ ~AtStreamEnd(reading, z) =>
            base + z.took + avail_in = at /\ (avail_in > 0 => next_in = base + z.took)
  BY <1>1 DEF FilePlace
<1>7. r.i.took <= reading.size
  <2>1. CASE AtStreamEnd(reading, z)
    BY <1>4, <1>5, <1>6, <2>1
  <2>2. CASE ~AtStreamEnd(reading, z)
    BY <1>4, <1>5, <1>6, <2>2
  <2> QED
    BY <2>1, <2>2
<1>8. /\ r.i \in [took : Nat, made : Nat]
      /\ next_in + r.took \in Nat /\ avail_in - r.took \in 0 .. BlockSize
      /\ block + r.gave \in Nat /\ got + (block + r.gave) \in Nat
      /\ got + (block + r.gave) = r.i.made
  BY <1>1, <1>4, <1>5, <1>6 DEF Follows
<1>9. Told = "reading" /\ Out = got /\ Out' = got'
  BY <1>1, FileTold DEF Out
<1>a. CASE r.ret = "Z_DATA_ERROR"
  <2>1. pc' = "idle" /\ it' = "thrown" /\ UNCHANGED <<block, got>>
    BY <1>2, <1>a
  <2>2. FileInv'
    BY <1>1, <1>2, <1>3, <1>t, <1>5, <1>8, <2>1 DEF FileInv, FileType
  <2>3. Told' = "corrupt"
    BY <2>1 DEF Told, File!Verdict
  <2>4. Damaged(reading)
    <3>1. ~AtStreamEnd(reading, z)
      BY <1>5, <1>a, StreamType DEF AtStreamEnd
    <3>2. z.took + avail_in <= reading.size /\ z.took + avail_in \in Nat
      BY <1>4, <1>6, <3>1
    <3> QED
      BY <1>1, <1>5, <1>a, <3>2, DamageReached
  <2> QED
    BY <1>3, <1>9, <2>1, <2>2, <2>3, <2>4 DEF Moves
<1>b. CASE r.ret # "Z_DATA_ERROR" /\ r.gave = BlockSize
  <2>1. block' = block + r.gave /\ UNCHANGED <<pc, it, got>>
    BY <1>1, <1>2, <1>b
  <2>2. FileType'
    BY <1>1, <1>2, <1>3, <1>t, <1>5, <1>8, <2>1 DEF FileType
  <2>3. FilePlace'
    <3>1. got' + block' = z'.made
      BY <1>2, <1>8, <2>1
    <3>2. ASSUME ~AtStreamEnd(reading, r.i)
          PROVE  /\ base + r.i.took + (avail_in - r.took) = at
                 /\ avail_in - r.took > 0 => next_in + r.took = base + r.i.took
      <4>1. ~AtStreamEnd(reading, z)
        BY <1>5, <3>2
      <4> QED
        BY <1>4, <1>5, <1>6, <4>1
    <3> QED
      BY <1>1, <1>2, <1>3, <1>5, <1>6, <1>7, <2>1, <3>1, <3>2 DEF FilePlace
  <2>4. Out' = Out /\ Told' = Told
    BY <1>1, <1>9, <2>1 DEF Told, File!Verdict
  <2> QED
    BY <1>1, <1>3, <2>1, <2>2, <2>3, <2>4 DEF FileInv, Moves
<1>c. CASE r.ret # "Z_DATA_ERROR" /\ r.gave # BlockSize
  <2>1. block' = block + r.gave /\ pc' = "idle" /\ it' = it /\ got' = got + block'
    BY <1>2, <1>c
  <2>2. got' = r.i.made /\ r.i.made \in Nat
    BY <1>8, <2>1
  <2>3. FileType'
    BY <1>1, <1>2, <1>3, <1>t, <1>5, <1>8, <2>1, <2>2 DEF FileType
  <2>4. FilePlace'
    <3>1. ASSUME ~AtStreamEnd(reading, r.i) PROVE base + r.i.took = at
      BY <1>4, <1>5, <1>6, <1>c, <3>1
    <3> QED
      BY <1>2, <1>3, <1>5, <1>6, <1>7, <1>c, <2>1, <2>2, <3>1 DEF FilePlace
  <2>5. Told' = "reading"
    BY <1>1, <2>1 DEF Told, File!Verdict
  <2>6. Out' \in Out .. Yield(reading)
    <3>1. Yield(reading) \in Nat /\ r.i.made <= Yield(reading) /\ got <= r.i.made
      BY <1>1, <1>4, <1>5, <1>6, <1>7, TakenWithin
    <3> QED
      BY <1>4, <1>9, <2>2, <3>1
  <2> QED
    BY <1>3, <1>9, <2>3, <2>4, <2>5, <2>6 DEF FileInv, Moves
<1> QED
  BY <1>a, <1>b, <1>c

(* Where the file ends, the stream has ended or the volume is not whole.   *)
LEMMA FileReads ==
    ASSUME FileInv, decoder = "file", decoder' = "file", File!ReadBlock
    PROVE  FileInv' /\ Moves(reading, reading')
<1>1. /\ pc = "read" /\ it = "block" /\ FileType /\ FilePlace
      /\ volume \in Streams /\ BlockSize \in Nat \ {0} /\ volume.size \in Nat
      /\ reading \in Streams /\ reading.size \in Nat /\ base \in Nat
      /\ at \in Nat /\ at <= volume.size /\ z.took \in Nat
  BY StreamType, InflateAssumption DEF File!ReadBlock, FileInv, FileType, LoopType, Streams
<1>2. PICK r \in ReadResults(volume.size - at, BlockSize) :
        /\ at' = at + r.n
        /\ \/ /\ Returned(r) <= 0
              /\ pc' = "idle"
              /\ \/ stream = "Z_STREAM_END" /\ state' = "END" /\ it' = "end"
                 \/ /\ stream # "Z_STREAM_END" /\ state' = state
                    /\ it' = IF r.failed THEN "failed" ELSE "thrown"
              /\ UNCHANGED <<next_in, avail_in, block>>
           \/ /\ Returned(r) > 0
              /\ next_in' = at /\ avail_in' = r.n
              /\ block' = 0 /\ pc' = "inflate"
              /\ UNCHANGED <<state, it>>
  BY SameZlib DEF File!ReadBlock, File!Want, File!Ends
<1>3. UNCHANGED <<volume, fd_offset, gzip, stream, z, raw, base, reading, loops, got,
            begins>>
  BY DEF File!ReadBlock, File!loopVars
<1>t. LoopType'
  BY <1>1, <1>3 DEF FileType, LoopType, Astray
<1>4. /\ r.n \in 0 .. BlockSize /\ r.n <= volume.size - at /\ r.failed \in BOOLEAN
      /\ ~r.failed => r.n = BlockSize \/ r.n = volume.size - at
  <2>1. volume.size - at \in Nat
    BY <1>1
  <2>2. /\ Lesser(BlockSize, volume.size - at) \in Nat
        /\ Lesser(BlockSize, volume.size - at) <= BlockSize
        /\ Lesser(BlockSize, volume.size - at) <= volume.size - at
        /\ \/ Lesser(BlockSize, volume.size - at) = BlockSize
           \/ Lesser(BlockSize, volume.size - at) = volume.size - at
    BY <1>1, <2>1 DEF Lesser
  <2>3. /\ r.n \in 0 .. Lesser(BlockSize, volume.size - at) /\ r.failed \in BOOLEAN
        /\ ~r.failed => r.n = Lesser(BlockSize, volume.size - at)
    BY <1>2 DEF ReadResults
  <2> DEFINE most == Lesser(BlockSize, volume.size - at)
  <2>4. /\ most \in Nat /\ most <= BlockSize /\ most <= volume.size - at
        /\ most = BlockSize \/ most = volume.size - at
        /\ r.n \in 0 .. most
    BY <2>2, <2>3
  <2>5. ~r.failed => r.n = most
    BY <2>3
  <2> HIDE DEF most
  <2>6. r.n \in 0 .. BlockSize /\ r.n <= volume.size - at
    BY <1>1, <2>1, <2>4
  <2>7. ~r.failed => r.n = BlockSize \/ r.n = volume.size - at
    BY <2>4, <2>5
  <2> QED
    BY <2>3, <2>6, <2>7
<1> DEFINE back == Returned(r)
<1>0. back \in Int
  <2>1. r.n \in Int
    BY <1>1, <1>4
  <2>2. back = r.n \/ back = -1
    BY DEF Returned
  <2> QED
    BY <2>1, <2>2
<1>h. /\ back <= 0 =>
           /\ pc' = "idle"
           /\ \/ stream = "Z_STREAM_END" /\ state' = "END" /\ it' = "end"
              \/ /\ stream # "Z_STREAM_END" /\ state' = state
                 /\ it' = IF r.failed THEN "failed" ELSE "thrown"
           /\ UNCHANGED <<next_in, avail_in, block>>
      /\ back > 0 =>
           /\ next_in' = at /\ avail_in' = r.n /\ block' = 0 /\ pc' = "inflate"
           /\ UNCHANGED <<state, it>>
  <2>1. ~(back <= 0 /\ back > 0)
    BY <1>0
  <2> QED
    BY <1>2, <2>1
<1>5. at + r.n \in Nat /\ at + r.n <= volume.size
  BY <1>1, <1>4
<1>6. /\ Follows(reading, z) /\ z.took <= reading.size
      /\ base + reading.size = volume.size
      /\ stream = "Z_STREAM_END" <=> AtStreamEnd(reading, z)
      /\ got = z.made /\ z.made = reading.yields[z.took]
      /\ ~AtStreamEnd(reading, z) => base + z.took = at
  BY <1>1 DEF FilePlace
<1>7. Told = "reading" /\ Out = got /\ Out' = got'
  BY <1>1, FileTold DEF Out
<1>8. CASE Returned(r) <= 0 /\ stream = "Z_STREAM_END"
  <2>1. pc' = "idle" /\ state' = "END" /\ it' = "end" /\ UNCHANGED <<next_in, avail_in, block>>
    BY <1>h, <1>8
  <2>2. FileInv'
    BY <1>1, <1>2, <1>3, <1>t, <1>5, <2>1 DEF FileInv, FileType
  <2>3. Told' = "end"
    BY <2>1 DEF Told, File!Verdict
  <2>4. Complete(reading)
    BY <1>6, <1>8 DEF AtStreamEnd, Complete
  <2>5. ~Damaged(reading) /\ z.made = Yield(reading)
    BY <1>1, <1>6, <1>8, TakenAll
  <2> QED
    BY <1>3, <1>6, <1>7, <2>2, <2>3, <2>4, <2>5 DEF Moves
<1>9. CASE Returned(r) <= 0 /\ stream # "Z_STREAM_END"
  <2>1. /\ pc' = "idle" /\ state' = state /\ UNCHANGED <<next_in, avail_in, block>>
        /\ it' = IF r.failed THEN "failed" ELSE "thrown"
    BY <1>h, <1>9
  <2>2. FileInv'
    <3>1. it' \in {"failed", "thrown"}
      BY <2>1
    <3> QED
      BY <1>1, <1>2, <1>3, <1>t, <1>5, <2>1, <3>1 DEF FileInv, FileType
  <2>3. CASE r.failed
    <3>1. Told' = "failed"
      BY <2>1, <2>3 DEF Told, File!Verdict
    <3> QED
      BY <1>3, <1>7, <2>2, <3>1 DEF Moves
  <2>4. CASE ~r.failed
    <3>1. Told' = "corrupt"
      BY <2>1, <2>4 DEF Told, File!Verdict
    <3>2. Returned(r) = r.n
      BY <2>4 DEF Returned
    <3>3. r.n = 0 /\ at = volume.size
      BY <1>1, <1>4, <1>9, <2>4, <3>2
    <3>4. ~AtStreamEnd(reading, z) /\ z.took = reading.size
      BY <1>1, <1>6, <1>9, <3>3
    <3>5. ~Complete(reading)
      <4>1. SUFFICES ASSUME reading.bad = 0, reading.whole <= reading.size PROVE FALSE
        BY DEF Complete
      <4>2. z.took <= Sound(reading) /\ Sound(reading) = reading.whole /\ reading.whole \in Nat
        BY <1>1, <1>6, <4>1, StreamType DEF Follows, Sound
      <4>3. z.took = reading.whole
        BY <1>1, <3>4, <4>1, <4>2
      <4> QED
        BY <1>6, <3>4, <4>1, <4>3 DEF AtStreamEnd
    <3> QED
      BY <1>3, <1>7, <2>2, <3>1, <3>5 DEF Moves
  <2> QED
    BY <1>4, <2>3, <2>4
<1>10. CASE Returned(r) > 0
  <2>1. /\ next_in' = at /\ avail_in' = r.n /\ block' = 0 /\ pc' = "inflate"
        /\ UNCHANGED <<state, it>>
    BY <1>h, <1>10
  <2>2. FileType'
    BY <1>1, <1>2, <1>3, <1>t, <1>4, <1>5, <2>1 DEF FileType
  <2>3. FilePlace'
    <3>1. got' + block' = z'.made
      BY <1>1, <1>3, <1>6, <2>1 DEF FileType
    <3> QED
      BY <1>1, <1>2, <1>3, <1>6, <2>1, <3>1 DEF FilePlace
  <2>4. Told' = "reading"
    BY <1>1, <2>1 DEF Told, File!Verdict
  <2> QED
    BY <1>3, <1>7, <2>2, <2>3, <2>4 DEF FileInv, Moves
<1>11. Returned(r) <= 0 \/ Returned(r) > 0
  BY <1>4 DEF Returned
<1> QED
  BY <1>8, <1>9, <1>10, <1>11

LEMMA FileStep ==
    ASSUME FileInv, decoder = "file", decoder' = "file", File!Next
    PROVE  FileInv' /\ Moves(reading, reading')
<1>1. CASE File!Begin
  <2>1. /\ pc = "idle" /\ begins < MaxBegins /\ begins' = begins + 1
        /\ at' = (IF fd_offset = -1 THEN at ELSE fd_offset)
        /\ raw' \in File!Raw /\ base' = at' /\ loops' = Smaller(loops + 1, 2)
        /\ reading' \in Readings(volume, base', raw', Misreadings)
        /\ z' = NewInflate /\ stream' = "Z_OK" /\ state' = "INIT"
        /\ got' = 0 /\ pc' = "read" /\ it' = "block"
        /\ UNCHANGED <<volume, fd_offset, gzip, next_in, avail_in, block>>
    BY <1>1, SameZlib DEF File!Begin, File!Sought
  <2>2. volume \in Streams /\ volume \in Volumes /\ volume.size \in Nat /\ FileType
    BY StreamType DEF FileInv, FileType, Streams
  <2>3. begins + 1 \in 0 .. MaxBegins
    BY <2>1, <2>2, InflateAssumption DEF FileType
  <2>4. at' = at \/ at' = 0
    BY <2>1, <2>2, InflateAssumption DEF FileType
  <2>5. at' \in Nat /\ at' <= volume.size
    BY <2>2, <2>4 DEF FileType
  <2>6. raw' \in BOOLEAN
    BY <2>1 DEF File!Raw
  <2>7. /\ reading' \in Streams /\ reading'.size \in Nat
        /\ ~(raw' \/ base' > 0) => reading' = volume
        /\ reading'.size = volume.size - Smaller(base', volume.size)
    BY <2>1, <2>2, <2>5, <2>6, OpenedLoop, StreamType
  <2>8. base' + reading'.size = volume.size
    BY <2>1, <2>2, <2>5, <2>7 DEF Smaller
  <2>0. loops' \in 1 .. 2 /\ (loops' > 1 \/ loops = 0)
    BY <2>1, <2>2 DEF FileType, LoopType, Smaller
  <2>9. LoopType'
    <3>1. loops' \in 0 .. 2
      BY <2>0
    <3>2. base' > 0 => loops' > 1 /\ fd_offset' = -1
      BY <2>0, <2>1, <2>2, InflateAssumption DEF FileType
    <3>3. gzip' \in BOOLEAN
      BY <2>1, <2>2 DEF FileType, LoopType
    <3>4. ~Astray' => ~(raw' \/ base' > 0)
      BY <2>5, <3>2 DEF Astray
    <3> QED
      BY <2>1, <2>5, <2>6, <2>7, <3>1, <3>3, <3>4 DEF LoopType
  <2>10. /\ Follows(reading', NewInflate) /\ ~AtStreamEnd(reading', NewInflate)
         /\ NewInflate.took = 0 /\ NewInflate.made = 0 /\ NewInflate \in [took : Nat, made : Nat]
         /\ reading'.yields[0] = 0
    BY <2>7, NewFollows, StreamType DEF NewInflate
  <2>11. FileType'
    BY <2>0, <2>1, <2>2, <2>3, <2>5, <2>9, <2>10 DEF FileType
  <2>12. FilePlace'
    <3>1. base' + 0 = at'
      BY <2>1, <2>5
    <3> QED
      BY <2>1, <2>7, <2>8, <2>10, <3>1 DEF FilePlace
  <2>13. Told' = "reading" /\ Out' = 0
    BY <2>1 DEF Told, Out, File!Verdict
  <2> QED
    BY <2>7, <2>11, <2>12, <2>13 DEF FileInv, Moves
<1>2. CASE File!BeginFails
  <2>1. /\ pc = "idle" /\ begins < MaxBegins /\ begins' = begins + 1 /\ it' = "failed"
        /\ at' \in {at} \cup ({fd_offset} \ {-1})
        /\ UNCHANGED <<volume, fd_offset, gzip, state, stream, z, next_in, avail_in, raw, base,
                       reading, loops, block, got, pc>>
    BY <1>2 DEF File!BeginFails, File!strmVars, File!loopVars
  <2>2. FileType /\ volume.size \in Nat
    BY StreamType DEF FileInv, FileType, Streams
  <2>3. begins + 1 \in 0 .. MaxBegins
    BY <2>1, <2>2, InflateAssumption DEF FileType
  <2>4. at' = at \/ at' = 0
    BY <2>1, <2>2, InflateAssumption DEF FileType
  <2>5. at' \in Nat /\ at' <= volume.size
    BY <2>2, <2>4 DEF FileType
  <2>6. FileInv'
    <3>1. LoopType'
      BY <2>1, <2>2 DEF FileType, LoopType, Astray
    <3>2. loops' = 0 => at' = 0
      BY <2>1, <2>2, <2>4 DEF FileType
    <3> QED
      BY <2>1, <2>2, <2>3, <2>5, <3>1, <3>2 DEF FileInv, FileType
  <2>7. Told' = "failed" /\ Out' = Out
    BY <2>1 DEF Told, Out, File!Verdict
  <2> QED
    BY <2>1, <2>6, <2>7 DEF Moves
<1>3. CASE File!Increment
  <2>1. /\ pc = "idle" /\ it = "block" /\ pc' = "read"
        /\ UNCHANGED <<volume, at, fd_offset, gzip, state, stream, z, next_in, avail_in, raw,
                       base, reading, loops, block, got, it, begins>>
    BY <1>3 DEF File!Increment, File!fileVars, File!strmVars, File!loopVars
  <2>2. FileInv'
    BY <2>1 DEF FileInv, FileType, LoopType, Astray, FilePlace
  <2>3. Told' = Told /\ Out' = Out
    BY <2>1 DEF Told, Out, File!Verdict
  <2> QED
    BY <2>1, <2>2, <2>3 DEF Moves
<1>4. ASSUME NEW v \in Volumes, NEW o \in Offsets, NEW g \in BOOLEAN, File!Reset(v, o, g)
      PROVE  FileInv' /\ Moves(reading, reading')
  <2>1. /\ pc = "idle" /\ volume' = v /\ at' = 0 /\ fd_offset' = o /\ gzip' = g
        /\ raw' = FALSE /\ base' = 0 /\ reading' = v /\ loops' = 0
        /\ it' = "none" /\ got' = 0 /\ stream' = "Z_OK"
        /\ UNCHANGED <<state, z, next_in, avail_in, block, pc, begins>>
    BY <1>4 DEF File!Reset
  <2>2. v \in Streams /\ v.size \in Nat
    BY StreamType DEF Streams
  <2>3. FileInv'
    <3>0. base' \in Nat /\ loops' \in 0 .. 2
      BY <2>1
    <3>1. LoopType'
      BY <2>1, <2>2, <3>0 DEF LoopType
    <3> QED
      BY <2>1, <2>2, <3>1 DEF FileInv, FileType
  <2>4. Told' = "none" /\ Out' = 0
    BY <2>1 DEF Told, Out, File!Verdict
  <2> QED
    BY <2>1, <2>2, <2>3, <2>4 DEF Moves
<1> QED
  BY <1>1, <1>2, <1>3, <1>4, FileReads, FileInflates DEF File!Next

-----------------------------------------------------------------------------
(* decompress_deflate: zlib has been given the bytes up to `in', in order, *)
(* and what it made is in head or in the string.  Whoever finds the input  *)
(* finished has all of its output.                                         *)
CallType ==
    /\ volume \in Inputs
    /\ finished \in BOOLEAN
    /\ pc \in {"ctor", "read", "grow", "return"}
    /\ ret \in {"", "returned", "thrown", "failed"}
    /\ ret = "" <=> pc # "return"

CallNumbers ==
    /\ in \in Nat /\ left \in Nat /\ in + left = volume.size
    /\ avail_in \in Nat /\ avail_in <= Step /\ avail_in <= in
    /\ capacity \in Nat \ {0} /\ total \in Nat /\ total <= capacity
    /\ used \in Nat /\ size \in Nat

CallPlace ==
    /\ Follows(volume, z) /\ z.took = in - avail_in
    /\ pc = "ctor" => z.made = 0 /\ used = 0 /\ total = 0 /\ size = 0
    /\ pc = "read" => z.made = used + total
    /\ pc = "grow" => z.made = used

CallRoom ==
    /\ size = 0 => used <= BlockSize /\ total <= BlockSize
    /\ size > 0 => used <= size
    /\ pc \in {"ctor", "read"} /\ size = 0 => used = 0 /\ capacity = BlockSize
    /\ pc = "read" /\ size > 0 => capacity = size - used /\ used >= BlockSize
    /\ pc = "grow" => size > 0 /\ used >= BlockSize

CallDone == finished => pc # "ctor" /\ ~Damaged(volume) /\ z.made = Yield(volume)

CallInv == CallType /\ CallNumbers /\ CallPlace /\ CallRoom /\ CallDone

LEMMA CallTold ==
    ASSUME decoder = "call", pc = "ctor" => ret = ""
    PROVE  /\ Out = IF ret = "returned" THEN used ELSE 0
           /\ ret = "returned" => Told = "end"
           /\ ret = "thrown" => Told = "corrupt"
           /\ ret = "failed" => Told = "failed"
           /\ ret = "" /\ pc = "ctor" => Told = "none"
           /\ ret = "" /\ pc # "ctor" => Told = "reading"
<1>1. Out = IF ret = "returned" THEN used ELSE 0
  BY DEF Out, OneShot!Decoded
<1>2. Told = OneShot!Verdict
  BY DEF Told
<1>3. ret = "returned" => OneShot!Verdict = "end"
  BY DEF OneShot!Verdict
<1>4. ret = "thrown" => OneShot!Verdict = "corrupt"
  BY DEF OneShot!Verdict
<1>5. ret = "failed" => OneShot!Verdict = "failed"
  BY DEF OneShot!Verdict
<1>6. ret = "" /\ pc = "ctor" => OneShot!Verdict = "none"
  BY DEF OneShot!Verdict
<1>7. ret = "" /\ pc # "ctor" => OneShot!Verdict = "reading"
  BY DEF OneShot!Verdict
<1> QED
  BY <1>1, <1>2, <1>3, <1>4, <1>5, <1>6, <1>7

LEMMA CallTypes ==
    ASSUME CallInv
    PROVE  /\ volume \in Streams /\ volume.size \in Nat
           /\ Step \in Nat \ {0} /\ BlockSize \in Nat \ {0}
           /\ z.took \in Nat /\ z.made \in Nat /\ z.took <= volume.size
           /\ in <= volume.size
<1>1. volume \in Streams
  BY DEF CallInv, CallType, Streams
<1>2. volume.size \in Nat /\ Step \in Nat \ {0} /\ BlockSize \in Nat \ {0}
  BY <1>1, StreamType, InflateAssumption
<1>3. z.took \in Nat /\ z.made \in Nat /\ z.took = in - avail_in
  BY DEF CallInv, CallPlace, Follows
<1>4. in \in Nat /\ left \in Nat /\ avail_in \in Nat /\ avail_in <= in /\ in + left = volume.size
  BY DEF CallInv, CallNumbers
<1> QED
  BY <1>1, <1>2, <1>3, <1>4

LEMMA CallRounds ==
    ASSUME CallInv, decoder = "call", decoder' = "call", OneShot!Round
    PROVE  CallInv' /\ Moves(volume, volume')
<1> DEFINE given == OneShot!Given
           has == avail_in + given
           room == Smaller(capacity - total, Step)
           from == in - avail_in
<1>1. /\ pc = "read" /\ total < capacity /\ ~finished
      /\ in' = in + given /\ left' = left - given
      /\ UNCHANGED <<volume, capacity, used, size>>
  BY DEF OneShot!Round
<1>0. ret = "" /\ CallType /\ CallPlace /\ CallRoom /\ CallNumbers
  BY <1>1 DEF CallType, CallInv
<1>2. /\ volume \in Streams /\ volume.size \in Nat /\ Step \in Nat \ {0}
      /\ z.took \in Nat /\ z.made \in Nat
      /\ z.took = in - avail_in /\ z.made = used + total
  BY <1>0, <1>1, CallTypes DEF CallPlace
<1>n. /\ in \in Nat /\ left \in Nat /\ in + left = volume.size
      /\ avail_in \in Nat /\ avail_in <= Step /\ avail_in <= in
      /\ capacity \in Nat \ {0} /\ total \in Nat /\ total < capacity
      /\ used \in Nat /\ size \in Nat
  BY <1>0, <1>1 DEF CallNumbers
<1>e. \E r \in InflateResults(volume, z, from, has, room) :
        /\ z' = r.i
        /\ avail_in' = has - r.took
        /\ \/ /\ r.ret = "Z_DATA_ERROR"
              /\ pc' = "return" /\ ret' = "thrown"
              /\ UNCHANGED <<total, finished>>
           \/ /\ r.ret # "Z_DATA_ERROR"
              /\ total' = total + r.gave
              /\ finished' = OneShot!Finished(r, room, has - r.took, left')
              /\ UNCHANGED <<pc, ret>>
  BY SameZlib DEF OneShot!Round, OneShot!Room
<1>4. given \in Nat /\ given <= left /\ avail_in + given <= Step
  <2>1. given = IF avail_in = 0 /\ left # 0 THEN Smaller(left, Step) ELSE 0
    BY SameZlib DEF OneShot!Given
  <2> HIDE DEF given
  <2> QED
    BY <1>2, <1>n, <2>1 DEF Smaller
<1>5. room \in Nat \ {0} /\ room <= capacity - total
  BY <1>2, <1>n DEF Smaller
<1>6. /\ has \in Nat /\ has <= Step /\ z.took + has = in + given
      /\ from = z.took
  BY <1>2, <1>n, <1>4
<1> HIDE DEF given, room, has, from
<1>3. PICK r \in InflateResults(volume, z, from, has, room) :
        /\ z' = r.i
        /\ avail_in' = has - r.took
        /\ \/ /\ r.ret = "Z_DATA_ERROR"
              /\ pc' = "return" /\ ret' = "thrown"
              /\ UNCHANGED <<total, finished>>
           \/ /\ r.ret # "Z_DATA_ERROR"
              /\ total' = total + r.gave
              /\ finished' = OneShot!Finished(r, room, has - r.took, left')
              /\ UNCHANGED <<pc, ret>>
  BY <1>e
<1>7. /\ r.took \in 0 .. has /\ r.gave \in 0 .. room
      /\ r.i.took = z.took + r.took /\ r.i.made = z.made + r.gave
      /\ Follows(volume, r.i)
      /\ r.ret = "Z_DATA_ERROR" => volume.bad > 0 /\ volume.bad <= z.took + has
      /\ r.ret = "Z_STREAM_END" <=> AtStreamEnd(volume, r.i)
      /\ r.ret # "Z_DATA_ERROR" /\ r.gave # room =>
            /\ r.i.made = volume.yields[r.i.took]
            /\ AtStreamEnd(volume, r.i) \/ r.took = has
  <2>1. Follows(volume, z)
    BY <1>0 DEF CallPlace
  <2> QED
    BY <1>2, <1>3, <1>5, <1>6, <2>1, InflateGives
<1>8. /\ in + given \in Nat /\ left - given \in Nat /\ (in + given) + (left - given) = volume.size
      /\ has - r.took \in Nat /\ has - r.took <= Step /\ has - r.took <= in + given
      /\ r.i.took = (in + given) - (has - r.took) /\ in + given <= volume.size
      /\ r.i.took <= volume.size
  BY <1>2, <1>n, <1>4, <1>6, <1>7
<1>9. Told = "reading" /\ Out = 0
  BY <1>0, <1>1, CallTold
<1>m. /\ in' \in Nat /\ left' \in Nat /\ in' + left' = volume'.size
      /\ avail_in' \in Nat /\ avail_in' <= Step /\ avail_in' <= in'
  BY <1>1, <1>3, <1>8
<1>p. Follows(volume', z') /\ z'.took = in' - avail_in'
  BY <1>1, <1>3, <1>7, <1>8
<1>r. /\ size = 0 => used = 0 /\ capacity = BlockSize
      /\ size > 0 => capacity = size - used /\ used >= BlockSize /\ used <= size
  BY <1>0, <1>1 DEF CallRoom
<1>a. CASE r.ret = "Z_DATA_ERROR"
  <2>1. pc' = "return" /\ ret' = "thrown" /\ UNCHANGED <<total, finished>>
    BY <1>3, <1>a
  <2>2. CallType'
    BY <1>0, <1>1, <2>1 DEF CallType
  <2>3. CallNumbers'
    BY <1>0, <1>1, <1>m, <2>1 DEF CallNumbers
  <2>4. CallPlace'
    BY <1>p, <2>1 DEF CallPlace
  <2>5. CallRoom'
    BY <1>0, <1>1, <2>1 DEF CallRoom
  <2>6. CallDone'
    BY <1>1, <2>1 DEF CallDone
  <2>7. Told' = "corrupt" /\ Out' = 0
    BY <2>1 DEF Told, Out, OneShot!Verdict, OneShot!Decoded
  <2>8. Damaged(volume)
    BY <1>2, <1>6, <1>7, <1>8, <1>a, DamageReached
  <2> QED
    BY <1>1, <1>9, <2>2, <2>3, <2>4, <2>5, <2>6, <2>7, <2>8 DEF CallInv, Moves
<1>b. CASE r.ret # "Z_DATA_ERROR"
  <2>1. /\ total' = total + r.gave /\ UNCHANGED <<pc, ret>>
        /\ finished' = OneShot!Finished(r, room, has - r.took, left')
    BY <1>3, <1>b
  <2>2. /\ finished' \in BOOLEAN
        /\ finished' => \/ r.ret = "Z_STREAM_END"
                        \/ r.gave # room /\ has - r.took = 0 /\ left - given = 0
    BY <1>1, <2>1 DEF OneShot!Finished
  <2>3. total + r.gave \in Nat /\ total + r.gave <= capacity /\ r.i.made = used + (total + r.gave)
    BY <1>2, <1>n, <1>5, <1>7
  <2>4. ASSUME finished' PROVE ~Damaged(volume) /\ r.i.made = Yield(volume)
    <3>1. CASE r.ret = "Z_STREAM_END"
      <4>1. AtStreamEnd(volume, r.i) /\ r.i.made = volume.yields[r.i.took]
        BY <1>7, <3>1 DEF AtStreamEnd
      <4> QED
        BY <1>2, <1>7, <1>8, <4>1, TakenAll
    <3>2. CASE r.gave # room /\ has - r.took = 0 /\ left - given = 0
      <4>1. r.i.took = volume.size
        BY <1>8, <3>2
      <4> QED
        BY <1>2, <1>7, <1>8, <1>b, <3>2, <4>1, TakenAll
    <3> QED
      BY <2>2, <2>4, <3>1, <3>2
  <2>5. CallType'
    BY <1>0, <1>1, <2>1, <2>2 DEF CallType
  <2>6. CallNumbers'
    BY <1>1, <1>n, <1>m, <2>1, <2>3 DEF CallNumbers
  <2>7. CallPlace'
    BY <1>1, <1>3, <1>p, <2>1, <2>3 DEF CallPlace
  <2>8. CallRoom'
    BY <1>0, <1>1, <1>n, <1>r, <2>1, <2>3 DEF CallRoom
  <2>9. CallDone'
    BY <1>1, <1>3, <2>1, <2>4 DEF CallDone
  <2>10. Told' = "reading" /\ Out' = 0
    BY <1>0, <1>1, <2>1 DEF Told, Out, OneShot!Verdict, OneShot!Decoded
  <2> QED
    BY <1>1, <1>9, <2>5, <2>6, <2>7, <2>8, <2>9, <2>10 DEF CallInv, Moves
<1> QED
  BY <1>a, <1>b

(* The other steps move zlib nothing; they hand on what there is.          *)
LEMMA CallStep ==
    ASSUME CallInv, decoder = "call", decoder' = "call", OneShot!Next
    PROVE  CallInv' /\ Moves(volume, volume')
<1>1. CASE OneShot!Construct
  <2>1. /\ pc = "ctor" /\ UNCHANGED <<volume, z, in, left, avail_in, finished, total, capacity,
                                      used, size>>
        /\ \/ pc' = "read" /\ ret' = ret
           \/ pc' = "return" /\ ret' = "failed"
    BY <1>1 DEF OneShot!Construct, OneShot!inflaterVars
  <2>2. /\ ret = "" /\ CallType /\ CallNumbers /\ CallPlace /\ CallRoom /\ CallDone
        /\ volume \in Streams
    BY <2>1 DEF CallInv, CallType, Streams
  <2>3. CallType'
    BY <2>1, <2>2 DEF CallType
  <2>4. CallNumbers'
    BY <2>1, <2>2 DEF CallNumbers
  <2>5. CallPlace'
    <3>1. z.made = 0 /\ used = 0 /\ total = 0 /\ Follows(volume, z) /\ z.took = in - avail_in
      BY <2>1, <2>2 DEF CallPlace
    <3> QED
      BY <2>1, <3>1 DEF CallPlace
  <2>6. CallRoom'
    <3>1. size = 0 /\ used = 0 /\ total <= BlockSize /\ used <= BlockSize /\ capacity = BlockSize
      BY <2>1, <2>2 DEF CallPlace, CallRoom
    <3> QED
      BY <2>1, <3>1 DEF CallRoom
  <2>7. CallDone'
    BY <2>1, <2>2 DEF CallDone
  <2>8. CASE pc' = "read" /\ ret' = ret
    <3>1. Told' = "reading" /\ Out' = 0
      BY <2>2, <2>8 DEF Told, Out, OneShot!Verdict, OneShot!Decoded
    <3> QED
      BY <2>1, <2>2, <2>3, <2>4, <2>5, <2>6, <2>7, <3>1 DEF CallInv, Moves
  <2>9. CASE pc' = "return" /\ ret' = "failed"
    <3>1. Told' = "failed" /\ Out' = 0 /\ Out = 0
      BY <2>2, <2>9 DEF Told, Out, OneShot!Verdict, OneShot!Decoded
    <3> QED
      BY <2>1, <2>2, <2>3, <2>4, <2>5, <2>6, <2>7, <3>1 DEF CallInv, Moves
  <2> QED
    BY <2>1, <2>8, <2>9
<1>2. CASE OneShot!AfterHead
  <2>1. /\ pc = "read" /\ size = 0 /\ (total = capacity \/ finished)
        /\ used' = total
        /\ \/ finished /\ pc' = "return" /\ ret' = "returned" /\ size' = size
           \/ /\ ~finished /\ size' = OneShot!Larger(volume.size, 2 * BlockSize)
              /\ pc' = "grow" /\ ret' = ret
        /\ UNCHANGED <<volume, z, in, left, avail_in, finished, total, capacity>>
    BY <1>2 DEF OneShot!AfterHead, OneShot!inflaterVars
  <2>2. /\ ret = "" /\ CallType /\ CallNumbers /\ CallPlace /\ CallRoom /\ CallDone
    BY <2>1 DEF CallInv, CallType
  <2>3. /\ used = 0 /\ capacity = BlockSize /\ total <= BlockSize /\ z.made = used + total
        /\ Follows(volume, z) /\ z.took = in - avail_in
    BY <2>1, <2>2 DEF CallPlace, CallRoom
  <2>4. total \in Nat /\ size \in Nat /\ used \in Nat /\ BlockSize \in Nat \ {0} /\ volume.size \in Nat
    BY <2>2, CallTypes DEF CallNumbers
  <2>5. z.made = total
    BY <2>3, <2>4
  <2>6. Told = "reading" /\ Out = 0
    BY <2>1, <2>2, CallTold
  <2>7. CASE finished /\ pc' = "return" /\ ret' = "returned" /\ size' = size
    <3>1. CallType'
      BY <2>1, <2>2, <2>7 DEF CallType
    <3>2. CallNumbers'
      BY <2>1, <2>2, <2>4, <2>7 DEF CallNumbers
    <3>3. CallPlace'
      BY <2>1, <2>3, <2>7 DEF CallPlace
    <3>4. CallRoom'
      BY <2>1, <2>3, <2>4, <2>7 DEF CallRoom
    <3>5. CallDone'
      BY <2>1, <2>2, <2>7 DEF CallDone
    <3>6. Told' = "end" /\ Out' = total
      BY <2>1, <2>7 DEF Told, Out, OneShot!Verdict, OneShot!Decoded
    <3>7. ~Damaged(volume) /\ z.made = Yield(volume)
      BY <2>2, <2>7 DEF CallDone
    <3> QED
      BY <2>1, <2>5, <2>6, <3>1, <3>2, <3>3, <3>4, <3>5, <3>6, <3>7 DEF CallInv, Moves
  <2>8. CASE /\ ~finished /\ size' = OneShot!Larger(volume.size, 2 * BlockSize)
             /\ pc' = "grow" /\ ret' = ret
    <3>1. total = BlockSize
      BY <2>1, <2>3, <2>8
    <3>2. PICK n \in Nat : size' = n /\ n >= 2 * BlockSize
      BY <2>4, <2>8 DEF OneShot!Larger
    <3>3. n > 0 /\ total <= n /\ total >= BlockSize
      BY <2>4, <3>1, <3>2
    <3>4. CallType'
      BY <2>1, <2>2, <2>8 DEF CallType
    <3>5. CallNumbers'
      BY <2>1, <2>2, <2>4, <3>2 DEF CallNumbers
    <3>6. CallPlace'
      BY <2>1, <2>3, <2>5, <2>8 DEF CallPlace
    <3>7. CallRoom'
      BY <2>1, <2>3, <2>8, <3>2, <3>3 DEF CallRoom
    <3>8. CallDone'
      BY <2>1, <2>8 DEF CallDone
    <3>9. Told' = "reading" /\ Out' = 0
      BY <2>2, <2>8 DEF Told, Out, OneShot!Verdict, OneShot!Decoded
    <3> QED
      BY <2>1, <2>6, <3>4, <3>5, <3>6, <3>7, <3>8, <3>9 DEF CallInv, Moves
  <2> QED
    BY <2>1, <2>7, <2>8
<1>3. CASE OneShot!ReadOn
  <2>1. /\ pc = "grow" /\ ~finished /\ size' = OneShot!Grown
        /\ capacity' = size' - used /\ total' = 0 /\ pc' = "read"
        /\ UNCHANGED <<volume, z, in, left, avail_in, finished, used, ret>>
    BY <1>3 DEF OneShot!ReadOn
  <2>2. /\ ret = "" /\ CallType /\ CallNumbers /\ CallPlace /\ CallRoom
    BY <2>1 DEF CallInv, CallType
  <2>3. /\ size > 0 /\ used >= BlockSize /\ used <= size
        /\ z.made = used /\ Follows(volume, z) /\ z.took = in - avail_in
    BY <2>1, <2>2 DEF CallPlace, CallRoom
  <2>4. size \in Nat /\ used \in Nat /\ BlockSize \in Nat \ {0}
    BY <2>2, CallTypes DEF CallNumbers
  <2>5. PICK n \in Nat : size' = n /\ n > used
    <3>1. size' = IF used = size THEN size * 2 ELSE size
      BY <2>1 DEF OneShot!Grown
    <3>2. size * 2 \in Nat /\ size * 2 > size
      BY <2>3, <2>4
    <3>3. CASE used = size
      BY <2>3, <2>4, <3>1, <3>2, <3>3
    <3>4. CASE used # size
      BY <2>3, <2>4, <3>1, <3>4
    <3> QED
      BY <3>3, <3>4
  <2>6. n - used \in Nat \ {0} /\ n > 0 /\ used <= n /\ used + 0 = used
    BY <2>4, <2>5
  <2>7. CallType'
    BY <2>1, <2>2 DEF CallType
  <2>8. CallNumbers'
    <3>1. capacity' = n - used
      BY <2>1, <2>5
    <3>2. n - used \in Nat \ {0} /\ 0 <= n - used
      BY <2>6
    <3>3. /\ in \in Nat /\ left \in Nat /\ in + left = volume.size
          /\ avail_in \in Nat /\ avail_in <= Step /\ avail_in <= in /\ used \in Nat
      BY <2>2 DEF CallNumbers
    <3>4. /\ total' = 0 /\ size' = n
          /\ UNCHANGED <<volume, in, left, avail_in, used>>
      BY <2>1, <2>5
    <3> HIDE <2>1, <2>2, <2>3, <2>4, <2>5, <2>6
    <3> QED
      BY <3>1, <3>2, <3>3, <3>4 DEF CallNumbers
  <2>9. CallPlace'
    BY <2>1, <2>3, <2>6 DEF CallPlace
  <2>10. CallRoom'
    BY <2>1, <2>3, <2>5, <2>6 DEF CallRoom
  <2>11. CallDone'
    BY <2>1 DEF CallDone
  <2>12. Told = "reading" /\ Out = 0
    BY <2>1, <2>2, CallTold
  <2>13. Told' = "reading" /\ Out' = 0
    BY <2>1, <2>2 DEF Told, Out, OneShot!Verdict, OneShot!Decoded
  <2> QED
    BY <2>1, <2>7, <2>8, <2>9, <2>10, <2>11, <2>12, <2>13 DEF CallInv, Moves
<1>4. CASE OneShot!AfterRead
  <2>1. /\ pc = "read" /\ size > 0 /\ used' = used + total /\ pc' = "grow"
        /\ UNCHANGED <<volume, z, in, left, avail_in, finished, total, capacity, size, ret>>
    BY <1>4 DEF OneShot!AfterRead, OneShot!inflaterVars
  <2>2. /\ ret = "" /\ CallType /\ CallNumbers /\ CallPlace /\ CallRoom /\ CallDone
    BY <2>1 DEF CallInv, CallType
  <2>3. /\ capacity = size - used /\ used >= BlockSize /\ used <= size
        /\ z.made = used + total /\ Follows(volume, z) /\ z.took = in - avail_in
    BY <2>1, <2>2 DEF CallPlace, CallRoom
  <2>4. /\ size \in Nat /\ used \in Nat /\ BlockSize \in Nat \ {0}
        /\ total \in Nat /\ total <= capacity
    BY <2>2, CallTypes DEF CallNumbers
  <2>5. used + total \in Nat /\ used + total <= size /\ used + total >= BlockSize
    BY <2>3, <2>4
  <2>6. CallType'
    BY <2>1, <2>2 DEF CallType
  <2>7. CallNumbers'
    BY <2>1, <2>2, <2>5 DEF CallNumbers
  <2>8. CallPlace'
    BY <2>1, <2>3 DEF CallPlace
  <2>9. CallRoom'
    BY <2>1, <2>4, <2>5 DEF CallRoom
  <2>10. CallDone'
    BY <2>1, <2>2 DEF CallDone
  <2>11. Told = "reading" /\ Out = 0
    BY <2>1, <2>2, CallTold
  <2>12. Told' = "reading" /\ Out' = 0
    BY <2>1, <2>2 DEF Told, Out, OneShot!Verdict, OneShot!Decoded
  <2> QED
    BY <2>1, <2>6, <2>7, <2>8, <2>9, <2>10, <2>11, <2>12 DEF CallInv, Moves
<1>5. CASE OneShot!Return
  <2>1. /\ pc = "grow" /\ finished /\ size' = used /\ pc' = "return" /\ ret' = "returned"
        /\ UNCHANGED <<volume, z, in, left, avail_in, finished, total, capacity, used>>
    BY <1>5 DEF OneShot!Return, OneShot!inflaterVars
  <2>2. /\ ret = "" /\ CallType /\ CallNumbers /\ CallPlace /\ CallRoom /\ CallDone
    BY <2>1 DEF CallInv, CallType
  <2>3. /\ used >= BlockSize
        /\ z.made = used /\ Follows(volume, z) /\ z.took = in - avail_in
    BY <2>1, <2>2 DEF CallPlace, CallRoom
  <2>4. used \in Nat /\ used > 0
    <3>1. used \in Nat /\ BlockSize \in Nat \ {0}
      BY <2>2, CallTypes DEF CallNumbers
    <3> QED
      BY <2>3, <3>1
  <2>5. CallType'
    BY <2>1, <2>2 DEF CallType
  <2>6. CallNumbers'
    BY <2>1, <2>2 DEF CallNumbers
  <2>7. CallPlace'
    BY <2>1, <2>3 DEF CallPlace
  <2>8. CallRoom'
    BY <2>1, <2>4 DEF CallRoom
  <2>9. CallDone'
    BY <2>1, <2>2 DEF CallDone
  <2>10. Told = "reading" /\ Out = 0
    BY <2>1, <2>2, CallTold
  <2>11. Told' = "end" /\ Out' = used
    BY <2>1 DEF Told, Out, OneShot!Verdict, OneShot!Decoded
  <2>12. ~Damaged(volume) /\ z.made = Yield(volume)
    BY <2>1, <2>2 DEF CallDone
  <2> QED
    BY <2>1, <2>3, <2>5, <2>6, <2>7, <2>8, <2>9, <2>10, <2>11, <2>12 DEF CallInv, Moves
<1> QED
  BY <1>1, <1>2, <1>3, <1>4, <1>5, CallRounds DEF OneShot!Next

-----------------------------------------------------------------------------
(* One of the three runs, the variables of the others being at rest.       *)
DataRuns == decoder = "data" /\ DataInv /\ NoFile /\ NoCall

FileRuns == decoder = "file" /\ FileInv /\ data_offset = 0 /\ NoCall

CallRuns == decoder = "call" /\ CallInv /\ NoClass /\ data_offset = 0 /\ NoFile

DecompressInv == DataRuns \/ FileRuns \/ CallRuns

LEMMA InitHolds ==
    ASSUME Init
    PROVE  DecompressInv /\ Abstract!InflationInit
<1> SUFFICES DecompressInv /\ Followed \in Streams /\ Out = 0 /\ Told = "none"
  BY DEF Abstract!InflationInit, Out, Told, Streams
<1>1. CASE decoder = "data" /\ Data!Init /\ NoFile /\ NoCall
  <2>1. /\ volume \in Volumes /\ data_offset = 0 /\ state = "NONE"
        /\ gzip \in BOOLEAN /\ raw = FALSE /\ base = 0 /\ reading = volume /\ loops = 0
        /\ z = NewInflate /\ next_in = 0 /\ avail_in = 0 /\ block = 0 /\ got = 0
        /\ pc = "idle" /\ it = "none" /\ begins = 0
    BY <1>1, SameZlib DEF Data!Init
  <2>2. DataInv
    <3>0. base \in Nat /\ loops \in 0 .. 2
      BY <2>1
    <3>1. LoopType
      BY <2>1, <3>0 DEF LoopType, Streams
    <3> QED
      BY <2>1, <3>1, InflateAssumption DEF DataInv, DataType, DataReading, NewInflate
  <2>3. Told = "none" /\ Out = 0
    BY <1>1, <2>1, DataTold
  <2> QED
    BY <1>1, <2>1, <2>2, <2>3 DEF DecompressInv, DataRuns, Followed, Streams
<1>2. CASE decoder = "file" /\ File!Init /\ data_offset = 0 /\ NoCall
  <2>1. /\ volume \in Volumes /\ at = 0 /\ fd_offset \in Offsets
        /\ gzip \in BOOLEAN /\ raw = FALSE /\ base = 0 /\ reading = volume /\ loops = 0
        /\ state = "NONE" /\ stream = "Z_OK"
        /\ z = NewInflate /\ next_in = 0 /\ avail_in = 0 /\ block = 0 /\ got = 0
        /\ pc = "idle" /\ it = "none" /\ begins = 0
    BY <1>2, SameZlib DEF File!Init
  <2>2. volume \in Streams /\ volume.size \in Nat
    BY <2>1, StreamType DEF Streams
  <2>3. FileInv
    <3>0. base \in Nat /\ loops \in 0 .. 2
      BY <2>1
    <3>1. LoopType
      BY <2>1, <2>2, <3>0 DEF LoopType
    <3> QED
      BY <2>1, <2>2, <3>1, InflateAssumption DEF FileInv, FileType, NewInflate
  <2>4. Told = "none" /\ Out = 0
    BY <1>2, <2>1, FileTold
  <2> QED
    BY <1>2, <2>1, <2>2, <2>3, <2>4 DEF DecompressInv, FileRuns, Followed
<1>3. CASE decoder = "call" /\ OneShot!Init /\ NoClass /\ data_offset = 0 /\ NoFile
  <2>1. /\ volume \in Inputs
        /\ z = NewInflate /\ in = 0 /\ left = volume.size
        /\ avail_in = 0 /\ total = 0 /\ capacity = BlockSize
        /\ used = 0 /\ size = 0 /\ pc = "ctor"
    BY <1>3, SameZlib DEF OneShot!Init
  <2>0. finished = FALSE /\ ret = ""
    BY <1>3 DEF OneShot!Init
  <2>2. volume \in Streams /\ volume.size \in Nat /\ 0 + volume.size = volume.size
    BY <2>1, StreamType DEF Streams
  <2>3. CallType
    BY <2>0, <2>1 DEF CallType
  <2>4. CallNumbers
    BY <2>1, <2>2, InflateAssumption DEF CallNumbers
  <2>5. CallPlace
    BY <2>1, <2>2, NewFollows DEF CallPlace, NewInflate
  <2>6. CallRoom
    BY <2>1, InflateAssumption DEF CallRoom
  <2>7. CallDone
    BY <2>0 DEF CallDone
  <2>8. Told = "none" /\ Out = 0
    BY <1>3, <2>0, <2>1, CallTold
  <2> QED
    BY <1>3, <2>2, <2>3, <2>4, <2>5, <2>6, <2>7, <2>8
       DEF DecompressInv, CallRuns, CallInv, NoClass, Followed
<1> QED
  BY <1>1, <1>2, <1>3 DEF Init

LEMMA StepHolds ==
    ASSUME DecompressInv, [Next]_vars
    PROVE  DecompressInv' /\ [Abstract!InflationNext]_(Abstract!inflationVars)
<1>1. CASE decoder = "data" /\ Data!Next /\ UNCHANGED RestOfData
  <2>1. DataInv /\ NoFile /\ NoCall
    BY <1>1 DEF DecompressInv, DataRuns, FileRuns, CallRuns
  <2>2. decoder' = decoder /\ NoFile' /\ NoCall'
    BY <1>1, <2>1 DEF RestOfData, fileVars, callVars, NoFile, NoCall
  <2>3. DataInv' /\ Moves(reading, reading')
    BY <1>1, <2>1, <2>2, DataStep
  <2>4. Followed = reading /\ Followed' = reading'
    BY <2>1, <2>3 DEF DataInv, DataType, LoopType, Followed
  <2> QED
    BY <1>1, <2>2, <2>3, <2>4, MovesInflate DEF DecompressInv, DataRuns
<1>2. CASE decoder = "file" /\ File!Next /\ UNCHANGED RestOfFile
  <2>1. FileInv /\ data_offset = 0 /\ NoCall
    BY <1>2 DEF DecompressInv, DataRuns, FileRuns, CallRuns
  <2>2. decoder' = decoder /\ data_offset' = 0 /\ NoCall'
    BY <1>2, <2>1 DEF RestOfFile, callVars, NoCall
  <2>3. FileInv' /\ Moves(reading, reading')
    BY <1>2, <2>1, <2>2, FileStep
  <2>4. Followed = reading /\ Followed' = reading'
    BY <2>1, <2>3 DEF FileInv, FileType, LoopType, Followed
  <2> QED
    BY <1>2, <2>2, <2>3, <2>4, MovesInflate DEF DecompressInv, FileRuns
<1>3. CASE decoder = "call" /\ OneShot!Next /\ UNCHANGED RestOfCall
  <2>1. CallInv /\ NoClass /\ data_offset = 0 /\ NoFile
    BY <1>3 DEF DecompressInv, DataRuns, FileRuns, CallRuns
  <2>2. decoder' = decoder /\ NoClass' /\ data_offset' = 0 /\ NoFile'
    <3>1. volume' = volume
      BY <1>3 DEF OneShot!Next, OneShot!Construct, OneShot!Round, OneShot!AfterHead,
                  OneShot!ReadOn, OneShot!AfterRead, OneShot!Return
    <3> QED
      BY <1>3, <2>1, <3>1 DEF RestOfCall, classVars, loopVars, fileVars, NoClass, NoFile
  <2>3. CallInv' /\ Moves(volume, volume')
    BY <1>3, <2>1, <2>2, CallStep
  <2>4. Followed = volume /\ Followed' = volume'
    BY <2>1, <2>2 DEF NoClass, Followed
  <2> QED
    BY <1>3, <2>2, <2>3, <2>4, MovesInflate DEF DecompressInv, CallRuns
<1>4. CASE UNCHANGED vars
  <2>1. /\ UNCHANGED <<decoder, volume, z, avail_in, pc>>
        /\ UNCHANGED <<gzip, state, next_in, raw, base, reading, loops, block, got, it,
                       begins>>
        /\ UNCHANGED data_offset
        /\ UNCHANGED <<at, fd_offset, stream>>
        /\ UNCHANGED <<in, left, finished, total, capacity, used, size, ret>>
    BY <1>4 DEF vars, shared, classVars, loopVars, fileVars, callVars
  <2>2. Moves(Followed, Followed')
    BY <2>1 DEF Moves, Followed, Astray, Told, Out, Data!Verdict, File!Verdict, OneShot!Verdict, OneShot!Decoded
  <2>3. DataInv => DataInv'
    BY <2>1 DEF DataInv, DataType, LoopType, Astray, DataReading, DataPlace
  <2>4. FileInv => FileInv'
    BY <2>1 DEF FileInv, FileType, LoopType, Astray, FilePlace
  <2>5. CallInv => CallInv'
    BY <2>1 DEF CallInv, CallType, CallNumbers, CallPlace, CallRoom, CallDone
  <2>6. (NoClass => NoClass') /\ (NoFile => NoFile') /\ (NoCall => NoCall')
    BY <2>1 DEF NoClass, NoFile, NoCall
  <2>7. DecompressInv'
    BY <2>1, <2>3, <2>4, <2>5, <2>6 DEF DecompressInv, DataRuns, FileRuns, CallRuns
  <2> QED
    BY <2>1, <2>2, <2>7, MovesInflate
<1> QED
  BY <1>1, <1>2, <1>3, <1>4 DEF Next

(* In every reachable state the decoder at work is where its invariant     *)
(* says, and the other two are as they were constructed.                   *)
THEOREM DecompressInvariant == Spec => []DecompressInv
<1>1. Init => DecompressInv
  BY InitHolds
<1>2. DecompressInv /\ [Next]_vars => DecompressInv'
  BY StepHolds
<1> QED
  BY <1>1, <1>2, PTL DEF Spec

LEMMA NoCallTypes ==
    ASSUME NoCall, volume.size \in Nat
    PROVE  /\ in \in 0 .. volume.size /\ left \in 0 .. volume.size
           /\ capacity \in Nat \ {0} /\ total \in 0 .. capacity /\ used \in Nat /\ size \in Nat
           /\ finished \in BOOLEAN /\ ret \in {"", "returned", "thrown", "failed"}
<1>1. in = 0 /\ left = 0 /\ capacity = BlockSize /\ total = 0 /\ used = 0 /\ size = 0
  BY DEF NoCall
<1>2. finished \in BOOLEAN /\ ret \in {"", "returned", "thrown", "failed"}
  BY DEF NoCall
<1>3. /\ in \in 0 .. volume.size /\ left \in 0 .. volume.size
      /\ capacity \in Nat \ {0} /\ total \in 0 .. capacity /\ used \in Nat /\ size \in Nat
  BY <1>1, InflateAssumption
<1> QED
  BY <1>2, <1>3

(* Every state of the three decoders has the types of TypeOK: no block is  *)
(* longer than BlockSize, whatever the reads and inflate() return.         *)
THEOREM InflateTypeOK == Spec => []TypeOK
<1>1. ASSUME DataRuns PROVE TypeOK
  <2>1. DataType /\ NoFile /\ NoCall /\ decoder = "data"
    BY <1>1 DEF DataRuns, DataInv
  <2>2. volume \in Streams /\ volume.size \in Nat
    BY <2>1, StreamType DEF DataType, Streams
  <2>3. /\ in \in 0 .. volume.size /\ left \in 0 .. volume.size
        /\ capacity \in Nat \ {0} /\ total \in 0 .. capacity /\ used \in Nat /\ size \in Nat
        /\ finished \in BOOLEAN /\ ret \in {"", "returned", "thrown", "failed"}
    BY <2>1, <2>2, NoCallTypes
  <2>5. /\ at \in Nat /\ fd_offset \in Offsets
        /\ stream \in {"Z_OK", "Z_STREAM_END", "Z_BUF_ERROR", "Z_DATA_ERROR"}
    BY <2>1, InflateAssumption DEF NoFile
  <2> QED
    BY <2>1, <2>2, <2>3, <2>5 DEF TypeOK, DataType, LoopType
<1>2. ASSUME FileRuns PROVE TypeOK
  <2>1. FileType /\ NoCall /\ decoder = "file" /\ data_offset = 0
    BY <1>2 DEF FileRuns, FileInv
  <2>2. volume \in Streams /\ volume.size \in Nat
    BY <2>1, StreamType DEF FileType, Streams
  <2>3. /\ in \in 0 .. volume.size /\ left \in 0 .. volume.size
        /\ capacity \in Nat \ {0} /\ total \in 0 .. capacity /\ used \in Nat /\ size \in Nat
        /\ finished \in BOOLEAN /\ ret \in {"", "returned", "thrown", "failed"}
    BY <2>1, <2>2, NoCallTypes
  <2> QED
    BY <2>1, <2>2, <2>3 DEF TypeOK, FileType, LoopType
<1>3. ASSUME CallRuns PROVE TypeOK
  <2>1. CallInv /\ NoClass /\ NoFile /\ decoder = "call" /\ data_offset = 0
    BY <1>3 DEF CallRuns
  <2>2. CallType /\ CallNumbers /\ CallPlace
    BY <2>1 DEF CallInv
  <2>3. volume \in Streams /\ volume.size \in Nat /\ Step \in Nat
    BY <2>1, CallTypes
  <2>4. /\ in \in 0 .. volume.size /\ left \in 0 .. volume.size
    BY <2>2, <2>3 DEF CallNumbers
  <2>5. avail_in \in 0 .. Step
    BY <2>2, <2>3 DEF CallNumbers
  <2>6. capacity \in Nat \ {0} /\ total \in 0 .. capacity
    BY <2>2 DEF CallNumbers
  <2>7. used \in Nat /\ size \in Nat
    BY <2>2 DEF CallNumbers
  <2>8. z \in [took : Nat, made : Nat]
    BY <2>2 DEF CallPlace, Follows
  <2>9. /\ at \in Nat /\ fd_offset \in Offsets
        /\ stream \in {"Z_OK", "Z_STREAM_END", "Z_BUF_ERROR", "Z_DATA_ERROR"}
    BY <2>1, InflateAssumption DEF NoFile
  <2>10. begins \in 0 .. MaxBegins
    BY <2>1, InflateAssumption DEF NoClass
  <2>15. base \in Nat /\ loops \in 0 .. 2
    <3>1. base = 0 /\ loops = 0
      BY <2>1 DEF NoClass
    <3> QED
      BY <3>1
  <2>14. /\ gzip \in BOOLEAN /\ raw \in BOOLEAN /\ reading \in Streams
    BY <2>1, <2>3 DEF NoClass
  <2>11. /\ state \in {"NONE", "INIT", "END"}
         /\ next_in \in Nat /\ block \in Nat /\ got \in Nat
         /\ it \in {"none", "block", "end", "thrown", "failed"}
    BY <2>1 DEF NoClass
  <2>12. /\ pc \in {"idle", "read", "inflate", "ctor", "grow", "return"}
         /\ finished \in BOOLEAN /\ ret \in {"", "returned", "thrown", "failed"}
    BY <2>2 DEF CallType
  <2>13. data_offset \in Nat
    BY <2>1
  <2> HIDE <2>2
  <2> QED
    BY <2>1, <2>3, <2>4, <2>5, <2>6, <2>7, <2>8, <2>9, <2>10, <2>11, <2>12, <2>13, <2>14, <2>15
       DEF TypeOK
<1>4. DecompressInv => TypeOK
  BY <1>1, <1>2, <1>3 DEF DecompressInv
<1> QED
  BY <1>4, DecompressInvariant, PTL

(* decompress_deflate stays inside the block on the stack and inside the   *)
(* string, and hands zlib its input in order, whatever the step size.      *)
THEOREM CallInsideBuffers == Spec => []InsideBuffers
<1>1. DecompressInv => InsideBuffers
  <2> SUFFICES ASSUME DecompressInv, decoder = "call"
      PROVE  /\ IF size = 0 THEN used <= BlockSize /\ total <= BlockSize
                ELSE used <= size /\ (pc = "read" => used + total <= size)
             /\ in + left = volume.size
             /\ z.took = in - avail_in
    BY DEF InsideBuffers
  <2>1. CallNumbers /\ CallPlace /\ CallRoom
    BY DEF DecompressInv, DataRuns, FileRuns, CallRuns, CallInv
  <2>2. /\ size \in Nat /\ used \in Nat /\ total \in Nat /\ capacity \in Nat /\ total <= capacity
        /\ in + left = volume.size
    BY <2>1 DEF CallNumbers
  <2>3. size = 0 => used <= BlockSize /\ total <= BlockSize
    BY <2>1 DEF CallRoom
  <2>4. size # 0 => used <= size /\ (pc = "read" => capacity = size - used)
    BY <2>1, <2>2 DEF CallRoom
  <2>5. z.took = in - avail_in
    BY <2>1 DEF CallPlace
  <2> QED
    BY <2>2, <2>3, <2>4, <2>5
<1> QED
  BY <1>1, DecompressInvariant, PTL

(* The three decoders implement Inflation: the caller is given the output  *)
(* from its front, the end comes after all of it, and damage (in a file,   *)
(* truncation too) is never taken for the end.  That is said of the stream *)
(* a decoder reads, Followed: the caller's volume unless init() opened it  *)
(* raw or begin() did not start at its front.                              *)
THEOREM DecodersInflate == Spec => Inflates
<1>1. Init => Abstract!InflationInit
  BY InitHolds
<1>2. DecompressInv /\ [Next]_vars => [Abstract!InflationNext]_(Abstract!inflationVars)
  BY StepHolds
<1> QED
  BY <1>1, <1>2, DecompressInvariant, PTL DEF Spec, Inflates, Abstract!InflationSpec
=============================================================================
