-------------------------- MODULE XXH32StreamProofs --------------------------
(***************************************************************************)
(* The digest of xxh32_stream.h depends on the bytes of the stream alone,  *)
(* for every sequence of updates and every width of total_len that is at   *)
(* least two blocks.                                                       *)
(***************************************************************************)
EXTENDS XXH32Stream, TLAPS

(* The lanes have taken all the whole blocks of the stream, and the carry  *)
(* holds the bytes after them.                                             *)
StreamInv ==
    /\ n \in 0 .. MaxBytes
    /\ memsize \in 0 .. 15 /\ mem32 \in [0 .. 15 -> Int]
    /\ v \in Nat /\ v % 16 = 0 /\ n = v + memsize
    /\ \A i \in 0 .. (memsize - 1) : mem32[i] = v + i
    /\ total_len = n % Width
    /\ large_len \in BOOLEAN /\ (large_len <=> n >= 16)

-----------------------------------------------------------------------------
(* The overlapping copies of copy_small write each of its bytes and no     *)
(* other.                                                                  *)
LEMMA CopiedAll ==
    ASSUME NEW c \in 0 .. 15
    PROVE  Copied(c) = 0 .. (c - 1)
<1>1. CASE c >= 8
  BY <1>1 DEF Copied
<1>2. CASE c \in 4 .. 7
  <2>1. Copied(c) = 0 .. 3 \cup (c - 4) .. (c - 1)
    BY <1>2 DEF Copied
  <2>2. \A i : i \in 0 .. 3 \cup (c - 4) .. (c - 1) <=> i \in 0 .. (c - 1)
    BY <1>2
  <2> QED
    BY <2>1, <2>2
<1>3. CASE c \in 1 .. 3
  <2>1. c \div 2 \in 0 .. 1 /\ (c = 3 => c \div 2 = 1)
    BY <1>3
  <2>2. Copied(c) = {0, c \div 2, c - 1}
    BY <1>3 DEF Copied
  <2>3. \A i : i \in {0, c \div 2, c - 1} <=> i \in 0 .. (c - 1)
    BY <1>3, <2>1
  <2> QED
    BY <2>2, <2>3
<1>4. CASE c = 0
  BY <1>4 DEF Copied
<1> QED
  BY <1>1, <1>2, <1>3, <1>4

LEMMA CopiedByAll ==
    ASSUME NEW kernel \in Kernels, NEW c \in 0 .. 15
    PROVE  CopiedBy(kernel, c) = 0 .. (c - 1)
BY CopiedAll DEF CopiedBy

(* A sum may be reduced before it is taken: the 32-bit total_len counts    *)
(* the bytes of the stream modulo its width.                               *)
LEMMA ModSum ==
    ASSUME NEW a \in Nat, NEW b \in Nat, NEW w \in Nat \ {0}
    PROVE  ((a % w) + b) % w = (a + b) % w
<1> DEFINE q == a \div w  r == a % w
           p == (r + b) \div w  s == (r + b) % w
           k == (a + b) \div w  t == (a + b) % w
<1>1. q \in Nat /\ r \in 0 .. (w - 1) /\ a = w * q + r
  OBVIOUS
<1>2. p \in Nat /\ s \in 0 .. (w - 1) /\ r + b = w * p + s
  BY <1>1
<1>3. k \in Nat /\ t \in 0 .. (w - 1) /\ a + b = w * k + t
  OBVIOUS
<1> HIDE DEF q, r, p, s, k, t
<1>4. w * k + t = w * (q + p) + s
  BY <1>1, <1>2, <1>3
<1>5. ~(k > q + p)
  <2>1. SUFFICES ASSUME k > q + p PROVE FALSE
    OBVIOUS
  <2>2. PICK d \in Nat : k = q + p + 1 + d
    BY <1>1, <1>2, <1>3, <2>1
  <2>3. w * k = w * (q + p) + w + w * d
    BY <2>2, <1>1, <1>2
  <2>4. w * d >= 0
    BY <2>2
  <2> QED
    BY <1>1, <1>2, <1>3, <1>4, <2>3, <2>4
<1>6. ~(k < q + p)
  <2>1. SUFFICES ASSUME k < q + p PROVE FALSE
    OBVIOUS
  <2>2. PICK d \in Nat : q + p = k + 1 + d
    BY <1>1, <1>2, <1>3, <2>1
  <2>3. w * (q + p) = w * k + w + w * d
    BY <2>2, <1>3
  <2>4. w * d >= 0
    BY <2>2
  <2> QED
    BY <1>1, <1>2, <1>3, <1>4, <2>3, <2>4
<1>7. k = q + p
  BY <1>1, <1>2, <1>3, <1>5, <1>6
<1>8. t = s
  BY <1>1, <1>2, <1>3, <1>4, <1>7
<1> QED
  BY <1>8 DEF r, s, t

(* What is left after the whole blocks fits into the carry, and the lanes  *)
(* have taken everything before it.                                        *)
LEMMA WholeBlocksAll ==
    ASSUME NEW first \in Nat, NEW rest \in Nat
    PROVE  LET w == WholeBlocks(first, first, rest)
           IN  /\ w.took \in Nat /\ w.took % 16 = 0
               /\ rest - w.took \in 0 .. 15
               /\ w.lanes = first + w.took
<1> DEFINE took == 16 * BlocksUpTo(first, first + (rest - 16))
<1>1. CASE rest < 16
  <2>1. WholeBlocks(first, first, rest) = [lanes |-> first, took |-> 0]
    BY <1>1 DEF WholeBlocks
  <2> QED
    BY <1>1, <2>1
<1>2. CASE rest >= 16
  <2>1. WholeBlocks(first, first, rest) = [lanes |-> first + took, took |-> took]
    BY <1>2 DEF WholeBlocks
  <2>2. took = 16 * ((rest - 16) \div 16 + 1)
    BY <1>2 DEF BlocksUpTo
  <2>3. took \in Nat /\ took % 16 = 0 /\ rest - took \in 0 .. 15
    BY <1>2, <2>2
  <2> HIDE DEF took
  <2> QED
    BY <2>1, <2>3
<1> QED
  BY <1>1, <1>2

-----------------------------------------------------------------------------
(* An update that the carry can hold.                                      *)
LEMMA CarryOnly ==
    ASSUME StreamInv, NEW len \in Nat, Fits(len),
           mem32' = Carry(Copied(len), memsize, n),
           memsize' = memsize + len, v' = v, n' = n + len
    PROVE  /\ memsize' \in 0 .. 15 /\ mem32' \in [0 .. 15 -> Int]
           /\ v' \in Nat /\ v' % 16 = 0 /\ n' = v' + memsize'
           /\ \A i \in 0 .. (memsize' - 1) : mem32'[i] = v' + i
<1>1. len \in 0 .. 15 /\ memsize' \in 0 .. 15
  BY DEF Fits, StreamInv
<1>2. Copied(len) = 0 .. (len - 1)
  BY <1>1, CopiedAll
<1>3. mem32' = [i \in 0 .. 15 |-> IF i - memsize \in 0 .. (len - 1)
                                 THEN n + (i - memsize) ELSE mem32[i]]
  BY <1>2 DEF Carry
<1>4. mem32' \in [0 .. 15 -> Int]
  BY <1>3 DEF StreamInv
<1>5. ASSUME NEW i \in 0 .. (memsize' - 1)
      PROVE  mem32'[i] = v' + i
  <2>1. i \in 0 .. 15
    BY <1>1
  <2>2. CASE i < memsize
    BY <1>1, <1>3, <2>1, <2>2 DEF StreamInv
  <2>3. CASE i >= memsize
    BY <1>1, <1>3, <2>1, <2>3 DEF StreamInv
  <2> QED
    BY <2>1, <2>2, <2>3 DEF StreamInv
<1> QED
  BY <1>1, <1>4, <1>5 DEF StreamInv

(* The carried block that an update completes is the next of the stream.   *)
LEMMA CarryCompletes ==
    ASSUME StreamInv, memsize # 0, NEW kernel \in Kernels
    PROVE  LET filled == Carry(CopiedBy(kernel, 16 - memsize), memsize, n)
           IN  /\ filled \in [0 .. 15 -> Int]
               /\ CarriedBlock(v, filled) = v + 16
<1> DEFINE filled == Carry(CopiedBy(kernel, 16 - memsize), memsize, n)
<1>1. CopiedBy(kernel, 16 - memsize) = 0 .. (15 - memsize)
  <2>1. 16 - memsize \in 0 .. 15 /\ (16 - memsize) - 1 = 15 - memsize
    BY DEF StreamInv
  <2> QED
    BY <2>1, CopiedByAll
<1>2. filled = [i \in 0 .. 15 |-> IF i - memsize \in 0 .. (15 - memsize)
                                 THEN n + (i - memsize) ELSE mem32[i]]
  BY <1>1 DEF Carry
<1>3. ASSUME NEW i \in 0 .. 15
      PROVE  filled[i] = v + i
  BY <1>2 DEF StreamInv
<1>4. filled \in [0 .. 15 -> Int]
  BY <1>2 DEF StreamInv
<1> HIDE DEF filled
<1>5. CarriedBlock(v, filled) = v + 16
  BY <1>3 DEF CarriedBlock
<1> QED
  BY <1>4, <1>5 DEF filled

(* An update that reaches the lanes.                                       *)
LEMMA ThroughLanes ==
    ASSUME StreamInv, NEW kernel \in Kernels, NEW len \in Nat, ~Fits(len),
           n' = n + len,
           LET take   == IF memsize # 0 THEN 16 - memsize ELSE 0
               filled == Carry(CopiedBy(kernel, take), memsize, n)
               lanes  == IF memsize # 0 THEN CarriedBlock(v, filled) ELSE v
               whole  == WholeBlocks(lanes, n + take, len - take)
               tail   == len - take - whole.took
           IN  /\ v' = whole.lanes
               /\ memsize' = tail
               /\ mem32' = [i \in 0 .. 15 |->
                              IF i \in CopiedBy(kernel, tail)
                              THEN n + take + whole.took + i ELSE filled[i]]
    PROVE  /\ memsize' \in 0 .. 15 /\ mem32' \in [0 .. 15 -> Int]
           /\ v' \in Nat /\ v' % 16 = 0 /\ n' = v' + memsize'
           /\ \A i \in 0 .. (memsize' - 1) : mem32'[i] = v' + i
<1> DEFINE take   == IF memsize # 0 THEN 16 - memsize ELSE 0
           filled == Carry(CopiedBy(kernel, take), memsize, n)
           lanes  == IF memsize # 0 THEN CarriedBlock(v, filled) ELSE v
           whole  == WholeBlocks(lanes, n + take, len - take)
           tail   == len - take - whole.took
<1>0. /\ v' = whole.lanes
      /\ memsize' = tail
      /\ mem32' = [i \in 0 .. 15 |-> IF i \in CopiedBy(kernel, tail)
                                    THEN n + take + whole.took + i ELSE filled[i]]
  OBVIOUS
<1>1. take \in 0 .. 15 /\ len - take \in Nat
  BY DEF Fits, StreamInv
<1>2. filled \in [0 .. 15 -> Int] /\ lanes = n + take /\ lanes % 16 = 0
  <2>1. CASE memsize # 0
    <3>1. filled \in [0 .. 15 -> Int] /\ CarriedBlock(v, filled) = v + 16
      BY <2>1, CarryCompletes
    <3> HIDE DEF filled
    <3>2. lanes = v + 16 /\ take = 16 - memsize
      BY <2>1, <3>1
    <3> QED
      BY <3>1, <3>2 DEF StreamInv
  <2>2. CASE memsize = 0
    <3>1. take = 0 /\ lanes = v
      BY <2>2
    <3>2. filled \in [0 .. 15 -> Int]
      BY DEF Carry, StreamInv
    <3> HIDE DEF take, filled, lanes
    <3> QED
      BY <2>2, <3>1, <3>2 DEF StreamInv
  <2> QED
    BY <2>1, <2>2
<1> HIDE DEF take, filled, lanes
<1>3. n \in Nat /\ n + take \in Nat
  BY <1>1, StreamAssumption DEF StreamInv
<1>4. /\ whole.took \in Nat /\ whole.took % 16 = 0
      /\ tail \in 0 .. 15
      /\ whole.lanes = n + take + whole.took
  BY <1>1, <1>2, <1>3, WholeBlocksAll
<1> HIDE DEF whole
<1>5. n + len = whole.lanes + tail
  BY <1>1, <1>3, <1>4
<1>6. whole.lanes \in Nat /\ whole.lanes % 16 = 0
  BY <1>2, <1>3, <1>4
<1> HIDE DEF tail
<1>7. CopiedBy(kernel, tail) = 0 .. (tail - 1)
  BY <1>4, CopiedByAll
<1>8. mem32' \in [0 .. 15 -> Int]
  BY <1>0, <1>1, <1>2, <1>3, <1>4
<1>9. \A i \in 0 .. (tail - 1) : mem32'[i] = n + take + whole.took + i
  <2> SUFFICES ASSUME NEW i \in 0 .. (tail - 1)
               PROVE  mem32'[i] = n + take + whole.took + i
    OBVIOUS
  <2>1. i \in 0 .. 15 /\ i \in CopiedBy(kernel, tail)
    BY <1>4, <1>7
  <2> QED
    BY <1>0, <2>1
<1> QED
  BY <1>0, <1>4, <1>5, <1>6, <1>8, <1>9

(* The total and the flag: total_len cannot have wrapped before the flag   *)
(* is set.                                                                 *)
LEMMA CountsOn ==
    ASSUME StreamInv, NEW len \in Nat,
           n' = n + len,
           total_len' = (total_len + len) % Width,
           large_len' = Large(len, total_len')
    PROVE  /\ total_len' = n' % Width
           /\ large_len' \in BOOLEAN /\ (large_len' <=> n' >= 16)
<1> USE StreamAssumption
<1>1. n \in Nat /\ total_len = n % Width /\ (large_len <=> n >= 16)
  BY DEF StreamInv
<1>2. total_len' = n' % Width
  BY <1>1, ModSum
<1>3. large_len' \in BOOLEAN /\ (large_len' <=> large_len \/ len >= 16 \/ total_len' >= 16)
  BY DEF Large
<1>4. CASE n >= 16 \/ len >= 16
  BY <1>1, <1>2, <1>3, <1>4
<1>5. CASE n < 16 /\ len < 16
  <2>1. n' \in 0 .. 30 /\ n' % Width = n'
    BY <1>1, <1>5
  <2> QED
    BY <1>1, <1>2, <1>3, <1>5, <2>1
<1> QED
  BY <1>1, <1>4, <1>5

-----------------------------------------------------------------------------
(* The strengthening that the digest rests on, for every sequence of       *)
(* updates and resets.                                                     *)
THEOREM StreamInvariant == Spec => []StreamInv
<1> USE StreamAssumption
<1>1. Init => StreamInv
  <2> SUFFICES ASSUME Init PROVE StreamInv
    OBVIOUS
  <2>1. /\ total_len = 0 /\ large_len = FALSE /\ v = 0 /\ memsize = 0 /\ n = 0
        /\ mem32 \in [0 .. 15 -> Int]
    BY DEF Init, ResetState, NoByte
  <2>2. 0 % Width = 0 /\ 0 % 16 = 0
    OBVIOUS
  <2>3. large_len \in BOOLEAN /\ (large_len <=> n >= 16)
    <3>1. ~(n >= 16)
      BY <2>1
    <3> QED
      BY <2>1, <3>1, Zenon
  <2> QED
    BY <2>1, <2>2, <2>3 DEF StreamInv
<1>2. StreamInv /\ [Next]_vars => StreamInv'
  <2> SUFFICES ASSUME StreamInv, [Next]_vars PROVE StreamInv'
    OBVIOUS
  <2>1. CASE Reset
    <3>1. /\ total_len' = 0 /\ large_len' = FALSE /\ v' = 0 /\ memsize' = 0 /\ n' = 0
          /\ mem32' \in [0 .. 15 -> Int]
      BY <2>1 DEF Reset, NoByte
    <3>2. 0 % Width = 0 /\ 0 % 16 = 0
      OBVIOUS
    <3>3. large_len' \in BOOLEAN /\ (large_len' <=> n' >= 16)
      <4>1. ~(n' >= 16)
        BY <3>1
      <4> QED
        BY <3>1, <4>1, Zenon
    <3> QED
      BY <3>1, <3>2, <3>3 DEF StreamInv
  <2>2. ASSUME NEW len \in Lens, NEW kernel \in Kernels, Update(kernel, len)
        PROVE  StreamInv'
    <3>1. len \in Nat /\ n' = n + len /\ n' \in 0 .. MaxBytes
      BY <2>2 DEF Update, StreamInv
    <3>2. total_len' = n' % Width /\ large_len' \in BOOLEAN /\ (large_len' <=> n' >= 16)
      BY <2>2, <3>1, CountsOn DEF Update
    <3>3. /\ memsize' \in 0 .. 15 /\ mem32' \in [0 .. 15 -> Int]
          /\ v' \in Nat /\ v' % 16 = 0 /\ n' = v' + memsize'
          /\ \A i \in 0 .. (memsize' - 1) : mem32'[i] = v' + i
      <4>1. CASE Fits(len)
        BY <2>2, <3>1, <4>1, CarryOnly DEF Update
      <4>2. CASE ~Fits(len)
        BY <2>2, <3>1, <4>2, ThroughLanes DEF Update
      <4> QED
        BY <4>1, <4>2
    <3> QED
      BY <3>1, <3>2, <3>3 DEF StreamInv
  <2>3. CASE UNCHANGED vars
    BY <2>3 DEF vars, StreamInv
  <2> QED
    BY <2>1, <2>2, <2>3 DEF Next
<1> QED
  BY <1>1, <1>2, PTL DEF Spec

(* Type correctness.                                                       *)
THEOREM StreamTypeOK == Spec => []TypeOK
<1>1. StreamInv => TypeOK
  BY StreamAssumption DEF StreamInv, TypeOK
<1> QED
  BY <1>1, StreamInvariant, PTL

(* XXH32_digest sees the definition's lanes, tail, total and length class  *)
(* of the bytes so far: cutting them into other updates, on either kernel, *)
(* gives the same digest.                                                  *)
THEOREM DigestIsOfBytes == Spec => []DigestOfAll
<1>1. StreamInv => DigestOfAll
  <2> SUFFICES ASSUME StreamInv PROVE DigestOfAll
    OBVIOUS
  <2>1. n \in Nat /\ n % 16 = memsize /\ n - memsize = v
    BY StreamAssumption DEF StreamInv
  <2>2. [i \in 0 .. (memsize - 1) |-> mem32[i]] = [i \in 0 .. (memsize - 1) |-> v + i]
    BY DEF StreamInv
  <2>3. (IF large_len THEN v ELSE 0) = v
    <3>1. CASE large_len
      BY <3>1
    <3>2. CASE ~large_len
      BY <2>1, <3>2 DEF StreamInv
    <3> QED
      BY <3>1, <3>2
  <2>4. large_len = (n >= 16)
    BY DEF StreamInv
  <2>5. total_len = n % Width
    BY DEF StreamInv
  <2>6. Digest = [large |-> n >= 16, lanes |-> v, total |-> n % Width,
                  tail |-> [i \in 0 .. (memsize - 1) |-> v + i]]
    BY <2>2, <2>3, <2>4, <2>5, Zenon DEF Digest
  <2> QED
    BY <2>1, <2>6, Zenon DEF DigestOfAll
<1> QED
  BY <1>1, StreamInvariant, PTL
=============================================================================
