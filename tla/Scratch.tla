------------------------------- MODULE Scratch -------------------------------
(***************************************************************************)
(* compressors::detail::Scratch on one thread: the memory of a call is on  *)
(* the stack, in a block the thread keeps for its next call, or on the     *)
(* heap.  A call has at most one Scratch, and threads share nothing of it. *)
(***************************************************************************)
EXTENDS Integers

CONSTANTS Small,        \* sizeof(small): 4096
          Kept          \* kept: 1 MB

ASSUME ScratchAssumption == Small \in Nat /\ Kept \in Nat /\ Small <= Kept

VARIABLES cache,        \* cache(): p, here the bytes it has allocated, and size
          memory        \* of the call in progress: what it asked for, where
                        \* that is, and how much room is there

scratchVars == <<cache, memory>>

NoMemory == [need |-> 0, at |-> "none", room |-> 0]

ScratchInit == cache = [p |-> 0, size |-> 0] /\ memory = NoMemory

UseStack(need) ==
    /\ need <= Small
    /\ memory' = [need |-> need, at |-> "stack", room |-> Small]
    /\ UNCHANGED cache

(* Wrong: whatever does not fit on the stack is kept.                      *)
KeepableAny(need) == need > Small

Keepable(need) == need > Small /\ need <= Kept

Enough(need) == cache.size >= need

(* The block at hand is large enough.                                      *)
UseCache(need) ==
    /\ Keepable(need) /\ Enough(need)
    /\ memory' = [need |-> need, at |-> "cache", room |-> cache.p]
    /\ UNCHANGED cache

(* c.p.reset(new char[n]), then c.size = n.                                *)
GrowCache(need) ==
    /\ Keepable(need) /\ ~Enough(need)
    /\ cache' = [p |-> need, size |-> need]
    /\ memory' = [need |-> need, at |-> "cache", room |-> need]

UseHeap(need) ==
    /\ need > Small /\ ~Keepable(need)
    /\ memory' = [need |-> need, at |-> "heap", room |-> need]
    /\ UNCHANGED cache

(* Wrong: the size is recorded before the memory is there.                 *)
AfterBadAllocSized(c, need) == [c EXCEPT !.size = need]

(* `new' throws before c.p and c.size are touched.                         *)
AfterBadAlloc(c, need) == c

RefuseCache(need) ==
    /\ Keepable(need) /\ ~Enough(need)
    /\ cache' = AfterBadAlloc(cache, need)
    /\ UNCHANGED memory

RefuseHeap(need) ==
    /\ need > Small /\ ~Keepable(need)
    /\ UNCHANGED scratchVars

(* Scratch(n), where it succeeds and where it throws std::bad_alloc.       *)
Acquire(need) ==
    /\ memory = NoMemory
    /\ UseStack(need) \/ UseCache(need) \/ GrowCache(need) \/ UseHeap(need)

Refuse(need) == memory = NoMemory /\ (RefuseCache(need) \/ RefuseHeap(need))

(* ~Scratch frees big.                                                     *)
Release ==
    /\ memory # NoMemory
    /\ memory' = NoMemory
    /\ UNCHANGED cache

ScratchNext == Release \/ \E need \in Nat : Acquire(need) \/ Refuse(need)

ScratchSpec == ScratchInit /\ [][ScratchNext]_scratchVars

-----------------------------------------------------------------------------
ScratchTypeOK ==
    /\ cache \in [p : 0 .. Kept, size : 0 .. Kept]
    /\ memory \in [need : Nat, at : {"none", "stack", "cache", "heap"}, room : Nat]

(* compressor_scratch.h:33: "a per-thread block kept for reuse (up to 1    *)
(* MB, shared by the three codecs)": a call has the memory it asked for,   *)
(* whatever the calls before it on the thread asked for, kept and were     *)
(* refused.                                                                *)
RoomEnough == memory.need <= memory.room
=============================================================================
