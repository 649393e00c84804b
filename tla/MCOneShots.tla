----------------------------- MODULE MCOneShots -----------------------------
(* compress_lz4 takes inputs up to fifteen bytes: three segments, the ring *)
(* used twice round.  Calls follow one another, thrown ones too, so the    *)
(* thread's encoder is met with every dictionary a call can leave.  Eight  *)
(* records of five bytes at most: two fit on the stack, five in the block  *)
(* that is kept; frames of 9 and 18 bytes need 12 and 21.                  *)
(*                                                                         *)
(* zstd decodes frames that are what they say, hold less, are followed by  *)
(* another, or claim more than they can, on either side of that line; and  *)
(* frames that record nothing, and no frames.  The last call's volume, a   *)
(* frame it wrote for instance, may be the next one's.                     *)
EXTENDS OneShots

Frame(size, header, total, sound) ==
    [size |-> size, header |-> header, total |-> total, sound |-> sound]

MCVolumes ==
    {Frame(2, 0, 0, TRUE), Frame(4, 8, 8, TRUE), Frame(4, 12, 12, TRUE),
     Frame(4, 12, 8, FALSE), Frame(4, 8, 12, FALSE), Frame(6, 8, 12, TRUE),
     Frame(2, 11, 3, FALSE), Frame(2, 12, 3, FALSE),
     Frame(4, CONTENTSIZE_UNKNOWN, 8, TRUE), Frame(4, CONTENTSIZE_ERROR, 0, FALSE)}

(* The shortest and the longest frame of each content.                     *)
MCFrameSizes == {1, 3, 4, 6, 12, 21}

MCContents == {0, 9, 18}

MCLimits == {0, 3, 8, 12, 21}

(* An int of four bits: casts of 8 and more are negative, of 16 and more   *)
(* small again.                                                            *)
MCSizes == {0, 1, 4, 5, 6, 7, 8, 15, 17, 20}

MCStreams ==
    [size : {0, 1, 4, 7, 8, 17, 20}, total : {0, 1, 4, 8, 20}, sound : BOOLEAN]
=============================================================================
