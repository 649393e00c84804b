------------------------------ MODULE OneShots ------------------------------
(***************************************************************************)
(* The one-shot functions on one thread, which leave one another their     *)
(* contexts, encoders and scratch memory.  `uses' is what the thread calls *)
(* them for: the compressors that share Scratch, zstd's functions, or raw  *)
(* LZ4 blocks.                                                             *)
(***************************************************************************)
EXTENDS LZ4CompressOneShot, ZstdOneShot, LZ4Block

VARIABLE uses

vars == <<uses, scratchVars, lz4Vars, zstdVars, blockVars>>

Init ==
    /\ uses \in {"compressors", "frames", "blocks"}
    /\ ScratchInit /\ LZ4Init /\ ZstdInit /\ BlockInit
    /\ uses # "compressors" => enc

Next ==
    /\ UNCHANGED uses
    /\ \/ /\ uses = "compressors" /\ ~Compressing
          /\ LZ4Next /\ call' = NoCall
          /\ UNCHANGED <<contexts, string, blockVars>>
       \/ /\ uses = "compressors" /\ pc = "idle"
          /\ CompressLeave \/ \E size \in Contents : CompressEnter(size)
          /\ UNCHANGED <<lz4Vars, blockVars>>
       \/ /\ uses = "frames"
          /\ ZstdNext
          /\ UNCHANGED <<lz4Vars, blockVars>>
       \/ /\ uses = "blocks"
          /\ BlockNext
          /\ UNCHANGED <<scratchVars, lz4Vars, zstdVars>>

Spec == Init /\ [][Next]_vars

-----------------------------------------------------------------------------
TypeOK == ScratchTypeOK /\ LZ4TypeOK /\ ZstdTypeOK

(* The functions that write to the caller's memory, of either codec, keep  *)
(* to it and are exact: README.md:21, "Blocks into your buffer".           *)
IntoBuffer == FramesIntoBuffer /\ BlocksIntoBuffer
=============================================================================
