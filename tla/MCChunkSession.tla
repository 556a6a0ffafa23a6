--------------------------- MODULE MCChunkSession ---------------------------
(* Small instances of ChunkSession for TLC. *)
EXTENDS ChunkSession

(* Singletons are interchangeable. *)
SingletonSymmetry == Permutations(Singletons)
=============================================================================
