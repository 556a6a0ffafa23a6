------------------------- MODULE MCProcessLifecycle -------------------------
(* Small instances of ProcessLifecycle for TLC. *)
EXTENDS ProcessLifecycle, TLC

(* Clients are interchangeable. *)
ClientSymmetry == Permutations(Clients)
=============================================================================
