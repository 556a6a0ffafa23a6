---------------------------- MODULE MCTuiSession ----------------------------
(* Instance of TuiSession: an empty line, a cursor moved home and two texts to complete. *)
EXTENDS TuiSession, TLC

TextSymmetry == Permutations(Askable)
=============================================================================
