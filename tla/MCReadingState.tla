-------------------------- MODULE MCReadingState ---------------------------
(* Small instances of ReadingState for TLC. *)
EXTENDS ReadingState, TLC

FileSymmetry == Permutations(Files)
=============================================================================
