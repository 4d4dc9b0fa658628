--------------------------- MODULE MCBookRequests ---------------------------
(* Small instances of BookRequests for TLC. *)
EXTENDS BookRequests, TLC

(* Releases are interchangeable. *)
GuidSymmetry == Permutations(Guids)
=============================================================================
