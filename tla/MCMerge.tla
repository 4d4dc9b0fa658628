------------------------------ MODULE MCMerge ------------------------------
(* A small instance of Merge for TLC: three ebooks, one of them without any  *)
(* author, the other two of one author or of one each. The instance says     *)
(* nothing else of A and C, nor of p and q, and the runs have no liveness.   *)
EXTENDS Merge
CONSTANTS A, B, C, p, q

MCFormatOf == [b \in {A, B, C} |-> "epub"]

MCCatalogues ==
    {[b \in {A, B, C} |-> IF b = A THEN <<x>> ELSE IF b = C THEN <<y>> ELSE <<>>] :
        x, y \in {p, q}}

Symmetry == Permutations({A, C}) \cup Permutations({p, q})
=============================================================================
