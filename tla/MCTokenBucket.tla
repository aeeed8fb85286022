--------------------------- MODULE MCTokenBucket ---------------------------
(* Model-checking instances of TokenBucket. *)
EXTENDS TokenBucket, TLC

\* Callers differ only by name.
CallerSymmetry == Permutations(Callers)
=============================================================================
