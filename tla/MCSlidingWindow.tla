-------------------------- MODULE MCSlidingWindow --------------------------
(* Model-checking instances of SlidingWindow. *)
EXTENDS SlidingWindow, TLC

\* Callers differ only by name.
CallerSymmetry == Permutations(Callers)
=============================================================================
