--------------------------- MODULE MCSignupLimit ---------------------------
(* SignupLimit on a small instance. *)
EXTENDS SignupLimit, TLC

SignupSymmetry == Permutations(Requests)
=============================================================================
