---------------------------- MODULE MCCheckPath ----------------------------
(* Model-checking instance of CheckPath, and through it of RuleCache. *)
EXTENDS CheckPath
=============================================================================
