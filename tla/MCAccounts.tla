----------------------------- MODULE MCAccounts -----------------------------
(* Accounts on small instances. *)
EXTENDS Accounts, TLC

AccountsSymmetry ==
  Permutations(Requests) \cup Permutations(Names) \cup Permutations(Hashes)
=============================================================================
