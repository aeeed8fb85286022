----------------------------- MODULE MCMigrate -----------------------------
(* Migrate on a small instance: two runs at a time, as many files as the
   repository has. *)
EXTENDS Migrate
=============================================================================
