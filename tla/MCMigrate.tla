----------------------------- MODULE MCMigrate -----------------------------
(* Migration of every kind of database, with crashes. *)
EXTENDS Migrate
=============================================================================
