-------------------------- MODULE MCMediaMigration --------------------------
(* Instances of MediaMigration for TLC. *)
EXTENDS MediaMigration
=============================================================================
