--------------------------- MODULE MCManagedMedia ---------------------------
(* Instances of ManagedMedia for TLC. *)
EXTENDS ManagedMedia
=============================================================================
