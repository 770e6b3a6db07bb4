--------------------------- MODULE MCOrderHandoff ---------------------------
(* Instances of OrderHandoff for TLC. *)
EXTENDS OrderHandoff
=============================================================================
