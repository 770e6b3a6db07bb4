-------------------------- MODULE MCOrderRequests --------------------------
(* Instances of OrderRequests for TLC. *)
EXTENDS OrderRequests

(* Four failures with a single tab, one with two tabs. *)
FaultBounds == <<4, 1>>
=============================================================================
