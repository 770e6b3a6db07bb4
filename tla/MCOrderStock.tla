---------------------------- MODULE MCOrderStock ----------------------------
(* Instances of OrderStock for TLC. *)
EXTENDS OrderStock, TLC

(* Orders and admin requests are interchangeable in the safety properties. *)
StockSymmetry == Permutations(Orders) \cup Permutations(Staff)

(* Unlimited, sold out, one unit. *)
FewUnits == {-1, 0, 1}
=============================================================================
