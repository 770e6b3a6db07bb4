--------------------------- MODULE MCArticleOrders ---------------------------
(* Instances of ArticleOrders for TLC. *)
EXTENDS ArticleOrders, TLC

(* Requests and orders are interchangeable in the safety properties. *)
ArticleSymmetry == Permutations(Orders) \cup Permutations(Requests) \cup Permutations(Readers)
=============================================================================
