-------------------------- MODULE MCArticleReading --------------------------
(* Instances of ArticleReading for TLC. *)
EXTENDS ArticleReading, TLC

Symmetry == Permutations(Posts) \cup Permutations(Slugs)
=============================================================================
