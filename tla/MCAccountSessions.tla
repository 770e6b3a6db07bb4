-------------------------- MODULE MCAccountSessions --------------------------
(* Instances of AccountSessions for TLC. *)
EXTENDS AccountSessions, TLC

(* Tokens, handlers and requests are interchangeable. *)
SessionSymmetry == Permutations(Tokens) \cup Permutations(Handlers)
=============================================================================
