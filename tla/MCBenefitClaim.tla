--------------------------- MODULE MCBenefitClaim ---------------------------
(* Instances of BenefitClaim for TLC. *)
EXTENDS BenefitClaim
=============================================================================
