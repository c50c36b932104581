-------------------------- MODULE MCMarketingContent --------------------------
(* Instances of MarketingContent for TLC. *)
EXTENDS MarketingContent, TLC

Symmetry == Permutations(Admins) \cup Permutations(Payloads \ {Original})
=============================================================================
