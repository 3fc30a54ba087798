--------------------------- MODULE MCProviderPool ---------------------------
(* ProviderPool with two providers and short intervals for TLC. *)
EXTENDS ProviderPool

OneBackoff == <<1>>
==============================================================================
