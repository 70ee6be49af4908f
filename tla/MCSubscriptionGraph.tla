------------------------- MODULE MCSubscriptionGraph -------------------------
(* Small instances of SubscriptionGraph for TLC. *)
EXTENDS SubscriptionGraph, TLC

Symmetry == Permutations(Token) \cup Permutations(Request)

=============================================================================
