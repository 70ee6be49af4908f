---------------------------- MODULE MCProviderAuth ----------------------------
(* Small instances of ProviderAuth for TLC. *)
EXTENDS ProviderAuth, TLC

Symmetry == Permutations(Provider) \cup Permutations(Request) \cup Permutations(SubId)

=============================================================================
