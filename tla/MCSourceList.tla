----------------------------- MODULE MCSourceList -----------------------------
(***************************************************************************)
(* Symmetric tokens and URLs.                                              *)
(***************************************************************************)
EXTENDS SourceList

Symmetry == Permutations(Sub) \cup Permutations(Url)

=============================================================================
