----------------------------- MODULE MCAbuseGuard -----------------------------
(***************************************************************************)
(* One kind of endpoint, one request allowed in a window.  The other kinds *)
(* differ in the name of the bucket only.                                  *)
(***************************************************************************)
EXTENDS AbuseGuard, TLC

OneEach == [k \in {"public"} |-> 1]

Symmetry == Permutations(Slot)

=============================================================================
