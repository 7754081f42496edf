--------------------------- MODULE MCOverlayLease ---------------------------
(* Nodes that take an address from the pool are alike.                      *)
EXTENDS OverlayLease, TLC

Symmetry == Permutations(Node \ Static)

=============================================================================
