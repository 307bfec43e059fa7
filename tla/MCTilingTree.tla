---------------------------- MODULE MCTilingTree ----------------------------
(* A small tree for TLC. *)
EXTENDS TilingTree, TLC

Symmetry == Permutations(Windows)

=============================================================================
