---------------------------- MODULE MCWorkspaces ----------------------------
(* Two outputs, one declared workspace that belongs to the second. *)
EXTENDS Workspaces

CONSTANTS A, B

Symmetry == Permutations(Windows)
MCOpenOn == [x \in Declarable |-> B]

=============================================================================
