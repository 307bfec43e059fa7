---------------------------- MODULE MCRedrawLoop ----------------------------
(* RedrawLoop for TLC. *)
EXTENDS RedrawLoop, TLC

\* Outputs are interchangeable: no action or invariant orders them.
OutputSymmetry == Permutations(Outputs)
=============================================================================
