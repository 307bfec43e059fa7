--------------------------- MODULE MCTransactions ---------------------------
(***************************************************************************)
(* Transactions on small instances.                                        *)
(***************************************************************************)
EXTENDS Transactions, TLC

\* Windows that agree on having fences, and sizes, differ in nothing.
WindowSymmetry ==
    {f \in Permutations(Windows) : \A w \in Fenced : f[w] \in Fenced}
    \cup Permutations(Sizes)
=============================================================================
