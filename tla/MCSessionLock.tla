---------------------------- MODULE MCSessionLock ----------------------------
(* SessionLock for TLC. *)
EXTENDS SessionLock, TLC

\* Outputs and lock objects are interchangeable.
LockSymmetry == Permutations(Outputs) \cup Permutations(Lockers)
=============================================================================
