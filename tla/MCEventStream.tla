---------------------------- MODULE MCEventStream ----------------------------
(* Instances of EventStream for TLC. *)
EXTENDS EventStream, TLC

CONSTANTS c1, c2

\* c1 subscribes and goes on to make requests; c2 makes one, of any kind.
Requests == c1 :> 2 @@ c2 :> 1

Wanted == {{"tree", "tick"}}
=============================================================================
