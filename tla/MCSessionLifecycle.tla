------------------------- MODULE MCSessionLifecycle -------------------------
(* SessionLifecycle on small instances. *)
EXTENDS SessionLifecycle, TLC

\* Callers are interchangeable; used by runs without liveness.
ClientSymmetry == Permutations(Clients)
=============================================================================
