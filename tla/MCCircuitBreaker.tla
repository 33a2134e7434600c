-------------------------- MODULE MCCircuitBreaker --------------------------
(* Instances of CircuitBreaker for TLC; the bounds are set in the .cfg files. *)
EXTENDS CircuitBreaker, TLC

CONSTANTS c1, c2, c3

TwoCalls == {c1, c2}
ThreeCalls == {c1, c2, c3}

\* Callers are interchangeable: no action or property names one of them.
\* Used by runs without liveness properties.
CallerSymmetry == Permutations(Calls)

=============================================================================
