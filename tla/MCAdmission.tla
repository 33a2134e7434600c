---------------------------- MODULE MCAdmission ----------------------------
(* An instance of Admission for TLC; the bounds are set in the .cfg file. *)
EXTENDS Admission, TLC

CONSTANTS low, critical

\* Low is shed from one slot on, critical has the whole bulkhead.
LowShed == [p \in Priorities |-> IF p = low THEN 1 ELSE Capacity]

\* Callers are interchangeable.
CallerSymmetry == Permutations(Callers)

=============================================================================
