---------------------------- MODULE FailureRate ----------------------------
(* The test both sliding windows of circuit/breaker.go end in. *)
EXTENDS Integers

CONSTANTS MinimumCalls,          \* Config.MinimumCalls
          FailureRateThreshold   \* Config.FailureRateThreshold, whole percent

\* New replaces a zero minimum and a threshold outside (0, 100].
ASSUME FailureRateAssumption ==
    /\ MinimumCalls \in Nat \ {0}
    /\ FailureRateThreshold \in 1..100

\* checkFailureRate's condition; the code divides in float64, see the README.
ShouldTrip(total, failures) ==
    /\ total >= MinimumCalls
    /\ 100 * failures >= FailureRateThreshold * total

=============================================================================
