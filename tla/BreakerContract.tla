-------------------------- MODULE BreakerContract --------------------------
(***************************************************************************)
(* What a count-based circuit breaker promises, without its ring, its      *)
(* counters, its clock or its callers: it remembers the last WindowSize    *)
(* outcomes since it last changed its mind, opens in the step in which     *)
(* they reach the failure rate, probes only from Open, and forgets the     *)
(* outcomes with every verdict.                                            *)
(***************************************************************************)
EXTENDS Integers, Sequences, FiniteSets

CONSTANTS WindowSize, MinimumCalls, FailureRateThreshold

VARIABLES state,    \* the breaker's state
          recent    \* the remembered outcomes, oldest first

vars == <<state, recent>>

Failures(s) == Cardinality({i \in DOMAIN s : ~s[i]})

TooManyFailures(s) ==
    /\ Len(s) >= MinimumCalls
    /\ 100 * Failures(s) >= FailureRateThreshold * Len(s)

\* The last WindowSize elements of s.
Newest(s) == SubSeq(s, IF Len(s) > WindowSize THEN Len(s) - WindowSize + 1 ELSE 1, Len(s))

Init == state = "Closed" /\ recent = <<>>

\* A call that was admitted in Closed reports its outcome.
Outcome(success) ==
    LET next == Newest(Append(recent, success))
    IN  IF state = "Closed" /\ TooManyFailures(next)
        THEN state' = "Open" /\ recent' = <<>>
        ELSE recent' = next /\ UNCHANGED state

\* Probing starts from Open and nowhere else.
Probe == state = "Open" /\ state' = "HalfOpen" /\ UNCHANGED recent

\* The probes' verdict, or an operator's Reset.
Verdict == state' \in {"Open", "Closed"} /\ recent' = <<>>

Next == (\E success \in BOOLEAN : Outcome(success)) \/ Probe \/ Verdict

Spec == Init /\ [][Next]_vars

=============================================================================
