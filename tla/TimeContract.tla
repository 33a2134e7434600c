---------------------------- MODULE TimeContract ----------------------------
(***************************************************************************)
(* What a time-based circuit breaker promises, without its ring of buckets *)
(* and the lazy clearing of them: each completed call is judged on a set   *)
(* of outcomes that holds all the recent ones, of which it may hold more   *)
(* than the window's only when calls crowd, and the breaker opens exactly  *)
(* when that set reaches the failure rate.                                 *)
(***************************************************************************)
EXTENDS Integers, FiniteSets

CONSTANTS WindowDuration, BucketDuration, MinimumCalls, FailureRateThreshold

VARIABLES now,       \* the clock
          state,     \* the breaker's state
          reported,  \* the calls that have reported
          history    \* their outcomes since the breaker last changed its mind

vars == <<now, state, reported, history>>

Failures(S) == Cardinality({o \in S : ~o.success})

TooManyFailures(S) ==
    /\ Cardinality(S) >= MinimumCalls
    /\ 100 * Failures(S) >= FailureRateThreshold * Cardinality(S)

\* The outcomes of S that came in at most `age` ago.
Within(S, age) == {o \in S : now - o.at <= age}

\* No two of the calls ended within a bucket's time of one another.
Sparse(S) ==
    \A o, p \in S : o # p => o.at - p.at >= BucketDuration \/ p.at - o.at >= BucketDuration

\* The sets a call may be judged on when all the outcomes there are form S.
Samples(S) ==
    {held \in SUBSET S : /\ Within(S, WindowDuration - BucketDuration) \subseteq held
                         /\ Sparse(S) => held \subseteq Within(S, WindowDuration)}

Init == now = 0 /\ state = "Closed" /\ reported = 0 /\ history = {}

\* A call that was admitted in Closed reports its outcome.
Outcome(success) ==
    /\ reported' = reported + 1
    /\ LET all == history \cup {[id |-> reported', at |-> now, success |-> success]}
       IN  \E held \in Samples(all) :
              IF state = "Closed" /\ TooManyFailures(held)
              THEN state' = "Open" /\ history' = {}
              ELSE history' = all /\ UNCHANGED state
    /\ UNCHANGED now

\* The probes' verdict, or an operator's Reset.
Verdict == state' \in {"Open", "Closed"} /\ history' = {} /\ UNCHANGED <<now, reported>>

Tick == now' = now + 1 /\ UNCHANGED <<state, reported, history>>

Next == (\E success \in BOOLEAN : Outcome(success)) \/ Verdict \/ Tick

Spec == Init /\ [][Next]_vars

=============================================================================
