----------------------------- MODULE TimeWindow -----------------------------
(***************************************************************************)
(* The time-based sliding window of circuit/breaker.go: NumBuckets buckets *)
(* addressed by wall-clock time modulo the window, emptied lazily by the   *)
(* next call.  A bucket's success and failure counters are modelled by the *)
(* set of outcomes they have counted.  Time is in ticks.                   *)
(***************************************************************************)
EXTENDS FailureRate, FiniteSets, FiniteSetsExt

CONSTANTS NumBuckets,      \* NumBuckets (10 in the code)
          BucketDuration,  \* Breaker.bucketDuration
          MaxTime,         \* bound: the clock stops here
          MaxOutcomes      \* bound: calls that report

ASSUME TimeWindowAssumption ==
    /\ NumBuckets \in Nat \ {0}
    /\ BucketDuration \in Nat \ {0}
    /\ MaxTime \in Nat
    /\ MaxOutcomes \in Nat

VARIABLES now,             \* the clock
          buckets,         \* Breaker.buckets
          lastUpdateTime,  \* Breaker.lastUpdateTime
          state,           \* Breaker.state, with HalfOpen folded into Open
          reported,        \* ghost: calls that have reported, which numbers them
          history,         \* ghost: every outcome since the last clear
          dense            \* ghost: since then, two came within a bucket's time

vars == <<now, buckets, lastUpdateTime, state, reported, history, dense>>

Indices == 0 .. NumBuckets - 1

WindowDuration == NumBuckets * BucketDuration

Never == -1   \* time.Time{}

Outcomes == [id : 1 .. MaxOutcomes, at : 0 .. MaxTime, success : BOOLEAN]

NoBuckets == [i \in Indices |-> {}]

\* getBucketIdx.
BucketIdx(t) == (t \div BucketDuration) % NumBuckets

Held == UNION Range(buckets)

FailuresIn(S) == {o \in S : ~o.success}

Init ==
    /\ now = 0
    /\ buckets = NoBuckets
    /\ lastUpdateTime = Never
    /\ state = "Closed"
    /\ reported = 0
    /\ history = {}
    /\ dense = FALSE

-----------------------------------------------------------------------------
\* The buckets from the one after `from` round to `to`, at least one of them.
BucketsAfter(from, to) ==
    {(from + k) % NumBuckets : k \in 1 .. ((to - from + NumBuckets - 1) % NumBuckets) + 1}

\* The call comes less than a bucket's time after the one before it.
TooSoon == lastUpdateTime # Never /\ now - lastUpdateTime < BucketDuration

\* Mutants of Advanced: the bucket of the last update is emptied too; the
\* bucket about to be written is not emptied; a gap of more than a window is
\* taken round the ring like any other.
AdvancedFromLast ==
    IF lastUpdateTime = Never \/ TooSoon THEN buckets
    ELSE IF now - lastUpdateTime > WindowDuration THEN NoBuckets
    ELSE [i \in Indices |->
            IF i \in {BucketIdx(lastUpdateTime)}
                     \cup BucketsAfter(BucketIdx(lastUpdateTime), BucketIdx(now))
            THEN {} ELSE buckets[i]]

AdvancedSparingCurrent ==
    IF lastUpdateTime = Never \/ TooSoon THEN buckets
    ELSE IF now - lastUpdateTime > WindowDuration THEN NoBuckets
    ELSE [i \in Indices |->
            IF i \in BucketsAfter(BucketIdx(lastUpdateTime), BucketIdx(now))
                     \ {BucketIdx(now)}
            THEN {} ELSE buckets[i]]

AdvancedRoundTheRing ==
    IF lastUpdateTime = Never \/ TooSoon THEN buckets
    ELSE [i \in Indices |->
            IF i \in BucketsAfter(BucketIdx(lastUpdateTime), BucketIdx(now))
            THEN {} ELSE buckets[i]]

\* advanceTimeBasedWindow: nothing happens on a gap shorter than one bucket.
Advanced ==
    IF lastUpdateTime = Never \/ TooSoon THEN buckets
    ELSE IF now - lastUpdateTime > WindowDuration THEN NoBuckets
    ELSE [i \in Indices |->
            IF i \in BucketsAfter(BucketIdx(lastUpdateTime), BucketIdx(now))
            THEN {} ELSE buckets[i]]

\* clearWindow, called by transitionToOpen and transitionToClosed.
Clear(newState) ==
    /\ state' = newState
    /\ buckets' = NoBuckets
    /\ lastUpdateTime' = Never
    /\ history' = {}
    /\ dense' = FALSE

\* Mutant of Complete: the rate is that of the window before the new outcome.
CompleteCheckingFirst(success) ==
    /\ reported < MaxOutcomes
    /\ reported' = reported + 1
    /\ LET o == [id |-> reported', at |-> now, success |-> success]
       IN  IF state = "Closed" /\ ShouldTrip(Cardinality(Held), Cardinality(FailuresIn(Held)))
           THEN Clear("Open")
           ELSE /\ buckets' = [Advanced EXCEPT ![BucketIdx(now)] = @ \cup {o}]
                /\ lastUpdateTime' = now
                /\ history' = history \cup {o}
                /\ dense' = (dense \/ TooSoon)
                /\ UNCHANGED state
    /\ UNCHANGED now

\* onSuccess and onFailure of a call admitted in Closed: recordTimeBased, then
\* checkFailureRate, whose own advance finds nothing to do at the same instant.
Complete(success) ==
    /\ reported < MaxOutcomes
    /\ reported' = reported + 1
    /\ LET o      == [id |-> reported', at |-> now, success |-> success]
           filled == [Advanced EXCEPT ![BucketIdx(now)] = @ \cup {o}]
           held   == UNION Range(filled)
       IN  IF state = "Closed" /\ ShouldTrip(Cardinality(held), Cardinality(FailuresIn(held)))
           THEN Clear("Open")
           ELSE /\ buckets' = filled
                /\ lastUpdateTime' = now
                /\ history' = history \cup {o}
                /\ dense' = (dense \/ TooSoon)
                /\ UNCHANGED state
    /\ UNCHANGED now

\* The verdict of the probes, a stale probe, or Reset.
Decide ==
    /\ \E newState \in {"Open", "Closed"} : Clear(newState)
    /\ UNCHANGED <<now, reported>>

Tick ==
    /\ now < MaxTime
    /\ now' = now + 1
    /\ UNCHANGED <<buckets, lastUpdateTime, state, reported, history, dense>>

Next == (\E success \in BOOLEAN : Complete(success)) \/ Decide \/ Tick

Spec == Init /\ [][Next]_vars

-----------------------------------------------------------------------------
(* Properties. *)

\* Outcomes are held in one bucket each, that of the time they came in, and
\* nothing is held that was not reported since the last clear.
TypeOK ==
    /\ now \in 0 .. MaxTime
    /\ lastUpdateTime \in {Never} \cup 0 .. now
    /\ state \in {"Closed", "Open"}
    /\ buckets \in [Indices -> SUBSET history]
    /\ history \subseteq Outcomes
    /\ reported \in 0 .. MaxOutcomes
    /\ dense \in BOOLEAN
    /\ \A i \in Indices : \A o \in buckets[i] : BucketIdx(o.at) = i

\* advanceTimeBasedWindow never drops an outcome that is certainly in the
\* window: one younger than the window less the bucket being refilled.
NoRecentLoss ==
    lastUpdateTime # Never =>
        \A o \in history : lastUpdateTime - o.at <= WindowDuration - BucketDuration => o \in Held

\* A Closed breaker is below the failure rate of what its buckets hold.
ClosedBelowThreshold ==
    state = "Closed" => ~ShouldTrip(Cardinality(Held), Cardinality(FailuresIn(Held)))

\* breaker.go:37 and sliding-window-circuit-breakers.md:29: when a call has just
\* been recorded, what counts are the calls of the last WindowDuration.
OnlyRecentCounted ==
    \A o \in Held : lastUpdateTime - o.at <= WindowDuration

\* Under traffic no denser than one call per bucket the loop of
\* advanceTimeBasedWindow, wrap-around and a gap of exactly WindowDuration
\* included, leaves nothing older than the window in the buckets.
OnlyRecentCountedWhenSparse == ~dense => OnlyRecentCounted

-----------------------------------------------------------------------------
(* Refinement of TimeContract. *)

Contract == INSTANCE TimeContract

\* With the ring and the time of its last advance hidden, every call is judged
\* on all the outcomes that are certainly recent and, when calls are sparse, on
\* none older than the window; only that judgement opens the breaker.
RefinesTimeContract == Contract!Spec

=============================================================================
