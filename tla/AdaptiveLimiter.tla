--------------------------- MODULE AdaptiveLimiter ---------------------------
(***************************************************************************)
(* The adaptive concurrency limiter of adaptive_concurrency.go.  Callers   *)
(* count themselves in, compare what they saw with the limit, run, feed    *)
(* the round trip time into the limit under the mutex, and count           *)
(* themselves out; the counter and the limit are atomics outside it.       *)
(* Round trip times are whole numbers; products with the code's constants  *)
(* are cut as its conversions to Duration and int32 cut them.              *)
(***************************************************************************)
EXTENDS Integers, Sequences, FiniteSets

CONSTANTS Callers,
          InitialLimit,    \* maxConcurrency at first (10 in the code)
          MinConcurrency,  \* minConcurrency (1 in the code)
          RTTs,            \* the round trip times considered
          MayDecay,        \* whether decayInterval may have passed
          HealthCap,       \* capacity of healthCh (10 in Health())
          MaxLimit         \* bound: the limit is followed up to here

ASSUME LimiterAssumption ==
    /\ IsFiniteSet(Callers)
    /\ MinConcurrency \in Nat \ {0}
    /\ InitialLimit \in Nat /\ InitialLimit >= MinConcurrency
    /\ RTTs \subseteq Nat
    /\ MayDecay \in BOOLEAN
    /\ HealthCap \in Nat \ {0}
    /\ MaxLimit \in Nat /\ MaxLimit >= InitialLimit

VARIABLES current,   \* currentConcurrency
          max,       \* maxConcurrency
          prev,      \* prevMaxConcurrency
          rtt,       \* minBaselineRTT and rttEWMA
          phase,     \* per caller: idle, counted, running, leaving
          seen,      \* per caller: the count its own increment returned
          health,    \* healthChInit, healthCh, and what its reader knows
          peak       \* ghost: the highest limit there has been

vars == <<current, max, prev, rtt, phase, seen, health, peak>>

Init ==
    /\ current = 0
    /\ max = InitialLimit
    /\ prev = InitialLimit
    /\ rtt = [base |-> 0, ewma |-> 0]
    /\ phase = [c \in Callers |-> "idle"]
    /\ seen = [c \in Callers |-> 0]
    /\ health = [init |-> FALSE, ch |-> <<>>, last |-> "nothing", missed |-> FALSE]
    /\ peak = InitialLimit

-----------------------------------------------------------------------------
(* Admission. *)

\* atomic.AddInt32(&currentConcurrency, 1).
Enter(c) ==
    /\ phase[c] = "idle"
    /\ current' = current + 1
    /\ phase' = [phase EXCEPT ![c] = "counted"]
    /\ seen' = [seen EXCEPT ![c] = current + 1]
    /\ UNCHANGED <<max, prev, rtt, health, peak>>

\* Mutant of Admit: the comparison lets one caller too many in.
AdmitOneMore(c) ==
    /\ phase[c] = "counted"
    /\ seen[c] <= max + 1
    /\ phase' = [phase EXCEPT ![c] = "running"]
    /\ UNCHANGED <<current, max, prev, rtt, seen, health, peak>>

\* The limit is loaded after the increment; it may have moved in between.
Admit(c) ==
    /\ phase[c] = "counted"
    /\ seen[c] <= max
    /\ phase' = [phase EXCEPT ![c] = "running"]
    /\ UNCHANGED <<current, max, prev, rtt, seen, health, peak>>

\* ErrShedLoad; the deferred decrement is still to come.
Shed(c) ==
    /\ phase[c] = "counted"
    /\ seen[c] > max
    /\ phase' = [phase EXCEPT ![c] = "leaving"]
    /\ UNCHANGED <<current, max, prev, rtt, seen, health, peak>>

\* Mutant of Leave: a caller that was shed is not counted out.
LeaveUncounted(c) ==
    /\ phase[c] = "leaving"
    /\ current' = IF seen[c] > max THEN current ELSE current - 1
    /\ phase' = [phase EXCEPT ![c] = "idle"]
    /\ seen' = [seen EXCEPT ![c] = 0]
    /\ UNCHANGED <<max, prev, rtt, health, peak>>

\* The deferred atomic.AddInt32(&currentConcurrency, -1).
Leave(c) ==
    /\ phase[c] = "leaving"
    /\ current' = current - 1
    /\ phase' = [phase EXCEPT ![c] = "idle"]
    /\ seen' = [seen EXCEPT ![c] = 0]
    /\ UNCHANGED <<max, prev, rtt, health, peak>>

\* A panic in the action skips the update but not the decrement.
Panic(c) ==
    /\ phase[c] = "running"
    /\ phase' = [phase EXCEPT ![c] = "leaving"]
    /\ UNCHANGED <<current, max, prev, rtt, seen, health, peak>>

-----------------------------------------------------------------------------
(* Feedback. *)

\* emitStateEvent: dropped when the channel is full.
Emit(event) ==
    health' = IF ~health.init THEN health
              ELSE IF Len(health.ch) < HealthCap
                   THEN [health EXCEPT !.ch = Append(@, event), !.missed = FALSE]
                   ELSE [health EXCEPT !.missed = TRUE]

\* The first measurement sets the baseline and moves nothing else.
FirstMeasurement(r) ==
    /\ rtt.base = 0
    /\ rtt' = [base |-> r, ewma |-> r]
    /\ UNCHANGED <<max, prev, health, peak>>

\* Baseline and average after a measurement; the baseline creeps up by 5% when
\* decayInterval has passed, and a faster round trip replaces it.
Measured(r, decayed) ==
    LET base == IF decayed THEN (rtt.base * 105) \div 100 ELSE rtt.base
    IN  [base |-> IF r < base THEN r ELSE base, ewma |-> (9 * rtt.ewma + r) \div 10]

\* Mutant of Calm: the average has to be below the baseline itself.
CalmBelowBaseline(m) == m.ewma < m.base

\* No queueing: the average is less than 1.5 baselines.
Calm(m) == 2 * m.ewma < 3 * m.base

\* Additive increase; every increase is announced.
Increase(r, decayed) ==
    /\ rtt.base # 0
    /\ rtt' = Measured(r, decayed)
    /\ Calm(rtt')
    /\ max' = IF max < MaxLimit THEN max + 1 ELSE max
    /\ peak' = IF max' > peak THEN max' ELSE peak
    /\ IF max' > prev THEN Emit("Healthy") ELSE UNCHANGED health
    /\ prev' = max'

\* Mutants of Decrease: the previous limit is not kept up to date; the new
\* limit is rounded up.
DecreaseKeepingPrev(r, decayed) ==
    /\ rtt.base # 0
    /\ rtt' = Measured(r, decayed)
    /\ ~Calm(rtt')
    /\ max' = IF 8 * max < 10 * MinConcurrency THEN MinConcurrency ELSE (8 * max) \div 10
    /\ IF 2 * max' <= prev THEN Emit("Degraded") ELSE UNCHANGED health
    /\ UNCHANGED <<prev, peak>>

DecreaseRounding(r, decayed) ==
    /\ rtt.base # 0
    /\ rtt' = Measured(r, decayed)
    /\ ~Calm(rtt')
    /\ max' = IF 8 * max < 10 * MinConcurrency THEN MinConcurrency ELSE (8 * max + 9) \div 10
    /\ IF 2 * max' <= prev THEN Emit("Degraded") ELSE UNCHANGED health
    /\ prev' = max'
    /\ UNCHANGED peak

\* Multiplicative decrease by 20%, cut to a whole number, not below the floor;
\* it is announced when it halves the limit, which only the step to 1 does.
Decrease(r, decayed) ==
    /\ rtt.base # 0
    /\ rtt' = Measured(r, decayed)
    /\ ~Calm(rtt')
    /\ max' = IF 8 * max < 10 * MinConcurrency THEN MinConcurrency ELSE (8 * max) \div 10
    /\ IF 2 * max' <= prev THEN Emit("Degraded") ELSE UNCHANGED health
    /\ prev' = max'
    /\ UNCHANGED peak

\* update(rtt), once the action has returned.
Update(c, r, decayed) ==
    /\ phase[c] = "running"
    /\ FirstMeasurement(r) \/ Increase(r, decayed) \/ Decrease(r, decayed)
    /\ phase' = [phase EXCEPT ![c] = "leaving"]
    /\ UNCHANGED <<current, seen>>

\* Health(): the first access creates the channel.
Subscribe ==
    /\ ~health.init
    /\ health' = [health EXCEPT !.init = TRUE]
    /\ UNCHANGED <<current, max, prev, rtt, phase, seen, peak>>

Receive ==
    /\ health.ch # <<>>
    /\ health' = [health EXCEPT !.ch = Tail(@), !.last = Head(health.ch)]
    /\ UNCHANGED <<current, max, prev, rtt, phase, seen, peak>>

Completes(c) ==
    \E r \in RTTs, decayed \in {FALSE} \cup (IF MayDecay THEN {TRUE} ELSE {}) : Update(c, r, decayed)

Next ==
    \/ \E c \in Callers : \/ Enter(c) \/ Admit(c) \/ Shed(c) \/ Leave(c)
                          \/ Panic(c) \/ Completes(c)
    \/ Subscribe \/ Receive

Spec == Init /\ [][Next]_vars

-----------------------------------------------------------------------------
(* Properties. *)

Inside == {c \in Callers : phase[c] # "idle"}

Running == {c \in Callers : phase[c] = "running"}

TypeOK ==
    /\ current \in 0 .. Cardinality(Callers)
    /\ max \in 0 .. MaxLimit /\ prev \in 0 .. MaxLimit /\ peak \in 0 .. MaxLimit
    /\ rtt \in [base : Nat, ewma : Nat]
    /\ phase \in [Callers -> {"idle", "counted", "running", "leaving"}]
    /\ seen \in [Callers -> 0 .. Cardinality(Callers)]
    /\ health \in [init : BOOLEAN, ch : Seq({"Healthy", "Degraded"}),
                   last : {"Healthy", "Degraded", "nothing"}, missed : BOOLEAN]
    /\ Len(health.ch) <= HealthCap

\* Every way out of Execute, shedding and panics included, gives the count
\* back: otherwise the limiter would shed for ever at a limit nobody uses.
CountExact == current = Cardinality(Inside)

\* Counting in and loading the limit are two steps, and the limit moves between
\* them; still no more actions run at once than the highest limit so far.
AdmittedWithinPeak == Cardinality(Running) <= peak

\* The limit never sinks below its floor, so that a caller that is alone gets in.
NeverShutsOff == max >= MinConcurrency

\* A monitor whose last news is Degraded, with nothing dropped since, knows the
\* limit: every later increase, and no other decrease, would have been announced.
DegradedIsCurrent ==
    health.last = "Degraded" /\ health.ch = <<>> /\ ~health.missed => max = MinConcurrency

AlwaysCompleting == []<><<\E c \in Callers : Completes(c)>>_vars

\* From some time on every measurement is at least twice, respectively at most,
\* the baseline it is held against.
OnlySlow ==
    <>[][\A c \in Callers, r \in RTTs, d \in BOOLEAN : Update(c, r, d) => r >= 2 * rtt.base]_vars
OnlyFast ==
    <>[][\A c \in Callers, r \in RTTs, d \in BOOLEAN : Update(c, r, d) => r <= rtt.base]_vars

\* While latency stays at twice the baseline the limit comes down to the floor
\* and stays there: neither the averaging nor the cutting stops it on the way.
BacksOff == AlwaysCompleting /\ OnlySlow => <>[](max = MinConcurrency)

\* While latency stays at the baseline the limit goes up without end (here to
\* the bound), however low it has been pushed and whatever the average has seen.
GrowsBack == AlwaysCompleting /\ OnlyFast => <>[](max = MaxLimit)

=============================================================================
