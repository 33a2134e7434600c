----------------------- MODULE AdaptiveLimiterProofs -----------------------
(* Theorems about AdaptiveLimiter for any number of callers, any starting   *)
(* limit and floor, and any round trip times.                               *)
EXTENDS AdaptiveLimiter, SharedLemmas, FiniteSetTheorems, TLAPS

\* What the arithmetic of the steps needs to know of the variables.
Shape ==
    /\ current \in Nat /\ max \in Nat /\ peak \in Nat
    /\ phase \in [Callers -> {"idle", "counted", "running", "leaving"}]
    /\ seen \in [Callers -> Nat]

Limits == MinConcurrency <= max /\ max <= peak

\* Of any callers inside, the one that came last saw all of them.
LastSawAll ==
    \A S \in SUBSET Inside : S # {} => \E c \in S : Cardinality(S) <= seen[c]

\* Nobody runs who saw more than some limit allowed.
RunningSawLess == \A c \in Running : seen[c] <= peak

IInv == Shape /\ CountExact /\ Limits /\ LastSawAll /\ RunningSawLess

-----------------------------------------------------------------------------
LEMMA InsideFinite == IsFiniteSet(Inside) /\ Cardinality(Inside) \in Nat
<1>1. IsFiniteSet(Inside)
  BY FS_Subset, LimiterAssumption DEF Inside
<1>. QED
  BY <1>1, FS_CardinalityType

\* Feedback moves the limit between its floor and the peak, which only grows.
LEMMA FeedbackLimits ==
    ASSUME Shape, Limits, NEW r, NEW decayed,
           FirstMeasurement(r) \/ Increase(r, decayed) \/ Decrease(r, decayed)
    PROVE  /\ max' \in Nat /\ peak' \in Nat
           /\ peak <= peak'
           /\ MinConcurrency <= max' /\ max' <= peak'
<1>. USE LimiterAssumption DEF Shape, Limits
<1>1. CASE FirstMeasurement(r)
  BY <1>1 DEF FirstMeasurement
<1>2. CASE Increase(r, decayed)
  <2>1. max' = (IF max < MaxLimit THEN max + 1 ELSE max)
        /\ peak' = (IF max' > peak THEN max' ELSE peak)
    BY <1>2 DEF Increase
  <2>. QED
    BY <2>1
<1>3. CASE Decrease(r, decayed)
  <2>1. max' = (IF 8 * max < 10 * MinConcurrency THEN MinConcurrency ELSE (8 * max) \div 10)
        /\ peak' = peak
    BY <1>3 DEF Decrease
  <2>. QED
    BY <2>1
<1>. QED
  BY <1>1, <1>2, <1>3

-----------------------------------------------------------------------------
LEMMA InitIInv == Init => IInv
<1> SUFFICES ASSUME Init PROVE IInv
  OBVIOUS
<1>1. Shape /\ Limits
  BY LimiterAssumption DEF Init, Shape, Limits
<1>2. Inside = {} /\ Running = {}
  BY DEF Init, Inside, Running
<1>3. CountExact
  BY <1>2, FS_EmptySet DEF Init, CountExact
<1>. QED
  BY <1>1, <1>2, <1>3 DEF IInv, LastSawAll, RunningSawLess

\* A newcomer sees everybody who is inside, itself included.
LEMMA EnterIInv ==
    ASSUME IInv, NEW c \in Callers, Enter(c)
    PROVE  IInv'
<1>. USE DEF IInv
<1>1. Shape' /\ Limits'
  BY DEF Enter, Shape, Limits
<1>2. Inside' = Inside \cup {c} /\ c \notin Inside /\ Running' = Running
  BY DEF Enter, Shape, Inside, Running
<1>3. Cardinality(Inside') = Cardinality(Inside) + 1 /\ IsFiniteSet(Inside')
  BY <1>2, InsideFinite, FS_AddElement
<1>4. CountExact'
  BY <1>3 DEF Enter, CountExact
<1>5. LastSawAll'
  <2> SUFFICES ASSUME NEW S \in SUBSET Inside', S # {}
               PROVE  \E d \in S : Cardinality(S) <= seen'[d]
    BY DEF LastSawAll
  <2>1. CASE c \in S
    <3>1. Cardinality(S) <= Cardinality(Inside')
      BY <1>3, FS_Subset
    <3>2. seen'[c] = Cardinality(Inside')
      BY <1>3 DEF Enter, Shape, CountExact
    <3>. QED
      BY <2>1, <3>1, <3>2
  <2>2. CASE c \notin S
    <3>1. S \in SUBSET Inside
      BY <1>2, <2>2
    <3>2. \A d \in S : seen'[d] = seen[d]
      BY <2>2, <3>1 DEF Enter, Shape, Inside
    <3>. QED
      BY <3>1, <3>2 DEF LastSawAll
  <2>. QED
    BY <2>1, <2>2
<1>6. RunningSawLess'
  <2>1. \A d \in Running : d \in Inside /\ d # c
    BY <1>2 DEF Running, Inside
  <2>2. \A d \in Running : seen'[d] = seen[d]
    BY <2>1 DEF Enter, Shape, Running
  <2>. QED
    BY <1>2, <2>2 DEF Enter, RunningSawLess
<1>. QED
  BY <1>1, <1>4, <1>5, <1>6

\* A caller that leaves takes its own count with it.
LEMMA LeaveIInv ==
    ASSUME IInv, NEW c \in Callers, Leave(c)
    PROVE  IInv'
<1>. USE DEF IInv
<1>1. Inside' = Inside \ {c} /\ c \in Inside /\ Running' = Running /\ c \notin Running
  BY DEF Leave, Shape, Inside, Running
<1>2. Cardinality(Inside') = Cardinality(Inside) - 1 /\ Cardinality(Inside') \in Nat
  BY <1>1, InsideFinite, FS_RemoveElement, FS_CardinalityType
<1>3. CountExact' /\ Shape' /\ Limits'
  BY <1>2 DEF Leave, CountExact, Shape, Limits
<1>4. \A d \in Callers : d # c => seen'[d] = seen[d]
  BY DEF Leave, Shape
<1>5. LastSawAll'
  <2> SUFFICES ASSUME NEW S \in SUBSET Inside', S # {}
               PROVE  \E d \in S : Cardinality(S) <= seen'[d]
    BY DEF LastSawAll
  <2>1. S \in SUBSET Inside /\ \A d \in S : seen'[d] = seen[d]
    BY <1>1, <1>4 DEF Inside
  <2>. QED
    BY <2>1 DEF LastSawAll
<1>6. RunningSawLess'
  BY <1>1, <1>4 DEF Leave, RunningSawLess, Running
<1>. QED
  BY <1>3, <1>5, <1>6

\* The steps in between change neither who is inside nor what they saw.
LEMMA BetweenIInv ==
    ASSUME IInv, NEW c \in Callers,
           \/ Admit(c) \/ Shed(c) \/ Panic(c)
           \/ \E r \in RTTs, decayed \in BOOLEAN : Update(c, r, decayed)
    PROVE  IInv'
<1>. USE DEF IInv
<1>1. current' = current /\ seen' = seen
  BY DEF Admit, Shed, Panic, Update
<1>2. Inside' = Inside /\ phase' \in [Callers -> {"idle", "counted", "running", "leaving"}]
  BY DEF Admit, Shed, Panic, Update, Shape, Inside
<1>3. max' \in Nat /\ peak' \in Nat /\ peak <= peak' /\ Limits'
  <2>1. CASE Admit(c) \/ Shed(c) \/ Panic(c)
    BY <2>1 DEF Admit, Shed, Panic, Shape, Limits
  <2>2. CASE \E r \in RTTs, decayed \in BOOLEAN : Update(c, r, decayed)
    BY <2>2, FeedbackLimits DEF Update, Limits
  <2>. QED
    BY <2>1, <2>2
<1>4. Shape' /\ CountExact' /\ LastSawAll'
  BY <1>1, <1>2, <1>3 DEF Shape, CountExact, LastSawAll
<1>5. \A d \in Running' : d \in Running \/ seen[d] <= max
  BY DEF Admit, Shed, Panic, Update, Shape, Running
<1>6. RunningSawLess'
  <2> SUFFICES ASSUME NEW d \in Running' PROVE seen[d] <= peak'
    BY <1>1 DEF RunningSawLess
  <2>1. d \in Callers /\ seen[d] \in Nat
    BY DEF Running, Shape
  <2>2. seen[d] <= peak
    BY <1>5, <2>1 DEF RunningSawLess, Shape, Limits
  <2>. QED
    BY <1>3, <2>1, <2>2 DEF Shape
<1>. QED
  BY <1>3, <1>4, <1>6

\* The monitor touches the health channel only.
LEMMA MonitorIInv ==
    ASSUME IInv, Subscribe \/ Receive \/ UNCHANGED vars
    PROVE  IInv'
<1>1. UNCHANGED <<current, max, phase, seen, peak>>
  BY DEF Subscribe, Receive, vars
<1>. QED
  BY <1>1 DEF IInv, Shape, CountExact, Limits, LastSawAll, RunningSawLess, Inside, Running

THEOREM Invariance == Spec => []IInv
<1>1. IInv /\ [Next]_vars => IInv'
  <2> SUFFICES ASSUME IInv, [Next]_vars PROVE IInv'
    OBVIOUS
  <2>1. ASSUME NEW c \in Callers, Completes(c)
        PROVE  \E r \in RTTs, decayed \in BOOLEAN : Update(c, r, decayed)
    BY <2>1 DEF Completes
  <2>. QED
    BY <2>1, EnterIInv, LeaveIInv, BetweenIInv, MonitorIInv DEF Next
<1>. QED
  BY <1>1, InitIInv, PTL DEF Spec

-----------------------------------------------------------------------------
\* currentConcurrency is at all times the number of callers inside Execute,
\* however they leave it.
THEOREM CountExactCorrect == Spec => []CountExact
<1>1. IInv => CountExact
  BY DEF IInv
<1>. QED
  BY <1>1, Invariance, PTL

\* The limit never sinks below its floor.
THEOREM NeverShutsOffCorrect == Spec => []NeverShutsOff
<1>1. IInv => NeverShutsOff
  BY LimiterAssumption DEF IInv, Shape, Limits, NeverShutsOff
<1>. QED
  BY <1>1, Invariance, PTL

\* However the limit moves between a caller's increment and its comparison, no
\* more actions run at once than the highest limit so far.
THEOREM AdmittedWithinPeakCorrect == Spec => []AdmittedWithinPeak
<1>1. IInv => AdmittedWithinPeak
  <2> SUFFICES ASSUME IInv PROVE Cardinality(Running) <= peak
    BY DEF AdmittedWithinPeak
  <2>. USE DEF IInv
  <2>1. CASE Running = {}
    BY <2>1, FS_EmptySet DEF Shape
  <2>2. CASE Running # {}
    <3>1. Running \in SUBSET Inside
      BY DEF Running, Inside
    <3>2. PICK c \in Running : Cardinality(Running) <= seen[c]
      BY <2>2, <3>1 DEF LastSawAll
    <3>3. seen[c] <= peak /\ seen[c] \in Nat
      BY DEF RunningSawLess, Running, Shape
    <3>4. Cardinality(Running) \in Nat
      BY <3>1, InsideFinite, FS_Subset, FS_CardinalityType
    <3>. QED
      BY <3>2, <3>3, <3>4 DEF Shape
  <2>. QED
    BY <2>1, <2>2
<1>. QED
  BY <1>1, Invariance, PTL

-----------------------------------------------------------------------------
(* What the health channel tells. *)

Events == {"Healthy", "Degraded"}

HealthShape ==
    /\ health \in [init : BOOLEAN, ch : Seq(Events), last : Events \cup {"nothing"},
                   missed : BOOLEAN]
    /\ Len(health.ch) <= HealthCap
    /\ ~health.init => health.ch = <<>> /\ health.last = "nothing"

Measurements == prev = max /\ max <= MaxLimit /\ peak <= MaxLimit
                /\ rtt \in [base : Nat, ewma : Nat]

\* The newest event is Degraded, and nothing was dropped after it.
Warned ==
    /\ ~health.missed
    /\ IF health.ch = <<>> THEN health.last = "Degraded"
                           ELSE health.ch[Len(health.ch)] = "Degraded"

WarningHolds == Warned => max = MinConcurrency

\* A caller saw no more callers than there are.
SeenBounded == \A c \in Callers : seen[c] <= Cardinality(Callers)

TInv == IInv /\ HealthShape /\ Measurements /\ SeenBounded

\* After an emission the newest event is that one, unless it was dropped.
LEMMA EmitNews ==
    ASSUME HealthShape, NEW e \in Events, Emit(e)
    PROVE  HealthShape' /\ (Warned' => e = "Degraded")
<1>1. CASE ~health.init
  BY <1>1 DEF HealthShape, Emit, Warned
<1>2. CASE health.init /\ Len(health.ch) < HealthCap
  <2>1. health' = [health EXCEPT !.ch = Append(@, e), !.missed = FALSE]
    BY <1>2 DEF Emit
  <2>2. health.ch \in Seq(Events) /\ Len(health.ch) \in Nat
    BY DEF HealthShape
  <2>3. /\ Append(health.ch, e) \in Seq(Events)
        /\ Len(Append(health.ch, e)) = Len(health.ch) + 1
        /\ Append(health.ch, e) # <<>>
        /\ Append(health.ch, e)[Len(Append(health.ch, e))] = e
    BY <2>2
  <2>4. /\ health' \in [init : BOOLEAN, ch : Seq(Events), last : Events \cup {"nothing"},
                        missed : BOOLEAN]
        /\ health'.ch = Append(health.ch, e) /\ health'.init = health.init
    BY <2>1, <2>3 DEF HealthShape
  <2>5. Len(Append(health.ch, e)) <= HealthCap
    BY <1>2, <2>2, <2>3, LimiterAssumption
  <2>. QED
    BY <1>2, <2>3, <2>4, <2>5 DEF HealthShape, Warned
<1>3. CASE health.init /\ ~(Len(health.ch) < HealthCap)
  BY <1>3 DEF HealthShape, Emit, Warned
<1>. QED
  BY <1>1, <1>2, <1>3

\* One measurement: types, and a warning that still holds afterwards.
LEMMA FeedbackNews ==
    ASSUME TInv, WarningHolds, NEW r \in RTTs, NEW decayed \in BOOLEAN,
           FirstMeasurement(r) \/ Increase(r, decayed) \/ Decrease(r, decayed)
    PROVE  HealthShape' /\ Measurements' /\ WarningHolds'
<1>1. /\ max \in Nat /\ prev = max /\ max <= MaxLimit /\ peak \in Nat /\ peak <= MaxLimit
      /\ MinConcurrency \in Nat \ {0} /\ MinConcurrency <= max
      /\ rtt.base \in Nat /\ rtt.ewma \in Nat /\ r \in Nat /\ MaxLimit \in Nat
  BY LimiterAssumption DEF TInv, IInv, Shape, Limits, Measurements
<1>2. Measured(r, decayed) \in [base : Nat, ewma : Nat]
  <2> DEFINE base == IF decayed THEN (rtt.base * 105) \div 100 ELSE rtt.base
  <2>1. base \in Nat
    BY <1>1
  <2>2. (9 * rtt.ewma + r) \div 10 \in Nat
    BY <1>1
  <2>. HIDE DEF base
  <2>3. (IF r < base THEN r ELSE base) \in Nat
    BY <1>1, <2>1
  <2>. QED
    BY <2>2, <2>3 DEF Measured, base
<1>3. CASE FirstMeasurement(r)
  BY <1>1, <1>3 DEF FirstMeasurement, TInv, HealthShape, Measurements, WarningHolds, Warned
<1>4. CASE Increase(r, decayed)
  <2>1. /\ max' = (IF max < MaxLimit THEN max + 1 ELSE max)
        /\ peak' = (IF max' > peak THEN max' ELSE peak)
        /\ prev' = max' /\ rtt' = Measured(r, decayed)
    BY <1>4 DEF Increase
  <2>2. Measurements'
    BY <1>1, <1>2, <2>1 DEF Measurements
  <2>3. CASE max' > prev
    <3>1. Emit("Healthy")
      BY <1>4, <2>3 DEF Increase
    <3>. QED
      BY <2>2, <3>1, EmitNews DEF TInv, Events, WarningHolds
  <2>4. CASE ~(max' > prev)
    <3>1. UNCHANGED health /\ max' = max
      BY <1>1, <1>4, <2>1, <2>4 DEF Increase
    <3>. QED
      BY <2>2, <3>1 DEF TInv, HealthShape, WarningHolds, Warned
  <2>. QED
    BY <2>3, <2>4
<1>5. CASE Decrease(r, decayed)
  <2>1. /\ max' = (IF 8 * max < 10 * MinConcurrency THEN MinConcurrency ELSE (8 * max) \div 10)
        /\ peak' = peak /\ prev' = max' /\ rtt' = Measured(r, decayed)
    BY <1>5 DEF Decrease
  <2>2. max' \in Nat /\ max' <= max
    BY <1>1, <2>1
  <2>3. Measurements'
    BY <1>1, <1>2, <2>1, <2>2 DEF Measurements
  <2>4. CASE 2 * max' <= prev
    <3>1. max' = MinConcurrency
      BY <1>1, <2>1, <2>4
    <3>2. Emit("Degraded")
      BY <1>5, <2>4 DEF Decrease
    <3>. QED
      BY <2>3, <3>1, <3>2, EmitNews DEF TInv, Events, WarningHolds
  <2>5. CASE ~(2 * max' <= prev)
    <3>1. UNCHANGED health
      BY <1>5, <2>5 DEF Decrease
    <3>2. max = MinConcurrency => max' = MinConcurrency
      BY <1>1, <2>1
    <3>. QED
      BY <2>3, <3>1, <3>2 DEF TInv, HealthShape, WarningHolds, Warned
  <2>. QED
    BY <2>4, <2>5
<1>. QED
  BY <1>3, <1>4, <1>5

\* The count a caller's increment returns is that of the callers inside.
LEMMA SeenStep ==
    ASSUME TInv, IInv', [Next]_vars
    PROVE  SeenBounded'
<1>1. Cardinality(Callers) \in Nat
  BY LimiterAssumption, FS_CardinalityType
<1>2. seen \in [Callers -> Nat] /\ \A d \in Callers : seen[d] <= Cardinality(Callers)
  BY DEF TInv, IInv, Shape, SeenBounded
<1>3. CASE seen' = seen
  BY <1>2, <1>3 DEF SeenBounded
<1>4. ASSUME NEW c \in Callers, Enter(c) PROVE SeenBounded'
  <2>1. Inside' \in SUBSET Callers /\ current' = Cardinality(Inside')
    BY DEF Inside, IInv, CountExact
  <2>2. current' <= Cardinality(Callers)
    BY <2>1, LimiterAssumption, FS_Subset
  <2>3. seen' = [seen EXCEPT ![c] = current']
    BY <1>4 DEF Enter
  <2>. QED
    BY <1>2, <2>2, <2>3 DEF SeenBounded
<1>5. ASSUME NEW c \in Callers, Leave(c) PROVE SeenBounded'
  BY <1>1, <1>2, <1>5 DEF Leave, SeenBounded
<1>6. ASSUME NEW c \in Callers, Admit(c) \/ Shed(c) \/ Panic(c) \/ Completes(c)
      PROVE  seen' = seen
  BY <1>6 DEF Admit, Shed, Panic, Completes, Update
<1>7. CASE Subscribe \/ Receive \/ UNCHANGED vars
  BY <1>3, <1>7 DEF Subscribe, Receive, vars
<1>. QED
  BY <1>3, <1>4, <1>5, <1>6, <1>7 DEF Next

LEMMA NewsInvariance == Spec => [](TInv /\ WarningHolds)
<1>1. Init => TInv /\ WarningHolds
  <2> SUFFICES ASSUME Init PROVE TInv /\ WarningHolds
    OBVIOUS
  <2>1. HealthShape /\ WarningHolds
    BY LimiterAssumption DEF Init, HealthShape, WarningHolds, Warned
  <2>2. Measurements
    BY LimiterAssumption DEF Init, Measurements
  <2>3. SeenBounded
    BY LimiterAssumption, FS_CardinalityType DEF Init, SeenBounded
  <2>. QED
    BY <2>1, <2>2, <2>3, InitIInv DEF TInv
<1>2. TInv /\ WarningHolds /\ IInv' /\ [Next]_vars => TInv' /\ WarningHolds'
  <2> SUFFICES ASSUME TInv, WarningHolds, [Next]_vars
               PROVE  HealthShape' /\ Measurements' /\ WarningHolds'
    BY SeenStep DEF TInv
  <2>1. CASE UNCHANGED <<max, prev, rtt, health, peak>>
    BY <2>1 DEF TInv, HealthShape, Measurements, WarningHolds, Warned
  <2>2. ASSUME NEW c \in Callers, Enter(c) \/ Admit(c) \/ Shed(c) \/ Leave(c) \/ Panic(c)
        PROVE  UNCHANGED <<max, prev, rtt, health, peak>>
    BY <2>2 DEF Enter, Admit, Shed, Leave, Panic
  <2>3. ASSUME NEW c \in Callers, Completes(c)
        PROVE  HealthShape' /\ Measurements' /\ WarningHolds'
    <3>1. PICK r \in RTTs, decayed \in BOOLEAN : Update(c, r, decayed)
      BY <2>3 DEF Completes
    <3>. QED
      BY <3>1, FeedbackNews DEF Update
  <2>4. CASE Subscribe
    <3>1. /\ UNCHANGED <<max, prev, rtt, peak>> /\ ~health.init
          /\ health' = [health EXCEPT !.init = TRUE]
      BY <2>4 DEF Subscribe
    <3>. QED
      BY <3>1 DEF TInv, HealthShape, Measurements, WarningHolds, Warned
  <2>5. CASE Receive
    <3>1. /\ UNCHANGED <<max, prev, rtt, peak>> /\ health.ch # <<>>
          /\ health' = [health EXCEPT !.ch = Tail(health.ch), !.last = Head(health.ch)]
          /\ health.ch \in Seq(Events)
      BY <2>5 DEF Receive, TInv, HealthShape
    <3>2. /\ Head(health.ch) \in Events /\ Head(health.ch) = health.ch[1]
          /\ Tail(health.ch) \in Seq(Events) /\ Len(Tail(health.ch)) = Len(health.ch) - 1
          /\ Len(health.ch) \in Nat
      BY <3>1, HeadTailProperties
    <3>3. Measurements'
      BY <3>1 DEF TInv, Measurements
    <3>4. /\ health' \in [init : BOOLEAN, ch : Seq(Events), last : Events \cup {"nothing"},
                          missed : BOOLEAN]
          /\ health'.ch = Tail(health.ch) /\ health'.last = Head(health.ch)
          /\ health'.init = health.init /\ health'.missed = health.missed
      BY <3>1, <3>2 DEF TInv, HealthShape
    <3>5. HealthShape'
      BY <3>1, <3>2, <3>4, LimiterAssumption DEF TInv, HealthShape
    <3>6. Warned' => Warned
      <4>1. CASE Tail(health.ch) = <<>>
        <5>1. Len(health.ch) = 1
          BY <3>1, <4>1, LastOfTail
        <5>. QED
          BY <3>1, <3>2, <3>4, <4>1, <5>1 DEF Warned
      <4>2. CASE Tail(health.ch) # <<>>
        <5>1. Tail(health.ch)[Len(Tail(health.ch))] = health.ch[Len(health.ch)]
          BY <3>1, <4>2, LastOfTail
        <5>. QED
          BY <3>1, <3>4, <4>2, <5>1 DEF Warned
      <4>. QED
        BY <4>1, <4>2
    <3>. QED
      BY <3>1, <3>3, <3>5, <3>6 DEF WarningHolds
  <2>6. CASE UNCHANGED vars
    BY <2>1, <2>6 DEF vars
  <2>. QED
    BY <2>1, <2>2, <2>3, <2>4, <2>5, <2>6 DEF Next
<1>. QED
  BY <1>1, <1>2, Invariance, PTL DEF Spec

\* Counters, limits, measurements and the health channel keep their types and
\* their bounds.
THEOREM TypeCorrect == Spec => []TypeOK
<1>1. TInv => TypeOK
  <2> SUFFICES ASSUME TInv PROVE TypeOK
    OBVIOUS
  <2>. USE DEF TInv, IInv
  <2>1. Cardinality(Callers) \in Nat /\ Cardinality(Inside) <= Cardinality(Callers)
    BY LimiterAssumption, FS_Subset, FS_CardinalityType DEF Inside
  <2>2. current \in 0 .. Cardinality(Callers)
    BY <2>1, InsideFinite DEF CountExact, Shape
  <2>3. max \in 0 .. MaxLimit /\ prev \in 0 .. MaxLimit /\ peak \in 0 .. MaxLimit
    BY LimiterAssumption DEF Shape, Measurements
  <2>4. seen \in [Callers -> 0 .. Cardinality(Callers)]
    BY <2>1 DEF Shape, SeenBounded
  <2>. QED
    BY <2>2, <2>3, <2>4 DEF TypeOK, Shape, HealthShape, Measurements, Events
<1>. QED
  BY <1>1, NewsInvariance, PTL

\* A monitor that has drained the channel, with nothing dropped, and whose last
\* news is Degraded knows that the limit is at its floor, whatever that floor is.
THEOREM DegradedIsCurrentCorrect == Spec => []DegradedIsCurrent
<1>1. WarningHolds => DegradedIsCurrent
  BY DEF WarningHolds, Warned, DegradedIsCurrent
<1>. QED
  BY <1>1, NewsInvariance, PTL

=============================================================================
