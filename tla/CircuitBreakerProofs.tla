------------------------ MODULE CircuitBreakerProofs ------------------------
(* Theorems about CircuitBreaker for every window size, limit and number of *)
(* callers.                                                                  *)
EXTENDS CircuitBreaker, SharedLemmas, FiniteSetTheorems, SequenceTheorems,
        FunctionTheorems, TLAPS

-----------------------------------------------------------------------------
(* The window. *)

\* Recording an outcome yields a window again.
LEMMA RecordType ==
    ASSUME NEW w \in Window, NEW success \in BOOLEAN
    PROVE  Record(w, success) \in Window
<1> DEFINE next == (w.ringIdx + 1) % WindowSize
<1>1. next \in Slots
  BY WindowAssumption DEF Slots, Window
<1>2. [w.ring EXCEPT ![w.ringIdx] = success] \in [Slots -> BOOLEAN]
  BY DEF Window
<1>3. /\ w.total + 1 \in Int /\ w.total \in Int
      /\ \A a, b \in {0, 1} : w.failures - a + b \in Int
      /\ (w.ringFull \/ next = 0) \in BOOLEAN
  BY DEF Window
<1>. QED
  BY <1>1, <1>2, <1>3 DEF Record, Window

\* The cleared window is a window.
LEMMA EmptyWindowType == EmptyWindow \in Window
BY WindowAssumption DEF EmptyWindow, Window, Slots

\* The counters of a window agree with its slots.
Counted(w) ==
    /\ w.total = Cardinality(Recorded(w))
    /\ w.failures = Cardinality(Failed(w))

\* A cleared window is counted right.
LEMMA EmptyWindowCounted == Counted(EmptyWindow)
<1>1. Recorded(EmptyWindow) = {} /\ Failed(EmptyWindow) = {}
  BY WindowAssumption DEF EmptyWindow, Recorded, Failed, Slots
<1>. QED
  BY <1>1, FS_EmptySet DEF Counted, EmptyWindow

\* The recorded slots are finitely many, and so are the failed ones.
LEMMA RecordedFinite ==
    ASSUME NEW w \in Window
    PROVE  IsFiniteSet(Recorded(w)) /\ IsFiniteSet(Failed(w))
<1>1. IsFiniteSet(Slots)
  BY FS_Interval, WindowAssumption DEF Slots
<1>2. Recorded(w) \in SUBSET Slots /\ Failed(w) \in SUBSET Slots
  BY DEF Recorded, Failed
<1>. QED
  BY <1>1, <1>2, FS_Subset

\* recordCountBased keeps the counters in agreement with the ring: the slot it
\* overwrites leaves both sides, the slot it writes enters both.
LEMMA RecordCounted ==
    ASSUME NEW w \in Window, NEW success \in BOOLEAN, Counted(w)
    PROVE  Counted(Record(w, success))
<1> DEFINE r == Record(w, success)
           i == w.ringIdx
<1>1. i \in Slots /\ i \in Nat /\ i < WindowSize /\ w.ring \in [Slots -> BOOLEAN]
  BY WindowAssumption DEF Slots, Window
<1>2. /\ r.ring = [w.ring EXCEPT ![i] = success]
      /\ r.ringIdx = (i + 1) % WindowSize
      /\ r.ringFull = (w.ringFull \/ (i + 1) % WindowSize = 0)
      /\ r.total = IF w.ringFull THEN w.total ELSE w.total + 1
      /\ r.failures = w.failures - (IF w.ringFull /\ ~w.ring[i] THEN 1 ELSE 0)
                                 + (IF success THEN 0 ELSE 1)
  BY DEF Record
<1>3. (i + 1) % WindowSize = IF i + 1 = WindowSize THEN 0 ELSE i + 1
  BY <1>1, WindowAssumption
<1>4. Recorded(r) = Recorded(w) \cup {i}
  <2>1. CASE w.ringFull
    BY <2>1, <1>1, <1>2 DEF Recorded
  <2>2. CASE ~w.ringFull /\ i + 1 = WindowSize
    <3>1. r.ringFull
      BY <2>2, <1>2, <1>3
    <3>2. Slots = {j \in Slots : j < i} \cup {i}
      BY <2>2, <1>1, WindowAssumption DEF Slots
    <3>. QED
      BY <2>2, <3>1, <3>2 DEF Recorded
  <2>3. CASE ~w.ringFull /\ i + 1 # WindowSize
    <3>1. ~r.ringFull /\ r.ringIdx = i + 1
      <4>1. (i + 1) % WindowSize = i + 1 /\ i + 1 # 0
        BY <2>3, <1>1, <1>3
      <4>2. (i + 1) % WindowSize # 0
        BY <4>1
      <4>. QED
        BY <2>3, <4>1, <4>2, <1>2, Zenon
    <3>2. {j \in Slots : j < i + 1} = {j \in Slots : j < i} \cup {i}
      BY <1>1, WindowAssumption DEF Slots
    <3>. QED
      BY <2>3, <3>1, <3>2 DEF Recorded
  <2>. QED
    BY <2>1, <2>2, <2>3
<1>5. i \in Recorded(w) <=> w.ringFull
  BY <1>1 DEF Recorded, Window
<1>6. Failed(r) = IF success THEN Failed(w) \ {i} ELSE Failed(w) \cup {i}
  <2>1. \A j \in Slots : r.ring[j] = IF j = i THEN success ELSE w.ring[j]
    BY <1>1, <1>2
  <2>2. Recorded(w) \subseteq Slots /\ Recorded(r) \subseteq Slots
    BY DEF Recorded
  <2>3. \A j : j \in Failed(r) <=> j \in Recorded(w) \cup {i} /\ ~r.ring[j]
    BY <1>4 DEF Failed
  <2>4. \A j : j \in Failed(w) <=> j \in Recorded(w) /\ ~w.ring[j]
    BY DEF Failed
  <2>5. CASE success
    BY <2>1, <2>2, <2>3, <2>4, <2>5, <1>1
  <2>6. CASE ~success
    BY <2>1, <2>2, <2>3, <2>4, <2>6, <1>1
  <2>. QED
    BY <2>5, <2>6
<1>7. i \in Failed(w) <=> w.ringFull /\ ~w.ring[i]
  BY <1>5 DEF Failed
<1>8. IsFiniteSet(Recorded(w)) /\ IsFiniteSet(Failed(w))
  BY RecordedFinite
<1>9. r.total = Cardinality(Recorded(r))
  <2>1. Cardinality(Recorded(w) \cup {i}) =
          IF i \in Recorded(w) THEN Cardinality(Recorded(w))
                               ELSE Cardinality(Recorded(w)) + 1
    BY <1>8, FS_AddElement
  <2>. QED
    BY <2>1, <1>2, <1>4, <1>5 DEF Counted
<1>10. r.failures = Cardinality(Failed(r))
  <2>1. Cardinality(Failed(w)) \in Nat
    BY <1>8, FS_CardinalityType
  <2>2. /\ Cardinality(Failed(w) \cup {i}) =
              IF i \in Failed(w) THEN Cardinality(Failed(w)) ELSE Cardinality(Failed(w)) + 1
        /\ Cardinality(Failed(w) \ {i}) =
              IF i \in Failed(w) THEN Cardinality(Failed(w)) - 1 ELSE Cardinality(Failed(w))
    BY <1>8, FS_AddElement, FS_RemoveElement
  <2>3. r.failures = Cardinality(Failed(w)) - (IF i \in Failed(w) THEN 1 ELSE 0)
                                            + (IF success THEN 0 ELSE 1)
    BY <1>2, <1>7 DEF Counted
  <2>. HIDE DEF r, i
  <2>4. CASE success
    BY <2>1, <2>2, <2>3, <2>4, <1>6
  <2>5. CASE ~success
    BY <2>1, <2>2, <2>3, <2>5, <1>6
  <2>. QED
    BY <2>4, <2>5
<1>. QED
  BY <1>9, <1>10 DEF Counted

-----------------------------------------------------------------------------
(* Type correctness. *)

\* emitStateEvent respects the channel's capacity.
LEMMA EmitType ==
    ASSUME HealthTypeOK, NEW s \in States, Emit(s)
    PROVE  HealthTypeOK'
<1>1. CASE ~health.init
  BY <1>1 DEF HealthTypeOK, Emit
<1>2. CASE health.init /\ Len(health.ch) < HealthCap
  <2>1. health' = [health EXCEPT !.ch = Append(@, s), !.missed = FALSE]
    BY <1>2 DEF Emit
  <2>. health.ch \in Seq(States)
    BY DEF HealthTypeOK
  <2>2. /\ Append(health.ch, s) \in Seq(States)
        /\ Len(Append(health.ch, s)) = Len(health.ch) + 1
        /\ Len(health.ch) \in Nat
    OBVIOUS
  <2>3. Len(Append(health.ch, s)) <= HealthCap
    BY <1>2, <2>2, BreakerAssumption
  <2>4. /\ health' \in [init : BOOLEAN, ch : Seq(States),
                        seen : States \cup {"nothing"}, missed : BOOLEAN]
        /\ health'.ch = Append(health.ch, s)
    BY <2>1, <2>2 DEF HealthTypeOK
  <2>. QED
    BY <2>3, <2>4 DEF HealthTypeOK
<1>3. CASE health.init /\ ~(Len(health.ch) < HealthCap)
  BY <1>3 DEF HealthTypeOK, Emit
<1>. QED
  BY <1>1, <1>2, <1>3

\* transitionToOpen and transitionToClosed keep the types of what they assign.
LEMMA OpenClosedType ==
    ASSUME TypeOK, ToOpen \/ ToClosed
    PROVE  /\ state' \in States
           /\ age' \in 0 .. ResetTimeout + 1
           /\ window' \in Window
           /\ HealthTypeOK'
<1>1. {"Open", "Closed"} \subseteq States
  BY DEF States
<1>2. HealthTypeOK'
  BY <1>1, EmitType DEF TypeOK, ToOpen, ToClosed
<1>3. 0 \in 0 .. ResetTimeout + 1
  BY BreakerAssumption
<1>. QED
  BY <1>1, <1>2, <1>3, EmptyWindowType DEF TypeOK, ToOpen, ToClosed

\* transitionToHalfOpen, with or without a first probe, keeps them too.
LEMMA HalfOpenType ==
    ASSUME TypeOK, NEW S, IsFiniteSet(S), ToHalfOpen(S)
    PROVE  /\ state' \in States
           /\ age' \in 0 .. ResetTimeout + 1
           /\ window' \in Window
           /\ halfOpen' \in [calls : Nat, failures : Nat, completed : Nat]
           /\ HealthTypeOK'
<1>1. "HalfOpen" \in States
  BY DEF States
<1>2. HealthTypeOK'
  BY <1>1, EmitType DEF TypeOK, ToHalfOpen
<1>3. Cardinality(S) \in Nat
  BY FS_CardinalityType
<1>. QED
  BY <1>1, <1>2, <1>3 DEF TypeOK, ToHalfOpen

\* The initial state is well typed.
LEMMA InitType == Init => TypeOK
<1> SUFFICES ASSUME Init PROVE TypeOK
  OBVIOUS
<1>1. HealthTypeOK
  BY BreakerAssumption DEF Init, HealthTypeOK
<1>2. 0 \in 0 .. ResetTimeout + 1
  BY BreakerAssumption
<1>. QED
  BY <1>1, <1>2, EmptyWindowType DEF Init, TypeOK, States

\* Every step keeps the types.
LEMMA TypeStep == TypeOK /\ [Next]_vars => TypeOK'
<1> SUFFICES ASSUME TypeOK, [Next]_vars PROVE TypeOK'
  OBVIOUS
<1>. USE DEF TypeOK
<1>1. ASSUME NEW c \in Calls, AdmitClosed(c) PROVE TypeOK'
  BY <1>1 DEF AdmitClosed, Idle, HealthTypeOK
<1>2. ASSUME NEW c \in Calls, Refuse(c) PROVE TypeOK'
  BY <1>2 DEF Refuse, Idle, HealthTypeOK
<1>3. ASSUME NEW c \in Calls, AdmitFirstProbe(c) PROVE TypeOK'
  <2>1. IsFiniteSet({c})
    BY FS_Singleton
  <2>2. probes' = {c} /\ call' = [call EXCEPT ![c] = "HalfOpen"] /\ poll' = poll
    BY <1>3 DEF AdmitFirstProbe, ToHalfOpen
  <2>. QED
    BY <1>3, <2>1, <2>2, HalfOpenType DEF AdmitFirstProbe
<1>4. ASSUME NEW c \in Calls, AdmitProbe(c) PROVE TypeOK'
  BY <1>4 DEF AdmitProbe, Idle, HealthTypeOK
<1>5. ASSUME NEW c \in Calls, NEW success \in BOOLEAN, FinishClosed(c, success)
      PROVE  TypeOK'
  <2>1. Record(window, success) \in Window
    BY RecordType
  <2>2. /\ state' \in States
        /\ age' \in 0 .. ResetTimeout + 1
        /\ window' \in Window
        /\ HealthTypeOK'
    BY <1>5, <2>1, OpenClosedType DEF FinishClosed, HealthTypeOK
  <2>. QED
    BY <1>5, <2>2 DEF FinishClosed, Return
<1>6. ASSUME NEW c \in Calls, ProbeFails(c) PROVE TypeOK'
  <2>1. halfOpen' \in [calls : Nat, failures : Nat, completed : Nat]
    <3>1. halfOpen.failures + 1 \in Nat /\ halfOpen.completed + 1 \in Nat
      OBVIOUS
    <3>. QED
      BY <1>6, <3>1 DEF ProbeFails
  <2>. QED
    BY <1>6, <2>1, OpenClosedType DEF ProbeFails, Return
<1>7. ASSUME NEW c \in Calls, ProbeSucceeds(c) PROVE TypeOK'
  <2>1. halfOpen' \in [calls : Nat, failures : Nat, completed : Nat]
    BY <1>7 DEF ProbeSucceeds
  <2>2. /\ state' \in States
        /\ age' \in 0 .. ResetTimeout + 1
        /\ window' \in Window
        /\ HealthTypeOK'
    BY <1>7, OpenClosedType DEF ProbeSucceeds, HealthTypeOK
  <2>. QED
    BY <1>7, <2>1, <2>2 DEF ProbeSucceeds, Return
<1>8. ASSUME NEW c \in Calls, Panic(c) PROVE TypeOK'
  BY <1>8 DEF Panic, Return, HealthTypeOK
<1>9. CASE Reset
  BY <1>9, OpenClosedType DEF Reset
<1>10. CASE PollRead
  BY <1>10 DEF PollRead, HealthTypeOK
<1>11. CASE PollLock
  <2>1. CASE ToHalfOpen({})
    <3>1. probes' = {}
      BY <2>1 DEF ToHalfOpen
    <3>. QED
      BY <1>11, <2>1, <3>1, HalfOpenType, FS_EmptySet DEF PollLock
  <2>2. CASE UNCHANGED <<state, age, window, halfOpen, probes, health>>
    BY <1>11, <2>2 DEF PollLock, HealthTypeOK
  <2>. QED
    BY <1>11, <2>1, <2>2 DEF PollLock
<1>12. CASE Subscribe
  BY <1>12 DEF Subscribe, HealthTypeOK
<1>13. CASE Receive
  <2>1. /\ health.ch \in Seq(States)
        /\ health.ch # <<>>
    BY <1>13 DEF Receive, HealthTypeOK
  <2>2. /\ Head(health.ch) \in States
        /\ Tail(health.ch) \in Seq(States)
        /\ Len(Tail(health.ch)) = Len(health.ch) - 1
        /\ Len(health.ch) \in Nat
    BY <2>1
  <2>3. HealthTypeOK'
    <3>1. /\ health' \in [init : BOOLEAN, ch : Seq(States),
                          seen : States \cup {"nothing"}, missed : BOOLEAN]
          /\ health'.ch = Tail(health.ch)
      BY <1>13, <2>2 DEF Receive, HealthTypeOK
    <3>2. Len(Tail(health.ch)) <= HealthCap
      BY <2>2, BreakerAssumption DEF HealthTypeOK
    <3>. QED
      BY <3>1, <3>2 DEF HealthTypeOK
  <2>. QED
    BY <1>13, <2>3 DEF Receive
<1>14. CASE Tick
  <2>1. age' \in 0 .. ResetTimeout + 1
    BY <1>14, BreakerAssumption DEF Tick, Expired
  <2>. QED
    BY <1>14, <2>1 DEF Tick, HealthTypeOK
<1>15. CASE UNCHANGED vars
  BY <1>15 DEF vars, HealthTypeOK
<1>. QED
  BY <1>1, <1>2, <1>3, <1>4, <1>5, <1>6, <1>7, <1>8, <1>9, <1>10, <1>11, <1>12,
     <1>13, <1>14, <1>15 DEF Next, Begin, Finish

\* The breaker's fields, its callers and its health channel keep their types.
THEOREM TypeCorrect == Spec => []TypeOK
BY InitType, TypeStep, PTL DEF Spec

-----------------------------------------------------------------------------
(* The window and the threshold. *)

\* The cleared window does not trip the breaker: MinimumCalls is positive.
LEMMA EmptyWindowQuiet == ~ShouldTrip(EmptyWindow.total, EmptyWindow.failures)
BY FailureRateAssumption DEF ShouldTrip, EmptyWindow

\* What one step does to the window and the state: it clears the window and
\* moves to Open or Closed, records one outcome without reaching the threshold
\* in Closed, or leaves the window alone and never enters Closed.
LEMMA WindowStep ==
    ASSUME TypeOK, [Next]_vars
    PROVE  \/ window' = EmptyWindow /\ state' \in {"Open", "Closed"}
           \/ /\ \E success \in BOOLEAN : window' = Record(window, success)
              /\ state' = state
              /\ state = "Closed" => ~ShouldTrip(window'.total, window'.failures)
           \/ window' = window /\ (state' = state \/ (state = "Open" /\ state' = "HalfOpen"))
<1>1. ASSUME NEW c \in Calls, Begin(c)
      PROVE  window' = window /\ (state' = state \/ (state = "Open" /\ state' = "HalfOpen"))
  BY <1>1 DEF Begin, AdmitClosed, Refuse, AdmitFirstProbe, AdmitProbe, ToHalfOpen
<1>2. ASSUME NEW c \in Calls, NEW success \in BOOLEAN, FinishClosed(c, success)
      PROVE  \/ window' = EmptyWindow /\ state' = "Open"
             \/ /\ window' = Record(window, success)
                /\ state' = state
                /\ state = "Closed" => ~ShouldTrip(window'.total, window'.failures)
  BY <1>2 DEF FinishClosed, ToOpen
<1>3. ASSUME NEW c \in Calls, ProbeFails(c) PROVE window' = EmptyWindow /\ state' = "Open"
  BY <1>3 DEF ProbeFails, ToOpen
<1>4. ASSUME NEW c \in Calls, ProbeSucceeds(c)
      PROVE  \/ window' = EmptyWindow /\ state' \in {"Open", "Closed"}
             \/ (window' = window /\ state' = state)
  BY <1>4 DEF ProbeSucceeds, ToOpen, ToClosed
<1>5. ASSUME NEW c \in Calls, Panic(c) PROVE window' = window /\ state' = state
  BY <1>5 DEF Panic
<1>6. CASE Reset
  BY <1>6 DEF Reset, ToClosed
<1>7. CASE PollRead \/ PollLock \/ Subscribe \/ Receive \/ Tick
  BY <1>7 DEF PollRead, PollLock, ToHalfOpen, Subscribe, Receive, Tick
<1>8. CASE UNCHANGED vars
  BY <1>8 DEF vars
<1>. QED
  BY <1>1, <1>2, <1>3, <1>4, <1>5, <1>6, <1>7, <1>8 DEF Next, Finish

\* The unsigned counters of the ring always equal what a scan of the ring would
\* count, so the decrement in recordCountBased never wraps around.
THEOREM WindowCountsCorrect == Spec => []WindowCounts
<1>1. Init => WindowCounts
  BY EmptyWindowCounted DEF Init, WindowCounts, Counted
<1>2. TypeOK /\ WindowCounts /\ [Next]_vars => WindowCounts'
  <2> SUFFICES ASSUME TypeOK, WindowCounts, [Next]_vars PROVE Counted(window')
    BY DEF WindowCounts, Counted
  <2>1. CASE window' = EmptyWindow
    BY <2>1, EmptyWindowCounted
  <2>2. CASE \E success \in BOOLEAN : window' = Record(window, success)
    BY <2>2, RecordCounted DEF TypeOK, WindowCounts, Counted
  <2>3. CASE window' = window
    BY <2>3 DEF WindowCounts, Counted
  <2>. QED
    BY <2>1, <2>2, <2>3, WindowStep
<1>. QED
  BY <1>1, <1>2, TypeCorrect, PTL DEF Spec

\* A Closed breaker is below its failure rate in every reachable state, for
\* every window size, minimum and threshold and any number of callers.
THEOREM ClosedBelowThresholdCorrect == Spec => []ClosedBelowThreshold
<1>1. Init => ClosedBelowThreshold
  BY EmptyWindowQuiet DEF Init, ClosedBelowThreshold
<1>2. TypeOK /\ ClosedBelowThreshold /\ [Next]_vars => ClosedBelowThreshold'
  BY WindowStep, EmptyWindowQuiet DEF ClosedBelowThreshold
<1>. QED
  BY <1>1, <1>2, TypeCorrect, PTL DEF Spec

-----------------------------------------------------------------------------
(* Half-open. *)

\* State() and Execute enter HalfOpen from an expired Open only.
THEOREM HalfOpenEntryCorrect == Spec => HalfOpenEntry
<1>1. [Next]_vars =>
        [state # "HalfOpen" /\ state' = "HalfOpen" => state = "Open" /\ Expired]_vars
  <2> SUFFICES ASSUME [Next]_vars, state # "HalfOpen", state' = "HalfOpen"
               PROVE  state = "Open" /\ Expired
    OBVIOUS
  <2>1. ASSUME NEW c \in Calls, Begin(c) PROVE state = "Open" /\ Expired
    BY <2>1 DEF Begin, AdmitClosed, Refuse, AdmitFirstProbe, AdmitProbe
  <2>2. ASSUME NEW c \in Calls, Finish(c) PROVE FALSE
    BY <2>2 DEF Finish, FinishClosed, ProbeFails, ProbeSucceeds, Panic, ToOpen, ToClosed
  <2>3. CASE PollLock
    BY <2>3 DEF PollLock
  <2>4. CASE Reset \/ PollRead \/ Subscribe \/ Receive \/ Tick \/ UNCHANGED vars
    BY <2>4 DEF Reset, ToClosed, PollRead, Subscribe, Receive, Tick, vars
  <2>. QED
    BY <2>1, <2>2, <2>3, <2>4 DEF Next
<1>. QED
  BY <1>1, PTL DEF Spec, HalfOpenEntry

\* The running probes are callers, so they can be counted, and a caller that
\* was not admitted as a probe is none of them.
LEMMA ProbesFinite ==
    ASSUME TypeOK
    PROVE  /\ IsFiniteSet(probes)
           /\ Cardinality(probes) \in Nat
           /\ \A c \in probes : call[c] = "HalfOpen"
<1>1. probes \in SUBSET Calls
  BY DEF TypeOK
<1>2. IsFiniteSet(probes)
  BY <1>1, FS_Subset, BreakerAssumption
<1>. QED
  BY <1>2, FS_CardinalityType DEF TypeOK

\* The ways a step can end in HalfOpen: it enters with at most one probe, takes
\* a slot for a new probe, counts a success short of the verdict, loses a probe
\* to a panic, or does not touch the accounting.
EntersHalfOpen ==
    \E S : /\ IsFiniteSet(S) /\ Cardinality(S) \in {0, 1}
           /\ probes' = S
           /\ halfOpen' = [calls |-> Cardinality(S), failures |-> 0, completed |-> 0]

TakesSlot ==
    /\ halfOpen.calls < HalfOpenMaxCalls
    /\ halfOpen' = [halfOpen EXCEPT !.calls = @ + 1]
    /\ \E c \in Calls \ probes : probes' = probes \cup {c}

CountsSuccess ==
    /\ halfOpen.completed + 1 < HalfOpenMaxCalls
    /\ halfOpen' = [halfOpen EXCEPT !.completed = @ + 1]
    /\ \E c \in Calls : probes' = probes \ {c}

LosesProbe == MayPanic /\ halfOpen' = halfOpen /\ \E c \in Calls : probes' = probes \ {c}

\* Those are all the ways.
LEMMA HalfOpenStep ==
    ASSUME TypeOK, [Next]_vars, state' = "HalfOpen"
    PROVE  \/ EntersHalfOpen
           \/ state = "HalfOpen" /\ TakesSlot
           \/ state = "HalfOpen" /\ CountsSuccess
           \/ state = "HalfOpen" /\ LosesProbe
           \/ state = "HalfOpen" /\ UNCHANGED <<halfOpen, probes>>
<1>1. ASSUME NEW c \in Calls, AdmitClosed(c) \/ Refuse(c)
      PROVE  state = "HalfOpen" /\ UNCHANGED <<halfOpen, probes>>
  BY <1>1 DEF AdmitClosed, Refuse
<1>2. ASSUME NEW c \in Calls, AdmitFirstProbe(c) PROVE EntersHalfOpen
  <2>1. IsFiniteSet({c}) /\ Cardinality({c}) = 1
    BY FS_Singleton
  <2>. QED
    BY <1>2, <2>1 DEF AdmitFirstProbe, ToHalfOpen, EntersHalfOpen
<1>3. ASSUME NEW c \in Calls, AdmitProbe(c) PROVE state = "HalfOpen" /\ TakesSlot
  <2>1. c \notin probes
    BY <1>3, ProbesFinite DEF AdmitProbe, Idle
  <2>. QED
    BY <1>3, <2>1 DEF AdmitProbe, TakesSlot
<1>4. ASSUME NEW c \in Calls, NEW success \in BOOLEAN, FinishClosed(c, success)
      PROVE  state = "HalfOpen" /\ UNCHANGED <<halfOpen, probes>>
  <2>1. c \notin probes
    BY <1>4, ProbesFinite DEF FinishClosed
  <2>. QED
    BY <1>4, <2>1 DEF FinishClosed, Return, ToOpen
<1>5. ASSUME NEW c \in Calls, ProbeFails(c) PROVE FALSE
  BY <1>5 DEF ProbeFails, ToOpen
<1>6. ASSUME NEW c \in Calls, ProbeSucceeds(c)
      PROVE  state = "HalfOpen" /\ CountsSuccess
  <2>1. halfOpen.completed + 1 < HalfOpenMaxCalls /\ state = "HalfOpen"
    BY <1>6 DEF ProbeSucceeds, ToOpen, ToClosed
  <2>. QED
    BY <1>6, <2>1 DEF ProbeSucceeds, Return, CountsSuccess
<1>7. ASSUME NEW c \in Calls, Panic(c) PROVE state = "HalfOpen" /\ LosesProbe
  BY <1>7 DEF Panic, Return, LosesProbe
<1>8. CASE PollLock
  <2>1. CASE ToHalfOpen({})
    BY <2>1, FS_EmptySet DEF ToHalfOpen, EntersHalfOpen
  <2>2. CASE UNCHANGED <<state, age, window, halfOpen, probes, health>>
    BY <2>2
  <2>. QED
    BY <1>8, <2>1, <2>2 DEF PollLock
<1>9. CASE Reset \/ PollRead \/ Subscribe \/ Receive \/ Tick \/ UNCHANGED vars
  BY <1>9 DEF Reset, ToClosed, PollRead, Subscribe, Receive, Tick, vars
<1>. QED
  BY <1>1, <1>2, <1>3, <1>4, <1>5, <1>6, <1>7, <1>8, <1>9 DEF Next, Begin, Finish

\* Adding and removing one caller changes the count of probes by at most one.
LEMMA ProbeCount ==
    ASSUME TypeOK, NEW c \in Calls
    PROVE  /\ c \notin probes => Cardinality(probes \cup {c}) = Cardinality(probes) + 1
           /\ Cardinality(probes \ {c}) \in Nat
           /\ Cardinality(probes \ {c}) <= Cardinality(probes)
           /\ Cardinality(probes) <= Cardinality(probes \ {c}) + 1
<1>1. IsFiniteSet(probes) /\ Cardinality(probes) \in Nat
  BY ProbesFinite
<1>2. IsFiniteSet(probes \ {c}) /\ Cardinality(probes \ {c}) \in Nat
  BY <1>1, FS_RemoveElement, FS_CardinalityType
<1>3. Cardinality(probes \ {c}) =
        IF c \in probes THEN Cardinality(probes) - 1 ELSE Cardinality(probes)
  BY <1>1, FS_RemoveElement
<1>4. c \notin probes => Cardinality(probes \cup {c}) = Cardinality(probes) + 1
  BY <1>1, FS_AddElement
<1>. QED
  BY <1>1, <1>2, <1>3, <1>4

\* No more than HalfOpenMaxCalls probes of one half-open period run at once,
\* even when panics unwind through Execute.
THEOREM ProbeLimitCorrect == Spec => []ProbeLimit
<1>1. Init => ProbeLimit
  BY DEF Init, ProbeLimit
<1>2. TypeOK /\ ProbeLimit /\ [Next]_vars => ProbeLimit'
  <2> SUFFICES ASSUME TypeOK, ProbeLimit, [Next]_vars, state' = "HalfOpen"
               PROVE  /\ halfOpen'.calls <= HalfOpenMaxCalls
                      /\ Cardinality(probes') <= halfOpen'.calls
    BY DEF ProbeLimit
  <2>0. /\ halfOpen \in [calls : Nat, failures : Nat, completed : Nat]
        /\ Cardinality(probes) \in Nat
    BY ProbesFinite DEF TypeOK
  <2>1. CASE EntersHalfOpen
    BY <2>1, BreakerAssumption DEF EntersHalfOpen
  <2>2. CASE state = "HalfOpen" /\ TakesSlot
    BY <2>0, <2>2, ProbeCount, BreakerAssumption DEF TakesSlot, ProbeLimit
  <2>3. CASE state = "HalfOpen" /\ (CountsSuccess \/ LosesProbe)
    BY <2>0, <2>3, ProbeCount, BreakerAssumption DEF CountsSuccess, LosesProbe, ProbeLimit
  <2>4. CASE state = "HalfOpen" /\ UNCHANGED <<halfOpen, probes>>
    BY <2>4 DEF ProbeLimit
  <2>. QED
    BY <2>1, <2>2, <2>3, <2>4, HalfOpenStep
<1>. QED
  BY <1>1, <1>2, TypeCorrect, PTL DEF Spec

\* When no panic unwinds through Execute, no half-open slot is ever lost: a
\* breaker that refuses callers in HalfOpen still has a running probe.
THEOREM NoLostSlotCorrect ==
    ASSUME MayPanic = FALSE
    PROVE  Spec => []NoLostSlot
<1>1. Init => NoLostSlot
  BY DEF Init, NoLostSlot
<1>2. TypeOK /\ NoLostSlot /\ [Next]_vars => NoLostSlot'
  <2> SUFFICES ASSUME TypeOK, NoLostSlot, [Next]_vars, state' = "HalfOpen"
               PROVE  /\ halfOpen'.calls <= halfOpen'.completed + Cardinality(probes')
                      /\ halfOpen'.completed < HalfOpenMaxCalls
    BY DEF NoLostSlot
  <2>0. /\ halfOpen \in [calls : Nat, failures : Nat, completed : Nat]
        /\ Cardinality(probes) \in Nat
    BY ProbesFinite DEF TypeOK
  <2>1. CASE EntersHalfOpen
    BY <2>1, BreakerAssumption DEF EntersHalfOpen
  <2>2. CASE state = "HalfOpen" /\ TakesSlot
    BY <2>0, <2>2, ProbeCount, BreakerAssumption DEF TakesSlot, NoLostSlot
  <2>3. CASE state = "HalfOpen" /\ CountsSuccess
    BY <2>0, <2>3, ProbeCount, BreakerAssumption DEF CountsSuccess, NoLostSlot
  <2>4. CASE state = "HalfOpen" /\ UNCHANGED <<halfOpen, probes>>
    BY <2>4 DEF NoLostSlot
  <2>. QED
    BY <2>1, <2>2, <2>3, <2>4, HalfOpenStep DEF LosesProbe
<1>. QED
  BY <1>1, <1>2, TypeCorrect, PTL DEF Spec

\* The failure rate that closes the breaker is always computed from successes
\* alone: no failure is on the books while the breaker is HalfOpen.
THEOREM HalfOpenUnfailedCorrect == Spec => []HalfOpenUnfailed
<1>1. Init => HalfOpenUnfailed
  BY DEF Init, HalfOpenUnfailed
<1>2. TypeOK /\ HalfOpenUnfailed /\ [Next]_vars => HalfOpenUnfailed'
  <2> SUFFICES ASSUME TypeOK, HalfOpenUnfailed, [Next]_vars, state' = "HalfOpen"
               PROVE  halfOpen'.failures = 0
    BY DEF HalfOpenUnfailed
  <2>0. halfOpen \in [calls : Nat, failures : Nat, completed : Nat]
    BY DEF TypeOK
  <2>. QED
    BY <2>0, HalfOpenStep
    DEF EntersHalfOpen, TakesSlot, CountsSuccess, LosesProbe, HalfOpenUnfailed
<1>. QED
  BY <1>1, <1>2, TypeCorrect, PTL DEF Spec

-----------------------------------------------------------------------------
(* Refinement: the ring, its index and its counters implement the sequence  *)
(* of BreakerContract.                                                       *)

\* The number of outcomes a window holds.
Filled(w) == IF w.ringFull THEN WindowSize ELSE w.ringIdx

\* The slot of the k-th oldest outcome.
Place(w, k) == IF w.ringFull THEN (w.ringIdx + k - 1) % WindowSize ELSE k - 1

\* The outcomes in order are a sequence of that length.
LEMMA InOrderIsSeq ==
    ASSUME NEW w \in Window
    PROVE  /\ Filled(w) \in 0 .. WindowSize
           /\ InOrder(w) \in Seq(BOOLEAN) /\ Len(InOrder(w)) = Filled(w)
           /\ \A k \in 1 .. Filled(w) : /\ Place(w, k) \in Recorded(w)
                                        /\ InOrder(w)[k] = w.ring[Place(w, k)]
<1>1. /\ w.ringIdx \in Nat /\ w.ringIdx < WindowSize /\ WindowSize \in Nat \ {0}
      /\ w.ring \in [Slots -> BOOLEAN] /\ w.ringFull \in BOOLEAN
  BY WindowAssumption DEF Window, Slots
<1>2. Filled(w) \in 0 .. WindowSize
  BY <1>1 DEF Filled
<1>3. ASSUME NEW k \in 1 .. Filled(w) PROVE Place(w, k) \in Recorded(w)
  <2>1. CASE w.ringFull
    <3>1. w.ringIdx + k - 1 \in Nat
      BY <1>1, <1>2, <1>3
    <3>2. (w.ringIdx + k - 1) % WindowSize \in 0 .. WindowSize - 1
      BY <1>1, <3>1, DivMod
    <3>. QED
      BY <2>1, <3>2 DEF Place, Recorded, Slots
  <2>2. CASE ~w.ringFull
    BY <1>1, <1>2, <1>3, <2>2 DEF Place, Recorded, Slots, Filled
  <2>. QED
    BY <2>1, <2>2
<1>4. ASSUME NEW k \in 1 .. Filled(w) PROVE w.ring[Place(w, k)] \in BOOLEAN
  BY <1>1, <1>3 DEF Recorded
<1>5. InOrder(w) = [k \in 1 .. Filled(w) |-> w.ring[Place(w, k)]]
  BY <1>1 DEF InOrder, Filled, Place
<1>6. InOrder(w) \in [1 .. Filled(w) -> BOOLEAN]
  BY <1>4, <1>5
<1>7. InOrder(w) \in Seq(BOOLEAN) /\ Len(InOrder(w)) = Filled(w)
  BY <1>2, <1>6, FunctionIsSeq
<1>. QED
  BY <1>2, <1>3, <1>5, <1>7

\* Different ages have different slots, and every recorded slot has its age.
LEMMA PlaceIsBijection ==
    ASSUME NEW w \in Window
    PROVE  /\ \A j, k \in 1 .. Filled(w) : Place(w, j) = Place(w, k) => j = k
           /\ \A i \in Recorded(w) : \E k \in 1 .. Filled(w) : Place(w, k) = i
<1>1. /\ w.ringIdx \in Nat /\ w.ringIdx < WindowSize /\ WindowSize \in Nat \ {0}
      /\ w.ringFull \in BOOLEAN
  BY WindowAssumption DEF Window, Slots
<1>2. CASE ~w.ringFull
  <2>1. ASSUME NEW i \in Recorded(w) PROVE i + 1 \in 1 .. Filled(w) /\ Place(w, i + 1) = i
    BY <1>1, <1>2 DEF Filled, Place, Recorded, Slots
  <2>2. \A j, k \in 1 .. Filled(w) : Place(w, j) = Place(w, k) => j = k
    BY <1>1, <1>2 DEF Filled, Place
  <2>. QED
    BY <2>1, <2>2
<1>3. CASE w.ringFull
  <2> DEFINE p == w.ringIdx
  <2>1. ASSUME NEW j \in 1 .. WindowSize, NEW k \in 1 .. WindowSize, j < k,
               (p + j - 1) % WindowSize = (p + k - 1) % WindowSize
        PROVE  FALSE
    <3>1. p + j - 1 \in Nat /\ p + k - 1 \in Nat /\ p + j - 1 < p + k - 1
      BY <1>1, <2>1
    <3>2. (p + k - 1) - (p + j - 1) >= WindowSize
      BY <1>1, <2>1, <3>1, SameMod
    <3>. QED
      BY <1>1, <3>2
  <2>2. \A j, k \in 1 .. Filled(w) : Place(w, j) = Place(w, k) => j = k
    <3> SUFFICES ASSUME NEW j \in 1 .. WindowSize, NEW k \in 1 .. WindowSize,
                        (p + j - 1) % WindowSize = (p + k - 1) % WindowSize
                 PROVE  j = k
      BY <1>3 DEF Filled, Place
    <3>1. ~(j < k) /\ ~(k < j)
      BY <2>1
    <3>. QED
      BY <1>1, <3>1
  <2>3. ASSUME NEW i \in Recorded(w) PROVE \E k \in 1 .. Filled(w) : Place(w, k) = i
    <3>1. i \in 0 .. WindowSize - 1
      BY DEF Recorded, Slots
    <3>2. CASE i >= p
      <4>1. i - p + 1 \in 1 .. WindowSize /\ p + (i - p + 1) - 1 = i
        BY <1>1, <3>1, <3>2
      <4>2. i % WindowSize = i
        BY <1>1, <3>1, ModUnique, 0 \in Nat, i = WindowSize * 0 + i
      <4>3. Place(w, i - p + 1) = i
        BY <1>3, <4>1, <4>2 DEF Place
      <4>. QED
        BY <1>3, <4>1, <4>3 DEF Filled
    <3>3. CASE i < p
      <4>1. /\ i + WindowSize - p + 1 \in 1 .. WindowSize
            /\ p + (i + WindowSize - p + 1) - 1 = i + WindowSize
        BY <1>1, <3>1, <3>3
      <4>2. (i + WindowSize) % WindowSize = i
        BY <1>1, <3>1, ModUnique, 1 \in Nat, i + WindowSize = WindowSize * 1 + i
      <4>3. Place(w, i + WindowSize - p + 1) = i
        BY <1>3, <4>1, <4>2 DEF Place
      <4>. QED
        BY <1>3, <4>1, <4>3 DEF Filled
    <3>. QED
      BY <1>1, <3>1, <3>2, <3>3
  <2>. QED
    BY <2>2, <2>3
<1>. QED
  BY <1>1, <1>2, <1>3

\* The counters say of the sequence what the contract computes from it.
LEMMA CountersOfSequence ==
    ASSUME NEW w \in Window, Counted(w)
    PROVE  Len(InOrder(w)) = w.total /\ Contract!Failures(InOrder(w)) = w.failures
<1> DEFINE bad == {k \in DOMAIN InOrder(w) : ~InOrder(w)[k]}
           f   == [k \in bad |-> Place(w, k)]
<1>1. /\ w.ringIdx \in Nat /\ w.ringIdx < WindowSize /\ WindowSize \in Nat \ {0}
      /\ w.ringFull \in BOOLEAN
  BY WindowAssumption DEF Window, Slots
<1>2. Cardinality(Recorded(w)) = Filled(w)
  <2>1. CASE w.ringFull
    <3>1. Cardinality(0 .. WindowSize - 1) = WindowSize
      BY <1>1, FS_Interval
    <3>. QED
      BY <2>1, <3>1 DEF Recorded, Filled, Slots
  <2>2. CASE ~w.ringFull
    <3>1. {i \in Slots : i < w.ringIdx} = 0 .. w.ringIdx - 1
      BY <1>1 DEF Slots
    <3>2. Cardinality(0 .. w.ringIdx - 1) = w.ringIdx
      <4>1. w.ringIdx - 1 \in Int /\ (w.ringIdx - 1) - 0 + 1 = w.ringIdx
        BY <1>1
      <4>2. CASE w.ringIdx = 0
        BY <1>1, <4>1, <4>2, FS_Interval
      <4>3. CASE 0 <= w.ringIdx - 1
        BY <1>1, <4>1, <4>3, FS_Interval
      <4>. QED
        BY <1>1, <4>2, <4>3
    <3>. QED
      BY <2>2, <3>1, <3>2 DEF Recorded, Filled
  <2>. QED
    BY <2>1, <2>2
<1>3. DOMAIN InOrder(w) = 1 .. Filled(w) /\ Filled(w) \in Nat
  BY InOrderIsSeq, LenProperties
<1>4. \A k \in 1 .. Filled(w) : k \in bad <=> Place(w, k) \in Failed(w)
  BY <1>3, InOrderIsSeq DEF Failed
<1>5. f \in [bad -> Failed(w)]
  BY <1>3, <1>4
<1>6. \A j, k \in bad : f[j] = f[k] => j = k
  BY <1>3, PlaceIsBijection
<1>7. \A i \in Failed(w) : \E k \in bad : f[k] = i
  <2> SUFFICES ASSUME NEW i \in Failed(w) PROVE \E k \in bad : f[k] = i
    OBVIOUS
  <2>1. i \in Recorded(w)
    BY DEF Failed
  <2>2. PICK k \in 1 .. Filled(w) : Place(w, k) = i
    BY <2>1, PlaceIsBijection
  <2>. QED
    BY <1>4, <2>2
<1>8. IsFiniteSet(bad)
  <2>1. IsFiniteSet(1 .. Filled(w))
    BY <1>3, FS_Interval
  <2>2. bad \in SUBSET (1 .. Filled(w))
    BY <1>3
  <2>. QED
    BY <2>1, <2>2, FS_Subset
<1> HIDE DEF bad, f
<1>9. ExistsBijection(bad, Failed(w))
  <2>1. f \in Injection(bad, Failed(w)) /\ f \in Surjection(bad, Failed(w))
    BY <1>5, <1>6, <1>7 DEF Injection, Surjection, IsInjective
  <2>. QED
    BY <2>1 DEF ExistsBijection, Bijection
<1>10. Cardinality(Failed(w)) = Cardinality(bad)
  BY <1>8, <1>9, FS_Bijection
<1>11. Contract!Cardinality(bad) = Cardinality(bad)
  BY DEF Contract!Cardinality, Cardinality
<1>12. Contract!Failures(InOrder(w)) = Contract!Cardinality(bad)
  BY DEF Contract!Failures, bad
<1>. QED
  BY <1>2, <1>10, <1>11, <1>12, InOrderIsSeq DEF Counted

\* recordCountBased drops the oldest outcome of a full ring and appends the new.
LEMMA RecordSlides ==
    ASSUME NEW w \in Window, NEW success \in BOOLEAN
    PROVE  InOrder(Record(w, success)) = Contract!Newest(Append(InOrder(w), success))
<1> DEFINE r == Record(w, success)
           i == w.ringIdx
           s == InOrder(w)
           a == Append(s, success)
           n == Contract!Newest(a)
<1>1. /\ i \in Nat /\ i < WindowSize /\ WindowSize \in Nat \ {0}
      /\ w.ring \in [Slots -> BOOLEAN] /\ w.ringFull \in BOOLEAN /\ i \in Slots
  BY WindowAssumption DEF Window, Slots
<1>2. /\ r.ring = [w.ring EXCEPT ![i] = success]
      /\ r.ringIdx = (i + 1) % WindowSize
      /\ r.ringFull = (w.ringFull \/ (i + 1) % WindowSize = 0)
  BY DEF Record
<1>3. (i + 1) % WindowSize = IF i + 1 = WindowSize THEN 0 ELSE i + 1
  BY <1>1
<1>4. r \in Window
  BY RecordType
<1>5. /\ s \in Seq(BOOLEAN) /\ Len(s) = Filled(w) /\ Filled(w) \in 0 .. WindowSize
      /\ \A k \in 1 .. Filled(w) : s[k] = w.ring[Place(w, k)] /\ Place(w, k) \in Recorded(w)
  BY InOrderIsSeq
<1>6. /\ a \in Seq(BOOLEAN) /\ Len(a) = Filled(w) + 1
      /\ \A k \in 1 .. Filled(w) + 1 : a[k] = IF k = Filled(w) + 1 THEN success ELSE s[k]
  BY <1>5
<1>7. /\ InOrder(r) \in Seq(BOOLEAN) /\ Len(InOrder(r)) = Filled(r)
      /\ \A k \in 1 .. Filled(r) : InOrder(r)[k] = r.ring[Place(r, k)]
  BY <1>4, InOrderIsSeq
<1>8. \A j \in Slots : r.ring[j] = IF j = i THEN success ELSE w.ring[j]
  BY <1>1, <1>2
<1>9. \A k \in 1 .. Filled(w) : Place(w, k) \in Slots
  BY <1>5 DEF Recorded
<1> HIDE DEF r, s, a
<1>10. CASE ~w.ringFull
  <2>1. Filled(w) = i /\ Filled(r) = i + 1
    <3>1. CASE i + 1 = WindowSize
      BY <1>1, <1>2, <1>3, <1>10, <3>1 DEF Filled
    <3>2. CASE i + 1 # WindowSize
      <4>1. r.ringIdx = i + 1 /\ ~((i + 1) % WindowSize = 0)
        BY <1>1, <1>2, <1>3, <3>2
      <4>2. ~r.ringFull
        BY <1>2, <1>10, <4>1, Zenon
      <4>. QED
        BY <1>10, <4>1, <4>2 DEF Filled
    <3>. QED
      BY <3>1, <3>2
  <2>2. n = a
    <3>1. n = SubSeq(a, 1, Len(a))
      BY <1>1, <1>6, <2>1 DEF Contract!Newest
    <3>. QED
      BY <1>6, <3>1, SubSeqFull
  <2>3. ASSUME NEW k \in 1 .. i + 1 PROVE Place(r, k) = k - 1
    <3>1. CASE ~r.ringFull
      BY <3>1 DEF Place
    <3>2. CASE r.ringFull
      <4>1. r.ringIdx = 0
        BY <1>2, <1>10, <3>2, Zenon
      <4>2. k - 1 \in Nat /\ k - 1 < WindowSize /\ k - 1 = WindowSize * 0 + (k - 1)
        BY <1>1
      <4>3. (k - 1) % WindowSize = k - 1
        BY <1>1, <4>2, ModUnique, 0 \in Nat
      <4>4. r.ringIdx + k - 1 = k - 1
        BY <4>1
      <4>. QED
        BY <3>2, <4>3, <4>4 DEF Place
    <3>. QED
      BY <3>1, <3>2
  <2>4. ASSUME NEW k \in 1 .. i + 1 PROVE InOrder(r)[k] = a[k]
    <3>1. k - 1 \in Slots
      BY <1>1 DEF Slots
    <3>2. InOrder(r)[k] = IF k - 1 = i THEN success ELSE w.ring[k - 1]
      BY <1>7, <1>8, <2>1, <2>3, <3>1
    <3>3. k \in 1 .. i => s[k] = w.ring[k - 1]
      BY <1>5, <1>10, <2>1 DEF Place
    <3>. QED
      BY <1>1, <1>6, <2>1, <3>2, <3>3
  <2>. QED
    <3>1. InOrder(r) = a
      BY <1>6, <1>7, <2>1, <2>4, SeqEqual
    <3>. QED
      BY <2>2, <3>1 DEF r, s, a
<1>11. CASE w.ringFull
  <2>1. Filled(w) = WindowSize /\ r.ringFull /\ Filled(r) = WindowSize
    BY <1>2, <1>11 DEF Filled
  <2>2. n = SubSeq(a, 2, WindowSize + 1)
    BY <1>1, <1>6, <2>1 DEF Contract!Newest
  <2>3. /\ n \in Seq(BOOLEAN) /\ Len(n) = WindowSize
        /\ \A k \in 1 .. WindowSize : n[k] = a[k + 1]
    <3>1. \A k \in 2 .. WindowSize + 1 : a[k] \in BOOLEAN
      BY <1>1, <1>6, <2>1, ElementOfSeq
    <3>. HIDE DEF n
    <3>. QED
      BY <1>1, <2>2, <3>1, SubSeqProperties
  <2>4. ASSUME NEW k \in 1 .. WindowSize PROVE Place(r, k) = (i + k) % WindowSize
    <3>1. i + 1 \in Nat /\ k - 1 \in Nat /\ (i + 1) + (k - 1) = i + k
      BY <1>1
    <3>2. (((i + 1) % WindowSize) + (k - 1)) % WindowSize = ((i + 1) + (k - 1)) % WindowSize
      BY <1>1, <3>1, ModShift
    <3>3. ((i + 1) % WindowSize) + (k - 1) = r.ringIdx + k - 1
      BY <1>1, <1>2, <1>3, <3>1
    <3>. QED
      BY <2>1, <3>1, <3>2, <3>3 DEF Place
  <2>5. ASSUME NEW k \in 1 .. WindowSize PROVE InOrder(r)[k] = n[k]
    <3>1. (i + k) % WindowSize \in Slots
      BY <1>1, DivMod, i + k \in Nat DEF Slots
    <3>2. InOrder(r)[k] = IF (i + k) % WindowSize = i THEN success
                          ELSE w.ring[(i + k) % WindowSize]
      BY <1>7, <1>8, <2>1, <2>4, <3>1
    <3>3. CASE k = WindowSize
      <4>1. (i + WindowSize) % WindowSize = i
        BY <1>1, ModUnique, 1 \in Nat, i + WindowSize \in Nat, i + WindowSize = WindowSize * 1 + i
      <4>. QED
        BY <1>1, <1>6, <2>1, <2>3, <3>2, <3>3, <4>1
    <3>4. CASE k # WindowSize
      <4>1. (i + k) % WindowSize # i
        <5>1. i % WindowSize = i
          BY <1>1, ModUnique, 0 \in Nat, i = WindowSize * 0 + i
        <5>2. i + k \in Nat /\ i < i + k /\ ~((i + k) - i >= WindowSize)
          BY <1>1, <3>4
        <5>. QED
          BY <1>1, <5>1, <5>2, SameMod
      <4>2. s[k + 1] = w.ring[(i + k) % WindowSize]
        <5>1. k + 1 \in 1 .. WindowSize /\ i + (k + 1) - 1 = i + k
          BY <1>1, <3>4
        <5>. QED
          BY <1>5, <1>11, <2>1, <5>1 DEF Place
      <4>3. n[k] = s[k + 1]
        BY <1>1, <1>6, <2>1, <2>3, <3>4
      <4>. QED
        BY <3>2, <4>1, <4>2, <4>3
    <3>. QED
      BY <3>3, <3>4
  <2>. HIDE DEF n
  <2>. QED
    <3>1. InOrder(r) = n
      BY <1>7, <2>1, <2>3, <2>5, SeqEqual
    <3>. QED
      BY <3>1 DEF n, r, s, a
<1>. QED
  BY <1>1, <1>10, <1>11

\* The cleared ring is the empty sequence.
LEMMA EmptyInOrder == InOrder(EmptyWindow) = <<>>
<1>1. EmptyWindow \in Window /\ Filled(EmptyWindow) = 0
  BY EmptyWindowType DEF EmptyWindow, Filled
<1>2. InOrder(EmptyWindow) \in Seq(BOOLEAN) /\ Len(InOrder(EmptyWindow)) = 0
  BY <1>1, InOrderIsSeq
<1>. QED
  BY <1>2, EmptySeq

\* The threshold test on the counters is the contract's test on the sequence.
LEMMA SameVerdict ==
    ASSUME NEW w \in Window, Counted(w)
    PROVE  Contract!TooManyFailures(InOrder(w)) <=> ShouldTrip(w.total, w.failures)
BY CountersOfSequence DEF Contract!TooManyFailures, ShouldTrip

\* Every step of the breaker is a step of the contract or leaves it alone.
LEMMA ContractStep ==
    ASSUME TypeOK, WindowCounts, [Next]_vars
    PROVE  [Contract!Next]_(Contract!vars)
<1>1. CASE window' = EmptyWindow /\ state' \in {"Open", "Closed"}
  <2>1. InOrder(window') = <<>>
    BY <1>1, EmptyInOrder
  <2>2. Contract!Verdict
    BY <1>1, <2>1 DEF Contract!Verdict
  <2>. QED
    BY <2>2 DEF Contract!Next
<1>2. ASSUME NEW success \in BOOLEAN,
             window' = Record(window, success), state' = state,
             state = "Closed" => ~ShouldTrip(window'.total, window'.failures)
      PROVE  Contract!Outcome(success)
  <2>1. window \in Window /\ Counted(window)
    BY DEF TypeOK, WindowCounts, Counted
  <2>2. window' \in Window /\ Counted(window')
    BY <1>2, <2>1, RecordType, RecordCounted
  <2>3. InOrder(window') = Contract!Newest(Append(InOrder(window), success))
    BY <1>2, <2>1, RecordSlides
  <2>4. state = "Closed" => ~Contract!TooManyFailures(InOrder(window'))
    BY <1>2, <2>2, SameVerdict
  <2>. QED
    BY <1>2, <2>3, <2>4 DEF Contract!Outcome
<1>3. CASE window' = window /\ (state' = state \/ (state = "Open" /\ state' = "HalfOpen"))
  <2>1. InOrder(window') = InOrder(window)
    BY <1>3
  <2>2. CASE state' = state
    BY <2>1, <2>2 DEF Contract!vars
  <2>3. CASE state = "Open" /\ state' = "HalfOpen"
    BY <2>1, <2>3 DEF Contract!Next, Contract!Probe
  <2>. QED
    BY <1>3, <2>2, <2>3
<1>. QED
  BY <1>1, <1>2, <1>3, WindowStep DEF Contract!Next

\* For every window size, threshold and number of callers, with panics, Reset
\* and State() readers, the breaker behaves like BreakerContract: as if it kept
\* the last WindowSize outcomes in order and opened when they reach the rate.
THEOREM RefinesContractCorrect == Spec => RefinesContract
<1>1. Init => Contract!Init
  BY EmptyInOrder DEF Init, Contract!Init
<1>2. TypeOK /\ WindowCounts /\ [Next]_vars => [Contract!Next]_(Contract!vars)
  BY ContractStep
<1>. QED
  BY <1>1, <1>2, TypeCorrect, WindowCountsCorrect, PTL DEF Spec, RefinesContract, Contract!Spec

\* What is known of the channel, and that nobody knows anything before it is made.
MonitorInv ==
    /\ HealthMirror
    /\ ~health.init => health.ch = <<>> /\ health.seen = "nothing"

\* The monitor's knowledge: whenever the newest event was not dropped, the
\* channel of Health() ends in the state the breaker is in.
THEOREM HealthMirrorCorrect == Spec => []HealthMirror
<1>1. Init => MonitorInv
  BY DEF Init, MonitorInv, HealthMirror
<1>2. TypeOK /\ MonitorInv /\ [Next]_vars => MonitorInv'
  <2> SUFFICES ASSUME TypeOK, MonitorInv, [Next]_vars PROVE MonitorInv'
    OBVIOUS
  <2>1. /\ health \in [init : BOOLEAN, ch : Seq(States),
                       seen : States \cup {"nothing"}, missed : BOOLEAN]
        /\ health.ch \in Seq(States)
    BY DEF TypeOK, HealthTypeOK
  <2>2. ASSUME NEW s \in States, Emit(s), state' = s PROVE MonitorInv'
    <3>1. CASE ~health.init
      BY <2>2, <3>1 DEF Emit, MonitorInv, HealthMirror
    <3>2. CASE health.init /\ Len(health.ch) < HealthCap
      <4>1. health' = [health EXCEPT !.ch = Append(health.ch, s), !.missed = FALSE]
        BY <2>2, <3>2 DEF Emit
      <4>2. health'.ch = Append(health.ch, s) /\ health'.init = health.init
        BY <2>1, <4>1
      <4>3. Append(health.ch, s) # <<>>
            /\ Append(health.ch, s)[Len(Append(health.ch, s))] = s
        BY <2>1
      <4>. QED
        BY <2>2, <3>2, <4>2, <4>3 DEF MonitorInv, HealthMirror
    <3>3. CASE health.init /\ ~(Len(health.ch) < HealthCap)
      BY <2>1, <2>2, <3>3 DEF Emit, MonitorInv, HealthMirror
    <3>. QED
      BY <3>1, <3>2, <3>3
  <2>3. CASE UNCHANGED <<state, health>>
    BY <2>3 DEF MonitorInv, HealthMirror
  <2>4. CASE Subscribe
    <3>1. state' = state /\ ~health.init /\ health' = [health EXCEPT !.init = TRUE]
      BY <2>4 DEF Subscribe
    <3>. QED
      BY <2>1, <3>1 DEF MonitorInv, HealthMirror
  <2>5. CASE Receive
    <3>1. /\ state' = state /\ health.ch # <<>>
          /\ health'.ch = Tail(health.ch) /\ health'.seen = Head(health.ch)
          /\ health'.init = health.init /\ health'.missed = health.missed
      BY <2>1, <2>5 DEF Receive
    <3>2. /\ Len(health.ch) \in Nat \ {0}
          /\ Tail(health.ch) \in Seq(States) /\ Len(Tail(health.ch)) = Len(health.ch) - 1
          /\ \A i \in 1 .. Len(Tail(health.ch)) : Tail(health.ch)[i] = health.ch[i + 1]
          /\ Head(health.ch) = health.ch[1]
      BY <2>1, <3>1, HeadTailProperties, EmptySeq
    <3>3. CASE Tail(health.ch) = <<>>
      <4>1. Len(health.ch) = 1
        BY <2>1, <3>1, <3>3, LastOfTail
      <4>. QED
        BY <3>1, <3>2, <3>3, <4>1 DEF MonitorInv, HealthMirror
    <3>4. CASE Tail(health.ch) # <<>>
      <4>1. Len(Tail(health.ch)) \in Nat \ {0}
        BY <3>2, <3>4, EmptySeq
      <4>2. Tail(health.ch)[Len(Tail(health.ch))] = health.ch[Len(health.ch)]
        BY <2>1, <3>1, <3>4, LastOfTail
      <4>. QED
        BY <3>1, <3>4, <4>2 DEF MonitorInv, HealthMirror
    <3>. QED
      BY <3>3, <3>4
  <2>6. ASSUME NEW c \in Calls, Begin(c) PROVE MonitorInv'
    <3>1. CASE UNCHANGED <<state, health>>
      BY <2>3, <3>1
    <3>2. CASE Emit("HalfOpen") /\ state' = "HalfOpen"
      BY <2>2, <3>2 DEF States
    <3>. QED
      BY <2>6, <3>1, <3>2 DEF Begin, AdmitClosed, Refuse, AdmitFirstProbe, AdmitProbe, ToHalfOpen
  <2>7. ASSUME ToOpen \/ ToClosed PROVE MonitorInv'
    BY <2>2, <2>7 DEF ToOpen, ToClosed, States
  <2>8. ASSUME NEW c \in Calls, Finish(c) PROVE MonitorInv'
    <3>1. ToOpen \/ ToClosed \/ UNCHANGED <<state, health>>
      BY <2>8 DEF Finish, FinishClosed, ProbeFails, ProbeSucceeds, Panic
    <3>. QED
      BY <2>3, <2>7, <3>1
  <2>9. CASE Reset
    BY <2>7, <2>9 DEF Reset
  <2>10. CASE PollLock
    <3>1. CASE Emit("HalfOpen") /\ state' = "HalfOpen"
      BY <2>2, <3>1 DEF States
    <3>. QED
      BY <2>3, <2>10, <3>1 DEF PollLock, ToHalfOpen
  <2>11. CASE PollRead \/ Tick \/ UNCHANGED vars
    BY <2>3, <2>11 DEF PollRead, Tick, vars
  <2>. QED
    BY <2>4, <2>5, <2>6, <2>8, <2>9, <2>10, <2>11 DEF Next
<1>3. MonitorInv => HealthMirror
  BY DEF MonitorInv
<1>. QED
  BY <1>1, <1>2, <1>3, TypeCorrect, PTL DEF Spec

=============================================================================
