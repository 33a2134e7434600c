----------------------------- MODULE HedgedProofs -----------------------------
(* Theorems about a hedged call for every number of attempts.              *)
EXTENDS Hedged, FiniteSetTheorems, SequenceTheorems, TLAPS

(***************************************************************************)
(* The inductive invariant.  Counting the attempts in flight is not enough *)
(* for what the caller is told: an outcome that vanishes with a done       *)
(* context stays in inFlight for ever, and that is what keeps a call whose *)
(* success was abandoned from reporting that it ran out of attempts.       *)
(***************************************************************************)

Shape ==
    /\ pc \in {"launch", "wait", "returned", "read"}
    /\ started \in 0 .. MaxAttempts
    /\ inFlight \in Nat
    /\ errs \in Seq(Outcomes \ {"ok"})
    /\ ctxDone \in BOOLEAN
    /\ attempt \in [Attempts -> Outcomes \cup {"none", "running", "gone"}]
    /\ results \in Seq(Outcomes) /\ Len(results) <= MaxAttempts
    /\ result \in Attempts \cup {None}
    /\ ret \in {"none", "ok", "failed", "stopped", "cancelled"}
    /\ granted = {a \in Attempts : attempt[a] # "none"}

\* The verdict is there when the call has returned; attempts start in order.
Phases ==
    /\ ret = "none" <=> ~Returned
    /\ \A a \in granted : a < started
    /\ started > 0 => granted # {}

\* Every attempt that was started is in flight, in errs or the success taken.
Books ==
    inFlight + Len(errs) + (IF ret = "ok" THEN 1 ELSE 0) = Cardinality(granted)

\* Attempts whose outcome can still be taken.
Reachable == Cardinality(Outstanding) + Len(results)

\* A success is on its way to the caller.
Winning ==
    \/ \E a \in Attempts : attempt[a] = "ok"
    \/ \E i \in DOMAIN results : results[i] = "ok"

Values ==
    /\ Winning => result # None
    /\ ret = "ok" => result # None
    /\ result # None /\ ~Returned => Winning \/ inFlight > Reachable

Exhausted ==
    ret = "failed" => inFlight = 0 /\ Outstanding = {} /\ results = <<>> /\ result = None

IInv == Shape /\ Phases /\ Books /\ InFlightExact /\ Values /\ Exhausted

-----------------------------------------------------------------------------
(* Facts about the sets and the channel. *)

\* Sets of attempts are finite and no larger than MaxAttempts.
LEMMA Finite ==
    ASSUME NEW S \in SUBSET Attempts
    PROVE  IsFiniteSet(S) /\ Cardinality(S) \in 0 .. MaxAttempts
<1>1. IsFiniteSet(Attempts) /\ Cardinality(Attempts) = MaxAttempts
  BY HedgedAssumption, FS_Interval DEF Attempts
<1>2. IsFiniteSet(S) /\ Cardinality(S) <= Cardinality(Attempts)
  BY <1>1, FS_Subset
<1>. QED
  BY <1>1, <1>2, FS_CardinalityType, HedgedAssumption

\* What is outstanding is a set of attempts.
LEMMA OutstandingIsFinite ==
    ASSUME Shape
    PROVE  /\ granted \in SUBSET Attempts /\ Outstanding \in SUBSET Attempts
           /\ IsFiniteSet(granted) /\ IsFiniteSet(Outstanding)
           /\ Cardinality(granted) \in 0 .. MaxAttempts
           /\ Cardinality(Outstanding) \in Nat
           /\ Reachable \in Nat
<1>1. granted \in SUBSET Attempts /\ Outstanding \in SUBSET Attempts
  BY DEF Shape, Outstanding
<1>2. IsFiniteSet(granted) /\ IsFiniteSet(Outstanding)
      /\ Cardinality(granted) \in 0 .. MaxAttempts
      /\ Cardinality(Outstanding) \in 0 .. MaxAttempts
  BY <1>1, Finite
<1>3. Len(results) \in Nat
  BY DEF Shape
<1>. QED
  BY <1>1, <1>2, <1>3, HedgedAssumption DEF Reachable

-----------------------------------------------------------------------------
(* The steps. *)

\* The first state satisfies the invariant.
LEMMA InitHolds == Init => IInv
<1>. SUFFICES ASSUME Init PROVE IInv
  OBVIOUS
<1>1. Outstanding = {} /\ granted = {} /\ Len(results) = 0 /\ Len(errs) = 0
  BY DEF Init, Outstanding
<1>2. Cardinality(Outstanding) = 0 /\ Cardinality(granted) = 0
  BY <1>1, FS_EmptySet
<1>3. Shape
  BY HedgedAssumption DEF Init, Shape, Outcomes, Attempts, None
<1>4. Phases /\ Books /\ InFlightExact /\ Values /\ Exhausted
  BY <1>1, <1>2 DEF Init, Phases, Returned, Books, InFlightExact, Values, Winning, Exhausted
<1>. QED
  BY <1>3, <1>4 DEF IInv

\* A launch adds one attempt to both sides of every equation.
LEMMA LaunchNextKeeps ==
    ASSUME IInv, LaunchNext
    PROVE  IInv'
<1>. USE DEF IInv
<1>1. /\ started \in Attempts /\ started \notin granted /\ attempt[started] = "none"
      /\ started' = started + 1 /\ inFlight' = inFlight + 1
      /\ attempt' = [attempt EXCEPT ![started] = "running"]
      /\ granted' = granted \cup {started}
      /\ errs' = errs /\ results' = results /\ result' = result
      /\ pc = "launch" /\ inFlight \in Nat
  <2>1. started \in Attempts /\ started \notin granted
    BY HedgedAssumption DEF LaunchNext, Shape, Phases, Attempts
  <2>. QED
    BY <2>1 DEF LaunchNext, Shape
<1>2. pc' = "wait" /\ ret' = ret /\ ctxDone' = ctxDone
  BY <1>1 DEF LaunchNext, Settle
<1>3. Outstanding' = Outstanding \cup {started} /\ started \notin Outstanding
  BY <1>1 DEF Shape, Outstanding
<1>4. /\ Cardinality(Outstanding)' = Cardinality(Outstanding) + 1
      /\ Cardinality(granted)' = Cardinality(granted) + 1
      /\ Cardinality(granted) \in Nat /\ Cardinality(Outstanding) \in Nat
      /\ Len(results) \in Nat /\ Len(errs) \in Nat
  <2>1. /\ IsFiniteSet(granted) /\ IsFiniteSet(Outstanding)
        /\ Cardinality(granted) \in Nat /\ Cardinality(Outstanding) \in Nat
    BY OutstandingIsFinite
  <2>2. Cardinality(Outstanding \cup {started}) = Cardinality(Outstanding) + 1
    BY <1>3, <2>1, FS_AddElement
  <2>3. Cardinality(granted \cup {started}) = Cardinality(granted) + 1
    BY <1>1, <2>1, FS_AddElement
  <2>4. Len(results) \in Nat /\ Len(errs) \in Nat
    BY DEF Shape
  <2>. QED
    BY <1>1, <1>3, <2>1, <2>2, <2>3, <2>4
<1>5. Shape'
  BY <1>1, <1>2, HedgedAssumption DEF Shape, Attempts, Outcomes
<1>6. Phases' /\ Books' /\ InFlightExact'
  BY <1>1, <1>2, <1>4 DEF Phases, Returned, Books, InFlightExact, Shape
<1>7. Values' /\ Exhausted'
  <2>1. Winning' <=> Winning
    BY <1>1 DEF Winning, Shape
  <2>2. Reachable' = Reachable + 1 /\ Reachable \in Nat
    BY <1>1, <1>4 DEF Reachable
  <2>. QED
    BY <1>1, <1>2, <2>1, <2>2 DEF Values, Exhausted, Phases, Returned
<1>. QED
  BY <1>5, <1>6, <1>7

\* The loop ends only when the outcome of every attempt has been taken.
LEMMA LaunchEndsKeeps ==
    ASSUME IInv, LaunchRefused \/ LaunchNone
    PROVE  IInv'
<1>. USE DEF IInv
<1>1. /\ pc = "launch" /\ inFlight' = inFlight /\ errs' = errs /\ attempt' = attempt
      /\ results' = results /\ result' = result /\ granted' = granted
      /\ started' \in 0 .. MaxAttempts /\ started' >= started /\ started > 0 /\ Settle
  BY HedgedAssumption DEF LaunchRefused, LaunchNone, Shape
<1>2. /\ ret = "none" /\ Outstanding' = Outstanding /\ Reachable' = Reachable
      /\ (Winning' <=> Winning) /\ Reachable \in Nat /\ inFlight >= Reachable
      /\ Len(results) \in Nat /\ Cardinality(Outstanding) \in Nat
      /\ inFlight \in Nat /\ Len(errs) \in Nat
  BY <1>1, OutstandingIsFinite DEF Phases, Returned, Outstanding, Reachable, Winning,
     InFlightExact, Shape
<1>3. Phases'
  <2>1. (ret' = "none") <=> ~Returned'
    BY <1>1, <1>2 DEF Settle, Return, Returned
  <2>2. granted # {} /\ \A a \in granted : a < started
    BY <1>1 DEF Phases
  <2>3. \A a \in granted : a < started'
    BY <1>1, <2>2, HedgedAssumption DEF Shape, Attempts
  <2>. QED
    BY <1>1, <2>1, <2>2, <2>3 DEF Phases
<1>4. CASE inFlight = 0 /\ started' >= MaxAttempts
  <2>1. pc' = "returned" /\ ret' = "failed" /\ ctxDone' = TRUE
    BY <1>1, <1>4 DEF Settle, Return
  <2>2. Reachable = 0 /\ Cardinality(Outstanding) = 0 /\ Len(results) = 0
    BY <1>2, <1>4 DEF Reachable
  <2>3. Outstanding = {} /\ results = <<>>
    BY <2>2, OutstandingIsFinite, FS_EmptySet, EmptySeq DEF Shape
  <2>4. ~Winning
    BY <2>3 DEF Outstanding, Winning, Shape
  <2>5. result = None
    BY <1>1, <1>2, <1>4, <2>2, <2>4 DEF Values, Returned
  <2>. QED
    BY <1>1, <1>2, <1>4, <1>3, <2>1, <2>3, <2>4, <2>5
       DEF Shape, Returned, Books, InFlightExact, Values, Exhausted, Outcomes
<1>5. CASE ~(inFlight = 0 /\ started' >= MaxAttempts)
  <2>1. pc' = "wait" /\ ret' = ret /\ ctxDone' = ctxDone
    BY <1>1, <1>5 DEF Settle
  <2>. QED
    BY <1>1, <1>2, <1>3, <2>1
       DEF Shape, Returned, Books, InFlightExact, Values, Exhausted, Outcomes
<1>. QED
  BY <1>4, <1>5

\* A call that gives up, or is read, changes no count.
LEMMA QuietKeeps ==
    ASSUME IInv, HedgingDelayPasses \/ GiveUp \/ ReadResult \/ Cancel
    PROVE  IInv'
<1>. USE DEF IInv
<1>1. /\ inFlight' = inFlight /\ errs' = errs /\ attempt' = attempt /\ started' = started
      /\ results' = results /\ result' = result /\ granted' = granted
      /\ Outstanding' = Outstanding /\ Reachable' = Reachable /\ (Winning' <=> Winning)
  BY DEF HedgingDelayPasses, GiveUp, ReadResult, Cancel, Outstanding, Reachable, Winning
<1>2. CASE GiveUp
  <2>1. ctxDone /\ ctxDone' = TRUE /\ pc' = "returned" /\ ret' = "cancelled" /\ ret = "none"
    BY <1>2 DEF GiveUp, Return, Phases, Returned
  <2>. QED
    BY <1>1, <2>1 DEF Shape, Phases, Returned, Books, InFlightExact, Values, Exhausted
<1>3. CASE HedgingDelayPasses \/ ReadResult \/ Cancel
  <2>1. /\ ret' = ret /\ (Returned' <=> Returned) /\ (ctxDone' = ctxDone \/ ctxDone' = TRUE)
        /\ pc' \in {"launch", "wait", "returned", "read"}
    BY <1>3 DEF HedgingDelayPasses, ReadResult, Cancel, Returned, Shape
  <2>2. Cardinality(Outstanding)' = Cardinality(Outstanding)
        /\ Cardinality(granted)' = Cardinality(granted)
    BY <1>1
  <2>3. Shape' /\ Phases' /\ Books'
    BY <1>1, <2>1 DEF Shape, Phases, Books
  <2>4. InFlightExact'
    BY <1>1, <2>1, <2>2, OutstandingIsFinite DEF InFlightExact, Shape
  <2>5. Values' /\ Exhausted'
    BY <1>1, <2>1 DEF Values, Exhausted
  <2>. QED
    BY <2>3, <2>4, <2>5
<1>. QED
  BY <1>2, <1>3

\* An outcome is taken off the channel and off inFlight together.
LEMMA TakeResultKeeps ==
    ASSUME IInv, TakeResult
    PROVE  IInv'
<1>. USE DEF IInv
<1>1. /\ pc = "wait" /\ results # <<>> /\ results' = Tail(results)
      /\ inFlight' = inFlight - 1 /\ started' = started /\ attempt' = attempt
      /\ result' = result /\ granted' = granted
      /\ ret = "none" /\ ~Returned
  BY DEF TakeResult, Phases, Returned
<1>2. /\ Head(results) \in Outcomes /\ Tail(results) \in Seq(Outcomes)
      /\ Len(Tail(results)) = Len(results) - 1
      /\ \A i \in 1 .. Len(Tail(results)) : Tail(results)[i] = results[i + 1]
      /\ Len(results) \in Nat \ {0} /\ DOMAIN results = 1 .. Len(results)
      /\ DOMAIN results' = 1 .. Len(results) - 1
      /\ Head(results) = results[1]
      /\ results \in Seq(Outcomes)
  <2>1. /\ Head(results) \in Outcomes /\ Tail(results) \in Seq(Outcomes)
        /\ Len(Tail(results)) = Len(results) - 1
        /\ \A i \in 1 .. Len(Tail(results)) : Tail(results)[i] = results[i + 1]
    BY <1>1, HeadTailProperties DEF Shape
  <2>2. results \in Seq(Outcomes) /\ Len(results) \in Nat \ {0}
    BY <1>1, EmptySeq DEF Shape
  <2>. QED
    BY <1>1, <2>1, <2>2
<1>3. /\ Outstanding' = Outstanding /\ Reachable' = Reachable - 1 /\ Reachable \in Nat
      /\ Cardinality(Outstanding) \in Nat /\ inFlight >= Reachable
      /\ inFlight \in Nat \ {0} /\ Len(errs) \in Nat
      /\ Cardinality(Outstanding)' = Cardinality(Outstanding)
      /\ Cardinality(granted)' = Cardinality(granted)
  BY <1>1, <1>2, OutstandingIsFinite DEF Outstanding, Reachable, InFlightExact, Shape
<1>4. Winning' => Winning
  BY <1>1, <1>2 DEF Winning
<1>5. Head(results) # "ok" => (Winning' <=> Winning)
  <2>. SUFFICES ASSUME Head(results) # "ok", NEW i \in DOMAIN results, results[i] = "ok"
                PROVE  Winning'
    BY <1>1, <1>4 DEF Winning
  <2>1. i # 1 /\ i - 1 \in 1 .. Len(results) - 1 /\ results'[i - 1] = "ok"
    BY <1>1, <1>2
  <2>. QED
    BY <1>2, <2>1 DEF Winning
<1>6. CASE Head(results) = "ok"
  <2>1. pc' = "returned" /\ ret' = "ok" /\ ctxDone' = TRUE /\ errs' = errs
    BY <1>6 DEF TakeResult, Return
  <2>2. result # None
    BY <1>2, <1>6 DEF Winning, Values
  <2>3. Shape'
    <3>1. inFlight' \in Nat /\ results' \in Seq(Outcomes) /\ Len(results') <= MaxAttempts
      BY <1>1, <1>2, <1>3, HedgedAssumption DEF Shape
    <3>. QED
      BY <1>1, <2>1, <3>1 DEF Shape
  <2>4. Phases' /\ Books'
    BY <1>1, <1>3, <2>1 DEF Phases, Returned, Books
  <2>5. InFlightExact' /\ Values' /\ Exhausted'
    BY <1>1, <1>4, <2>1, <2>2 DEF InFlightExact, Returned, Values, Exhausted
  <2>. QED
    BY <2>3, <2>4, <2>5
<1>7. CASE Head(results) \in {"stop", "retry"}
  <2>1. /\ errs' = Append(errs, Head(results)) /\ ret' \in {"none", "stopped"}
        /\ (ret' = "none" <=> ~Returned')
        /\ pc' \in {"launch", "returned"}
        /\ (ctxDone' = ctxDone \/ ctxDone' = TRUE)
    BY <1>1, <1>7 DEF TakeResult, Return, Returned
  <2>2. errs' \in Seq(Outcomes \ {"ok"}) /\ Len(errs') = Len(errs) + 1
    BY <1>7, <2>1, AppendProperties DEF Shape, Outcomes
  <2>3. Shape'
    <3>1. inFlight' \in Nat /\ results' \in Seq(Outcomes) /\ Len(results') <= MaxAttempts
      BY <1>1, <1>2, <1>3, HedgedAssumption DEF Shape
    <3>. QED
      BY <1>1, <2>1, <2>2, <3>1 DEF Shape
  <2>4. Phases'
    BY <1>1, <2>1 DEF Phases
  <2>5. Books'
    <3>1. ret # "ok" /\ ret' # "ok" /\ Cardinality(granted) \in Nat
      BY <1>1, <2>1, OutstandingIsFinite
    <3>. QED
      BY <1>1, <1>3, <2>2, <3>1 DEF Books
  <2>6. InFlightExact' /\ Values' /\ Exhausted'
    BY <1>1, <1>2, <1>3, <1>5, <1>7, <2>1 DEF Shape, InFlightExact, Values, Exhausted, Reachable
  <2>. QED
    BY <2>3, <2>4, <2>5, <2>6
<1>. QED
  BY <1>2, <1>6, <1>7 DEF Outcomes

\* A success stores a value before its outcome can be seen.
LEMMA ActionReturnsKeeps ==
    ASSUME IInv, NEW a \in Attempts, NEW outcome \in Outcomes, ActionReturns(a, outcome)
    PROVE  IInv'
<1>. USE DEF IInv
<1>1. /\ attempt[a] = "running" /\ attempt' = [attempt EXCEPT ![a] = outcome]
      /\ result' = IF outcome = "ok" /\ result = None THEN a ELSE result
      /\ pc' = pc /\ started' = started /\ inFlight' = inFlight /\ errs' = errs
      /\ ctxDone' = ctxDone /\ results' = results /\ ret' = ret /\ granted' = granted
  BY DEF ActionReturns
<1>2. /\ Outstanding' = Outstanding /\ Reachable' = Reachable /\ a \in Outstanding
      /\ a # None
  <2>1. Outstanding' = Outstanding /\ a \in Outstanding
    BY <1>1 DEF Outstanding, Shape, Outcomes
  <2>2. a # None
    BY HedgedAssumption DEF Attempts, None
  <2>. QED
    BY <1>1, <2>1, <2>2 DEF Reachable
<1>3. Winning' <=> Winning \/ outcome = "ok"
  BY <1>1 DEF Winning, Shape
<1>4. Shape'
  BY <1>1 DEF Shape, Outcomes
<1>. QED
  BY <1>1, <1>2, <1>3, <1>4
     DEF Phases, Returned, Books, InFlightExact, Values, Exhausted

\* An outcome moves from a goroutine to the channel.
LEMMA DeliverKeeps ==
    ASSUME IInv, NEW a \in Attempts, Deliver(a)
    PROVE  IInv'
<1>. USE DEF IInv
<1>1. /\ attempt[a] \in Outcomes /\ Len(results) < MaxAttempts
      /\ results' = Append(results, attempt[a])
      /\ attempt' = [attempt EXCEPT ![a] = "gone"]
      /\ pc' = pc /\ started' = started /\ inFlight' = inFlight /\ errs' = errs
      /\ ctxDone' = ctxDone /\ result' = result /\ ret' = ret /\ granted' = granted
  BY DEF Deliver
<1>2. Outstanding' = Outstanding \ {a} /\ a \in Outstanding
  BY <1>1 DEF Outstanding, Shape, Outcomes
<1>3. /\ results' \in Seq(Outcomes) /\ Len(results') = Len(results) + 1
      /\ DOMAIN results' = 1 .. Len(results) + 1 /\ DOMAIN results = 1 .. Len(results)
      /\ \A i \in 1 .. Len(results) : results'[i] = results[i]
      /\ results'[Len(results) + 1] = attempt[a]
      /\ Len(results) \in Nat
  BY <1>1 DEF Shape
<1>4. /\ Cardinality(Outstanding)' = Cardinality(Outstanding) - 1
      /\ Cardinality(Outstanding) \in Nat /\ Reachable \in Nat
      /\ Cardinality(granted)' = Cardinality(granted)
  BY <1>1, <1>2, OutstandingIsFinite, FS_RemoveElement
<1>5. Reachable' = Reachable
  BY <1>3, <1>4 DEF Reachable
<1>6. Winning' <=> Winning
  <2>1. Winning => Winning'
    BY <1>1, <1>3 DEF Winning, Shape
  <2>2. Winning' => Winning
    BY <1>1, <1>3 DEF Winning, Shape
  <2>. QED
    BY <2>1, <2>2
<1>7. Shape'
  BY <1>1, <1>3, HedgedAssumption DEF Shape, Outcomes
<1>8. ret # "failed"
  BY <1>2 DEF Exhausted
<1>9. Phases' /\ Books' /\ Exhausted'
  BY <1>1, <1>4, <1>8 DEF Phases, Returned, Books, Exhausted
<1>10. InFlightExact'
  BY <1>1, <1>3, <1>4 DEF Returned, InFlightExact, Shape
<1>11. Values'
  BY <1>1, <1>5, <1>6 DEF Returned, Values
<1>. QED
  BY <1>7, <1>9, <1>10, <1>11

\* An outcome vanishes, and inFlight keeps it.
LEMMA AbandonKeeps ==
    ASSUME IInv, NEW a \in Attempts, Abandon(a)
    PROVE  IInv'
<1>. USE DEF IInv
<1>1. /\ attempt[a] \in Outcomes /\ ctxDone
      /\ attempt' = [attempt EXCEPT ![a] = "gone"]
      /\ pc' = pc /\ started' = started /\ inFlight' = inFlight /\ errs' = errs
      /\ results' = results
      /\ ctxDone' = ctxDone /\ result' = result /\ ret' = ret /\ granted' = granted
  BY DEF Abandon
<1>2. Outstanding' = Outstanding \ {a} /\ a \in Outstanding
  BY <1>1 DEF Outstanding, Shape, Outcomes
<1>3. /\ Cardinality(Outstanding)' = Cardinality(Outstanding) - 1
      /\ Cardinality(Outstanding) \in Nat /\ Reachable \in Nat
      /\ Cardinality(granted)' = Cardinality(granted) /\ Len(results) \in Nat
  <2>1. /\ IsFiniteSet(Outstanding) /\ Cardinality(Outstanding) \in Nat
        /\ Reachable \in Nat /\ Len(results) \in Nat
    BY OutstandingIsFinite DEF Shape
  <2>2. Cardinality(Outstanding \ {a}) = Cardinality(Outstanding) - 1
    BY <1>2, <2>1, FS_RemoveElement
  <2>. QED
    BY <1>1, <1>2, <2>1, <2>2
<1>4. Reachable' = Reachable - 1
  BY <1>1, <1>3 DEF Reachable
<1>5. Winning' => Winning
  BY <1>1 DEF Winning, Shape
<1>6. Shape'
  BY <1>1 DEF Shape, Outcomes
<1>7. ret # "failed"
  BY <1>2 DEF Exhausted
<1>8. ~Returned => inFlight > Reachable'
  BY <1>3, <1>4 DEF InFlightExact, Reachable, Shape
<1>9. InFlightExact' /\ Values'
  BY <1>1, <1>3, <1>4, <1>5, <1>8 DEF InFlightExact, Values, Reachable, Returned, Shape
<1>. QED
  BY <1>1, <1>3, <1>6, <1>7, <1>9 DEF Phases, Returned, Books, Exhausted

\* The invariant holds throughout.
LEMMA Invariant == Spec => []IInv
<1>1. IInv /\ [Next]_vars => IInv'
  <2>. SUFFICES ASSUME IInv, [Next]_vars PROVE IInv'
    OBVIOUS
  <2>1. CASE UNCHANGED vars
    BY <2>1 DEF vars, IInv, Shape, Phases, Books, InFlightExact, Values, Exhausted,
       Outstanding, Reachable, Winning, Returned
  <2>2. CASE Caller
    BY <2>2, LaunchNextKeeps, LaunchEndsKeeps, QuietKeeps, TakeResultKeeps DEF Caller
  <2>3. ASSUME NEW a \in Attempts, Goroutine(a) PROVE IInv'
    BY <2>3, ActionReturnsKeeps, DeliverKeeps, AbandonKeeps DEF Goroutine
  <2>. QED
    BY <2>1, <2>2, <2>3, QuietKeeps DEF Next
<1>. QED
  BY <1>1, InitHolds, PTL DEF Spec

-----------------------------------------------------------------------------
(* Theorems. *)

\* The types, with inFlight and errs within the number of attempts: the results
\* channel, which has that capacity, never blocks a goroutine for ever.
THEOREM TypeCorrect == Spec => []TypeOK
<1>1. IInv => TypeOK
  <2>. SUFFICES ASSUME IInv PROVE TypeOK
    OBVIOUS
  <2>1. Cardinality(granted) \in 0 .. MaxAttempts
    BY OutstandingIsFinite DEF IInv
  <2>2. inFlight \in 0 .. MaxAttempts /\ Len(errs) <= MaxAttempts
    BY <2>1, HedgedAssumption DEF IInv, Shape, Books
  <2>. QED
    BY <2>2 DEF IInv, Shape, TypeOK
<1>. QED
  BY <1>1, Invariant, PTL

\* executeHedged's own count is the number of outcomes it can still be told,
\* and more only after outcomes have vanished with a done context.
THEOREM InFlightExactCorrect == Spec => []InFlightExact
<1>1. IInv => InFlightExact
  BY DEF IInv
<1>. QED
  BY <1>1, Invariant, PTL

\* A nil error comes with a value that some attempt has stored.
THEOREM OkHasValueCorrect == Spec => []OkHasValue
<1>1. IInv => OkHasValue
  BY DEF IInv, Values, OkHasValue
<1>. QED
  BY <1>1, Invariant, PTL

\* A call that reports that its attempts are exhausted has every error of every
\* attempt, and none of them has stored a value.
THEOREM ExhaustionIsCompleteCorrect == Spec => []ExhaustionIsComplete
<1>1. IInv => ExhaustionIsComplete
  <2>. SUFFICES ASSUME IInv, ret = "failed" PROVE ExhaustionIsComplete
    BY DEF ExhaustionIsComplete
  <2>1. inFlight = 0 /\ Len(errs) \in Nat /\ Len(errs) = Cardinality(granted)
    BY DEF IInv, Exhausted, Books, Shape
  <2>. QED
    BY <2>1 DEF IInv, Exhausted, ExhaustionIsComplete
<1>. QED
  BY <1>1, Invariant, PTL

\* After the verdict nothing is launched, taken or collected.
THEOREM NothingAfterStopCorrect == Spec => NothingAfterStop
<1>1. IInv /\ [Next]_vars
          => [ret # "none" => UNCHANGED <<started, inFlight, errs, granted, ret>>]_vars
  <2>. SUFFICES ASSUME IInv, Next, ret # "none"
                PROVE  UNCHANGED <<started, inFlight, errs, granted, ret>>
    OBVIOUS
  <2>1. pc \in {"returned", "read"}
    BY DEF IInv, Phases, Returned
  <2>2. CASE Caller
    BY <2>1, <2>2 DEF Caller, LaunchNext, LaunchRefused, LaunchNone, HedgingDelayPasses,
       GiveUp, TakeResult, ReadResult
  <2>3. ASSUME NEW a \in Attempts, Goroutine(a)
        PROVE  UNCHANGED <<started, inFlight, errs, granted, ret>>
    BY <2>3 DEF Goroutine, ActionReturns, Deliver, Abandon
  <2>. QED
    BY <2>2, <2>3 DEF Next, Cancel
<1>. QED
  BY <1>1, Invariant, PTL DEF Spec, NothingAfterStop

-----------------------------------------------------------------------------
(* Hedged implements HedgedContract. *)

Running == {a \in granted : attempt[a] = "running"}

\* An outcome that can be taken comes from an attempt that has ended.
LEMMA ResultsHaveEnded ==
    ASSUME IInv, results # <<>>, ret = "none"
    PROVE  granted # Running
<1>1. /\ Cardinality(granted) \in Nat /\ Cardinality(Outstanding) \in Nat
      /\ Len(results) \in Nat \ {0} /\ Len(errs) \in Nat /\ inFlight \in Nat
  BY OutstandingIsFinite, EmptySeq DEF IInv, Shape
<1>2. inFlight + Len(errs) = Cardinality(granted)
  BY <1>1 DEF IInv, Books
<1>3. inFlight >= Cardinality(Outstanding) + Len(results)
  BY DEF IInv, InFlightExact, Phases
<1>4. granted # Outstanding
  BY <1>1, <1>2, <1>3
<1>. QED
  BY <1>4 DEF Outstanding, Running

\* The steps of executeHedged and of DoStateHedged.
LEMMA CallerStep ==
    ASSUME IInv, Caller
    PROVE  Contract!Next \/ UNCHANGED Contract!vars
<1>. USE DEF Running
<1>1. CASE LaunchNext
  <2>1. /\ ret = "none" /\ started \in Attempts \ granted
        /\ granted' = granted \cup {started}
        /\ attempt' = [attempt EXCEPT ![started] = "running"]
        /\ result' = result
    BY <1>1, HedgedAssumption DEF LaunchNext, IInv, Shape, Phases, Returned, Attempts
  <2>2. ret' = ret /\ ctxDone' = ctxDone
    <3>1. inFlight \in Nat /\ inFlight' = inFlight + 1
      BY <1>1 DEF LaunchNext, IInv, Shape
    <3>. QED
      BY <1>1, <3>1 DEF LaunchNext, Settle
  <2>3. Running' = Running \cup {started}
    BY <2>1 DEF IInv, Shape
  <2>4. Contract!Launch
    BY <2>1, <2>2, <2>3 DEF Contract!Launch
  <2>. QED
    BY <2>4 DEF Contract!Next
<1>2. CASE LaunchRefused \/ LaunchNone
  <2>1. /\ granted' = granted /\ attempt' = attempt /\ result' = result /\ inFlight' = inFlight
        /\ ret = "none" /\ started' = MaxAttempts /\ Settle
    BY <1>2 DEF LaunchRefused, LaunchNone, IInv, Phases, Returned
  <2>2. CASE started' >= MaxAttempts /\ inFlight' = 0
    <3>1. ret' = "failed" /\ ctxDone' = TRUE
      BY <2>1, <2>2 DEF Settle, Return
    <3>2. Exhausted'
      BY <1>2, LaunchEndsKeeps DEF IInv
    <3>3. Outstanding' = {} /\ result = None
      BY <2>1, <3>1, <3>2 DEF Exhausted
    <3>4. Running = {}
      BY <2>1, <3>3 DEF Outstanding, IInv, Shape
    <3>5. granted # {}
      <4>1. started > 0
        BY <1>2, HedgedAssumption DEF LaunchRefused, LaunchNone
      <4>. QED
        BY <4>1 DEF IInv, Phases
    <3>. QED
      BY <2>1, <3>1, <3>3, <3>4, <3>5 DEF Contract!Next, Contract!Conclude, Contract!Grounds
  <2>3. CASE ~(started' >= MaxAttempts /\ inFlight' = 0)
    BY <2>1, <2>3 DEF Settle, Contract!vars
  <2>. QED
    BY <2>2, <2>3
<1>3. CASE HedgingDelayPasses \/ ReadResult
  BY <1>3 DEF HedgingDelayPasses, ReadResult, Contract!vars
<1>4. CASE GiveUp
  BY <1>4 DEF GiveUp, Return, IInv, Phases, Returned,
     Contract!Next, Contract!Conclude, Contract!Grounds
<1>5. CASE TakeResult
  <2>1. /\ granted' = granted /\ attempt' = attempt /\ result' = result
        /\ ret = "none" /\ results # <<>>
    BY <1>5 DEF TakeResult, IInv, Phases, Returned
  <2>2. Head(results) \in Outcomes /\ Head(results) = results[1] /\ 1 \in DOMAIN results
    BY <2>1, HeadTailProperties, EmptySeq DEF IInv, Shape
  <2>3. CASE Head(results) = "ok"
    <3>1. ret' = "ok" /\ ctxDone' = TRUE
      BY <1>5, <2>3 DEF TakeResult, Return
    <3>2. result # None
      BY <2>2, <2>3 DEF IInv, Values, Winning
    <3>. QED
      BY <2>1, <3>1, <3>2 DEF Contract!Next, Contract!Conclude, Contract!Grounds
  <2>4. CASE Head(results) = "stop"
    <3>1. ret' = "stopped" /\ ctxDone' = TRUE
      BY <1>5, <2>4 DEF TakeResult, Return
    <3>2. granted # Running
      BY <2>1, ResultsHaveEnded
    <3>. QED
      BY <2>1, <3>1, <3>2 DEF Contract!Next, Contract!Conclude, Contract!Grounds
  <2>5. CASE Head(results) = "retry"
    BY <1>5, <2>1, <2>5 DEF TakeResult, Contract!vars
  <2>. QED
    BY <2>2, <2>3, <2>4, <2>5 DEF Outcomes
<1>. QED
  BY <1>1, <1>2, <1>3, <1>4, <1>5 DEF Caller

\* The steps of the goroutines.
LEMMA GoroutineStep ==
    ASSUME IInv, NEW a \in Attempts, Goroutine(a)
    PROVE  Contract!Next \/ UNCHANGED Contract!vars
<1>. USE DEF Running
<1>1. ASSUME NEW outcome \in Outcomes, ActionReturns(a, outcome)
      PROVE  Contract!Next
  <2>1. /\ a \in Running /\ granted' = granted /\ ctxDone' = ctxDone /\ ret' = ret
        /\ attempt' = [attempt EXCEPT ![a] = outcome]
        /\ result' = IF outcome = "ok" /\ result = None THEN a ELSE result
    BY <1>1 DEF ActionReturns, IInv, Shape
  <2>2. Running' = Running \ {a}
    BY <2>1 DEF IInv, Shape, Outcomes
  <2>3. CASE outcome = "ok"
    BY <2>1, <2>2, <2>3 DEF Contract!Next, Contract!Succeed
  <2>4. CASE outcome # "ok"
    BY <2>1, <2>2, <2>4 DEF Contract!Next, Contract!Fail
  <2>. QED
    BY <2>3, <2>4
<1>2. CASE Deliver(a) \/ Abandon(a)
  <2>1. /\ attempt[a] \in Outcomes /\ attempt' = [attempt EXCEPT ![a] = "gone"]
        /\ granted' = granted /\ ctxDone' = ctxDone /\ ret' = ret /\ result' = result
    BY <1>2 DEF Deliver, Abandon
  <2>2. Running' = Running
    BY <2>1 DEF IInv, Shape, Outcomes
  <2>. QED
    BY <2>1, <2>2 DEF Contract!vars
<1>. QED
  BY <1>1, <1>2 DEF Goroutine

\* A hedged call keeps HedgedContract: one verdict, borne out by the attempts
\* or the context, and the first success as its value.
THEOREM RefinesHedgedContractCorrect == Spec => RefinesHedgedContract
<1>1. Init => Contract!Init
  BY DEF Init, Contract!Init
<1>2. IInv /\ [Next]_vars => [Contract!Next]_(Contract!vars)
  <2>. SUFFICES ASSUME IInv, [Next]_vars PROVE Contract!Next \/ UNCHANGED Contract!vars
    OBVIOUS
  <2>1. CASE Cancel
    BY <2>1 DEF Cancel, Contract!Next, Contract!Cancel
  <2>2. CASE UNCHANGED vars
    BY <2>2 DEF vars, Contract!vars
  <2>. QED
    BY <2>1, <2>2, CallerStep, GoroutineStep DEF Next
<1>. QED
  BY <1>1, <1>2, Invariant, PTL DEF Spec, RefinesHedgedContract, Contract!Spec

-----------------------------------------------------------------------------
(* Nobody is stuck. *)

\* The select is entered with something to wait for, and no more outcomes are
\* in the channel or on their way to it than attempts were launched.
Arms == pc = "wait" => started < MaxAttempts \/ inFlight > 0

Room == Reachable <= Cardinality(granted)

\* Each step keeps both.
LEMMA StuckInv ==
    ASSUME IInv, Arms, Room, [Next]_vars
    PROVE  Arms' /\ Room'
<1>1. /\ Cardinality(granted) \in Nat /\ Cardinality(Outstanding) \in Nat
      /\ IsFiniteSet(granted) /\ IsFiniteSet(Outstanding)
      /\ Len(results) \in Nat /\ inFlight \in Nat /\ Reachable \in Nat
  BY OutstandingIsFinite DEF IInv, Shape
<1>2. CASE LaunchNext
  <2>1. /\ started \in Attempts /\ started \notin granted /\ attempt[started] = "none"
        /\ attempt' = [attempt EXCEPT ![started] = "running"]
        /\ granted' = granted \cup {started} /\ results' = results
        /\ inFlight' = inFlight + 1
    BY <1>2, HedgedAssumption DEF LaunchNext, IInv, Shape, Phases, Attempts
  <2>2. Outstanding' = Outstanding \cup {started} /\ started \notin Outstanding
    BY <2>1 DEF Outstanding, IInv, Shape
  <2>3. /\ Cardinality(granted') = Cardinality(granted) + 1
        /\ Cardinality(Outstanding') = Cardinality(Outstanding) + 1
    BY ONLY <1>1, <2>1, <2>2, FS_AddElement
  <2>4. inFlight' > 0
    BY <1>1, <2>1
  <2>. QED
    BY <1>1, <2>1, <2>3, <2>4 DEF Arms, Room, Reachable
<1>3. CASE LaunchRefused \/ LaunchNone
  <2>1. /\ attempt' = attempt /\ granted' = granted /\ results' = results
        /\ inFlight' = inFlight /\ Settle
    BY <1>3 DEF LaunchRefused, LaunchNone
  <2>2. started' = MaxAttempts
    BY <1>3 DEF LaunchRefused, LaunchNone
  <2>3. Arms'
    BY <1>1, <2>1, <2>2, HedgedAssumption DEF Settle, Return, Arms
  <2>. QED
    BY <2>1, <2>3 DEF Room, Reachable, Outstanding
<1>4. CASE HedgingDelayPasses \/ GiveUp \/ ReadResult \/ Cancel \/ UNCHANGED vars
  <2>1. /\ attempt' = attempt /\ granted' = granted /\ results' = results
        /\ inFlight' = inFlight /\ started' = started /\ (pc' = "wait" => pc = "wait")
    BY <1>4 DEF HedgingDelayPasses, GiveUp, Return, ReadResult, Cancel, vars
  <2>. QED
    BY <2>1 DEF Arms, Room, Reachable, Outstanding
<1>5. CASE TakeResult
  <2>1. /\ attempt' = attempt /\ granted' = granted /\ results' = Tail(results)
        /\ results # <<>>
    BY <1>5 DEF TakeResult
  <2>2. pc' # "wait"
    <3>1. Head(results) \in Outcomes
      BY <2>1, HeadTailProperties DEF IInv, Shape
    <3>. QED
      BY <1>5, <3>1 DEF TakeResult, Return, Outcomes
  <2>3. Len(Tail(results)) = Len(results) - 1
    BY <2>1, HeadTailProperties DEF IInv, Shape
  <2>. QED
    BY <1>1, <2>1, <2>2, <2>3 DEF Arms, Room, Reachable, Outstanding
<1>6. ASSUME NEW a \in Attempts, Goroutine(a) PROVE Arms' /\ Room'
  <2>1. pc' = pc /\ started' = started /\ inFlight' = inFlight /\ granted' = granted
    BY <1>6 DEF Goroutine, ActionReturns, Deliver, Abandon
  <2>2. CASE \E outcome \in Outcomes : ActionReturns(a, outcome)
    <3>1. Outstanding' = Outstanding /\ results' = results
      BY <2>2 DEF ActionReturns, Outstanding, IInv, Shape, Outcomes
    <3>. QED
      BY <2>1, <3>1 DEF Arms, Room, Reachable
  <2>3. CASE Deliver(a) \/ Abandon(a)
    <3>1. /\ attempt[a] \in Outcomes /\ attempt' = [attempt EXCEPT ![a] = "gone"]
          /\ results' = results \/ results' = Append(results, attempt[a])
      BY <2>3 DEF Deliver, Abandon
    <3>2. Outstanding' = Outstanding \ {a} /\ a \in Outstanding
      BY <2>1, <3>1 DEF Outstanding, IInv, Shape, Outcomes
    <3>3. Cardinality(Outstanding') = Cardinality(Outstanding) - 1
      BY ONLY <1>1, <3>2, FS_RemoveElement
    <3>4. Len(results') <= Len(results) + 1 /\ Len(results') \in Nat
      BY <1>1, <3>1, AppendProperties DEF IInv, Shape
    <3>. QED
      BY <1>1, <2>1, <3>3, <3>4 DEF Arms, Room, Reachable
  <2>. QED
    BY <1>6, <2>2, <2>3 DEF Goroutine
<1>. QED
  BY <1>2, <1>3, <1>4, <1>5, <1>6 DEF Next, Caller

\* executeHedged's select always has an arm that can fire or an attempt to wait
\* for, and the results channel, of capacity MaxAttempts, always has room: a
\* hedged call hangs, or leaves a goroutine behind, only with an action that
\* does not return.
THEOREM NobodyIsStuckCorrect == Spec => []NobodyIsStuck
<1>1. Init => Arms /\ Room
  <2>. SUFFICES ASSUME Init PROVE Arms /\ Room
    OBVIOUS
  <2>1. Outstanding = {} /\ granted = {} /\ Len(results) = 0 /\ Cardinality({}) = 0
    BY FS_EmptySet DEF Init, Outstanding
  <2>. QED
    BY <2>1 DEF Init, Arms, Room, Reachable
<1>2. IInv /\ Arms /\ Room /\ [Next]_vars => Arms' /\ Room'
  BY StuckInv
<1>3. IInv /\ Arms /\ Room => NobodyIsStuck
  <2>. SUFFICES ASSUME IInv, Arms, Room PROVE NobodyIsStuck
    OBVIOUS
  <2>1. /\ Cardinality(granted) \in 0 .. MaxAttempts /\ Cardinality(Outstanding) \in Nat
        /\ IsFiniteSet(Outstanding) /\ Len(results) \in Nat
    BY OutstandingIsFinite DEF IInv, Shape
  <2>2. ASSUME pc = "wait", ~ctxDone, ~(started < MaxAttempts), results = <<>>
        PROVE  Outstanding # {}
    <3>1. inFlight > 0 /\ inFlight = Cardinality(Outstanding) + Len(results)
      BY <2>2 DEF Arms, IInv, InFlightExact, Returned
    <3>. QED
      BY <2>2, <3>1, FS_EmptySet
  <2>3. ASSUME NEW a \in Attempts, attempt[a] \in Outcomes PROVE Len(results) < MaxAttempts
    <3>1. a \in Outstanding
      BY <2>3 DEF Outstanding, IInv, Shape, Outcomes
    <3>2. Cardinality(Outstanding) # 0
      BY <2>1, <3>1, FS_EmptySet
    <3>. QED
      BY <2>1, <3>2, HedgedAssumption DEF Room, Reachable
  <2>. QED
    BY <2>2, <2>3 DEF NobodyIsStuck
<1>. QED
  BY <1>1, <1>2, <1>3, Invariant, PTL DEF Spec

=============================================================================
