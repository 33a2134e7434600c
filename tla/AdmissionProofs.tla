-------------------------- MODULE AdmissionProofs --------------------------
(* Theorems about the rate limiter and the priority bulkhead, for every     *)
(* limit, interval, capacity, set of thresholds and set of callers.         *)
EXTENDS Admission, FiniteSetTheorems, TLAPS

-----------------------------------------------------------------------------
(* The rate limiter. *)

\* What has been granted since the mark and what is still in the bucket came
\* from a full bucket and the inflow.
Potential == Interval * mark.grants + Refilled <= FullBucket + Limit * mark.elapsed

\* A bucket without a whole token holds the inflow since the last grant.
NothingLost == Refilled < Interval => sinceGrant * Limit <= Refilled

RateInv == RateTypeOK /\ Potential /\ NothingLost

\* Products of naturals, which the arithmetic solver is spared.
LEMMA Products ==
    ASSUME NEW n \in Nat, NEW m \in Nat
    PROVE  /\ n * m \in Nat
           /\ (n + 1) * m = n * m + m
           /\ m * (n + 1) = m * n + m
           /\ m * n = n * m
           /\ m > 0 => n <= n * m
OBVIOUS

LEMMA FullBucketType == FullBucket \in Nat /\ Interval <= FullBucket
BY RateAssumption, Products DEF FullBucket

LEMMA RefilledType ==
    ASSUME RateTypeOK
    PROVE  Refilled \in 0 .. FullBucket
<1>1. tokens \in Nat /\ since * Limit \in Nat
  BY Products, RateAssumption, FullBucketType DEF RateTypeOK
<1>. QED
  BY <1>1, FullBucketType DEF Refilled

LEMMA RateInitInv == RateInit => RateInv
<1> SUFFICES ASSUME RateInit PROVE RateInv
  OBVIOUS
<1>1. RateTypeOK
  BY RateAssumption, FullBucketType DEF RateInit, RateTypeOK
<1>2. since * Limit = 0 /\ Interval * mark.grants = 0 /\ Limit * mark.elapsed = 0
  BY RateAssumption DEF RateInit
<1>3. Refilled = FullBucket
  BY <1>2, FullBucketType DEF RateInit, Refilled
<1>. QED
  BY <1>1, <1>2, <1>3, FullBucketType, RateAssumption DEF RateInv, Potential, NothingLost

\* Right after an Acquire there is nothing to refill.
LEMMA JustRefilled ==
    ASSUME since' = 0, tokens' \in 0 .. FullBucket
    PROVE  Refilled' = tokens'
<1>1. since' * Limit = 0
  BY RateAssumption
<1>. QED
  BY <1>1, FullBucketType DEF Refilled, FullBucket

LEMMA GrantInv ==
    ASSUME RateInv, Grant
    PROVE  RateInv'
<1>. USE DEF RateInv
<1>1. Refilled \in 0 .. FullBucket
  BY RefilledType
<1>2. tokens' = Refilled - Interval /\ tokens' \in 0 .. FullBucket /\ since' = 0 /\ sinceGrant' = 0
  BY <1>1, FullBucketType, RateAssumption DEF Grant
<1>3. Refilled' = Refilled - Interval
  BY <1>2, JustRefilled
<1>4. mark'.grants = mark.grants + 1 /\ mark'.elapsed = mark.elapsed
      /\ mark.grants \in Nat /\ mark.elapsed \in 0 .. Horizon
      /\ mark' \in [elapsed : 0 .. Horizon, grants : Nat]
  BY DEF Grant, RateTypeOK
<1>5. Interval * mark'.grants = Interval * mark.grants + Interval
      /\ Interval * mark.grants \in Nat
  BY <1>4, Products, RateAssumption
<1>6. Limit * mark.elapsed \in Nat
  BY <1>4, RateAssumption, Products
<1>7. Potential'
  <2>1. Potential' <=> Interval * mark'.grants + Refilled' <= FullBucket + Limit * mark'.elapsed
    BY DEF Potential, FullBucket
  <2>. QED
    BY <1>1, <1>3, <1>4, <1>5, <1>6, <2>1, FullBucketType, RateAssumption DEF Potential
<1>8. NothingLost'
  <2>1. sinceGrant' * Limit = 0
    BY <1>2, RateAssumption
  <2>. QED
    BY <1>2, <1>3, <2>1 DEF NothingLost
<1>9. RateTypeOK'
  BY <1>2, <1>4, RateAssumption DEF RateTypeOK, FullBucket
<1>. QED
  BY <1>7, <1>8, <1>9

LEMMA DenyInv ==
    ASSUME RateInv, Deny
    PROVE  RateInv'
<1>. USE DEF RateInv
<1>1. tokens' = Refilled /\ since' = 0 /\ UNCHANGED <<sinceGrant, mark>>
  BY DEF Deny
<1>2. Refilled \in 0 .. FullBucket
  BY RefilledType
<1>3. Refilled' = Refilled
  BY <1>1, <1>2, JustRefilled
<1>. QED
  BY <1>1, <1>2, <1>3, RateAssumption DEF RateTypeOK, Potential, NothingLost, FullBucket

\* A tick adds Limit units, or fills the bucket.
LEMMA TickInv ==
    ASSUME RateInv, RateTick
    PROVE  RateInv'
<1>. USE DEF RateInv
<1>1. Refilled \in 0 .. FullBucket
  BY RefilledType
<1>2. tokens' = tokens /\ tokens \in 0 .. FullBucket /\ since \in 0 .. Interval
      /\ sinceGrant \in 0 .. Interval
  BY DEF RateTick, RateTypeOK
<1>3. mark'.grants = mark.grants /\ mark'.elapsed = mark.elapsed + 1
      /\ mark.grants \in Nat /\ mark.elapsed \in Nat
      /\ mark' \in [elapsed : 0 .. Horizon, grants : Nat]
  BY RateAssumption DEF RateTick, RateTypeOK
<1>4. since * Limit \in Nat /\ Limit * Interval \in Nat /\ Interval * Limit = FullBucket
      /\ (since + 1) * Limit = since * Limit + Limit
      /\ sinceGrant * Limit \in Nat
      /\ (sinceGrant + 1) * Limit = sinceGrant * Limit + Limit
      /\ Limit * (mark.elapsed + 1) = Limit * mark.elapsed + Limit
      /\ Limit * mark.elapsed \in Nat /\ Interval * mark.grants \in Nat
  BY <1>2, <1>3, Products, RateAssumption DEF FullBucket
<1>5. \/ Refilled' = FullBucket /\ Refilled' <= Refilled + Limit
      \/ Refilled' = Refilled + Limit
  <2>1. CASE since < Interval
    <3>1. since' * Limit = since * Limit + Limit
      BY <1>4, <2>1 DEF RateTick, UpToInterval
    <3>2. Refilled' = IF tokens + (since * Limit + Limit) > FullBucket THEN FullBucket
                      ELSE tokens + (since * Limit + Limit)
      BY <1>2, <3>1 DEF Refilled, FullBucket
    <3>. QED
      BY <1>2, <1>4, <3>2, FullBucketType, RateAssumption DEF Refilled
  <2>2. CASE since = Interval
    <3>1. since' = since
      BY <2>2, RateAssumption DEF RateTick, UpToInterval
    <3>2. Refilled' = Refilled
      BY <1>2, <3>1 DEF Refilled, FullBucket
    <3>3. Refilled = FullBucket
      BY <1>2, <1>4, <2>2, FullBucketType DEF Refilled
    <3>. QED
      BY <3>2, <3>3, FullBucketType, RateAssumption
  <2>. QED
    BY <1>2, <2>1, <2>2, RateAssumption
<1>6. Potential'
  <2>1. Potential' <=> Interval * mark'.grants + Refilled' <= FullBucket + Limit * mark'.elapsed
    BY DEF Potential, FullBucket
  <2>2. Interval * mark.grants + Refilled <= FullBucket + Limit * mark.elapsed
    BY DEF Potential
  <2>3. Refilled' <= Refilled + Limit /\ Refilled' \in Nat
    BY <1>1, <1>5, FullBucketType, RateAssumption
  <2>. QED
    BY <1>1, <1>3, <1>4, <2>1, <2>2, <2>3, FullBucketType, RateAssumption
<1>7. NothingLost'
  <2>1. sinceGrant' * Limit <= sinceGrant * Limit + Limit
    BY <1>2, <1>4, RateAssumption DEF RateTick, UpToInterval
  <2>2. sinceGrant' * Limit \in Nat
    BY <1>2, Products, RateAssumption DEF RateTick, UpToInterval
  <2>. QED
    BY <1>1, <1>4, <1>5, <2>1, <2>2, FullBucketType, RateAssumption DEF NothingLost
<1>8. RateTypeOK'
  BY <1>2, <1>3, RateAssumption DEF RateTypeOK, RateTick, UpToInterval, FullBucket
<1>. QED
  BY <1>6, <1>7, <1>8

\* At a new mark the bucket may be full, and nothing has been granted yet.
LEMMA MarkInv ==
    ASSUME RateInv, Mark
    PROVE  RateInv'
<1>. USE DEF RateInv
<1>1. UNCHANGED <<tokens, since, sinceGrant>> /\ mark' = [elapsed |-> 0, grants |-> 0]
  BY DEF Mark
<1>2. Refilled' = Refilled /\ Refilled \in 0 .. FullBucket
  BY <1>1, RefilledType DEF Refilled, FullBucket
<1>3. Interval * mark'.grants = 0 /\ Limit * mark'.elapsed = 0
  BY <1>1, RateAssumption
<1>. QED
  BY <1>1, <1>2, <1>3, FullBucketType, RateAssumption
     DEF RateTypeOK, Potential, NothingLost, FullBucket

LEMMA RateInvariance == Spec => []RateInv
<1>1. Init => RateInv
  BY RateInitInv DEF Init
<1>2. RateInv /\ [Next]_vars => RateInv'
  <2> SUFFICES ASSUME RateInv, [Next]_vars PROVE RateInv'
    OBVIOUS
  <2>1. CASE UNCHANGED rateVars
    BY <2>1 DEF rateVars, RateInv, RateTypeOK, Potential, NothingLost, Refilled, FullBucket
  <2>2. \/ Grant \/ Deny \/ RateTick \/ Mark \/ UNCHANGED rateVars
    BY DEF Next, Admit, Reject, Start, PassBulkhead, Tick, vars
  <2>. QED
    BY <2>1, <2>2, GrantInv, DenyInv, TickInv, MarkInv
<1>. QED
  BY <1>1, <1>2, PTL DEF Spec

\* In any period the limiter grants at most a full bucket and the inflow.
THEOREM GrantsBoundedCorrect == Spec => []GrantsBounded
<1>1. RateInv => GrantsBounded
  <2> SUFFICES ASSUME RateInv PROVE GrantsBounded
    OBVIOUS
  <2>1. Refilled \in Nat
    BY RefilledType, FullBucketType DEF RateInv
  <2>2. Interval * mark.grants \in Nat /\ Limit * mark.elapsed \in Nat
    BY Products, RateAssumption DEF RateInv, RateTypeOK
  <2>. QED
    BY <2>1, <2>2, FullBucketType DEF RateInv, Potential, GrantsBounded
<1>. QED
  BY <1>1, RateInvariance, PTL

\* Asking in vain does not postpone the next token.
THEOREM DeniedOnlyWhenBusyCorrect == Spec => DeniedOnlyWhenBusy
<1>1. RateInv /\ [Next]_vars => [\A c \in Callers : Reject(c) => sinceGrant * Limit < Interval]_vars
  <2> SUFFICES ASSUME RateInv, NEW c \in Callers, Reject(c)
               PROVE  sinceGrant * Limit < Interval
    OBVIOUS
  <2>1. Refilled < Interval
    BY DEF Reject, Deny
  <2>2. Refilled \in Nat /\ sinceGrant * Limit \in Nat
    BY RefilledType, FullBucketType, Products, RateAssumption DEF RateInv, RateTypeOK
  <2>. QED
    BY <2>1, <2>2, RateAssumption DEF RateInv, NothingLost
<1>. QED
  BY <1>1, RateInvariance, PTL DEF Spec, DeniedOnlyWhenBusy

-----------------------------------------------------------------------------
(* The priority bulkhead. *)

\* The holders of a slot that were not overtaken.
Strict(p) == {c \in Holding : priority[c] = p /\ ~overtaken[c]}

\* What a caller has seen still holds until another takes a slot.
LookStillTrue ==
    \A c \in Callers : phase[c] = "looked" /\ ~overtaken[c] => load < Share[priority[c]]

BulkheadInv == BulkheadTypeOK /\ SlotsExact /\ ThresholdUncontended /\ LookStillTrue

\* Sizes of the sets of callers that are counted here.
LEMMA Sizes ==
    ASSUME NEW S \in SUBSET Callers
    PROVE  /\ IsFiniteSet(S) /\ Cardinality(S) \in Nat
           /\ \A c \in Callers \ S : Cardinality(S \cup {c}) = Cardinality(S) + 1
           /\ \A c \in S : Cardinality(S \ {c}) = Cardinality(S) - 1 /\ Cardinality(S) > 0
           /\ \A T \in SUBSET S : Cardinality(T) <= Cardinality(S)
<1>1. IsFiniteSet(S) /\ Cardinality(S) \in Nat
  BY BulkheadAssumption, FS_Subset, FS_CardinalityType
<1>2. \A c \in S : Cardinality(S \ {c}) = Cardinality(S) - 1 /\ Cardinality(S) > 0
  <2> SUFFICES ASSUME NEW c \in S
               PROVE  Cardinality(S \ {c}) = Cardinality(S) - 1 /\ Cardinality(S) > 0
    OBVIOUS
  <2>1. IsFiniteSet(S \ {c}) /\ Cardinality(S \ {c}) = Cardinality(S) - 1
    BY <1>1, FS_RemoveElement
  <2>2. Cardinality(S \ {c}) \in Nat
    BY <2>1, FS_CardinalityType
  <2>. QED
    BY <1>1, <2>1, <2>2
<1>. QED
  BY <1>1, <1>2, FS_AddElement, FS_Subset

LEMMA BulkheadInitInv == BulkheadInit => BulkheadInv
<1> SUFFICES ASSUME BulkheadInit PROVE BulkheadInv
  OBVIOUS
<1>1. Holding = {} /\ \A p \in Priorities : Strict(p) = {}
  BY DEF BulkheadInit, Holding, Strict
<1>2. BulkheadTypeOK /\ LookStillTrue
  BY BulkheadAssumption DEF BulkheadInit, BulkheadTypeOK, LookStillTrue
<1>3. SlotsExact /\ ThresholdUncontended
  BY <1>1, FS_EmptySet, BulkheadAssumption
     DEF BulkheadInit, SlotsExact, ThresholdUncontended, Strict
<1>. QED
  BY <1>2, <1>3 DEF BulkheadInv

\* Whoever does not hold a slot before or after changes no count.
LEMMA OutsideInv ==
    ASSUME BulkheadInv, NEW c \in Callers, phase[c] # "holding",
           \/ /\ phase[c] = "idle" /\ phase' = [phase EXCEPT ![c] = "admitted"]
              /\ UNCHANGED <<load, overtaken>>
              /\ \E p \in Priorities : priority' = [priority EXCEPT ![c] = p]
           \/ Look(c) \/ TurnedAway(c) \/ NoSlot(c)
    PROVE  BulkheadInv'
<1>. USE DEF BulkheadInv
<1>1. /\ load' = load
      /\ phase' \in [Callers -> {"idle", "admitted", "looked", "holding"}]
      /\ priority' \in [Callers -> Priorities]
      /\ overtaken' \in [Callers -> BOOLEAN]
      /\ phase'[c] # "holding"
      /\ \A d \in Callers \ {c} : /\ phase'[d] = phase[d]
                                  /\ priority'[d] = priority[d]
                                  /\ overtaken'[d] = overtaken[d]
  BY DEF BulkheadTypeOK, Look, TurnedAway, NoSlot
<1>2. BulkheadTypeOK'
  BY <1>1 DEF BulkheadTypeOK
<1>3. Holding' = Holding /\ \A p \in Priorities : Strict(p)' = Strict(p)
  BY <1>1 DEF Holding, Strict
<1>4. SlotsExact' /\ ThresholdUncontended'
  BY <1>1, <1>3 DEF SlotsExact, ThresholdUncontended, Strict
<1>5. phase'[c] = "looked" => load < Share[priority'[c]]
  BY DEF Look, TurnedAway, NoSlot, BulkheadTypeOK
<1>6. LookStillTrue'
  BY <1>1, <1>5 DEF LookStillTrue
<1>. QED
  BY <1>2, <1>4, <1>6

\* A caller that takes a slot without having been overtaken finds the load it
\* saw or less, and that is below its share.
LEMMA TakeSlotInv ==
    ASSUME BulkheadInv, NEW c \in Callers, TakeSlot(c)
    PROVE  BulkheadInv'
<1>. USE DEF BulkheadInv
<1>1. BulkheadTypeOK'
  BY BulkheadAssumption DEF TakeSlot, BulkheadTypeOK
<1>2. Holding' = Holding \cup {c} /\ c \notin Holding /\ Holding \subseteq Callers
  BY DEF TakeSlot, BulkheadTypeOK, Holding
<1>3. SlotsExact'
  BY <1>2, Sizes DEF TakeSlot, SlotsExact
<1>4. ThresholdUncontended'
  <2> SUFFICES ASSUME NEW p \in Priorities PROVE Cardinality(Strict(p)') <= Share[p]
    BY DEF ThresholdUncontended, Strict
  <2>1. Strict(p) \subseteq Callers /\ Strict(p) \subseteq Holding /\ c \notin Strict(p)
    BY <1>2 DEF Strict, Holding
  <2>2. \A d \in Callers : phase[d] = "holding" => overtaken'[d] = overtaken[d]
    BY DEF TakeSlot, BulkheadTypeOK
  <2>3. overtaken'[c] = overtaken[c]
    BY DEF TakeSlot, BulkheadTypeOK
  <2>4. CASE priority[c] = p /\ ~overtaken[c]
    <3>1. Strict(p)' = Strict(p) \cup {c}
      BY <1>2, <2>2, <2>3, <2>4 DEF TakeSlot, Strict, Holding
    <3>2. Cardinality(Strict(p)') = Cardinality(Strict(p)) + 1
      BY <2>1, <3>1, Sizes
    <3>3. Cardinality(Strict(p)) <= load /\ Cardinality(Strict(p)) \in Nat
      BY <1>2, <2>1, Sizes DEF SlotsExact
    <3>4. load < Share[p]
      BY <2>4 DEF TakeSlot, LookStillTrue
    <3>5. Share[p] \in Nat /\ load \in Nat
      BY BulkheadAssumption DEF BulkheadTypeOK
    <3>. QED
      BY <3>2, <3>3, <3>4, <3>5
  <2>5. CASE ~(priority[c] = p /\ ~overtaken[c])
    <3>1. Strict(p)' = Strict(p)
      BY <1>2, <2>2, <2>3, <2>5 DEF TakeSlot, Strict, Holding
    <3>. QED
      BY <3>1 DEF ThresholdUncontended, Strict
  <2>. QED
    BY <2>4, <2>5
<1>5. LookStillTrue'
  BY DEF LookStillTrue, TakeSlot, BulkheadTypeOK
<1>. QED
  BY <1>1, <1>3, <1>4, <1>5

\* A slot that is given back was taken.
LEMMA ReleaseInv ==
    ASSUME BulkheadInv, NEW c \in Callers, Release(c)
    PROVE  BulkheadInv'
<1>. USE DEF BulkheadInv
<1>1. Holding' = Holding \ {c} /\ c \in Holding /\ Holding \subseteq Callers
  BY DEF Release, BulkheadTypeOK, Holding
<1>2. Cardinality(Holding') = load - 1 /\ load > 0
  BY <1>1, Sizes DEF SlotsExact
<1>3. SlotsExact' /\ BulkheadTypeOK'
  BY <1>2, BulkheadAssumption DEF Release, SlotsExact, BulkheadTypeOK
<1>4. ThresholdUncontended'
  <2> SUFFICES ASSUME NEW p \in Priorities PROVE Cardinality(Strict(p)') <= Share[p]
    BY DEF ThresholdUncontended, Strict
  <2>1. Strict(p)' \subseteq Strict(p) /\ Strict(p) \subseteq Callers
    BY <1>1 DEF Release, Strict, Holding
  <2>2. Cardinality(Strict(p)') <= Cardinality(Strict(p)) /\ Cardinality(Strict(p)) <= Share[p]
        /\ Cardinality(Strict(p)') \in Nat /\ Cardinality(Strict(p)) \in Nat
    BY <2>1, Sizes DEF ThresholdUncontended, Strict
  <2>. QED
    BY <2>2, BulkheadAssumption
<1>5. LookStillTrue'
  <2> SUFFICES ASSUME NEW d \in Callers, phase'[d] = "looked", ~overtaken'[d]
               PROVE  load' < Share[priority'[d]]
    BY DEF LookStillTrue
  <2>1. phase[d] = "looked" /\ ~overtaken[d] /\ priority' = priority /\ load' = load - 1
    BY DEF Release, BulkheadTypeOK
  <2>2. load < Share[priority[d]] /\ Share[priority[d]] \in Nat /\ load \in Nat
    BY <2>1, BulkheadAssumption DEF LookStillTrue, BulkheadTypeOK
  <2>. QED
    BY <2>1, <2>2
<1>. QED
  BY <1>3, <1>4, <1>5

LEMMA BulkheadInvariance == Spec => []BulkheadInv
<1>1. Init => BulkheadInv
  BY BulkheadInitInv DEF Init
<1>2. BulkheadInv /\ [Next]_vars => BulkheadInv'
  <2> SUFFICES ASSUME BulkheadInv, [Next]_vars PROVE BulkheadInv'
    OBVIOUS
  <2>1. ASSUME NEW c \in Callers, NEW p \in Priorities, Admit(c, p) PROVE BulkheadInv'
    BY <2>1, OutsideInv DEF Admit
  <2>2. ASSUME NEW c \in Callers, Start(c) PROVE BulkheadInv'
    BY <2>2, TakeSlotInv DEF Start
  <2>3. ASSUME NEW c \in Callers, PassBulkhead(c) PROVE BulkheadInv'
    <3>1. CASE Release(c)
      BY <3>1, ReleaseInv
    <3>2. CASE Look(c) \/ TurnedAway(c) \/ NoSlot(c)
      <4>1. phase[c] # "holding"
        BY <3>2 DEF Look, TurnedAway, NoSlot
      <4>. QED
        BY <3>2, <4>1, OutsideInv
    <3>. QED
      BY <2>3, <3>1, <3>2 DEF PassBulkhead
  <2>4. CASE UNCHANGED bulkheadVars
    BY <2>4 DEF bulkheadVars, BulkheadInv, BulkheadTypeOK, SlotsExact,
                ThresholdUncontended, LookStillTrue, Holding
  <2>. QED
    BY <2>1, <2>2, <2>3, <2>4 DEF Next, Reject, Tick, Mark, vars
<1>. QED
  BY <1>1, <1>2, PTL DEF Spec

\* The semaphore holds as many slots as actions run.
THEOREM SlotsExactCorrect == Spec => []SlotsExact
<1>1. BulkheadInv => SlotsExact
  BY DEF BulkheadInv
<1>. QED
  BY <1>1, BulkheadInvariance, PTL

\* A threshold is exceeded by overtaken callers only.
THEOREM ThresholdUncontendedCorrect == Spec => []ThresholdUncontended
<1>1. BulkheadInv => ThresholdUncontended
  BY DEF BulkheadInv
<1>. QED
  BY <1>1, BulkheadInvariance, PTL

-----------------------------------------------------------------------------
(* Both together. *)

\* Every action that has started, and every call that may yet start one, has
\* been granted since the mark or was pending at it.
Flowing == flow.started + Cardinality(Between) <= mark.grants + flow.pending

FlowInv == flow \in [started : Nat, pending : Nat] /\ Flowing

LEMMA FlowInitInv == Init => FlowInv
<1> SUFFICES ASSUME Init PROVE FlowInv
  OBVIOUS
<1>1. Between = {}
  BY DEF Init, BulkheadInit, Between
<1>. QED
  BY <1>1, FS_EmptySet DEF Init, RateInit, FlowInv, Flowing

LEMMA FlowStepInv ==
    ASSUME FlowInv, RateTypeOK, BulkheadTypeOK, [Next]_vars
    PROVE  FlowInv'
<1>. USE DEF FlowInv, RateTypeOK
<1>1. Between \subseteq Callers /\ Cardinality(Between) \in Nat
  BY Sizes DEF Between
<1>2. ASSUME NEW c \in Callers, NEW p \in Priorities, Admit(c, p)
      PROVE  FlowInv'
  <2>1. Between' = Between \cup {c} /\ c \notin Between
    BY <1>2 DEF Admit, Between, BulkheadTypeOK
  <2>2. Cardinality(Between') = Cardinality(Between) + 1
    BY <1>1, <2>1, Sizes
  <2>3. mark'.grants = mark.grants + 1 /\ flow' = flow
    BY <1>2 DEF Admit, Grant
  <2>. QED
    BY <1>1, <2>2, <2>3 DEF Flowing
<1>3. ASSUME NEW c \in Callers, Start(c)
      PROVE  FlowInv'
  <2>1. Between' = Between \ {c} /\ c \in Between
    BY <1>3 DEF Start, TakeSlot, Between, BulkheadTypeOK
  <2>2. Cardinality(Between') = Cardinality(Between) - 1
    BY <1>1, <2>1, Sizes
  <2>3. mark' = mark /\ flow' = [flow EXCEPT !.started = @ + 1]
    BY <1>3 DEF Start, rateVars
  <2>. QED
    BY <1>1, <2>2, <2>3 DEF Flowing
<1>4. ASSUME NEW c \in Callers, PassBulkhead(c)
      PROVE  FlowInv'
  <2>1. Between' \subseteq Between
    BY <1>4 DEF PassBulkhead, Look, TurnedAway, NoSlot, Release, Between, BulkheadTypeOK
  <2>2. Cardinality(Between') <= Cardinality(Between) /\ Cardinality(Between') \in Nat
    BY <1>1, <2>1, Sizes
  <2>3. mark' = mark /\ flow' = flow
    BY <1>4 DEF PassBulkhead, rateVars
  <2>. QED
    BY <1>1, <2>2, <2>3 DEF Flowing
<1>5. CASE Mark
  <2>1. Between' = Between /\ mark'.grants = 0
        /\ flow' = [started |-> 0, pending |-> Cardinality(Between)]
    BY <1>5 DEF Mark, bulkheadVars, Between
  <2>. QED
    BY <1>1, <2>1 DEF Flowing
<1>6. CASE Tick \/ (\E c \in Callers : Reject(c)) \/ UNCHANGED vars
  <2>1. phase' = phase /\ flow' = flow
    BY <1>6 DEF Tick, Reject, vars, bulkheadVars
  <2>2. mark'.grants = mark.grants
    BY <1>6 DEF Tick, RateTick, Reject, Deny, vars, rateVars
  <2>3. Between' = Between
    BY <2>1 DEF Between
  <2>. QED
    BY <2>1, <2>2, <2>3 DEF Flowing
<1>. QED
  BY <1>2, <1>3, <1>4, <1>5, <1>6 DEF Next

LEMMA FlowInvariance == Spec => []FlowInv
<1>1. RateInv /\ BulkheadInv /\ FlowInv /\ [Next]_vars => FlowInv'
  BY FlowStepInv DEF RateInv, BulkheadInv
<1>. QED
  BY <1>1, FlowInitInv, RateInvariance, BulkheadInvariance, PTL DEF Spec

\* Both components keep their types, and the history variables count.
THEOREM TypeCorrect == Spec => []TypeOK
<1>1. RateInv /\ BulkheadInv /\ FlowInv => TypeOK
  BY DEF RateInv, BulkheadInv, FlowInv, TypeOK
<1>. QED
  BY <1>1, RateInvariance, BulkheadInvariance, FlowInvariance, PTL

\* Behind limiter and bulkhead no more starts than the limiter let through,
\* late starters included.
THEOREM StartsBoundedCorrect == Spec => []StartsBounded
<1>1. RateInv /\ FlowInv => StartsBounded
  <2> SUFFICES ASSUME RateInv, FlowInv PROVE StartsBounded
    OBVIOUS
  <2>. DEFINE net == flow.started - flow.pending
  <2>1. mark.grants \in Nat /\ mark.elapsed \in Nat /\ net \in Int
    BY RateAssumption DEF RateInv, RateTypeOK, FlowInv
  <2>2. Cardinality(Between) \in Nat
    BY Sizes DEF Between
  <2>3. net <= mark.grants
    BY <2>1, <2>2 DEF FlowInv, Flowing
  <2>4. Interval * net <= Interval * mark.grants
    BY <2>1, <2>3, RateAssumption
  <2>5. Interval * net \in Int /\ Interval * mark.grants \in Nat /\ Limit * mark.elapsed \in Nat
    BY <2>1, Products, RateAssumption
  <2>6. Interval * mark.grants <= FullBucket + Limit * mark.elapsed
    <3>1. Refilled \in Nat
      BY RefilledType, FullBucketType DEF RateInv
    <3>. QED
      BY <2>5, <3>1, FullBucketType DEF RateInv, Potential
  <2>. QED
    BY <2>4, <2>5, <2>6, FullBucketType DEF StartsBounded
<1>. QED
  BY <1>1, RateInvariance, FlowInvariance, PTL

=============================================================================
