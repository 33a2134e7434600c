-------------------------- MODULE TimeWindowProofs --------------------------
(***************************************************************************)
(* Theorems about TimeWindow.  Times are compared by the number of their   *)
(* bucket counted from the start, Epoch; a bucket index is an epoch modulo *)
(* NumBuckets.                                                             *)
(***************************************************************************)
EXTENDS TimeWindow, SharedLemmas, FiniteSetTheorems, TLAPS

Epoch(t) == t \div BucketDuration

-----------------------------------------------------------------------------
(* Time and epochs. *)

\* Later times have later epochs, and an epoch's time is bracketed.
LEMMA Epochs ==
    ASSUME NEW t \in Nat
    PROVE  /\ Epoch(t) \in Nat
           /\ BucketDuration * Epoch(t) <= t
           /\ t < BucketDuration * Epoch(t) + BucketDuration
           /\ BucketIdx(t) = Epoch(t) % NumBuckets
           /\ BucketIdx(t) \in Indices
<1> USE TimeWindowAssumption
<1>1. /\ Epoch(t) \in Nat
      /\ BucketDuration * Epoch(t) <= t
      /\ t < BucketDuration * Epoch(t) + BucketDuration
    BY DEF Epoch
<1>2. BucketIdx(t) = Epoch(t) % NumBuckets
    BY DEF BucketIdx, Epoch
<1>3. Epoch(t) % NumBuckets \in 0 .. NumBuckets - 1
    BY <1>1, DivMod
<1>. QED
    BY <1>1, <1>2, <1>3 DEF Indices

\* Gaps in time bound gaps in epochs.
LEMMA EpochGap ==
    ASSUME NEW s \in Nat, NEW t \in Nat, NEW k \in Nat
    PROVE  /\ s <= t => Epoch(s) <= Epoch(t)
           /\ t - s <= k * BucketDuration => Epoch(t) <= Epoch(s) + k
           /\ t - s >= BucketDuration => Epoch(t) >= Epoch(s) + 1
           /\ Epoch(t) - Epoch(s) < k => t - s <= k * BucketDuration
<1> USE TimeWindowAssumption
<1> DEFINE B == BucketDuration
           es == Epoch(s)
           et == Epoch(t)
<1>1. /\ es \in Nat /\ B * es <= s /\ s < B * es + B
      /\ et \in Nat /\ B * et <= t /\ t < B * et + B
      /\ B \in Nat \ {0}
    BY Epochs
<1> HIDE DEF B, es, et
<1>2. s <= t => es <= et
    BY <1>1, Factors
<1>3. ASSUME t - s <= k * B PROVE et <= es + k
    <2>1. B * et < B * (es + k) + B
        BY <1>1, <1>3
    <2>. QED
        BY <1>1, <2>1, Factors
<1>4. ASSUME t - s >= B PROVE et >= es + 1
    <2>1. B * (es + 1) < B * et + B
        BY <1>1, <1>4
    <2>. QED
        BY <1>1, <2>1, Factors
<1>5. ASSUME et - es < k PROVE t - s <= k * B
    <2>1. PICK d \in Nat : k = (et - es) + 1 + d \/ et < es
        <3>1. CASE et < es
            BY <3>1
        <3>2. CASE et >= es
            BY <1>1, <1>5, <3>2, k - (et - es) - 1 \in Nat
        <3>. QED BY <1>1, <3>1, <3>2
    <2>2. CASE et < es
        BY <1>1, <2>2, Factors
    <2>3. CASE k = (et - es) + 1 + d
        <3>1. k * B = B * et - B * es + B + B * d
            BY <1>1, <2>3
        <3>2. B * d >= 0
            BY <1>1
        <3>. QED
            BY <1>1, <3>1, <3>2
    <2>. QED
        BY <2>1, <2>2, <2>3
<1>. QED
    BY <1>2, <1>3, <1>4, <1>5 DEF B, es, et

-----------------------------------------------------------------------------
(* The ring. *)

\* The places advanceTimeBasedWindow visits are the epochs passed since the
\* last update: all of them up to the present one, and no other.
LEMMA VisitedEpochs ==
    ASSUME NEW s \in Nat, NEW t \in Nat,
           Epoch(s) + 1 <= Epoch(t), Epoch(t) <= Epoch(s) + NumBuckets
    PROVE  BucketsAfter(BucketIdx(s), BucketIdx(t))
             = {e % NumBuckets : e \in Epoch(s) + 1 .. Epoch(t)}
<1> USE TimeWindowAssumption
<1> DEFINE N == NumBuckets
           es == Epoch(s)
           et == Epoch(t)
           d  == et - es
<1>1. /\ es \in Nat /\ et \in Nat /\ N \in Nat \ {0} /\ d \in 1 .. N
      /\ BucketIdx(s) = es % N /\ BucketIdx(t) = et % N
    BY Epochs
<1> HIDE DEF N, es, et
<1>2. ((et % N) - (es % N) + N - 1) % N = d - 1
    <2>1. /\ es \div N \in Nat /\ es % N \in 0 .. N - 1 /\ es = N * (es \div N) + (es % N)
          /\ et \div N \in Nat /\ et % N \in 0 .. N - 1 /\ et = N * (et \div N) + (et % N)
        BY <1>1, DivMod
    <2> DEFINE qs == es \div N
               qt == et \div N
               u  == (et % N) - (es % N) + N - 1
    <2>2. u = (d - 1) + N * (qs - qt + 1)
        BY <1>1, <2>1
    <2>3. u \in Nat /\ d - 1 \in 0 .. N - 1 /\ qs \in Nat /\ qt \in Nat
        BY <1>1, <2>1
    <2>4. qs - qt + 1 \in Nat
        <3>1. N * qt < N * (qs + 1) + N
            BY <1>1, <2>1
        <3>2. qt <= qs + 1
            BY <1>1, <2>3, <3>1, Factors
        <3>. QED BY <2>3, <3>2
    <2> HIDE DEF u, qs, qt
    <2>5. u % N = d - 1
        BY <1>1, <2>2, <2>3, <2>4, ModUnique
    <2>. QED
        BY <2>5 DEF u
<1>3. BucketsAfter(BucketIdx(s), BucketIdx(t)) = {((es % N) + k) % N : k \in 1 .. d}
    <2>1. (((et % N) - (es % N) + N - 1) % N) + 1 = d
        BY <1>1, <1>2
    <2>. QED
        BY <1>1, <2>1 DEF BucketsAfter, N
<1>4. ASSUME NEW k \in 1 .. d PROVE ((es % N) + k) % N = (es + k) % N
    <2>1. k \in Nat /\ es \in Nat /\ N \in Nat \ {0}
        BY <1>1
    <2>. QED
        BY <2>1, ModShift
<1>5. {((es % N) + k) % N : k \in 1 .. d} = {e % N : e \in es + 1 .. et}
    <2>1. ASSUME NEW k \in 1 .. d
          PROVE  ((es % N) + k) % N \in {e % N : e \in es + 1 .. et}
        <3>1. es + k \in es + 1 .. et
            BY <1>1
        <3>. QED
            BY <1>4, <3>1
    <2>2. ASSUME NEW e \in es + 1 .. et
          PROVE  e % N \in {((es % N) + k) % N : k \in 1 .. d}
        <3>1. e - es \in 1 .. d /\ es + (e - es) = e
            BY <1>1
        <3>. QED
            BY <1>1, <1>4, <3>1
    <2>. QED
        BY <2>1, <2>2
<1>. QED
    BY <1>3, <1>5 DEF N, es, et

-----------------------------------------------------------------------------
(* The inductive invariant. *)

\* Outcomes are not younger than the last update, and none outlives a clear.
HistoryDated ==
    /\ IsFiniteSet(history)
    /\ lastUpdateTime = Never => history = {}
    /\ lastUpdateTime # Never => /\ \A o \in history : o.at <= lastUpdateTime
                                /\ \E o \in history : o.at = lastUpdateTime
    /\ \A o \in history : o.id <= reported

\* What was noted as dense traffic is there to be seen in the outcomes.
DenseIsSeen == dense => ~Contract!Sparse(history)

\* What sparse traffic leaves in the ring is less than a round old in epochs,
\* which is what lets the next advance find it by its place.
WithinARound ==
    ~dense => \A o \in Held : Epoch(lastUpdateTime) - Epoch(o.at) < NumBuckets

IInv ==
    TypeOK /\ HistoryDated /\ DenseIsSeen /\ NoRecentLoss /\ WithinARound /\ ClosedBelowThreshold

\* Held is what is in some bucket.
LEMMA HeldIn ==
    ASSUME NEW b, DOMAIN b = Indices, NEW o
    PROVE  o \in UNION Range(b) <=> \E i \in Indices : o \in b[i]
BY DEF Range

LEMMA InitInv == Init => IInv
<1> SUFFICES ASSUME Init PROVE IInv
    OBVIOUS
<1>1. Held = {}
    BY HeldIn DEF Init, NoBuckets, Held
<1>2. FailuresIn(Held) = {} /\ Cardinality({}) = 0
    BY <1>1, FS_EmptySet DEF FailuresIn
<1>3. ~ShouldTrip(0, 0)
    BY FailureRateAssumption DEF ShouldTrip
<1>4. TypeOK
    <2>1. buckets \in [Indices -> SUBSET history] /\ \A i \in Indices : buckets[i] = {}
        BY DEF Init, NoBuckets
    <2>2. now \in 0 .. MaxTime /\ reported \in 0 .. MaxOutcomes
        BY TimeWindowAssumption DEF Init
    <2>. QED
        BY <2>1, <2>2 DEF Init, TypeOK
<1>. QED
    BY <1>1, <1>2, <1>3, <1>4, FS_EmptySet
       DEF Init, IInv, HistoryDated, NoRecentLoss, DenseIsSeen, WithinARound, ClosedBelowThreshold

\* clearWindow leaves nothing to be wrong about.
LEMMA ClearInv ==
    ASSUME IInv, NEW newState \in {"Open", "Closed"}, Clear(newState), UNCHANGED now,
           reported' \in 0 .. MaxOutcomes
    PROVE  IInv'
<1>1. Held' = {}
    BY HeldIn DEF Clear, NoBuckets, Held
<1>2. FailuresIn(Held)' = {} /\ Cardinality({}) = 0
    BY <1>1, FS_EmptySet DEF FailuresIn
<1>3. ~ShouldTrip(0, 0)
    BY FailureRateAssumption DEF ShouldTrip
<1>4. TypeOK'
    BY DEF IInv, Clear, TypeOK, NoBuckets, Never
<1>. QED
    BY <1>1, <1>2, <1>3, <1>4, FS_EmptySet
       DEF Clear, IInv, HistoryDated, NoRecentLoss, DenseIsSeen, WithinARound, ClosedBelowThreshold

\* The two cases of an advance that keeps something: what it keeps.
LEMMA AdvancedKeeps ==
    ASSUME IInv, NEW o \in history, NEW i \in Indices
    PROVE  /\ Advanced \in [Indices -> SUBSET history]
           /\ o \in Advanced[i] => o \in buckets[i] /\ o \in Held
           /\ TooSoon /\ o \in buckets[i] => o \in Advanced[i]
           /\ ~TooSoon =>
                ( o \in Advanced[i] <=>
                    /\ o \in buckets[i]
                    /\ now - lastUpdateTime <= WindowDuration
                    /\ i \notin BucketsAfter(BucketIdx(lastUpdateTime), BucketIdx(now)) )
<1> USE DEF IInv
<1>1. lastUpdateTime # Never /\ lastUpdateTime \in Nat /\ now \in Nat
    BY TimeWindowAssumption DEF HistoryDated, TypeOK
<1>2. buckets \in [Indices -> SUBSET history]
    BY DEF TypeOK
<1>3. WindowDuration \in Nat
    BY TimeWindowAssumption DEF WindowDuration
<1>4. Advanced \in [Indices -> SUBSET history]
    BY <1>2 DEF Advanced, NoBuckets
<1>5. o \in buckets[i] => o \in Held
    BY <1>2, HeldIn DEF Held
<1>6. CASE TooSoon
    BY <1>1, <1>4, <1>5, <1>6 DEF Advanced
<1>7. CASE ~TooSoon
    <2>1. CASE now - lastUpdateTime > WindowDuration
        BY <1>1, <1>3, <1>4, <1>5, <1>7, <2>1 DEF Advanced, NoBuckets
    <2>2. CASE ~(now - lastUpdateTime > WindowDuration)
        <3>1. Advanced[i] = IF i \in BucketsAfter(BucketIdx(lastUpdateTime), BucketIdx(now))
                            THEN {} ELSE buckets[i]
            BY <1>1, <1>7, <2>2 DEF Advanced
        <3>2. now - lastUpdateTime <= WindowDuration
            BY <1>1, <1>3, <2>2
        <3>. QED
            BY <1>4, <1>5, <1>7, <3>1, <3>2
    <2>. QED
        BY <2>1, <2>2
<1>. QED
    BY <1>6, <1>7

\* The dates of what has been reported, and their places.
LEMMA HistoryTimes ==
    ASSUME IInv, NEW x \in history
    PROVE  /\ x.at \in Nat /\ lastUpdateTime \in Nat /\ x.at <= lastUpdateTime
           /\ now \in Nat /\ lastUpdateTime <= now /\ lastUpdateTime # Never
           /\ BucketIdx(x.at) \in Indices
           /\ BucketIdx(x.at) = Epoch(x.at) % NumBuckets
           /\ Epoch(x.at) \in Nat /\ Epoch(lastUpdateTime) \in Nat /\ Epoch(now) \in Nat
           /\ Epoch(x.at) <= Epoch(lastUpdateTime)
           /\ Epoch(lastUpdateTime) <= Epoch(now)
<1> USE DEF IInv
<1>1. x.at \in Nat /\ now \in Nat
    BY TimeWindowAssumption DEF TypeOK, Outcomes
<1>2. lastUpdateTime # Never /\ x.at <= lastUpdateTime
    BY DEF HistoryDated
<1>3. lastUpdateTime \in Nat /\ lastUpdateTime <= now
    BY <1>1, <1>2, TimeWindowAssumption DEF TypeOK
<1>. QED
    BY <1>1, <1>2, <1>3, Epochs, EpochGap, 0 \in Nat

\* The epochs an advance of at most a window goes through.
LEMMA AdvanceVisits ==
    ASSUME IInv, NEW x \in history, ~TooSoon, now - lastUpdateTime <= WindowDuration
    PROVE  BucketsAfter(BucketIdx(lastUpdateTime), BucketIdx(now))
             = {e % NumBuckets : e \in Epoch(lastUpdateTime) + 1 .. Epoch(now)}
<1>1. lastUpdateTime \in Nat /\ now \in Nat /\ lastUpdateTime # Never
    BY HistoryTimes
<1>2. now - lastUpdateTime >= BucketDuration
    BY <1>1, TimeWindowAssumption DEF TooSoon
<1>3. /\ Epoch(lastUpdateTime) + 1 <= Epoch(now)
      /\ Epoch(now) <= Epoch(lastUpdateTime) + NumBuckets
    BY <1>1, <1>2, TimeWindowAssumption, EpochGap DEF WindowDuration
<1>. QED
    BY <1>1, <1>3, VisitedEpochs

\* What is younger than the window less one bucket survives an advance.
LEMMA AdvancedKeepsYoung ==
    ASSUME IInv, NEW x \in history, now - x.at <= WindowDuration - BucketDuration
    PROVE  x \in Advanced[BucketIdx(x.at)]
<1> DEFINE i == BucketIdx(x.at)
<1>1. i \in Indices
    BY HistoryTimes
<1>2. x \in buckets[i]
    <2>1. lastUpdateTime - x.at <= WindowDuration - BucketDuration
        BY HistoryTimes, TimeWindowAssumption DEF WindowDuration
    <2>2. x \in Held
        BY <2>1, HistoryTimes DEF IInv, NoRecentLoss
    <2>3. PICK j \in Indices : x \in buckets[j]
        BY <2>2, HeldIn DEF Held, IInv, TypeOK
    <2>. QED
        BY <2>3 DEF IInv, TypeOK
<1>3. CASE TooSoon
    BY <1>1, <1>2, <1>3, AdvancedKeeps
<1>4. CASE ~TooSoon
    <2>1. now - lastUpdateTime <= WindowDuration
        BY HistoryTimes, TimeWindowAssumption DEF WindowDuration
    <2>2. Epoch(now) <= Epoch(x.at) + (NumBuckets - 1)
        <3>1. now - x.at <= (NumBuckets - 1) * BucketDuration
            BY HistoryTimes, TimeWindowAssumption DEF WindowDuration
        <3>2. NumBuckets - 1 \in Nat
            BY TimeWindowAssumption
        <3>. QED
            BY HistoryTimes, <3>1, <3>2, EpochGap
    <2>3. ASSUME NEW e \in Epoch(lastUpdateTime) + 1 .. Epoch(now)
          PROVE  e % NumBuckets # i
        <3>1. e \in Nat /\ Epoch(x.at) < e /\ e - Epoch(x.at) < NumBuckets
            BY HistoryTimes, <2>2, TimeWindowAssumption
        <3>. QED
            BY HistoryTimes, <3>1, SameMod, TimeWindowAssumption
    <2>4. i \notin BucketsAfter(BucketIdx(lastUpdateTime), BucketIdx(now))
        BY <1>4, <2>1, <2>3, AdvanceVisits
    <2>. QED
        BY <1>1, <1>2, <1>4, <2>1, <2>4, AdvancedKeeps
<1>. QED
    BY <1>3, <1>4

\* Under sparse traffic what survives an advance is less than a round old.
LEMMA AdvancedDropsOld ==
    ASSUME IInv, ~dense, ~TooSoon, NEW i \in Indices, NEW x \in Advanced[i]
    PROVE  x \in history /\ Epoch(now) - Epoch(x.at) < NumBuckets
<1>1. x \in history
    <2>1. buckets \in [Indices -> SUBSET history]
        BY DEF IInv, TypeOK
    <2>. QED
        BY <2>1 DEF Advanced, NoBuckets
<1>2. /\ x \in buckets[i] /\ x \in Held
      /\ now - lastUpdateTime <= WindowDuration
      /\ i \notin BucketsAfter(BucketIdx(lastUpdateTime), BucketIdx(now))
    BY <1>1, AdvancedKeeps
<1>3. i = Epoch(x.at) % NumBuckets
    BY <1>1, <1>2, HistoryTimes DEF IInv, TypeOK
<1>4. Epoch(lastUpdateTime) - Epoch(x.at) < NumBuckets
    BY <1>2 DEF IInv, WithinARound
<1>5. ASSUME Epoch(now) - Epoch(x.at) >= NumBuckets PROVE FALSE
    <2> DEFINE e == Epoch(x.at) + NumBuckets
    <2>1. e \in Epoch(lastUpdateTime) + 1 .. Epoch(now)
        BY <1>1, <1>4, <1>5, HistoryTimes, TimeWindowAssumption
    <2>2. e % NumBuckets = i
        BY <1>1, <1>3, HistoryTimes, ModRound, TimeWindowAssumption
    <2>. QED
        BY <1>1, <1>2, <2>1, <2>2, AdvanceVisits
<1>. QED
    BY <1>1, <1>5, HistoryTimes, TimeWindowAssumption

\* recordTimeBased: the ring after an advance and the new outcome.
Filled(o) == [Advanced EXCEPT ![BucketIdx(now)] = @ \cup {o}]

LEMMA FilledHolds ==
    ASSUME IInv, NEW o
    PROVE  /\ Filled(o) \in [Indices -> SUBSET (history \cup {o})]
           /\ BucketIdx(now) \in Indices /\ now \in Nat /\ Epoch(now) \in Nat
           /\ o \in UNION Range(Filled(o))
           /\ UNION Range(Filled(o)) \subseteq history \cup {o}
           /\ \A x \in history :
                now - x.at <= WindowDuration - BucketDuration => x \in UNION Range(Filled(o))
           /\ \A i \in Indices : \A x \in Filled(o)[i] :
                x \in Advanced[i] \/ (x = o /\ i = BucketIdx(now))
<1> DEFINE here == BucketIdx(now)
<1>1. now \in Nat /\ here \in Indices /\ Epoch(now) \in Nat
    BY Epochs, TimeWindowAssumption DEF IInv, TypeOK
<1>2. Advanced \in [Indices -> SUBSET history]
    BY DEF IInv, TypeOK, Advanced, NoBuckets
<1>3. /\ Filled(o) \in [Indices -> SUBSET (history \cup {o})]
      /\ Filled(o)[here] = Advanced[here] \cup {o}
      /\ \A i \in Indices \ {here} : Filled(o)[i] = Advanced[i]
    BY <1>1, <1>2 DEF Filled
<1>4. o \in UNION Range(Filled(o))
    BY <1>1, <1>3, HeldIn
<1>5. UNION Range(Filled(o)) \subseteq history \cup {o}
    BY <1>3, HeldIn
<1>6. ASSUME NEW x \in history, now - x.at <= WindowDuration - BucketDuration
      PROVE  x \in UNION Range(Filled(o))
    <2>1. x \in Advanced[BucketIdx(x.at)] /\ BucketIdx(x.at) \in Indices
        BY <1>6, AdvancedKeepsYoung, HistoryTimes
    <2>2. x \in Filled(o)[BucketIdx(x.at)]
        BY <1>3, <2>1
    <2>. QED
        BY <1>3, <2>1, <2>2, HeldIn
<1>7. ASSUME NEW i \in Indices, NEW x \in Filled(o)[i]
      PROVE  x \in Advanced[i] \/ (x = o /\ i = here)
    BY <1>3, <1>7
<1>. QED
    BY <1>1, <1>3, <1>4, <1>5, <1>6, <1>7

\* Under sparse traffic everything the ring then holds is less than a round old.
LEMMA FilledIsRecent ==
    ASSUME IInv, ~dense, ~TooSoon, NEW o, o.at = now, NEW x \in UNION Range(Filled(o))
    PROVE  Epoch(now) - Epoch(x.at) < NumBuckets
<1>1. PICK i \in Indices : x \in Filled(o)[i]
    BY FilledHolds, HeldIn
<1>2. CASE x \in Advanced[i]
    BY <1>2, AdvancedDropsOld
<1>3. CASE x = o
    BY <1>3, FilledHolds, TimeWindowAssumption
<1>. QED
    BY <1>1, <1>2, <1>3, FilledHolds

\* The outcome a completing call reports.
New(success) == [id |-> reported + 1, at |-> now, success |-> success]

LEMMA NewOutcome ==
    ASSUME IInv, NEW success \in BOOLEAN, Complete(success)
    PROVE  /\ New(success) \in Outcomes /\ New(success) \notin history
           /\ New(success).at = now /\ New(success).id = reported + 1
           /\ reported \in Nat /\ reported' = reported + 1 /\ reported' \in 0 .. MaxOutcomes
           /\ now \in 0 .. MaxTime /\ now' = now
<1>1. reported \in 0 .. MaxOutcomes /\ reported < MaxOutcomes /\ now \in 0 .. MaxTime
    BY DEF IInv, TypeOK, Complete
<1>2. New(success) \in Outcomes
    BY <1>1, TimeWindowAssumption DEF New, Outcomes
<1>3. New(success) \notin history
    BY <1>1, TimeWindowAssumption DEF New, IInv, HistoryDated
<1>. QED
    BY <1>1, <1>2, <1>3, TimeWindowAssumption DEF New, Complete

\* The two outcomes that make traffic dense: the new one and the one before.
LEMMA DenseIsSeenNext ==
    ASSUME IInv, NEW success \in BOOLEAN, Complete(success), dense \/ TooSoon
    PROVE  ~Contract!Sparse(history \cup {New(success)})
<1>1. CASE dense
    BY <1>1 DEF IInv, DenseIsSeen, Contract!Sparse
<1>2. CASE TooSoon
    <2>1. PICK p \in history : p.at = lastUpdateTime
        BY <1>2 DEF TooSoon, IInv, HistoryDated
    <2>2. now - p.at < BucketDuration /\ p.at <= now /\ p.at \in Nat /\ now \in Nat
        BY <1>2, <2>1, HistoryTimes DEF TooSoon
    <2>3. New(success) # p /\ New(success).at = now
        BY NewOutcome
    <2>4. /\ ~(New(success).at - p.at >= BucketDuration)
          /\ ~(p.at - New(success).at >= BucketDuration)
        BY <2>2, <2>3, TimeWindowAssumption
    <2>. QED
        BY <2>3, <2>4 DEF Contract!Sparse
<1>. QED
    BY <1>1, <1>2

\* recordTimeBased and a rate below the threshold.
LEMMA CompleteInv ==
    ASSUME IInv, NEW success \in BOOLEAN, Complete(success), lastUpdateTime' = now
    PROVE  IInv'
<1> USE DEF IInv
<1> DEFINE o    == New(success)
           held == UNION Range(Filled(o))
           trips == state = "Closed"
                      /\ ShouldTrip(Cardinality(held), Cardinality(FailuresIn(held)))
<1>1. /\ now \in 0 .. MaxTime /\ now \in Nat /\ now # Never
      /\ history \subseteq Outcomes /\ o \in Outcomes /\ o.at = now /\ o.id = reported + 1
      /\ reported \in Nat /\ reported' = reported + 1 /\ reported' \in 0 .. MaxOutcomes
    BY NewOutcome, FilledHolds DEF TypeOK, Never
<1>2. /\ ~trips /\ buckets' = Filled(o) /\ history' = history \cup {o} /\ now' = now
      /\ dense' = (dense \/ TooSoon) /\ state' = state
    <2>1. [id |-> reported', at |-> now, success |-> success] = o
        BY <1>1 DEF New
    <2>2. now # Never
        BY <1>1
    <2>. QED
        BY <2>1, <2>2 DEF Complete, Clear, Filled
<1> HIDE DEF o, held, trips
<1>3. /\ Filled(o) \in [Indices -> SUBSET (history \cup {o})]
      /\ o \in held
      /\ \A x \in history : now - x.at <= WindowDuration - BucketDuration => x \in held
    BY FilledHolds DEF held
<1>4. TypeOK'
    <2>1. ASSUME NEW i \in Indices, NEW x \in Filled(o)[i] PROVE BucketIdx(x.at) = i
        <3>1. CASE x = o /\ i = BucketIdx(now)
            BY <1>1, <3>1
        <3>2. CASE x \in Advanced[i]
            <4>1. Advanced \in [Indices -> SUBSET history]
                BY DEF TypeOK, Advanced, NoBuckets
            <4>2. x \in history
                BY <3>2, <4>1
            <4>3. x \in buckets[i]
                BY <3>2, <4>2, AdvancedKeeps
            <4>. QED
                BY <4>3 DEF TypeOK
        <3>. QED
            BY <2>1, <3>1, <3>2, FilledHolds
    <2>2. now' \in 0 .. MaxTime /\ lastUpdateTime' \in {Never} \cup 0 .. now'
        BY <1>1, <1>2
    <2>3. state' \in {"Closed", "Open"} /\ dense' \in BOOLEAN
        BY <1>2 DEF TypeOK, TooSoon
    <2>4. history' \subseteq Outcomes /\ buckets' \in [Indices -> SUBSET history']
        BY <1>1, <1>2, <1>3
    <2>5. \A i \in Indices : \A x \in buckets'[i] : BucketIdx(x.at) = i
        BY <1>2, <2>1
    <2>. QED
        BY <1>1, <2>2, <2>3, <2>4, <2>5 DEF TypeOK
<1>5. NoRecentLoss'
    <2> SUFFICES ASSUME NEW x \in history \cup {o},
                        now - x.at <= WindowDuration - BucketDuration
                 PROVE  x \in held
        BY <1>2 DEF NoRecentLoss, Held, WindowDuration, held
    <2>. QED
        BY <1>3
<1>6. WithinARound'
    <2> SUFFICES ASSUME ~dense, ~TooSoon, NEW x \in held
                 PROVE  Epoch(now) - Epoch(x.at) < NumBuckets
        BY <1>2 DEF WithinARound, Held, Epoch, held
    <2>. QED
        BY <1>1, FilledIsRecent DEF held
<1>7. HistoryDated'
    <2>1. IsFiniteSet(history \cup {o})
        BY FS_AddElement DEF HistoryDated
    <2>2. \A x \in history \cup {o} : x.at <= now
        BY <1>1, HistoryTimes
    <2>3. ASSUME NEW x \in history PROVE x.id <= reported + 1
        BY <1>1, TimeWindowAssumption DEF HistoryDated, Outcomes
    <2>. QED
        BY <1>1, <1>2, <2>1, <2>2, <2>3 DEF HistoryDated
<1>8. DenseIsSeen'
    <2>1. dense' => ~Contract!Sparse(history')
        BY <1>2, DenseIsSeenNext DEF o
    <2>. QED
        BY <2>1 DEF DenseIsSeen, Contract!Sparse
<1>9. ClosedBelowThreshold'
    BY <1>2 DEF ClosedBelowThreshold, Held, held, trips, FailuresIn
<1>. QED
    BY <1>4, <1>5, <1>6, <1>7, <1>8, <1>9

\* Every step keeps the invariant.
LEMMA StepInv == IInv /\ [Next]_vars => IInv'
<1> SUFFICES ASSUME IInv, [Next]_vars PROVE IInv'
    OBVIOUS
<1>1. ASSUME NEW success \in BOOLEAN, Complete(success) PROVE IInv'
    <2>1. CASE lastUpdateTime' = now
        BY <1>1, <2>1, CompleteInv
    <2>2. CASE Clear("Open") /\ UNCHANGED now
        BY <1>1, <2>2, ClearInv, NewOutcome
    <2>. QED
        BY <1>1, <2>1, <2>2 DEF Complete
<1>2. CASE Decide
    BY <1>2, ClearInv DEF Decide, IInv, TypeOK
<1>3. CASE Tick
    <2>1. /\ now \in 0 .. MaxTime /\ now' = now + 1 /\ now < MaxTime
          /\ lastUpdateTime' = lastUpdateTime
        BY <1>3, TimeWindowAssumption DEF Tick, IInv, TypeOK
    <2>2. /\ now' \in 0 .. MaxTime
          /\ lastUpdateTime \in {Never} \cup 0 .. now => lastUpdateTime' \in {Never} \cup 0 .. now'
        BY <2>1, TimeWindowAssumption
    <2>. QED
        BY <1>3, <2>2 DEF Tick, IInv, TypeOK, HistoryDated, NoRecentLoss, DenseIsSeen, WithinARound,
                          ClosedBelowThreshold, Held, FailuresIn, WindowDuration, Epoch
<1>4. CASE UNCHANGED vars
    BY <1>4 DEF vars, IInv, TypeOK, HistoryDated, NoRecentLoss, DenseIsSeen, WithinARound,
                ClosedBelowThreshold, Held, FailuresIn, WindowDuration, Epoch
<1>. QED
    BY <1>1, <1>2, <1>3, <1>4 DEF Next

LEMMA Invariant == Spec => []IInv
<1>1. Init => IInv
    BY InitInv
<1>2. IInv /\ [Next]_vars => IInv'
    BY StepInv
<1>. QED
    BY <1>1, <1>2, PTL DEF Spec

-----------------------------------------------------------------------------
(* The results. *)

\* Outcomes sit in the bucket of their time, whatever the numbers of buckets,
\* ticks and outcomes.
THEOREM TypeCorrect == Spec => []TypeOK
<1>1. IInv => TypeOK
    BY DEF IInv
<1>. QED
    BY <1>1, Invariant, PTL

\* advanceTimeBasedWindow never empties a bucket with an outcome younger than
\* the window less one bucket.
THEOREM NoRecentLossCorrect == Spec => []NoRecentLoss
<1>1. IInv => NoRecentLoss
    BY DEF IInv
<1>. QED
    BY <1>1, Invariant, PTL

\* checkFailureRate after each record leaves no Closed breaker at the rate.
THEOREM ClosedBelowThresholdCorrect == Spec => []ClosedBelowThreshold
<1>1. IInv => ClosedBelowThreshold
    BY DEF IInv
<1>. QED
    BY <1>1, Invariant, PTL

\* Under traffic no denser than one call per bucket the ring slides: nothing
\* older than the window counts.
THEOREM OnlyRecentCountedWhenSparseCorrect == Spec => []OnlyRecentCountedWhenSparse
<1>1. IInv => OnlyRecentCountedWhenSparse
    <2> SUFFICES ASSUME IInv, ~dense, NEW o \in Held
                 PROVE  lastUpdateTime - o.at <= WindowDuration
        BY DEF OnlyRecentCountedWhenSparse, OnlyRecentCounted
    <2>1. buckets \in [Indices -> SUBSET history] /\ history \subseteq Outcomes
        BY DEF IInv, TypeOK
    <2>2. o \in history
        BY <2>1, HeldIn DEF Held
    <2>3. o.at \in Nat
        BY <2>1, <2>2, TimeWindowAssumption DEF Outcomes
    <2>4. lastUpdateTime \in Nat
        BY <2>2, TimeWindowAssumption DEF IInv, HistoryDated, TypeOK
    <2>5. Epoch(lastUpdateTime) - Epoch(o.at) < NumBuckets
        BY DEF IInv, WithinARound
    <2>. QED
        BY <2>3, <2>4, <2>5, EpochGap, TimeWindowAssumption DEF WindowDuration
<1>. QED
    BY <1>1, Invariant, PTL

-----------------------------------------------------------------------------
(* TimeWindow implements TimeContract. *)

\* The set a call is judged on is a sample the contract allows.
LEMMA FilledIsSample ==
    ASSUME IInv, NEW success \in BOOLEAN, Complete(success)
    PROVE  UNION Range(Filled(New(success))) \in Contract!Samples(history \cup {New(success)})
<1> DEFINE o    == New(success)
           all  == history \cup {o}
           held == UNION Range(Filled(o))
<1>1. o.at = now /\ now \in Nat
    BY NewOutcome, FilledHolds
<1> HIDE DEF o
<1>2. held \subseteq all /\ o \in held
    BY FilledHolds
<1>3. Contract!Within(all, WindowDuration - BucketDuration) \subseteq held
    BY <1>2, FilledHolds DEF Contract!Within
<1>4. ASSUME Contract!Sparse(all) PROVE held \subseteq Contract!Within(all, WindowDuration)
    <2>1. ~dense /\ ~TooSoon
        BY <1>4, DenseIsSeenNext DEF IInv, TypeOK, o
    <2>2. ASSUME NEW x \in held PROVE now - x.at <= WindowDuration
        <3>1. Epoch(now) - Epoch(x.at) < NumBuckets
            BY <1>1, <2>1, FilledIsRecent
        <3>2. x.at \in Nat
            BY <1>1, <1>2, HistoryTimes
        <3>. QED
            BY <1>1, <3>1, <3>2, EpochGap, TimeWindowAssumption DEF WindowDuration
    <2>. QED
        BY <1>2, <2>2 DEF Contract!Within
<1>. QED
    BY <1>2, <1>3, <1>4 DEF Contract!Samples, o

\* checkFailureRate's test on a set of outcomes is the contract's.
LEMMA RateIsContracts ==
    ASSUME NEW S
    PROVE  Contract!TooManyFailures(S) <=> ShouldTrip(Cardinality(S), Cardinality(FailuresIn(S)))
<1>1. Contract!Failures(S) = Cardinality(FailuresIn(S))
    BY DEF Contract!Failures, FailuresIn, Contract!Cardinality, Cardinality
<1>2. Contract!Cardinality(S) = Cardinality(S)
    BY DEF Contract!Cardinality, Cardinality
<1>. QED
    BY <1>1, <1>2 DEF Contract!TooManyFailures, ShouldTrip

\* A completion is the contract's Outcome.
LEMMA CompleteIsOutcome ==
    ASSUME IInv, NEW success \in BOOLEAN, Complete(success)
    PROVE  Contract!Outcome(success)
<1> DEFINE o    == New(success)
           all  == history \cup {o}
           held == UNION Range(Filled(o))
<1>1. /\ [id |-> reported', at |-> now, success |-> success] = o
      /\ reported' = reported + 1 /\ now' = now
    BY NewOutcome DEF New
<1>2. held \in Contract!Samples(all)
    BY FilledIsSample
<1>3. Contract!TooManyFailures(held) <=> ShouldTrip(Cardinality(held), Cardinality(FailuresIn(held)))
    BY RateIsContracts
<1>4. IF state = "Closed" /\ Contract!TooManyFailures(held)
      THEN state' = "Open" /\ history' = {}
      ELSE history' = all /\ UNCHANGED state
    BY <1>1, <1>3 DEF Complete, Clear, Filled
<1> HIDE DEF o, held
<1>. QED
    BY <1>1, <1>2, <1>4 DEF Contract!Outcome

\* With the ring of buckets and its lazy advance hidden, a time-based breaker
\* behaves like TimeContract: it judges every call on all outcomes younger than
\* the window less a bucket and, when calls are sparse, on none older than the
\* window, and opens exactly when the judgement says so.
THEOREM RefinesTimeContractCorrect == Spec => RefinesTimeContract
<1>1. Init => Contract!Init
    BY DEF Init, Contract!Init
<1>2. IInv /\ [Next]_vars => [Contract!Next]_(Contract!vars)
    <2> SUFFICES ASSUME IInv, [Next]_vars PROVE [Contract!Next]_(Contract!vars)
        OBVIOUS
    <2>1. ASSUME NEW success \in BOOLEAN, Complete(success) PROVE Contract!Next
        BY <2>1, CompleteIsOutcome DEF Contract!Next
    <2>2. CASE Decide
        BY <2>2 DEF Decide, Clear, Contract!Next, Contract!Verdict
    <2>3. CASE Tick
        BY <2>3 DEF Tick, Contract!Next, Contract!Tick
    <2>4. CASE UNCHANGED vars
        BY <2>4 DEF vars, Contract!vars
    <2>. QED
        BY <2>1, <2>2, <2>3, <2>4 DEF Next
<1>. QED
    BY <1>1, <1>2, Invariant, PTL DEF Spec, RefinesTimeContract, Contract!Spec

=============================================================================
