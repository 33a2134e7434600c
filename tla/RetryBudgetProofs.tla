------------------------- MODULE RetryBudgetProofs -------------------------
(* Theorems about RetryBudget for every bucket, attempt limit and set of *)
(* callers.                                                               *)
EXTENDS RetryBudget, FiniteSetTheorems, TLAPS

\* The bucket's fields, the callers and the counters keep their types: no
\* grant takes the bucket below zero, no refill above its capacity, and no
\* loop runs past its last attempt.
THEOREM TypeCorrect == Spec => []TypeOK
<1>. USE BudgetAssumption DEF TypeOK, Sleeping
<1>1. Init => TypeOK
  BY DEF Init
<1>2. TypeOK /\ [Next]_vars => TypeOK'
  <2> SUFFICES ASSUME TypeOK, [Next]_vars PROVE TypeOK'
    OBVIOUS
  <2>. count.executions + 1 \in Nat /\ count.successes + 1 \in Nat
       /\ count.taken + 1 \in Nat /\ count.retries + 1 \in Nat
    OBVIOUS
  <2>1. ASSUME NEW c \in Callers, Begin(c) PROVE TypeOK'
    BY <2>1 DEF Begin, Count
  <2>2. ASSUME NEW c \in Callers, Succeed(c) PROVE TypeOK'
    BY <2>2 DEF Succeed, AddSuccessToken, Count, Leave
  <2>3. ASSUME NEW c \in Callers,
               FailForGood(c) \/ FailUnpaid(c) \/ SleepCancelled(c)
        PROVE  TypeOK'
    BY <2>3 DEF FailForGood, FailUnpaid, SleepCancelled, Leave
  <2>4. ASSUME NEW c \in Callers, FailCancelAll(c) PROVE TypeOK'
    BY <2>4 DEF FailCancelAll, AcquireRetryToken, Count, Leave
  <2>5. ASSUME NEW c \in Callers, FailRetryably(c) PROVE TypeOK'
    BY <2>5 DEF FailRetryably, AcquireRetryToken, Count
  <2>6. ASSUME NEW c \in Callers, Retry(c) PROVE TypeOK'
    BY <2>6 DEF Retry, Count
  <2>7. CASE UNCHANGED vars
    BY <2>7 DEF vars
  <2>. QED
    BY <2>1, <2>2, <2>3, <2>4, <2>5, <2>6, <2>7 DEF Next, Proceed
<1>. QED
  BY <1>1, <1>2, PTL DEF Spec

-----------------------------------------------------------------------------
(* What was granted is paid for. *)

\* Adding and removing one caller moves the number of sleepers by one.
LEMMA SleepingCount ==
    ASSUME NEW S, IsFiniteSet(S), NEW c
    PROVE  /\ Cardinality(S) \in Nat
           /\ Cardinality(S \cup {c}) \in Nat
           /\ Cardinality(S \cup {c}) <= Cardinality(S) + 1
           /\ Cardinality(S \ {c}) \in Nat
           /\ Cardinality(S \ {c}) <= Cardinality(S)
           /\ c \in S => Cardinality(S \ {c}) = Cardinality(S) - 1
<1>1. IsFiniteSet(S \cup {c}) /\ IsFiniteSet(S \ {c})
  BY FS_AddElement, FS_RemoveElement
<1>2. /\ Cardinality(S) \in Nat
      /\ Cardinality(S \cup {c}) \in Nat
      /\ Cardinality(S \ {c}) \in Nat
  BY <1>1, FS_CardinalityType
<1>3. Cardinality(S \cup {c}) = IF c \in S THEN Cardinality(S) ELSE Cardinality(S) + 1
  BY FS_AddElement
<1>4. Cardinality(S \ {c}) = IF c \in S THEN Cardinality(S) - 1 ELSE Cardinality(S)
  BY FS_RemoveElement
<1>. QED
  BY <1>2, <1>3, <1>4

\* Counting never begins again, and a step that ends it is the beginning of
\* an execution or leaves the other counters alone.
LEMMA CountingEnds ==
    ASSUME TypeOK, [Next]_vars
    PROVE  /\ Counting' => Counting
           /\ ~Counting' => /\ count'.retries = count.retries
                            /\ count'.successes = count.successes
<1>. USE BudgetAssumption
<1>1. count \in [executions : Nat, successes : Nat, taken : Nat, retries : Nat]
  BY DEF TypeOK
<1>2. \/ count' = count
      \/ Counting /\ \E f \in {"executions", "successes", "taken", "retries"} :
                         count' = [count EXCEPT ![f] = @ + 1]
  <2>1. ASSUME NEW f, Count(f) PROVE count' = count \/ (Counting /\ count' = [count EXCEPT ![f] = @ + 1])
    BY <2>1 DEF Count
  <2>. QED
    BY <2>1 DEF Next, Proceed, Begin, Succeed, AddSuccessToken, FailForGood, FailUnpaid,
       FailCancelAll, FailRetryably, AcquireRetryToken, Retry, SleepCancelled, vars
<1>3. count'.executions >= count.executions
  BY <1>1, <1>2
<1>4. Counting' => Counting
  BY <1>1, <1>2, <1>3 DEF Counting
<1>5. CASE count' = count
  BY <1>4, <1>5
<1>6. ASSUME NEW f \in {"executions", "successes", "taken", "retries"}, Counting,
             count' = [count EXCEPT ![f] = @ + 1], ~Counting'
      PROVE  f = "executions"
  BY <1>1, <1>6 DEF Counting
<1>. QED
  BY <1>1, <1>2, <1>4, <1>5, <1>6

\* Every retry of every caller has a token of its own.
THEOREM RetriesArePaidCorrect == Spec => []RetriesArePaid
<1>1. Init => RetriesArePaid
  <2> SUFFICES ASSUME Init PROVE Sleeping = {} /\ count.retries = 0 /\ count.taken = 0
    BY FS_EmptySet DEF RetriesArePaid
  <2>. QED
    BY DEF Init, Sleeping
<1>2. TypeOK /\ RetriesArePaid /\ [Next]_vars => RetriesArePaid'
  <2> SUFFICES ASSUME TypeOK, RetriesArePaid, [Next]_vars, Counting'
               PROVE  count'.retries + Cardinality(Sleeping') <= count'.taken
    BY DEF RetriesArePaid
  <2>c. Counting
    BY CountingEnds
  <2>0. /\ Counting
        /\ count \in [executions : Nat, successes : Nat, taken : Nat, retries : Nat]
        /\ count.retries + Cardinality(Sleeping) <= count.taken
        /\ pc \in [Callers -> {"idle", "running", "sleeping"}]
    BY <2>c DEF TypeOK, RetriesArePaid
  <2>a. IsFiniteSet(Sleeping) /\ Cardinality(Sleeping) \in Nat
    <3>1. Sleeping \in SUBSET Callers
      BY DEF Sleeping
    <3>2. IsFiniteSet(Sleeping)
      BY <3>1, FS_Subset, BudgetAssumption
    <3>. QED
      BY <3>2, FS_CardinalityType
  <2>1. ASSUME NEW c \in Callers, Begin(c) \/ Succeed(c)
        PROVE  count'.retries + Cardinality(Sleeping') <= count'.taken
    <3>1. Sleeping' = Sleeping
      BY <2>0, <2>1 DEF Begin, Succeed, Leave, Sleeping
    <3>2. count'.retries = count.retries /\ count'.taken = count.taken
      BY <2>0, <2>1 DEF Begin, Succeed, AddSuccessToken, Count
    <3>. QED
      BY <2>0, <3>1, <3>2
  <2>2. ASSUME NEW c \in Callers,
               FailForGood(c) \/ FailUnpaid(c) \/ SleepCancelled(c) \/ FailCancelAll(c)
        PROVE  count'.retries + Cardinality(Sleeping') <= count'.taken
    <3>1. Sleeping' = Sleeping \ {c}
      BY <2>0, <2>2 DEF FailForGood, FailUnpaid, SleepCancelled, FailCancelAll, Leave, Sleeping
    <3>2. count'.retries = count.retries /\ count'.taken \in {count.taken, count.taken + 1}
      BY <2>0, <2>2 DEF FailForGood, FailUnpaid, SleepCancelled, FailCancelAll,
                        AcquireRetryToken, Count
    <3>3. /\ Cardinality(Sleeping \ {c}) \in Nat
          /\ Cardinality(Sleeping \ {c}) <= Cardinality(Sleeping)
      BY <2>a, SleepingCount
    <3>. QED
      BY <2>0, <2>a, <3>1, <3>2, <3>3
  <2>3. ASSUME NEW c \in Callers, FailRetryably(c)
        PROVE  count'.retries + Cardinality(Sleeping') <= count'.taken
    <3>1. Sleeping' = Sleeping \cup {c}
      BY <2>0, <2>3 DEF FailRetryably, Sleeping
    <3>2. count'.retries = count.retries /\ count'.taken = count.taken + 1
      BY <2>0, <2>3 DEF FailRetryably, AcquireRetryToken, Count
    <3>3. /\ Cardinality(Sleeping \cup {c}) \in Nat
          /\ Cardinality(Sleeping \cup {c}) <= Cardinality(Sleeping) + 1
      BY <2>a, SleepingCount
    <3>. QED
      BY <2>0, <2>a, <3>1, <3>2, <3>3
  <2>4. ASSUME NEW c \in Callers, Retry(c)
        PROVE  count'.retries + Cardinality(Sleeping') <= count'.taken
    <3>1. c \in Sleeping /\ Sleeping' = Sleeping \ {c}
      BY <2>0, <2>4 DEF Retry, Sleeping
    <3>2. count'.retries = count.retries + 1 /\ count'.taken = count.taken
      BY <2>0, <2>4 DEF Retry, Count
    <3>3. Cardinality(Sleeping \ {c}) = Cardinality(Sleeping) - 1
      BY <2>a, <3>1, SleepingCount
    <3>. QED
      BY <2>0, <2>a, <3>1, <3>2, <3>3
  <2>5. CASE UNCHANGED vars
    BY <2>0, <2>5 DEF vars, Sleeping
  <2>. QED
    BY <2>1, <2>2, <2>3, <2>4, <2>5 DEF Next, Proceed
<1>. QED
  BY <1>1, <1>2, TypeCorrect, PTL DEF Spec

-----------------------------------------------------------------------------
(* The budget. *)

\* The books: tokens left and tokens taken never exceed the first filling and
\* the refills.  It is weaker than an equation because the rim loses refills.
Books ==
    Counting => RetryCost * count.taken + tokens <= MaxCapacity + SuccessRefill * count.successes

\* The books hold, whatever the callers do.
LEMMA BooksCorrect == Spec => []Books
<1>1. Init => Books
  BY BudgetAssumption DEF Init, Books
<1>2. TypeOK /\ Books /\ [Next]_vars => Books'
  <2> SUFFICES ASSUME TypeOK, Books, [Next]_vars, Counting' PROVE Books'
    BY DEF Books
  <2>c. Counting
    BY CountingEnds
  <2> DEFINE spent == RetryCost * count.taken
             paid  == SuccessRefill * count.successes
  <2>0. /\ Counting
        /\ count \in [executions : Nat, successes : Nat, taken : Nat, retries : Nat]
        /\ tokens \in Nat /\ tokens <= MaxCapacity
        /\ MaxCapacity \in Nat /\ RetryCost \in Nat /\ SuccessRefill \in Nat
    BY <2>c, BudgetAssumption DEF TypeOK
  <2>1. /\ spent \in Nat /\ paid \in Nat
        /\ RetryCost * (count.taken + 1) = spent + RetryCost
        /\ SuccessRefill * (count.successes + 1) = paid + SuccessRefill
    BY <2>0
  <2>2. CASE AcquireRetryToken
    <3>1. /\ RetryCost * count'.taken = spent + RetryCost
          /\ SuccessRefill * count'.successes = paid
          /\ tokens' = tokens - RetryCost
      BY <2>0, <2>1, <2>2 DEF AcquireRetryToken, Count
    <3>. QED
      BY <2>0, <2>1, <3>1 DEF Books
  <2>3. CASE AddSuccessToken
    <3>1. /\ RetryCost * count'.taken = spent
          /\ SuccessRefill * count'.successes = paid + SuccessRefill
      BY <2>0, <2>1, <2>3 DEF AddSuccessToken, Count
    <3>. QED
      BY <2>0, <2>1, <2>3, <3>1 DEF Books, AddSuccessToken
  <2>4. CASE tokens' = tokens /\ count'.taken = count.taken
             /\ count'.successes = count.successes
    BY <2>0, <2>4 DEF Books
  <2>5. ASSUME NEW c \in Callers, Begin(c) \/ Retry(c)
        PROVE  tokens' = tokens /\ count'.taken = count.taken
               /\ count'.successes = count.successes
    BY <2>0, <2>5 DEF Begin, Retry, Count
  <2>. QED
    BY <2>2, <2>3, <2>4, <2>5 DEF Next, Proceed, Succeed, FailForGood, FailUnpaid,
       FailCancelAll, FailRetryably, SleepCancelled, vars
<1>. QED
  BY <1>1, <1>2, TypeCorrect, PTL DEF Spec

\* The retry storm is bounded for every number of callers and attempts: all
\* retries together cost at most a full bucket plus what successes paid in.
THEOREM RetryBudgetCorrect == Spec => []RetryBudget
<1>1. TypeOK /\ Books /\ RetriesArePaid /\ Counting => RetryBudget
  <2> SUFFICES ASSUME TypeOK, Books, RetriesArePaid, Counting PROVE RetryBudget
    OBVIOUS
  <2>1. /\ count \in [executions : Nat, successes : Nat, taken : Nat, retries : Nat]
        /\ tokens \in Nat
        /\ MaxCapacity \in Nat /\ RetryCost \in Nat /\ SuccessRefill \in Nat
    BY BudgetAssumption DEF TypeOK
  <2>2. Cardinality(Sleeping) \in Nat
    BY FS_Subset, FS_CardinalityType, BudgetAssumption, Sleeping \in SUBSET Callers
    DEF Sleeping
  <2>3. count.retries <= count.taken
    BY <2>1, <2>2 DEF RetriesArePaid
  <2>4. RetryCost * count.retries <= RetryCost * count.taken
    <3>1. PICK d \in Nat : count.taken = count.retries + d
      BY <2>1, <2>3, count.taken - count.retries \in Nat
    <3>2. RetryCost * count.taken = RetryCost * count.retries + RetryCost * d
      BY <2>1, <3>1
    <3>. QED
      BY <2>1, <3>1, <3>2
  <2>. QED
    BY <2>1, <2>4 DEF Books, RetryBudget
<1>2. Init => RetryBudget
  BY BudgetAssumption DEF Init, RetryBudget
<1>3. /\ TypeOK /\ RetryBudget /\ [Next]_vars
      /\ (TypeOK /\ Books /\ RetriesArePaid)'
      => RetryBudget'
  <2> SUFFICES ASSUME TypeOK, RetryBudget, [Next]_vars, (TypeOK /\ Books /\ RetriesArePaid)'
               PROVE  RetryBudget'
    OBVIOUS
  <2>1. CASE Counting'
    <3>1. (TypeOK /\ Books /\ RetriesArePaid /\ Counting => RetryBudget)'
      BY <1>1, PTL
    <3>. QED
      BY <2>1, <3>1
  <2>2. CASE ~Counting'
    BY <2>2, CountingEnds DEF RetryBudget
  <2>. QED
    BY <2>1, <2>2
<1>. QED
  BY <1>2, <1>3, TypeCorrect, BooksCorrect, RetriesArePaidCorrect, PTL DEF Spec

=============================================================================
