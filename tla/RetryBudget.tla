---------------------------- MODULE RetryBudget ----------------------------
(***************************************************************************)
(* Retry loops (retryMiddleware in retry.go) of several callers that share *)
(* one AdaptiveBucket (adaptive_retry.go).  Between two of its accesses to *)
(* the bucket, which its mutex makes atomic, a loop touches only its own   *)
(* variables, so each pass from a result to the next wait is one step.     *)
(***************************************************************************)
EXTENDS Integers, FiniteSets

CONSTANTS Callers,
          MaxAttempts,    \* Config.MaxAttempts
          MaxCapacity,    \* AdaptiveBucket.maxCapacity, in units of a token
          RetryCost,      \* AdaptiveBucket.retryCost
          SuccessRefill,  \* AdaptiveBucket.successRefill
          MaxExecutions   \* bound: executions after which the ghost stops counting

ASSUME BudgetAssumption ==
    /\ IsFiniteSet(Callers)
    /\ MaxAttempts \in Nat \ {0}
    /\ MaxCapacity \in Nat
    /\ RetryCost \in Nat \ {0}
    /\ SuccessRefill \in Nat
    /\ MaxExecutions \in Nat

VARIABLES tokens,   \* AdaptiveBucket.tokens
          pc,       \* per caller: idle, in an attempt, or sleeping
          attempt,  \* per caller: the loop's `attempt`
          count     \* ghost: executions, successes, tokens taken, retries made

vars == <<tokens, pc, attempt, count>>

Init ==
    /\ tokens = MaxCapacity
    /\ pc = [c \in Callers |-> "idle"]
    /\ attempt = [c \in Callers |-> 0]
    /\ count = [executions |-> 0, successes |-> 0, taken |-> 0, retries |-> 0]

\* The first executions are counted; the loops go on when the count has ended.
Counting == count.executions <= MaxExecutions

Count(what) ==
    count' = IF Counting THEN [count EXCEPT ![what] = @ + 1] ELSE count

Leave(c) ==
    /\ pc' = [pc EXCEPT ![c] = "idle"]
    /\ attempt' = [attempt EXCEPT ![c] = 0]

-----------------------------------------------------------------------------
(* The bucket. *)

\* Mutant of AcquireRetryToken: a grant costs nothing once the bucket is low.
AcquireKeepingLast ==
    /\ tokens >= RetryCost
    /\ tokens' = IF tokens >= 2 * RetryCost THEN tokens - RetryCost ELSE tokens
    /\ Count("taken")

\* AcquireRetryToken, when it returns true.
AcquireRetryToken ==
    /\ tokens >= RetryCost
    /\ tokens' = tokens - RetryCost
    /\ Count("taken")

\* Mutant of AddSuccessToken: the bucket has no rim.
AddUncapped ==
    /\ tokens' = tokens + SuccessRefill
    /\ Count("successes")

AddSuccessToken ==
    /\ tokens' = IF tokens + SuccessRefill > MaxCapacity THEN MaxCapacity
                 ELSE tokens + SuccessRefill
    /\ Count("successes")

-----------------------------------------------------------------------------
(* The loop. *)

Begin(c) ==
    /\ pc[c] = "idle"
    /\ pc' = [pc EXCEPT ![c] = "running"]
    /\ Count("executions")
    /\ UNCHANGED <<tokens, attempt>>

Succeed(c) ==
    /\ pc[c] = "running"
    /\ AddSuccessToken
    /\ Leave(c)

\* Circuit open, an error that is not retryable, or the last attempt: the
\* bucket is not asked.
FailForGood(c) ==
    /\ pc[c] = "running"
    /\ Leave(c)
    /\ UNCHANGED <<tokens, count>>

\* The bucket refuses.
FailUnpaid(c) ==
    /\ pc[c] = "running"
    /\ attempt[c] + 1 < MaxAttempts
    /\ tokens < RetryCost
    /\ Leave(c)
    /\ UNCHANGED <<tokens, count>>

\* A RetryAfterError with CancelAllRetries is looked at after the bucket.
FailCancelAll(c) ==
    /\ pc[c] = "running"
    /\ attempt[c] + 1 < MaxAttempts
    /\ AcquireRetryToken
    /\ Leave(c)

FailRetryably(c) ==
    /\ pc[c] = "running"
    /\ attempt[c] + 1 < MaxAttempts
    /\ AcquireRetryToken
    /\ pc' = [pc EXCEPT ![c] = "sleeping"]
    /\ UNCHANGED attempt

\* The sleep ends, or there was none to begin with.
Retry(c) ==
    /\ pc[c] = "sleeping"
    /\ pc' = [pc EXCEPT ![c] = "running"]
    /\ attempt' = [attempt EXCEPT ![c] = @ + 1]
    /\ Count("retries")
    /\ UNCHANGED tokens

\* The context ends during the sleep.
SleepCancelled(c) ==
    /\ pc[c] = "sleeping"
    /\ Leave(c)
    /\ UNCHANGED <<tokens, count>>

Proceed(c) ==
    \/ Succeed(c) \/ FailForGood(c) \/ FailUnpaid(c)
    \/ FailCancelAll(c) \/ FailRetryably(c)
    \/ Retry(c) \/ SleepCancelled(c)

Next == \E c \in Callers : Begin(c) \/ Proceed(c)

Spec == Init /\ [][Next]_vars

\* Actions return and sleeps end.
FairSpec == Spec /\ \A c \in Callers : WF_vars(Proceed(c))

-----------------------------------------------------------------------------
(* Properties. *)

Sleeping == {c \in Callers : pc[c] = "sleeping"}

TypeOK ==
    /\ tokens \in 0 .. MaxCapacity
    /\ pc \in [Callers -> {"idle", "running", "sleeping"}]
    /\ attempt \in [Callers -> 0 .. MaxAttempts - 1]
    /\ \A c \in Sleeping : attempt[c] + 1 < MaxAttempts
    /\ count \in [executions : Nat, successes : Nat, taken : Nat, retries : Nat]

\* However the callers interleave, the retries of all of them together cost no
\* more than a full bucket and what successes have paid in.
RetryBudget ==
    RetryCost * count.retries <= MaxCapacity + SuccessRefill * count.successes

\* No retry is made that the bucket has not granted, and no grant is used twice.
RetriesArePaid == Counting => count.retries + Cardinality(Sleeping) <= count.taken

\* When the service stops answering for good, the retries of all callers
\* together die out, although executions go on.
RetriesDieOut ==
    (<>[][\A c \in Callers : ~Succeed(c)]_vars) =>
        <>[][\A c \in Callers : ~Retry(c)]_vars

=============================================================================
