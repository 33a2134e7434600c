# A TLA+ model of resile

This directory holds TLA+ modules that model
[resile](https://github.com/cinar/resile) (Go): the pipeline a call goes through
with its retry loop and all its layers, the state machine on top of it, and in
detail the circuit breaker with either window, hedged execution, the shared
retry budget, the adaptive concurrency limiter, the rate limiter and the
bulkheads.  TLC checks each model on a small instance; TLAPS proves every
invariant and every action property that a passing run checks, and the four
refinements, for every value of the constants.  Paths below are relative to the repository root
(`src/` in `PROJECT.json`).

Every definition is translated from the Go source.  `PROJECT.json` maps each of
them to the lines it stands for, lists the runs, the deliberately broken
variants ("mutants") that show each property can fail, the hazards the
properties are for, and the theorems.

## 1. Inventory

### Components

| Component | Source | State | Operations |
|---|---|---|---|
| Circuit breaker | `circuit/breaker.go` | `state`, `openedAt`; ring with `ringIdx`, `ringFull`, `total`, `failures`, or ten time buckets with `lastUpdateTime`; three half-open counters; lazily made health channel | `Execute` (two critical sections around the action), `State`, `Reset`, `Health` |
| Hedged execution | `retry.go` `executeHedged`, `DoHedged`, `DoStateHedged`, ... | locals of one call: `attemptsStarted`, `inFlight`, `errs`, the `results` channel; the caller's `result` and `sync.Once` | launch, timer, take a result, give up on `ctx.Done()` |
| Retry loop | `retry.go` `retryMiddleware`, `sleep`, `shouldRetry` | the loop's `attempt`, collected errors | attempt, ask the bucket, sleep, give up |
| Adaptive retry bucket | `adaptive_retry.go` | `tokens` under a mutex | `AcquireRetryToken`, `AddSuccessToken` |
| Adaptive concurrency limiter | `adaptive_concurrency.go` | atomics `currentConcurrency`, `maxConcurrency`; baseline, average, decay clock and previous limit under a mutex; health channel | `Execute`, `update`, `Health` |
| Bulkheads | `bulkhead.go`, `priority.go` | a semaphore channel; thresholds per priority | `Execute` |
| Rate limiter | `ratelimit.go` | `tokens`, `lastRefillAt` under a mutex | `Acquire` |
| Resilient state machine | `statemachine.go` | current state and data under a mutex held for a whole retried transition | `Handle`, getters |
| Policy and pipeline | `policy.go`, `options.go`, `retry.go` | a shared `Config`, the pipeline composed lazily under a lock | options, `Do*`, composition of the layers |
| Deadline propagation | `propagation.go` | none | header value from the remaining time |
| Backoff | `backoff.go` | none | `Next(attempt)` |
| Chaos, telemetry | `chaos/`, `telemetry*` | none that others read | inject a fault, report |

### How they interact

A `Policy` (or a `Do*` call) builds a `Config`; its middlewares nest around the
user's action.  In the default order the rate limiter, the adaptive limiter and
the bulkheads are outside the retry loop, and each attempt passes the deadline
check, the timeout, the breaker, telemetry, panic recovery and chaos.  Hedging
replaces the retry loop by `executeHedged`, which builds an attempt pipeline of
its own in another order (chaos and panic recovery outermost, then the breaker,
timeout, bulkheads and rate limiter; no adaptive limiter) and runs it in
goroutines.
Breakers, buckets, limiters and bulkheads are objects that many calls share, so
each of them is entered concurrently.  The breaker and the limiter publish
events on a channel of capacity 10 that drops what does not fit.

### Which behaviours are hard

* **Two critical sections around foreign code.**  `Execute` captures the breaker's
  state, releases the lock for as long as the action likes, and then accounts
  with the captured value.
* **Counters updated incrementally.**  The ring's totals, the half-open counters,
  `inFlight` and `currentConcurrency` have to agree with what they count on every
  path, panics and shedding included.
* **Check and act apart.**  `State()` reads under one lock and writes under
  another; the limiter increments one atomic and loads another; the priority
  bulkhead looks at the load before it takes a slot.
* **Time.**  `ResetTimeout`, buckets addressed modulo the window, the hedging
  timer against results and cancellation.
* **Lossy events.**  What can a monitor still conclude?
* **Shared budgets.**  Do many loops together stay within one bucket, and do they
  stop retrying a service that does not answer?
* **Errors on their way through layers.**  Retry loops join what they have seen;
  `errors.Is` and `errors.As` look into the joined tree, and an outer loop, a
  fallback or the caller decides on it.
* **Layers in any order and number.**  The options of a `Policy` nest layers that
  share one `Config`; panics leave through all of them.

`PROJECT.json` lists these one by one at their lines under `hazards`.

### What makes each component correct

* Breaker: counters equal the ring; a Closed breaker is below its threshold; at
  most `HalfOpenMaxCalls` probes of a half-open period run; no slot is lost;
  HalfOpen is entered from Open after the timeout only, and is left; it recovers.
* Time window: keeps what is in the window, drops what is not, acts on the rate.
* Hedging: exact `inFlight`; a success has its value; exhaustion has heard of
  everybody; nothing after the verdict; nobody is left blocked.
* Retry budget: retries cost no more than a full bucket plus refills; loops end;
  without successes retries die out.
* Limiter: exact count; no more actions than the highest limit; a floor;
  convergence in both directions.
* Bulkheads: never above capacity, every slot returned, and a priority passes its
  threshold only through callers that lost a race.
* Rate limiter: grants in any period bounded; no denial without a recent grant;
  what reaches the service behind the bulkhead bounded by both.
* Pipeline: one composition, whoever makes it; nothing runs after a verdict; the
  caller is told what the last run did; what layers count is exact on every way out.
* State machine: an event moves the machine exactly when `Handle` returns nil, once, from
  the state it was in; no other event moves it; the lock is always given back.

## 2. Modules

| Module | Models |
|---|---|
| `FailureRate` | the threshold test both windows end in |
| `CountWindow` | the ring: `recordCountBased`, `clearWindow` |
| `BreakerContract` | abstract: a breaker remembers the last `WindowSize` outcomes and trips exactly when they reach the rate |
| `TimeContract` | abstract: each call of a time-based breaker is judged on all the recent outcomes, and on older ones only when calls crowd |
| `HedgedContract` | abstract: attempts, the first value, one verdict for a reason; no channel, no counters, no loop |
| `CallContract` | abstract: a call without layers and an event that takes effect in one step |
| `CircuitBreaker` | the whole breaker with a count window; implements `BreakerContract` (`RefinesContract`) |
| `TimeWindow` | the bucketed window under a clock; implements `TimeContract` (`RefinesTimeContract`) |
| `Hedged` | one hedged call, its goroutines and the reader of its result; implements `HedgedContract` (`RefinesHedgedContract`) |
| `RetryBudget` | several retry loops on one bucket |
| `AdaptiveLimiter` | callers and feedback of the limiter |
| `RateLimiter` | the token bucket, refilled by elapsed time |
| `PriorityBulkhead` | look, acquisition and release of a slot |
| `Admission` | composes the two: a call's way through the outer layers of the pipeline |
| `Pipeline` | options, the composed pipeline and a call's way through its layers, the retry loop among them |
| `StateMachine` | the callers of the pipeline, `Handle` of the state machine in particular; with the pipeline it implements `CallContract` (`RefinesCallContract`) |
| `CircuitBreakerProofs`, `TimeWindowProofs`, `HedgedProofs`, `RetryBudgetProofs`, `AdaptiveLimiterProofs`, `AdmissionProofs`, `PipelineProofs` | theorems |
| `SharedLemmas` | facts about remainders, factors and short sequences that several proofs use |
| `MCCircuitBreaker`, `MCRetryBudget`, `MCAdmission`, `MCPipeline` | callers, symmetry and configurations for TLC |

### CircuitBreaker

One step per critical section, since the mutex makes each atomic: `AdmitClosed`,
`AdmitFirstProbe`, `AdmitProbe` and `Refuse` are the four outcomes of the first
section of `Execute`; `FinishClosed`, `ProbeFails` and `ProbeSucceeds` are the
second section, chosen by the *captured* state in `call[c]` and applied to
whatever `state` is by then; `Panic` is an action that unwinds through `Execute`,
which has no `defer` at that point and therefore does no accounting.  `ToOpen`,
`ToHalfOpen` and `ToClosed` are the three `transitionTo...` functions with the
clearing of the window and the event they include.  `State()` is two steps,
`PollRead` under the read lock and `PollLock` under the write lock; one reader
stands for all because a reader carries nothing but "Open and expired".

`age` counts ticks since `openedAt` while Open; `Expired` is the strict `>` of the
code, and nothing distinguishes ages past it.  `window` holds the ring fields.
`halfOpen` holds the three counters; they keep their last values outside
HalfOpen, as in the code.  `probes` is a history variable: the running calls
admitted in the current half-open period.  `health.seen` and `health.missed` are
what a monitor knows: the last event it took, and whether the newest one was
dropped.

A call whose context is already done returns before the first lock; it is a
stuttering step.

### TimeWindow

A bucket is the set of outcomes it has counted, so that properties can ask
which outcomes a rate is made of.  `Advanced` is `advanceTimeBasedWindow`,
including the early return on a zero `lastUpdateTime` and the inclusive loop
from the bucket after the last to the current one; `Complete` is
`recordTimeBased` followed by `checkFailureRate`.  Of the breaker's state only
what the window needs is kept: `Decide` stands for every transition that clears
it.  `reported`, `history` and `dense` are ghosts; `reported` numbers the outcomes.
`checkFailureRate` advances once more with
a second reading of the clock; the model takes both readings in the same tick.

### Hedged

`pc` runs through the loop of `executeHedged`: `launch` is its top, `wait` the
select.  The launch, the exit test and the timer set-up touch only locals, so
`LaunchNext`, `LaunchRefused` and `LaunchNone` are one step each; each case of the
select is a step, and Go's random choice between ready cases is the
nondeterminism of `Next`.  A goroutine is `running` until its pipeline returns one
of three outcomes (a success, an error worth another attempt, an error that ends
the call), then delivers it or abandons it when the context is done.  The
deferred `cancel()` is part of `Return`.  The three error paths that end the call
(circuit open, `CancelAllRetries`, not retryable) behave alike and are one
outcome, `stop`.  Whether the bucket grants a hedge is a free choice here;
`RetryBudget` models the bucket.

### RetryBudget

Between two accesses to the bucket a loop touches only its own variables, so one
pass from a result to the next wait is a step.  Tokens are whole units (0.1 of
the default configuration's token, say), where the code has `float64`.  The
order in the code is kept: an error that is not retryable, and the last attempt,
do not ask the bucket; `CancelAllRetries` is looked at after the token is taken.
`count` is a ghost that follows the first `MaxExecutions` executions and then stops; the
loops do not.

### AdaptiveLimiter

`Enter` is the atomic increment, `Admit` and `Shed` the comparison with the limit
loaded after it, `Update` the mutex-protected feedback, `Leave` the deferred
decrement; the limit may move between any two of them.  Measurements are chosen
from `RTTs`.  The arithmetic cuts where the code converts to `Duration` and
`int32`.  `decayed` says that a minute has passed since the last decay: an action
can take that long, so every update may find it so.

### RateLimiter, PriorityBulkhead, Admission

`Acquire` holds its mutex throughout: `Grant` and `Deny` are its two outcomes, each
with the refill in front.  A token is `Interval` units and a tick brings `Limit` of
them, so that the code's `elapsed / interval * limit` is a whole number.  `since`
stops at `Interval`, when the bucket is full anyway.

`PriorityBulkhead.Execute` is two steps: `Look` (or `TurnedAway`) reads `len(semaphore)`,
and `TakeSlot` (or `NoSlot`) is the `select` that follows, by which time the load may
be another.  `Share[p]` is the least load at which `utilization >= threshold` holds.
A done context and a `default` branch both leave through `NoSlot`, which therefore
needs no guard.  `Bulkhead.Execute` is the `select` alone; it is the priority
bulkhead whose shares are all the capacity.

`Admission` nests them as `buildDefaultPipeline` does.  Its histories let a period
begin at any moment: `Mark` sets the counters back, so the invariants speak of every
period and not only of those that start with the program.  The adaptive limiter,
when configured, stands between the two layers and only takes callers away.

### Pipeline

A call stands before a layer (`way` is `in`), comes back to one with an error or nil
(`out`), or unwinds through it (`panic`); `at` is the layer, and the user's action is
behind the last.  An error is the sequence of the classes of its leaves in the order
of `errors.Join`; nil is the empty one.  That is what `errors.Is` and `errors.As`, and
so `shouldRetry` (`ShouldRetry`) and `CancelAllRetries` (`CancelsAll`), can see of it.

* *Options* are records of a layer's kind and a value, and two flags for the options
  without a layer.  `Config` gives the last option of a kind; `Appended` is the pipeline
  that options append when `NewPolicy` has made one; `DefaultPipeline` and
  `HedgedPipeline` are the two orders that `retry.go` composes itself.
* *Composition.*  `Begin`, then `FindComposed` or `FindNone` under the read lock, then
  `Compose` under the write lock, one step each, with `pipeline` and `composed` per
  `Config`.  A call of a package-level function has a `Config` of its own.
* *`WithRetryIfFunc`* (`policy.go:83-86`) has no option of its own.  `ShouldRetry` is the
  policy with `retryIf` or with neither; an error a custom function turns down is given up
  freely, as `GiveUp` allows in a scenario with `bucket`, and one it accepts is retried as
  without a policy.  Neither changes the verdicts that come before it.
* *Layers.*  `Pass` and `Refuse` are a layer's decision on the way in (`Refusal` lists
  what each may answer), `Leave` its way out, `Unwind` its deferred calls, `Recover`
  `panicRecoveryMiddleware`, `FallBack` `fallbackMiddleware`.  Whether a rate limiter,
  the limiter, the priority bulkhead, the breaker or chaos refuses is a free choice
  here, as their own modules or nothing decide it; the plain bulkhead's slots are
  counted.  `inside` is that count, and for the other counting layers the calls they
  have let in and not accounted for yet.
* *Retry loop.*  `loops[c][d]` has `attempt` and `errs` of the retry layer at depth `d`.
  `GiveUp` is every way to stop with an error: not retryable, circuit open, last attempt,
  pushback, bucket empty.  `FallAsleep`, `WakeUp` and `SleepCancelled` are `sleep`; a
  delay that is not positive does not look at the context.
* *Contexts.*  `Expire` ends the caller's context or that of a timeout layer around the
  call; `over` has those that are done.
* `Finish` is the fallback of `DoErr` and `DoState` around the pipeline, `Return` the end.

### StateMachine

`Handle` takes `mu` (`owner`) and begins a `DoState`; each run of the transition reads
`state`, and `result` keeps what it returned, an empty update when it failed; `EndCall`
commits `result` when the call returned nil, and unlocks however it ended, since the
unlock is deferred.  State and data move together and are one variable that counts
events modulo three.  `GetState` and `GetData` are reads under the read lock.  The other
callers of the pipeline go through the same module, with nothing of the machine.

### What the contracts say

`RefinesTimeContract` drops the ring: a completed call may be judged on any set of
outcomes (`Samples`) that has all those younger than the window less one bucket, and none
older than the window unless two calls came within a bucket's time; the breaker opens
exactly when that set reaches the rate.  `RefinesHedgedContract` maps goroutines to a set
of running attempts and the shared result to the attempt that stored it; a call may
report exhaustion only when every attempt launched has ended and none has stored a value.
`RefinesCallContract` maps a call's way through the layers to a phase (`Phase`: calling,
acting, unwinding, concluded) and keeps of its errors only what was heard last.  Between
two runs of the action there is then no layer to speak of, only the rule that a verdict
lets nothing but a fallback speak; and the state of the machine moves in `Leave`, which
makes concurrent, retried and panicking events a sequence of single steps.  With
`MaxAttempts = 0` the code commits a zero value (section 5), so the contract leaves
that machine's state out (`Machines`).

## 3. Runs

| Run | Expectation | What it shows |
|---|---|---|
| `breaker_safety` | pass | three callers, panics, `State()`, `Reset()`, a monitor: all safety and action properties, and the refinement of `BreakerContract` |
| `breaker_liveness` | pass | without panics: no slot is lost, HalfOpen is left, the breaker closes for good once calls stop failing |
| `breaker_panic_leak` | violation | with panics HalfOpen may never be left |
| `breaker_early_close` | violation | Open leads straight to Closed |
| `time_window` | pass | nothing recent is lost; nothing old is held under sparse traffic; the refinement of `TimeContract` |
| `time_window_steady` | violation | old outcomes are held under dense traffic |
| `hedged` | pass | the books of a hedged call, the refinement of `HedgedContract`, nobody is left blocked |
| `hedged_race` | violation | the shared result is written between return and read |
| `budget` | pass | the budget holds across three loops; retries die out |
| `adaptive_limiter` | pass | peak, events, convergence |
| `admission` | pass | grants and starts of any period; thresholds under races; denials have a reason |
| `pipeline` | pass | nine configurations: one pipeline, verdicts are final, results are true, counts are exact, calls end; the refinement of `CallContract` |

### Bounds, and why they are enough

* *Breaker.*  Three callers: with two half-open slots one is left to be refused or
  to come from an earlier period.  `WindowSize = 3` with `MinimumCalls = 2` makes
  the ring wrap and the minimum lie below a full ring; `ResetTimeout = 1` separates
  "not expired", "at the limit" and "expired".  `HealthCap = 1` drops events after
  one.  No counter needs a bound: the half-open counters are reset before they
  grow by more than the callers that can be out.  Callers are symmetric where no
  liveness is checked.  `breaker_early_close` takes `HalfOpenMaxCalls = 3`, the
  least for which two late successes outvote one failure at 50 %.
* *TimeWindow.*  Three buckets of two ticks; `MaxTime = 12` is two rounds;
  `MaxOutcomes = 5` outcomes in a behaviour exceed `MinimumCalls = 3`.  A tick less
  than a bucket is what separates dense from sparse traffic.
* *Hedged.*  Four attempts allow two in the channel and two in flight; the races
  of the violation run need two.
* *RetryBudget.*  Three callers, costs that do not divide the capacity (7, 3, 1),
  three attempts.  The ghost counters stop after `MaxExecutions = 4` executions, one
  more than there are callers; the executions themselves go on for ever.
* *AdaptiveLimiter.*  Two callers already interleave increment, comparison and
  update; a limit from 1 to `MaxLimit = 3` covers the floor and the step that is
  announced; round trips of 20 and 40 lie on both sides of 1.5 baselines and let
  the baseline decay from one to the other.  The limit saturates at `MaxLimit`.

* *Admission.*  Three callers on two slots: a low-priority caller, its rival and one
  more to fill the bulkhead between look and acquisition.  `Limit = 2` tokens in
  `Interval = 3` ticks leaves fractions of a token in the bucket; `Horizon = 4` ticks
  of a period exceed a full refill, and after `Mark` time goes on.

* *Pipeline.*  Nine configurations (`MCPipeline!Explored`) in one run: all layers in the
  default order; two calls that race for one pipeline and one slot; nested retry
  layers around all kinds of errors; nested pushbacks; nested bulkheads that share the
  last one; a `Config` per call; no attempts; hedged attempts; a machine with three
  events.  Two or three attempts and one or two slots are what nesting and racing
  need.  `MaxPanics = 2` panics per behaviour are enough for a second one to meet what the
  first has left; the bound is in `Run`.

`CHECK_DEADLOCK FALSE` is set only where the system really stops: a hedged call ends.

### Fairness

* `CircuitBreaker!FairSpec`: time passes; callers keep calling and keep being
  scheduled; an action the breaker let in returns or panics.  `State()` readers,
  monitors and `Reset()` are *not* fair: recovery must not depend on them.
  `RecoversForGood` assumes only that calls stop failing.
* `Hedged!FairSpec`: the goroutine of `executeHedged` is scheduled, and so is a
  goroutine that has an outcome to hand over.  An action may run for ever;
  `EveryoneLeaves` says what follows if none does, `CancellationIsPrompt` holds
  even then.
* `RetryBudget!FairSpec`: actions return and sleeps end; nobody has to begin.
* `StateMachine!FairSpec`: calls proceed, so actions return, sleeps end and an unlocked
  layer is passed; strong fairness of `Handle` is what `sync.Mutex` grants in its
  starvation mode: a goroutine that waits gets the lock after finitely many others.
  Nobody has to arrive, and no context has to end.
* The limiter's liveness properties carry their own premise (calls keep
  completing) and need no fairness.

## 4. Proofs

All theorems are for arbitrary constants that satisfy the modules' named
assumptions.

`SharedLemmas` has what the proofs need of remainders, products and short sequences.

* **CircuitBreaker** (`CircuitBreakerProofs`).  `TypeCorrect`.  Then
  `WindowCountsCorrect`: `WindowCounts` with types is inductive; its heart is a
  lemma about `Record`, split on whether the ring is full, that moves the
  cardinality of the failed slots exactly as `failures` is moved.
  `ClosedBelowThresholdCorrect` needs that an empty window does not trip, which is
  where `MinimumCalls > 0` enters.  `HalfOpenEntryCorrect` follows from the second
  look of `PollLock`.  `ProbeLimitCorrect` rests on finiteness of `probes` and on
  every admission adding at most one element for one increment.
  `NoLostSlotCorrect` assumes `MayPanic = FALSE`; it is false otherwise, as
  `breaker_panic_leak` shows.  Late outcomes of an earlier period are why it reads
  `<=` rather than `=`: they raise `completed` without a slot of this period.
  `HalfOpenUnfailedCorrect`: every failure leaves HalfOpen in the same step.
  `HealthMirrorCorrect` adds that nobody knows anything before the channel is made.
  `RefinesContractCorrect` maps the ring to the sequence `InOrder(window)`.  `Place` is
  a bijection between ages and recorded slots, so the contract's count of failures is
  the code's counter (`CountersOfSequence`); `RecordSlides` says that recording into the
  ring appends to the sequence and drops its first element when it is full.
  `ContractStep` then takes each action to a step of the contract or a stutter.
* **TimeWindow** (`TimeWindowProofs`).  Time is cut into epochs of a bucket, and a bucket's
  index is an epoch modulo their number.  `advanceTimeBasedWindow` empties the indices of
  the epochs since the last update, so an outcome is emptied when its epoch is congruent
  to one of them; `NoRecentLossCorrect` is that this cannot be while it is recent, less
  than a round away.  `OnlyRecentCountedWhenSparseCorrect` needs the converse, that
  what is old has been emptied; its invariant is `WithinARound`: after sparse traffic,
  everything held is less than a round of epochs old, so equal indices mean equal
  epochs.  `ClosedBelowThresholdCorrect` rests on `Complete` comparing
  what it has just recorded, and on a cleared window not tripping.
  `RefinesTimeContractCorrect`: what the buckets hold after `Complete` is one of the
  contract's samples (`FilledIsSample`), recent outcomes by the argument of
  `NoRecentLoss` and old ones by that of `WithinARound`; the ghost `dense` is traced to two
  outcomes that crowd (`DenseIsSeen`); and the rate of the buckets is the rate of the set
  (`RateIsContracts`).
* **Hedged** (`HedgedProofs`).  The inductive invariant has the books of the call: every
  attempt started is in `inFlight`, in `errs` or the success taken (`Books`).  With a done
  context outcomes vanish and stay in `inFlight` for ever; `Values` says that a stored
  result whose success can no longer arrive has left such a gap, and that is what
  keeps the call from reporting exhaustion over it.  `NothingAfterStopCorrect` is about
  the phases.  `RefinesHedgedContractCorrect` takes the steps of the loop (`CallerStep`) and
  of the goroutines (`GoroutineStep`) to the contract; an exhausted call has an empty
  channel and nobody running, since each result in `errs` is one attempt that has ended
  (`ResultsHaveEnded`).  `NobodyIsStuckCorrect` is what safety there is in
  `EveryoneLeaves`: the channel has a place for every attempt (`Room`), and a call that
  waits has something to wait for (`Arms`).
* **RetryBudget** (`RetryBudgetProofs`).  `TypeCorrect`; `RetriesArePaidCorrect`
  from the number of sleepers, each of whom holds a token already taken, for as long as
  the ghost counts; `RetryBudgetCorrect` from the conservation lemma `BooksCorrect`
  (tokens left plus tokens spent never exceed capacity plus refills).
* **AdaptiveLimiter** (`AdaptiveLimiterProofs`).  `AdmittedWithinPeak` is not
  inductive: a caller's comparison uses a count that is stale.  The strengthening
  is `LastSawAll`, that in *every* set of callers inside, some caller (the last to
  come) saw at least as many as the set has.  Applied to the running callers, each
  of whom saw no more than the limit of its moment, it bounds their number by the
  peak.  `CountExactCorrect` and `NeverShutsOffCorrect` fall out of the same
  invariant.  `DegradedIsCurrentCorrect` strengthens to `WarningHolds`, which speaks of the
  newest event whether it is in the channel or taken; it holds because only the step
  to a limit of one announces `Degraded`, and any step up from there announces or
  drops a `Healthy`.

* **Admission** (`AdmissionProofs`).  `GrantsBoundedCorrect` is a potential argument: what
  has been granted since the mark, together with what a refill would leave in the
  bucket now (`Potential`), never exceeds a full bucket and the inflow.
  `DeniedOnlyWhenBusyCorrect` rests on `NothingLost`: a bucket without a whole token
  holds at least the inflow since the last grant.  `ThresholdUncontended` is not
  inductive; `LookStillTrue` adds that what a caller saw holds for as long as nobody
  overtakes it.  `StartsBoundedCorrect` adds the conservation law `Flowing` (starts and
  the calls that may still start were granted since the mark or pending at it).
  `SlotsExactCorrect` and `TypeCorrect` complete the set.

* **Pipeline and StateMachine** (`PipelineProofs`), for any set of callers, any options in
  any order and number, any of the entries.  A step of the specification is a step of
  one call (`StepsOfCalls`), and it leaves all others as they are (`StepTyped`), so each
  invariant is a statement per call.  `VerdictsAreFinalCorrect`: a call that moves inward
  has not just met a verdict, one that moves outward has it in its error (`FinalFor`),
  where no earlier error can hide it (`VerdictsStop`); with a plain `RetryAfterError`
  among the outcomes a pushback can be hidden, and then it is no verdict.
  `VerdictIsTheLastRunsCorrect`: the error is nil exactly after a success or an answer.
  `OnePipelineCorrect`: under the double-checked lock `pipeline` and `composed` are never
  anything but empty or what the options say.  `EventsCorrect`: a call past the
  lock is alone, so the result of its last run is of the state it will be committed to.
  `LockFollowsCallCorrect`: the lock is held exactly while a call is past it.
  `RefinesCallContractCorrect` joins these: each step of a call is one the contract knows
  (`CallSteps`, from `FinalFor` and the outcome of each error), other calls' phases stay
  (`ContractSets`), and the last step of an event is the contract's `Leave` since its
  result is the successor of the state it is committed to (`EndImplements`).
  `InsideExactCorrect`: every step stays in the same layers, or enters, leaves or
  unwinds through the one it stands at (`StepMoves`), and the count of that layer's
  object moves with the set of the calls within it; a panic that passes the breaker has
  no recovery inside of it (`PanicsUnsheltered`).  `MachineTypeCorrect` adds the bounds of
  loops, contexts and slots; that the last option of a kind exists is an argument by
  well-founded order (`LastOf`).

Only model-checked: liveness, which is beyond the prover (`HalfOpenIsLeft`,
`RecoversForGood`, `EveryoneLeaves`, `CancellationIsPrompt`, `RetriesDieOut`, `BacksOff`,
`GrowsBack`, `EveryCallEnds`).  Some theorems have no run of their own, since the runs'
properties imply them or are sharper: `HalfOpenUnfailedCorrect`, `NeverShutsOffCorrect`,
`CountExactCorrect`, `SlotsExactCorrect`, `RetriesArePaidCorrect`, `NothingAfterStopCorrect`,
`LockFollowsCallCorrect`, and the type invariants of `CircuitBreaker`, `TimeWindow` and
`Hedged`.

## 5. Where code and words disagree

Checked as violation runs:

1. `circuit/breaker.go:203`: no `defer` protects the accounting, so a panicking
   probe keeps its slot.  The default pipeline recovers panics inside the breaker
   when `RecoverPanics` is set, which hides this; `executeHedged` recovers them
   outside it, and a bare `Execute` does not recover them.  After
   `HalfOpenMaxCalls` such panics the breaker refuses everybody until `Reset()`.
2. `circuit/breaker.go:272`: late successes of a half-open period close a breaker
   that another probe has already opened, without waiting for `ResetTimeout`.
3. `circuit/breaker.go:367`: the time window is advanced only on gaps of at least
   one bucket.  Under steady traffic it never slides and old outcomes count on.
4. `retry.go:157`: after an error return, an attempt that still runs may store into
   the result the caller is reading.

Visible in the models, described here without a run of their own:

* A late probe *failure* opens a breaker that has been closed or reset in the
  meantime (`ProbeFails` has no guard on `state`), and a late success counts as a
  completion of a *later* half-open period, which may thus close before its own
  probes are done.
* `docs/SPEC.md:236` says of the priority bulkhead "This ensures that high-priority
  requests always have a reserved "buffer" of capacity", and
  `docs/articles/priority-aware-bulkheads.md:29` "always has a "buffer" of capacity reserved
  for it".  The check is decoupled from taking the slot, so several low-priority callers
  that looked at the same time can fill the bulkhead and have a critical one refused.  The
  comment at `bulkhead.go:74` describes this as a soft limit, and the model goes by it:
  `ThresholdUncontended` holds a caller to its threshold only as long as nobody takes a
  slot between its look and its take.
* `retry.go:686`: the `select` of a hedged call picks at random among ready cases, so a
  success that waits in the channel is lost when the context is done as well and its case
  is picked.  `CancellationIsPrompt` and `ExhaustionIsComplete` permit this: the caller
  hears of the context, never of exhaustion.
* A full health channel drops the newest event, so a monitor that drains it can
  be left with a state the breaker has left (`HealthMirror` holds only while
  `missed` is false).
* `retry.go:725`: the condition has no effect; a hedged failure launches the next
  attempt at once whether or not others are in flight.
* `docs/SPEC.md:248` says a depleted bucket cuts traffic off completely; it stops
  retries, first attempts always go out.  A token is also taken for a retry that
  `CancelAllRetries` or a cancelled sleep then prevents.
* In the limiter, callers about to be shed are counted, so callers can refuse
  each other in turn while nobody runs.  `Degraded` is announced only by the step
  from 2 to 1, the only 20 % decrease that halves the limit.

* `ratelimit.go:27` says that `NewRateLimiter(100, time.Second)` "allows 100 requests per
  second".  A full bucket and the inflow meanwhile are up to twice that within one
  second; `GrantsBounded` states the bound the code keeps.  A limit below one is
  accepted and never grants.
* A token of the rate limiter is spent even if the bulkhead then turns the call away.
* `README.md:31` comments `WithBulkhead(10)` in a `Do` call with "Max 10 concurrent
  requests", and `docs/articles/rate-limiting.md:36` limits a `DoErr` call with
  `WithRateLimiter(100, time.Second)`.  The options make a new bulkhead and a new limiter
  for the `Config` of each call, so that they limit one call (`PerCall`, `Object`).  Only
  a `Policy`, a `Retryer` or the options that take an instance share them.
* `policy.go:99` promises `Fallback(Retry(Action))` for `NewPolicy(WithFallback(f), ...)`.
  The fallback layer knows the function of `WithFallbackErr` only, and `Policy.Do` does
  not look at the value fallback at the top level as `DoState` does (`Answerable`).  A state
  machine's fallback can never be called: the value type of its `DoState` is local to
  `Handle`.
* `WithMaxAttempts` and `WithRetry` each append a retry layer to a `Policy`.  Both then have
  the last `MaxAttempts`, and the attempts multiply.
* Bulkhead options given twice to a `Policy` nest one bulkhead in itself, the last one: each
  call takes two slots, and with a capacity of one every call is refused.
* `errors.As` finds the first `RetryAfterError` of a joined error, so an outer retry layer
  does not see a `CancelAllRetries` that comes after a plain one (`CancelsAll`).
* A loop with `MaxAttempts = 0` returns nil without running anything, and `Handle` then
  commits the zero values of state and data.
* `docs/SPEC.md:140` has the loop end instantaneously with its context; a delay of zero or
  less does not look at the context (`WakeUp`), the next attempt goes out.
* A timeout around each attempt answers with `DeadlineExceeded`, which no layer retries.
* `AfterAttempt` is skipped for a panic unless recovery is inside of the instrumenter;
  `executeHedged` has it outside.
* `formatGRPCTimeout` takes whole hours from a `float64`; the plain header is "0" when less
  than a millisecond is left.

## 6. Abstractions

* The failure rate is compared exactly; the code divides in `float64` and a
  threshold such as 29 % may compare differently by one rounding.  Thresholds are
  whole percents.
* `MinimumCalls > WindowSize` is accepted by the code and gives a breaker that never
  opens; the models allow it.
* `MaxAttempts = 0` is modelled in `Pipeline`; `Hedged` and `RetryBudget` assume at least
  one attempt.
* `Pipeline` leaves to the breaker's, the bucket's and the limiters' own modules when they
  refuse, and lets them refuse at any time.  A refusal is an error like those of actions,
  so what is proved for all refusals holds for theirs.
* The accesses to the token bucket, the rate limiter and each critical section of the
  breakers are single steps because the code holds a mutex throughout; the
  models take that from the code and do not show it.  What they show is what any order of
  such steps can do.
* One clock.  Bucket indices use the wall clock and gaps the monotonic one in the
  code, so a jump of the wall clock empties the wrong buckets; nothing in the
  repository promises otherwise.
* `Backoff` converts a `float64` of the cap to an `int64`, which overflows for caps near
  2^63 ns.
* The half-open part of a breaker with the time window is that of `CircuitBreaker`;
  `TimeWindow` keeps of it what clears the window.
* Backoff values, error texts, telemetry, state data and payloads are left out.
* The rate limiter's limit is a whole number of at least one, and token amounts are
  whole units; the bulkheads have a capacity of at least one.

Not modelled:

* *Deadline propagation* (`propagation.go`) formats the remaining time into a header: a pure
  function without state, whose content is the wording of numbers.  The deadline check of
  the pipeline is the layer `deadline`.
* *Backoff* (`backoff.go`) computes random delays in `float64`.  Every delay, zero and
  cancelled ones included, is a behaviour of `WakeUp` and `SleepCancelled`.
* *Telemetry* logs and traces in callbacks; nothing depends on it.  That the callbacks come
  in pairs is in `InsideExact`.
* *Examples* are demonstrations.

## 7. Plan

What is left, in order of value:

1. The half-open part around the time window, as one module with a window as a
   parameter, and its refinement of a contract with a clock.
2. `Pipeline` with the breaker and the bucket in detail instead of free choices, and the
   refinement that shows each of them to be such a choice.
3. More of what liveness rests on as invariants: that each loop of nested retry layers
   comes closer to its end with every attempt.
