------------------------------- MODULE Hedged -------------------------------
(***************************************************************************)
(* One hedged call of retry.go: executeHedged, the goroutines it starts    *)
(* and the caller (DoStateHedged) that reads the shared result afterwards. *)
(* What an attempt's pipeline returns is one of three outcomes: a success, *)
(* an error worth another attempt, or an error that ends the call (circuit *)
(* open, CancelAllRetries, not retryable).                                 *)
(***************************************************************************)
EXTENDS Integers, Sequences, FiniteSets

CONSTANTS MaxAttempts,   \* Config.MaxAttempts
          HasBucket,     \* whether an AdaptiveBucket may refuse a hedge
          MayCancel      \* whether the caller's context may end

ASSUME HedgedAssumption ==
    /\ MaxAttempts \in Nat \ {0}
    /\ HasBucket \in BOOLEAN
    /\ MayCancel \in BOOLEAN

VARIABLES pc,        \* executeHedged: top of the loop, select, returned; then read
          started,   \* attemptsStarted
          inFlight,  \* inFlight
          errs,      \* the outcomes collected in errs
          ctxDone,   \* ctx.Done() is closed
          attempt,   \* per goroutine: not started, running, its outcome, gone
          results,   \* the channel, of capacity MaxAttempts
          result,    \* DoStateHedged's `result`, as the attempt that stored it
          ret,       \* what executeHedged returned
          granted    \* ghost: attempts that were really started

vars == <<pc, started, inFlight, errs, ctxDone, attempt, results,
          result, ret, granted>>

Attempts == 0 .. MaxAttempts - 1
Outcomes == {"ok", "retry", "stop"}
None == -1

Returned == pc \in {"returned", "read"}

Init ==
    /\ pc = "launch"
    /\ started = 0 /\ inFlight = 0
    /\ errs = <<>>
    /\ ctxDone = FALSE
    /\ attempt = [a \in Attempts |-> "none"]
    /\ results = <<>>
    /\ result = None
    /\ ret = "none"
    /\ granted = {}

-----------------------------------------------------------------------------
(* executeHedged. *)

\* The deferred cancel() closes the context on every return.
Return(what) == pc' = "returned" /\ ret' = what /\ ctxDone' = TRUE

\* Mutant of Settle: the loop ends with the last launch, not the last result.
SettleAtLastLaunch ==
    IF started' >= MaxAttempts
    THEN Return("failed")
    ELSE pc' = "wait" /\ UNCHANGED <<ret, ctxDone>>

\* The exit test between the launch and the select.
Settle ==
    IF started' >= MaxAttempts /\ inFlight' = 0
    THEN Return("failed")
    ELSE pc' = "wait" /\ UNCHANGED <<ret, ctxDone>>

\* Top of the loop: start the next attempt, if there is one left.
LaunchNext ==
    /\ pc = "launch"
    /\ started < MaxAttempts
    /\ attempt' = [attempt EXCEPT ![started] = "running"]
    /\ granted' = granted \cup {started}
    /\ started' = started + 1
    /\ inFlight' = inFlight + 1
    /\ Settle
    /\ UNCHANGED <<errs, results, result>>

\* Mutant of LaunchRefused: inFlight is incremented before the bucket is asked.
LaunchRefusedCounted ==
    /\ pc = "launch"
    /\ HasBucket /\ started \in 1 .. MaxAttempts - 1
    /\ started' = MaxAttempts
    /\ inFlight' = inFlight + 1
    /\ Settle
    /\ UNCHANGED <<errs, attempt, results, result, granted>>

\* The bucket refuses a hedge: no further attempt will be asked for.
LaunchRefused ==
    /\ pc = "launch"
    /\ HasBucket /\ started \in 1 .. MaxAttempts - 1
    /\ started' = MaxAttempts
    /\ UNCHANGED inFlight
    /\ Settle
    /\ UNCHANGED <<errs, attempt, results, result, granted>>

\* All attempts have been started.
LaunchNone ==
    /\ pc = "launch"
    /\ started = MaxAttempts
    /\ UNCHANGED <<started, inFlight>>
    /\ Settle
    /\ UNCHANGED <<errs, attempt, results, result, granted>>

\* case <-timerCh.
HedgingDelayPasses ==
    /\ pc = "wait"
    /\ started < MaxAttempts
    /\ pc' = "launch"
    /\ UNCHANGED <<started, inFlight, errs, ctxDone, attempt, results, result, ret, granted>>

\* Mutant of GiveUp: the attempts in flight are waited for.
GiveUpWhenIdle ==
    /\ pc = "wait"
    /\ ctxDone /\ inFlight = 0
    /\ Return("cancelled")
    /\ UNCHANGED <<started, inFlight, errs, attempt, results, result, granted>>

\* case <-ctx.Done().
GiveUp ==
    /\ pc = "wait"
    /\ ctxDone
    /\ Return("cancelled")
    /\ UNCHANGED <<started, inFlight, errs, attempt, results, result, granted>>

\* Mutant of TakeResult: a failure is not taken off inFlight.
TakeResultUncounted ==
    /\ pc = "wait"
    /\ results # <<>>
    /\ results' = Tail(results)
    /\ CASE Head(results) = "ok"    -> Return("ok") /\ UNCHANGED errs
         [] Head(results) = "stop"  -> Return("stopped") /\ errs' = Append(errs, "stop")
         [] Head(results) = "retry" -> /\ pc' = "launch"
                                       /\ errs' = Append(errs, "retry")
                                       /\ UNCHANGED <<ret, ctxDone>>
    /\ UNCHANGED <<started, inFlight, attempt, result, granted>>

\* case err := <-results.
TakeResult ==
    /\ pc = "wait"
    /\ results # <<>>
    /\ results' = Tail(results)
    /\ inFlight' = inFlight - 1
    /\ CASE Head(results) = "ok"    -> Return("ok") /\ UNCHANGED errs
         [] Head(results) = "stop"  -> Return("stopped") /\ errs' = Append(errs, "stop")
         [] Head(results) = "retry" -> /\ pc' = "launch"
                                       /\ errs' = Append(errs, "retry")
                                       /\ UNCHANGED <<ret, ctxDone>>
    /\ UNCHANGED <<started, attempt, result, granted>>

\* DoStateHedged returns (result, err).
ReadResult ==
    /\ pc = "returned"
    /\ pc' = "read"
    /\ UNCHANGED <<started, inFlight, errs, ctxDone, attempt, results,
                   result, ret, granted>>

Caller ==
    \/ LaunchNext \/ LaunchRefused \/ LaunchNone
    \/ HedgingDelayPasses \/ GiveUp \/ TakeResult
    \/ ReadResult

-----------------------------------------------------------------------------
(* The attempts' goroutines. *)

\* Mutants of ActionReturns: the wrapper forgets the value; a later success
\* overwrites it.
ActionReturnsUnstored(a, outcome) ==
    /\ attempt[a] = "running"
    /\ attempt' = [attempt EXCEPT ![a] = outcome]
    /\ UNCHANGED <<pc, started, inFlight, errs, ctxDone, results,
                   result, ret, granted>>

ActionReturnsOverwriting(a, outcome) ==
    /\ attempt[a] = "running"
    /\ attempt' = [attempt EXCEPT ![a] = outcome]
    /\ result' = IF outcome = "ok" THEN a ELSE result
    /\ UNCHANGED <<pc, started, inFlight, errs, ctxDone, results, ret, granted>>

\* The pipeline returns; a successful action has stored its value, if it is
\* the first (sync.Once).
ActionReturns(a, outcome) ==
    /\ attempt[a] = "running"
    /\ attempt' = [attempt EXCEPT ![a] = outcome]
    /\ result' = IF outcome = "ok" /\ result = None THEN a ELSE result
    /\ UNCHANGED <<pc, started, inFlight, errs, ctxDone, results, ret, granted>>

\* case results <- err.
Deliver(a) ==
    /\ attempt[a] \in Outcomes
    /\ Len(results) < MaxAttempts
    /\ results' = Append(results, attempt[a])
    /\ attempt' = [attempt EXCEPT ![a] = "gone"]
    /\ UNCHANGED <<pc, started, inFlight, errs, ctxDone, result, ret, granted>>

\* case <-ctx.Done(), which is chosen at random when both are ready.
Abandon(a) ==
    /\ attempt[a] \in Outcomes
    /\ ctxDone
    /\ attempt' = [attempt EXCEPT ![a] = "gone"]
    /\ UNCHANGED <<pc, started, inFlight, errs, ctxDone, results,
                   result, ret, granted>>

Goroutine(a) ==
    \/ \E outcome \in Outcomes : ActionReturns(a, outcome)
    \/ Deliver(a) \/ Abandon(a)

\* The caller's context is cancelled or reaches its deadline.
Cancel ==
    /\ MayCancel /\ ~ctxDone
    /\ ctxDone' = TRUE
    /\ UNCHANGED <<pc, started, inFlight, errs, attempt, results,
                   result, ret, granted>>

Next == Caller \/ (\E a \in Attempts : Goroutine(a)) \/ Cancel

Spec == Init /\ [][Next]_vars

\* The executing goroutine is scheduled and so are those that have an outcome
\* to hand over.  An action may run for ever.
FairSpec ==
    /\ Spec
    /\ WF_vars(Caller)
    /\ \A a \in Attempts : WF_vars(Deliver(a) \/ Abandon(a))

-----------------------------------------------------------------------------
(* Properties. *)

\* Attempts launched and not yet consumed by executeHedged.
Outstanding == {a \in granted : attempt[a] # "gone"}

TypeOK ==
    /\ pc \in {"launch", "wait", "returned", "read"}
    /\ started \in 0 .. MaxAttempts
    /\ inFlight \in 0 .. MaxAttempts
    /\ errs \in Seq(Outcomes \ {"ok"}) /\ Len(errs) <= MaxAttempts
    /\ ctxDone \in BOOLEAN
    /\ attempt \in [Attempts -> Outcomes \cup {"none", "running", "gone"}]
    /\ results \in Seq(Outcomes) /\ Len(results) <= MaxAttempts
    /\ result \in Attempts \cup {None}
    /\ ret \in {"none", "ok", "failed", "stopped", "cancelled"}
    /\ granted = {a \in Attempts : attempt[a] # "none"}

\* While the call runs, inFlight is the number of attempts whose outcome it
\* still has to take: those in a goroutine and those in the channel.  Only a
\* done context lets outcomes vanish, and then the select can give up.
InFlightExact ==
    ~Returned =>
        /\ inFlight >= Cardinality(Outstanding) + Len(results)
        /\ ~ctxDone => inFlight = Cardinality(Outstanding) + Len(results)

\* A call that returns no error has a value to return, although the goroutine
\* that stored it and the one whose outcome arrived first may differ.
OkHasValue == ret = "ok" => result # None

\* A call that ran out of attempts has taken the outcome of every attempt it
\* started: none is running, none has succeeded, none is missing from errs.
ExhaustionIsComplete ==
    ret = "failed" =>
        /\ Outstanding = {}
        /\ results = <<>>
        /\ result = None
        /\ Len(errs) = Cardinality(granted)

\* The select never waits for nobody: the timer is armed, or the context is
\* done, or an outcome is there or still to come; and the channel has room for
\* every outcome, so that no goroutine waits for the select.
NobodyIsStuck ==
    /\ pc = "wait" => ctxDone \/ started < MaxAttempts \/ results # <<>> \/ Outstanding # {}
    /\ \A a \in Attempts : attempt[a] \in Outcomes => Len(results) < MaxAttempts

\* An outcome that ends the call is the last one it takes: no attempt is
\* launched and nothing is collected after it.
NothingAfterStop ==
    [][ret # "none" => UNCHANGED <<started, inFlight, errs, granted, ret>>]_vars

\* If the actions return, the call ends, and so does every goroutine it has
\* started, whoever wins: none is left blocked on the results channel.
EveryoneLeaves ==
    (\A a \in Attempts : []<>(attempt[a] # "running"))
        => <>(pc = "read" /\ Outstanding = {})

\* Once the context is done the call returns, even if no action ever does.
CancellationIsPrompt == ctxDone ~> pc = "read"

\* A hedged call is what HedgedContract says: whatever the order in which the
\* outcomes reach the select, its one verdict has its grounds in the attempts.
Contract == INSTANCE HedgedContract WITH
    launched <- granted, running <- {a \in granted : attempt[a] = "running"},
    value <- result, cancelled <- ctxDone, verdict <- ret

RefinesHedgedContract == Contract!Spec

(* What documents and comments say and the code does not do. *)

\* beating-tail-latency.md:39 promises that race conditions are handled: the
\* shared result is not written between the return and the caller's read.
ResultNotRaced == [][pc = "returned" => result' = result]_vars

=============================================================================
