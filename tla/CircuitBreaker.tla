--------------------------- MODULE CircuitBreaker ---------------------------
(***************************************************************************)
(* The circuit breaker of circuit/breaker.go with its count-based window.  *)
(* Each caller runs Execute: an admission under the mutex, the user's      *)
(* action with the mutex released, and an accounting step under the mutex  *)
(* again that uses the state captured at admission.  State(), Reset() and  *)
(* the Health() channel interleave with them.                              *)
(***************************************************************************)
EXTENDS CountWindow, Sequences

CONSTANTS Calls,             \* concurrent callers of Execute
          ResetTimeout,      \* Config.ResetTimeout in clock ticks
          HalfOpenMaxCalls,  \* Config.HalfOpenMaxCalls
          HealthCap,         \* capacity of healthCh (10 in Health())
          Monitored,         \* whether Health() is ever called
          MayPanic           \* whether a panic may unwind through Execute

ASSUME BreakerAssumption ==
    /\ IsFiniteSet(Calls)
    /\ ResetTimeout \in Nat \ {0}
    /\ HalfOpenMaxCalls \in Nat \ {0}
    /\ HealthCap \in Nat \ {0}
    /\ Monitored \in BOOLEAN
    /\ MayPanic \in BOOLEAN

VARIABLES state,     \* Breaker.state
          age,       \* ticks since openedAt, counted while they matter
          window,    \* ring, ringIdx, ringFull, total, failures
          halfOpen,  \* halfOpenCalls, halfOpenFailures, halfOpenCompleted
          call,      \* per caller: not running, refused, or the captured state
          probes,    \* history: running calls admitted in this half-open period
          poll,      \* State() between its read lock and its write lock
          health     \* healthChInit, healthCh, and what its reader knows

vars == <<state, age, window, halfOpen, call, probes, poll, health>>

States == {"Closed", "Open", "HalfOpen"}

\* time.Since(openedAt) > ResetTimeout.
Expired == age > ResetTimeout

Idle(c) == call[c] \in {"idle", "refused"}

Init ==
    /\ state = "Closed"
    /\ age = 0
    /\ window = EmptyWindow
    /\ halfOpen = [calls |-> 0, failures |-> 0, completed |-> 0]
    /\ call = [c \in Calls |-> "idle"]
    /\ probes = {}
    /\ poll = "idle"
    /\ health = [init |-> FALSE, ch |-> <<>>, seen |-> "nothing", missed |-> FALSE]

-----------------------------------------------------------------------------
(* The three transitions; every caller holds the write lock. *)

\* emitStateEvent: a non-blocking send that drops the new event when full.
\* `missed` is history: the event just dropped is newer than all queued ones.
Emit(s) ==
    health' = IF ~health.init THEN health
              ELSE IF Len(health.ch) < HealthCap
                   THEN [health EXCEPT !.ch = Append(@, s), !.missed = FALSE]
                   ELSE [health EXCEPT !.missed = TRUE]

\* transitionToOpen.
ToOpen ==
    /\ state' = "Open"
    /\ age' = 0
    /\ window' = EmptyWindow
    /\ Emit("Open")

\* Mutant of ToHalfOpen: the counters of the previous period are kept.
ToHalfOpenKeepingCounters(newCalls) ==
    /\ state' = "HalfOpen"
    /\ halfOpen' = [halfOpen EXCEPT !.calls = @ + Cardinality(newCalls)]
    /\ probes' = newCalls
    /\ Emit("HalfOpen")
    /\ UNCHANGED <<age, window>>

\* transitionToHalfOpen, followed by halfOpenCalls++ for the call, if any,
\* that Execute admits in the same critical section.
ToHalfOpen(newCalls) ==
    /\ state' = "HalfOpen"
    /\ halfOpen' = [calls |-> Cardinality(newCalls), failures |-> 0, completed |-> 0]
    /\ probes' = newCalls
    /\ Emit("HalfOpen")
    /\ UNCHANGED <<age, window>>

\* Mutant of ToClosed: closing is not announced.
ToClosedSilently ==
    /\ state' = "Closed"
    /\ window' = EmptyWindow
    /\ UNCHANGED <<age, health>>

\* transitionToClosed.
ToClosed ==
    /\ state' = "Closed"
    /\ window' = EmptyWindow
    /\ Emit("Closed")
    /\ UNCHANGED age

-----------------------------------------------------------------------------
(* Execute, first critical section.  A call whose context is already done   *)
(* returns before taking the lock and changes nothing.                      *)

AdmitClosed(c) ==
    /\ Idle(c)
    /\ state = "Closed"
    /\ call' = [call EXCEPT ![c] = "Closed"]
    /\ UNCHANGED <<state, age, window, halfOpen, probes, poll, health>>

\* Mutant of Refuse: halfOpenCalls is incremented before it is compared.
RefuseTakingSlot(c) ==
    /\ Idle(c)
    /\ \/ state = "Open" /\ ~Expired /\ UNCHANGED halfOpen
       \/ /\ state = "HalfOpen" /\ halfOpen.calls >= HalfOpenMaxCalls
          /\ halfOpen' = [halfOpen EXCEPT !.calls =
                            IF @ > HalfOpenMaxCalls THEN @ ELSE @ + 1]
    /\ call' = [call EXCEPT ![c] = "refused"]
    /\ UNCHANGED <<state, age, window, probes, poll, health>>

\* ErrCircuitOpen, while Open or when the half-open slots are taken.
Refuse(c) ==
    /\ Idle(c)
    /\ \/ state = "Open" /\ ~Expired
       \/ state = "HalfOpen" /\ halfOpen.calls >= HalfOpenMaxCalls
    /\ call' = [call EXCEPT ![c] = "refused"]
    /\ UNCHANGED <<state, age, window, halfOpen, probes, poll, health>>

AdmitFirstProbe(c) ==
    /\ Idle(c)
    /\ state = "Open" /\ Expired
    /\ ToHalfOpen({c})
    /\ call' = [call EXCEPT ![c] = "HalfOpen"]
    /\ UNCHANGED poll

\* Mutant of AdmitProbe: one probe too many is let through.
AdmitProbeOffByOne(c) ==
    /\ Idle(c)
    /\ state = "HalfOpen" /\ halfOpen.calls <= HalfOpenMaxCalls
    /\ halfOpen' = [halfOpen EXCEPT !.calls = @ + 1]
    /\ probes' = probes \cup {c}
    /\ call' = [call EXCEPT ![c] = "HalfOpen"]
    /\ UNCHANGED <<state, age, window, poll, health>>

AdmitProbe(c) ==
    /\ Idle(c)
    /\ state = "HalfOpen" /\ halfOpen.calls < HalfOpenMaxCalls
    /\ halfOpen' = [halfOpen EXCEPT !.calls = @ + 1]
    /\ probes' = probes \cup {c}
    /\ call' = [call EXCEPT ![c] = "HalfOpen"]
    /\ UNCHANGED <<state, age, window, poll, health>>

Begin(c) == AdmitClosed(c) \/ Refuse(c) \/ AdmitFirstProbe(c) \/ AdmitProbe(c)

-----------------------------------------------------------------------------
(* Execute, second critical section. *)

Return(c) ==
    /\ call' = [call EXCEPT ![c] = "idle"]
    /\ probes' = probes \ {c}
    /\ UNCHANGED poll

\* Mutant: the failure rate is looked at after failures only.
FinishClosedCheckingFailuresOnly(c, success) ==
    /\ call[c] = "Closed"
    /\ LET w == Record(window, success)
       IN  IF state = "Closed" /\ ~success /\ ShouldTrip(w.total, w.failures)
           THEN ToOpen
           ELSE window' = w /\ UNCHANGED <<state, age, health>>
    /\ UNCHANGED halfOpen
    /\ Return(c)

\* onFailure and onSuccess of a call admitted in Closed: the outcome goes into
\* the window whatever the state is by now; the rate is checked in Closed only.
FinishClosed(c, success) ==
    /\ call[c] = "Closed"
    /\ LET w == Record(window, success)
       IN  IF state = "Closed" /\ ShouldTrip(w.total, w.failures)
           THEN ToOpen
           ELSE window' = w /\ UNCHANGED <<state, age, health>>
    /\ UNCHANGED halfOpen
    /\ Return(c)

\* onFailure of a probe: the breaker opens, whatever its state is by now.
ProbeFails(c) ==
    /\ call[c] = "HalfOpen"
    /\ halfOpen' = [halfOpen EXCEPT !.failures = @ + 1, !.completed = @ + 1]
    /\ ToOpen
    /\ Return(c)

\* Mutant of ProbeSucceeds: the verdict waits for one completion more than
\* there are probes.
ProbeSucceedsWaitingForMore(c) ==
    /\ call[c] = "HalfOpen"
    /\ LET completed == halfOpen.completed + 1
       IN  /\ halfOpen' = [halfOpen EXCEPT !.completed = completed]
           /\ IF completed <= HalfOpenMaxCalls THEN UNCHANGED <<state, age, window, health>>
              ELSE IF 100 * halfOpen.failures < FailureRateThreshold * completed
              THEN ToClosed
              ELSE ToOpen
    /\ Return(c)

\* onSuccess of a probe: the HalfOpenMaxCalls-th completion decides, again
\* whatever the state is by now.
ProbeSucceeds(c) ==
    /\ call[c] = "HalfOpen"
    /\ LET completed == halfOpen.completed + 1
       IN  /\ halfOpen' = [halfOpen EXCEPT !.completed = completed]
           /\ IF completed < HalfOpenMaxCalls THEN UNCHANGED <<state, age, window, health>>
              ELSE IF 100 * halfOpen.failures < FailureRateThreshold * completed
              THEN ToClosed
              ELSE ToOpen
    /\ Return(c)

\* A panic in the action unwinds Execute, which has no defer yet: no
\* accounting happens at all.
Panic(c) ==
    /\ MayPanic
    /\ ~Idle(c)
    /\ Return(c)
    /\ UNCHANGED <<state, age, window, halfOpen, health>>

Finish(c) ==
    \/ \E success \in BOOLEAN : FinishClosed(c, success)
    \/ ProbeFails(c)
    \/ ProbeSucceeds(c)
    \/ Panic(c)

-----------------------------------------------------------------------------
(* The other entry points and the clock. *)

Reset ==
    /\ ToClosed
    /\ UNCHANGED <<halfOpen, call, probes, poll>>

\* State() under the read lock; only the answer "Open and expired" goes on.
PollRead ==
    /\ poll = "idle"
    /\ state = "Open" /\ Expired
    /\ poll' = "expired"
    /\ UNCHANGED <<state, age, window, halfOpen, call, probes, health>>

\* Mutant of PollLock: State() trusts what it read before taking the lock.
PollLockUnchecked ==
    /\ poll = "expired"
    /\ poll' = "idle"
    /\ ToHalfOpen({})
    /\ UNCHANGED call

\* State() under the write lock, checking again.
PollLock ==
    /\ poll = "expired"
    /\ poll' = "idle"
    /\ IF state = "Open" /\ Expired
       THEN ToHalfOpen({})
       ELSE UNCHANGED <<state, age, window, halfOpen, probes, health>>
    /\ UNCHANGED call

\* Health(): the first access creates the channel.
Subscribe ==
    /\ Monitored
    /\ ~health.init
    /\ health' = [health EXCEPT !.init = TRUE]
    /\ UNCHANGED <<state, age, window, halfOpen, call, probes, poll>>

Receive ==
    /\ health.ch # <<>>
    /\ health' = [health EXCEPT !.ch = Tail(@), !.seen = Head(health.ch)]
    /\ UNCHANGED <<state, age, window, halfOpen, call, probes, poll>>

\* The clock matters only while Open, and no further than past ResetTimeout.
Tick ==
    /\ state = "Open" /\ ~Expired
    /\ age' = age + 1
    /\ UNCHANGED <<state, window, halfOpen, call, probes, poll, health>>

Next ==
    \/ \E c \in Calls : Begin(c) \/ Finish(c)
    \/ Reset
    \/ PollRead \/ PollLock
    \/ Subscribe \/ Receive
    \/ Tick

Spec == Init /\ [][Next]_vars

\* Time passes, callers keep coming, every action the callers run returns.
Fairness ==
    /\ WF_vars(Tick)
    /\ \A c \in Calls : WF_vars(Begin(c)) /\ WF_vars(Finish(c))

FairSpec == Spec /\ Fairness

-----------------------------------------------------------------------------
(* Type correctness. *)

HealthTypeOK ==
    /\ health \in [init : BOOLEAN, ch : Seq(States),
                   seen : States \cup {"nothing"}, missed : BOOLEAN]
    /\ Len(health.ch) <= HealthCap

\* Every field of the breaker and every caller keeps its type, and the clock,
\* the health channel and the ghost fields stay within their bounds.
TypeOK ==
    /\ state \in States
    /\ age \in 0 .. ResetTimeout + 1
    /\ window \in Window
    /\ halfOpen \in [calls : Nat, failures : Nat, completed : Nat]
    /\ call \in [Calls -> {"idle", "refused", "Closed", "HalfOpen"}]
    /\ probes \subseteq {c \in Calls : call[c] = "HalfOpen"}
    /\ poll \in {"idle", "expired"}
    /\ HealthTypeOK

(* Safety. *)

\* recordCountBased keeps `total` and `failures` by increments and decrements
\* that must agree with the slots of the ring at all times: an underflow of the
\* unsigned counter, or a slot counted twice, would move the failure rate.
WindowCounts ==
    /\ window.total = Cardinality(Recorded(window))
    /\ window.failures = Cardinality(Failed(window))

\* A Closed breaker never rests at or above its failure rate: the call that
\* reaches it, a success included, opens the breaker in the same step, and no
\* Reset, stale outcome or late probe brings a tripping window back.
ClosedBelowThreshold ==
    state = "Closed" => ~ShouldTrip(window.total, window.failures)

\* At most HalfOpenMaxCalls of the callers admitted in the current half-open
\* period run at once, and halfOpenCalls never passes the limit.
ProbeLimit ==
    state = "HalfOpen" =>
        /\ halfOpen.calls <= HalfOpenMaxCalls
        /\ Cardinality(probes) <= halfOpen.calls

\* In HalfOpen every slot taken belongs to a probe that still runs or that has
\* completed, and completions stay short of the verdict.  A lost slot would
\* let Execute refuse every caller for good, since only a completion leaves
\* HalfOpen.
NoLostSlot ==
    state = "HalfOpen" =>
        /\ halfOpen.calls <= halfOpen.completed + Cardinality(probes)
        /\ halfOpen.completed < HalfOpenMaxCalls

\* While probes are out none of them has failed: the failure rate that closes
\* the breaker from HalfOpen is that of an unbroken row of successes.
HalfOpenUnfailed == state = "HalfOpen" => halfOpen.failures = 0

\* As long as the newest event was not dropped, the channel ends in the
\* breaker's state, and a monitor that drained it knows the state.
HealthMirror ==
    health.init /\ ~health.missed =>
        /\ health.ch # <<>> => health.ch[Len(health.ch)] = state
        /\ health.ch = <<>> => health.seen \in {state, "nothing"}

(* Action properties. *)

\* HalfOpen is entered from Open after ResetTimeout only, although State()
\* decides on what it read before it took the write lock.
HalfOpenEntry ==
    [][state # "HalfOpen" /\ state' = "HalfOpen" => state = "Open" /\ Expired]_vars

(* Liveness. *)

\* HalfOpen is left: the probes that are let in all complete and decide.
HalfOpenIsLeft == state = "HalfOpen" ~> state # "HalfOpen"

CallFails(c) == ProbeFails(c) \/ FinishClosed(c, FALSE)

\* Once the protected service stops failing for good, the breaker ends up
\* Closed and stays so, whatever stale outcomes it still has to digest.
RecoversForGood ==
    (<>[][\A c \in Calls : ~CallFails(c)]_vars) => <>[](state = "Closed")

-----------------------------------------------------------------------------
(* What the comments and documents say and the code does not do. *)

\* breaker.go:68: ResetTimeout is waited for in Open before HalfOpen comes, so
\* only an operator's Reset may lead from Open to Closed.
OpenWaitsForResetTimeout ==
    [][state = "Open" /\ state' = "Closed" => Reset]_vars

-----------------------------------------------------------------------------
(* Refinement of BreakerContract. *)

Contract == INSTANCE BreakerContract WITH recent <- InOrder(window)

\* The ring with its incremental counters behaves like the sequence of the last
\* WindowSize outcomes, and a Closed breaker opens in the step in which that sequence says so.
RefinesContract == Contract!Spec

=============================================================================
