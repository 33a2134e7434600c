-------------------------- MODULE PriorityBulkhead --------------------------
(***************************************************************************)
(* PriorityBulkhead of bulkhead.go: a look at the load, then, apart from   *)
(* it, a non-blocking send to the semaphore.  Bulkhead.Execute is the same *)
(* without the look.                                                       *)
(***************************************************************************)
EXTENDS Integers, FiniteSets

CONSTANTS Callers,
          Priorities,
          Capacity,   \* PriorityBulkhead.capacity
          Share       \* per priority: the load from which it is shed

\* A priority without a threshold, or with one above 1.0, has the whole.
ASSUME BulkheadAssumption ==
    /\ IsFiniteSet(Callers)
    /\ Capacity \in Nat \ {0}
    /\ Share \in [Priorities -> 0 .. Capacity]

VARIABLES load,      \* len(semaphore)
          phase,     \* per caller: idle, admitted by the limiter, looked, holding
          priority,  \* per caller: GetPriority(ctx) of its call
          overtaken  \* ghost, per caller: a slot was taken since it looked

bulkheadVars == <<load, phase, priority, overtaken>>

BulkheadInit ==
    /\ load = 0
    /\ phase = [c \in Callers |-> "idle"]
    /\ priority \in [Callers -> Priorities]
    /\ overtaken = [c \in Callers |-> FALSE]

-----------------------------------------------------------------------------
\* Mutant of Look: a load equal to the threshold is let pass.
LookOffByOne(c) ==
    /\ phase[c] = "admitted"
    /\ load <= Share[priority[c]]
    /\ phase' = [phase EXCEPT ![c] = "looked"]
    /\ overtaken' = [overtaken EXCEPT ![c] = FALSE]
    /\ UNCHANGED <<load, priority>>

\* The utilization check, passed.
Look(c) ==
    /\ phase[c] = "admitted"
    /\ load < Share[priority[c]]
    /\ phase' = [phase EXCEPT ![c] = "looked"]
    /\ overtaken' = [overtaken EXCEPT ![c] = FALSE]
    /\ UNCHANGED <<load, priority>>

\* ErrBulkheadFull or ErrShedLoad from the utilization check.
TurnedAway(c) ==
    /\ phase[c] = "admitted"
    /\ load >= Share[priority[c]]
    /\ phase' = [phase EXCEPT ![c] = "idle"]
    /\ UNCHANGED <<load, priority, overtaken>>

\* Mutant of TakeSlot: the channel's capacity is forgotten.
TakeSlotUnbounded(c) ==
    /\ phase[c] = "looked"
    /\ load' = load + 1
    /\ phase' = [phase EXCEPT ![c] = "holding"]
    /\ overtaken' = [d \in Callers |-> overtaken[d] \/ (phase[d] = "looked" /\ d # c)]
    /\ UNCHANGED priority

\* case b.semaphore <- struct{}{}.
TakeSlot(c) ==
    /\ phase[c] = "looked"
    /\ load < Capacity
    /\ load' = load + 1
    /\ phase' = [phase EXCEPT ![c] = "holding"]
    /\ overtaken' = [d \in Callers |-> overtaken[d] \/ (phase[d] = "looked" /\ d # c)]
    /\ UNCHANGED priority

\* case <-ctx.Done(), or default because the last slot went after the look.
NoSlot(c) ==
    /\ phase[c] = "looked"
    /\ phase' = [phase EXCEPT ![c] = "idle"]
    /\ UNCHANGED <<load, priority, overtaken>>

\* The deferred receive, after the action returned or panicked.
Release(c) ==
    /\ phase[c] = "holding"
    /\ load' = load - 1
    /\ phase' = [phase EXCEPT ![c] = "idle"]
    /\ UNCHANGED <<priority, overtaken>>

-----------------------------------------------------------------------------
Holding == {c \in Callers : phase[c] = "holding"}

BulkheadTypeOK ==
    /\ load \in 0 .. Capacity
    /\ phase \in [Callers -> {"idle", "admitted", "looked", "holding"}]
    /\ priority \in [Callers -> Priorities]
    /\ overtaken \in [Callers -> BOOLEAN]

\* Every slot belongs to a running action: none is lost, none is given back
\* that was not taken, whichever way Execute is left.
SlotsExact == load = Cardinality(Holding)

\* The comment at bulkhead.go:74 calls the thresholds soft.  They are exceeded
\* by overtaken callers only, those that lost a race between look and
\* acquisition: of the others no more than its share of each priority run.
ThresholdUncontended ==
    \A p \in Priorities :
        Cardinality({c \in Holding : priority[c] = p /\ ~overtaken[c]}) <= Share[p]

=============================================================================
