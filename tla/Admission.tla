----------------------------- MODULE Admission -----------------------------
(***************************************************************************)
(* The outer layers of the default pipeline of retry.go: a call asks the   *)
(* rate limiter for a token and then the priority bulkhead for a slot.  A  *)
(* token is not given back when the bulkhead turns the call away.          *)
(***************************************************************************)
EXTENDS RateLimiter, PriorityBulkhead

VARIABLE flow   \* ghost: actions started since the mark, and the calls that
                \* were between token and slot at the mark

vars == <<rateVars, bulkheadVars, flow>>

Between == {c \in Callers : phase[c] \in {"admitted", "looked"}}

Init ==
    /\ RateInit
    /\ BulkheadInit
    /\ flow = [started |-> 0, pending |-> 0]

\* Mutant of Admit: the call goes on when the limiter denies it.
AdmitDenied(c, p) ==
    /\ phase[c] = "idle"
    /\ Grant \/ Deny
    /\ phase' = [phase EXCEPT ![c] = "admitted"]
    /\ priority' = [priority EXCEPT ![c] = p]
    /\ UNCHANGED <<load, overtaken, flow>>

\* rateLimiterMiddleware passes the call on.
Admit(c, p) ==
    /\ phase[c] = "idle"
    /\ Grant
    /\ phase' = [phase EXCEPT ![c] = "admitted"]
    /\ priority' = [priority EXCEPT ![c] = p]
    /\ UNCHANGED <<load, overtaken, flow>>

\* rateLimiterMiddleware returns ErrRateLimitExceeded.
Reject(c) ==
    /\ phase[c] = "idle"
    /\ Deny
    /\ UNCHANGED <<bulkheadVars, flow>>

Start(c) ==
    /\ TakeSlot(c)
    /\ flow' = [flow EXCEPT !.started = @ + 1]
    /\ UNCHANGED rateVars

\* priorityBulkheadMiddleware.
PassBulkhead(c) ==
    /\ Look(c) \/ TurnedAway(c) \/ NoSlot(c) \/ Release(c)
    /\ UNCHANGED <<rateVars, flow>>

Tick == RateTick /\ UNCHANGED <<bulkheadVars, flow>>

\* The period that is looked at begins now (history variables only).
Mark ==
    /\ mark' = [elapsed |-> 0, grants |-> 0]
    /\ flow' = [started |-> 0, pending |-> Cardinality(Between)]
    /\ UNCHANGED <<tokens, since, sinceGrant, bulkheadVars>>

Next ==
    \/ \E c \in Callers :
          \/ \E p \in Priorities : Admit(c, p)
          \/ Reject(c) \/ Start(c) \/ PassBulkhead(c)
    \/ Tick \/ Mark

Spec == Init /\ [][Next]_vars

-----------------------------------------------------------------------------
(* Properties. *)

\* Tokens lie between empty and full, the load between empty and the capacity,
\* and every caller is in one of the phases.
TypeOK ==
    /\ RateTypeOK
    /\ BulkheadTypeOK
    /\ flow \in [started : Nat, pending : Nat]

\* A call is denied only if another was granted less than a token's worth of
\* time ago: asking in vain, however often, does not postpone the next token.
DeniedOnlyWhenBusy ==
    [][\A c \in Callers : Reject(c) => sinceGrant * Limit < Interval]_vars

\* What the service behind both layers sees in any period: the actions started
\* are those granted in it and the calls that already had their token.
StartsBounded ==
    Interval * (flow.started - flow.pending) <= FullBucket + Limit * mark.elapsed

=============================================================================
