---------------------------- MODULE RateLimiter ----------------------------
(***************************************************************************)
(* The token bucket of ratelimit.go.  It is refilled by the time since the *)
(* last call, not by a ticker.  Time is in ticks, Interval of them to the  *)
(* code's interval, and tokens are in units of 1/Interval, so that a tick  *)
(* is worth Limit units and a call Interval units.                         *)
(***************************************************************************)
EXTENDS Integers

CONSTANTS Limit,     \* RateLimiter.limit
          Interval,  \* RateLimiter.interval, in ticks
          Horizon    \* bound: ticks for which grants are counted

ASSUME RateAssumption ==
    /\ Limit \in Nat \ {0}
    /\ Interval \in Nat \ {0}
    /\ Horizon \in Nat

VARIABLES tokens,      \* RateLimiter.tokens
          since,       \* ticks since lastRefillAt, up to a full refill
          sinceGrant,  \* ghost: ticks since the last grant, up to Interval
          mark         \* ghost: ticks and grants since an arbitrary moment

rateVars == <<tokens, since, sinceGrant, mark>>

FullBucket == Limit * Interval

RateInit ==
    /\ tokens = FullBucket
    /\ since = 0
    /\ sinceGrant = Interval
    /\ mark = [elapsed |-> 0, grants |-> 0]

-----------------------------------------------------------------------------
\* Mutant of Refilled: the bucket has no rim.
RefilledUncapped == tokens + since * Limit

\* The bucket after the refill that every Acquire begins with.
Refilled ==
    IF tokens + since * Limit > FullBucket THEN FullBucket ELSE tokens + since * Limit

\* Acquire returns true.
Grant ==
    /\ Refilled >= Interval
    /\ tokens' = Refilled - Interval
    /\ since' = 0
    /\ sinceGrant' = 0
    /\ mark' = [mark EXCEPT !.grants = @ + 1]

\* Mutant of Deny: lastRefillAt moves, the fraction of a token is thrown away.
DenyDroppingRefill ==
    /\ Refilled < Interval
    /\ since' = 0
    /\ UNCHANGED <<tokens, sinceGrant, mark>>

\* Acquire returns false, having refilled.
Deny ==
    /\ Refilled < Interval
    /\ tokens' = Refilled
    /\ since' = 0
    /\ UNCHANGED <<sinceGrant, mark>>

UpToInterval(n) == IF n < Interval THEN n + 1 ELSE n

\* time.Now moves on.
RateTick ==
    /\ mark.elapsed < Horizon
    /\ since' = UpToInterval(since)
    /\ sinceGrant' = UpToInterval(sinceGrant)
    /\ mark' = [mark EXCEPT !.elapsed = @ + 1]
    /\ UNCHANGED tokens

-----------------------------------------------------------------------------
RateTypeOK ==
    /\ tokens \in 0 .. FullBucket
    /\ since \in 0 .. Interval
    /\ sinceGrant \in 0 .. Interval
    /\ mark \in [elapsed : 0 .. Horizon, grants : Nat]

\* In any period, wherever it begins, the limiter grants no more than a full
\* bucket and what flows in meanwhile, however the calls are spread.
GrantsBounded ==
    Interval * mark.grants <= FullBucket + Limit * mark.elapsed

=============================================================================
