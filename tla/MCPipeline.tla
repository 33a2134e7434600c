----------------------------- MODULE MCPipeline -----------------------------
(* Configurations of the pipeline and the state machine for TLC. *)
EXTENDS StateMachine

CONSTANTS c1, c2, c3

Opt(k, v) == [kind |-> k, value |-> v]

Everything ==
    <<Opt("rate", Shared), Opt("adaptive", Shared), Opt("bulkhead", Shared),
      Opt("priority", Shared), Opt("retry", 2), Opt("timeout", 1),
      Opt("breaker", Shared), Opt("instrumenter", Shared), Opt("recover", 1),
      Opt("chaos", 1), Opt("fallback", ForValue)>>

Base == [entry |-> "retryer", method |-> ForValue, options |-> Everything,
         bucket |-> FALSE, retryIf |-> FALSE,
         callers |-> {c1}, outcomes |-> {"ok", "transient", "fatal", "panic"},
         capacity |-> 1, ends |-> TRUE]

\* All layers in their default order.
DefaultOrder == [Base EXCEPT !.bucket = TRUE]

\* Two calls race for the pipeline and for one slot; panics are not recovered.
SharedRetryer ==
    [Base EXCEPT !.options = <<Opt("bulkhead", Shared), Opt("retry", 2),
                               Opt("breaker", Shared), Opt("instrumenter", Shared)>>,
                 !.callers = {c1, c2}, !.outcomes = {"ok", "transient", "panic"},
                 !.ends = FALSE]

\* Two retry layers, which share one limit, around all kinds of errors.
NestedRetries ==
    [Base EXCEPT !.entry = "policy", !.method = ForErr,
                 !.options = <<Opt("fallback", ForErr), Opt("retry", 3), Opt("retry", 2)>>,
                 !.retryIf = TRUE,
                 !.outcomes = Classes \ {"later", "refused", "open", "panicked"}]

NestedPushback ==
    [NestedRetries EXCEPT !.options = <<Opt("retry", 2), Opt("retry", 2)>>,
                          !.retryIf = FALSE,
                          !.outcomes = {"ok", "later", "pushback"}]

\* Two bulkhead layers, which share the last bulkhead; the fallback is ignored.
NestedBulkheads ==
    [Base EXCEPT !.entry = "policy",
                 !.options = <<Opt("bulkhead", Shared), Opt("fallback", ForValue),
                               Opt("retry", 2), Opt("bulkhead", Own), Opt("recover", 1)>>,
                 !.callers = {c1, c2}, !.outcomes = {"ok", "panic"},
                 !.capacity = 2]

\* Every call has a bulkhead of its own.
PerCall ==
    [SharedRetryer EXCEPT !.entry = "perCall", !.method = ForErr,
                          !.options = <<Opt("bulkhead", Own), Opt("retry", 2),
                                        Opt("fallback", ForErr)>>]

NoAttempts == [Base EXCEPT !.entry = "perCall", !.options = <<Opt("retry", 0)>>]

\* Two attempts of a hedged call.
HedgedAttempts ==
    [SharedRetryer EXCEPT !.entry = "hedged",
                          !.options = <<Opt("recover", 1), Opt("breaker", Shared),
                                        Opt("bulkhead", Own)>>]

\* Three events for a state machine whose transition may fail or panic.
Machine ==
    [SharedRetryer EXCEPT !.entry = "machine",
                          !.options = <<Opt("retry", 2), Opt("breaker", Shared)>>,
                          !.callers = {c1, c2, c3}]

Explored == {DefaultOrder, SharedRetryer, NestedRetries, NestedPushback,
             NestedBulkheads, PerCall, NoAttempts, HedgedAttempts, Machine}

=============================================================================
