---------------------------- MODULE CallContract ----------------------------
(***************************************************************************)
(* What a caller of Do, or of Handle, is promised whatever layers the      *)
(* pipeline has and in whatever order: no run of the action after a        *)
(* verdict, unless a fallback has answered for it; the result of what was  *)
(* heard last; and an event that moves the state machine exactly when it   *)
(* returns nil, as if it were handled in one step.                         *)
(***************************************************************************)
EXTENDS Integers

CONSTANTS Callers, Classes

VARIABLES phase,   \* per caller: where its call is
          heard,   \* per caller: how its last run, refusal or fallback ended
          state,   \* the state machine's state
          final,   \* the errors after which nothing is tried again
          limit,   \* MaxAttempts
          moves    \* whether the calls are events of a state machine

settings == <<final, limit, moves>>
vars == <<phase, heard, state, settings>>

Init ==
    /\ phase = [c \in Callers |-> "idle"]
    /\ heard = [c \in Callers |-> "none"]
    /\ state = 0

Sets(c, p, h) ==
    /\ phase' = [phase EXCEPT ![c] = p]
    /\ heard' = [heard EXCEPT ![c] = h]

Enter(c) == phase[c] = "idle" /\ Sets(c, "calling", "none") /\ UNCHANGED state

\* The pipeline reaches the action.
Act(c) ==
    /\ phase[c] = "calling"
    /\ heard[c] \notin final
    /\ Sets(c, "acting", heard[c])
    /\ UNCHANGED state

Acted(c) ==
    /\ phase[c] = "acting"
    /\ \/ \E h \in Classes \cup {"ok"} : Sets(c, "calling", h)
       \/ Sets(c, "unwinding", "panic")
    /\ UNCHANGED state

Recovered(c) == phase[c] = "unwinding" /\ Sets(c, "calling", "panicked") /\ UNCHANGED state

Fallbacks == {"answered", "odd"}

\* A layer refuses, or a fallback in the pipeline speaks.
Hear(c) ==
    /\ phase[c] = "calling"
    /\ \E h \in Classes \cup {"answered"} :
          /\ heard[c] \in final => h \in Fallbacks
          /\ Sets(c, "calling", h)
    /\ UNCHANGED state

Successful(h) == h \in {"ok", "answered"} \/ (h = "none" /\ limit = 0)

\* The call has its result; a fallback outside of the pipeline may change it.
Conclude(c) ==
    /\ phase[c] = "calling"
    /\ \E h \in {heard[c]} \cup (IF Successful(heard[c]) THEN {} ELSE Fallbacks) :
          Sets(c, IF Successful(h) THEN "succeeded" ELSE "failed", h)
    /\ UNCHANGED state

\* The caller goes on, with the result or with a panic.
Leave(c) ==
    /\ phase[c] \in {"succeeded", "failed", "unwinding"}
    /\ Sets(c, "idle", "none")
    /\ state' = IF moves /\ phase[c] = "succeeded" THEN (state + 1) % 3 ELSE state

Next ==
    /\ \E c \in Callers :
          \/ Enter(c) \/ Act(c) \/ Acted(c) \/ Recovered(c)
          \/ Hear(c) \/ Conclude(c) \/ Leave(c)
    /\ UNCHANGED settings

Spec == Init /\ [][Next]_vars

=============================================================================
