--------------------------- MODULE HedgedContract ---------------------------
(***************************************************************************)
(* What a hedged call promises, without its channel, its count of attempts *)
(* in flight or its loop: attempts are launched until the verdict and run  *)
(* on after it, the first success is the value that stays, and a verdict   *)
(* is given once, for a reason the attempts or the context bear out.       *)
(***************************************************************************)
CONSTANTS Attempts, None

VARIABLES launched,   \* the attempts that were launched
          running,    \* those whose action has not returned
          value,      \* the attempt whose value the caller gets
          cancelled,  \* the context is done
          verdict     \* what the call returned

vars == <<launched, running, value, cancelled, verdict>>

Init ==
    /\ launched = {} /\ running = {}
    /\ value = None
    /\ cancelled = FALSE
    /\ verdict = "none"

Launch ==
    /\ verdict = "none"
    /\ \E a \in Attempts \ launched :
          launched' = launched \cup {a} /\ running' = running \cup {a}
    /\ UNCHANGED <<value, cancelled, verdict>>

\* An attempt ends, before the verdict or after it.
Fail == \E a \in running : running' = running \ {a} /\ UNCHANGED <<launched, value, cancelled, verdict>>

Succeed ==
    /\ \E a \in running :
          /\ running' = running \ {a}
          /\ value' = IF value = None THEN a ELSE value
    /\ UNCHANGED <<launched, cancelled, verdict>>

Cancel == cancelled' = TRUE /\ UNCHANGED <<launched, running, value, verdict>>

\* What each verdict takes.
Grounds(v) ==
    \/ v = "ok"        /\ value # None
    \/ v = "failed"    /\ launched # {} /\ running = {} /\ value = None
    \/ v = "stopped"   /\ launched # running
    \/ v = "cancelled" /\ cancelled

\* The verdict ends the context of the attempts that still run.
Conclude ==
    /\ verdict = "none" /\ verdict' # "none"
    /\ Grounds(verdict')
    /\ cancelled' = TRUE
    /\ UNCHANGED <<launched, running, value>>

Next == Launch \/ Fail \/ Succeed \/ Cancel \/ Conclude

Spec == Init /\ [][Next]_vars

=============================================================================
