--------------------------- MODULE MCRetryBudget ---------------------------
(* An instance of RetryBudget for TLC; the bounds are set in the .cfg file. *)
EXTENDS RetryBudget

CONSTANTS c1, c2, c3

ThreeCallers == {c1, c2, c3}

=============================================================================
