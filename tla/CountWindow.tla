---------------------------- MODULE CountWindow ----------------------------
(***************************************************************************)
(* The count-based sliding window of circuit/breaker.go: a ring of the     *)
(* last WindowSize outcomes with incrementally maintained counters.        *)
(* Slots are numbered from 0, as in the code; TRUE is a success.           *)
(***************************************************************************)
EXTENDS FailureRate, FiniteSets

CONSTANT WindowSize   \* Config.WindowSize, never zero after New's defaults

ASSUME WindowAssumption == WindowSize \in Nat \ {0}

Slots == 0 .. WindowSize - 1

Window == [ring : [Slots -> BOOLEAN], ringIdx : Slots, ringFull : BOOLEAN,
           total : Int, failures : Int]

EmptyWindow == [ring |-> [i \in Slots |-> FALSE], ringIdx |-> 0,
                ringFull |-> FALSE, total |-> 0, failures |-> 0]

\* The slots that hold an outcome; a fresh or cleared slot reads FALSE too.
Recorded(w) == IF w.ringFull THEN Slots ELSE {i \in Slots : i < w.ringIdx}

Failed(w) == {i \in Recorded(w) : ~w.ring[i]}

\* The recorded outcomes as a sequence, from the oldest to the newest.
InOrder(w) ==
    IF w.ringFull
    THEN [i \in 1 .. WindowSize |-> w.ring[(w.ringIdx + i - 1) % WindowSize]]
    ELSE [i \in 1 .. w.ringIdx |-> w.ring[i - 1]]

-----------------------------------------------------------------------------
\* Mutants of Record: the overwritten failure stays in the count; the ring is
\* declared full one slot early.
RecordKeepsOldFailure(w, success) ==
    LET next == (w.ringIdx + 1) % WindowSize
    IN  [ring     |-> [w.ring EXCEPT ![w.ringIdx] = success],
         ringIdx  |-> next,
         ringFull |-> w.ringFull \/ next = 0,
         total    |-> IF w.ringFull THEN w.total ELSE w.total + 1,
         failures |-> w.failures + (IF success THEN 0 ELSE 1)]

RecordFullOneEarly(w, success) ==
    LET next    == (w.ringIdx + 1) % WindowSize
        evicted == w.ringFull /\ ~w.ring[w.ringIdx]
    IN  [ring     |-> [w.ring EXCEPT ![w.ringIdx] = success],
         ringIdx  |-> next,
         ringFull |-> w.ringFull \/ next = WindowSize - 1,
         total    |-> IF w.ringFull THEN w.total ELSE w.total + 1,
         failures |-> w.failures - (IF evicted THEN 1 ELSE 0)
                                 + (IF success THEN 0 ELSE 1)]

\* recordCountBased: overwrite the oldest slot, keep total and failures exact.
Record(w, success) ==
    LET next    == (w.ringIdx + 1) % WindowSize
        evicted == w.ringFull /\ ~w.ring[w.ringIdx]
    IN  [ring     |-> [w.ring EXCEPT ![w.ringIdx] = success],
         ringIdx  |-> next,
         ringFull |-> w.ringFull \/ next = 0,
         total    |-> IF w.ringFull THEN w.total ELSE w.total + 1,
         failures |-> w.failures - (IF evicted THEN 1 ELSE 0)
                                 + (IF success THEN 0 ELSE 1)]

=============================================================================
