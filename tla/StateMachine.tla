---------------------------- MODULE StateMachine ----------------------------
(***************************************************************************)
(* Callers of the pipeline, among them Handle of a resilient state machine *)
(* (statemachine.go): it holds the machine's lock around a whole DoState   *)
(* and takes over what the last run of the transition made of the state.   *)
(* The machine here counts its events modulo three.                        *)
(***************************************************************************)
EXTENDS Pipeline

VARIABLES owner,   \* who holds StateMachine.mu
          state,   \* StateMachine.state and data
          result   \* per call: DoState's result

machine == <<owner, state, result>>
allVars == <<vars, machine>>

States == 0 .. 2
Zero == 0
Succ(s) == (s + 1) % 3

Handles == scenario.entry = "machine"

MachineInit ==
    /\ Init
    /\ owner = "nobody"
    /\ state = Zero
    /\ result = [c \in Callers |-> Zero]

Call(c) ==
    /\ Begin(c) \/ BeginHedged(c)
    /\ ~Handles
    /\ UNCHANGED machine

\* Mutant of Handle: the lock is not held during the transition.
HandleUnlocked(c) ==
    /\ Handles
    /\ Begin(c)
    /\ owner' = c
    /\ result' = [result EXCEPT ![c] = Zero]
    /\ UNCHANGED state

\* Handle takes the lock and calls DoState.
Handle(c) ==
    /\ Handles
    /\ owner = "nobody"
    /\ Begin(c)
    /\ owner' = c
    /\ result' = [result EXCEPT ![c] = Zero]
    /\ UNCHANGED state

\* A run of the action; that of a machine is the transition, and DoState
\* keeps what it returned, an empty update with an error.
RunAction(c) ==
    /\ \E o \in scenario.outcomes :
          /\ Run(c, o)
          /\ result' = IF Handles /\ o # "panic"
                       THEN [result EXCEPT ![c] = IF o = "ok" THEN Succ(state) ELSE Zero]
                       ELSE result
    /\ UNCHANGED <<owner, state>>

\* The call returns to its caller; Handle commits, and unlocks on every way out.
EndCall(c) ==
    /\ Return(c)
    /\ IF Handles /\ way[c] = "returned" /\ err[c] = <<>>
       THEN state' = result[c]
       ELSE UNCHANGED state
    /\ owner' = IF Handles THEN "nobody" ELSE owner
    /\ result' = [result EXCEPT ![c] = Zero]

Proceed(c) ==
    \/ Call(c) \/ RunAction(c) \/ EndCall(c)
    \/ Travel(c) /\ UNCHANGED machine

MachineNext ==
    \E c \in Callers :
        \/ (Arrive(c) \/ Expire(c)) /\ UNCHANGED machine
        \/ Handle(c)
        \/ Proceed(c)

MachineSpec == MachineInit /\ [][MachineNext]_allVars

\* Actions return, sleeps end, and a goroutine that waits for a mutex gets it
\* after finitely many others (the starvation mode of sync.Mutex).
FairSpec ==
    /\ MachineSpec
    /\ \A c \in Callers : WF_allVars(Proceed(c)) /\ SF_allVars(Handle(c))

-----------------------------------------------------------------------------
(* Properties. *)

MachineTypeOK ==
    /\ TypeOK
    /\ owner \in Callers \cup {"nobody"}
    /\ state \in States
    /\ result \in [Callers -> States]

\* The lock belongs to the one call that is past it, and to nobody when there
\* is none: refusals, exhausted retries and panics all give it back.
LockFollowsCall ==
    Handles => \A c \in Callers :
        owner = c <=> way[c] \notin {"idle", "waiting"}

-----------------------------------------------------------------------------
(* Refinement of CallContract. *)

\* Handle without attempts commits the zero value it got, see the README.
Machines == Handles /\ Config("retry") > 0

Phase(c) ==
    CASE way[c] = "idle"     -> "idle"
      [] AtAction(c)         -> "acting"
      [] way[c] = "panic"    -> "unwinding"
      [] way[c] = "returned" -> IF err[c] = <<>> THEN "succeeded" ELSE "failed"
      [] OTHER               -> "calling"

Contract == INSTANCE CallContract WITH
    phase <- [c \in Callers |-> Phase(c)], heard <- last,
    state <- IF Machines THEN state ELSE Zero,
    final <- Verdicts, limit <- Config("retry"), moves <- Machines

\* Whatever the options make of the pipeline, calls that run through it keep
\* CallContract, and the events of a state machine are atomic.
RefinesCallContract == Contract!Spec

=============================================================================
