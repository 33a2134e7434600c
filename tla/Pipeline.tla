------------------------------ MODULE Pipeline ------------------------------
(***************************************************************************)
(* A call's way through the composed pipeline of retry.go: how options     *)
(* become a Config (options.go, policy.go), how the pipeline is composed,  *)
(* lazily and under a lock, and how errors and panics travel through its   *)
(* layers.  A call stands before a layer (way "in"), comes back to one     *)
(* with an error or nil ("out"), or unwinds through it ("panic").  An      *)
(* error is the sequence of the classes of its leaves, in the order in     *)
(* which errors.Join lists them; nil is the empty sequence.                *)
(***************************************************************************)
EXTENDS Integers, Sequences, FiniteSetsExt

CONSTANTS Callers,
          Scenarios,  \* configurations and environments that are explored
          MaxPanics   \* bound: actions that panic in a behaviour

Kinds == {"rate", "adaptive", "bulkhead", "priority", "retry", "deadline",
          "timeout", "breaker", "instrumenter", "recover", "chaos", "fallback"}

(* What an option says of its layer; that of "retry" is MaxAttempts. *)
Nil == 0
Own == 1       \* an object the option makes for its Config
Shared == 2    \* an object the user made and may use in many Configs
ForValue == 1  \* WithFallback
ForErr == 2    \* WithFallbackErr

Classes == {"transient", "odd", "fatal", "ctx", "later", "pushback",
            "refused", "open", "panicked"}

Scenario ==
    [entry : {"policy", "retryer", "perCall", "machine", "hedged"},
     method : {ForValue, ForErr},         \* Do or DoErr
     options : Seq([kind : Kinds, value : Nat]),
     bucket : BOOLEAN,                    \* WithAdaptiveBucket
     retryIf : BOOLEAN,                   \* WithRetryIf
     callers : SUBSET Callers,
     outcomes : SUBSET (Classes \cup {"ok", "panic"}),  \* of the action
     capacity : Nat,                      \* of every bulkhead
     ends : BOOLEAN]                      \* whether contexts may end

ASSUME PipelineAssumption ==
    /\ Scenarios \subseteq Scenario
    /\ Callers \cap {"all", "nobody"} = {}
    /\ MaxPanics \in Nat

VARIABLES scenario,  \* chosen once
          pipeline,  \* per Config: pipeline
          composed,  \* per Config: composedPipeline
          layers,    \* per call: the pipeline it runs through
          at,        \* per call: the layer it stands at; the action is behind the last
          way,       \* per call: its phase, or the direction it moves in
          err,       \* per call: the error on its way out
          loops,     \* per call and layer: the attempt and errs of a retry layer
          over,      \* per call: contexts that are done, 0 for the caller's
          inside,    \* per kind and object: calls let in and not yet let out
          last,      \* ghost: how the last run, refusal or fallback ended
          panics     \* ghost: actions that have panicked

shared == <<scenario, pipeline, composed>>
vars == <<shared, layers, at, way, err, loops, over, inside, last, panics>>

-----------------------------------------------------------------------------
(* Options and the Config they make. *)

DefaultConfig == [k \in Kinds |-> IF k = "retry" THEN 5 ELSE Nil]

Given(k) == {i \in DOMAIN scenario.options : scenario.options[i].kind = k}

\* Every option assigns its field, so the last one of a kind counts.
Config(k) ==
    IF Given(k) = {} THEN DefaultConfig[k] ELSE scenario.options[Max(Given(k))].value

\* What the options append to a pipeline that NewPolicy has made.
Appended(s) ==
    IF s.entry = "policy" THEN [i \in DOMAIN s.options |-> s.options[i].kind] ELSE <<>>

IfSet(k) == IF Config(k) # Nil THEN <<k>> ELSE <<>>

\* Mutant of DefaultPipeline: panics are recovered outside the breaker.
DefaultPipelineRecoveringOutside ==
    IfSet("rate") \o IfSet("adaptive") \o IfSet("bulkhead") \o IfSet("priority")
    \o <<"retry", "deadline">> \o IfSet("timeout") \o IfSet("recover")
    \o IfSet("breaker") \o <<"instrumenter">> \o IfSet("chaos")

\* buildDefaultPipeline.
DefaultPipeline ==
    IfSet("rate") \o IfSet("adaptive") \o IfSet("bulkhead") \o IfSet("priority")
    \o <<"retry", "deadline">> \o IfSet("timeout") \o IfSet("breaker")
    \o <<"instrumenter">> \o IfSet("recover") \o IfSet("chaos")

\* The attempt pipeline of executeHedged, which wraps from the inside out.
HedgedPipeline ==
    IfSet("chaos") \o IfSet("recover") \o <<"instrumenter">> \o IfSet("breaker")
    \o <<"deadline">> \o IfSet("timeout") \o IfSet("priority")
    \o IfSet("bulkhead") \o IfSet("rate")

Owners == Callers \cup {"all"}

\* A Policy and a Retryer have one Config, as have the attempts of a hedged
\* call; the package-level functions and Handle make one for each call.
Owner(c) == IF scenario.entry \in {"perCall", "machine"} THEN c ELSE "all"

\* The object that a layer of the call uses.
Object(c, k) == IF Config(k) = Own THEN Owner(c) ELSE "all"

Init ==
    /\ scenario \in Scenarios
    /\ pipeline = [o \in Owners |-> Appended(scenario)]
    /\ composed = [o \in Owners |-> <<>>]
    /\ layers = [c \in Callers |-> <<>>]
    /\ at = [c \in Callers |-> 0]
    /\ way = [c \in Callers |-> "idle"]
    /\ err = [c \in Callers |-> <<>>]
    /\ loops = [c \in Callers |-> <<>>]
    /\ over = [c \in Callers |-> {}]
    /\ inside = [k \in Kinds |-> [o \in Owners |-> 0]]
    /\ last = [c \in Callers |-> "none"]
    /\ panics = 0

-----------------------------------------------------------------------------
(* The call and its pipeline. *)

Becomes(c, w) == way' = [way EXCEPT ![c] = w]

Arrive(c) ==
    /\ way[c] = "idle"
    /\ c \in scenario.callers
    /\ Becomes(c, "waiting")
    /\ UNCHANGED <<shared, layers, at, err, loops, over, inside, last, panics>>

\* A call with a Config of its own starts from a new one.
Begin(c) ==
    /\ way[c] = "waiting"
    /\ scenario.entry # "hedged"
    /\ Becomes(c, "lookup")
    /\ composed' = IF Owner(c) = c THEN [composed EXCEPT ![c] = <<>>] ELSE composed
    /\ pipeline' = IF Owner(c) = c THEN [pipeline EXCEPT ![c] = Appended(scenario)]
                   ELSE pipeline
    /\ UNCHANGED <<scenario, layers, at, err, loops, over, inside, last, panics>>

NoLoop == [attempt |-> 0, errs |-> <<>>]

EnterPipeline(c, p) ==
    /\ Becomes(c, "in")
    /\ layers' = [layers EXCEPT ![c] = p]
    /\ loops' = [loops EXCEPT ![c] = [d \in DOMAIN p |-> NoLoop]]
    /\ at' = [at EXCEPT ![c] = 1]

\* An attempt of executeHedged, which composes its pipeline itself.
BeginHedged(c) ==
    /\ way[c] = "waiting"
    /\ scenario.entry = "hedged"
    /\ EnterPipeline(c, HedgedPipeline)
    /\ UNCHANGED <<shared, err, over, inside, last, panics>>

\* getComposedPipeline under the read lock.
FindComposed(c) ==
    /\ way[c] = "lookup"
    /\ composed[Owner(c)] # <<>>
    /\ EnterPipeline(c, composed[Owner(c)])
    /\ UNCHANGED <<shared, err, over, inside, last, panics>>

FindNone(c) ==
    /\ way[c] = "lookup"
    /\ composed[Owner(c)] = <<>>
    /\ Becomes(c, "compose")
    /\ UNCHANGED <<shared, layers, at, err, loops, over, inside, last, panics>>

\* Mutant of Compose: it does not look again under the write lock.
ComposeBlindly(c) ==
    /\ way[c] = "compose"
    /\ LET o == Owner(c)
           p == IF Appended(scenario) = <<>> THEN pipeline[o] \o DefaultPipeline
                ELSE pipeline[o]
       IN  /\ pipeline' = [pipeline EXCEPT ![o] = p]
           /\ composed' = [composed EXCEPT ![o] = p]
           /\ EnterPipeline(c, p)
    /\ UNCHANGED <<scenario, err, over, inside, last, panics>>

\* getComposedPipeline under the write lock, with buildDefaultPipeline.
Compose(c) ==
    /\ way[c] = "compose"
    /\ LET o == Owner(c)
           p == IF pipeline[o] = <<>> THEN DefaultPipeline ELSE pipeline[o]
       IN  /\ pipeline' = [pipeline EXCEPT ![o] = p]
           /\ composed' = [composed EXCEPT ![o] = IF @ = <<>> THEN p ELSE @]
           /\ EnterPipeline(c, composed'[o])
    /\ UNCHANGED <<scenario, err, over, inside, last, panics>>

-----------------------------------------------------------------------------
(* Layers other than the retry loop. *)

Layer(c) == layers[c][at[c]]
Before(c, w, K) ==
    way[c] = w /\ at[c] \in DOMAIN layers[c] /\ Layer(c) \in K

Inward(c) ==
    /\ Becomes(c, "in")
    /\ at' = [at EXCEPT ![c] = @ + 1]

Outward(c, e) ==
    /\ Becomes(c, "out")
    /\ at' = [at EXCEPT ![c] = @ - 1]
    /\ err' = [err EXCEPT ![c] = e]

\* The context that the layer was given is done.
Done(c) == \E x \in over[c] : x < at[c]

Bulkheads == {"bulkhead", "priority"}
Releasing == Bulkheads \cup {"adaptive"}            \* with a deferred release
Counting == Releasing \cup {"breaker", "instrumenter"}

Full(c) == inside[Layer(c)][Object(c, Layer(c))] >= scenario.capacity

Count(c, K, n) ==
    inside' = IF Layer(c) \in K /\ Config(Layer(c)) # Nil
              THEN [inside EXCEPT ![Layer(c)][Object(c, Layer(c))] = @ + n]
              ELSE inside

\* Mutant of Pass: a bulkhead lets in one call more than it holds.
PassOneMore(c) ==
    /\ Before(c, "in", Kinds \ {"retry"})
    /\ Layer(c) \in Bulkheads =>
          inside[Layer(c)][Object(c, Layer(c))] <= scenario.capacity
    /\ Layer(c) = "breaker" => ~Done(c)
    /\ Layer(c) = "deadline" => ~\E x \in over[c] : 0 < x /\ x < at[c]
    /\ Inward(c)
    /\ Count(c, Counting, 1)
    /\ UNCHANGED <<shared, layers, err, loops, over, last, panics>>

\* A layer lets the call through.  The deadline check knows that a timeout
\* around it has passed; of the caller's context it knows only what it says.
Pass(c) ==
    /\ Before(c, "in", Kinds \ {"retry"})
    /\ Layer(c) \in Bulkheads => ~Full(c)
    /\ Layer(c) = "breaker" => ~Done(c)
    /\ Layer(c) = "deadline" => ~\E x \in over[c] : 0 < x /\ x < at[c]
    /\ Inward(c)
    /\ Count(c, Counting, 1)
    /\ UNCHANGED <<shared, layers, err, loops, over, last, panics>>

\* What a layer may answer instead.
Refusal(c, e) ==
    \/ e = "refused" /\ Layer(c) \in {"rate", "adaptive", "priority"}
    \/ e = "refused" /\ Layer(c) = "bulkhead" /\ Full(c) /\ ~Done(c)
    \/ e = "ctx" /\ Layer(c) \in Bulkheads \cup {"breaker", "chaos"} /\ Done(c)
    \/ e = "ctx" /\ Layer(c) = "deadline" /\ scenario.ends
    \/ e = "open" /\ Layer(c) = "breaker" /\ ~Done(c)
    \/ e = "transient" /\ Layer(c) = "chaos"

Refuse(c) ==
    /\ Before(c, "in", Kinds)
    /\ \E e \in Classes :
          /\ Refusal(c, e)
          /\ Outward(c, <<e>>)
          /\ last' = [last EXCEPT ![c] = e]
    /\ UNCHANGED <<shared, layers, loops, over, inside, panics>>

\* fallbackMiddleware knows the fallback of DoErr only.
Answers(c) == Layer(c) = "fallback" /\ err[c] # <<>> /\ Config("fallback") = ForErr

Answer(c, e) ==
    /\ err' = [err EXCEPT ![c] = e]
    /\ last' = [last EXCEPT ![c] = IF e = <<>> THEN "answered" ELSE "odd"]

FallBack(c) ==
    /\ Before(c, "out", {"fallback"})
    /\ Answers(c)
    /\ \E e \in {<<>>, <<"odd">>} : Answer(c, e)
    /\ at' = [at EXCEPT ![c] = @ - 1]
    /\ UNCHANGED <<shared, layers, way, loops, over, inside, panics>>

\* The context of a timeout layer ends with it.
Leaving(c) == over' = [over EXCEPT ![c] = @ \ {at[c]}]

Leave(c) ==
    /\ Before(c, "out", Kinds \ {"retry"})
    /\ ~Answers(c)
    /\ Outward(c, err[c])
    /\ Count(c, Counting, -1)
    /\ Leaving(c)
    /\ UNCHANGED <<shared, layers, loops, last, panics>>

SetLoop(c, l) == loops' = [loops EXCEPT ![c][at[c]] = l]

\* Deferred calls run; the breaker's accounting and AfterAttempt do not.
Unwind(c) ==
    /\ Before(c, "panic", Kinds \ {"recover"})
    /\ at' = [at EXCEPT ![c] = @ - 1]
    /\ SetLoop(c, NoLoop)
    /\ Count(c, Releasing, -1)
    /\ Leaving(c)
    /\ UNCHANGED <<shared, layers, way, err, last, panics>>

Recover(c) ==
    /\ Before(c, "panic", {"recover"})
    /\ Outward(c, <<"panicked">>)
    /\ last' = [last EXCEPT ![c] = "panicked"]
    /\ UNCHANGED <<shared, layers, loops, over, inside, panics>>

-----------------------------------------------------------------------------
(* The retry loop. *)

Has(e, x) == \E i \in DOMAIN e : e[i] = x

\* Mutant of ShouldRetry: WithRetryIf is asked before anything else.
ShouldRetryTargetFirst(e) ==
    \/ scenario.retryIf /\ Has(e, "transient")
    \/ ~scenario.retryIf /\ ~Has(e, "fatal") /\ ~Has(e, "ctx")

\* shouldRetry of an error; "transient" is the target of WithRetryIf.
ShouldRetry(e) ==
    /\ ~Has(e, "fatal")
    /\ ~Has(e, "ctx")
    /\ scenario.retryIf => Has(e, "transient")

\* errors.As finds the first RetryAfterError in the tree.
CancelsAll(e) ==
    \E i \in DOMAIN e : e[i] = "pushback" /\ \A j \in 1 .. i - 1 : e[j] # "later"

Loop(c) == loops[c][at[c]]

NoAttempt(c) ==
    /\ Before(c, "in", {"retry"})
    /\ Config("retry") = 0
    /\ Outward(c, <<>>)
    /\ UNCHANGED <<shared, layers, loops, over, inside, last, panics>>

FirstAttempt(c) ==
    /\ Before(c, "in", {"retry"})
    /\ Config("retry") > 0
    /\ SetLoop(c, [attempt |-> 1, errs |-> <<>>])
    /\ Inward(c)
    /\ UNCHANGED <<shared, layers, err, over, inside, last, panics>>

Succeed(c) ==
    /\ Before(c, "out", {"retry"})
    /\ err[c] = <<>>
    /\ Outward(c, <<>>)
    /\ SetLoop(c, NoLoop)
    /\ UNCHANGED <<shared, layers, over, inside, last, panics>>

MustStop(c) ==
    \/ Has(err[c], "open")
    \/ ~ShouldRetry(err[c])
    \/ Loop(c).attempt >= Config("retry")
    \/ CancelsAll(err[c])

\* Mutant of GiveUp: the last error is joined too late to be returned.
GiveUpForgetting(c) ==
    /\ Before(c, "out", {"retry"})
    /\ err[c] # <<>>
    /\ MustStop(c) \/ scenario.bucket
    /\ Outward(c, Loop(c).errs)
    /\ SetLoop(c, NoLoop)
    /\ UNCHANGED <<shared, layers, over, inside, last, panics>>

\* The loop must stop, or the bucket refuses the retry.
GiveUp(c) ==
    /\ Before(c, "out", {"retry"})
    /\ err[c] # <<>>
    /\ MustStop(c) \/ scenario.bucket
    /\ Outward(c, Loop(c).errs \o err[c])
    /\ SetLoop(c, NoLoop)
    /\ UNCHANGED <<shared, layers, over, inside, last, panics>>

FallAsleep(c) ==
    /\ Before(c, "out", {"retry"})
    /\ err[c] # <<>>
    /\ ~MustStop(c)
    /\ SetLoop(c, [Loop(c) EXCEPT !.errs = @ \o err[c]])
    /\ err' = [err EXCEPT ![c] = <<>>]
    /\ Becomes(c, "sleep")
    /\ UNCHANGED <<shared, layers, at, over, inside, last, panics>>

\* Mutant of WakeUp: the loop's variables are made anew for every attempt.
WakeUpAfresh(c) ==
    /\ Before(c, "sleep", {"retry"})
    /\ SetLoop(c, [attempt |-> 1, errs |-> <<>>])
    /\ Inward(c)
    /\ UNCHANGED <<shared, layers, err, over, inside, last, panics>>

\* sleep returns nil: the timer fires, or no time is slept at all, and then
\* the context is not looked at.
WakeUp(c) ==
    /\ Before(c, "sleep", {"retry"})
    /\ SetLoop(c, [Loop(c) EXCEPT !.attempt = @ + 1])
    /\ Inward(c)
    /\ UNCHANGED <<shared, layers, err, over, inside, last, panics>>

SleepCancelled(c) ==
    /\ Before(c, "sleep", {"retry"})
    /\ Done(c)
    /\ Outward(c, Append(Loop(c).errs, "ctx"))
    /\ last' = [last EXCEPT ![c] = "ctx"]
    /\ SetLoop(c, NoLoop)
    /\ UNCHANGED <<shared, layers, over, inside, panics>>

-----------------------------------------------------------------------------
(* The action, contexts, and the end of the call. *)

AtAction(c) == way[c] = "in" /\ at[c] = Len(layers[c]) + 1

Run(c, o) ==
    /\ AtAction(c)
    /\ o \in scenario.outcomes
    /\ at' = [at EXCEPT ![c] = @ - 1]
    /\ \/ o # "panic" /\ Becomes(c, "out") /\ UNCHANGED panics
       \/ o = "panic" /\ Becomes(c, "panic") /\ panics < MaxPanics /\ panics' = panics + 1
    /\ err' = [err EXCEPT ![c] = IF o \in Classes THEN <<o>> ELSE <<>>]
    /\ last' = [last EXCEPT ![c] = o]
    /\ UNCHANGED <<shared, layers, loops, over, inside>>

\* The caller's context or that of a timeout layer around the call ends.
Expire(c) ==
    /\ scenario.ends
    /\ \E x \in {0} \cup {d \in 1 .. at[c] - 1 : layers[c][d] = "timeout"} :
          x \notin over[c] /\ over' = [over EXCEPT ![c] = @ \cup {x}]
    /\ way[c] # "idle"
    /\ UNCHANGED <<shared, layers, at, way, err, loops, inside, last, panics>>

\* Only the package-level functions and a Retryer look at the fallback, and
\* only at one of the type of the call.
Answerable(c) ==
    /\ err[c] # <<>>
    /\ scenario.entry \in {"perCall", "retryer"}
    /\ Config("fallback") = scenario.method

Finish(c) ==
    /\ way[c] = "out" /\ at[c] = 0
    /\ Becomes(c, "returned")
    /\ IF Answerable(c) THEN \E e \in {<<>>, <<"odd">>} : Answer(c, e)
       ELSE UNCHANGED <<err, last>>
    /\ UNCHANGED <<shared, layers, at, loops, over, inside, panics>>

Return(c) ==
    /\ way[c] = "returned" \/ (way[c] = "panic" /\ at[c] = 0)
    /\ Becomes(c, "idle")
    /\ layers' = [layers EXCEPT ![c] = <<>>]
    /\ err' = [err EXCEPT ![c] = <<>>]
    /\ over' = [over EXCEPT ![c] = {}]
    /\ last' = [last EXCEPT ![c] = "none"]
    /\ loops' = [loops EXCEPT ![c] = <<>>]
    /\ UNCHANGED <<shared, at, inside, panics>>

\* What a call does between its beginning and its return, the action aside.
Travel(c) ==
    \/ FindComposed(c) \/ FindNone(c) \/ Compose(c)
    \/ Pass(c) \/ Refuse(c) \/ FallBack(c) \/ Leave(c)
    \/ Unwind(c) \/ Recover(c)
    \/ NoAttempt(c) \/ FirstAttempt(c) \/ Succeed(c) \/ GiveUp(c)
    \/ FallAsleep(c) \/ WakeUp(c) \/ SleepCancelled(c)
    \/ Finish(c)

-----------------------------------------------------------------------------
(* Properties. *)

Ways == {"idle", "waiting", "lookup", "compose", "in", "sleep", "out", "panic",
         "returned"}

\* A bulkhead never holds more calls than it has room for, a loop never goes
\* past its last attempt, and only timeout layers and the caller have contexts.
TypeOK ==
    /\ scenario \in Scenarios
    /\ \A c \in Callers :
          /\ way[c] \in Ways
          /\ at[c] \in 0 .. Len(layers[c]) + 1
          /\ \A i \in DOMAIN layers[c] : layers[c][i] \in Kinds
          /\ \A i \in DOMAIN err[c] : err[c][i] \in Classes
          /\ \A d \in DOMAIN layers[c] : loops[c][d].attempt \in 0 .. Config("retry")
          /\ \A x \in over[c] : x = 0 \/ layers[c][x] = "timeout"
          /\ last[c] \in Classes \cup {"none", "ok", "panic", "answered"}
    /\ \A k \in Kinds, o \in Owners : inside[k][o] \in Nat
    /\ \A k \in Bulkheads, o \in Owners : inside[k][o] <= scenario.capacity
    /\ panics \in 0 .. MaxPanics

\* The composed pipeline is what the options say, for every call and however
\* the first calls race for it.
OnePipeline ==
    \A c \in Callers : layers[c] # <<>> =>
        layers[c] = CASE scenario.entry = "hedged" -> HedgedPipeline
                      [] Appended(scenario) # <<>> -> Appended(scenario)
                      [] OTHER -> DefaultPipeline

\* Errors after which nothing may be tried again.  A pushback that comes after
\* another RetryAfterError is not seen by an outer loop.
Verdicts ==
    {"fatal", "ctx", "open"}
    \cup (IF "later" \in scenario.outcomes THEN {} ELSE {"pushback"})

\* No layer, however the pipeline is composed, runs the action again after a
\* verdict, unless a fallback has answered for it in between.
VerdictsAreFinal == \A c \in Callers : AtAction(c) => last[c] \notin Verdicts

\* A call reports a success exactly when its last run was one or a fallback
\* answered.  (Without attempts it reports one, and has run nothing.)
VerdictIsTheLastRuns ==
    \A c \in Callers : way[c] = "returned" =>
        \/ (err[c] = <<>>) = (last[c] \in {"ok", "answered"})
        \/ Config("retry") = 0 /\ err[c] = <<>> /\ last[c] = "none"

\* The layers of kind k, using object o, that calls are inside of.
Within(k, o) ==
    UNION {{<<c, d>> : d \in {d \in DOMAIN layers[c] :
                /\ layers[c][d] = k /\ Object(c, k) = o
                /\ d < at[c] \/ (d = at[c] /\ way[c] # "in")}} : c \in Callers}

\* Whether panics are recovered before they reach a layer of kind k.
Sheltered(k) ==
    IF Appended(scenario) = <<>>
    THEN Config("recover") # Nil /\ scenario.entry # "hedged"
    ELSE \A d \in DOMAIN Appended(scenario) : Appended(scenario)[d] = k =>
            \E r \in DOMAIN Appended(scenario) :
                d < r /\ Appended(scenario)[r] = "recover"

\* Every object knows exactly the calls inside of it, nested layers, refusals
\* and panics included.  The breaker and the instrumenter keep the calls whose
\* panics pass them; with recovery inside of them none does.
InsideExact ==
    \A k \in {k \in Counting : Config(k) # Nil}, o \in Owners :
        LET kept == inside[k][o] - Cardinality(Within(k, o))
        IN  kept >= 0 /\ (k \in Releasing \/ Sheltered(k) => kept = 0)

\* Every call comes to an end.
EveryCallEnds == \A c \in Callers : way[c] # "idle" ~> way[c] = "idle"

=============================================================================
