--------------------------- MODULE PipelineProofs ---------------------------
(* Theorems about the pipeline and the state machine for every set of      *)
(* callers and every scenario: any options, in any order and number.       *)
EXTENDS StateMachine, SequenceTheorems, FiniteSetTheorems, WellFoundedInduction, TLAPS

\* The steps of one call, the lock of the machine aside.
Step(c) ==
    \/ Arrive(c) \/ Expire(c) \/ Begin(c) \/ BeginHedged(c)
    \/ (\E o \in scenario.outcomes : Run(c, o))
    \/ Travel(c) \/ Return(c)

\* Every step of the specification is a step of some call.
LEMMA StepsOfCalls ==
    ASSUME [MachineNext]_allVars
    PROVE  (\E c \in Callers : Step(c)) \/ UNCHANGED vars
<1>1. ASSUME NEW c \in Callers, RunAction(c) PROVE \E o \in scenario.outcomes : Run(c, o)
  BY <1>1 DEF RunAction
<1>2. ASSUME NEW c \in Callers, Proceed(c) PROVE Step(c)
  BY <1>1, <1>2 DEF Proceed, Call, EndCall, Step
<1>3. ASSUME NEW c \in Callers, Handle(c) PROVE Step(c)
  BY <1>3 DEF Handle, Step
<1>. QED
  BY <1>2, <1>3 DEF MachineNext, Step, allVars

-----------------------------------------------------------------------------
(* Types. *)

Frame == [attempt : Nat, errs : Seq(Classes)]
Lasts == Classes \cup {"none", "ok", "panic", "answered"}

Typed ==
    /\ scenario \in Scenarios
    /\ DOMAIN layers = Callers
    /\ way \in [Callers -> Ways]
    /\ at \in [Callers -> Int]
    /\ err \in [Callers -> Seq(Classes)]
    /\ last \in [Callers -> Lasts]
    /\ DOMAIN loops = Callers
    /\ \A c \in Callers : loops[c] \in [DOMAIN layers[c] -> Frame]

\* What another call's step leaves alone.
Kept(x) ==
    /\ layers'[x] = layers[x]
    /\ way'[x] = way[x]
    /\ at'[x] = at[x]
    /\ err'[x] = err[x]
    /\ last'[x] = last[x]
    /\ loops'[x] = loops[x]

\* A step keeps the types, the scenario and the state of every other call.
LEMMA StepTyped ==
    ASSUME Typed, NEW c \in Callers, Step(c)
    PROVE  /\ Typed'
           /\ scenario' = scenario
           /\ \A x \in Callers \ {c} : Kept(x)
<1>. USE DEF Typed, Kept, shared, Becomes
<1>0. /\ <<>> \in Seq(Classes)
      /\ \A e \in Classes : <<e>> \in Seq(Classes)
      /\ NoLoop \in Frame
  BY DEF NoLoop, Frame
<1>a. ASSUME NEW w, NEW K, Before(c, w, K)
      PROVE  /\ Loop(c) \in Frame
             /\ Loop(c).attempt \in Nat
             /\ Loop(c).errs \in Seq(Classes)
  <2>1. loops[c] \in [DOMAIN layers[c] -> Frame] /\ at[c] \in DOMAIN layers[c]
    BY <1>a DEF Before
  <2>2. Loop(c) \in Frame
    BY <2>1 DEF Loop
  <2>. QED
    BY <2>2 DEF Frame
<1>b. ASSUME NEW l \in Frame, at[c] \in DOMAIN layers[c], SetLoop(c, l), layers' = layers
      PROVE  /\ DOMAIN loops' = Callers
             /\ \A x \in Callers : loops'[x] \in [DOMAIN layers'[x] -> Frame]
             /\ \A x \in Callers \ {c} : loops'[x] = loops[x]
  BY <1>b DEF SetLoop
<1>c. ASSUME NEW e \in {<<>>, <<"odd">>}, Answer(c, e)
      PROVE  /\ err' \in [Callers -> Seq(Classes)]
             /\ last' \in [Callers -> Lasts]
             /\ \A x \in Callers \ {c} : err'[x] = err[x] /\ last'[x] = last[x]
  <2>1. e \in Seq(Classes)
    BY <1>0 DEF Classes
  <2>. QED
    BY <1>c, <2>1 DEF Answer, Lasts, Classes
<1>1. CASE Arrive(c) \/ FindNone(c) \/ Begin(c)
  BY <1>1 DEF Arrive, FindNone, Begin, Ways
<1>2. CASE BeginHedged(c) \/ FindComposed(c) \/ Compose(c)
  <2>1. PICK p : EnterPipeline(c, p)
    BY <1>2 DEF BeginHedged, FindComposed, Compose
  <2>2. scenario' = scenario /\ err' = err /\ last' = last
    BY <1>2 DEF BeginHedged, FindComposed, Compose
  <2>. QED
    BY <1>0, <2>1, <2>2 DEF EnterPipeline, Ways
<1>3. CASE Expire(c)
  BY <1>3 DEF Expire
<1>4. CASE Pass(c)
  BY <1>4 DEF Pass, Inward, Ways
<1>5. CASE Refuse(c)
  BY <1>0, <1>5 DEF Refuse, Outward, Ways, Lasts
<1>6. CASE FallBack(c)
  <2>1. PICK e \in {<<>>, <<"odd">>} : Answer(c, e)
    BY <1>6 DEF FallBack
  <2>2. /\ scenario' = scenario /\ layers' = layers /\ way' = way /\ loops' = loops
        /\ at' = [at EXCEPT ![c] = @ - 1]
    BY <1>6 DEF FallBack
  <2>3. /\ err' \in [Callers -> Seq(Classes)]
        /\ last' \in [Callers -> Lasts]
        /\ \A x \in Callers \ {c} : err'[x] = err[x] /\ last'[x] = last[x]
    BY ONLY <1>c, <2>1
  <2>. QED
    BY ONLY <2>2, <2>3, Typed, c \in Callers DEF Typed, Kept
<1>7. CASE Leave(c)
  BY <1>7 DEF Leave, Outward, Ways
<1>8. CASE Unwind(c)
  BY <1>0, <1>b, <1>8 DEF Unwind, Before
<1>9. CASE Recover(c)
  BY <1>0, <1>9 DEF Recover, Outward, Ways, Lasts, Classes
<1>10. CASE NoAttempt(c)
  BY <1>0, <1>10 DEF NoAttempt, Outward, Ways
<1>11. CASE FirstAttempt(c)
  <2>1. [attempt |-> 1, errs |-> <<>>] \in Frame
    BY <1>0 DEF Frame
  <2>. QED
    BY <1>b, <1>11, <2>1 DEF FirstAttempt, Inward, Ways, Before
<1>12. CASE Succeed(c)
  BY <1>0, <1>b, <1>12 DEF Succeed, Outward, Ways, Before
<1>13. CASE GiveUp(c)
  <2>1. Loop(c).errs \o err[c] \in Seq(Classes)
    BY <1>13, <1>a, ConcatProperties DEF GiveUp
  <2>. QED
    BY <1>0, <1>b, <1>13, <2>1 DEF GiveUp, Outward, Ways, Before
<1>14. CASE FallAsleep(c)
  <2>1. [Loop(c) EXCEPT !.errs = @ \o err[c]] \in Frame
    <3>1. Loop(c).errs \o err[c] \in Seq(Classes)
      BY <1>14, <1>a, ConcatProperties DEF FallAsleep
    <3>. QED
      BY <3>1, <1>14, <1>a DEF FallAsleep, Frame
  <2>. QED
    BY <1>0, <1>b, <1>14, <2>1 DEF FallAsleep, Ways, Before
<1>15. CASE WakeUp(c)
  <2>1. [Loop(c) EXCEPT !.attempt = @ + 1] \in Frame
    BY <1>15, <1>a DEF WakeUp, Frame
  <2>. QED
    BY <1>b, <1>15, <2>1 DEF WakeUp, Inward, Ways, Before
<1>16. CASE SleepCancelled(c)
  <2>1. Append(Loop(c).errs, "ctx") \in Seq(Classes)
    BY <1>16, <1>a DEF SleepCancelled, Classes
  <2>. QED
    BY <1>0, <1>b, <1>16, <2>1 DEF SleepCancelled, Outward, Ways, Before, Lasts, Classes
<1>17. ASSUME NEW o \in scenario.outcomes, Run(c, o)
       PROVE  Typed' /\ scenario' = scenario /\ \A x \in Callers \ {c} : Kept(x)
  <2>1. o \in Classes \cup {"ok", "panic"}
    BY PipelineAssumption DEF Scenario
  <2>2. (IF o \in Classes THEN <<o>> ELSE <<>>) \in Seq(Classes)
    BY <1>0
  <2>. QED
    BY <1>17, <2>1, <2>2 DEF Run, Ways, Lasts
<1>18. CASE Finish(c)
  <2>1. CASE Answerable(c)
    BY <1>c, <1>18, <2>1 DEF Finish, Ways
  <2>2. CASE ~Answerable(c)
    BY <1>18, <2>2 DEF Finish, Ways
  <2>. QED
    BY <2>1, <2>2
<1>19. CASE Return(c)
  BY <1>0, <1>19 DEF Return, Ways, Lasts
<1>. QED
  BY <1>1, <1>2, <1>3, <1>4, <1>5, <1>6, <1>7, <1>8, <1>9, <1>10, <1>11, <1>12,
     <1>13, <1>14, <1>15, <1>16, <1>17, <1>18, <1>19 DEF Step, Travel

\* The types hold throughout.
LEMMA TypesCorrect == MachineSpec => []Typed
<1>1. MachineInit => Typed
  BY DEF MachineInit, Init, Typed, Ways, Lasts
<1>2. Typed /\ [MachineNext]_allVars => Typed'
  BY StepsOfCalls, StepTyped DEF vars, shared, Typed
<1>. QED
  BY <1>1, <1>2, PTL DEF MachineSpec

-----------------------------------------------------------------------------
(* Verdicts. *)

Inbound == {"waiting", "lookup", "compose", "in", "sleep"}

\* The loops of a call have joined no pushback that another could hide behind.
Unhidden(c) == \A d \in DOMAIN layers[c] : ~Has(loops[c][d].errs, "later")

\* What a call knows of verdicts: it does not move inward after one, and one
\* that moves outward is in its error.
FinalFor(c) ==
    /\ way[c] = "idle" => last[c] = "none"
    /\ way[c] \in Inbound => last[c] \notin Verdicts
    /\ way[c] = "out" /\ last[c] \in Verdicts => Has(err[c], last[c])
    /\ "later" \notin scenario.outcomes => ~Has(err[c], "later") /\ Unhidden(c)

FinalInv == Typed /\ \A c \in Callers : FinalFor(c)

\* Joining errors keeps what they have in them.
LEMMA JoinHas ==
    ASSUME NEW e \in Seq(Classes), NEW f \in Seq(Classes), NEW x
    PROVE  Has(e \o f, x) <=> Has(e, x) \/ Has(f, x)
<1>1. /\ DOMAIN e = 1 .. Len(e) /\ DOMAIN f = 1 .. Len(f)
      /\ DOMAIN (e \o f) = 1 .. Len(e) + Len(f)
      /\ Len(e) \in Nat /\ Len(f) \in Nat
      /\ \A i \in 1 .. Len(e) + Len(f) :
            (e \o f)[i] = IF i <= Len(e) THEN e[i] ELSE f[i - Len(e)]
  OBVIOUS
<1>2. ASSUME Has(e \o f, x) PROVE Has(e, x) \/ Has(f, x)
  BY <1>1, <1>2 DEF Has
<1>3. ASSUME Has(e, x) PROVE Has(e \o f, x)
  BY <1>1, <1>3 DEF Has
<1>4. ASSUME Has(f, x) PROVE Has(e \o f, x)
  <2>1. PICK i \in 1 .. Len(f) : f[i] = x
    BY <1>1, <1>4 DEF Has
  <2>2. i + Len(e) \in 1 .. Len(e) + Len(f) /\ (e \o f)[i + Len(e)] = x
    BY <1>1, <2>1
  <2>. QED
    BY <1>1, <2>2 DEF Has
<1>. QED
  BY <1>2, <1>3, <1>4

\* What a nil error and an error of one class have in them.
LEMMA SmallHas ==
    /\ \A x : ~Has(<<>>, x)
    /\ \A x, y : Has(<<y>>, x) <=> x = y
  BY DEF Has

\* The retry loop stops at a verdict.
LEMMA VerdictsStop ==
    ASSUME NEW c \in Callers, Typed, FinalFor(c), last[c] \in Verdicts,
           Has(err[c], last[c])
    PROVE  MustStop(c)
<1>1. CASE last[c] \in {"fatal", "ctx", "open"}
  BY <1>1 DEF MustStop, ShouldRetry
<1>2. CASE last[c] = "pushback" /\ "later" \notin scenario.outcomes
  <2>1. PICK i \in DOMAIN err[c] : err[c][i] = "pushback"
    BY <1>2 DEF Has
  <2>2. DOMAIN err[c] = 1 .. Len(err[c]) /\ Len(err[c]) \in Nat
    BY DEF Typed
  <2>3. \A j \in 1 .. i - 1 : err[c][j] # "later"
    BY <1>2, <2>1, <2>2 DEF FinalFor, Has
  <2>. QED
    BY <2>1, <2>3 DEF MustStop, CancelsAll
<1>. QED
  BY <1>1, <1>2 DEF Verdicts

\* Each step of a call keeps what it knows.
LEMMA FinalStep ==
    ASSUME FinalInv, NEW c \in Callers, Step(c)
    PROVE  FinalInv'
<1>. USE DEF Becomes, Inbound
<1>1. /\ Typed /\ Typed' /\ scenario' = scenario
      /\ \A x \in Callers \ {c} : Kept(x)
      /\ FinalFor(c) /\ (\A x \in Callers : FinalFor(x))
  BY StepTyped DEF FinalInv
<1>2. Verdicts' = Verdicts
  BY <1>1 DEF Verdicts
<1>3. \A x \in Callers \ {c} : FinalFor(x)'
  BY <1>1, <1>2 DEF FinalFor, Kept, Unhidden
<1>. SUFFICES FinalFor(c)'
  BY <1>1, <1>3 DEF FinalInv
<1>a. /\ DOMAIN layers = Callers /\ DOMAIN loops = Callers
      /\ way \in [Callers -> Ways] /\ err \in [Callers -> Seq(Classes)]
      /\ last \in [Callers -> Lasts] /\ at \in [Callers -> Int]
      /\ loops[c] \in [DOMAIN layers[c] -> Frame]
  BY <1>1 DEF Typed
<1>b. ASSUME NEW l, ~Has(l.errs, "later"), at[c] \in DOMAIN layers[c],
             Unhidden(c), SetLoop(c, l), layers' = layers
      PROVE  Unhidden(c)'
  BY <1>1, <1>a, <1>b DEF Unhidden, SetLoop
<1>f. layers' = layers /\ loops' = loops => (Unhidden(c) <=> Unhidden(c)')
  BY DEF Unhidden
<1>c. ~Has(NoLoop.errs, "later")
  BY SmallHas DEF NoLoop
<1>d. /\ "none" \notin Verdicts /\ "ok" \notin Verdicts /\ "odd" \notin Verdicts
      /\ "panic" \notin Verdicts /\ "panicked" \notin Verdicts /\ "answered" \notin Verdicts
      /\ Verdicts \subseteq Classes
  BY DEF Verdicts, Classes
<1>e. ASSUME NEW K, NEW w, Before(c, w, K)
      PROVE  /\ at[c] \in DOMAIN layers[c] /\ way[c] = w
             /\ Loop(c).errs \in Seq(Classes)
             /\ "later" \notin scenario.outcomes => ~Has(Loop(c).errs, "later")
  BY <1>1, <1>a, <1>e DEF Before, FinalFor, Loop, Frame, Unhidden
<1>4. CASE Arrive(c) \/ FindNone(c) \/ Begin(c)
  BY <1>1, <1>2, <1>f, <1>a, <1>d, <1>4 DEF Arrive, FindNone, Begin, FinalFor
<1>5. CASE BeginHedged(c) \/ FindComposed(c) \/ Compose(c)
  <2>1. PICK p : EnterPipeline(c, p)
    BY <1>5 DEF BeginHedged, FindComposed, Compose
  <2>2. /\ way[c] \in {"waiting", "lookup", "compose"} /\ err' = err /\ last' = last
    BY <1>5 DEF BeginHedged, FindComposed, Compose
  <2>. QED
    BY <1>1, <1>2, <1>a, <1>c, <2>1, <2>2 DEF EnterPipeline, FinalFor, Unhidden
<1>6. CASE Expire(c)
  BY <1>1, <1>2, <1>f, <1>6 DEF Expire, FinalFor
<1>7. CASE Pass(c)
  BY <1>1, <1>2, <1>f, <1>a, <1>7, <1>e DEF Pass, Inward, FinalFor
<1>8. CASE Refuse(c)
  <2>1. PICK e \in Classes :
            Refusal(c, e) /\ Outward(c, <<e>>) /\ last' = [last EXCEPT ![c] = e]
    BY <1>8 DEF Refuse
  <2>2. e # "later" /\ layers' = layers /\ loops' = loops
    BY <1>8, <2>1 DEF Refuse, Refusal
  <2>. QED
    BY <1>1, <1>2, <1>f, <1>a, <2>1, <2>2, SmallHas DEF Outward, FinalFor
<1>9. CASE FallBack(c) \/ (Finish(c) /\ Answerable(c))
  <2>1. PICK e \in {<<>>, <<"odd">>} : Answer(c, e)
    BY <1>9 DEF FallBack, Finish
  <2>2. /\ layers' = layers /\ loops' = loops /\ way'[c] \in {"out", "returned"}
    BY <1>9, <1>a DEF FallBack, Finish, Before
  <2>3. err'[c] = e /\ last'[c] \in {"answered", "odd"} /\ ~Has(e, "later")
    BY <1>a, <2>1, SmallHas DEF Answer
  <2>. QED
    BY <1>1, <1>2, <1>f, <1>d, <2>2, <2>3 DEF FinalFor
<1>10. CASE Leave(c)
  BY <1>1, <1>2, <1>f, <1>a, <1>10, <1>e DEF Leave, Outward, FinalFor
<1>11. CASE Unwind(c)
  <2>1. /\ at[c] \in DOMAIN layers[c] /\ way[c] = "panic" /\ SetLoop(c, NoLoop)
        /\ layers' = layers /\ way' = way /\ err' = err /\ last' = last
    BY <1>11, <1>e DEF Unwind
  <2>2. "later" \notin scenario.outcomes => Unhidden(c)'
    BY <1>1, <1>b, <1>c, <2>1 DEF FinalFor
  <2>. QED
    BY <1>1, <1>2, <1>f, <2>1, <2>2 DEF FinalFor
<1>12. CASE Recover(c)
  BY <1>1, <1>2, <1>f, <1>a, <1>d, <1>12, SmallHas DEF Recover, Outward, FinalFor
<1>13. CASE NoAttempt(c)
  BY <1>1, <1>2, <1>f, <1>a, <1>13, <1>e, SmallHas DEF NoAttempt, Outward, FinalFor
<1>14. CASE FirstAttempt(c) \/ WakeUp(c)
  <2>1. PICK l : SetLoop(c, l) /\ l.errs \in {<<>>, Loop(c).errs}
    <3>1. CASE FirstAttempt(c)
      BY <3>1 DEF FirstAttempt
    <3>2. CASE WakeUp(c)
      <4>1. Loop(c) \in Frame
        BY <1>a, <3>2 DEF WakeUp, Before, Loop
      <4>2. [Loop(c) EXCEPT !.attempt = @ + 1].errs = Loop(c).errs
        BY <4>1 DEF Frame
      <4>. QED
        BY <3>2, <4>2 DEF WakeUp
    <3>. QED
      BY <1>14, <3>1, <3>2
  <2>2. /\ at[c] \in DOMAIN layers[c] /\ way[c] \in {"in", "sleep"}
        /\ layers' = layers /\ err' = err /\ last' = last /\ Inward(c)
        /\ "later" \notin scenario.outcomes => ~Has(l.errs, "later")
    BY <1>14, <1>e, <2>1, SmallHas DEF FirstAttempt, WakeUp
  <2>3. "later" \notin scenario.outcomes => Unhidden(c)'
    BY <1>1, <1>b, <2>1, <2>2 DEF FinalFor
  <2>. QED
    BY <1>1, <1>2, <1>f, <1>a, <2>2, <2>3 DEF Inward, FinalFor
<1>15. CASE Succeed(c) \/ GiveUp(c) \/ SleepCancelled(c)
  <2>1. /\ at[c] \in DOMAIN layers[c] /\ SetLoop(c, NoLoop) /\ layers' = layers
        /\ Loop(c).errs \in Seq(Classes)
        /\ "later" \notin scenario.outcomes => ~Has(Loop(c).errs, "later")
    BY <1>15, <1>e DEF Succeed, GiveUp, SleepCancelled
  <2>2. "later" \notin scenario.outcomes => Unhidden(c)'
    BY <1>1, <1>b, <1>c, <2>1 DEF FinalFor
  <2>3. /\ way'[c] = "out"
        /\ last'[c] \in Verdicts => Has(err'[c], last'[c])
        /\ "later" \notin scenario.outcomes => ~Has(err'[c], "later")
    <3>1. CASE Succeed(c)
      BY <1>1, <1>a, <1>e, <3>1 DEF Succeed, Outward, FinalFor
    <3>2. CASE GiveUp(c)
      <4>1. /\ err'[c] = Loop(c).errs \o err[c] /\ way'[c] = "out" /\ last' = last
            /\ way[c] = "out" /\ err[c] \in Seq(Classes)
        BY <1>a, <1>e, <3>2 DEF GiveUp, Outward
      <4>2. \A x : Has(err'[c], x) <=> Has(Loop(c).errs, x) \/ Has(err[c], x)
        BY <2>1, <4>1, JoinHas
      <4>. QED
        BY <1>1, <2>1, <4>1, <4>2 DEF FinalFor
    <3>3. CASE SleepCancelled(c)
      <4>1. PICK f \in Seq(Classes) : f = <<"ctx">>
        <5>1. <<"ctx">> \in Seq(Classes)
          BY DEF Classes
        <5>. QED
          BY <5>1
      <4>2. /\ err'[c] = Append(Loop(c).errs, "ctx") /\ way'[c] = "out" /\ last'[c] = "ctx"
        BY <1>a, <3>3 DEF SleepCancelled, Outward
      <4>3. err'[c] = Loop(c).errs \o f
        BY <2>1, <4>1, <4>2, AppendIsConcat DEF Classes
      <4>4. \A x : Has(err'[c], x) <=> Has(Loop(c).errs, x) \/ Has(f, x)
        BY <2>1, <4>3, JoinHas
      <4>. QED
        BY <2>1, <4>1, <4>2, <4>4, SmallHas
    <3>. QED
      BY <1>15, <3>1, <3>2, <3>3
  <2>. QED
    BY <1>1, <1>2, <1>f, <2>2, <2>3 DEF FinalFor
<1>16. CASE FallAsleep(c)
  <2>1. /\ at[c] \in DOMAIN layers[c] /\ layers' = layers /\ way[c] = "out"
        /\ Loop(c).errs \in Seq(Classes) /\ err[c] \in Seq(Classes)
        /\ way'[c] = "sleep" /\ last' = last /\ err'[c] = <<>>
        /\ SetLoop(c, [Loop(c) EXCEPT !.errs = @ \o err[c]])
        /\ "later" \notin scenario.outcomes => ~Has(Loop(c).errs, "later")
        /\ ~MustStop(c)
    BY <1>16, <1>a, <1>e DEF FallAsleep
  <2>2. last[c] \notin Verdicts
    BY <1>1, <2>1, VerdictsStop DEF FinalFor
  <2>3. "later" \notin scenario.outcomes =>
            ~Has([Loop(c) EXCEPT !.errs = @ \o err[c]].errs, "later")
    <3>1. Loop(c) \in Frame
      BY <1>a, <2>1 DEF Loop
    <3>2. [Loop(c) EXCEPT !.errs = @ \o err[c]].errs = Loop(c).errs \o err[c]
      BY <3>1 DEF Frame
    <3>. QED
      BY <1>1, <2>1, <3>2, JoinHas DEF FinalFor
  <2>4. "later" \notin scenario.outcomes => Unhidden(c)'
    BY <1>1, <1>b, <2>1, <2>3 DEF FinalFor
  <2>. QED
    BY <1>1, <1>2, <1>f, <2>1, <2>2, <2>4, SmallHas DEF FinalFor
<1>17. ASSUME NEW o \in scenario.outcomes, Run(c, o) PROVE FinalFor(c)'
  <2>1. o \in Classes \cup {"ok", "panic"}
    BY <1>1, PipelineAssumption DEF Scenario, Typed
  <2>2. /\ way'[c] \in {"out", "panic"} /\ last'[c] = o
        /\ err'[c] = IF o \in Classes THEN <<o>> ELSE <<>>
        /\ layers' = layers /\ loops' = loops
    BY <1>a, <1>17 DEF Run
  <2>. QED
    BY <1>1, <1>2, <1>f, <1>d, <2>1, <2>2, SmallHas DEF FinalFor
<1>18. CASE Finish(c) /\ ~Answerable(c)
  BY <1>1, <1>2, <1>f, <1>a, <1>18 DEF Finish, FinalFor
<1>19. CASE Return(c)
  <2>1. /\ way'[c] = "idle" /\ err'[c] = <<>> /\ last'[c] = "none"
        /\ layers'[c] = <<>>
    BY <1>a, <1>19 DEF Return
  <2>2. Unhidden(c)'
    BY <2>1 DEF Unhidden
  <2>. QED
    BY <1>1, <1>2, <1>d, <2>1, <2>2, SmallHas DEF FinalFor
<1>. QED
  BY <1>4, <1>5, <1>6, <1>7, <1>8, <1>9, <1>10, <1>11, <1>12, <1>13, <1>14,
     <1>15, <1>16, <1>17, <1>18, <1>19 DEF Step, Travel

\* What calls know of verdicts holds throughout.
LEMMA FinalCorrect == MachineSpec => []FinalInv
<1>1. MachineInit => FinalInv
  <2>1. ASSUME MachineInit, NEW c \in Callers PROVE FinalFor(c)
    BY <2>1, SmallHas DEF MachineInit, Init, FinalFor, Inbound, Verdicts, Unhidden
  <2>. QED
    BY <2>1 DEF FinalInv, MachineInit, Init, Typed, Ways, Lasts
<1>2. FinalInv /\ [MachineNext]_allVars => FinalInv'
  BY StepsOfCalls, FinalStep
     DEF vars, shared, FinalInv, Typed, FinalFor, Verdicts, Inbound, Unhidden
<1>. QED
  BY <1>1, <1>2, PTL DEF MachineSpec

\* No layer runs the action again after a fatal error, a done context, an open
\* circuit or a pushback, whatever the options are and whoever shares them.
THEOREM VerdictsAreFinalCorrect == MachineSpec => []VerdictsAreFinal
<1>1. FinalInv => VerdictsAreFinal
  BY DEF FinalInv, FinalFor, VerdictsAreFinal, AtAction, Inbound
<1>. QED
  BY <1>1, FinalCorrect, PTL

-----------------------------------------------------------------------------
(* Outcomes. *)

\* Whether a call's error says what its last run, refusal or fallback did.
Agrees(c) ==
    (err[c] = <<>>) <=>
        \/ last[c] \in {"ok", "answered"}
        \/ Config("retry") = 0 /\ last[c] = "none"

\* Without attempts a call runs nothing before it moves outward.
OutcomeFor(c) ==
    /\ way[c] \in {"out", "returned"} => Agrees(c)
    /\ Config("retry") = 0 =>
          /\ way[c] # "sleep"
          /\ way[c] \in Inbound \cup {"idle"} => last[c] = "none"

OutcomeInv == Typed /\ \A c \in Callers : OutcomeFor(c)

\* Each step of a call keeps its error true to its outcome.
LEMMA OutcomeStep ==
    ASSUME OutcomeInv, NEW c \in Callers, Step(c)
    PROVE  OutcomeInv'
<1>. USE DEF Becomes, Inbound
<1>1. /\ Typed /\ Typed' /\ scenario' = scenario
      /\ \A x \in Callers \ {c} : Kept(x)
      /\ \A x \in Callers : OutcomeFor(x)
  BY StepTyped DEF OutcomeInv
<1>2. Config("retry")' = Config("retry")
  BY <1>1 DEF Config, Given
<1>3. \A x \in Callers \ {c} : OutcomeFor(x)'
  BY <1>1, <1>2 DEF OutcomeFor, Agrees, Kept
<1>4. /\ way \in [Callers -> Ways] /\ err \in [Callers -> Seq(Classes)]
      /\ last \in [Callers -> Lasts] /\ at \in [Callers -> Int]
      /\ DOMAIN layers = Callers /\ DOMAIN loops = Callers
      /\ loops[c] \in [DOMAIN layers[c] -> Frame]
      /\ OutcomeFor(c)
  BY <1>1 DEF Typed
<1>. SUFFICES OutcomeFor(c)'
  BY <1>1, <1>3 DEF OutcomeInv
<1>5. CASE Arrive(c) \/ FindNone(c) \/ Begin(c)
  BY <1>2, <1>4, <1>5 DEF Arrive, FindNone, Begin, OutcomeFor
<1>6. CASE BeginHedged(c) \/ FindComposed(c) \/ Compose(c)
  <2>1. PICK p : EnterPipeline(c, p)
    BY <1>6 DEF BeginHedged, FindComposed, Compose
  <2>2. /\ way[c] \in {"waiting", "lookup", "compose"} /\ last' = last
    BY <1>6 DEF BeginHedged, FindComposed, Compose
  <2>. QED
    BY <1>2, <1>4, <2>1, <2>2 DEF EnterPipeline, OutcomeFor
<1>7. CASE Expire(c) \/ Unwind(c) \/ Pass(c)
  BY <1>2, <1>4, <1>7 DEF Expire, Unwind, Pass, Before, Inward, OutcomeFor, Agrees
<1>8. CASE Refuse(c) \/ Recover(c)
  <2>1. PICK e \in Classes : Outward(c, <<e>>) /\ last' = [last EXCEPT ![c] = e]
    <3>1. "panicked" \in Classes
      BY DEF Classes
    <3>. QED
      BY <1>8, <3>1 DEF Refuse, Recover
  <2>2. /\ way'[c] = "out" /\ err'[c] = <<e>> /\ last'[c] = e
        /\ e \notin {"ok", "answered", "none"}
    BY <1>4, <2>1 DEF Outward, Classes
  <2>. QED
    BY <1>2, <2>2 DEF OutcomeFor, Agrees
<1>9. CASE FallBack(c) \/ (Finish(c) /\ Answerable(c))
  <2>1. PICK e \in {<<>>, <<"odd">>} : Answer(c, e)
    BY <1>9 DEF FallBack, Finish
  <2>2. way'[c] \in {"out", "returned"}
    BY <1>4, <1>9 DEF FallBack, Finish, Before
  <2>3. err'[c] = e /\ last'[c] = IF e = <<>> THEN "answered" ELSE "odd"
    BY <1>4, <2>1 DEF Answer
  <2>. QED
    BY <1>2, <2>2, <2>3 DEF OutcomeFor, Agrees
<1>10. CASE Leave(c) \/ Succeed(c)
  BY <1>2, <1>4, <1>10 DEF Leave, Succeed, Before, Outward, OutcomeFor, Agrees
<1>11. CASE NoAttempt(c)
  BY <1>2, <1>4, <1>11 DEF NoAttempt, Before, Outward, OutcomeFor, Agrees
<1>12. CASE FirstAttempt(c)
  BY <1>2, <1>4, <1>12 DEF FirstAttempt, Before, Inward, OutcomeFor
<1>13. CASE WakeUp(c)
  BY <1>2, <1>4, <1>13 DEF WakeUp, Before, Inward, OutcomeFor
<1>14. CASE GiveUp(c)
  <2>1. /\ Loop(c).errs \in Seq(Classes) /\ err[c] \in Seq(Classes) /\ err[c] # <<>>
        /\ way[c] = "out" /\ way'[c] = "out" /\ last' = last
        /\ err'[c] = Loop(c).errs \o err[c]
    BY <1>4, <1>14 DEF GiveUp, Before, Outward, Loop, Frame
  <2>2. Loop(c).errs \o err[c] # <<>>
    BY <2>1
  <2>. QED
    BY <1>2, <1>4, <2>1, <2>2 DEF OutcomeFor, Agrees
<1>15. CASE FallAsleep(c)
  <2>1. Config("retry") # 0
    <3>1. Loop(c).attempt \in Nat /\ ~(Loop(c).attempt >= Config("retry"))
      BY <1>4, <1>15 DEF FallAsleep, Before, Loop, Frame, MustStop
    <3>. QED
      BY <3>1
  <2>. QED
    BY <1>2, <1>4, <1>15, <2>1 DEF FallAsleep, OutcomeFor
<1>16. CASE SleepCancelled(c)
  <2>1. /\ Loop(c).errs \in Seq(Classes) /\ way'[c] = "out" /\ last'[c] = "ctx"
        /\ err'[c] = Append(Loop(c).errs, "ctx")
    BY <1>4, <1>16 DEF SleepCancelled, Before, Outward, Loop, Frame
  <2>2. Append(Loop(c).errs, "ctx") # <<>>
    BY <2>1, AppendProperties DEF Classes
  <2>. QED
    BY <1>2, <2>1, <2>2 DEF OutcomeFor, Agrees
<1>17. ASSUME NEW o \in scenario.outcomes, Run(c, o) PROVE OutcomeFor(c)'
  <2>1. o \in Classes \cup {"ok", "panic"}
    BY <1>1, PipelineAssumption DEF Scenario, Typed
  <2>2. /\ way'[c] = IF o = "panic" THEN "panic" ELSE "out"
        /\ last'[c] = o
        /\ err'[c] = IF o \in Classes THEN <<o>> ELSE <<>>
    BY <1>4, <1>17 DEF Run
  <2>. QED
    BY <1>2, <2>1, <2>2 DEF OutcomeFor, Agrees, Classes
<1>18. CASE Finish(c) /\ ~Answerable(c)
  BY <1>2, <1>4, <1>18 DEF Finish, OutcomeFor, Agrees
<1>19. CASE Return(c)
  BY <1>2, <1>4, <1>19 DEF Return, OutcomeFor
<1>. QED
  BY <1>5, <1>6, <1>7, <1>8, <1>9, <1>10, <1>11, <1>12, <1>13, <1>14,
     <1>15, <1>16, <1>17, <1>18, <1>19 DEF Step, Travel

\* The outcome invariant holds throughout.
LEMMA OutcomesCorrect == MachineSpec => []OutcomeInv
<1>1. MachineInit => OutcomeInv
  <2>1. ASSUME MachineInit, NEW c \in Callers PROVE OutcomeFor(c)
    BY <2>1 DEF MachineInit, Init, OutcomeFor
  <2>. QED
    BY <2>1 DEF OutcomeInv, MachineInit, Init, Typed, Ways, Lasts
<1>2. OutcomeInv /\ [MachineNext]_allVars => OutcomeInv'
  BY StepsOfCalls, OutcomeStep
     DEF vars, shared, OutcomeInv, Typed, OutcomeFor, Agrees, Config, Given, Inbound
<1>. QED
  BY <1>1, <1>2, PTL DEF MachineSpec

\* A nil error means that the last run succeeded or a fallback answered, and
\* an error that neither did, however many layers the error has come through.
THEOREM VerdictIsTheLastRunsCorrect == MachineSpec => []VerdictIsTheLastRuns
<1>1. OutcomeInv => VerdictIsTheLastRuns
  BY DEF OutcomeInv, OutcomeFor, Agrees, VerdictIsTheLastRuns
<1>. QED
  BY <1>1, OutcomesCorrect, PTL

-----------------------------------------------------------------------------
(* The composed pipeline. *)

\* The pipeline that every call goes through.
Intended ==
    CASE scenario.entry = "hedged" -> HedgedPipeline
      [] Appended(scenario) # <<>> -> Appended(scenario)
      [] OTHER -> DefaultPipeline

\* Whoever composes the pipeline, and however often, it is the intended one.
ComposedInv ==
    /\ DOMAIN layers = Callers
    /\ DOMAIN pipeline = Owners /\ DOMAIN composed = Owners
    /\ scenario.entry # "hedged" => \A o \in Owners :
          /\ pipeline[o] \in {Appended(scenario), Intended}
          /\ composed[o] \in {<<>>, Intended}
    /\ \A c \in Callers :
          /\ way[c] \in {"lookup", "compose"} => scenario.entry # "hedged"
          /\ layers[c] \in {<<>>, Intended}

\* The intended pipeline stays the same, as the options do.
LEMMA IntendedStays ==
    ASSUME scenario' = scenario
    PROVE  Intended' = Intended /\ Appended(scenario') = Appended(scenario)
<1>1. \A k : Config(k)' = Config(k)
  BY DEF Config, Given
<1>2. \A k : IfSet(k)' = IfSet(k)
  BY <1>1 DEF IfSet
<1>3. DefaultPipeline' = DefaultPipeline
  BY <1>2 DEF DefaultPipeline
<1>4. HedgedPipeline' = HedgedPipeline
  BY <1>2 DEF HedgedPipeline
<1>. QED
  BY <1>3, <1>4 DEF Intended

\* Each step of a call keeps the pipeline as it is intended.
LEMMA ComposedStep ==
    ASSUME Typed, ComposedInv, NEW c \in Callers, Step(c)
    PROVE  ComposedInv'
<1>. USE DEF Becomes, shared
<1>1. /\ scenario' = scenario
      /\ \A x \in Callers \ {c} : Kept(x)
      /\ DOMAIN layers' = Callers
      /\ way \in [Callers -> Ways]
  BY StepTyped DEF Typed
<1>2. Intended' = Intended /\ Appended(scenario') = Appended(scenario)
  BY <1>1, IntendedStays
<1>3. Owner(c) \in Owners
  BY DEF Owner, Owners
<1>. SUFFICES /\ DOMAIN pipeline' = Owners /\ DOMAIN composed' = Owners
              /\ scenario.entry # "hedged" => \A o \in Owners :
                    /\ pipeline'[o] \in {Appended(scenario), Intended}
                    /\ composed'[o] \in {<<>>, Intended}
              /\ way'[c] \in {"lookup", "compose"} => scenario.entry # "hedged"
              /\ layers'[c] \in {<<>>, Intended}
  BY <1>1, <1>2 DEF ComposedInv, Kept
<1>4. CASE Begin(c)
  BY <1>1, <1>4 DEF Begin, ComposedInv
<1>5. CASE BeginHedged(c) \/ FindComposed(c)
  <2>1. PICK p : EnterPipeline(c, p) /\ p \in {<<>>, Intended}
    <3>1. CASE BeginHedged(c)
      BY <3>1 DEF BeginHedged, Intended, Appended
    <3>2. CASE FindComposed(c)
      BY <1>3, <3>2 DEF FindComposed, ComposedInv
    <3>. QED
      BY <1>5, <3>1, <3>2
  <2>2. pipeline' = pipeline /\ composed' = composed
    BY <1>5 DEF BeginHedged, FindComposed
  <2>. QED
    BY <1>1, <2>1, <2>2 DEF EnterPipeline, ComposedInv
<1>6. CASE Compose(c)
  <2>1. PICK p : /\ p = IF pipeline[Owner(c)] = <<>> THEN DefaultPipeline
                        ELSE pipeline[Owner(c)]
                 /\ pipeline' = [pipeline EXCEPT ![Owner(c)] = p]
                 /\ composed' = [composed EXCEPT ![Owner(c)] = IF @ = <<>> THEN p ELSE @]
                 /\ EnterPipeline(c, composed'[Owner(c)])
                 /\ way[c] = "compose"
    BY <1>6 DEF Compose
  <2>2. scenario.entry # "hedged"
    BY <2>1 DEF ComposedInv
  <2>3. p = Intended
    BY <1>3, <2>1, <2>2 DEF ComposedInv, Intended
  <2>. QED
    BY <1>1, <1>3, <2>1, <2>2, <2>3 DEF EnterPipeline, ComposedInv
<1>7. CASE Return(c)
  BY <1>1, <1>7 DEF Return, ComposedInv
<1>8. CASE Arrive(c) \/ FindNone(c)
  BY <1>1, <1>8 DEF Arrive, FindNone, ComposedInv
<1>9. ASSUME layers' = layers, pipeline' = pipeline, composed' = composed,
             way'[c] \notin {"lookup", "compose"} \/ way' = way
      PROVE  /\ DOMAIN pipeline' = Owners /\ DOMAIN composed' = Owners
             /\ scenario.entry # "hedged" => \A o \in Owners :
                   /\ pipeline'[o] \in {Appended(scenario), Intended}
                   /\ composed'[o] \in {<<>>, Intended}
             /\ way'[c] \in {"lookup", "compose"} => scenario.entry # "hedged"
             /\ layers'[c] \in {<<>>, Intended}
  BY <1>9 DEF ComposedInv
<1>10. CASE Expire(c) \/ Pass(c) \/ Refuse(c) \/ FallBack(c) \/ Leave(c)
            \/ Unwind(c) \/ Recover(c)
  BY <1>1, <1>9, <1>10 DEF Expire, Pass, Refuse, FallBack, Leave, Unwind, Recover,
                           Inward, Outward
<1>11. CASE NoAttempt(c) \/ FirstAttempt(c) \/ Succeed(c) \/ GiveUp(c)
            \/ FallAsleep(c) \/ WakeUp(c) \/ SleepCancelled(c) \/ Finish(c)
  BY <1>1, <1>9, <1>11 DEF NoAttempt, FirstAttempt, Succeed, GiveUp, FallAsleep,
                           WakeUp, SleepCancelled, Finish, Inward, Outward
<1>12. CASE \E o \in scenario.outcomes : Run(c, o)
  BY <1>1, <1>9, <1>12 DEF Run
<1>. QED
  BY <1>4, <1>5, <1>6, <1>7, <1>8, <1>10, <1>11, <1>12 DEF Step, Travel

\* The pipeline is composed as intended throughout.
LEMMA ComposedCorrect == MachineSpec => []ComposedInv
<1>1. MachineInit => ComposedInv
  BY DEF MachineInit, Init, ComposedInv
<1>2. Typed /\ ComposedInv /\ [MachineNext]_allVars => ComposedInv'
  <2>1. CASE UNCHANGED vars
    BY <2>1, IntendedStays DEF vars, shared, ComposedInv
  <2>. QED
    BY <2>1, StepsOfCalls, ComposedStep
<1>. QED
  BY <1>1, <1>2, TypesCorrect, PTL DEF MachineSpec

\* All calls that share options go through the same pipeline, the one their
\* options say, whichever of them composes it under the double-checked lock.
THEOREM OnePipelineCorrect == MachineSpec => []OnePipeline
<1>1. ComposedInv => OnePipeline
  BY DEF ComposedInv, OnePipeline, Intended
<1>. QED
  BY <1>1, ComposedCorrect, PTL

\* The layers that every pipeline may have but fallback.
Usual == {"rate", "adaptive", "bulkhead", "priority", "retry", "deadline", "timeout",
          "breaker", "instrumenter", "recover", "chaos"}

\* What buildDefaultPipeline has appended before it looks at RecoverPanics.
Front ==
    IfSet("rate") \o IfSet("adaptive") \o IfSet("bulkhead") \o IfSet("priority")
    \o <<"retry", "deadline">> \o IfSet("timeout") \o IfSet("breaker")
    \o <<"instrumenter">>

\* The composed pipelines are sequences of layers.
LEMMA DefaultIsSeq ==
    ASSUME NEW S, Usual \subseteq S
    PROVE  /\ Front \in Seq(S)
           /\ DefaultPipeline \in Seq(S)
           /\ HedgedPipeline \in Seq(S)
<1>1. ASSUME NEW s \in Seq(S), NEW t \in Seq(S) PROVE s \o t \in Seq(S)
  BY <1>1, ConcatProperties
<1>2. ASSUME NEW k \in Usual PROVE IfSet(k) \in Seq(S)
  <2>1. <<>> \in Seq(S) /\ <<k>> \in Seq(S)
    BY <1>2
  <2>. QED
    BY <2>1 DEF IfSet
<1>3. /\ <<"retry", "deadline">> \in Seq(S) /\ <<"instrumenter">> \in Seq(S)
      /\ <<"deadline">> \in Seq(S)
  BY DEF Usual
<1>4. /\ IfSet("rate") \in Seq(S) /\ IfSet("adaptive") \in Seq(S)
      /\ IfSet("bulkhead") \in Seq(S) /\ IfSet("priority") \in Seq(S)
      /\ IfSet("timeout") \in Seq(S) /\ IfSet("breaker") \in Seq(S)
      /\ IfSet("recover") \in Seq(S) /\ IfSet("chaos") \in Seq(S)
  BY <1>2 DEF Usual
<1>5. Front \in Seq(S)
  <2>1. IfSet("rate") \o IfSet("adaptive") \in Seq(S)
    BY <1>1, <1>4
  <2>2. IfSet("rate") \o IfSet("adaptive") \o IfSet("bulkhead") \in Seq(S)
    BY <1>1, <1>4, <2>1
  <2>3. IfSet("rate") \o IfSet("adaptive") \o IfSet("bulkhead") \o IfSet("priority")
            \in Seq(S)
    BY <1>1, <1>4, <2>2
  <2>4. IfSet("rate") \o IfSet("adaptive") \o IfSet("bulkhead") \o IfSet("priority")
            \o <<"retry", "deadline">> \in Seq(S)
    BY <1>1, <1>3, <2>3
  <2>5. IfSet("rate") \o IfSet("adaptive") \o IfSet("bulkhead") \o IfSet("priority")
            \o <<"retry", "deadline">> \o IfSet("timeout") \in Seq(S)
    BY <1>1, <1>4, <2>4
  <2>6. IfSet("rate") \o IfSet("adaptive") \o IfSet("bulkhead") \o IfSet("priority")
            \o <<"retry", "deadline">> \o IfSet("timeout") \o IfSet("breaker") \in Seq(S)
    BY <1>1, <1>4, <2>5
  <2>. QED
    BY <1>1, <1>3, <2>6 DEF Front
<1>6. DefaultPipeline \in Seq(S)
  <2>1. Front \o IfSet("recover") \in Seq(S)
    BY <1>1, <1>4, <1>5
  <2>2. Front \o IfSet("recover") \o IfSet("chaos") \in Seq(S)
    BY <1>1, <1>4, <2>1
  <2>. QED
    BY <2>2 DEF DefaultPipeline, Front
<1>7. HedgedPipeline \in Seq(S)
  <2>1. IfSet("chaos") \o IfSet("recover") \in Seq(S)
    BY <1>1, <1>4
  <2>2. IfSet("chaos") \o IfSet("recover") \o <<"instrumenter">> \in Seq(S)
    BY <1>1, <1>3, <2>1
  <2>3. IfSet("chaos") \o IfSet("recover") \o <<"instrumenter">> \o IfSet("breaker")
            \in Seq(S)
    BY <1>1, <1>4, <2>2
  <2>4. IfSet("chaos") \o IfSet("recover") \o <<"instrumenter">> \o IfSet("breaker")
            \o <<"deadline">> \in Seq(S)
    BY <1>1, <1>3, <2>3
  <2>5. IfSet("chaos") \o IfSet("recover") \o <<"instrumenter">> \o IfSet("breaker")
            \o <<"deadline">> \o IfSet("timeout") \in Seq(S)
    BY <1>1, <1>4, <2>4
  <2>6. IfSet("chaos") \o IfSet("recover") \o <<"instrumenter">> \o IfSet("breaker")
            \o <<"deadline">> \o IfSet("timeout") \o IfSet("priority") \in Seq(S)
    BY <1>1, <1>4, <2>5
  <2>7. IfSet("chaos") \o IfSet("recover") \o <<"instrumenter">> \o IfSet("breaker")
            \o <<"deadline">> \o IfSet("timeout") \o IfSet("priority")
            \o IfSet("bulkhead") \in Seq(S)
    BY <1>1, <1>4, <2>6
  <2>. QED
    BY <1>1, <1>4, <2>7 DEF HedgedPipeline
<1>. QED
  BY <1>5, <1>6, <1>7

-----------------------------------------------------------------------------
(* The state machine. *)

\* A call that is past the machine's lock.
Active(c) == way[c] \in Ways \ {"idle", "waiting"}

\* What a transition has made of the state, and that its call is alone.
HandlingFor(c) ==
    /\ Active(c) => owner = c
    /\ way[c] \in {"out", "returned"} => last[c] # "answered"
    /\ way[c] \in {"out", "returned"} /\ last[c] = "ok" => result[c] = Succ(state)

EventsInv ==
    /\ DOMAIN result = Callers
    /\ Machines => \A c \in Callers : HandlingFor(c)

\* The pipeline of a machine has no fallback layer.
LEMMA NoFallbackLayer ==
    ASSUME Typed, ComposedInv, Handles, NEW c \in Callers
    PROVE  ~Before(c, "out", {"fallback"})
<1>. DEFINE Others == Kinds \ {"fallback"}
<1>1. DefaultPipeline \in Seq(Others)
  BY DefaultIsSeq DEF Kinds, Usual
<1>2. layers[c] = <<>> \/ layers[c] = DefaultPipeline
  BY DEF Handles, ComposedInv, Intended, Appended
<1>3. layers[c] \in Seq(Others)
  <2>1. <<>> \in Seq(Others)
    OBVIOUS
  <2>. QED
    BY <1>1, <1>2, <2>1
<1>. HIDE DEF Others
<1>4. \A i \in DOMAIN layers[c] : layers[c][i] \in Others
  BY <1>3, ElementOfSeq
<1>. QED
  BY <1>4 DEF Before, Layer, Others

\* While one call is past the lock no other call is.
LEMMA Alone ==
    ASSUME Machines, EventsInv, NEW c \in Callers, Active(c)
    PROVE  owner = c /\ \A x \in Callers \ {c} : ~Active(x)
  BY DEF EventsInv, HandlingFor

\* Taking the lock, which nobody has, keeps the machine and its events.
LEMMA HandleKeeps ==
    ASSUME Typed, EventsInv, NEW c \in Callers, Handle(c)
    PROVE  EventsInv'
<1>1. /\ Typed' /\ scenario' = scenario /\ (\A x \in Callers \ {c} : Kept(x))
  <2>1. Step(c)
    BY DEF Handle, Step
  <2>. QED
    BY <2>1, StepTyped
<1>2. Machines' = Machines
  BY <1>1 DEF Machines, Handles, Config, Given
<1>3. /\ owner = "nobody" /\ owner' = c /\ way[c] = "waiting" /\ way'[c] = "lookup"
      /\ state' = state
      /\ result' = [result EXCEPT ![c] = Zero]
  BY DEF Handle, Begin, Becomes, Typed
<1>4. ASSUME Machines, NEW x \in Callers PROVE HandlingFor(x)'
  <2>1. CASE x = c
    BY <1>3, <2>1 DEF HandlingFor
  <2>2. CASE x # c
    <3>1. ~Active(x)
      BY <1>3, <1>4, PipelineAssumption DEF EventsInv, HandlingFor
    <3>. QED
      BY <1>1, <2>2, <3>1 DEF HandlingFor, Active, Kept, Typed
  <2>. QED
    BY <2>1, <2>2
<1>. QED
  BY <1>2, <1>3, <1>4 DEF EventsInv

\* A transition's result is of the state that it will be committed to.
LEMMA RunActionKeeps ==
    ASSUME Typed, EventsInv, NEW c \in Callers, RunAction(c)
    PROVE  EventsInv'
<1>1. PICK o \in scenario.outcomes :
          /\ Run(c, o)
          /\ result' = IF Handles /\ o # "panic"
                       THEN [result EXCEPT ![c] = IF o = "ok" THEN Succ(state) ELSE Zero]
                       ELSE result
  BY DEF RunAction
<1>2. /\ scenario' = scenario /\ (\A x \in Callers \ {c} : Kept(x))
  BY <1>1, StepTyped DEF Step
<1>3. Machines' = Machines
  BY <1>2 DEF Machines, Handles, Config, Given
<1>4. owner' = owner /\ state' = state
  BY DEF RunAction
<1>5. o \in Classes \cup {"ok", "panic"}
  BY PipelineAssumption DEF Scenario, Typed
<1>6. /\ Active(c) /\ last'[c] = o
      /\ way'[c] = IF o = "panic" THEN "panic" ELSE "out"
  BY <1>1, <1>5 DEF Run, AtAction, Becomes, Active, Ways, Typed
<1>7. ASSUME Machines, NEW x \in Callers PROVE HandlingFor(x)'
  <2>1. CASE x = c
    BY <1>1, <1>4, <1>5, <1>6, <1>7, <2>1, Alone
       DEF HandlingFor, Machines, EventsInv, Classes, Succ
  <2>2. CASE x # c
    BY <1>1, <1>2, <1>4, <1>7, <2>2 DEF HandlingFor, EventsInv, Active, Kept, Succ
  <2>. QED
    BY <2>1, <2>2
<1>. QED
  BY <1>1, <1>3, <1>4, <1>7 DEF EventsInv

\* Handle gives the lock back when its call is over.
LEMMA EndCallKeeps ==
    ASSUME Typed, EventsInv, NEW c \in Callers, EndCall(c)
    PROVE  EventsInv'
<1>1. /\ scenario' = scenario /\ (\A x \in Callers \ {c} : Kept(x))
  BY StepTyped DEF EndCall, Step
<1>2. Machines' = Machines
  BY <1>1 DEF Machines, Handles, Config, Given
<1>3. /\ Active(c) /\ way'[c] = "idle"
      /\ result' = [result EXCEPT ![c] = Zero]
  BY DEF EndCall, Return, Becomes, Active, Ways, Typed
<1>4. ASSUME Machines, NEW x \in Callers PROVE HandlingFor(x)'
  <2>1. CASE x = c
    BY <1>3, <2>1 DEF HandlingFor, Active
  <2>2. CASE x # c
    <3>1. ~Active(x)
      BY <1>3, <1>4, <2>2, Alone
    <3>. QED
      BY <1>1, <2>2, <3>1 DEF HandlingFor, Active, Kept, Ways
  <2>. QED
    BY <2>1, <2>2
<1>. QED
  BY <1>2, <1>3, <1>4 DEF EventsInv

\* On its way through the pipeline a call leaves the machine alone.
LEMMA TravelKeeps ==
    ASSUME Typed, OutcomeInv, ComposedInv, EventsInv, NEW c \in Callers,
           Arrive(c) \/ Expire(c) \/ Travel(c), UNCHANGED machine
    PROVE  EventsInv'
<1>1. /\ scenario' = scenario /\ (\A x \in Callers \ {c} : Kept(x))
      /\ way' \in [Callers -> Ways] /\ way \in [Callers -> Ways]
      /\ last \in [Callers -> Lasts]
  BY StepTyped DEF Step, Typed
<1>2. Machines' = Machines
  BY <1>1 DEF Machines, Handles, Config, Given
<1>3. result' = result /\ state' = state /\ owner' = owner
  BY DEF machine
<1>4. ASSUME Machines, NEW x \in Callers \ {c} PROVE HandlingFor(x)'
  BY <1>1, <1>3, <1>4 DEF HandlingFor, EventsInv, Active, Kept, Succ
<1>5. ASSUME Machines PROVE HandlingFor(c)'
  <2>1. Active(c)' => Active(c)
    <3>1. CASE Arrive(c) \/ Expire(c)
      BY <1>1, <3>1 DEF Arrive, Expire, Becomes, Active
    <3>2. CASE Travel(c)
      BY <1>1, <3>2 DEF Travel, FindComposed, FindNone, Compose, Pass, Refuse, FallBack,
         Leave, Unwind, Recover, NoAttempt, FirstAttempt, Succeed, GiveUp, FallAsleep,
         WakeUp, SleepCancelled, Finish, Before, Active, Ways
    <3>. QED
      BY <3>1, <3>2
  <2>2. \/ way'[c] \notin {"out", "returned"}
        \/ way[c] \in {"out", "returned"} /\ last'[c] = last[c]
        \/ last'[c] \in Classes
    <3>1. CASE Arrive(c) \/ Expire(c)
      BY <1>1, <3>1 DEF Arrive, Expire, Becomes
    <3>2. CASE FindComposed(c) \/ FindNone(c) \/ Compose(c)
      BY <1>1, <3>2 DEF FindComposed, FindNone, Compose, EnterPipeline, Becomes
    <3>3. CASE Pass(c) \/ Unwind(c) \/ FirstAttempt(c) \/ WakeUp(c) \/ FallAsleep(c)
      BY <1>1, <3>3 DEF Pass, Unwind, FirstAttempt, WakeUp, FallAsleep, Inward, Before,
         Becomes
    <3>4. CASE Refuse(c) \/ Recover(c) \/ SleepCancelled(c)
      BY <1>1, <3>4 DEF Refuse, Recover, SleepCancelled, Classes
    <3>5. CASE Leave(c) \/ Succeed(c) \/ GiveUp(c)
      BY <3>5 DEF Leave, Succeed, GiveUp, Before
    <3>6. CASE FallBack(c)
      BY <1>5, <3>6, NoFallbackLayer DEF FallBack, Machines
    <3>7. CASE NoAttempt(c)
      BY <1>5, <3>7 DEF NoAttempt, Machines
    <3>8. CASE Finish(c)
      BY <1>5, <3>8 DEF Finish, Answerable, Machines, Handles
    <3>. QED
      BY <3>1, <3>2, <3>3, <3>4, <3>5, <3>6, <3>7, <3>8 DEF Travel
  <2>. QED
    BY <1>3, <1>5, <2>1, <2>2 DEF HandlingFor, EventsInv, Succ, Classes
<1>. QED
  BY <1>2, <1>3, <1>4, <1>5 DEF EventsInv

\* The lock is held from before a transition reads the state until what it made
\* of it is committed.
LEMMA EventsCorrect == MachineSpec => []EventsInv
<1>1. MachineInit => EventsInv
  BY DEF MachineInit, Init, EventsInv, HandlingFor, Active, Zero
<1>2. Typed /\ OutcomeInv /\ ComposedInv /\ EventsInv /\ [MachineNext]_allVars => EventsInv'
  <2>. SUFFICES ASSUME Typed, OutcomeInv, ComposedInv, EventsInv, [MachineNext]_allVars
                PROVE  EventsInv'
    OBVIOUS
  <2>1. CASE UNCHANGED allVars
    BY <2>1 DEF allVars, vars, shared, machine, EventsInv, Machines, Handles, Config, Given,
       HandlingFor, Active, Succ
  <2>2. ASSUME NEW c \in Callers, Call(c) PROVE EventsInv'
    <3>1. scenario' = scenario /\ Machines' = Machines
      BY <2>2, StepTyped DEF Call, Step, Machines, Handles, Config, Given
    <3>. QED
      BY <2>2, <3>1 DEF Call, EventsInv, Machines, machine
  <2>. QED
    BY <2>1, <2>2, HandleKeeps, RunActionKeeps, EndCallKeeps, TravelKeeps
       DEF MachineNext, Proceed
<1>. QED
  BY <1>1, <1>2, TypesCorrect, OutcomesCorrect, ComposedCorrect, PTL DEF MachineSpec

\* Every step keeps the lock with the call that is past it.
LEMMA LockStep ==
    ASSUME Typed, LockFollowsCall, Handles,
           NEW c \in Callers,
           \/ (Arrive(c) \/ Expire(c)) /\ UNCHANGED machine
           \/ Handle(c) \/ Proceed(c)
    PROVE  LockFollowsCall'
<1>. DEFINE Held(x) == owner = x <=> way[x] \notin {"idle", "waiting"}
<1>. USE DEF Becomes
<1>1. Step(c)
  BY DEF Step, Handle, Proceed, Call, RunAction, EndCall
<1>2. /\ scenario' = scenario /\ (\A x \in Callers \ {c} : way'[x] = way[x])
      /\ way \in [Callers -> Ways] /\ way' \in [Callers -> Ways]
  BY <1>1, StepTyped DEF Kept, Typed
<1>3. \A x \in Callers : Held(x)
  BY DEF LockFollowsCall
<1>. SUFFICES ASSUME NEW x \in Callers PROVE Held(x)'
  BY DEF LockFollowsCall
<1>4. ASSUME owner' = owner,
             way'[c] \in {"idle", "waiting"} <=> way[c] \in {"idle", "waiting"}
      PROVE  Held(x)'
  BY <1>2, <1>3, <1>4
<1>5. CASE (Arrive(c) \/ Expire(c)) /\ UNCHANGED machine
  BY <1>2, <1>4, <1>5 DEF Arrive, Expire, machine
<1>6. CASE Handle(c)
  BY <1>2, <1>3, <1>6, PipelineAssumption DEF Handle, Begin
<1>7. CASE RunAction(c)
  BY <1>2, <1>4, <1>7 DEF RunAction, Run, AtAction
<1>8. CASE EndCall(c)
  BY <1>2, <1>3, <1>8, PipelineAssumption DEF EndCall, Return
<1>9. CASE Travel(c) /\ UNCHANGED machine
  <2>1. owner' = owner
    BY <1>9 DEF machine
  <2>2. way'[c] \notin {"idle", "waiting"} /\ way[c] \notin {"idle", "waiting"}
    <3>1. CASE FindComposed(c) \/ FindNone(c) \/ Compose(c)
      BY <1>2, <3>1 DEF FindComposed, FindNone, Compose, EnterPipeline
    <3>2. CASE Pass(c) \/ Refuse(c) \/ FallBack(c) \/ Leave(c) \/ Unwind(c) \/ Recover(c)
      BY <1>2, <3>2 DEF Pass, Refuse, FallBack, Leave, Unwind, Recover, Before, Inward, Outward
    <3>3. CASE NoAttempt(c) \/ FirstAttempt(c) \/ Succeed(c) \/ GiveUp(c)
               \/ FallAsleep(c) \/ WakeUp(c) \/ SleepCancelled(c) \/ Finish(c)
      BY <1>2, <3>3 DEF NoAttempt, FirstAttempt, Succeed, GiveUp, FallAsleep, WakeUp,
         SleepCancelled, Finish, Before, Inward, Outward
    <3>. QED
      BY <1>9, <3>1, <3>2, <3>3 DEF Travel
  <2>. QED
    BY <1>4, <2>1, <2>2
<1>. QED
  BY <1>5, <1>6, <1>7, <1>8, <1>9 DEF Proceed, Call

\* The machine is locked exactly while one call is past the lock: a transition
\* that panics, is refused or fails for good leaves it free for the next event.
THEOREM LockFollowsCallCorrect == MachineSpec => []LockFollowsCall
<1>1. MachineInit => LockFollowsCall
  BY PipelineAssumption DEF MachineInit, Init, LockFollowsCall
<1>2. Typed /\ LockFollowsCall /\ [MachineNext]_allVars => LockFollowsCall'
  <2>. SUFFICES ASSUME Typed, LockFollowsCall, [MachineNext]_allVars PROVE LockFollowsCall'
    OBVIOUS
  <2>1. CASE UNCHANGED allVars
    BY <2>1 DEF allVars, vars, shared, machine, LockFollowsCall, Handles
  <2>2. CASE ~Handles /\ MachineNext
    <3>1. PICK c \in Callers : Step(c)
      BY <2>2 DEF MachineNext, Step, Handle, Proceed, Call, RunAction, EndCall
    <3>2. scenario' = scenario
      BY <3>1, StepTyped
    <3>. QED
      BY <2>2, <3>2 DEF LockFollowsCall, Handles
  <2>3. CASE Handles /\ MachineNext
    BY <2>3, LockStep DEF MachineNext
  <2>. QED
    BY <2>1, <2>2, <2>3
<1>. QED
  BY <1>1, <1>2, TypesCorrect, PTL DEF MachineSpec

-----------------------------------------------------------------------------
(* Who is inside of what. *)

\* Where a call stands in each of its phases.  A panic has met no recovery yet.
Positioned(c) ==
    /\ way[c] \in {"idle", "waiting", "lookup", "compose"} => layers[c] = <<>> /\ at[c] = 0
    /\ way[c] = "in" => at[c] \in 1 .. Len(layers[c]) + 1
    /\ way[c] = "sleep" => at[c] \in DOMAIN layers[c] /\ Layer(c) = "retry"
    /\ way[c] \in {"out", "panic"} => at[c] \in 0 .. Len(layers[c])
    /\ way[c] = "returned" => at[c] = 0
    /\ way[c] = "panic" =>
          \A r \in DOMAIN layers[c] : r > at[c] => layers[c][r] # "recover"

\* The layers that a call has entered and not left.
Entered(c) == {d \in DOMAIN layers[c] : d < at[c] \/ (d = at[c] /\ way[c] # "in")}

\* What a step of a call does to where it is: it stays in the same layers, or
\* enters, leaves or unwinds through the layer it stands at.
Stays(c) ==
    /\ inside' = inside
    /\ Entered(c)' = Entered(c)
    /\ Entered(c) = {} \/ layers'[c] = layers[c]

Enters(c) ==
    /\ at[c] \in DOMAIN layers[c] /\ layers' = layers
    /\ way[c] = "in"
    /\ Entered(c)' = Entered(c) \cup {at[c]}
    /\ Layer(c) \in Bulkheads => ~Full(c)
    /\ Count(c, Counting, 1)

Leaves(c, K) ==
    /\ at[c] \in DOMAIN layers[c] /\ layers' = layers
    /\ way[c] # "in"
    /\ Entered(c)' = Entered(c) \ {at[c]}
    /\ Count(c, K, -1)

Moves(c) ==
    \/ Stays(c) \/ Enters(c) \/ Leaves(c, Counting)
    \/ Leaves(c, Releasing) /\ way[c] = "panic"

\* The composed pipelines have layers one after the other.
LEMMA LayersAreSeqs ==
    ASSUME Typed, ComposedInv, NEW c \in Callers
    PROVE  /\ layers[c] \in Seq(Kinds)
           /\ Len(layers[c]) \in Nat /\ DOMAIN layers[c] = 1 .. Len(layers[c])
<1>1. DefaultPipeline \in Seq(Kinds) /\ HedgedPipeline \in Seq(Kinds)
  BY DefaultIsSeq DEF Usual, Kinds
<1>2. Appended(scenario) \in Seq(Kinds)
  <2>1. scenario.options \in Seq([kind : Kinds, value : Nat])
    BY PipelineAssumption DEF Typed, Scenario
  <2>2. <<>> \in Seq(Kinds)
    OBVIOUS
  <2>. DEFINE n == Len(scenario.options)
              s == [i \in 1 .. n |-> scenario.options[i].kind]
  <2>3. n \in Nat /\ DOMAIN scenario.options = 1 .. n
    BY <2>1
  <2>4. \A i \in 1 .. n : scenario.options[i] \in [kind : Kinds, value : Nat]
    BY <2>1, <2>3, ElementOfSeq
  <2>5. s \in Seq(Kinds)
    <3>1. s \in [1 .. n -> Kinds]
      BY <2>4
    <3>. QED
      BY <2>3, <3>1, IsASeq
  <2>. QED
    BY <2>2, <2>3, <2>5 DEF Appended
<1>3. <<>> \in Seq(Kinds)
  OBVIOUS
<1>4. layers[c] \in Seq(Kinds)
  BY <1>1, <1>2, <1>3 DEF ComposedInv, Intended
<1>. QED
  BY <1>4

\* Every step keeps a call where its phase says and moves it by one layer.
LEMMA StepMoves ==
    ASSUME Typed, ComposedInv, NEW c \in Callers, Positioned(c), Step(c)
    PROVE  Positioned(c)' /\ Moves(c)
<1>. USE DEF Becomes
<1>1. /\ layers[c] \in Seq(Kinds) /\ Len(layers[c]) \in Nat
      /\ DOMAIN layers[c] = 1 .. Len(layers[c])
      /\ at[c] \in Int /\ at \in [Callers -> Int] /\ way \in [Callers -> Ways]
      /\ DOMAIN layers = Callers
  BY LayersAreSeqs DEF Typed
<1>2. CASE Arrive(c) \/ FindNone(c) \/ Begin(c)
  BY <1>1, <1>2 DEF Arrive, FindNone, Begin, Positioned, Moves, Stays, Entered
<1>3. CASE BeginHedged(c) \/ FindComposed(c) \/ Compose(c)
  <2>1. PICK p : EnterPipeline(c, p)
    BY <1>3 DEF BeginHedged, FindComposed, Compose
  <2>2. inside' = inside /\ layers[c] = <<>>
    BY <1>3 DEF BeginHedged, FindComposed, Compose, Positioned
  <2>3. ComposedInv' /\ Typed'
    BY ComposedStep, StepTyped
  <2>4. /\ Len(layers'[c]) \in Nat /\ DOMAIN layers'[c] = 1 .. Len(layers'[c])
    BY <2>3, LayersAreSeqs
  <2>. QED
    BY <1>1, <2>1, <2>2, <2>4 DEF EnterPipeline, Positioned, Moves, Stays, Entered
<1>4. CASE Expire(c)
  BY <1>1, <1>4 DEF Expire, Positioned, Moves, Stays, Entered, Layer
<1>5. CASE Pass(c)
  BY <1>1, <1>5 DEF Pass, Inward, Before, Positioned, Moves, Enters, Entered
<1>6. CASE Refuse(c)
  BY <1>1, <1>6 DEF Refuse, Outward, Before, Positioned, Moves, Stays, Entered
<1>7. CASE FallBack(c)
  <2>1. Count(c, Counting, -1)
    BY <1>7 DEF FallBack, Before, Count, Counting, Releasing, Bulkheads
  <2>2. /\ layers' = layers /\ way' = way /\ at' = [at EXCEPT ![c] = @ - 1]
        /\ way[c] = "out" /\ at[c] \in DOMAIN layers[c]
    BY <1>7 DEF FallBack, Before
  <2>. QED
    BY <1>1, <2>1, <2>2 DEF Positioned, Moves, Leaves, Entered
<1>8. CASE Leave(c)
  BY <1>1, <1>8 DEF Leave, Outward, Before, Positioned, Moves, Leaves, Entered
<1>9. CASE Unwind(c)
  <2>1. /\ Count(c, Releasing, -1) /\ layers' = layers /\ way' = way
        /\ at' = [at EXCEPT ![c] = @ - 1]
        /\ way[c] = "panic" /\ at[c] \in DOMAIN layers[c] /\ layers[c][at[c]] # "recover"
    BY <1>9 DEF Unwind, Before, Layer
  <2>. QED
    BY <1>1, <2>1 DEF Positioned, Moves, Leaves, Entered
<1>10. CASE Recover(c)
  <2>1. Count(c, Counting, -1)
    BY <1>10 DEF Recover, Before, Count, Counting, Releasing, Bulkheads
  <2>. QED
    BY <1>1, <1>10, <2>1 DEF Recover, Outward, Before, Positioned, Moves, Leaves, Entered
<1>11. CASE NoAttempt(c)
  BY <1>1, <1>11 DEF NoAttempt, Outward, Before, Positioned, Moves, Stays, Entered
<1>12. CASE FirstAttempt(c)
  <2>1. Count(c, Counting, 1) /\ Layer(c) \notin Bulkheads
    BY <1>12 DEF FirstAttempt, Before, Count, Counting, Releasing, Bulkheads
  <2>. QED
    BY <1>1, <1>12, <2>1 DEF FirstAttempt, Inward, Before, Positioned, Moves, Enters, Entered
<1>13. CASE Succeed(c) \/ GiveUp(c) \/ SleepCancelled(c)
  <2>1. Count(c, Counting, -1)
    BY <1>13 DEF Succeed, GiveUp, SleepCancelled, Before, Count, Counting, Releasing, Bulkheads
  <2>2. /\ layers' = layers /\ way' = [way EXCEPT ![c] = "out"]
        /\ at' = [at EXCEPT ![c] = @ - 1]
        /\ way[c] # "in" /\ at[c] \in DOMAIN layers[c]
    BY <1>13 DEF Succeed, GiveUp, SleepCancelled, Outward, Before
  <2>3. way'[c] = "out" /\ at'[c] = at[c] - 1
    BY <1>1, <2>2
  <2>4. Positioned(c)'
    BY <1>1, <2>2, <2>3 DEF Positioned
  <2>. QED
    BY <1>1, <2>1, <2>2, <2>3, <2>4 DEF Moves, Leaves, Entered
<1>14. CASE FallAsleep(c)
  BY <1>1, <1>14 DEF FallAsleep, Before, Positioned, Moves, Stays, Entered, Layer
<1>15. CASE WakeUp(c)
  BY <1>1, <1>15 DEF WakeUp, Inward, Before, Positioned, Moves, Stays, Entered
<1>16. ASSUME NEW o \in scenario.outcomes, Run(c, o) PROVE Positioned(c)' /\ Moves(c)
  BY <1>1, <1>16 DEF Run, AtAction, Positioned, Moves, Stays, Entered
<1>17. CASE Finish(c)
  BY <1>1, <1>17 DEF Finish, Positioned, Moves, Stays, Entered
<1>18. CASE Return(c)
  <2>1. at[c] = 0 /\ inside' = inside /\ layers'[c] = <<>> /\ at' = at /\ way'[c] = "idle"
    BY <1>1, <1>18 DEF Return, Positioned
  <2>. QED
    BY <1>1, <2>1 DEF Positioned, Moves, Stays, Entered
<1>. QED
  BY <1>2, <1>3, <1>4, <1>5, <1>6, <1>7, <1>8, <1>9, <1>10, <1>11, <1>12, <1>13, <1>14,
     <1>15, <1>16, <1>17, <1>18 DEF Step, Travel

\* A call is within a layer of some kind and object when it has entered it.
LEMMA WithinMembers ==
    ASSUME NEW k, NEW o
    PROVE  /\ \A x, d : <<x, d>> \in Within(k, o) <=>
                  x \in Callers /\ d \in Entered(x) /\ layers[x][d] = k /\ Object(x, k) = o
           /\ \A e \in Within(k, o) : \E x \in Callers : \E d \in Entered(x) : e = <<x, d>>
  BY DEF Within, Entered

\* The set changes by the layer that the moving call stands at, or not at all.
LEMMA WithinChange ==
    ASSUME Typed, NEW c \in Callers, scenario' = scenario,
           \A x \in Callers \ {c} : Kept(x),
           NEW k, NEW o
    PROVE  LET here == {e \in {<<c, at[c]>>} : Layer(c) = k /\ Object(c, k) = o}
           IN  /\ Stays(c) => Within(k, o)' = Within(k, o)
               /\ Enters(c) => /\ Within(k, o)' = Within(k, o) \cup here
                               /\ here \cap Within(k, o) = {}
               /\ \A K : Leaves(c, K) =>
                     /\ Within(k, o)' = Within(k, o) \ here
                     /\ at[c] \in Entered(c) => here \subseteq Within(k, o)
<1>. DEFINE here == {e \in {<<c, at[c]>>} : Layer(c) = k /\ Object(c, k) = o}
            In(x, d) == d \in Entered(x) /\ layers[x][d] = k /\ Object(x, k) = o
<1>1. \A x : Object(x, k)' = Object(x, k)
  BY DEF Object, Config, Given, Owner
<1>2. /\ \A x, d : <<x, d>> \in Within(k, o) <=> x \in Callers /\ In(x, d)
      /\ \A e \in Within(k, o) : \E x \in Callers : \E d : e = <<x, d>>
  BY WithinMembers
<1>3. /\ \A x, d : <<x, d>> \in Within(k, o)' <=> x \in Callers /\ In(x, d)'
      /\ \A e \in Within(k, o)' : \E x \in Callers : \E d : e = <<x, d>>
  BY <1>1 DEF Within, Entered
<1>4. \A x \in Callers \ {c} : \A d : In(x, d)' <=> In(x, d)
  BY <1>1 DEF Kept, Entered
<1>5. \A e : e \in here <=> e = <<c, at[c]>> /\ layers[c][at[c]] = k /\ Object(c, k) = o
  BY DEF Layer
<1>. HIDE DEF here
<1>6. ASSUME Stays(c) PROVE Within(k, o)' = Within(k, o)
  <2>1. \A d : In(c, d)' <=> In(c, d)
    BY <1>1, <1>6 DEF Stays
  <2>2. \A x \in Callers : \A d : In(x, d)' <=> In(x, d)
    BY <1>4, <2>1
  <2>. QED
    BY <1>2, <1>3, <2>2
<1>7. ASSUME Enters(c)
      PROVE  Within(k, o)' = Within(k, o) \cup here /\ here \cap Within(k, o) = {}
  <2>1. \A d : In(c, d)' <=> In(c, d) \/ <<c, d>> \in here
    BY <1>1, <1>5, <1>7 DEF Enters
  <2>2. at[c] \notin Entered(c)
    BY <1>7 DEF Enters, Entered, Typed
  <2>3. \A x \in Callers \ {c} : \A d : <<x, d>> \notin here
    BY <1>5
  <2>. QED
    BY <1>2, <1>3, <1>4, <1>5, <2>1, <2>2, <2>3
<1>8. ASSUME NEW K, Leaves(c, K)
      PROVE  /\ Within(k, o)' = Within(k, o) \ here
             /\ at[c] \in Entered(c) => here \subseteq Within(k, o)
  <2>1. \A d : In(c, d)' <=> In(c, d) /\ <<c, d>> \notin here
    BY <1>1, <1>5, <1>8 DEF Leaves
  <2>2. \A x \in Callers \ {c} : \A d : <<x, d>> \notin here
    BY <1>5
  <2>. QED
    BY <1>2, <1>3, <1>4, <1>5, <2>1, <2>2
<1>. QED
  BY <1>6, <1>7, <1>8 DEF here

\* A panic that passes the breaker or the instrumenter passes one without
\* recovery inside of it.
LEMMA PanicsUnsheltered ==
    ASSUME Typed, ComposedInv, NEW c \in Callers, Positioned(c), way[c] = "panic",
           at[c] \in DOMAIN layers[c], Layer(c) \in {"breaker", "instrumenter"}
    PROVE  ~Sheltered(Layer(c))
<1>1. /\ layers[c] = Intended /\ DOMAIN layers[c] = 1 .. Len(layers[c])
      /\ Len(layers[c]) \in Nat
  BY LayersAreSeqs DEF ComposedInv
<1>2. \A r \in DOMAIN layers[c] : r > at[c] => layers[c][r] # "recover"
  BY DEF Positioned
<1>3. CASE Appended(scenario) # <<>>
  <2>1. scenario.entry # "hedged"
    BY <1>3 DEF Appended
  <2>2. layers[c] = Appended(scenario)
    BY <1>1, <1>3, <2>1 DEF Intended
  <2>. QED
    BY <1>1, <1>2, <1>3, <2>2 DEF Sheltered, Layer
<1>4. CASE Appended(scenario) = <<>> /\ Config("recover") # Nil /\ scenario.entry # "hedged"
  <2>. DEFINE S == Kinds
              m == Len(Front) + 1
  <2>1. layers[c] = Front \o <<"recover">> \o IfSet("chaos")
    BY <1>1, <1>4 DEF Intended, DefaultPipeline, Front, IfSet
  <2>2. Front \in Seq(S) /\ <<"recover">> \in Seq(S) /\ IfSet("chaos") \in Seq({"chaos"})
    <3>1. <<"recover">> \in Seq(S)
      BY DEF Kinds
    <3>2. IfSet("chaos") \in Seq({"chaos"})
      <4>1. <<>> \in Seq({"chaos"}) /\ <<"chaos">> \in Seq({"chaos"})
        OBVIOUS
      <4>. QED
        BY <4>1 DEF IfSet
    <3>. QED
      BY <3>1, <3>2, DefaultIsSeq DEF Usual, Kinds
  <2>3. /\ Front \o <<"recover">> \in Seq(S) /\ Len(Front \o <<"recover">>) = m
        /\ (Front \o <<"recover">>)[m] = "recover" /\ m \in Nat \ {0}
    BY <2>2
  <2>4. /\ m \in DOMAIN layers[c] /\ layers[c][m] = "recover"
        /\ \A d \in DOMAIN layers[c] : d > m => layers[c][d] = "chaos"
    <3>. DEFINE t == Front \o <<"recover">>
                u == IfSet("chaos")
    <3>1. t \in Seq(S) /\ u \in Seq({"chaos"}) /\ Len(t) = m /\ layers[c] = t \o u
      BY <2>1, <2>2, <2>3
    <3>. HIDE DEF t, u, m
    <3>2. /\ DOMAIN (t \o u) = 1 .. m + Len(u) /\ Len(u) \in Nat /\ m \in Nat
          /\ \A i \in 1 .. m + Len(u) : (t \o u)[i] = IF i <= m THEN t[i] ELSE u[i - m]
      BY <3>1
    <3>3. \A i \in 1 .. Len(u) : u[i] = "chaos"
      BY <3>1, ElementOfSeq
    <3>. QED
      BY <2>3, <3>1, <3>2, <3>3 DEF t
  <2>5. at[c] \in Nat /\ m \in Nat
    BY <1>1, <2>3
  <2>. HIDE DEF m
  <2>6. ~(m > at[c])
    BY <1>2, <2>4
  <2>7. CASE at[c] = m
    BY <2>4, <2>7 DEF Layer
  <2>8. CASE at[c] > m
    BY <2>4, <2>8 DEF Layer
  <2>. QED
    BY <2>5, <2>6, <2>7, <2>8
<1>. QED
  BY <1>3, <1>4 DEF Sheltered


\* The inductive invariant: every object has counted the calls inside of it,
\* and those whose panics have passed it unrecovered.
Exact(k, o) ==
    /\ IsFiniteSet(Within(k, o))
    /\ inside[k][o] >= Cardinality(Within(k, o))
    /\ k \in Releasing \/ Sheltered(k) => inside[k][o] = Cardinality(Within(k, o))

InsideInv ==
    /\ inside \in [Kinds -> [Owners -> Nat]]
    /\ \A c \in Callers : Positioned(c)
    /\ \A k \in {k \in Counting : Config(k) # Nil}, o \in Owners : Exact(k, o)
    /\ \A k \in Bulkheads, o \in Owners : inside[k][o] <= scenario.capacity

\* Counting a call in or out concerns one object only.
LEMMA CountOne ==
    ASSUME inside \in [Kinds -> [Owners -> Nat]], NEW c \in Callers, NEW K, NEW n \in Int,
           Layer(c) \in Kinds, Count(c, K, n)
    PROVE  /\ inside' \in [Kinds -> [Owners -> Int]]
           /\ \A k \in Kinds, o \in Owners :
                 inside'[k][o] =
                    IF /\ Layer(c) \in K /\ Config(Layer(c)) # Nil
                       /\ k = Layer(c) /\ o = Object(c, k)
                    THEN inside[k][o] + n ELSE inside[k][o]
<1>1. Object(c, Layer(c)) \in Owners
  BY DEF Object, Owner, Owners
<1>2. CASE Layer(c) \in K /\ Config(Layer(c)) # Nil
  <2>1. inside' = [inside EXCEPT ![Layer(c)][Object(c, Layer(c))] = @ + n]
    BY <1>2 DEF Count
  <2>2. inside \in [Kinds -> [Owners -> Int]] /\ inside[Layer(c)][Object(c, Layer(c))] + n \in Int
    BY <1>1
  <2>3. inside' \in [Kinds -> [Owners -> Int]]
    BY <2>1, <2>2
  <2>. QED
    BY <1>1, <1>2, <2>1, <2>3
<1>3. CASE ~(Layer(c) \in K /\ Config(Layer(c)) # Nil)
  BY <1>3 DEF Count
<1>. QED
  BY <1>2, <1>3

\* Every step keeps the counts exact.
LEMMA InsideStep ==
    ASSUME Typed, ComposedInv, InsideInv, NEW c \in Callers, Step(c)
    PROVE  InsideInv'
<1>1. /\ scenario' = scenario /\ (\A x \in Callers \ {c} : Kept(x))
      /\ Positioned(c)' /\ Moves(c) /\ Positioned(c)
  BY StepTyped, StepMoves DEF InsideInv
<1>2. /\ \A k : Config(k)' = Config(k) /\ Sheltered(k)' = Sheltered(k)
      /\ \A x, k : Object(x, k)' = Object(x, k)
  BY <1>1 DEF Config, Given, Sheltered, Appended, Object, Owner
<1>3. \A x \in Callers : Positioned(x)'
  BY <1>1 DEF InsideInv, Positioned, Kept, Layer
<1>4. Counting \subseteq Kinds /\ Bulkheads \subseteq Releasing /\ Releasing \subseteq Counting
      /\ Counting \ Releasing = {"breaker", "instrumenter"} /\ scenario.capacity \in Nat
  BY PipelineAssumption DEF Counting, Releasing, Bulkheads, Kinds, Typed, Scenario
<1>5. at[c] \in DOMAIN layers[c] => Layer(c) \in Kinds
  BY LayersAreSeqs, ElementOfSeq DEF Layer
<1>6. CASE Stays(c)
  <2>1. inside' = inside /\ \A k, o : Within(k, o)' = Within(k, o)
    BY <1>1, <1>6, WithinChange DEF Stays
  <2>. QED
    BY <1>1, <1>2, <1>3, <2>1 DEF InsideInv, Exact
<1>7. CASE Enters(c)
  <2>1. /\ Count(c, Counting, 1) /\ Layer(c) \in Kinds
        /\ Layer(c) \in Bulkheads => ~Full(c)
    BY <1>5, <1>7 DEF Enters
  <2>2. /\ inside' \in [Kinds -> [Owners -> Int]]
        /\ \A k \in Kinds, o \in Owners :
              inside'[k][o] =
                 IF /\ Layer(c) \in Counting /\ Config(Layer(c)) # Nil
                    /\ k = Layer(c) /\ o = Object(c, k)
                 THEN inside[k][o] + 1 ELSE inside[k][o]
    BY <2>1, CountOne DEF InsideInv
  <2>3. inside' \in [Kinds -> [Owners -> Nat]]
    <3>1. \A k \in Kinds, o \in Owners : inside'[k][o] \in Nat
      BY <2>2 DEF InsideInv
    <3>2. \A k \in Kinds : inside'[k] \in [Owners -> Nat]
      BY <2>2, <3>1
    <3>. QED
      BY <2>2, <3>2
  <2>4. ASSUME NEW k \in Counting, Config(k) # Nil, NEW o \in Owners PROVE Exact(k, o)'
    <3>. DEFINE here == {e \in {<<c, at[c]>>} : Layer(c) = k /\ Object(c, k) = o}
    <3>1. Within(k, o)' = Within(k, o) \cup here /\ here \cap Within(k, o) = {}
      BY <1>1, <1>7, WithinChange
    <3>2. Exact(k, o) /\ k \in Kinds /\ inside[k][o] \in Nat
      BY <1>4, <2>4 DEF InsideInv
    <3>3. CASE k = Layer(c) /\ o = Object(c, k)
      <4>1. /\ Within(k, o)' = Within(k, o) \cup {<<c, at[c]>>}
            /\ <<c, at[c]>> \notin Within(k, o)
            /\ IsFiniteSet(Within(k, o))
        BY <3>1, <3>2, <3>3 DEF Exact
      <4>2. /\ IsFiniteSet(Within(k, o)')
            /\ Cardinality(Within(k, o)') = Cardinality(Within(k, o)) + 1
        BY ONLY <4>1, FS_AddElement
      <4>3. inside'[k][o] = inside[k][o] + 1
        BY <2>2, <2>4, <3>2, <3>3
      <4>4. Cardinality(Within(k, o)) \in Nat
        BY <3>2, FS_CardinalityType DEF Exact
      <4>. QED
        BY <1>2, <3>2, <4>2, <4>3, <4>4 DEF Exact
    <3>4. CASE ~(k = Layer(c) /\ o = Object(c, k))
      <4>1. Within(k, o)' = Within(k, o) /\ inside'[k][o] = inside[k][o]
        BY <2>2, <3>1, <3>2, <3>4
      <4>. QED
        BY <1>2, <3>2, <4>1 DEF Exact
    <3>. QED
      BY <3>3, <3>4
  <2>5. ASSUME NEW k \in Bulkheads, NEW o \in Owners PROVE inside'[k][o] <= scenario.capacity
    <3>1. inside[k][o] \in Nat /\ inside[k][o] <= scenario.capacity /\ k \in Kinds
      BY <1>4 DEF InsideInv
    <3>2. CASE k = Layer(c) /\ o = Object(c, k)
      BY <1>4, <2>1, <2>2, <3>1, <3>2 DEF Full
    <3>3. CASE ~(k = Layer(c) /\ o = Object(c, k))
      BY <2>2, <3>1, <3>3
    <3>. QED
      BY <3>2, <3>3
  <2>. QED
    BY <1>1, <1>2, <1>3, <2>3, <2>4, <2>5 DEF InsideInv
<1>8. ASSUME NEW K, Leaves(c, K),
             K = Counting \/ (K = Releasing /\ way[c] = "panic")
      PROVE  InsideInv'
  <2>1. /\ Count(c, K, -1) /\ Layer(c) \in Kinds /\ at[c] \in Entered(c)
    BY <1>5, <1>8 DEF Leaves, Entered, Typed
  <2>2. /\ inside' \in [Kinds -> [Owners -> Int]]
        /\ \A k \in Kinds, o \in Owners :
              inside'[k][o] =
                 IF /\ Layer(c) \in K /\ Config(Layer(c)) # Nil
                    /\ k = Layer(c) /\ o = Object(c, k)
                 THEN inside[k][o] + (-1) ELSE inside[k][o]
    BY <2>1, CountOne DEF InsideInv
  <2>3. ASSUME NEW k \in Counting, Config(k) # Nil, NEW o \in Owners
        PROVE  Exact(k, o)' /\ inside'[k][o] \in Nat
    <3>. DEFINE here == {e \in {<<c, at[c]>>} : Layer(c) = k /\ Object(c, k) = o}
    <3>1. Within(k, o)' = Within(k, o) \ here /\ here \subseteq Within(k, o)
      BY <1>1, <1>8, <2>1, WithinChange
    <3>2. Exact(k, o) /\ k \in Kinds /\ inside[k][o] \in Nat
      BY <1>4, <2>3 DEF InsideInv
    <3>3. CASE k = Layer(c) /\ o = Object(c, k)
      <4>1. /\ Within(k, o)' = Within(k, o) \ {<<c, at[c]>>}
            /\ <<c, at[c]>> \in Within(k, o)
            /\ IsFiniteSet(Within(k, o))
        BY <3>1, <3>2, <3>3 DEF Exact
      <4>2. /\ IsFiniteSet(Within(k, o)')
            /\ Cardinality(Within(k, o)') = Cardinality(Within(k, o)) - 1
        BY ONLY <4>1, FS_RemoveElement
      <4>3. Cardinality(Within(k, o)) \in Nat /\ Cardinality(Within(k, o)') \in Nat
        BY <3>2, <4>2, FS_CardinalityType DEF Exact
      <4>4. CASE k \in K
        <5>1. inside'[k][o] = inside[k][o] - 1
          BY <2>2, <2>3, <3>2, <3>3, <4>4
        <5>. QED
          BY <1>2, <3>2, <4>2, <4>3, <5>1 DEF Exact
      <4>5. CASE k \notin K
        <5>1. k \in {"breaker", "instrumenter"} /\ way[c] = "panic"
          BY <1>4, <1>8, <2>3, <4>5
        <5>2. ~Sheltered(k)
          BY <1>1, <1>8, <3>3, <5>1, PanicsUnsheltered DEF Leaves
        <5>3. inside'[k][o] = inside[k][o] /\ k \notin Releasing
          BY <2>2, <3>2, <3>3, <4>5, <5>1 DEF Releasing, Bulkheads
        <5>. QED
          BY <1>2, <3>2, <4>2, <4>3, <5>2, <5>3 DEF Exact
      <4>. QED
        BY <4>4, <4>5
    <3>4. CASE ~(k = Layer(c) /\ o = Object(c, k))
      <4>1. Within(k, o)' = Within(k, o) /\ inside'[k][o] = inside[k][o]
        BY <2>2, <3>1, <3>2, <3>4
      <4>. QED
        BY <1>2, <3>2, <4>1 DEF Exact
    <3>. QED
      BY <3>3, <3>4
  <2>4. ASSUME NEW k \in Kinds, NEW o \in Owners
        PROVE  inside'[k][o] \in Nat /\ inside'[k][o] <= inside[k][o]
    <3>1. inside[k][o] \in Nat
      BY DEF InsideInv
    <3>2. K \subseteq Counting
      BY <1>4, <1>8
    <3>3. CASE k \in Counting /\ Config(k) # Nil
      BY <2>2, <2>3, <3>1, <3>3
    <3>4. CASE ~(k \in Counting /\ Config(k) # Nil)
      BY <2>2, <3>1, <3>2, <3>4
    <3>. QED
      BY <3>3, <3>4
  <2>5. inside' \in [Kinds -> [Owners -> Nat]]
    <3>1. \A k \in Kinds : inside'[k] \in [Owners -> Nat]
      BY <2>2, <2>4
    <3>. QED
      BY <2>2, <3>1
  <2>6. ASSUME NEW k \in Bulkheads, NEW o \in Owners PROVE inside'[k][o] <= scenario.capacity
    <3>1. k \in Kinds /\ inside[k][o] \in Nat /\ inside[k][o] <= scenario.capacity
      BY <1>4 DEF InsideInv
    <3>. QED
      BY <1>4, <2>4, <3>1
  <2>. QED
    BY <1>1, <1>2, <1>3, <2>3, <2>5, <2>6 DEF InsideInv
<1>. QED
  BY <1>1, <1>6, <1>7, <1>8 DEF Moves

\* The counts are exact throughout.
LEMMA InsideInvariance == MachineSpec => []InsideInv
<1>1. MachineInit => InsideInv
  <2>. SUFFICES ASSUME MachineInit PROVE InsideInv
    OBVIOUS
  <2>1. \A k, o : Within(k, o) = {}
    BY DEF MachineInit, Init, Within
  <2>2. \A c \in Callers : Positioned(c)
    BY DEF MachineInit, Init, Positioned
  <2>3. /\ inside \in [Kinds -> [Owners -> Nat]]
        /\ \A k \in Kinds, o \in Owners : inside[k][o] = 0
    BY DEF MachineInit, Init
  <2>4. scenario.capacity \in Nat /\ Counting \subseteq Kinds /\ Bulkheads \subseteq Kinds
    BY PipelineAssumption DEF MachineInit, Init, Scenario, Counting, Releasing, Bulkheads, Kinds
  <2>. QED
    BY <2>1, <2>2, <2>3, <2>4, FS_EmptySet DEF InsideInv, Exact
<1>2. Typed /\ ComposedInv /\ InsideInv /\ [MachineNext]_allVars => InsideInv'
  <2>. SUFFICES ASSUME Typed, ComposedInv, InsideInv, [MachineNext]_allVars
                PROVE  InsideInv'
    OBVIOUS
  <2>1. CASE UNCHANGED vars
    <3>1. /\ scenario' = scenario /\ inside' = inside /\ layers' = layers
          /\ at' = at /\ way' = way
      BY <2>1 DEF vars, shared
    <3>2. \A k : Config(k)' = Config(k) /\ Sheltered(k)' = Sheltered(k)
      BY <3>1 DEF Config, Given, Sheltered, Appended
    <3>3. \A k, o : Within(k, o)' = Within(k, o)
      BY <3>1, <3>2 DEF Within, Object, Owner
    <3>4. \A c \in Callers : Positioned(c)'
      BY <3>1 DEF InsideInv, Positioned, Layer
    <3>. QED
      BY <3>1, <3>2, <3>3, <3>4 DEF InsideInv, Exact
  <2>. QED
    BY <2>1, StepsOfCalls, InsideStep
<1>. QED
  BY <1>1, <1>2, TypesCorrect, ComposedCorrect, PTL DEF MachineSpec

\* Whatever the layers, however they are nested and shared, and through all
\* refusals, retries, cancelled waits and panics, a bulkhead and the limiter
\* know the calls inside of them; so do breaker and instrumenter where
\* recoverPanics is inside of them.
THEOREM InsideExactCorrect == MachineSpec => []InsideExact
<1>1. InsideInv => InsideExact
  <2>. SUFFICES ASSUME InsideInv, NEW k \in Counting, Config(k) # Nil, NEW o \in Owners
                PROVE  LET kept == inside[k][o] - Cardinality(Within(k, o))
                       IN  kept >= 0 /\ (k \in Releasing \/ Sheltered(k) => kept = 0)
    BY DEF InsideExact
  <2>1. Exact(k, o) /\ inside[k][o] \in Nat
    BY DEF InsideInv, Counting, Releasing, Bulkheads, Kinds
  <2>. QED
    BY <2>1, FS_CardinalityType DEF Exact
<1>. QED
  BY <1>1, InsideInvariance, PTL

-----------------------------------------------------------------------------
(* Bounds. *)

Less == {p \in Nat \X Nat : p[1] < p[2]}

\* Among finitely many positions one is the last.
LEMMA LastOf ==
    ASSUME NEW n \in Nat, NEW T, T \subseteq 1 .. n, T # {}
    PROVE  Max(T) \in T
<1>1. IsWellFoundedOn(Less, Nat)
  BY NatLessThanWellFounded DEF OpToRel, Less
<1>. DEFINE U == {n - i : i \in T}
<1>2. U \subseteq Nat /\ U # {}
  <2>1. PICK y \in T : TRUE
    OBVIOUS
  <2>2. n - y \in U
    BY <2>1
  <2>. QED
    BY <2>2
<1>3. PICK u \in U : \A v \in U : <<v, u>> \notin Less
  BY <1>1, <1>2, WFMin
<1>4. ASSUME NEW v \in U PROVE u <= v
  <2>1. <<v, u>> \in Nat \X Nat /\ ~(<<v, u>>[1] < <<v, u>>[2])
    BY <1>2, <1>3 DEF Less
  <2>. QED
    BY <2>1
<1>5. PICK x \in T : u = n - x
  BY <1>3
<1>6. ASSUME NEW y \in T PROVE x >= y
  <2>1. n - y \in U
    OBVIOUS
  <2>2. n - x <= n - y /\ x \in Int /\ y \in Int
    BY <1>4, <1>5, <2>1
  <2>. QED
    BY <2>2
<1>. QED
  BY <1>6 DEF Max

\* MaxAttempts is what the last option for it says, or the default.
LEMMA LimitIsNat == ASSUME Typed PROVE Config("retry") \in Nat
<1>1. scenario.options \in Seq([kind : Kinds, value : Nat])
  BY PipelineAssumption DEF Typed, Scenario
<1>. DEFINE n == Len(scenario.options)
<1>2. n \in Nat /\ DOMAIN scenario.options = 1 .. n
  BY <1>1
<1>3. ASSUME Given("retry") # {} PROVE scenario.options[Max(Given("retry"))].value \in Nat
  <2>1. Given("retry") \subseteq 1 .. n
    BY <1>2 DEF Given
  <2>2. Max(Given("retry")) \in 1 .. n
    BY <1>2, <1>3, <2>1, LastOf
  <2>3. scenario.options[Max(Given("retry"))] \in [kind : Kinds, value : Nat]
    BY <1>1, <1>2, <2>2, ElementOfSeq
  <2>. QED
    BY <2>3
<1>4. DefaultConfig["retry"] \in Nat
  BY DEF DefaultConfig, Kinds
<1>. QED
  BY <1>3, <1>4 DEF Config

\* A loop that sleeps has an attempt left.
BoundedFor(c) ==
    /\ \A d \in DOMAIN layers[c] : loops[c][d].attempt <= Config("retry")
    /\ way[c] = "sleep" => Loop(c).attempt < Config("retry")
    /\ \A x \in over[c] : x = 0 \/ (x \in DOMAIN layers[c] /\ layers[c][x] = "timeout")

BoundsInv ==
    /\ DOMAIN over = Callers
    /\ \A c \in Callers : BoundedFor(c)
    /\ panics \in 0 .. MaxPanics

\* Every step keeps the bounds.
LEMMA BoundsStep ==
    ASSUME Typed, ComposedInv, InsideInv, BoundsInv, NEW c \in Callers, Step(c)
    PROVE  BoundsInv'
<1>. USE DEF Becomes
<1>1. /\ scenario' = scenario /\ (\A x \in Callers \ {c} : Kept(x))
      /\ Config("retry")' = Config("retry") /\ Config("retry") \in Nat
  BY StepTyped, LimitIsNat DEF Config, Given
<1>2. /\ layers[c] \in Seq(Kinds) /\ Len(layers[c]) \in Nat
      /\ DOMAIN layers[c] = 1 .. Len(layers[c])
      /\ at[c] \in Int /\ at \in [Callers -> Int] /\ way \in [Callers -> Ways]
      /\ DOMAIN layers = Callers /\ DOMAIN loops = Callers /\ DOMAIN over = Callers
      /\ loops[c] \in [DOMAIN layers[c] -> Frame]
      /\ Positioned(c) /\ BoundedFor(c)
  BY LayersAreSeqs DEF Typed, InsideInv, BoundsInv
<1>3. MaxPanics \in Nat /\ panics \in 0 .. MaxPanics
  BY PipelineAssumption DEF BoundsInv
<1>. SUFFICES /\ BoundedFor(c)'
              /\ DOMAIN over' = Callers
              /\ \A x \in Callers \ {c} : over'[x] = over[x]
              /\ panics' \in 0 .. MaxPanics
  BY <1>1 DEF BoundsInv, BoundedFor, Kept, Loop
<1>a. ASSUME NEW l \in Frame, l.attempt <= Config("retry"), at[c] \in DOMAIN layers[c],
             SetLoop(c, l), layers' = layers
      PROVE  \A d \in DOMAIN layers'[c] : loops'[c][d].attempt <= Config("retry")
  BY <1>2, <1>a DEF SetLoop, BoundedFor
<1>b. NoLoop \in Frame /\ NoLoop.attempt = 0 /\ <<>> \in Seq(Classes)
  BY DEF NoLoop, Frame
<1>4. CASE Arrive(c) \/ FindNone(c) \/ Begin(c)
  BY <1>1, <1>2, <1>3, <1>4 DEF Arrive, FindNone, Begin, BoundedFor
<1>5. CASE BeginHedged(c) \/ FindComposed(c) \/ Compose(c)
  <2>1. PICK p : EnterPipeline(c, p)
    BY <1>5 DEF BeginHedged, FindComposed, Compose
  <2>2. over' = over /\ panics' = panics /\ way[c] \in {"waiting", "lookup", "compose"}
    BY <1>5 DEF BeginHedged, FindComposed, Compose
  <2>3. layers[c] = <<>> /\ DOMAIN <<>> = {}
    BY <1>2, <2>2 DEF Positioned
  <2>4. \A x \in over[c] : x = 0
    BY <1>2, <2>3 DEF BoundedFor
  <2>. QED
    BY <1>1, <1>2, <1>3, <1>b, <2>1, <2>2, <2>4 DEF EnterPipeline, BoundedFor
<1>6. CASE Expire(c)
  <2>1. PICK x \in {0} \cup {d \in 1 .. at[c] - 1 : layers[c][d] = "timeout"} :
            over' = [over EXCEPT ![c] = @ \cup {x}]
    BY <1>6 DEF Expire
  <2>2. at[c] <= Len(layers[c]) + 1
    BY <1>2, <1>6 DEF Positioned, Ways
  <2>3. x = 0 \/ (x \in DOMAIN layers[c] /\ layers[c][x] = "timeout")
    BY <1>2, <2>1, <2>2
  <2>. QED
    BY <1>1, <1>2, <1>3, <1>6, <2>1, <2>3 DEF Expire, BoundedFor, Loop
<1>7. CASE Pass(c)
  BY <1>1, <1>2, <1>3, <1>7 DEF Pass, Inward, BoundedFor
<1>8. CASE Refuse(c)
  BY <1>1, <1>2, <1>3, <1>8 DEF Refuse, Outward, BoundedFor
<1>9. CASE FallBack(c)
  BY <1>1, <1>2, <1>3, <1>9 DEF FallBack, Before, BoundedFor
<1>10. CASE Leave(c)
  BY <1>1, <1>2, <1>3, <1>10 DEF Leave, Outward, Leaving, BoundedFor
<1>11. CASE Unwind(c)
  <2>1. /\ SetLoop(c, NoLoop) /\ layers' = layers /\ way' = way /\ panics' = panics
        /\ way[c] = "panic" /\ at[c] \in DOMAIN layers[c]
        /\ over' = [over EXCEPT ![c] = @ \ {at[c]}]
    BY <1>11 DEF Unwind, Before, Leaving
  <2>2. \A d \in DOMAIN layers'[c] : loops'[c][d].attempt <= Config("retry")
    BY <1>1, <1>a, <1>b, <2>1
  <2>. QED
    BY <1>1, <1>2, <1>3, <2>1, <2>2 DEF BoundedFor
<1>12. CASE Recover(c)
  BY <1>1, <1>2, <1>3, <1>12 DEF Recover, Outward, BoundedFor
<1>13. CASE NoAttempt(c)
  BY <1>1, <1>2, <1>3, <1>13 DEF NoAttempt, Outward, BoundedFor
<1>14. CASE FirstAttempt(c) \/ WakeUp(c)
  <2>1. at[c] \in DOMAIN layers[c]
    BY <1>14 DEF FirstAttempt, WakeUp, Before
  <2>2. Loop(c) \in Frame
    BY <1>2, <2>1 DEF Loop
  <2>3. PICK l \in Frame : SetLoop(c, l) /\ l.attempt <= Config("retry")
    <3>1. CASE FirstAttempt(c)
      <4>1. [attempt |-> 1, errs |-> <<>>] \in Frame
        BY <1>b DEF Frame
      <4>. QED
        BY <1>1, <3>1, <4>1 DEF FirstAttempt
    <3>2. CASE WakeUp(c)
      <4>1. [Loop(c) EXCEPT !.attempt = @ + 1] \in Frame
        BY <2>2 DEF Frame
      <4>2. Loop(c).attempt < Config("retry") /\ Loop(c).attempt \in Nat
        BY <1>2, <2>2, <3>2 DEF WakeUp, Before, BoundedFor, Frame
      <4>3. [Loop(c) EXCEPT !.attempt = @ + 1].attempt = Loop(c).attempt + 1
        BY <2>2 DEF Frame
      <4>4. SetLoop(c, [Loop(c) EXCEPT !.attempt = @ + 1])
        BY <3>2 DEF WakeUp
      <4>5. [Loop(c) EXCEPT !.attempt = @ + 1].attempt <= Config("retry")
        BY <1>1, <4>2, <4>3
      <4>. QED
        BY ONLY <4>1, <4>4, <4>5
    <3>. QED
      BY <1>14, <3>1, <3>2
  <2>4. /\ layers' = layers /\ way'[c] = "in" /\ over' = over /\ panics' = panics
    BY <1>2, <1>14 DEF FirstAttempt, WakeUp, Inward
  <2>5. \A d \in DOMAIN layers'[c] : loops'[c][d].attempt <= Config("retry")
    BY <1>1, <1>a, <2>1, <2>3, <2>4
  <2>. QED
    BY <1>1, <1>2, <1>3, <2>4, <2>5 DEF BoundedFor
<1>15. CASE Succeed(c) \/ GiveUp(c) \/ SleepCancelled(c)
  <2>1. /\ SetLoop(c, NoLoop) /\ layers' = layers /\ way'[c] = "out"
        /\ over' = over /\ panics' = panics /\ at[c] \in DOMAIN layers[c]
    BY <1>2, <1>15 DEF Succeed, GiveUp, SleepCancelled, Outward, Before
  <2>2. \A d \in DOMAIN layers'[c] : loops'[c][d].attempt <= Config("retry")
    BY <1>1, <1>a, <1>b, <2>1
  <2>. QED
    BY <1>1, <1>2, <1>3, <2>1, <2>2 DEF BoundedFor
<1>16. CASE FallAsleep(c)
  <2>. DEFINE l == [Loop(c) EXCEPT !.errs = @ \o err[c]]
  <2>1. /\ SetLoop(c, l) /\ layers' = layers /\ way'[c] = "sleep" /\ at' = at
        /\ over' = over /\ panics' = panics /\ at[c] \in DOMAIN layers[c] /\ ~MustStop(c)
    BY <1>2, <1>16 DEF FallAsleep, Before
  <2>2. Loop(c) \in Frame /\ err[c] \in Seq(Classes)
    BY <1>2, <2>1 DEF Loop, Typed
  <2>3. Loop(c).attempt \in Nat /\ Loop(c).errs \in Seq(Classes)
    BY <2>2 DEF Frame
  <2>4. l \in Frame /\ l.attempt = Loop(c).attempt
    <3>1. Loop(c).errs \o err[c] \in Seq(Classes)
      BY <2>2, <2>3, ConcatProperties
    <3>. QED
      BY <2>2, <3>1 DEF Frame
  <2>5. l.attempt < Config("retry")
    BY <1>1, <2>1, <2>3, <2>4 DEF MustStop
  <2>. HIDE DEF l
  <2>6. \A d \in DOMAIN layers'[c] : loops'[c][d].attempt <= Config("retry")
    BY <1>1, <1>a, <2>1, <2>3, <2>4, <2>5
  <2>7. Loop(c)' = l
    BY <1>2, <2>1 DEF SetLoop, Loop
  <2>. QED
    BY <1>1, <1>2, <1>3, <2>1, <2>5, <2>6, <2>7 DEF BoundedFor
<1>17. ASSUME NEW o \in scenario.outcomes, Run(c, o)
       PROVE  /\ BoundedFor(c)'
              /\ DOMAIN over' = Callers
              /\ \A x \in Callers \ {c} : over'[x] = over[x]
              /\ panics' \in 0 .. MaxPanics
  BY <1>1, <1>2, <1>3, <1>17 DEF Run, BoundedFor
<1>18. CASE Finish(c)
  BY <1>1, <1>2, <1>3, <1>18 DEF Finish, BoundedFor
<1>19. CASE Return(c)
  <2>1. DOMAIN <<>> = {}
    OBVIOUS
  <2>. QED
    BY <1>1, <1>2, <1>3, <1>19, <2>1 DEF Return, BoundedFor
<1>. QED
  BY <1>4, <1>5, <1>6, <1>7, <1>8, <1>9, <1>10, <1>11, <1>12, <1>13, <1>14, <1>15, <1>16,
     <1>17, <1>18, <1>19 DEF Step, Travel

\* What the machine itself holds.
MachineTyped ==
    /\ owner \in Callers \cup {"nobody"}
    /\ state \in States
    /\ result \in [Callers -> States]

\* The machine keeps its types.
LEMMA MachineTypedStep == MachineTyped /\ [MachineNext]_allVars => MachineTyped'
<1>. SUFFICES ASSUME MachineTyped, [MachineNext]_allVars PROVE MachineTyped'
  OBVIOUS
<1>1. ASSUME UNCHANGED machine PROVE MachineTyped'
  BY <1>1 DEF machine, MachineTyped
<1>2. Zero \in States /\ \A s \in States : Succ(s) \in States /\ (s + 1) % 3 \in States
  BY DEF Zero, States, Succ
<1>3. ASSUME NEW c \in Callers, Handle(c) PROVE MachineTyped'
  BY <1>2, <1>3 DEF Handle, MachineTyped
<1>4. ASSUME NEW c \in Callers, RunAction(c) PROVE MachineTyped'
  BY <1>2, <1>4 DEF RunAction, MachineTyped
<1>5. ASSUME NEW c \in Callers, EndCall(c) PROVE MachineTyped'
  BY <1>2, <1>5 DEF EndCall, MachineTyped
<1>. QED
  BY <1>1, <1>3, <1>4, <1>5 DEF MachineNext, Proceed, Call, allVars

\* Types and bounds: a bulkhead never holds more calls than it has room for, a
\* loop never goes past MaxAttempts, over any nesting of layers and any options.
THEOREM MachineTypeCorrect == MachineSpec => []MachineTypeOK
<1>. DEFINE Inv == InsideInv /\ BoundsInv /\ MachineTyped
<1>1. MachineInit => BoundsInv /\ MachineTyped
  <2>1. DOMAIN <<>> = {} /\ MaxPanics \in Nat
    BY PipelineAssumption
  <2>. QED
    BY <2>1 DEF MachineInit, Init, BoundsInv, BoundedFor, MachineTyped, States, Zero
<1>2. /\ Typed /\ ComposedInv /\ InsideInv /\ BoundsInv /\ MachineTyped
      /\ [MachineNext]_allVars
      => BoundsInv' /\ MachineTyped'
  <2>. SUFFICES ASSUME Typed, ComposedInv, InsideInv, BoundsInv, MachineTyped,
                       [MachineNext]_allVars
                PROVE  BoundsInv'
    BY MachineTypedStep
  <2>1. CASE UNCHANGED vars
    BY <2>1 DEF vars, shared, BoundsInv, BoundedFor, Loop, Config, Given
  <2>. QED
    BY <2>1, StepsOfCalls, BoundsStep
<1>3. Typed /\ ComposedInv /\ InsideInv /\ BoundsInv /\ MachineTyped => MachineTypeOK
  <2>. SUFFICES ASSUME Typed, ComposedInv, InsideInv, BoundsInv, MachineTyped
                PROVE  TypeOK
    BY DEF MachineTypeOK, MachineTyped
  <2>1. ASSUME NEW c \in Callers
        PROVE  /\ way[c] \in Ways
               /\ at[c] \in 0 .. Len(layers[c]) + 1
               /\ \A i \in DOMAIN layers[c] : layers[c][i] \in Kinds
               /\ \A i \in DOMAIN err[c] : err[c][i] \in Classes
               /\ \A d \in DOMAIN layers[c] : loops[c][d].attempt \in 0 .. Config("retry")
               /\ \A x \in over[c] : x = 0 \/ layers[c][x] = "timeout"
               /\ last[c] \in Lasts
    <3>1. /\ layers[c] \in Seq(Kinds) /\ Len(layers[c]) \in Nat
          /\ DOMAIN layers[c] = 1 .. Len(layers[c])
      BY LayersAreSeqs
    <3>2. way[c] \in Ways /\ last[c] \in Lasts /\ err[c] \in Seq(Classes)
          /\ loops[c] \in [DOMAIN layers[c] -> Frame] /\ Positioned(c) /\ BoundedFor(c)
      BY DEF Typed, InsideInv, BoundsInv
    <3>3. at[c] \in 0 .. Len(layers[c]) + 1
      BY <3>1, <3>2 DEF Positioned, Ways
    <3>4. \A d \in DOMAIN layers[c] : loops[c][d].attempt \in 0 .. Config("retry")
      BY <3>2, LimitIsNat DEF BoundedFor, Frame
    <3>5. /\ \A i \in DOMAIN layers[c] : layers[c][i] \in Kinds
          /\ \A i \in DOMAIN err[c] : err[c][i] \in Classes
      BY <3>1, <3>2, ElementOfSeq
    <3>. QED
      BY <3>2, <3>3, <3>4, <3>5 DEF BoundedFor
  <2>2. \A k \in Kinds, o \in Owners : inside[k][o] \in Nat
    BY DEF InsideInv
  <2>. QED
    BY <2>1, <2>2 DEF TypeOK, Typed, Lasts, InsideInv, BoundsInv
<1>. QED
  BY <1>1, <1>2, <1>3, TypesCorrect, ComposedCorrect, InsideInvariance, PTL DEF MachineSpec

-----------------------------------------------------------------------------
(* The machine and its pipeline implement CallContract. *)

\* What a step of one call is to the contract, its settings and the state of
\* the machine aside.
CallStep(c) ==
    \/ Phase(c)' = Phase(c) /\ last'[c] = last[c]
    \/ Phase(c) = "idle" /\ Phase(c)' = "calling" /\ last'[c] = "none"
    \/ Phase(c) = "calling" /\ last[c] \notin Verdicts
         /\ Phase(c)' = "acting" /\ last'[c] = last[c]
    \/ Phase(c) = "acting"
         /\ \/ Phase(c)' = "calling" /\ last'[c] \in Classes \cup {"ok"}
            \/ Phase(c)' = "unwinding" /\ last'[c] = "panic"
    \/ Phase(c) = "unwinding" /\ Phase(c)' = "calling" /\ last'[c] = "panicked"
    \/ Phase(c) = "calling" /\ Phase(c)' = "calling"
         /\ last'[c] \in Classes \cup {"answered"}
         /\ (last[c] \in Verdicts => last'[c] \in Contract!Fallbacks)
    \/ Phase(c) = "calling"
         /\ \/ last'[c] = last[c]
            \/ ~Contract!Successful(last[c]) /\ last'[c] \in Contract!Fallbacks
         /\ Phase(c)' = IF Contract!Successful(last'[c]) THEN "succeeded" ELSE "failed"

\* The steps of one call, its end aside.
Goes(c) ==
    \/ Arrive(c) \/ Expire(c) \/ Begin(c) \/ BeginHedged(c) \/ Travel(c)
    \/ \E o \in scenario.outcomes : Run(c, o)

\* Where a call is, by the way it goes, and after a step.
LEMMA Phases ==
    ASSUME Typed, ComposedInv, NEW c \in Callers
    PROVE  /\ way[c] = "idle" => Phase(c) = "idle"
           /\ way[c] \in {"waiting", "lookup", "compose", "sleep", "out"} => Phase(c) = "calling"
           /\ \A w, K : Before(c, w, K) /\ w = "in" => Phase(c) = "calling"
           /\ AtAction(c) => Phase(c) = "acting"
           /\ way[c] = "panic" => Phase(c) = "unwinding"
           /\ way[c] = "returned" =>
                Phase(c) = IF err[c] = <<>> THEN "succeeded" ELSE "failed"
           /\ way'[c] = "idle" => Phase(c)' = "idle"
           /\ way'[c] \in {"waiting", "lookup", "compose", "sleep", "out"} => Phase(c)' = "calling"
           /\ way'[c] = "in" => Phase(c)' \in {"calling", "acting"}
           /\ way'[c] = "panic" => Phase(c)' = "unwinding"
           /\ way'[c] = "returned" =>
                Phase(c)' = IF err'[c] = <<>> THEN "succeeded" ELSE "failed"
<1>1. Len(layers[c]) \in Nat /\ DOMAIN layers[c] = 1 .. Len(layers[c])
  BY LayersAreSeqs
<1>2. \A w, K : Before(c, w, K) => ~AtAction(c)
  BY <1>1 DEF Before, AtAction
<1>3. ASSUME NEW w, NEW K, Before(c, w, K), w = "in" PROVE Phase(c) = "calling"
  BY <1>2, <1>3 DEF Before, Phase
<1>. QED
  BY <1>3 DEF Phase, AtAction

\* Each step of a call but its last is one the contract knows.
LEMMA CallSteps ==
    ASSUME FinalInv, OutcomeInv, ComposedInv, ComposedInv', NEW c \in Callers, Goes(c)
    PROVE  CallStep(c)
<1>. USE DEF Becomes
<1>0. Step(c)
  BY DEF Goes, Step
<1>1. /\ Typed /\ Typed' /\ scenario' = scenario
      /\ FinalFor(c) /\ OutcomeFor(c)
      /\ FinalFor(c)' /\ OutcomeFor(c)'
  BY <1>0, StepTyped, FinalStep, OutcomeStep DEF FinalInv, OutcomeInv
<1>2. /\ way \in [Callers -> Ways] /\ last \in [Callers -> Lasts]
      /\ at \in [Callers -> Int] /\ err \in [Callers -> Seq(Classes)]
      /\ way' \in [Callers -> Ways] /\ last' \in [Callers -> Lasts]
  BY <1>1 DEF Typed
<1>3. Verdicts' = Verdicts /\ Config("retry")' = Config("retry")
  BY <1>1 DEF Verdicts, Config, Given
<1>a. ASSUME way[c] \in Inbound, way'[c] = "in", last'[c] = last[c], Phase(c) = "calling"
      PROVE  CallStep(c)
  <2>1. last[c] \notin Verdicts
    BY <1>1, <1>a DEF FinalFor
  <2>2. Phase(c)' \in {"calling", "acting"}
    BY <1>1, <1>a, Phases
  <2>. QED
    BY <1>a, <2>1, <2>2 DEF CallStep
<1>b. ASSUME Phase(c) = "calling", Phase(c)' = "calling", last'[c] = last[c]
      PROVE  CallStep(c)
  BY <1>b DEF CallStep
<1>c. ASSUME NEW e \in Classes, way[c] \in Inbound, way'[c] = "out", last'[c] = e,
             Phase(c) = "calling"
      PROVE  CallStep(c)
  <2>1. last[c] \notin Verdicts
    BY <1>1, <1>c DEF FinalFor
  <2>2. Phase(c)' = "calling"
    BY <1>1, <1>c, Phases
  <2>. QED
    BY <1>c, <2>1, <2>2 DEF CallStep
<1>4. CASE Arrive(c)
  <2>1. way[c] = "idle" /\ way'[c] = "waiting" /\ last'[c] = last[c] /\ last[c] = "none"
    BY <1>1, <1>2, <1>4 DEF Arrive, FinalFor
  <2>2. Phase(c) = "idle" /\ Phase(c)' = "calling"
    BY <1>1, <2>1, Phases
  <2>. QED
    BY <2>1, <2>2 DEF CallStep
<1>5. CASE Expire(c)
  BY <1>5 DEF Expire, Phase, AtAction, CallStep
<1>6. CASE Begin(c) \/ FindNone(c)
  <2>1. /\ way[c] \in {"waiting", "lookup"} /\ way'[c] \in {"lookup", "compose"}
        /\ last'[c] = last[c]
    BY <1>2, <1>6 DEF Begin, FindNone
  <2>. QED
    BY <1>1, <1>b, <2>1, Phases
<1>7. CASE BeginHedged(c) \/ FindComposed(c) \/ Compose(c)
  <2>1. /\ way[c] \in {"waiting", "lookup", "compose"} /\ way'[c] = "in"
        /\ last'[c] = last[c]
    BY <1>2, <1>7 DEF BeginHedged, FindComposed, Compose, EnterPipeline
  <2>. QED
    BY <1>1, <1>a, <2>1, Phases DEF Inbound
<1>8. CASE Pass(c) \/ FirstAttempt(c) \/ WakeUp(c)
  <2>1. /\ way[c] \in Inbound /\ way'[c] = "in" /\ last'[c] = last[c]
        /\ \E w, K : Before(c, w, K) /\ w \in {"in", "sleep"}
    BY <1>2, <1>8 DEF Pass, FirstAttempt, WakeUp, Inward, Before, Inbound
  <2>2. Phase(c) = "calling"
    BY <1>1, <2>1, Phases DEF Before
  <2>. QED
    BY <1>a, <2>1, <2>2
<1>9. CASE Refuse(c)
  <2>1. PICK e \in Classes : Outward(c, <<e>>) /\ last' = [last EXCEPT ![c] = e]
    BY <1>9 DEF Refuse
  <2>2. way[c] \in Inbound /\ way'[c] = "out" /\ last'[c] = e /\ Phase(c) = "calling"
    BY <1>1, <1>2, <1>9, <2>1, Phases DEF Refuse, Before, Outward, Inbound
  <2>. QED
    BY <1>c, <2>2
<1>10. CASE SleepCancelled(c)
  <2>1. way[c] \in Inbound /\ way'[c] = "out" /\ last'[c] = "ctx" /\ way[c] = "sleep"
    BY <1>2, <1>10 DEF SleepCancelled, Before, Outward, Inbound
  <2>2. Phase(c) = "calling"
    BY <1>1, <2>1, Phases
  <2>. QED
    BY <1>c, <2>1, <2>2 DEF Classes
<1>11. CASE FallBack(c)
  <2>1. PICK e \in {<<>>, <<"odd">>} : Answer(c, e)
    BY <1>11 DEF FallBack
  <2>2. way[c] = "out" /\ way'[c] = "out" /\ last'[c] \in {"answered", "odd"}
    BY <1>2, <1>11, <2>1 DEF FallBack, Before, Answer
  <2>3. Phase(c) = "calling" /\ Phase(c)' = "calling"
    BY <1>1, <2>2, Phases
  <2>. QED
    BY <2>2, <2>3 DEF CallStep, Contract!Fallbacks, Classes
<1>12. CASE Leave(c) \/ NoAttempt(c) \/ Succeed(c) \/ GiveUp(c)
  <2>1. /\ way'[c] = "out" /\ last'[c] = last[c]
        /\ \E w, K : Before(c, w, K) /\ w \in {"in", "out"}
    BY <1>2, <1>12 DEF Leave, NoAttempt, Succeed, GiveUp, Outward
  <2>2. Phase(c) = "calling" /\ Phase(c)' = "calling"
    BY <1>1, <2>1, Phases DEF Before
  <2>. QED
    BY <1>b, <2>1, <2>2
<1>13. CASE FallAsleep(c)
  <2>1. way[c] = "out" /\ way'[c] = "sleep" /\ last'[c] = last[c]
    BY <1>2, <1>13 DEF FallAsleep, Before
  <2>. QED
    BY <1>1, <1>b, <2>1, Phases
<1>14. CASE Unwind(c)
  <2>1. way[c] = "panic" /\ way'[c] = "panic" /\ last'[c] = last[c]
    BY <1>2, <1>14 DEF Unwind, Before
  <2>2. Phase(c) = "unwinding" /\ Phase(c)' = "unwinding"
    BY <1>1, <2>1, Phases
  <2>. QED
    BY <2>1, <2>2 DEF CallStep
<1>15. CASE Recover(c)
  <2>1. way[c] = "panic" /\ way'[c] = "out" /\ last'[c] = "panicked"
    BY <1>2, <1>15 DEF Recover, Before, Outward
  <2>2. Phase(c) = "unwinding" /\ Phase(c)' = "calling"
    BY <1>1, <2>1, Phases
  <2>. QED
    BY <2>1, <2>2 DEF CallStep
<1>16. ASSUME NEW o \in scenario.outcomes, Run(c, o) PROVE CallStep(c)
  <2>1. o \in Classes \cup {"ok", "panic"}
    BY <1>1, PipelineAssumption DEF Scenario, Typed
  <2>2. Phase(c) = "acting" /\ last'[c] = o
    BY <1>1, <1>2, <1>16, <2>1, Phases DEF Run, Lasts
  <2>3. CASE o = "panic"
    <3>1. Phase(c)' = "unwinding"
      BY <1>1, <1>2, <1>16, <2>3, Phases DEF Run
    <3>. QED
      BY <2>2, <2>3, <3>1 DEF CallStep
  <2>4. CASE o # "panic"
    <3>1. Phase(c)' = "calling"
      BY <1>1, <1>2, <1>16, <2>4, Phases DEF Run
    <3>. QED
      BY <2>1, <2>2, <2>4, <3>1 DEF CallStep
  <2>. QED
    BY <2>3, <2>4
<1>17. CASE Finish(c)
  <2>1. way[c] = "out" /\ way'[c] = "returned" /\ Phase(c) = "calling"
    BY <1>1, <1>2, <1>17, Phases DEF Finish
  <2>2. Agrees(c) /\ Agrees(c)'
    BY <1>1, <2>1 DEF OutcomeFor
  <2>3. Phase(c)' = IF err'[c] = <<>> THEN "succeeded" ELSE "failed"
    BY <1>1, <2>1, Phases
  <2>4. \/ last'[c] = last[c] /\ err'[c] = err[c]
        \/ err[c] # <<>> /\ last'[c] \in Contract!Fallbacks /\ err'[c] \in {<<>>, <<"odd">>}
    <3>1. CASE Answerable(c)
      <4>1. PICK e \in {<<>>, <<"odd">>} : Answer(c, e)
        BY <1>17, <3>1 DEF Finish
      <4>. QED
        BY <1>2, <3>1, <4>1 DEF Answer, Answerable, Contract!Fallbacks
    <3>2. CASE ~Answerable(c)
      BY <1>17, <3>2 DEF Finish
    <3>. QED
      BY <3>1, <3>2
  <2>5. (err'[c] = <<>>) <=> Contract!Successful(last'[c])
    BY <1>1, <1>3, <2>1, <2>2 DEF Agrees, Contract!Successful, OutcomeFor
  <2>6. err[c] # <<>> => ~Contract!Successful(last[c])
    BY <2>2 DEF Agrees, Contract!Successful
  <2>. QED
    BY <2>1, <2>3, <2>4, <2>5, <2>6 DEF CallStep
<1>. QED
  BY <1>4, <1>5, <1>6, <1>7, <1>8, <1>9, <1>10, <1>11, <1>12, <1>13, <1>14, <1>15, <1>16,
     <1>17 DEF Goes, Travel

\* What the machine is to the contract.
Moved == IF Machines THEN state ELSE Zero

\* Of the contract's variables a step of one call changes this call's.
LEMMA ContractSets ==
    ASSUME Typed, Typed', NEW c \in Callers, \A x \in Callers \ {c} : Kept(x)
    PROVE  Contract!Sets(c, Phase(c)', last'[c])
<1>1. \A x \in Callers \ {c} : Phase(x)' = Phase(x) /\ last'[x] = last[x]
  BY DEF Kept, Phase, AtAction
<1>2. last' = [last EXCEPT ![c] = last'[c]]
  BY <1>1 DEF Typed
<1>3. [x \in Callers |-> Phase(x)]' = [[x \in Callers |-> Phase(x)] EXCEPT ![c] = Phase(c)']
  BY <1>1
<1>. QED
  BY <1>2, <1>3 DEF Contract!Sets

\* The options, and with them the contract's settings, stay.
LEMMA SettingsStay ==
    ASSUME scenario' = scenario
    PROVE  UNCHANGED Contract!settings /\ Machines' = Machines
BY DEF Contract!settings, Verdicts, Config, Given, Machines, Handles

\* Whatever the contract knows as a step of a call is one of the contract.
LEMMA CallStepImplements ==
    ASSUME Typed, Typed', NEW c \in Callers, \A x \in Callers \ {c} : Kept(x),
           CallStep(c), scenario' = scenario, Moved' = Moved
    PROVE  [Contract!Next]_(Contract!vars)
<1>1. Contract!Sets(c, Phase(c)', last'[c])
  BY ContractSets
<1>2. UNCHANGED Contract!settings
  BY SettingsStay
<1>3. (IF Machines THEN state ELSE Zero)' = IF Machines THEN state ELSE Zero
  BY DEF Moved
<1>4. CASE Phase(c)' = Phase(c) /\ last'[c] = last[c]
  <2>1. \A x \in Callers : Phase(x)' = Phase(x) /\ last'[x] = last[x]
    BY <1>4 DEF Kept, Phase, AtAction
  <2>2. last' = last
    BY <2>1 DEF Typed
  <2>3. [x \in Callers |-> Phase(x)]' = [x \in Callers |-> Phase(x)]
    BY <2>1
  <2>. QED
    BY <1>2, <1>3, <2>2, <2>3 DEF Contract!vars
<1>5. ASSUME Contract!Enter(c) \/ Contract!Act(c) \/ Contract!Acted(c)
             \/ Contract!Recovered(c) \/ Contract!Hear(c) \/ Contract!Conclude(c)
      PROVE  [Contract!Next]_(Contract!vars)
  BY <1>2, <1>5 DEF Contract!Next, Contract!settings
<1>. DEFINE phase == [x \in Callers |-> Phase(x)]
<1>6. phase[c] = Phase(c)
  OBVIOUS
<1>7. CASE Phase(c) = "idle" /\ Phase(c)' = "calling" /\ last'[c] = "none"
  BY <1>1, <1>3, <1>5, <1>6, <1>7 DEF Contract!Enter
<1>8. CASE Phase(c) = "calling" /\ last[c] \notin Verdicts
             /\ Phase(c)' = "acting" /\ last'[c] = last[c]
  BY <1>1, <1>3, <1>5, <1>6, <1>8 DEF Contract!Act
<1>9. CASE Phase(c) = "acting"
         /\ \/ Phase(c)' = "calling" /\ last'[c] \in Classes \cup {"ok"}
            \/ Phase(c)' = "unwinding" /\ last'[c] = "panic"
  BY <1>1, <1>3, <1>5, <1>6, <1>9 DEF Contract!Acted
<1>10. CASE Phase(c) = "unwinding" /\ Phase(c)' = "calling" /\ last'[c] = "panicked"
  BY <1>1, <1>3, <1>5, <1>6, <1>10 DEF Contract!Recovered
<1>11. CASE Phase(c) = "calling" /\ Phase(c)' = "calling"
         /\ last'[c] \in Classes \cup {"answered"}
         /\ (last[c] \in Verdicts => last'[c] \in Contract!Fallbacks)
  BY <1>1, <1>3, <1>5, <1>6, <1>11 DEF Contract!Hear
<1>12. CASE Phase(c) = "calling"
         /\ \/ last'[c] = last[c]
            \/ ~Contract!Successful(last[c]) /\ last'[c] \in Contract!Fallbacks
         /\ Phase(c)' = IF Contract!Successful(last'[c]) THEN "succeeded" ELSE "failed"
  BY <1>1, <1>3, <1>5, <1>6, <1>12 DEF Contract!Conclude
<1>. QED
  BY <1>4, <1>7, <1>8, <1>9, <1>10, <1>11, <1>12 DEF CallStep

\* The end of a call is the contract's Leave: an event that returns nil was
\* the last to read the state it moves.
LEMMA EndImplements ==
    ASSUME OutcomeInv, ComposedInv, EventsInv, NEW c \in Callers, EndCall(c)
    PROVE  [Contract!Next]_(Contract!vars)
<1>1. Typed /\ Typed' /\ scenario' = scenario /\ (\A x \in Callers \ {c} : Kept(x))
  BY StepTyped DEF OutcomeInv, EndCall, Step
<1>2. way[c] \in {"returned", "panic"} /\ way'[c] = "idle" /\ last'[c] = "none"
  BY <1>1 DEF EndCall, Return, Becomes, Typed
<1>3. Phase(c) = IF way[c] = "panic" THEN "unwinding"
                 ELSE IF err[c] = <<>> THEN "succeeded" ELSE "failed"
  BY <1>1, <1>2, Phases
<1>4. Phase(c)' = "idle"
  BY <1>1, <1>2, Phases
<1>5. Contract!Sets(c, "idle", "none")
  BY <1>1, <1>2, <1>4, ContractSets
<1>6. UNCHANGED Contract!settings /\ Machines' = Machines
  BY <1>1, SettingsStay
<1>7. CASE ~Machines
  <2>1. (IF Machines THEN state ELSE Zero)' = (IF Machines THEN state ELSE Zero)
    BY <1>6, <1>7
  <2>2. Contract!Leave(c)
    BY <1>2, <1>3, <1>5, <1>7, <2>1 DEF Contract!Leave
  <2>. QED
    BY <1>6, <2>2 DEF Contract!Next, Contract!settings
<1>8. CASE Machines
  <2>1. Phase(c) = "succeeded" => result[c] = Succ(state)
    <3>1. Phase(c) = "succeeded" => way[c] = "returned" /\ err[c] = <<>>
      BY <1>2, <1>3
    <3>2. Config("retry") # 0
      BY <1>8 DEF Machines
    <3>3. way[c] = "returned" /\ err[c] = <<>> => last[c] \in {"ok", "answered"}
      BY <3>2 DEF OutcomeInv, OutcomeFor, Agrees
    <3>. QED
      BY <1>8, <3>1, <3>3 DEF EventsInv, HandlingFor
  <2>2. state' = IF Phase(c) = "succeeded" THEN (state + 1) % 3 ELSE state
    BY <1>2, <1>3, <1>8, <2>1 DEF EndCall, Machines, Succ
  <2>3. (IF Machines THEN state ELSE Zero)' = state' /\ (IF Machines THEN state ELSE Zero) = state
    BY <1>6, <1>8
  <2>4. Contract!Leave(c)
    BY <1>2, <1>3, <1>5, <1>8, <2>2, <2>3 DEF Contract!Leave
  <2>. QED
    BY <1>6, <2>4 DEF Contract!Next, Contract!settings
<1>. QED
  BY <1>7, <1>8

\* Whatever layers the options make, in whatever order, and whoever shares
\* them, every call keeps the contract; so does every event of a machine,
\* which moves the state exactly once when Handle returns nil.
THEOREM RefinesCallContractCorrect == MachineSpec => RefinesCallContract
<1>1. MachineInit => Contract!Init
  <2>. SUFFICES ASSUME MachineInit PROVE Contract!Init
    OBVIOUS
  <2>1. [x \in Callers |-> Phase(x)] = [x \in Callers |-> "idle"]
    BY DEF MachineInit, Init, Phase, AtAction
  <2>. QED
    BY <2>1 DEF MachineInit, Init, Contract!Init, Zero
<1>2. /\ FinalInv /\ OutcomeInv /\ ComposedInv /\ ComposedInv' /\ EventsInv
      /\ [MachineNext]_allVars
      => [Contract!Next]_(Contract!vars)
  <2>. SUFFICES ASSUME FinalInv, OutcomeInv, ComposedInv, ComposedInv', EventsInv,
                       [MachineNext]_allVars
                PROVE  [Contract!Next]_(Contract!vars)
    OBVIOUS
  <2>1. Typed
    BY DEF FinalInv
  <2>2. CASE UNCHANGED allVars
    BY <2>2 DEF allVars, vars, shared, machine, Contract!vars, Contract!settings, Phase,
       AtAction, Verdicts, Config, Given, Machines, Handles
  <2>3. ASSUME NEW c \in Callers, Goes(c), state' = state
        PROVE  [Contract!Next]_(Contract!vars)
    <3>1. Typed' /\ scenario' = scenario /\ (\A x \in Callers \ {c} : Kept(x))
      BY <2>1, <2>3, StepTyped DEF Goes, Step
    <3>2. CallStep(c)
      BY <2>3, CallSteps
    <3>3. Moved' = Moved
      BY <2>3, <3>1, SettingsStay DEF Moved, Zero
    <3>. QED
      BY <2>1, <3>1, <3>2, <3>3, CallStepImplements
  <2>4. ASSUME NEW c \in Callers, EndCall(c) PROVE [Contract!Next]_(Contract!vars)
    BY <2>4, EndImplements
  <2>5. ASSUME NEW c \in Callers,
               \/ (Arrive(c) \/ Expire(c) \/ Travel(c)) /\ UNCHANGED machine
               \/ Handle(c) \/ Call(c) \/ RunAction(c)
        PROVE  Goes(c) /\ state' = state
    BY <2>5 DEF Goes, Handle, Call, RunAction, machine
  <2>. QED
    BY <2>2, <2>3, <2>4, <2>5 DEF MachineNext, Proceed
<1>. QED
  BY <1>1, <1>2, FinalCorrect, OutcomesCorrect, ComposedCorrect, EventsCorrect, PTL
     DEF MachineSpec, RefinesCallContract, Contract!Spec

=============================================================================
