---------------------------- MODULE EvalPoolProofs ----------------------------
(***************************************************************************)
(* For every number of evals and jobs, every set of stale baselines and of *)
(* judged evals: what runEvals returns without an error is complete, an    *)
(* interrupt that cuts an agent short discards the unit, and the pool      *)
(* implements the atomic unit of the sweep.                                *)
(*                                                                         *)
(* The return is complete only because of where the goroutines are when    *)
(* g.Wait lets it happen, and the interrupt discards the unit only because *)
(* an eval that still needs an agent can no longer get past it.  EvalInv   *)
(* says both for every moment before the return.                           *)
(***************************************************************************)
EXTENDS EvalPool, TLAPS

\* What a return answers, from the goroutines' error and the outcomes.
Answer == IF groupErr THEN "error" ELSE IF FailedAny THEN "failed" ELSE "ok"

\* The launching loop has started the evals before next and no other; it and
\* g.Wait return only with no goroutine left.
Launching ==
    /\ \A e \in Evals : e < next <=> stage[e] # "queued"
    /\ main # "launch" => next = NEvals + 1
    /\ main = "returned" => Active = {}
    /\ IF main = "returned" THEN result = Answer ELSE result = "none"

\* Each goroutine: its error is the group's, its outcome is recorded exactly
\* when it is done, and the skill run starts once a stale baseline is there.
Goroutines ==
    \A e \in Evals :
        /\ stage[e] = "failed" => groupErr
        /\ stage[e] = "done" <=> entry[e] # "none"
        /\ stage[e] \in {"baseline", "grading baseline"} => e \in Stale
        /\ baseline[e] # "none" => e \in Stale
        /\ e \in Stale /\ stage[e] \in {"skill", "grading", "done"}
               => baseline[e] # "none"

\* An eval that still needed an agent at the Ctrl-C never gets past it.
Stuck ==
    /\ ctx = "live" => cutShort = {}
    /\ \A e \in cutShort :
           stage[e] \in {"queued", "baseline", "grading baseline", "skill", "failed"}

EvalInv == TypeOK /\ Launching /\ Goroutines /\ Stuck

-----------------------------------------------------------------------------
\* Before the first launch every eval is queued and nothing is recorded.
LEMMA InitEval == Init => EvalInv
<1> SUFFICES ASSUME Init PROVE EvalInv
  OBVIOUS
<1> USE EvalPoolAssumption DEF Init
<1>1. TypeOK
  <2>1. next \in 1 .. (NEvals + 1)
    BY DEF Evals
  <2>2. stage \in [Evals -> Stages]
    BY DEF Stages
  <2>3. groupErr \in BOOLEAN
    BY Zenon
  <2> QED BY <2>1, <2>2, <2>3 DEF TypeOK
<1>2. Launching
  BY DEF Launching, Active, AgentStages, GradeStages, Evals
<1>3. Goroutines /\ Stuck
  BY DEF Goroutines, Stuck
<1> QED BY <1>1, <1>2, <1>3 DEF EvalInv

\* Launch: the next eval leaves the queue for its baseline or its skill run.
LEMMA LaunchEval ==
    ASSUME EvalInv, Launch
    PROVE  EvalInv'
<1> USE DEF EvalInv
<1>1. next \in Evals /\ next' = next + 1 /\ main = "launch" /\ stage[next] = "queued"
  <2>1. next \in Evals /\ next' = next + 1 /\ main = "launch"
    BY DEF Launch, CanLaunch
  <2>2. ~(next < next)
    BY <2>1, EvalPoolAssumption DEF Evals
  <2> QED BY <2>1, <2>2 DEF Launching
<1>2. FirstStage(next) \in {"baseline", "skill"}
      /\ (FirstStage(next) = "baseline" => next \in Stale)
      /\ (FirstStage(next) = "skill" => next \notin Stale)
  BY DEF FirstStage
<1>3. \A e \in Evals : stage'[e] = IF e = next THEN FirstStage(next) ELSE stage[e]
  BY DEF Launch, TypeOK
<1>4. UNCHANGED <<main, baseline, entry, groupErr, ctx, result, cutShort, guessed>>
  BY DEF Launch, history
<1>5. TypeOK'
  <2>1. stage' \in [Evals -> Stages]
    BY <1>2 DEF Launch, TypeOK, Stages, AgentStages
  <2>2. next' \in 1 .. (NEvals + 1)
    BY <1>1, EvalPoolAssumption DEF Evals
  <2> QED BY <1>4, <2>1, <2>2 DEF TypeOK
<1>6. Launching'
  <2>1. \A e \in Evals : e < next' <=> stage'[e] # "queued"
    BY <1>1, <1>2, <1>3, EvalPoolAssumption DEF Launching, Evals
  <2> QED BY <1>1, <1>4, <2>1 DEF Launching
<1>7. Goroutines'
  BY <1>1, <1>2, <1>3, <1>4 DEF Goroutines
<1>8. Stuck'
  BY <1>2, <1>3, <1>4 DEF Stuck, TypeOK
<1> QED BY <1>5, <1>6, <1>7, <1>8

\* A goroutine that is at work moves on: it is past the queue, main has not
\* returned, and an eval cut short stays among those that get no outcome.
LEMMA WorkerEval ==
    ASSUME EvalInv, NEW e \in Evals, Worker(e)
    PROVE  EvalInv'
<1> USE DEF EvalInv
<1>1. stage[e] \in AgentStages \cup GradeStages
  BY DEF Worker, AgentReturns, RuntimeError, AgentErrs, Grade, SessionEnds
<1>2. main # "returned" /\ UNCHANGED <<main, next, ctx, result, cutShort>>
  <2>1. e \in Active
    BY <1>1 DEF Active
  <2> QED BY <2>1 DEF Launching, Worker, AgentReturns, RuntimeError, AgentErrs,
                      Grade, history
<1>3. /\ \A d \in Evals \ {e} : /\ stage'[d] = stage[d] /\ entry'[d] = entry[d]
                                /\ baseline'[d] = baseline[d]
      /\ groupErr => groupErr'
  BY DEF TypeOK, Worker, AgentReturns, RuntimeError, AgentErrs, Grade, Record
<1>4. \/ /\ stage[e] \in AgentStages /\ ~Cancelled
         /\ stage'[e] = IF stage[e] = "baseline" THEN "grading baseline" ELSE "grading"
         /\ entry'[e] = entry[e] /\ baseline'[e] = baseline[e]
      \/ /\ stage[e] \in AgentStages
         /\ stage'[e] = "failed" /\ groupErr'
         /\ entry'[e] = entry[e] /\ baseline'[e] = baseline[e]
      \/ /\ stage[e] = "baseline" \/ stage[e] = "grading baseline"
         /\ stage'[e] = "skill"
         /\ entry'[e] = entry[e] /\ baseline'[e] \in Outcomes
      \/ /\ (stage[e] = "skill" /\ ~Cancelled) \/ stage[e] = "grading"
         /\ stage'[e] = "done"
         /\ entry'[e] \in Outcomes /\ baseline'[e] = baseline[e]
  <2>1. CASE AgentReturns(e)
    BY <2>1 DEF AgentReturns, SessionEnds, TypeOK
  <2>2. CASE AgentErrs(e)
    BY <2>2 DEF AgentErrs, TypeOK
  <2>3. CASE RuntimeError(e)
    BY <2>3 DEF RuntimeError, SessionEnds, Record, TypeOK, AgentStages, Outcomes
  <2>4. ASSUME NEW v \in {"pass", "fail"}, Grade(e, v)
        PROVE  \/ /\ stage[e] = "grading baseline" /\ stage'[e] = "skill"
                  /\ entry'[e] = entry[e] /\ baseline'[e] \in Outcomes
               \/ /\ stage[e] = "grading" /\ stage'[e] = "done"
                  /\ entry'[e] \in Outcomes /\ baseline'[e] = baseline[e]
    BY <2>4 DEF Grade, Record, TypeOK, GradeStages, Outcomes
  <2> QED BY <2>1, <2>2, <2>3, <2>4 DEF Worker
<1>5. TypeOK'
  <2>1. /\ stage' \in [Evals -> Stages]
        /\ baseline' \in [Evals -> {"none"} \cup Outcomes]
        /\ entry' \in [Evals -> {"none"} \cup Outcomes]
    BY DEF TypeOK, Worker, AgentReturns, RuntimeError, AgentErrs, Grade, Record,
           Stages, AgentStages, GradeStages, Outcomes
  <2>2. groupErr' \in BOOLEAN /\ guessed' \subseteq Evals
    BY DEF TypeOK, Worker, AgentReturns, RuntimeError, AgentErrs, Grade, history
  <2> QED BY <1>2, <2>1, <2>2 DEF TypeOK
<1>6. Launching'
  <2>1. stage[e] # "queued" /\ stage'[e] # "queued"
    BY <1>1, <1>4 DEF AgentStages, GradeStages
  <2>2. \A d \in Evals : d < next' <=> stage'[d] # "queued"
    BY <1>2, <1>3, <2>1 DEF Launching
  <2> QED BY <1>2, <2>2 DEF Launching
<1>7. Goroutines'
  <2>1. \A d \in Evals \ {e} :
           /\ stage'[d] = "failed" => groupErr'
           /\ stage'[d] = "done" <=> entry'[d] # "none"
           /\ stage'[d] \in {"baseline", "grading baseline"} => d \in Stale
           /\ baseline'[d] # "none" => d \in Stale
           /\ d \in Stale /\ stage'[d] \in {"skill", "grading", "done"}
                  => baseline'[d] # "none"
    BY <1>3 DEF Goroutines
  <2>2. /\ stage'[e] = "failed" => groupErr'
        /\ stage'[e] = "done" <=> entry'[e] # "none"
        /\ stage'[e] \in {"baseline", "grading baseline"} => e \in Stale
        /\ baseline'[e] # "none" => e \in Stale
        /\ e \in Stale /\ stage'[e] \in {"skill", "grading", "done"}
               => baseline'[e] # "none"
    BY <1>4 DEF Goroutines, AgentStages, Outcomes
  <2> QED BY <2>1, <2>2 DEF Goroutines
<1>8. Stuck'
  <2>1. e \in cutShort => stage[e] # "grading" /\ Cancelled
    BY DEF Stuck, TypeOK, Cancelled
  <2>2. e \in cutShort => stage'[e] \in {"failed", "skill"}
    BY <1>4, <2>1
  <2> QED BY <1>2, <1>3, <2>2 DEF Stuck, TypeOK
<1> QED BY <1>5, <1>6, <1>7, <1>8

\* The end of the launching loop, the return of g.Wait, and the Ctrl-C move
\* no goroutine.
LEMMA MainEval ==
    ASSUME EvalInv, LoopDone \/ Return \/ Interrupt
    PROVE  EvalInv'
<1> USE EvalPoolAssumption DEF EvalInv
<1>1. UNCHANGED <<next, stage, baseline, entry, groupErr, guessed>>
  BY DEF LoopDone, Return, Interrupt, history
<1>2. TypeOK'
  <2>1. main' \in {"launch", "wait", "returned"} /\ ctx' \in {"live", "cancelled"}
    BY DEF TypeOK, LoopDone, Return, Interrupt, history
  <2>2. cutShort' \subseteq Evals
    BY DEF TypeOK, LoopDone, Return, Interrupt, history
  <2>3. result' \in {"none", "ok", "failed", "error"}
    BY DEF TypeOK, LoopDone, Return, Interrupt, history
  <2> QED BY <1>1, <2>1, <2>2, <2>3 DEF TypeOK
<1>3. Launching'
  <2>1. Active' = Active /\ (Answer' = Answer)
    BY <1>1 DEF Active, Answer, FailedAny
  <2>2. main' # "launch" => next' = NEvals + 1
    <3>1. CASE LoopDone
      BY <1>1, <3>1 DEF LoopDone, TypeOK, Evals
    <3>2. CASE Return \/ Interrupt
      BY <1>1, <3>2 DEF Launching, Return, Interrupt
    <3> QED BY <3>1, <3>2
  <2>3. main' = "returned" => Active' = {} /\ result' = Answer'
    BY <2>1 DEF LoopDone, Return, Drained, Interrupt, Answer, history
  <2>4. main' # "returned" => result' = "none"
    BY DEF Launching, LoopDone, Return, Interrupt
  <2> QED BY <1>1, <2>2, <2>3, <2>4 DEF Launching
<1>4. Goroutines'
  BY <1>1 DEF Goroutines
<1>5. Stuck'
  <2>1. CASE LoopDone \/ Return
    BY <1>1, <2>1 DEF LoopDone, Return, history, Stuck
  <2>2. CASE Interrupt
    BY <1>1, <2>2 DEF Interrupt, Stuck, AgentStages
  <2> QED BY <2>1, <2>2
<1> QED BY <1>2, <1>3, <1>4, <1>5

\* Every step keeps the invariant.
LEMMA StepEval == EvalInv /\ [Next]_vars => EvalInv'
<1> SUFFICES ASSUME EvalInv, [Next]_vars PROVE EvalInv'
  OBVIOUS
<1>1. CASE UNCHANGED vars
  BY <1>1 DEF vars, EvalInv, TypeOK, Launching, Goroutines, Stuck, Active, Answer,
              FailedAny
<1>2. CASE Next
  BY <1>1, <1>2, LaunchEval, WorkerEval, MainEval DEF Next, Loop, Done
<1> QED BY <1>1, <1>2

-----------------------------------------------------------------------------
\* At a return without error every goroutine is done.
LEMMA ReturnFollows ==
    ASSUME EvalInv
    PROVE  ReturnSound /\ InterruptDiscards
<1> SUFFICES ASSUME result \in {"ok", "failed"}
             PROVE  /\ \A e \in Evals : /\ entry[e] # "none"
                                        /\ e \in Stale <=> baseline[e] # "none"
                                        /\ result = "ok" => entry[e] = "pass"
                    /\ cutShort = {}
  BY DEF ReturnSound, InterruptDiscards
<1>1. main = "returned" /\ result = Answer
  BY DEF EvalInv, Launching
<1>2. ~groupErr /\ (result = "ok" => ~FailedAny)
  BY <1>1 DEF Answer
<1>3. \A e \in Evals : stage[e] = "done"
  <2> SUFFICES ASSUME NEW e \in Evals PROVE stage[e] = "done"
    OBVIOUS
  <2>1. stage[e] # "queued"
    BY <1>1, EvalPoolAssumption DEF EvalInv, Launching, Evals
  <2>2. stage[e] \notin AgentStages \cup GradeStages
    BY <1>1 DEF EvalInv, Launching, Active
  <2>3. stage[e] # "failed"
    BY <1>2 DEF EvalInv, Goroutines
  <2> QED BY <2>1, <2>2, <2>3 DEF EvalInv, TypeOK, Stages
<1>4. \A e \in Evals : entry[e] # "none" /\ (e \in Stale <=> baseline[e] # "none")
  BY <1>3 DEF EvalInv, Goroutines
<1>5. cutShort = {}
  BY <1>3 DEF EvalInv, Stuck, TypeOK
<1>6. result = "ok" => \A e \in Evals : entry[e] = "pass"
  BY <1>2 DEF FailedAny
<1> QED BY <1>4, <1>5, <1>6

\* The invariant of the pool: where the loop and each goroutine are, what is
\* recorded, and what an interrupt left behind.
THEOREM EvalInvariant == Spec => []EvalInv
BY InitEval, StepEval, PTL DEF Spec

\* The pool is type correct for all evals and jobs.
THEOREM EvalTypeCorrect == Spec => []TypeOK
<1>1. EvalInv => TypeOK
  BY DEF EvalInv
<1> QED BY <1>1, EvalInvariant, PTL

\* runEvals returns without an error only with the outcome of every eval and
\* the new baseline of every stale one, and its flag is right.
THEOREM EvalReturns == Spec => []ReturnSound
BY EvalInvariant, ReturnFollows, PTL

\* A Ctrl-C that comes while some eval still needs an agent discards the unit.
THEOREM EvalInterrupts == Spec => []InterruptDiscards
BY EvalInvariant, ReturnFollows, PTL

-----------------------------------------------------------------------------
\* The initial state of the pool is one of the abstract unit.
LEMMA UnitInit == Init => Unit!Init
BY DEF Init, Unit!Init

\* A goroutine's outcome is the abstract unit's run of that case, together
\* with the baseline recorded before; every other step of it is none.
LEMMA UnitWorker ==
    ASSUME EvalInv, NEW e \in Evals, Worker(e)
    PROVE  Unit!Next \/ UNCHANGED Unit!vars
<1>1. /\ result = "none" /\ UNCHANGED result
      /\ stage[e] \notin {"queued", "done"}
  <2>1. stage[e] \in AgentStages \cup GradeStages
    BY DEF Worker, AgentReturns, RuntimeError, AgentErrs, Grade, SessionEnds
  <2>2. e \in Active
    BY <2>1 DEF Active
  <2> QED BY <2>1, <2>2 DEF EvalInv, Launching, Worker, AgentReturns, RuntimeError,
                      AgentErrs, Grade, AgentStages, GradeStages
<1>2. entry[e] = "none"
  BY <1>1 DEF EvalInv, Goroutines
<1>3. CASE UNCHANGED <<entry, baseline>>
  BY <1>1, <1>3 DEF Unit!vars
<1>4. ASSUME NEW v \in Outcomes, stage[e] \in {"baseline", "grading baseline"},
             baseline' = [baseline EXCEPT ![e] = v], UNCHANGED entry
      PROVE  UNCHANGED Unit!vars
  <2>1. \A d \in Evals : (entry'[d] # "none" /\ baseline'[d] # "none")
                            <=> (entry[d] # "none" /\ baseline[d] # "none")
    BY <1>2, <1>4 DEF EvalInv, TypeOK
  <2> QED BY <1>1, <1>4, <2>1 DEF Unit!vars
<1>5. ASSUME NEW v \in Outcomes, stage[e] \in {"skill", "grading"},
             entry' = [entry EXCEPT ![e] = v], UNCHANGED baseline
      PROVE  Unit!RunCase(e, v)
  <2> DEFINE based == {d \in Evals : entry[d] # "none" /\ baseline[d] # "none"}
  <2>1. v # "none"
    BY DEF Outcomes
  <2>2. e \in Stale <=> baseline[e] # "none"
    BY <1>5 DEF EvalInv, Goroutines
  <2>3. based' = based \cup ({e} \cap Stale)
    BY <1>2, <1>5, <2>1, <2>2 DEF EvalInv, TypeOK
  <2> QED BY <1>1, <1>2, <1>5, <2>3 DEF Unit!RunCase
<1>6. \/ UNCHANGED <<entry, baseline>>
      \/ \E v \in Outcomes : /\ stage[e] \in {"baseline", "grading baseline"}
                             /\ baseline' = [baseline EXCEPT ![e] = v]
                             /\ UNCHANGED entry
      \/ \E v \in Outcomes : /\ stage[e] \in {"skill", "grading"}
                             /\ entry' = [entry EXCEPT ![e] = v]
                             /\ UNCHANGED baseline
  BY DEF Worker, AgentReturns, AgentErrs, RuntimeError, SessionEnds, Grade, Record,
         AgentStages, GradeStages, Outcomes
<1>7. Outcomes # {} /\ \A v \in Outcomes : Unit!RunCase(e, v) => Unit!Next
  BY DEF Unit!Next, Outcomes
<1> QED BY <1>3, <1>4, <1>5, <1>6, <1>7

\* Every step of the pool is a step of the abstract unit, or none.
LEMMA UnitStep ==
    ASSUME EvalInv, [Next]_vars
    PROVE  [Unit!Next]_(Unit!vars)
<1>1. CASE UNCHANGED <<entry, baseline, result>>
  BY <1>1 DEF Unit!vars
<1>2. CASE Return
  <2>1. /\ result = "none" /\ UNCHANGED <<entry, baseline>>
        /\ result' = Answer
    BY <1>2 DEF Return, Answer, EvalInv, Launching
  <2>2. CASE Answer = "error"
    BY <2>1, <2>2 DEF Unit!Next, Unit!Abandon
  <2>3. CASE Answer # "error"
    <3>1. result' \in {"ok", "failed"}
      BY <2>1, <2>3 DEF Answer
    <3>2. EvalInv' => ReturnSound'
      BY ReturnFollows, PTL
    <3>3. ReturnSound'
      BY <3>2, StepEval
    <3>4. \A e \in Evals : entry[e] # "none"
      BY <2>1, <3>1, <3>3 DEF ReturnSound
    <3> QED BY <2>1, <3>1, <3>4 DEF Unit!Next, Unit!Complete
  <2> QED BY <2>2, <2>3
<1>3. CASE \E e \in Evals : Worker(e)
  BY <1>3, UnitWorker
<1> QED BY <1>1, <1>2, <1>3
        DEF Next, Loop, Launch, LoopDone, Interrupt, Done, vars

\* The pool of goroutines implements the abstract unit that the sweep is
\* written against: each eval is settled in one step together with its new
\* baseline, and the unit is handed over whole or abandoned.
THEOREM EvalImplementsUnitRun == Spec => ImplementsUnitRun
<1>1. Spec => []EvalInv
  BY EvalInvariant
<1> QED BY <1>1, UnitInit, UnitStep, PTL DEF Spec, ImplementsUnitRun, Unit!Spec
=============================================================================
