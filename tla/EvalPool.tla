------------------------------- MODULE EvalPool -------------------------------
(***************************************************************************)
(* runEvals and runEval (internal/run/evals.go): the evals of one unit, at *)
(* most Jobs at once.  An eval's goroutine first runs its baseline when    *)
(* that is on and stale, then the run with the skill; each of the two is   *)
(* an agent session (session.go) followed by grading (internal/grade).     *)
(*                                                                         *)
(* A session reports an error only when its context is cancelled or the    *)
(* executor fails; that error cancels the group and discards the unit.     *)
(* Grading has no error to report: an external command or the judge that   *)
(* could not run is a failed assertion.                                    *)
(***************************************************************************)
EXTENDS Naturals, FiniteSets

CONSTANTS NEvals, \* number of evals in the run set, launched in order
          Jobs,   \* --jobs
          Stale,  \* evals whose baseline is on and missing or stale
          Judged  \* evals with a runnable command assertion or an llm assertion

Evals == 1 .. NEvals

ASSUME EvalPoolAssumption ==
    /\ NEvals \in Nat /\ Jobs \in Nat \ {0}
    /\ Stale \subseteq Evals /\ Judged \subseteq Evals

VARIABLES
    main,     \* "launch", "wait" or "returned"
    next,     \* the eval the launching loop is at
    stage,    \* where each eval's goroutine is
    baseline, \* baselines[i]: "none" or its outcome
    entry,    \* entryResults[i], outcomes[i]: "none" or the outcome
    groupErr, \* errgroup: a goroutine returned an error
    ctx,      \* the unit's context: "live" or "cancelled" (Ctrl-C)
    result,   \* what runEvals returned: "none", "ok", "failed", "error"
    cutShort, \* history: evals with an agent still to finish at the Ctrl-C
    guessed   \* history: evals with an assertion failed by cancellation alone

vars == <<main, next, stage, baseline, entry, groupErr, ctx, result, cutShort,
          guessed>>
history == <<cutShort, guessed>>

Outcomes == {"pass", "fail", "error"}
AgentStages == {"baseline", "skill"}
GradeStages == {"grading baseline", "grading"}
Stages == {"queued", "done", "failed"} \cup AgentStages \cup GradeStages

Init == /\ main = "launch"
        /\ next = 1
        /\ stage = [e \in Evals |-> "queued"]
        /\ baseline = [e \in Evals |-> "none"]
        /\ entry = [e \in Evals |-> "none"]
        /\ groupErr = FALSE
        /\ ctx = "live"
        /\ result = "none"
        /\ cutShort = {}
        /\ guessed = {}

Active == {e \in Evals : stage[e] \in AgentStages \cup GradeStages}
Cancelled == groupErr \/ ctx = "cancelled"

-----------------------------------------------------------------------------
(* The launching loop: it does not look at the context.                    *)

FirstStage(e) == IF e \in Stale THEN "baseline" ELSE "skill"

\* Mutant: one launch too many.
CanLaunchPastEnd == next <= NEvals + 1 /\ Cardinality(Active) < Jobs

CanLaunch == next \in Evals /\ Cardinality(Active) < Jobs

Launch ==
    /\ main = "launch"
    /\ CanLaunch
    /\ stage' = [stage EXCEPT ![next] = FirstStage(next)]
    /\ next' = next + 1
    /\ UNCHANGED <<main, baseline, entry, groupErr, ctx, result, history>>

LoopDone ==
    /\ main = "launch" /\ next \notin Evals
    /\ main' = "wait"
    /\ UNCHANGED <<next, stage, baseline, entry, groupErr, ctx, result, history>>

-----------------------------------------------------------------------------
(* One eval's goroutine.                                                   *)

\* Mutant: a baseline's outcome also lands in the eval's own slot.
RecordBoth(e, v) ==
    IF stage[e] \in {"baseline", "grading baseline"}
    THEN /\ baseline' = [baseline EXCEPT ![e] = v]
         /\ stage' = [stage EXCEPT ![e] = "skill"]
         /\ entry' = [entry EXCEPT ![e] = v]
    ELSE /\ entry' = [entry EXCEPT ![e] = v]
         /\ stage' = [stage EXCEPT ![e] = "done"]
         /\ UNCHANGED baseline

\* The outcome of the baseline, or of the run with the skill, is recorded and
\* the goroutine goes on to the next stage.
Record(e, v) ==
    IF stage[e] \in {"baseline", "grading baseline"}
    THEN /\ baseline' = [baseline EXCEPT ![e] = v]
         /\ stage' = [stage EXCEPT ![e] = "skill"]
         /\ UNCHANGED entry
    ELSE /\ entry' = [entry EXCEPT ![e] = v]
         /\ stage' = [stage EXCEPT ![e] = "done"]
         /\ UNCHANGED baseline

\* Mutant: a cancelled agent counts as one that timed out.
SessionEndsAnyhow(e) == stage[e] \in AgentStages

\* The session returns without an error.
SessionEnds(e) == stage[e] \in AgentStages /\ ~Cancelled

\* The agent's output is gradable (a timeout included).
AgentReturns(e) ==
    /\ SessionEnds(e)
    /\ stage' = [stage EXCEPT ![e] = IF @ = "baseline" THEN "grading baseline"
                                     ELSE "grading"]
    /\ UNCHANGED <<main, next, baseline, entry, groupErr, ctx, result, history>>

\* The agent ran but produced nothing usable: recorded, not an abort.
RuntimeError(e) ==
    /\ SessionEnds(e)
    /\ Record(e, "error")
    /\ UNCHANGED <<main, next, groupErr, ctx, result, history>>

\* Cancelled, or an executor failure; staging the workspace may fail too.
AgentErrs(e) ==
    /\ stage[e] \in AgentStages
    /\ stage' = [stage EXCEPT ![e] = "failed"]
    /\ groupErr' = TRUE
    /\ UNCHANGED <<main, next, baseline, entry, ctx, result, history>>

\* Grading under a cancelled context cannot run a command or the judge.
CutOff(e) == Cancelled /\ e \in Judged

Grade(e, v) ==
    /\ stage[e] \in GradeStages
    /\ CutOff(e) => v = "fail"
    /\ Record(e, v)
    /\ guessed' = IF CutOff(e) THEN guessed \cup {e} ELSE guessed
    /\ UNCHANGED <<main, next, groupErr, ctx, result, cutShort>>

-----------------------------------------------------------------------------
\* Mutant: runtime errors do not fail the unit.
FailedOnly == \E e \in Evals : entry[e] = "fail"

FailedAny == \E e \in Evals : entry[e] # "pass"

\* Mutant: waiting for every eval's outcome instead of every goroutine.
AllDone == \A e \in Evals : stage[e] = "done"

Drained == Active = {}

\* g.Wait returns.  On an error the unit is abandoned unsaved.
Return ==
    /\ main = "wait"
    /\ Drained
    /\ main' = "returned"
    /\ result' = IF groupErr THEN "error" ELSE IF FailedAny THEN "failed" ELSE "ok"
    /\ UNCHANGED <<next, stage, baseline, entry, groupErr, ctx, history>>

Interrupt ==
    /\ ctx = "live" /\ main # "returned"
    /\ ctx' = "cancelled"
    /\ cutShort' = {e \in Evals : stage[e] \in {"queued", "grading baseline"}
                                               \cup AgentStages}
    /\ UNCHANGED <<main, next, stage, baseline, entry, groupErr, result, guessed>>

Loop == Launch \/ LoopDone \/ Return
Worker(e) == \/ AgentReturns(e) \/ RuntimeError(e) \/ AgentErrs(e)
             \/ \E v \in {"pass", "fail"} : Grade(e, v)
Done == main = "returned" /\ UNCHANGED vars

Next == Loop \/ (\E e \in Evals : Worker(e)) \/ Interrupt \/ Done

Spec == Init /\ [][Next]_vars

\* Goroutines are scheduled, and every agent, command and judge session ends:
\* its timeout kills it.
FairSpec == Spec /\ WF_vars(Loop) /\ \A e \in Evals : WF_vars(Worker(e))

-----------------------------------------------------------------------------
TypeOK ==
    /\ main \in {"launch", "wait", "returned"}
    /\ next \in 1 .. (NEvals + 1)
    /\ stage \in [Evals -> Stages]
    /\ baseline \in [Evals -> {"none"} \cup Outcomes]
    /\ entry \in [Evals -> {"none"} \cup Outcomes]
    /\ groupErr \in BOOLEAN
    /\ ctx \in {"live", "cancelled"}
    /\ result \in {"none", "ok", "failed", "error"}
    /\ cutShort \subseteq Evals /\ guessed \subseteq Evals

\* What a return without error hands to the merge is complete: every eval of
\* the run set has its outcome and every stale one its new baseline, even
\* when agents failed at run time, and the flag says whether all passed.
ReturnSound ==
    result \in {"ok", "failed"} =>
        \A e \in Evals :
            /\ entry[e] # "none"
            /\ e \in Stale <=> baseline[e] # "none"
            /\ result = "ok" => entry[e] = "pass"

\* A Ctrl-C that comes while some eval still needs an agent always discards
\* the unit, so an interrupted sweep never records a run that did not happen.
InterruptDiscards ==
    result \in {"ok", "failed"} => cutShort = {}

\* Each eval, with its baseline, is one atomic step of the abstract unit, and
\* the unit is handed over whole or abandoned.
Unit == INSTANCE UnitRun WITH
    Cases <- Evals, Verdicts <- Outcomes, None <- "none",
    status <- CASE result = "none" -> "running"
                [] result = "error" -> "abandoned"
                [] OTHER -> "complete",
    verdict <- entry,
    based <- {e \in Evals : entry[e] # "none" /\ baseline[e] # "none"}
ImplementsUnitRun == Unit!Spec

\* The sweep gets past the unit, also after an error or a Ctrl-C.
Terminates == <>(main = "returned")

-----------------------------------------------------------------------------
(* A statement of the code's comments that the code does not keep.         *)

\* internal/run/session.go: "The error return is reserved for aborting the
\* sweep (an executor failure or a cancelled context)": no outcome that only
\* says the context was cancelled is saved.
NoVerdictFromInterrupt ==
    result \in {"ok", "failed"} => guessed = {}
=============================================================================
