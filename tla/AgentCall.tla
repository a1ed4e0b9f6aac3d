------------------------------ MODULE AgentCall ------------------------------
(***************************************************************************)
(* What the pools rely on when they run an agent (AgentReturns and         *)
(* AgentErrs of TriggerPool and EvalPool): exactly one answer, which is an *)
(* outcome only while the caller's context is live and an error only once  *)
(* it is cancelled.  AgentRun implements it with a process and its pipe.   *)
(***************************************************************************)
CONSTANTS Outcomes, Pending, Failure

VARIABLES live,  \* the caller's context is not cancelled
          answer \* Pending, an outcome, or Failure

vars == <<live, answer>>

Init == live = TRUE /\ answer = Pending

Cancel == live /\ live' = FALSE /\ UNCHANGED answer

Answer(o) == /\ live /\ answer = Pending
             /\ answer' = o
             /\ UNCHANGED live

Fail == /\ ~live /\ answer = Pending
        /\ answer' = Failure
        /\ UNCHANGED live

Next == Cancel \/ (\E o \in Outcomes : Answer(o)) \/ Fail

Spec == Init /\ [][Next]_vars
=============================================================================
