------------------------------- MODULE UnitRun -------------------------------
(***************************************************************************)
(* What a sweep relies on when it runs one unit's cases (RunTrigger,       *)
(* RunEval, the commits and Abort of module Sweep): each case gets one     *)
(* verdict, at one moment, together with its recomputed baseline if it     *)
(* needed one, and the unit's results are handed over all together or not  *)
(* at all.  TriggerPool and EvalPool implement it with goroutines.         *)
(***************************************************************************)
CONSTANTS Cases,    \* the run set
          Stale,    \* those whose baseline has to be recomputed
          Verdicts, \* the verdicts a case can get
          None      \* not yet run

VARIABLES status,  \* "running", "complete" or "abandoned"
          verdict, \* per case
          based    \* cases whose baseline was recomputed

vars == <<status, verdict, based>>

Init == /\ status = "running"
        /\ verdict = [c \in Cases |-> None]
        /\ based = {}

RunCase(c, v) ==
    /\ status = "running" /\ verdict[c] = None
    /\ verdict' = [verdict EXCEPT ![c] = v]
    /\ based' = based \cup ({c} \cap Stale)
    /\ UNCHANGED status

Complete ==
    /\ status = "running" /\ \A c \in Cases : verdict[c] # None
    /\ status' = "complete"
    /\ UNCHANGED <<verdict, based>>

Abandon ==
    /\ status = "running"
    /\ status' = "abandoned"
    /\ UNCHANGED <<verdict, based>>

Next == \/ \E c \in Cases, v \in Verdicts : RunCase(c, v)
        \/ Complete
        \/ Abandon

Spec == Init /\ [][Next]_vars
=============================================================================
