------------------------------ MODULE MCEvalPool ------------------------------
(* Three evals on two jobs: one with a stale baseline and a judge, one with  *)
(* a judge only, one whose assertions are all deterministic.                 *)
EXTENDS EvalPool

MCStale == {1, 3}
MCJudged == {1, 2}
=============================================================================
