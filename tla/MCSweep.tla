------------------------------- MODULE MCSweep -------------------------------
(* One model and three cases: a tier with a case that a partial rerun can    *)
(* leave out, and a second tier in the same file.                            *)
EXTENDS Sweep

\* The second content differs from the first in other files than SKILL.md, the
\* third in its frontmatter.
MCFrontmatter == <<1, 1, 2>>

Both == [tiers |-> Tiers, new |-> FALSE, failed |-> FALSE, modified |-> FALSE,
         count |-> FALSE, baseline |-> TRUE, eval |-> AnyEval,
         filter |-> Cases]

OnlyEvals == [Both EXCEPT !.tiers = {"evals"}]
OnlyTriggers == [Both EXCEPT !.tiers = {"triggers"}]

\* run evals; run all --new; run all --failed --baseline=false; run triggers
\* --modified; run evals with --modified, --count-only and --eval e; and a
\* form in which one case was picked.
MCCommands ==
    { OnlyEvals,
      [Both EXCEPT !.new = TRUE],
      [Both EXCEPT !.failed = TRUE, !.baseline = FALSE],
      [OnlyTriggers EXCEPT !.modified = TRUE],
      [OnlyEvals EXCEPT !.modified = TRUE],
      [OnlyEvals EXCEPT !.count = TRUE] }
    \cup {[OnlyEvals EXCEPT !.eval = e] : e \in Evals}
    \cup {[Both EXCEPT !.filter = {c}] : c \in Cases}
=============================================================================
