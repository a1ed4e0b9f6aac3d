---------------------------------- MODULE MCApp ----------------------------------
(***************************************************************************)
(* Two plugins, two models, two harnesses.  h1 runs evals and only drives  *)
(* ma, h2 drives both and only counts the tokens of evals.  Skill s0 and   *)
(* s2's evals have a spec file without a case; eval e0 and trigger t0 are  *)
(* removed from theirs.                                                    *)
(***************************************************************************)
EXTENDS App

CONSTANTS ma, mb, mold, h1, h2, t1, e1, e2, t2, t0, e0

Left(t, c) == [u \in {"triggers", "evals"} |-> IF u = t THEN {c} ELSE {}]
MCCatalog == <<
    [plugin |-> "p1", skill |-> "s0", models |-> {}, files |-> {"triggers"},
     triggers |-> <<>>, evals |-> <<>>, removed |-> Left("triggers", t0)],
    [plugin |-> "p1", skill |-> "s1", models |-> {}, files |-> {"triggers", "evals"},
     triggers |-> <<t1>>, evals |-> <<e1, e2>>, removed |-> Left("evals", e0)],
    [plugin |-> "p2", skill |-> "s2", models |-> {ma}, files |-> {"triggers", "evals"},
     triggers |-> <<t2>>, evals |-> <<>>, removed |-> [t \in {"triggers", "evals"} |-> {}]]>>
MCModelOrder == <<ma, mb>>
MCProviderOf == [m \in {ma, mb} |-> IF m = ma THEN "v1" ELSE "v2"]
MCHarnessOrder == <<h1, h2>>
MCBuiltins == <<h2, h1>>
MCSupports == [m \in {ma, mb} |-> IF m = ma THEN {h1, h2} ELSE {h2}]
MCPreferred == [m \in {ma, mb} |-> IF m = ma THEN h1 ELSE h2]
MCOffered == [h \in {h1, h2} |-> {ma}]
MCMinRate == [t \in {"triggers", "evals"} |-> 50]

MCVersionOf == [p \in {"p1", "p2"} |-> IF p = "p1" THEN [parsed |-> TRUE, tagged |-> FALSE, major |-> 1]
                                       ELSE [parsed |-> FALSE, tagged |-> FALSE, major |-> 0]]

Nothing == [row \in {ma, mb, mold} \X {t1, e1, e2, t2, t0, e0} |-> "absent"]
Fresh == [stored |-> Nothing, executed |-> {}, changed |-> {},
          tiers |-> {"triggers", "evals"}, skills |-> {"s1", "s2"}, eval |-> AnyEval,
          terminal |-> TRUE, noTui |-> FALSE, all |-> FALSE, strict |-> FALSE,
          restricted |-> FALSE, mode |-> "keep",
          checks |-> {"ok"}, filters |-> {}, harnessFlag |-> {h1}, modelFlag |-> {},
          probed |-> {h1, h2}, baselines |-> {},
          outcomes |-> {"pass"}, faults |-> FALSE, signals |-> FALSE, quits |-> TRUE,
          formInputs |-> 0, dashInputs |-> 0]

Earlier == [row \in DOMAIN Nothing |->
               CASE row = <<ma, t1>> -> "pass" [] row = <<ma, e1>> -> "fail"
                 [] row = <<ma, e2>> -> "pass" [] row = <<mb, t1>> -> "fail"
                 [] row \in {<<mold, t1>>, <<mold, t2>>, <<mold, t0>>} -> "pass"
                 [] OTHER -> "absent"]
EarlierExecuted == {<<"s0", mold, "triggers">>, <<"s1", mold, "triggers">>, <<"s2", mold, "triggers">>,
                    <<"s1", ma, "triggers">>, <<"s1", ma, "evals">>, <<"s1", mb, "triggers">>}

\* The user browses the dashboard of a first run of one skill.
Browse == [Fresh EXCEPT !.skills = {"s1"}, !.quits = FALSE, !.dashInputs = 3]
\* The user changes the selection of a rerun of what failed, in a spec that has
\* lost a failed eval.
Select == [Fresh EXCEPT !.stored = [Earlier EXCEPT ![<<ma, e0>>] = "fail"],
                        !.executed = EarlierExecuted,
                        !.harnessFlag = {}, !.probed = {h1},
                        !.filters = {"failed"}, !.changed = {e2, e0},
                        !.outcomes = {"pass", "fail"}, !.quits = FALSE,
                        !.formInputs = 3]
\* One eval is asked for; the form can force others.
OneEval == [Fresh EXCEPT !.stored = Earlier, !.executed = EarlierExecuted,
                         !.tiers = {"evals"}, !.eval = e1,
                         !.outcomes = {"pass", "fail"}, !.formInputs = 1, !.dashInputs = 1]
\* run all with token counts only, in a repository that dropped a model.
Count == [Fresh EXCEPT !.stored = Earlier, !.executed = EarlierExecuted,
                       !.all = TRUE, !.strict = TRUE, !.restricted = TRUE, !.mode = "ask",
                       !.checks = {"failures", "error"},
                       !.harnessFlag = {h2}, !.modelFlag = {AllModels, "v2"},
                       !.outcomes = {"pass", "fail"}, !.formInputs = 1]
\* Baselines, broken agents and signals.
Break == [Fresh EXCEPT !.skills = {"s1"}, !.baselines = {<<ma, e1>>},
                       !.outcomes = {"fail", "error"}, !.faults = TRUE, !.signals = TRUE]
\* run all where a file of a dropped model cannot be rewritten.
Prune == [Fresh EXCEPT !.stored = Earlier, !.executed = EarlierExecuted, !.all = TRUE,
                       !.restricted = TRUE, !.mode = "drop", !.faults = TRUE,
                       !.skills = {"s2"}]

\* A --model the configuration does not admit.
Misuse == [Prune EXCEPT !.modelFlag = {mold}, !.faults = FALSE]

\* run evals of what failed or is new, without a terminal.
Script == [Fresh EXCEPT !.terminal = FALSE, !.stored = Earlier, !.executed = EarlierExecuted,
                        !.harnessFlag = {}, !.probed = {}, !.mode = "ask",
                        !.filters = {"failed", "new"}, !.baselines = {<<ma, e1>>, <<ma, e2>>},
                        !.outcomes = {"pass", "fail"}, !.signals = TRUE]
\* run all --no-tui.
Pipeline == [Script EXCEPT !.terminal = TRUE, !.noTui = TRUE, !.all = TRUE, !.strict = TRUE,
                           !.restricted = TRUE, !.filters = {}, !.baselines = {},
                           !.checks = {"ok", "failures"}, !.faults = TRUE]

\* Only the triggers are run.
Drift == [Select EXCEPT !.tiers = {"triggers"}, !.filters = {}, !.formInputs = 0]
MCDrift == {Drift}

MCStarts == {Browse, Select, OneEval, Count, Break, Prune, Misuse, Script, Pipeline}
=============================================================================
