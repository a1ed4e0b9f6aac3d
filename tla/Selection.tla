------------------------------- MODULE Selection -------------------------------
(***************************************************************************)
(* What a session of the interactive form selects and what the engine then *)
(* runs (internal/plan, harness/select.go, run/plan.go): the form's state, *)
(* the glyph of a node, the plan built from both, and the filters that     *)
(* hand the plan to the sweep.  All operators are functions of their       *)
(* arguments; module App holds the state.                                  *)
(*                                                                         *)
(* A case stands for its CaseRef: the names are unique over the catalog.   *)
(* A row <<m, c>> is case c of model m.  Hosted agents are left out.       *)
(***************************************************************************)
EXTENDS Naturals, Sequences, FiniteSets, SequencesExt

CONSTANTS
    Catalog,      \* the skills, in order: [plugin, skill, models, files,
                  \* triggers, evals, removed], see below
    ModelOrder,   \* the configured models, in display order
    ProviderOf,   \* model -> vendor
    Builtins,     \* every harness, in fallback order
    HarnessOrder, \* the configured harnesses, in display order
    Supports,     \* model -> the harnesses that can drive it
    Preferred,    \* model -> its preferred harness
    Installed,    \* the harnesses whose CLI is on PATH
    Offered,      \* harness -> the models its CLI offers this operator
    EvalRunners,  \* the harnesses that can run evals
    AnyEval,      \* no --eval given
    AllModels     \* the token "all" of --model

\* The elements of s that are in S, in their order.
Only(s, S) ==
    LET kept[i \in 0 .. Len(s)] ==
            CASE i = 0 -> <<>>
              [] i # 0 /\ s[i] \in S -> Append(kept[i - 1], s[i])
              [] OTHER -> kept[i - 1]
    IN  kept[Len(s)]

Models == ToSet(ModelOrder)
Harnesses == ToSet(HarnessOrder)
NoHarness == "none"
Tiers == <<"triggers", "evals">>
FilterNames == {"new", "modified", "failed"}
Verdicts == {"pass", "fail", "error"}
\* "none": a result of a pass that only counted tokens.
Stored == Verdicts \cup {"none", "absent"}

Plugins == {sc.plugin : sc \in ToSet(Catalog)}
\* files: the tiers of which the skill has a spec file, whether or not it parses
\* or holds a case; triggers and evals: the cases in them; removed: by tier, the
\* cases of earlier spec files, of which results may still be stored.
CasesOf(sc) == sc.triggers \o sc.evals
AllCases == UNION {ToSet(CasesOf(sc)) : sc \in ToSet(Catalog)}
EntryOf(c) == CHOOSE sc \in ToSet(Catalog) : c \in ToSet(CasesOf(sc))
IsEval(c) == c \in ToSet(EntryOf(c).evals)
TierOf(c) == IF IsEval(c) THEN "evals" ELSE "triggers"
Removed == UNION {UNION {sc.removed[t] : t \in ToSet(Tiers)} : sc \in ToSet(Catalog)}

ASSUME CatalogAssumption ==
    /\ Catalog \in Seq(ToSet(Catalog)) /\ ModelOrder \in Seq(Models)
    /\ HarnessOrder \in Seq(Harnesses) /\ Builtins \in Seq(ToSet(Builtins))
    /\ \A sc \in ToSet(Catalog) :
           /\ sc.models \subseteq Models
           /\ sc.triggers \in Seq(AllCases) /\ sc.evals \in Seq(AllCases)
           /\ ToSet(sc.triggers) \cap ToSet(sc.evals) = {}
           /\ sc.files \subseteq ToSet(Tiers) /\ sc.files # {}
           /\ sc.triggers # <<>> => "triggers" \in sc.files
           /\ sc.evals # <<>> => "evals" \in sc.files
           /\ \A t \in ToSet(Tiers) : IsFiniteSet(sc.removed[t])
    /\ Removed \cap AllCases = {}
    /\ \A a, b \in ToSet(Catalog) \X ToSet(Tiers) :
           a # b => a[1].removed[a[2]] \cap b[1].removed[b[2]] = {}
    /\ \A i, j \in DOMAIN Catalog : i # j =>
           /\ Catalog[i].skill # Catalog[j].skill
           /\ ToSet(CasesOf(Catalog[i])) \cap ToSet(CasesOf(Catalog[j])) = {}
    /\ Harnesses \subseteq ToSet(Builtins)
    /\ Installed \subseteq Harnesses /\ EvalRunners \subseteq Harnesses
    /\ \A m \in Models : Supports[m] \subseteq Harnesses
    /\ AnyEval \notin AllCases /\ NoHarness \notin Harnesses

\* modelAllowed, Allows, ApplicableTriggers and ApplicableEvals without a filter.
Allows(sc, m) == sc.models = {} \/ m \in sc.models
Rows(models) == {row \in models \X AllCases : Allows(EntryOf(row[2]), row[1])}

\* RunnableHarness: the preferred harness, else the first that can.
RunnableHarness(m, eligible) ==
    LET fit == Only(Builtins, eligible \cap Supports[m])
    IN  CASE fit = <<>> -> NoHarness
          [] Preferred[m] \in ToSet(fit) -> Preferred[m]
          [] OTHER -> Head(fit)

\* evalCapabilities / triggerExecutes, for a harness whose CLI is installed.
Executes(c, h) == IsEval(c) => h \in EvalRunners

-----------------------------------------------------------------------------
(* What --harness and --model leave of the configuration.  An empty flag   *)
(* is one that was not given.                                              *)

\* EligibleHarnesses.
EligibleHarnesses(flag) == IF flag = {} THEN Installed ELSE Installed \cap flag

\* Select: a token names a model, a vendor, or all of them; a model without
\* an eligible harness is left out.
Matches(token, m) == token \in {AllModels, ProviderOf[m], m}
Named(flag, m) == \E token \in flag : Matches(token, m)
RunnableSelections(modelFlag, harnessFlag) ==
    {m \in Models : /\ modelFlag = {} \/ Named(modelFlag, m)
                    /\ RunnableHarness(m, EligibleHarnesses(harnessFlag)) # NoHarness}

\* ValidateFilterRestrictions, and Select's unknown tokens, which "all" hides
\* where the configuration does not restrict the models.
BadFlags(k) ==
    \/ ~(k.harnessFlag \subseteq Harnesses)
    \/ /\ k.restricted \/ AllModels \notin k.modelFlag
       /\ \E token \in k.modelFlag \ {AllModels} : \A m \in Models : ~Matches(token, m)

\* formChoices: a CLI is asked for the models it offers the operator, unless
\* --model names them; without an answer it is taken to offer all.
OfferedBy(k, h) ==
    IF k.modelFlag = {} /\ h \in k.probed THEN Offered[h] ELSE Models

-----------------------------------------------------------------------------
(* The reasons to run a case, computed once before the form opens: what    *)
(* --new, --modified and --failed would select.  Only the cases within the *)
(* command's tiers and its --skill and --eval have any entry.              *)

Reasons(k, m, c, h) ==
    LET v == k.stored[<<m, c>>]
        errored == IF IsEval(c) THEN {"error"} ELSE {}
        unsettled == {"none"} \cup errored
        failing == {"fail"} \cup errored
    IN  {f \in FilterNames :
            \/ f = "new" /\ (v = "absent" \/ (Executes(c, h) /\ v \in unsettled))
            \/ f = "modified" /\ v # "absent" /\ c \in k.changed
            \/ f = "failed" /\ Executes(c, h) /\ v \in failing}

\* The cases of the command's own tiers, skills and --eval.
InScope(k, c) ==
    /\ EntryOf(c).skill \in k.skills /\ TierOf(c) \in k.tiers
    /\ IsEval(c) => k.eval \in {AnyEval, c}

\* The form opens with the harness each model has without --harness.
CaseReasons(k) ==
    [m \in {n \in Models : RunnableHarness(n, Installed) # NoHarness} |->
        [c \in {d \in AllCases : Allows(EntryOf(d), m) /\ InScope(k, d)} |->
            Reasons(k, m, c, RunnableHarness(m, Installed))]]

-----------------------------------------------------------------------------
(* The session behind the form: the filters, the enabled harnesses and     *)
(* models, and what the user forced on or off.                             *)

Sessions == [filters : SUBSET FilterNames, harnesses : SUBSET Harnesses,
             models : SUBSET Models, cases : [AllCases -> {"auto", "on", "off"}]]

Eligible(s) == s.harnesses \cap Installed
Runnable(s, m) == RunnableHarness(m, Eligible(s)) # NoHarness
ModelOffered(k, s, m) ==
    LET h == RunnableHarness(m, Eligible(s)) IN h = NoHarness \/ m \in OfferedBy(k, h)

Enabled(s) == {m \in Models : m \in s.models /\ Runnable(s, m)}
EnabledModels(s) == Only(ModelOrder, Enabled(s))

\* NewSession starts a model its CLI does not offer deselected; newForm
\* forces every other eval off under --eval.
NewSession(k) ==
    LET s == [filters |-> k.filters, harnesses |-> EligibleHarnesses(k.harnessFlag),
              models |-> RunnableSelections(k.modelFlag, k.harnessFlag),
              cases |-> [c \in AllCases |->
                  IF IsEval(c) /\ k.eval \notin {AnyEval, c} THEN "off" ELSE "auto"]]
    IN  [s EXCEPT !.models = {m \in @ : ModelOffered(k, s, m)}]

HasReason(r, m, c) == m \in DOMAIN r /\ c \in DOMAIN r[m]

\* baseline: what the filters alone select, everything when none is on.
Baseline(s, r, m, c) ==
    HasReason(r, m, c) /\ (s.filters = {} \/ s.filters \cap r[m][c] # {})

\* queuedCounts, as the rows it counts.
Counted(s, r, refs) ==
    {row \in Enabled(s) \X refs : HasReason(r, row[1], row[2])}
CountedQueued(s, r, refs) ==
    {row \in Counted(s, r, refs) :
        \/ s.cases[row[2]] = "on"
        \/ s.cases[row[2]] = "auto" /\ Baseline(s, r, row[1], row[2])}

AutoAvailable(s, r, refs) == CountedQueued(s, r, refs) # {}

NodeSel(s, r, refs) ==
    IF \A c \in refs : s.cases[c] = "on" THEN "forceOn"
    ELSE IF \A c \in refs : s.cases[c] = "off" THEN "forceOff"
    ELSE IF CountedQueued(s, r, refs) = {} THEN "none"
    ELSE IF CountedQueued(s, r, refs) = Counted(s, r, refs) THEN "all"
    ELSE "some"

-----------------------------------------------------------------------------
(* The request the form submits, and the plan the form's preview, the      *)
(* dashboard and the engine all build from it.                             *)

\* EnabledSelections and selection().  No model state is ever set.
Request(s, r) ==
    [models |-> EnabledModels(s),
     harness |-> [m \in Enabled(s) |-> RunnableHarness(m, Eligible(s))],
     cases |-> s.cases,
     needs |-> {row \in Enabled(s) \X AllCases :
                   Baseline(s, r, row[1], row[2])}]

\* Selection.queued.
Queued(q, m, c) == q.cases[c] # "off" /\ (q.cases[c] = "on" \/ <<m, c>> \in q.needs)

\* Build: the units in run order, and the rows that run.
TierSeq(sc, t) == IF t = "evals" THEN sc.evals ELSE sc.triggers
UnitFor(sc, m, t) == [skill |-> sc.skill, plugin |-> sc.plugin, model |-> m, tier |-> t,
                      cases |-> TierSeq(sc, t)]
ModelUnits(sc, m) ==
    LET ts == Only(Tiers, {t \in ToSet(Tiers) : TierSeq(sc, t) # <<>>})
    IN  [i \in DOMAIN ts |-> UnitFor(sc, m, ts[i])]
SkillUnits(sc, models) ==
    LET ms == Only(models, {m \in ToSet(models) : Allows(sc, m)})
    IN  FlattenSeq([i \in DOMAIN ms |-> ModelUnits(sc, ms[i])])
UnitsOf(models) == FlattenSeq([i \in DOMAIN Catalog |-> SkillUnits(Catalog[i], models)])

QueuedRows(q) == {row \in Rows(ToSet(q.models)) : Queued(q, row[1], row[2])}
Build(q) == [units |-> UnitsOf(q.models), queued |-> QueuedRows(q)]

AnyQueued(s, r) == QueuedRows(Request(s, r)) # {}

\* Mutant: only the tier of a queued case is pinned.
PinnedTiers(cases) == {<<EntryOf(c).skill, TierOf(c)>> : c \in cases}

\* Filters: an included skill restricts both tiers, one of them perhaps to
\* nothing.  A model without a queued case has no filter.
SkillsWith(cases) == {EntryOf(c).skill : c \in cases}
BothTiers(cases) == SkillsWith(cases) \X ToSet(Tiers)
FilterFor(cases) ==
    [skills |-> SkillsWith(cases),
     cases |-> [st \in BothTiers(cases) |->
                   {c \in cases : <<EntryOf(c).skill, TierOf(c)>> = st}]]
CasesQueued(plan, m) == {c \in AllCases : <<m, c>> \in plan.queued}
Filters(plan) ==
    [m \in {row[1] : row \in plan.queued} |-> FilterFor(CasesQueued(plan, m))]

\* skillIncluded, triggerIncluded, evalIncluded: a tier without an entry is
\* not restricted.
Included(f, c) ==
    LET st == <<EntryOf(c).skill, TierOf(c)>>
    IN  st[1] \in f.skills /\ (st \in DOMAIN f.cases => c \in f.cases[st])

\* The units with only these rows left to run, without those that have none.
Narrowed(u, rows) ==
    [u EXCEPT !.cases = Only(@, {c \in ToSet(@) : <<u.model, c>> \in rows})]
Narrow(units, rows) ==
    LET us == [i \in DOMAIN units |-> Narrowed(units[i], rows)]
    IN  Only(us, {u \in ToSet(us) : u.cases # <<>>})

\* runSweepSet, runSweepModel and filterEvals: the units the engine visits
\* that have a case to run.  A model without a filter is skipped.
EngineUnits(q, eval) ==
    LET filters == Filters(Build(q))
        takes(m, c) == /\ m \in DOMAIN filters
                       /\ Included(filters[m], c)
                       /\ IsEval(c) => eval \in {AnyEval, c}
    IN  Narrow(UnitsOf(q.models), {row \in Rows(ToSet(q.models)) : takes(row[1], row[2])})

-----------------------------------------------------------------------------
(* Without the form: the units run triggers, run evals and run all visit.  *)

PlainModels(k) ==
    Only(ModelOrder, RunnableSelections(k.modelFlag, k.harnessFlag))
PlainHarness(k, m) == RunnableHarness(m, EligibleHarnesses(k.harnessFlag))

\* evalBaselineNeeded.
BaselineNeeded(k, m, c) == Executes(c, PlainHarness(k, m)) /\ <<m, c>> \in k.baselines

\* runTriggerUnit and evalRunSet: with a filter, the cases that have a reason;
\* of evals also the ones whose baseline is missing or stale.
InRunSet(k, m, c) ==
    \/ k.filters = {}
    \/ Reasons(k, m, c, PlainHarness(k, m)) \cap k.filters # {}
    \/ BaselineNeeded(k, m, c)

\* Triggers, Evals and Sweep: a unit whose results are complete is skipped.
PlainUnits(k) ==
    LET takes(m, c) == InScope(k, c) /\ InRunSet(k, m, c)
        models == PlainModels(k)
    IN  Narrow(UnitsOf(models), {row \in Rows(ToSet(models)) : takes(row[1], row[2])})
=============================================================================
