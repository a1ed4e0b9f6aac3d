--------------------------------- MODULE Report ---------------------------------
(***************************************************************************)
(* What evolve report makes of the stored results (internal/report,        *)
(* internal/run/coverage.go): the rollups of EVALUATION.json, the coverage *)
(* profile and the issues of --check.  Operators over a record f of what   *)
(* is on disk: f.stored (row -> result), f.executed (the entries whose     *)
(* header says executed) and f.old (the rows whose result is of an older   *)
(* case or skill).  Tokens, costs, times and rendering are left out.       *)
(***************************************************************************)
EXTENDS Selection, Integers

CONSTANTS
    MinRate,         \* tier -> report.thresholds, in percent
    ThresholdModels, \* report.thresholds.models
    Retired,         \* models of earlier results that are no longer configured
    VersionOf,       \* plugin -> its manifest's version, see Classify
    GatedLevels,     \* report.thresholds.maturity
    StrictConfig     \* report.strict

Maturities == {"stable", "unstable", "prerelease"}
Recorded == Models \cup Retired
SkillsOf(p) == {sc \in ToSet(Catalog) : sc.plugin = p}
TierCases(sc, t) == ToSet(IF t = "evals" THEN sc.evals ELSE sc.triggers)

\* A results file is not asked whether its cases still exist.
Ever(sc, t) == TierCases(sc, t) \cup sc.removed[t]

ASSUME ReportAssumption ==
    /\ Retired \cap Models = {}
    /\ \A t \in ToSet(Tiers) : MinRate[t] \in 0 .. 100
    /\ ThresholdModels \subseteq Recorded /\ StrictConfig \in BOOLEAN
    \* parseMaturityLevels rejects an empty set and "unknown".
    /\ GatedLevels \in (SUBSET Maturities) \ {{}}
    /\ \A p \in Plugins : VersionOf[p] \in [parsed : BOOLEAN, tagged : BOOLEAN, major : Nat]

\* The results of an entry; none: the entry does not exist.
Entry(f, sc, t, m) == {row \in {m} \X Ever(sc, t) : f.stored[row] # "absent"}

\* ActiveModelKeys: the models the configuration lets take part, whether or
\* not their CLI is installed.
ActiveKeys(restricted) ==
    IF restricted THEN {m \in Models : Supports[m] # {}} ELSE Recorded

-----------------------------------------------------------------------------
(* The rollups: a tier of a set of skills for a model.                     *)

NoRollup == [total |-> 0, judged |-> FALSE, passed |-> 0, executed |-> 0, errored |-> 0]

\* rollupTriggers and rollupEvals: only entries that executed count towards
\* the verdicts, with all the results they carry, those of removed cases too.
Rollup(f, scs, t, m) ==
    LET ran == {sc \in scs : <<sc.skill, m, t>> \in f.executed}
        rows(s) == UNION {Entry(f, sc, t, m) : sc \in s}
        with(v) == Cardinality({row \in rows(ran) : f.stored[row] = v})
    IN  [total |-> Cardinality(rows(scs)), judged |-> rows(ran) # {},
         passed |-> with("pass"), executed |-> Cardinality(rows(ran)),
         errored |-> with("error")]

\* finalize: an errored result is not a failed one.
Graded(r) == r.executed - r.errored
Failed(r) == Graded(r) - r.passed

\* Generate, for the models in active.
Summary(f, active) ==
    LET has(scs, t, m) == \E sc \in scs : Entry(f, sc, t, m) # {}
        plugins == {k \in Plugins \X ToSet(Tiers) \X active : has(SkillsOf(k[1]), k[2], k[3])}
    IN  [k \in plugins |-> Rollup(f, SkillsOf(k[1]), k[2], k[3])]

-----------------------------------------------------------------------------
(* The coverage profile: a skill is covered by evals that are not old.     *)

Current(f, m, c) == f.stored[<<m, c>>] # "absent" /\ <<m, c>> \notin f.old

\* definedKeys: the models a strict profile asks a skill for.
DefinedKeys(sc) == {m \in Models : Allows(sc, m)}

Covered(f, sc, strict) ==
    IF strict THEN /\ sc.evals # <<>> /\ DefinedKeys(sc) # {}
                   /\ \A m \in DefinedKeys(sc), c \in ToSet(sc.evals) : Current(f, m, c)
              ELSE \E m \in Recorded, c \in ToSet(sc.evals) : Current(f, m, c)

NoReport == [summary |-> <<>>, covered |-> {}]
Generate(f, active, strict) ==
    [summary |-> Summary(f, active),
     covered |-> {sc.skill : sc \in {x \in ToSet(Catalog) : Covered(f, x, strict)}}]

-----------------------------------------------------------------------------
(* report --check.                                                         *)

\* A spec file of the tier is there, even one that does not parse.
Authored(p, t) == \E sc \in SkillsOf(p) : t \in sc.files

RollupOf(summary, k) == IF k \in DOMAIN summary THEN summary[k] ELSE NoRollup

\* The models a tier of a plugin is held to.  A strict gate takes every
\* configured model, whatever the restriction of the plugin's skills.
GateModels(summary, p, t, strict) ==
    CASE ThresholdModels # {} -> ThresholdModels
      [] ThresholdModels = {} /\ strict -> Models
      [] OTHER -> {m \in Recorded : RollupOf(summary, <<p, t, m>>).judged}

\* StaleTiers: some result of the tier of the skill is of an older version or
\* of a removed case, of any model on file; Check has taken the others off the
\* file.  Without a spec file nothing is stale.
StaleTier(f, sc, t, recorded) ==
    /\ t \in sc.files
    /\ \E m \in recorded : \E row \in Entry(f, sc, t, m) : row \in f.old
Stale(f, active, sc, t) == StaleTier(f, sc, t, active)

\* pluginIssues, for one tier.
Issues(f, active, p, t, strict) ==
    LET summary == Summary(f, active)
        rollup(m) == RollupOf(summary, <<p, t, m>>)
        held == IF Authored(p, t) THEN GateModels(summary, p, t, strict) ELSE {}
        missing == {m \in held : rollup(m).executed = 0}
        below == {m \in held \ missing :
                     100 * rollup(m).passed < MinRate[t] * rollup(m).executed}
        stale == IF strict THEN {sc.skill : sc \in {x \in SkillsOf(p) : Stale(f, active, x, t)}}
                           ELSE {}
    IN  {<<"missing", m>> : m \in missing} \cup {<<"below", m>> : m \in below}
        \cup {<<"stale", s>> : s \in stale}

\* Classify, by the version's prerelease tag and its major number.
Classify(v) == CASE ~v.parsed -> "unknown"
                 [] v.parsed /\ v.tagged -> "prerelease"
                 [] OTHER -> IF v.major = 0 THEN "unstable" ELSE "stable"

\* gated: the issues of any other plugin are only warnings.
IsGated(p) == Classify(VersionOf[p]) \in GatedLevels
CheckFails(f, active, strict) ==
    {tier \in {p \in Plugins : IsGated(p)} \X ToSet(Tiers) :
        Issues(f, active, tier[1], tier[2], strict) # {}}
=============================================================================
