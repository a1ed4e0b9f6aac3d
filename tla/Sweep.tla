-------------------------------- MODULE Sweep --------------------------------
(***************************************************************************)
(* One skill's results file and the sweeps that read, rerun and rewrite it *)
(* while the author keeps editing the skill (internal/run, internal/plan,  *)
(* internal/results).                                                      *)
(*                                                                         *)
(* A sweep loads the authored cases, the content fingerprints and the      *)
(* results file, then visits one unit per (model, tier).  A unit selects   *)
(* the cases to run, runs them, merges the fresh results over the stored   *)
(* ones and saves the whole file by an atomic rename.  The agents work on  *)
(* a live link to the skill directory, so an edit made during a sweep is   *)
(* seen by the runs that start after it.                                   *)
(*                                                                         *)
(* Fingerprints are numbers.  The contents the skill may have are          *)
(* 1..MaxContent, in any order and as often as the author likes: an edit   *)
(* may bring an earlier content, and so its fingerprint, back.  The spec   *)
(* of a case is any of 1..MaxSpec; 0 is the empty hash, or a case that is  *)
(* not authored.                                                           *)
(***************************************************************************)
EXTENDS Naturals, FiniteSets

CONSTANTS Models,       \* selected (model, harness) pairs of this skill
          Queries,      \* names of triggers.<ext> cases
          Evals,        \* names of evals.<ext> cases
          AnyEval,      \* no --eval given
          Agent,        \* TRUE for a hosted agent's set
          ReportsUsage, \* the harness reports measured usage
          MaxContent,   \* number of contents the skill may have
          Frontmatter,  \* what the triggers hash of each: its SKILL.md frontmatter
          MaxSpec,      \* number of definitions a case may have
          MaxSweeps,    \* bound on sweeps started
          MaxEdits,     \* bound on edits by the author
          Commands      \* the invocations considered

Tiers == {"triggers", "evals"}
Cases == Queries \cup Evals
NoHash == 0
Contents == NoHash .. MaxContent
Specs == NoHash .. MaxSpec

(***************************************************************************)
(* One invocation: the tiers it runs, its per-case selection flags, and    *)
(* the form's filter.  count stands for every reason a unit does not       *)
(* execute (--count-only, or no agent CLI found).                          *)
(***************************************************************************)
AllCommands ==
    {k \in [tiers : SUBSET Tiers, new : BOOLEAN, failed : BOOLEAN,
            modified : BOOLEAN, count : BOOLEAN, baseline : BOOLEAN,
            eval : Evals \cup {AnyEval}, filter : SUBSET Cases] :
        k.filter # Cases => ~k.new /\ ~k.failed /\ ~k.modified}

ASSUME SweepAssumption ==
    /\ Queries \cap Evals = {}
    /\ AnyEval \notin Evals
    /\ Agent \in BOOLEAN /\ ReportsUsage \in BOOLEAN
    /\ MaxContent \in Nat \ {0} /\ MaxSpec \in Nat \ {0}
    /\ Frontmatter \in [1 .. MaxContent -> 1 .. MaxContent]
    /\ MaxSweeps \in Nat /\ MaxEdits \in Nat
    /\ Commands \subseteq AllCommands /\ Commands # {}

TierOf(c) == IF c \in Queries THEN "triggers" ELSE "evals"

(***************************************************************************)
(* A stored result: the spec hash it was stored with, its verdict, and     *)
(* (history only, not in the file) the content its agents saw.  An         *)
(* "unmetered" result is graded and timed but carries no measured usage;   *)
(* "none" is a result of a pass that only counted tokens.                  *)
(***************************************************************************)
TriggerVerdicts == {"pass", "fail"}
EvalVerdicts == {"pass", "fail", "error", "unmetered"}
Result == [spec : Specs, verdict : EvalVerdicts \cup {"none", "absent"},
           ran : Contents]
Absent == [spec |-> NoHash, verdict |-> "absent", ran |-> NoHash]
Legacy == [spec |-> NoHash, verdict |-> "pass", ran |-> NoHash]

File == [hash : [Models -> [Tiers -> Contents]],
         result : [Models -> [Cases -> Result]],
         base : [Models -> [Evals -> Specs]]]

EmptyFile == [hash |-> [m \in Models |-> [t \in Tiers |-> NoHash]],
              result |-> [m \in Models |-> [c \in Cases |-> Absent]],
              base |-> [m \in Models |-> [e \in Evals |-> NoHash]]]
LegacyFile == [EmptyFile EXCEPT !.result =
                  [m \in Models |-> [c \in Cases |-> Legacy]]]

VARIABLES
    authored,  \* [spec, content]: what the author's files say now
    disk,      \* results.<ext> as committed by the last rename
    pc,        \* "idle", "units", "running" or "done"
    cmd,       \* the invocation being executed
    loaded,    \* authored, as read when the sweep reached this skill
    file,      \* the sweep's in-memory copy of the results file
    todo,      \* units not yet visited
    unit,      \* the unit being run
    runSet,    \* the cases the unit runs
    fresh,     \* their results so far
    freshBase, \* fingerprints of the baselines the unit has recomputed
    sweeps,    \* sweeps started so far
    edits,     \* edits made so far
    partial,   \* history: some saved unit left changed cases unselected
    torn       \* history: by tier, the contents that a sweep had loaded and
               \* that were edited away before it ended

vars == <<authored, disk, pc, cmd, loaded, file, todo, unit, runSet, fresh,
          freshBase, sweeps, edits, partial, torn>>
history == <<sweeps, edits, partial, torn>>
unitVars == <<unit, runSet, fresh, freshBase>>

NoResults == [c \in Cases |-> Absent]
NoBaselines == [e \in Evals |-> NoHash]
Idle == /\ unit' = <<>>
        /\ runSet' = {}
        /\ fresh' = NoResults
        /\ freshBase' = NoBaselines

\* What each tier hashes of content v: the triggers the frontmatter, the evals
\* every file.
Fingerprints(v) ==
    [t \in Tiers |-> IF t = "triggers" THEN Frontmatter[v] ELSE v]

FirstAuthored == [spec |-> [c \in Cases |-> 1], content |-> Fingerprints(1)]
AnyCommand == CHOOSE k \in Commands : TRUE

Init == /\ authored = FirstAuthored
        /\ disk \in {EmptyFile, LegacyFile}
        /\ pc = "idle"
        /\ cmd = AnyCommand
        /\ loaded = FirstAuthored
        /\ file = disk
        /\ todo = {}
        /\ unit = <<>>
        /\ runSet = {}
        /\ fresh = NoResults
        /\ freshBase = NoBaselines
        /\ sweeps = 0 /\ edits = 0
        /\ partial = FALSE
        /\ torn = [t \in Tiers |-> {}]

-----------------------------------------------------------------------------
(* The author.                                                             *)

\* An edit, or the undoing of one, by which the skill's content becomes v.
EditContent(v) ==
    /\ Fingerprints(v) # authored.content
    /\ authored' = [authored EXCEPT !.content = Fingerprints(v)]
    /\ torn' = IF pc \in {"units", "running"}
               THEN [t \in Tiers |-> IF Fingerprints(v)[t] = loaded.content[t]
                                     THEN torn[t]
                                     ELSE torn[t] \cup {loaded.content[t]}]
               ELSE torn
    /\ edits < MaxEdits /\ edits' = edits + 1
    /\ UNCHANGED <<disk, pc, cmd, loaded, file, todo, unitVars, sweeps, partial>>

\* Define a case, redefine it, or remove it.
EditCase(c) ==
    /\ \E v \in Specs \ {authored.spec[c]} :
           authored' = [authored EXCEPT !.spec[c] = v]
    /\ edits < MaxEdits /\ edits' = edits + 1
    /\ UNCHANGED <<disk, pc, cmd, loaded, file, todo, unitVars, sweeps, partial,
                   torn>>

-----------------------------------------------------------------------------
(* Selection.                                                              *)

\* fingerprints.modified: the spec differs, or both content hashes exist and
\* differ; a result without a spec hash is never modified.
Modified(r, stored, content, spec) ==
    /\ r.spec # NoHash
    /\ \/ r.spec # spec
       \/ stored # NoHash /\ stored # content

\* triggerCaseReason # ReasonNone
TriggerGap(k, r, changed) ==
    \/ k.failed /\ ~k.count /\ r.verdict = "fail"
    \/ k.modified /\ r.verdict # "absent" /\ changed
    \/ k.new /\ r.verdict = "absent"
    \/ k.new /\ ~k.count /\ r.verdict = "none"

\* evalCaseReason # ReasonNone
EvalGap(k, r, changed) ==
    \/ k.failed /\ ~k.count /\ r.verdict \in {"error", "fail"}
    \/ k.modified /\ r.verdict # "absent" /\ changed
    \/ k.new /\ r.verdict = "absent"
    \/ k.new /\ ~k.count /\ r.verdict \in {"error", "none"}
    \/ k.new /\ ~k.count /\ ReportsUsage /\ r.verdict = "unmetered"

\* evalBaselineNeeded: the baseline is cached per eval fingerprint.
BaselineNeeded(k, stored, spec) ==
    k.baseline /\ ~Agent /\ ~k.count /\ stored # spec

\* filterEvals: --eval narrows the loaded list to one id.
Narrowed(k, es) == {e \in es : k.eval \in {AnyEval, e}}

\* ApplicableTriggers / ApplicableEvals without the form's filter: what a
\* merge treats as the cases that exist.
ModelApplicable(k, at, t) ==
    LET defined == {c \in Cases : TierOf(c) = t /\ at.spec[c] # NoHash}
    IN  IF t = "evals" THEN Narrowed(k, defined) ELSE defined

CaseChanged(f, at, m, c) ==
    Modified(f.result[m][c], f.hash[m][TierOf(c)], at.content[TierOf(c)],
             at.spec[c])

Gap(k, f, at, m, c) ==
    LET r == f.result[m][c]
        changed == CaseChanged(f, at, m, c)
    IN  \/ c \in Queries /\ TriggerGap(k, r, changed)
        \/ c \in Evals /\ \/ EvalGap(k, r, changed)
                          \/ BaselineNeeded(k, f.base[m][c], at.spec[c])

RunSet(k, f, at, m, t) ==
    {c \in ModelApplicable(k, at, t) \cap k.filter :
        (k.new \/ k.failed \/ k.modified) => Gap(k, f, at, m, c)}

\* A selection that can leave a changed case of the unit unselected.
LeavesChanged(k) ==
    \/ k.filter # Cases
    \/ (k.new \/ k.failed) /\ ~k.modified

-----------------------------------------------------------------------------
(* The sweep.                                                              *)

StartSweep(k) ==
    /\ pc \in {"idle", "done"}
    /\ sweeps < MaxSweeps
    /\ pc' = "units"
    /\ cmd' = k
    /\ loaded' = authored
    /\ file' = disk
    /\ todo' = Models \X k.tiers
    /\ Idle
    /\ sweeps' = sweeps + 1
    /\ UNCHANGED <<authored, disk, edits, partial, torn>>

\* A model's triggers run before its evals.  A hosted agent has no triggers
\* and nothing to count.
Eligible(m, t) ==
    /\ pc = "units"
    /\ <<m, t>> \in todo
    /\ t = "evals" => <<m, "triggers">> \notin todo

Runs(m, t) == IF Agent /\ (t = "triggers" \/ cmd.count)
              THEN {} ELSE RunSet(cmd, file, loaded, m, t)

SkipUnit(m, t) ==
    /\ Eligible(m, t)
    /\ Runs(m, t) = {}
    /\ todo' = todo \ {<<m, t>>}
    /\ UNCHANGED <<authored, disk, pc, cmd, loaded, file, unitVars, history>>

\* Fresh results start with the spec hash and no verdict; that is all a
\* count-only unit stores.
BeginUnit(m, t) ==
    /\ Eligible(m, t)
    /\ Runs(m, t) # {}
    /\ pc' = "running"
    /\ unit' = <<m, t>>
    /\ runSet' = Runs(m, t)
    /\ fresh' = [c \in Cases |->
           IF c \in Runs(m, t)
           THEN [spec |-> loaded.spec[c], verdict |-> "none", ran |-> NoHash]
           ELSE Absent]
    /\ freshBase' = NoBaselines
    /\ todo' = todo \ {<<m, t>>}
    /\ UNCHANGED <<authored, disk, cmd, loaded, file, history>>

Pending == {c \in runSet : ~cmd.count /\ fresh[c].verdict = "none"}

\* A case's agents read the live skill: they see what it is at that moment,
\* which may be any between the load and the save.
RunTrigger(c, v) ==
    /\ pc = "running" /\ unit[2] = "triggers"
    /\ c \in Pending
    /\ fresh' = [fresh EXCEPT ![c] = [spec |-> @.spec, verdict |-> v,
                                      ran |-> authored.content["triggers"]]]
    /\ UNCHANGED <<authored, disk, pc, cmd, loaded, file, todo, unit, runSet,
                   freshBase, history>>

\* One eval's slot: its baseline first, when it is on and stale, then the run
\* with the skill.
RunEval(c, v) ==
    /\ pc = "running" /\ unit[2] = "evals"
    /\ c \in Pending
    /\ fresh' = [fresh EXCEPT ![c] = [spec |-> @.spec, verdict |-> v,
                                      ran |-> authored.content["evals"]]]
    /\ freshBase' = IF BaselineNeeded(cmd, file.base[unit[1]][c], loaded.spec[c])
                    THEN [freshBase EXCEPT ![c] = loaded.spec[c]]
                    ELSE freshBase
    /\ UNCHANGED <<authored, disk, pc, cmd, loaded, file, todo, unit, runSet,
                   history>>

\* Mutant: a merge that forgets the cases the unit did not run.
MergedFreshOnly(k, at, old, run, new, t) ==
    [c \in Cases |->
        IF TierOf(c) # t THEN old[c]
        ELSE IF c \in run THEN new[c] ELSE Absent]

\* Mutant: a merge in which the stored result wins.
MergedStoredFirst(k, at, old, run, new, t) ==
    [c \in Cases |->
        IF TierOf(c) # t THEN old[c]
        ELSE IF c \notin ModelApplicable(k, at, t) THEN Absent
        ELSE IF old[c] # Absent THEN old[c] ELSE new[c]]

\* Mutant: a merge that yields the cases of the unit's tier only.
MergedTierOnly(k, at, old, run, new, t) ==
    [c \in run |-> new[c]]

\* mergeTriggerResults / mergeEvalResults: over the cases that exist for the
\* model, the fresh result where one was produced, else the stored one.
Merged(k, at, old, run, new, t) ==
    [c \in Cases |->
        IF TierOf(c) # t THEN old[c]
        ELSE IF c \notin ModelApplicable(k, at, t) THEN Absent
        ELSE IF c \in run THEN new[c] ELSE old[c]]

\* Mutant: only the baselines of this round survive.
MergedBaseFreshOnly(old, new, results) == new

\* mergeBaseline: prior baselines, overlaid by the recomputed ones, for the
\* evals that have a result.
MergedBase(old, new, results) ==
    [e \in Evals |->
        IF results[e].verdict = "absent" THEN NoHash
        ELSE IF new[e] # NoHash THEN new[e] ELSE old[e]]

\* Mutant: the hash is taken when the unit is saved.
ContentStampAtSave(t) == authored.content[t]

\* The header's content hash: computed when the sweep loaded the set.
ContentStamp(t) == loaded.content[t]

\* SaveDir: the file in memory reaches the disk in one rename.
Save(m, t, results, bases) ==
    /\ file' = [file EXCEPT !.hash[m][t] = ContentStamp(t),
                            !.result[m] = results, !.base[m] = bases]
    /\ disk' = file'
    /\ pc' = "units"
    /\ partial' = (partial \/ LeavesChanged(cmd))
    /\ Idle
    /\ UNCHANGED <<authored, cmd, loaded, todo, sweeps, edits, torn>>

CommitTriggers ==
    /\ pc = "running" /\ unit[2] = "triggers"
    /\ Pending = {}
    /\ LET m == unit[1]
           results == Merged(cmd, loaded, file.result[m], runSet, fresh,
                             "triggers")
       IN  Save(m, "triggers", results, file.base[m])

\* A count-only pass keeps the prior baselines whole.
CommitEvals ==
    /\ pc = "running" /\ unit[2] = "evals"
    /\ Pending = {}
    /\ LET m == unit[1]
           results == Merged(cmd, loaded, file.result[m], runSet, fresh, "evals")
       IN  Save(m, "evals", results,
                IF cmd.count THEN file.base[m]
                ELSE MergedBase(file.base[m], freshBase, results))

FinishSweep ==
    /\ pc = "units" /\ todo = {}
    /\ pc' = "done"
    /\ UNCHANGED <<authored, disk, cmd, loaded, file, todo, unitVars, history>>

\* Ctrl-C, a setup or save error, or a crash: whatever is in memory is gone.
Abort ==
    /\ pc \in {"units", "running"}
    /\ pc' = "idle"
    /\ todo' = {}
    /\ file' = disk
    /\ Idle
    /\ cmd' = AnyCommand
    /\ loaded' = FirstAuthored
    /\ UNCHANGED <<authored, disk, history>>

Next ==
    \/ \E v \in 1 .. MaxContent : EditContent(v)
    \/ \E c \in Cases : EditCase(c)
    \/ \E k \in Commands : StartSweep(k)
    \/ \E m \in Models, t \in Tiers : SkipUnit(m, t) \/ BeginUnit(m, t)
    \/ \E c \in Queries, v \in TriggerVerdicts : RunTrigger(c, v)
    \/ \E c \in Evals, v \in EvalVerdicts : RunEval(c, v)
    \/ CommitTriggers
    \/ CommitEvals
    \/ FinishSweep
    \/ Abort

Spec == Init /\ [][Next]_vars

-----------------------------------------------------------------------------
TypeOK ==
    /\ authored \in [spec : [Cases -> Specs], content : [Tiers -> 1..MaxContent]]
    /\ loaded \in [spec : [Cases -> Specs], content : [Tiers -> 1..MaxContent]]
    /\ disk \in File /\ file \in File
    /\ pc \in {"idle", "units", "running", "done"}
    /\ cmd \in Commands
    /\ todo \subseteq Models \X Tiers
    /\ unit \in {<<>>} \cup (Models \X Tiers)
    /\ pc = "running" => unit # <<>>
    /\ runSet \subseteq Cases
    /\ fresh \in [Cases -> Result]
    /\ freshBase \in [Evals -> Specs]
    /\ sweeps \in Nat /\ edits \in Nat /\ partial \in BOOLEAN
    /\ torn \in [Tiers -> SUBSET (1 .. MaxContent)]

\* A verdict that --modified would not rerun was produced under the content
\* the author has now, however edits interleaved with the sweeps, as long as
\* every saved sweep selected either everything or all that had changed
\* (fingerprints.modified against Header.ContentHash).  There is one way
\* round it, named by torn: the author edited that very content away under a
\* running sweep and has restored it since, so that results of what was there
\* in between carry its hash.
Unmodified(f, m, c) ==
    /\ f.result[m][c].verdict \in EvalVerdicts
    /\ f.result[m][c].spec # NoHash
    /\ ~CaseChanged(f, authored, m, c)

FreshMeansCurrent ==
    ~partial => \A m \in Models, c \in Cases :
        Unmodified(disk, m, c) =>
            \/ disk.result[m][c].ran = authored.content[TierOf(c)]
            \/ authored.content[TierOf(c)] \in torn[TierOf(c)]

\* When a --new sweep over every case has run to its end and the author has
\* not touched the cases since, a second one would find work only in evals
\* whose run errored or reported no usage: an interrupted sweep is resumed to
\* completion, never forever (the reasons, the merge and the save agree).
NewSettles ==
    ( /\ pc = "done" /\ cmd.new /\ ~cmd.count
      /\ cmd.filter = Cases /\ cmd.eval = AnyEval
      /\ authored.spec = loaded.spec ) =>
        \A m \in Models, t \in cmd.tiers :
            \A c \in RunSet([cmd EXCEPT !.failed = FALSE, !.modified = FALSE],
                            disk, authored, m, t) :
                ~(Agent /\ t = "triggers") =>
                    disk.result[m][c].verdict \in {"error", "unmetered"}

\* No step of a sweep (a save of some other unit, an interrupt, a crash)
\* touches the stored result of a defined case the unit being saved did not
\* run, unless --eval narrowed the list (mergeTriggerResults and
\* mergeEvalResults, SaveDir).
Touched(m, c) ==
    pc = "running" /\ unit = <<m, TierOf(c)>>
    /\ (c \in runSet \/ loaded.spec[c] = NoHash)

UntouchedPreserved ==
    [][\A m \in Models, c \in Cases :
          ~Touched(m, c) /\ (c \in Evals => cmd.eval = AnyEval) =>
              disk'.result[m][c] = disk.result[m][c]]_vars

\* The baseline of an eval that has a result and is still defined the same way is
\* neither recomputed nor dropped, whatever happens to the skill's content
\* (baselineStale, mergeBaseline), unless --eval narrowed the list.
BaselineCached ==
    [][\A m \in Models, e \in Evals :
          ( /\ disk.base[m][e] # NoHash
            /\ disk.base[m][e] = loaded.spec[e]
            /\ disk.result[m][e].verdict # "absent"
            /\ cmd.eval = AnyEval ) =>
              /\ disk'.base[m][e] = disk.base[m][e]
              /\ pc' = "running" /\ unit'[1] = m => freshBase'[e] = NoHash]_vars

-----------------------------------------------------------------------------
(* Statements of the documentation that the code does not keep.            *)

\* internal/run/evals.go: "modelApplicable is every eval valid for this model
\* ..., ignoring the selection filter, so a partial rerun preserves the evals
\* it does not touch".
PartialRerunPreserves ==
    [][\A m \in Models, c \in Cases :
          ~Touched(m, c) => disk'.result[m][c] = disk.result[m][c]]_vars

\* internal/run/run.go: "Modified selects cases whose authored content changed
\* since their stored results".
ModifiedFindsChanged ==
    \A m \in Models, c \in Cases :
        Unmodified(disk, m, c) =>
            disk.result[m][c].ran = authored.content[TierOf(c)]
=============================================================================
