----------------------------- MODULE SweepProofs -----------------------------
(***************************************************************************)
(* For every set of cases, models and commands, and every number of edits  *)
(* and sweeps: the state stays well formed; a verdict that --modified      *)
(* would not rerun was produced under the content the author has now, if   *)
(* no sweep was running while that content was edited away; results a unit *)
(* did not run, and baselines that are current, are left alone; and a      *)
(* --new sweep leaves nothing of what it settles to another.               *)
(***************************************************************************)
EXTENDS Sweep, TLAPS

-----------------------------------------------------------------------------
(* What the merge and the save preserve.                                   *)

\* Two well-formed result lists merge into one.
LEMMA MergedType ==
    ASSUME NEW k, NEW at, NEW run, NEW t,
           NEW old \in [Cases -> Result], NEW new \in [Cases -> Result]
    PROVE  Merged(k, at, old, run, new, t) \in [Cases -> Result]
<1>1. Absent \in Result
  BY SweepAssumption DEF Absent, Result, NoHash, Specs, Contents
<1> QED BY <1>1 DEF Merged

\* So do two lists of baselines.
LEMMA MergedBaseType ==
    ASSUME NEW old \in [Evals -> Specs], NEW new \in [Evals -> Specs], NEW results
    PROVE  MergedBase(old, new, results) \in [Evals -> Specs]
<1>1. NoHash \in Specs
  BY SweepAssumption DEF NoHash, Specs
<1> QED BY <1>1 DEF MergedBase

\* Version numbers are numbers.
LEMMA Versions == /\ NoHash \in Specs /\ NoHash \in Contents
                  /\ 1 \in Specs /\ 1 \in 1 .. MaxContent
                  /\ 1 .. MaxContent \subseteq Contents
                  /\ Contents \subseteq Nat /\ Specs \subseteq Nat
BY SweepAssumption DEF NoHash, Specs, Contents

\* Every content has its two fingerprints.
LEMMA ContentType ==
    /\ \A v \in 1 .. MaxContent : Fingerprints(v) \in [Tiers -> 1 .. MaxContent]
    /\ Fingerprints(1) \in [Tiers -> 1 .. MaxContent]
BY Versions, SweepAssumption DEF Fingerprints

\* The constant files, results and commands are well formed.
LEMMA Constants == /\ Absent \in Result /\ Legacy \in Result
                   /\ EmptyFile \in File /\ LegacyFile \in File
                   /\ AnyCommand \in Commands
                   /\ FirstAuthored \in [spec : [Cases -> Specs],
                                         content : [Tiers -> 1 .. MaxContent]]
                   /\ NoResults \in [Cases -> Result]
                   /\ NoBaselines \in [Evals -> Specs]
<1>1. Absent \in Result /\ Legacy \in Result
  BY Versions DEF Absent, Legacy, Result, EvalVerdicts
<1>2. EmptyFile \in File
  BY <1>1, Versions DEF EmptyFile, File
<1>3. LegacyFile \in File
  BY <1>1, Versions DEF EmptyFile, LegacyFile, File
<1>4. AnyCommand \in Commands
  BY SweepAssumption DEF AnyCommand
<1>5. FirstAuthored \in [spec : [Cases -> Specs], content : [Tiers -> 1 .. MaxContent]]
  BY Versions, ContentType DEF FirstAuthored
<1> QED BY <1>1, <1>2, <1>3, <1>4, <1>5, Versions DEF NoResults, NoBaselines

\* The save writes one tier's hash, one model's results and baselines.
LEMMA SavedFile ==
    ASSUME TypeOK, NEW m \in Models, NEW t \in Tiers,
           NEW results \in [Cases -> Result], NEW bases \in [Evals -> Specs],
           Save(m, t, results, bases)
    PROVE  /\ file' \in File /\ disk' = file'
           /\ \A n \in Models, u \in Tiers :
                 file'.hash[n][u] = IF n = m /\ u = t THEN loaded.content[t]
                                    ELSE file.hash[n][u]
           /\ \A n \in Models :
                 file'.result[n] = IF n = m THEN results ELSE file.result[n]
<1>1. file \in File /\ loaded.content[t] \in Contents
  BY Versions DEF TypeOK
<1>2. /\ file'.hash = [file.hash EXCEPT ![m][t] = loaded.content[t]]
      /\ file'.result = [file.result EXCEPT ![m] = results]
      /\ file'.base = [file.base EXCEPT ![m] = bases]
      /\ file' = [hash |-> file'.hash, result |-> file'.result, base |-> file'.base]
  BY <1>1 DEF Save, ContentStamp, File
<1>3. file'.hash \in [Models -> [Tiers -> Contents]]
  BY <1>1, <1>2 DEF File
<1>4. file'.result \in [Models -> [Cases -> Result]]
  BY <1>1, <1>2 DEF File
<1>5. file'.base \in [Models -> [Evals -> Specs]]
  BY <1>1, <1>2 DEF File
<1>6. file' \in File
  BY <1>2, <1>3, <1>4, <1>5 DEF File
<1>7. \A n \in Models, u \in Tiers :
         file'.hash[n][u] = IF n = m /\ u = t THEN loaded.content[t]
                            ELSE file.hash[n][u]
  BY <1>1, <1>2 DEF File
<1>8. \A n \in Models :
         file'.result[n] = IF n = m THEN results ELSE file.result[n]
  BY <1>1, <1>2 DEF File
<1> QED BY <1>6, <1>7, <1>8 DEF Save
-----------------------------------------------------------------------------
(* Type correctness.                                                       *)

\* Whatever file a first sweep finds, the state is well formed.
LEMMA InitType == Init => TypeOK
<1> SUFFICES ASSUME Init PROVE TypeOK
  OBVIOUS
<1>1. disk \in File /\ file \in File
  BY Constants DEF Init
<1>2. partial \in BOOLEAN
  BY Zenon DEF Init
<1> QED BY <1>1, <1>2, Constants DEF Init, TypeOK

\* Saving keeps the state well formed, whatever well-formed lists are saved.
LEMMA SaveType ==
    ASSUME TypeOK, NEW m \in Models, NEW t \in Tiers,
           NEW results \in [Cases -> Result], NEW bases \in [Evals -> Specs],
           Save(m, t, results, bases)
    PROVE  TypeOK'
<1>1. disk' \in File /\ file' \in File
  BY SavedFile
<1>2. partial' \in BOOLEAN
  BY Zenon DEF Save, TypeOK, LeavesChanged
<1> QED BY <1>1, <1>2, Constants DEF Save, TypeOK, Idle

\* The unit in hand is one of the sweep's.
LEMMA UnitType ==
    ASSUME TypeOK, pc = "running"
    PROVE  unit[1] \in Models /\ unit[2] \in Tiers
BY DEF TypeOK

\* A case's run fills in its verdict and what its agents saw.
LEMMA VerdictType ==
    ASSUME TypeOK, NEW c \in Cases, NEW v \in EvalVerdicts, NEW t \in Tiers,
           fresh' = [fresh EXCEPT ![c] = [spec |-> @.spec, verdict |-> v,
                                          ran |-> authored.content[t]]]
    PROVE  /\ fresh' \in [Cases -> Result]
           /\ fresh'[c] = [spec |-> fresh[c].spec, verdict |-> v,
                           ran |-> authored.content[t]]
           /\ \A d \in Cases \ {c} : fresh'[d] = fresh[d]
<1> DEFINE r == [spec |-> fresh[c].spec, verdict |-> v, ran |-> authored.content[t]]
<1>1. fresh \in [Cases -> Result]
  BY DEF TypeOK
<1>2. fresh[c] = [spec |-> fresh[c].spec, verdict |-> fresh[c].verdict,
                  ran |-> fresh[c].ran]
      /\ fresh[c].spec \in Specs
  BY <1>1 DEF Result
<1>3. authored.content[t] \in Contents
  BY Versions DEF TypeOK
<1>4. r \in Result
  BY <1>2, <1>3 DEF Result
<1>5. fresh' = [fresh EXCEPT ![c] = r]
  OBVIOUS
<1> QED BY <1>1, <1>4, <1>5

\* Every action keeps the state well formed.
LEMMA StepType ==
    ASSUME TypeOK, [Next]_vars
    PROVE  TypeOK'
<1>1. ASSUME NEW v \in 1 .. MaxContent, EditContent(v)
      PROVE  TypeOK'
  <2>1. authored' \in [spec : [Cases -> Specs], content : [Tiers -> 1 .. MaxContent]]
    BY <1>1, ContentType DEF EditContent, TypeOK
  <2>2. torn' \in [Tiers -> SUBSET (1 .. MaxContent)]
    BY <1>1 DEF EditContent, TypeOK
  <2>3. edits' \in Nat
    BY <1>1 DEF EditContent, TypeOK
  <2>4. UNCHANGED <<disk, pc, cmd, loaded, file, todo, unitVars, sweeps, partial>>
    BY <1>1 DEF EditContent
  <2> QED BY <2>1, <2>2, <2>3, <2>4 DEF TypeOK, unitVars
<1>2. ASSUME NEW c \in Cases, EditCase(c)
      PROVE  TypeOK'
  <2>1. authored' \in [spec : [Cases -> Specs], content : [Tiers -> 1 .. MaxContent]]
    <3>1. PICK v \in Specs : authored' = [authored EXCEPT !.spec[c] = v]
      BY <1>2 DEF EditCase
    <3>2. authored.spec \in [Cases -> Specs]
          /\ authored.content \in [Tiers -> 1 .. MaxContent]
          /\ authored = [spec |-> authored.spec, content |-> authored.content]
      BY DEF TypeOK
    <3>3. authored' = [spec |-> [authored.spec EXCEPT ![c] = v],
                       content |-> authored.content]
      BY <3>1, <3>2
    <3>4. [authored.spec EXCEPT ![c] = v] \in [Cases -> Specs]
      BY <3>2
    <3> QED BY <3>2, <3>3, <3>4
  <2>2. edits' \in Nat
    BY <1>2 DEF EditCase, TypeOK
  <2>3. UNCHANGED <<disk, pc, cmd, loaded, file, todo, unitVars, sweeps, partial, torn>>
    BY <1>2 DEF EditCase
  <2> QED BY <2>1, <2>2, <2>3 DEF TypeOK, unitVars
<1>3. ASSUME NEW k \in Commands, StartSweep(k)
      PROVE  TypeOK'
  <2>1. todo' \subseteq Models \X Tiers
    <3>1. k.tiers \subseteq Tiers
      BY SweepAssumption DEF AllCommands
    <3> QED BY <1>3, <3>1 DEF StartSweep
  <2> QED BY <1>3, <2>1, Constants DEF StartSweep, TypeOK, Idle
<1>4. ASSUME NEW m \in Models, NEW t \in Tiers, SkipUnit(m, t)
      PROVE  TypeOK'
  BY <1>4 DEF SkipUnit, Eligible, TypeOK, unitVars, history
<1>5. ASSUME NEW m \in Models, NEW t \in Tiers, BeginUnit(m, t)
      PROVE  TypeOK'
  <2>1. fresh' \in [Cases -> Result]
    <3>1. \A c \in Cases : [spec |-> loaded.spec[c], verdict |-> "none", ran |-> NoHash]
                             \in Result
      BY Versions DEF TypeOK, Result
    <3> QED BY <1>5, <3>1, Constants DEF BeginUnit
  <2>2. runSet' \subseteq Cases
    BY <1>5 DEF BeginUnit, Runs, RunSet, ModelApplicable, Narrowed
  <2>3. unit' \in Models \X Tiers /\ unit' # <<>> /\ todo' \subseteq Models \X Tiers
    BY <1>5 DEF BeginUnit, Eligible, TypeOK
  <2> QED BY <1>5, <2>1, <2>2, <2>3, Constants DEF BeginUnit, TypeOK, history
<1>6. ASSUME NEW c \in Queries, NEW v \in TriggerVerdicts, RunTrigger(c, v)
      PROVE  TypeOK'
  <2>1. fresh' \in [Cases -> Result]
    <3>1. c \in Cases /\ v \in EvalVerdicts /\ "triggers" \in Tiers
      BY DEF Cases, TriggerVerdicts, EvalVerdicts, Tiers
    <3> QED BY <1>6, <3>1, VerdictType DEF RunTrigger
  <2> QED BY <1>6, <2>1 DEF RunTrigger, TypeOK, history
<1>7. ASSUME NEW c \in Evals, NEW v \in EvalVerdicts, RunEval(c, v)
      PROVE  TypeOK'
  <2>1. fresh' \in [Cases -> Result]
    <3>1. c \in Cases /\ "evals" \in Tiers
      BY DEF Cases, Tiers
    <3> QED BY <1>7, <3>1, VerdictType DEF RunEval
  <2>2. freshBase' \in [Evals -> Specs]
    BY <1>7 DEF RunEval, TypeOK, Cases
  <2> QED BY <1>7, <2>1, <2>2 DEF RunEval, TypeOK, history
<1>8. CASE CommitTriggers
  <2> DEFINE m == unit[1]
             results == Merged(cmd, loaded, file.result[m], runSet, fresh, "triggers")
  <2>1. m \in Models
    BY <1>8, UnitType DEF CommitTriggers
  <2>2. file.result[m] \in [Cases -> Result] /\ file.base[m] \in [Evals -> Specs]
        /\ fresh \in [Cases -> Result]
    BY <2>1 DEF TypeOK, File
  <2>3. results \in [Cases -> Result]
    BY <2>2, MergedType
  <2>4. Save(m, "triggers", results, file.base[m])
    BY <1>8 DEF CommitTriggers
  <2>5. "triggers" \in Tiers
    BY DEF Tiers
  <2> QED BY <2>1, <2>2, <2>3, <2>4, <2>5, SaveType
<1>9. CASE CommitEvals
  <2> DEFINE m == unit[1]
             results == Merged(cmd, loaded, file.result[m], runSet, fresh, "evals")
             bases == IF cmd.count THEN file.base[m]
                      ELSE MergedBase(file.base[m], freshBase, results)
  <2>1. m \in Models
    BY <1>9, UnitType DEF CommitEvals
  <2>2. file.result[m] \in [Cases -> Result] /\ file.base[m] \in [Evals -> Specs]
        /\ fresh \in [Cases -> Result] /\ freshBase \in [Evals -> Specs]
    BY <2>1 DEF TypeOK, File
  <2>3. results \in [Cases -> Result]
    BY <2>2, MergedType
  <2>4. bases \in [Evals -> Specs]
    BY <2>2, MergedBaseType
  <2>5. Save(m, "evals", results, bases)
    BY <1>9 DEF CommitEvals
  <2>6. "evals" \in Tiers
    BY DEF Tiers
  <2> HIDE DEF m, results, bases
  <2> QED BY <2>1, <2>3, <2>4, <2>5, <2>6, SaveType
<1>10. CASE FinishSweep
  BY <1>10 DEF FinishSweep, TypeOK, unitVars, history
<1>11. CASE Abort
  BY <1>11, Constants DEF Abort, TypeOK, Idle, history
<1>12. CASE UNCHANGED vars
  BY <1>12 DEF vars, TypeOK
<1> QED
  BY <1>1, <1>2, <1>3, <1>4, <1>5, <1>6, <1>7, <1>8, <1>9, <1>10, <1>11, <1>12
  DEF Next

\* The results file, the sweep's copy of it and the unit in hand are always
\* well formed, so no save can write an entry for a case or a model that does
\* not exist.
THEOREM SweepTypeCorrect == Spec => []TypeOK
<1>1. Init => TypeOK
  BY InitType
<1>2. TypeOK /\ [Next]_vars => TypeOK'
  BY StepType
<1> QED BY <1>1, <1>2, PTL DEF Spec
-----------------------------------------------------------------------------
(* Verdicts and the content they were produced under.                      *)

\* What ran under content r may carry the hash h of its tier: it is the same
\* content, or one that was edited away under a sweep.
Vouched(t, h, r) == r = h \/ h \in torn[t]

\* Every graded result with a spec hash carries one it may.
Stamped(f, m, c) ==
    f.result[m][c].verdict \in EvalVerdicts /\ f.result[m][c].spec # NoHash =>
        /\ f.hash[m][TierOf(c)] # NoHash
        /\ Vouched(TierOf(c), f.hash[m][TierOf(c)], f.result[m][c].ran)

\* The content a sweep has loaded is the author's still, or torn.
LoadedIsKnown ==
    pc \in {"units", "running"} =>
        \A t \in Tiers : Vouched(t, loaded.content[t], authored.content[t])

\* What the unit in hand is going to save.
InHand ==
    pc = "running" =>
        /\ runSet = RunSet(cmd, file, loaded, unit[1], unit[2])
        /\ \A c \in runSet : fresh[c].verdict # "none" =>
              Vouched(TierOf(c), loaded.content[TierOf(c)], fresh[c].ran)

SweepInv ==
    /\ TypeOK
    /\ file = disk
    /\ LoadedIsKnown
    /\ InHand
    /\ ~partial => \A m \in Models, c \in Cases : Stamped(disk, m, c)

\* Every case belongs to a tier.
LEMMA TierType == \A c \in Cases : TierOf(c) \in Tiers
BY DEF TierOf, Tiers

\* No content is the empty hash.
LEMMA LoadedType ==
    ASSUME TypeOK, NEW t \in Tiers
    PROVE  loaded.content[t] # NoHash
<1>1. loaded.content[t] \in 1 .. MaxContent
  BY DEF TypeOK
<1> QED BY <1>1, SweepAssumption DEF NoHash

\* The argument behind --modified: a graded case that a full or --modified
\* selection left out was not changed, so it carries the hash of the content the
\* sweep loaded already.
LEMMA LeftOutIsCurrent ==
    ASSUME SweepInv, ~partial, pc = "running", ~LeavesChanged(cmd),
           NEW m, NEW t, unit = <<m, t>>, m \in Models, t \in Tiers,
           NEW c \in ModelApplicable(cmd, loaded, t) \ runSet,
           file.result[m][c].verdict \in EvalVerdicts,
           file.result[m][c].spec # NoHash
    PROVE  Vouched(t, loaded.content[t], file.result[m][c].ran)
<1>1. c \in Cases /\ TierOf(c) = t
  BY DEF ModelApplicable, Narrowed
<1>2. c \notin RunSet(cmd, file, loaded, m, t)
  BY DEF SweepInv, InHand
<1>3. cmd.filter = Cases
  BY DEF LeavesChanged
<1>4. cmd.modified
  BY <1>1, <1>2, <1>3 DEF RunSet, LeavesChanged
<1>5. ~Gap(cmd, file, loaded, m, c)
  BY <1>1, <1>2, <1>3 DEF RunSet
<1>6. file.result[m][c].verdict # "absent"
  BY DEF EvalVerdicts
<1>7. ~CaseChanged(file, loaded, m, c)
  BY <1>1, <1>4, <1>5, <1>6 DEF Gap, TriggerGap, EvalGap, Cases
<1>8. file.hash[m][t] = NoHash \/ file.hash[m][t] = loaded.content[t]
  BY <1>1, <1>7 DEF CaseChanged, Modified
<1>9. Stamped(file, m, c)
  BY <1>1 DEF SweepInv
<1> QED BY <1>1, <1>8, <1>9 DEF Stamped

\* What a unit's merge leaves in the file for one of the model's cases.
LEMMA MergedCase ==
    ASSUME NEW k, NEW at, NEW old, NEW run, NEW new, NEW t, NEW c \in Cases
    PROVE  LET r == Merged(k, at, old, run, new, t)[c]
           IN  \/ TierOf(c) # t /\ r = old[c]
               \/ TierOf(c) = t /\ r = Absent
               \/ TierOf(c) = t /\ c \in run /\ r = new[c]
               \/ /\ TierOf(c) = t /\ r = old[c]
                  /\ c \in ModelApplicable(k, at, t) \ run
BY DEF Merged

\* Saving a finished unit keeps the invariant.
LEMMA CommitKeeps ==
    ASSUME SweepInv, pc = "running", NEW m \in Models, NEW t \in Tiers,
           unit = <<m, t>>, Pending = {}, NEW results, NEW bases \in [Evals -> Specs],
           results = Merged(cmd, loaded, file.result[m], runSet, fresh, t),
           Save(m, t, results, bases)
    PROVE  SweepInv'
<1>1. TypeOK /\ file = disk
  BY DEF SweepInv
<1>2. results \in [Cases -> Result]
  <2>1. file.result[m] \in [Cases -> Result] /\ fresh \in [Cases -> Result]
    BY <1>1 DEF TypeOK, File
  <2> QED BY <2>1, MergedType
<1>3. TypeOK'
  BY <1>1, <1>2, SaveType
<1>4. /\ disk' = file'
      /\ \A n \in Models, u \in Tiers :
            file'.hash[n][u] = IF n = m /\ u = t THEN loaded.content[t]
                               ELSE file.hash[n][u]
      /\ \A n \in Models :
            file'.result[n] = IF n = m THEN results ELSE file.result[n]
  BY <1>1, <1>2, SavedFile
<1>5. /\ UNCHANGED <<authored, loaded, cmd, torn>> /\ pc' = "units"
      /\ partial' = (partial \/ LeavesChanged(cmd))
  BY DEF Save, Idle
<1>6. \A c \in Cases :
         \/ TierOf(c) # t /\ results[c] = file.result[m][c]
         \/ TierOf(c) = t /\ results[c] = Absent
         \/ TierOf(c) = t /\ c \in runSet /\ results[c] = fresh[c]
         \/ /\ TierOf(c) = t /\ results[c] = file.result[m][c]
            /\ c \in ModelApplicable(cmd, loaded, t) \ runSet
  BY MergedCase
<1>7. LoadedIsKnown'
  BY <1>5 DEF SweepInv, LoadedIsKnown, Vouched
<1>8. InHand'
  BY <1>5 DEF InHand
<1>9. ASSUME ~partial', NEW n \in Models, NEW c \in Cases
      PROVE  Stamped(disk, n, c)'
  <2>1. ~partial /\ ~LeavesChanged(cmd)
    BY <1>5, <1>9, Zenon
  <2>2. Stamped(disk, n, c) /\ TierOf(c) \in Tiers
    BY <2>1, TierType DEF SweepInv
  <2>3. CASE n # m \/ TierOf(c) # t
    <3>1. disk'.result[n][c] = disk.result[n][c]
      BY <1>1, <1>4, <1>6, <2>3
    <3>2. disk'.hash[n][TierOf(c)] = disk.hash[n][TierOf(c)]
      BY <1>1, <1>4, <2>2, <2>3
    <3> QED BY <1>5, <2>2, <3>1, <3>2 DEF Stamped, Vouched
  <2>4. CASE n = m /\ TierOf(c) = t
    <3>1. disk'.hash[n][TierOf(c)] = loaded.content[t] /\ disk'.result[n][c] = results[c]
      BY <1>4, <2>4
    <3>2. loaded.content[t] # NoHash
      BY <1>1, LoadedType
    <3>3. ASSUME results[c].verdict \in EvalVerdicts, results[c].spec # NoHash
          PROVE  Vouched(t, loaded.content[t], results[c].ran)
      <4>1. CASE results[c] = Absent
        BY <3>3, <4>1 DEF Absent, EvalVerdicts
      <4>2. CASE c \in runSet /\ results[c] = fresh[c]
        <5>1. fresh[c].verdict # "none"
          BY <3>3, <4>2 DEF EvalVerdicts
        <5> QED BY <2>4, <4>2, <5>1 DEF SweepInv, InHand
      <4>3. CASE /\ results[c] = file.result[m][c]
                 /\ c \in ModelApplicable(cmd, loaded, t) \ runSet
        BY <2>1, <3>3, <4>3, LeftOutIsCurrent
      <4> QED BY <1>6, <2>4, <4>1, <4>2, <4>3
    <3> QED BY <1>5, <2>4, <3>1, <3>2, <3>3 DEF Stamped, Vouched
  <2> QED BY <2>3, <2>4
<1> QED BY <1>3, <1>4, <1>7, <1>8, <1>9 DEF SweepInv

\* Nothing stored yet carries both a verdict and a spec hash.
LEMMA InitInv == Init => SweepInv
<1> SUFFICES ASSUME Init PROVE SweepInv
  OBVIOUS
<1>1. TypeOK
  BY InitType
<1>2. \A m \in Models, c \in Cases :
         disk.result[m][c].verdict \in EvalVerdicts => disk.result[m][c].spec = NoHash
  <2>1. CASE disk = EmptyFile
    BY <2>1 DEF EmptyFile, Absent, NoHash, EvalVerdicts
  <2>2. CASE disk = LegacyFile
    BY <2>2 DEF EmptyFile, LegacyFile, Legacy, NoHash
  <2> QED BY <2>1, <2>2 DEF Init
<1> QED BY <1>1, <1>2 DEF Init, SweepInv, LoadedIsKnown, InHand, Stamped

\* A case's run keeps the invariant: its agents saw the author's content, which
\* is the one the sweep loaded, unless that one is torn.
LEMMA RunKeeps ==
    ASSUME SweepInv, TypeOK', NEW c \in Cases, NEW v \in EvalVerdicts,
           pc = "running",
           fresh' = [fresh EXCEPT ![c] = [spec |-> @.spec, verdict |-> v,
                                          ran |-> authored.content[TierOf(c)]]],
           UNCHANGED <<authored, disk, pc, cmd, loaded, file, unit, runSet, partial,
                       torn>>
    PROVE  SweepInv'
<1>1. TypeOK /\ TierOf(c) \in Tiers
  BY TierType DEF SweepInv
<1>2. /\ fresh'[c].ran = authored.content[TierOf(c)]
      /\ \A d \in Cases \ {c} : fresh'[d] = fresh[d]
  BY <1>1, VerdictType
<1>3. Vouched(TierOf(c), loaded.content[TierOf(c)], authored.content[TierOf(c)])
  BY <1>1 DEF SweepInv, LoadedIsKnown
<1>4. InHand'
  <2>1. ASSUME NEW d \in runSet, fresh'[d].verdict # "none"
        PROVE  Vouched(TierOf(d), loaded.content[TierOf(d)], fresh'[d].ran)
    <3>1. d \in Cases
      BY <1>1 DEF TypeOK
    <3> QED BY <1>2, <1>3, <2>1, <3>1 DEF SweepInv, InHand
  <2> QED BY <2>1 DEF SweepInv, InHand, Vouched
<1>5. LoadedIsKnown' /\ (~partial => \A m \in Models, d \in Cases : Stamped(disk, m, d))'
  BY DEF SweepInv, LoadedIsKnown, Stamped, Vouched
<1> QED BY <1>4, <1>5 DEF SweepInv

\* Every action keeps the invariant.
LEMMA StepInv ==
    ASSUME SweepInv, [Next]_vars
    PROVE  SweepInv'
<1>1. TypeOK /\ TypeOK'
  BY StepType DEF SweepInv
<1>2. ASSUME UNCHANGED <<disk, partial, torn>>
      PROVE  (~partial => \A m \in Models, c \in Cases : Stamped(disk, m, c))'
  BY <1>2 DEF SweepInv, Stamped, Vouched
<1>3. ASSUME NEW v \in 1 .. MaxContent, EditContent(v)
      PROVE  SweepInv'
  <2>1. UNCHANGED <<disk, pc, cmd, loaded, file, unitVars, partial>>
    BY <1>3 DEF EditContent
  <2>2. \A t \in Tiers : torn[t] \subseteq torn'[t]
    BY <1>1, <1>3 DEF EditContent, TypeOK
  <2>3. ASSUME NEW t \in Tiers, NEW h, NEW r, Vouched(t, h, r)
        PROVE  Vouched(t, h, r)'
    BY <2>2, <2>3 DEF Vouched
  <2>4. LoadedIsKnown'
    <3>1. ASSUME pc \in {"units", "running"}, NEW t \in Tiers,
                 loaded.content[t] # authored'.content[t]
          PROVE  loaded.content[t] \in torn'[t]
      BY <1>1, <1>3, <3>1 DEF EditContent, TypeOK
    <3> QED BY <2>1, <3>1 DEF LoadedIsKnown, Vouched
  <2>5. InHand'
    <3>1. ASSUME pc = "running", NEW c \in runSet, fresh[c].verdict # "none"
          PROVE  Vouched(TierOf(c), loaded.content[TierOf(c)], fresh[c].ran)'
      <4>1. TierOf(c) \in Tiers
        BY <1>1, TierType DEF TypeOK
      <4>2. Vouched(TierOf(c), loaded.content[TierOf(c)], fresh[c].ran)
        BY <3>1 DEF SweepInv, InHand
      <4> QED BY <2>1, <2>2, <4>1, <4>2 DEF Vouched, unitVars
    <3> QED BY <2>1, <3>1 DEF SweepInv, InHand, unitVars
  <2>6. (~partial => \A m \in Models, c \in Cases : Stamped(disk, m, c))'
    <3>1. ASSUME ~partial, NEW m \in Models, NEW c \in Cases
          PROVE  Stamped(disk, m, c)'
      <4>1. Stamped(disk, m, c) /\ TierOf(c) \in Tiers
        BY <3>1, TierType DEF SweepInv
      <4> QED BY <2>1, <2>2, <4>1 DEF Stamped, Vouched
    <3> QED BY <2>1, <3>1
  <2> QED BY <1>1, <2>1, <2>4, <2>5, <2>6 DEF SweepInv
<1>4. ASSUME NEW c \in Cases, EditCase(c)
      PROVE  SweepInv'
  <2>1. authored'.content = authored.content
    BY <1>1, <1>4 DEF EditCase, TypeOK
  <2>2. UNCHANGED <<disk, pc, cmd, loaded, file, unitVars, partial, torn>>
    BY <1>4 DEF EditCase
  <2> QED BY <1>1, <1>2, <2>1, <2>2
      DEF SweepInv, LoadedIsKnown, InHand, Vouched, unitVars
<1>5. ASSUME NEW k \in Commands, StartSweep(k)
      PROVE  SweepInv'
  <2>1. /\ pc' = "units" /\ loaded' = authored /\ file' = disk
        /\ UNCHANGED <<authored, disk, partial, torn>>
    BY <1>5 DEF StartSweep
  <2> QED BY <1>1, <1>2, <2>1 DEF SweepInv, LoadedIsKnown, InHand, Vouched
<1>6. ASSUME NEW m \in Models, NEW t \in Tiers, SkipUnit(m, t)
      PROVE  SweepInv'
  BY <1>1, <1>2, <1>6
  DEF SkipUnit, Eligible, unitVars, history, SweepInv, LoadedIsKnown, InHand, Vouched
<1>7. ASSUME NEW m \in Models, NEW t \in Tiers, BeginUnit(m, t)
      PROVE  SweepInv'
  <2>1. runSet' = RunSet(cmd, file, loaded, m, t) /\ unit' = <<m, t>> /\ pc = "units"
    BY <1>7 DEF BeginUnit, Eligible, Runs
  <2>2. \A c \in Cases : c \in runSet' => fresh'[c].verdict = "none"
    BY <1>7 DEF BeginUnit
  <2>3. UNCHANGED <<authored, disk, cmd, loaded, file, partial, torn>>
    BY <1>7 DEF BeginUnit, history
  <2>4. LoadedIsKnown'
    BY <2>1, <2>3 DEF SweepInv, LoadedIsKnown, Vouched
  <2>5. InHand'
    <3>1. runSet' \subseteq Cases
      BY <1>1 DEF TypeOK
    <3>2. RunSet(cmd', file', loaded', unit'[1], unit'[2]) = runSet'
      BY <2>1, <2>3
    <3> QED BY <2>2, <3>1, <3>2 DEF InHand
  <2> QED BY <1>1, <1>2, <2>3, <2>4, <2>5 DEF SweepInv
<1>8. ASSUME NEW c \in Queries, NEW v \in TriggerVerdicts, RunTrigger(c, v)
      PROVE  SweepInv'
  <2>1. c \in Cases /\ v \in EvalVerdicts /\ TierOf(c) = "triggers"
    BY DEF Cases, TriggerVerdicts, EvalVerdicts, TierOf
  <2> QED BY <1>1, <1>8, <2>1, RunKeeps DEF RunTrigger, history
<1>9. ASSUME NEW c \in Evals, NEW v \in EvalVerdicts, RunEval(c, v)
      PROVE  SweepInv'
  <2>1. c \in Cases /\ TierOf(c) = "evals"
    BY SweepAssumption DEF Cases, TierOf
  <2> QED BY <1>1, <1>9, <2>1, RunKeeps DEF RunEval, history
<1>10. CASE CommitTriggers
  <2> DEFINE m == unit[1]
             results == Merged(cmd, loaded, file.result[m], runSet, fresh, "triggers")
  <2>1. pc = "running" /\ m \in Models /\ "triggers" \in Tiers
    BY <1>1, <1>10, UnitType DEF CommitTriggers, Tiers
  <2>2. unit = <<m, "triggers">>
    BY <1>1, <1>10, <2>1 DEF CommitTriggers, TypeOK
  <2>3. file.base[m] \in [Evals -> Specs]
    BY <1>1, <2>1 DEF TypeOK, File
  <2>4. Pending = {} /\ Save(m, "triggers", results, file.base[m])
    BY <1>10 DEF CommitTriggers
  <2> HIDE DEF m
  <2> QED BY <2>1, <2>2, <2>3, <2>4, CommitKeeps
<1>11. CASE CommitEvals
  <2> DEFINE m == unit[1]
             results == Merged(cmd, loaded, file.result[m], runSet, fresh, "evals")
             bases == IF cmd.count THEN file.base[m]
                      ELSE MergedBase(file.base[m], freshBase, results)
  <2>1. pc = "running" /\ m \in Models /\ "evals" \in Tiers
    BY <1>1, <1>11, UnitType DEF CommitEvals, Tiers
  <2>2. unit = <<m, "evals">>
    BY <1>1, <1>11, <2>1 DEF CommitEvals, TypeOK
  <2>3. bases \in [Evals -> Specs]
    <3>1. file.base[m] \in [Evals -> Specs] /\ freshBase \in [Evals -> Specs]
      BY <1>1, <2>1 DEF TypeOK, File
    <3> QED BY <3>1, MergedBaseType
  <2>4. Pending = {} /\ Save(m, "evals", results, bases)
    BY <1>11 DEF CommitEvals
  <2> HIDE DEF m, bases
  <2> QED BY <2>1, <2>2, <2>3, <2>4, CommitKeeps
<1>12. CASE FinishSweep
  BY <1>1, <1>2, <1>12
  DEF FinishSweep, unitVars, history, SweepInv, LoadedIsKnown, InHand
<1>13. CASE Abort
  <2>1. UNCHANGED <<authored, disk, partial, torn>> /\ pc' = "idle" /\ file' = disk
    BY <1>13 DEF Abort, history
  <2> QED BY <1>1, <1>2, <2>1 DEF SweepInv, LoadedIsKnown, InHand
<1>14. CASE UNCHANGED vars
  BY <1>1, <1>2, <1>14 DEF vars, SweepInv, LoadedIsKnown, InHand, Vouched
<1> QED
  BY <1>3, <1>4, <1>5, <1>6, <1>7, <1>8, <1>9, <1>10, <1>11, <1>12, <1>13, <1>14
  DEF Next

\* As long as every saved sweep selected everything or all that had changed, a
\* verdict that --modified leaves alone was produced under the content the
\* author has now, whatever the edits, interrupts and sweeps in between, unless
\* that content was edited away under a sweep that had loaded it.
THEOREM SweepFresh == Spec => []FreshMeansCurrent
<1>1. Init => SweepInv
  BY InitInv
<1>2. SweepInv /\ [Next]_vars => SweepInv'
  BY StepInv
<1>3. SweepInv => FreshMeansCurrent
  <2> SUFFICES ASSUME SweepInv, ~partial, NEW m \in Models, NEW c \in Cases,
                      Unmodified(disk, m, c)
               PROVE  Vouched(TierOf(c), authored.content[TierOf(c)],
                              disk.result[m][c].ran)
    BY DEF FreshMeansCurrent, Vouched
  <2>1. Stamped(disk, m, c)
    BY DEF SweepInv
  <2>2. disk.hash[m][TierOf(c)] = authored.content[TierOf(c)]
    BY <2>1 DEF Stamped, Unmodified, CaseChanged, Modified
  <2> QED BY <2>1, <2>2 DEF Stamped, Unmodified
<1> QED BY <1>1, <1>2, <1>3, PTL DEF Spec
-----------------------------------------------------------------------------
(* What a sweep leaves alone.                                              *)

\* A save leaves every result it does not touch as it was.
LEMMA CommitPreserves ==
    ASSUME SweepInv, pc = "running", NEW m \in Models, NEW t \in Tiers,
           unit = <<m, t>>, NEW results, NEW bases \in [Evals -> Specs],
           results = Merged(cmd, loaded, file.result[m], runSet, fresh, t),
           Save(m, t, results, bases),
           NEW n \in Models, NEW c \in Cases,
           ~Touched(n, c), c \in Evals => cmd.eval = AnyEval
    PROVE  disk'.result[n][c] = disk.result[n][c]
<1>1. TypeOK /\ file = disk
  BY DEF SweepInv
<1>2. results \in [Cases -> Result]
  <2>1. file.result[m] \in [Cases -> Result] /\ fresh \in [Cases -> Result]
    BY <1>1 DEF TypeOK, File
  <2> QED BY <2>1, MergedType
<1>3. disk'.result[n] = IF n = m THEN results ELSE disk.result[n]
  BY <1>1, <1>2, SavedFile
<1>4. CASE n = m /\ TierOf(c) = t
  <2>1. c \notin runSet /\ loaded.spec[c] # NoHash
    BY <1>4 DEF Touched
  <2>2. c \in ModelApplicable(cmd, loaded, t)
    BY <1>4, <2>1 DEF ModelApplicable, Narrowed, TierOf, Cases
  <2>3. results[c] = file.result[m][c]
    BY <1>4, <2>1, <2>2 DEF Merged
  <2> QED BY <1>1, <1>3, <1>4, <2>3
<1>5. CASE n = m /\ TierOf(c) # t
  BY <1>1, <1>3, <1>5 DEF Merged
<1> QED BY <1>3, <1>4, <1>5

\* No save, interrupt or crash loses the stored result of a case that is still
\* authored and was not run, unless --eval narrowed the list.
THEOREM SweepUntouched == Spec => UntouchedPreserved
<1>1. Init => SweepInv
  BY InitInv
<1>2. SweepInv /\ [Next]_vars => SweepInv'
  BY StepInv
<1>3. ASSUME SweepInv, [Next]_vars, NEW n \in Models, NEW c \in Cases,
             ~Touched(n, c), c \in Evals => cmd.eval = AnyEval
      PROVE  disk'.result[n][c] = disk.result[n][c]
  <2>1. TypeOK
    BY <1>3 DEF SweepInv
  <2>2. CASE CommitTriggers
    <3> DEFINE m == unit[1]
               results == Merged(cmd, loaded, file.result[m], runSet, fresh, "triggers")
    <3>1. pc = "running" /\ m \in Models /\ "triggers" \in Tiers
      BY <2>1, <2>2, UnitType DEF CommitTriggers, Tiers
    <3>2. unit = <<m, "triggers">>
      BY <2>1, <2>2, <3>1 DEF CommitTriggers, TypeOK
    <3>3. file.base[m] \in [Evals -> Specs]
      BY <2>1, <3>1 DEF TypeOK, File
    <3>4. Save(m, "triggers", results, file.base[m])
      BY <2>2 DEF CommitTriggers
    <3> HIDE DEF m
    <3> QED BY <1>3, <3>1, <3>2, <3>3, <3>4, CommitPreserves
  <2>3. CASE CommitEvals
    <3> DEFINE m == unit[1]
               results == Merged(cmd, loaded, file.result[m], runSet, fresh, "evals")
               bases == IF cmd.count THEN file.base[m]
                        ELSE MergedBase(file.base[m], freshBase, results)
    <3>1. pc = "running" /\ m \in Models /\ "evals" \in Tiers
      BY <2>1, <2>3, UnitType DEF CommitEvals, Tiers
    <3>2. unit = <<m, "evals">>
      BY <2>1, <2>3, <3>1 DEF CommitEvals, TypeOK
    <3>3. bases \in [Evals -> Specs]
      <4>1. file.base[m] \in [Evals -> Specs] /\ freshBase \in [Evals -> Specs]
        BY <2>1, <3>1 DEF TypeOK, File
      <4> QED BY <4>1, MergedBaseType
    <3>4. Save(m, "evals", results, bases)
      BY <2>3 DEF CommitEvals
    <3> HIDE DEF m, bases
    <3> QED BY <1>3, <3>1, <3>2, <3>3, <3>4, CommitPreserves
  <2>4. CASE ~CommitTriggers /\ ~CommitEvals
    <3>1. disk' = disk
      BY <1>3, <2>4
      DEF Next, vars, history, EditContent, EditCase, StartSweep, SkipUnit, BeginUnit,
          RunTrigger, RunEval, FinishSweep, Abort
    <3> QED BY <3>1
  <2> QED BY <2>2, <2>3, <2>4
<1>4. SweepInv /\ [Next]_vars =>
        [\A m \in Models, c \in Cases :
            ~Touched(m, c) /\ (c \in Evals => cmd.eval = AnyEval) =>
                disk'.result[m][c] = disk.result[m][c]]_vars
  BY <1>3
<1> QED BY <1>1, <1>2, <1>4, PTL DEF Spec, UntouchedPreserved
-----------------------------------------------------------------------------
(* What a unit has produced, and what a --new sweep leaves to do.          *)

\* A case that ran has a result and, if it needed one, a baseline; baselines
\* are recomputed only for evals that needed one.
Filled ==
    /\ \A c \in runSet : fresh[c].verdict # "absent"
    /\ \A e \in Evals : freshBase[e] # NoHash =>
          /\ pc = "running" /\ unit[2] = "evals"
          /\ freshBase[e] = loaded.spec[e]
          /\ BaselineNeeded(cmd, file.base[unit[1]][e], loaded.spec[e])
    /\ pc = "running" => \A e \in runSet \cap Evals :
          /\ fresh[e].verdict # "none"
          /\ BaselineNeeded(cmd, file.base[unit[1]][e], loaded.spec[e])
          => freshBase[e] = loaded.spec[e]

\* The work a --new sweep finds in a case.
Wanted(f, at, m, c) ==
    \/ f.result[m][c].verdict \in {"absent", "none"}
    \/ c \in Evals /\ f.result[m][c].verdict = "error"
    \/ c \in Evals /\ ReportsUsage /\ f.result[m][c].verdict = "unmetered"
    \/ c \in Evals /\ BaselineNeeded(cmd, f.base[m][c], at.spec[c])

\* A --new sweep over every case.
Settling == cmd.new /\ ~cmd.count /\ cmd.filter = Cases /\ cmd.eval = AnyEval

\* It has left nothing to do in a unit, but what errored or was not metered.
Settled(m, t) ==
    \A c \in ModelApplicable(cmd, loaded, t) :
        Wanted(file, loaded, m, c) => file.result[m][c].verdict \in {"error", "unmetered"}

Visited(m, t) == /\ pc \in {"units", "running", "done"} /\ t \in cmd.tiers
                 /\ <<m, t>> \notin todo
                 /\ pc = "running" => unit # <<m, t>>
                 /\ ~(Agent /\ t = "triggers")

SettleInv ==
    /\ pc = "done" => todo = {}
    /\ Settling => \A m \in Models, t \in Tiers : Visited(m, t) => Settled(m, t)

\* What a --new sweep over every case would find next.
LEMMA WhatIsLeft ==
    ASSUME TypeOK, Settling, NEW f, NEW at, NEW m, NEW t
    PROVE  RunSet([cmd EXCEPT !.failed = FALSE, !.modified = FALSE], f, at, m, t) =
               {c \in ModelApplicable(cmd, at, t) : Wanted(f, at, m, c)}
<1> DEFINE k == [cmd EXCEPT !.failed = FALSE, !.modified = FALSE]
<1>1. cmd \in AllCommands
  BY SweepAssumption DEF TypeOK
<1>2. /\ k.new = TRUE /\ k.count = FALSE /\ k.failed = FALSE /\ k.modified = FALSE
      /\ k.filter = Cases /\ k.eval = cmd.eval /\ k.baseline = cmd.baseline
  BY <1>1, Zenon DEF AllCommands, Settling
<1> HIDE DEF k
<1>3. /\ ModelApplicable(k, at, t) = ModelApplicable(cmd, at, t)
      /\ ModelApplicable(k, at, t) \subseteq Cases
  BY <1>2 DEF ModelApplicable, Narrowed
<1>4. ASSUME NEW c \in Cases
      PROVE  Gap(k, f, at, m, c) <=> Wanted(f, at, m, c)
  <2>1. BaselineNeeded(k, f.base[m][c], at.spec[c])
        <=> BaselineNeeded(cmd, f.base[m][c], at.spec[c])
    BY <1>2 DEF BaselineNeeded, Settling
  <2>2. c \in Queries \/ c \in Evals
    BY DEF Cases
  <2> QED BY <1>2, <2>1, <2>2 DEF Gap, Wanted, TriggerGap, EvalGap
<1>5. RunSet(k, f, at, m, t) = {c \in ModelApplicable(cmd, at, t) : Wanted(f, at, m, c)}
  BY <1>2, <1>3, <1>4 DEF RunSet
<1> QED BY <1>5 DEF k

\* A sweep that selects new cases selects all of that.
LEMMA WantedRuns ==
    ASSUME Settling, NEW m, NEW t, NEW c \in ModelApplicable(cmd, loaded, t),
           Wanted(file, loaded, m, c)
    PROVE  c \in RunSet(cmd, file, loaded, m, t)
<1>1. c \in Cases
  BY DEF ModelApplicable, Narrowed
<1>2. Gap(cmd, file, loaded, m, c)
  BY <1>1 DEF Gap, Wanted, TriggerGap, EvalGap, Settling, Cases
<1> QED BY <1>1, <1>2 DEF RunSet, Settling

\* The list a unit leaves in the file, once more, for the results of its own tier.
LEMMA OwnTier ==
    ASSUME NEW old, NEW t, NEW c \in ModelApplicable(cmd, loaded, t)
    PROVE  Merged(cmd, loaded, old, runSet, fresh, t)[c] =
               IF c \in runSet THEN fresh[c] ELSE old[c]
BY DEF Merged, ModelApplicable, Narrowed

\* A save changes nothing in another unit's results and baselines.
LEMMA SavedBase ==
    ASSUME TypeOK, NEW m \in Models, NEW t \in Tiers,
           NEW results \in [Cases -> Result], NEW bases \in [Evals -> Specs],
           Save(m, t, results, bases)
    PROVE  \A n \in Models : file'.base[n] = IF n = m THEN bases ELSE file.base[n]
<1>1. file \in File /\ loaded.content[t] \in Contents
  BY Versions DEF TypeOK
<1>2. file'.base = [file.base EXCEPT ![m] = bases]
  BY <1>1 DEF Save, ContentStamp, File
<1> QED BY <1>1, <1>2 DEF File

\* The baselines a unit saves.
BasesOf(m, t, results) ==
    IF t = "triggers" \/ cmd.count THEN file.base[m]
    ELSE MergedBase(file.base[m], freshBase, results)

LEMMA BasesType ==
    ASSUME TypeOK, NEW m \in Models, NEW t, NEW results
    PROVE  BasesOf(m, t, results) \in [Evals -> Specs]
<1>1. file.base[m] \in [Evals -> Specs] /\ freshBase \in [Evals -> Specs]
  BY DEF TypeOK, File
<1> QED BY <1>1, MergedBaseType DEF BasesOf

\* A finished unit of either tier is saved.
Commit(m, t) ==
    /\ pc = "running" /\ unit = <<m, t>> /\ Pending = {}
    /\ LET results == Merged(cmd, loaded, file.result[m], runSet, fresh, t)
       IN  Save(m, t, results, BasesOf(m, t, results))

LEMMA Commits ==
    ASSUME TypeOK, CommitTriggers \/ CommitEvals
    PROVE  \E m \in Models, t \in Tiers : Commit(m, t)
<1>1. pc = "running" /\ unit[1] \in Models /\ unit[2] \in Tiers /\ Pending = {}
      /\ unit = <<unit[1], unit[2]>>
  BY UnitType DEF CommitTriggers, CommitEvals, TypeOK
<1>2. Commit(unit[1], unit[2])
  <2>1. CASE CommitTriggers
    BY <1>1, <2>1 DEF CommitTriggers, Commit, BasesOf
  <2>2. CASE CommitEvals
    BY <1>1, <2>2 DEF CommitEvals, Commit, BasesOf
  <2> QED BY <2>1, <2>2
<1> QED BY <1>1, <1>2

\* What a save leaves for a case of the unit's tier and for every other.
LEMMA CommitLeaves ==
    ASSUME SweepInv, Filled, NEW m \in Models, NEW t \in Tiers, Commit(m, t)
    PROVE  /\ \A c \in ModelApplicable(cmd, loaded, t) :
                 file'.result[m][c] = IF c \in runSet THEN fresh[c] ELSE file.result[m][c]
           /\ \A n \in Models, c \in Cases :
                 n # m \/ TierOf(c) # t => /\ file'.result[n][c] = file.result[n][c]
                                           /\ c \in Evals => file'.base[n][c] = file.base[n][c]
           /\ t = "evals" /\ ~cmd.count => \A e \in ModelApplicable(cmd, loaded, t) :
                 file'.result[m][e].verdict # "absent" =>
                     file'.base[m][e] = IF freshBase[e] # NoHash THEN freshBase[e]
                                        ELSE file.base[m][e]
           /\ t = "evals" /\ cmd.count => file'.base[m] = file.base[m]
<1> DEFINE results == Merged(cmd, loaded, file.result[m], runSet, fresh, t)
           bases == BasesOf(m, t, results)
<1>1. TypeOK /\ Save(m, t, results, bases)
  BY DEF SweepInv, Commit
<1>2. results \in [Cases -> Result]
  <2>1. file.result[m] \in [Cases -> Result] /\ fresh \in [Cases -> Result]
    BY <1>1 DEF TypeOK, File
  <2> QED BY <2>1, MergedType
<1>3. bases \in [Evals -> Specs]
  BY <1>1, BasesType
<1>4. \A c \in ModelApplicable(cmd, loaded, t) :
         results[c] = IF c \in runSet THEN fresh[c] ELSE file.result[m][c]
  BY OwnTier
<1>5. \A c \in Cases : TierOf(c) # t => results[c] = file.result[m][c]
  BY DEF Merged
<1>6. \A e \in Evals : TierOf(e) # t => bases[e] = file.base[m][e]
  BY SweepAssumption DEF BasesOf, TierOf, Tiers
<1>7. t = "evals" /\ ~cmd.count => \A e \in Evals :
         results[e].verdict # "absent" =>
             bases[e] = IF freshBase[e] # NoHash THEN freshBase[e] ELSE file.base[m][e]
  BY DEF BasesOf, MergedBase
<1>8. t = "evals" /\ cmd.count => bases = file.base[m]
  BY DEF BasesOf
<1>9. \A e \in ModelApplicable(cmd, loaded, "evals") : e \in Evals
  BY DEF ModelApplicable, Narrowed, TierOf, Cases
<1> HIDE DEF results, bases
<1>10. \A n \in Models : file'.result[n] = IF n = m THEN results ELSE file.result[n]
  BY <1>1, <1>2, <1>3, SavedFile
<1>11. \A n \in Models : file'.base[n] = IF n = m THEN bases ELSE file.base[n]
  BY <1>1, <1>2, <1>3, SavedBase
<1> QED BY <1>4, <1>5, <1>6, <1>7, <1>8, <1>9, <1>10, <1>11

\* Before a unit is begun nothing is in hand.
LEMMA IdleFills ==
    ASSUME Idle
    PROVE  runSet' = {} /\ (\A e \in Evals : freshBase'[e] = NoHash)
BY DEF Idle, NoBaselines

\* Every action keeps Filled.
LEMMA StepFilled ==
    ASSUME SweepInv, Filled, [Next]_vars
    PROVE  Filled'
<1>1. TypeOK
  BY DEF SweepInv
<1>2. ASSUME UNCHANGED <<runSet, fresh, freshBase, pc, unit, loaded, cmd, file>>
      PROVE  Filled'
  BY <1>2 DEF Filled
<1>3. ASSUME Idle, pc' # "running"
      PROVE  Filled'
  BY <1>3, IdleFills DEF Filled
<1>4. ASSUME NEW m \in Models, NEW t \in Tiers, BeginUnit(m, t)
      PROVE  Filled'
  <2>1. /\ pc = "units" /\ pc' = "running" /\ runSet' \subseteq Cases
        /\ \A c \in runSet' : fresh'[c].verdict = "none"
        /\ \A e \in Evals : freshBase'[e] = NoHash
    BY <1>4 DEF BeginUnit, Eligible, Runs, RunSet, ModelApplicable, Narrowed, NoBaselines
  <2> QED BY <2>1 DEF Filled
<1>5. ASSUME NEW c \in Queries, NEW v \in TriggerVerdicts, RunTrigger(c, v)
      PROVE  Filled'
  <2>1. /\ c \in Cases /\ c \notin Evals /\ v \in EvalVerdicts /\ v # "absent"
        /\ "triggers" \in Tiers
    BY SweepAssumption DEF Cases, TriggerVerdicts, EvalVerdicts, Tiers
  <2>2. /\ fresh'[c].verdict = v
        /\ \A d \in Cases \ {c} : fresh'[d] = fresh[d]
    BY <1>1, <1>5, <2>1, VerdictType DEF RunTrigger
  <2>3. UNCHANGED <<runSet, freshBase, pc, unit, loaded, cmd, file>>
    BY <1>5 DEF RunTrigger
  <2>4. runSet \subseteq Cases
    BY <1>1 DEF TypeOK
  <2>5. \A d \in runSet' : fresh'[d].verdict # "absent"
    BY <2>1, <2>2, <2>3, <2>4 DEF Filled
  <2>6. \A e \in runSet' \cap Evals : fresh'[e] = fresh[e]
    BY <2>1, <2>2, <2>3, <2>4
  <2> QED BY <2>3, <2>5, <2>6 DEF Filled
<1>6. ASSUME NEW c \in Evals, NEW v \in EvalVerdicts, RunEval(c, v)
      PROVE  Filled'
  <2> DEFINE Needed(e) == BaselineNeeded(cmd, file.base[unit[1]][e], loaded.spec[e])
  <2>1. c \in Cases /\ v # "absent" /\ "evals" \in Tiers
    BY DEF Cases, EvalVerdicts, Tiers
  <2>2. /\ fresh'[c].verdict = v
        /\ \A d \in Cases \ {c} : fresh'[d] = fresh[d]
    BY <1>1, <1>6, <2>1, VerdictType DEF RunEval
  <2>3. UNCHANGED <<runSet, pc, unit, loaded, cmd, file>>
        /\ pc = "running" /\ unit[2] = "evals"
    BY <1>6 DEF RunEval
  <2>4. runSet \subseteq Cases /\ freshBase \in [Evals -> Specs]
    BY <1>1 DEF TypeOK
  <2>5. freshBase' = IF Needed(c) THEN [freshBase EXCEPT ![c] = loaded.spec[c]]
                     ELSE freshBase
    BY <1>6 DEF RunEval
  <2>6. \A d \in runSet' : fresh'[d].verdict # "absent"
    BY <2>1, <2>2, <2>3, <2>4 DEF Filled
  <2> HIDE DEF Needed
  <2>7. /\ Needed(c) => freshBase'[c] = loaded.spec[c]
        /\ ~Needed(c) => freshBase'[c] = freshBase[c]
        /\ \A e \in Evals \ {c} : freshBase'[e] = freshBase[e]
    BY <2>4, <2>5
  <2>8. \A e \in Evals : freshBase'[e] # NoHash =>
                             freshBase'[e] = loaded.spec[e] /\ Needed(e)
    <3>1. \A e \in Evals : freshBase[e] # NoHash =>
                             freshBase[e] = loaded.spec[e] /\ Needed(e)
      BY DEF Filled, Needed
    <3> QED BY <2>7, <3>1
  <2>9. \A e \in runSet \cap Evals :
           fresh'[e].verdict # "none" /\ Needed(e) => freshBase'[e] = loaded.spec[e]
    <3>1. \A e \in runSet \cap Evals :
             fresh[e].verdict # "none" /\ Needed(e) => freshBase[e] = loaded.spec[e]
      BY <2>3 DEF Filled, Needed
    <3> QED BY <2>2, <2>4, <2>7, <3>1
  <2> QED BY <2>3, <2>6, <2>8, <2>9 DEF Filled, Needed
<1>7. ASSUME NEW m \in Models, NEW t \in Tiers, SkipUnit(m, t)
      PROVE  Filled'
  BY <1>2, <1>7 DEF SkipUnit, unitVars
<1>8. ASSUME CommitTriggers \/ CommitEvals
      PROVE  Filled'
  BY <1>3, <1>8 DEF CommitTriggers, CommitEvals, Save
<1>9. ASSUME NEW k \in Commands, StartSweep(k)
      PROVE  Filled'
  BY <1>3, <1>9 DEF StartSweep
<1>10. CASE Abort
  BY <1>3, <1>10 DEF Abort
<1>11. CASE FinishSweep
  <2>1. pc = "units" /\ pc' = "done" /\ UNCHANGED <<runSet, fresh, freshBase>>
    BY <1>11 DEF FinishSweep, unitVars
  <2> QED BY <2>1 DEF Filled
<1>12. ASSUME NEW v, EditContent(v)
       PROVE  Filled'
  BY <1>2, <1>12 DEF EditContent, unitVars
<1>13. ASSUME NEW c, EditCase(c)
       PROVE  Filled'
  BY <1>2, <1>13 DEF EditCase, unitVars
<1>14. CASE UNCHANGED vars
  BY <1>2, <1>14 DEF vars
<1> QED
  BY <1>4, <1>5, <1>6, <1>7, <1>8, <1>9, <1>10, <1>11, <1>12, <1>13, <1>14 DEF Next

\* The unit that is saved is settled.
LEMMA CommitSettles ==
    ASSUME SweepInv, Filled, Settling, NEW m \in Models, NEW t \in Tiers, Commit(m, t),
           ~(Agent /\ t = "triggers"),
           NEW c \in ModelApplicable(cmd, loaded, t), Wanted(file', loaded, m, c)
    PROVE  file'.result[m][c].verdict \in {"error", "unmetered"}
<1>1. /\ TypeOK /\ pc = "running" /\ unit = <<m, t>> /\ Pending = {}
      /\ runSet = RunSet(cmd, file, loaded, m, t)
  BY DEF SweepInv, InHand, Commit
<1>2. c \in Cases /\ TierOf(c) = t /\ loaded.spec[c] # NoHash
  BY DEF ModelApplicable, Narrowed
<1>3. file'.result[m][c] = IF c \in runSet THEN fresh[c] ELSE file.result[m][c]
  BY CommitLeaves
<1>4. CASE c \in runSet
  <2>1. fresh[c].verdict \notin {"none", "absent"}
    BY <1>1, <1>4 DEF Pending, Filled, Settling
  <2>2. c \in Evals /\ t = "evals"
    BY <1>2, <1>3, <1>4, <2>1, SweepAssumption DEF Wanted, TierOf, Cases
  <2>3. fresh[c].verdict \in EvalVerdicts
    BY <1>1, <1>2, <2>1 DEF TypeOK, Result
  <2>4. file'.base[m][c] = IF freshBase[c] # NoHash THEN freshBase[c] ELSE file.base[m][c]
    BY <1>3, <1>4, <2>1, <2>2, CommitLeaves DEF Settling
  <2>5. /\ freshBase[c] # NoHash => freshBase[c] = loaded.spec[c]
        /\ BaselineNeeded(cmd, file.base[m][c], loaded.spec[c]) =>
              freshBase[c] = loaded.spec[c]
    BY <1>1, <1>4, <2>1, <2>2 DEF Filled
  <2>6. ~BaselineNeeded(cmd, file'.base[m][c], loaded.spec[c])
    BY <1>2, <2>4, <2>5 DEF BaselineNeeded
  <2> QED BY <1>3, <1>4, <2>1, <2>6 DEF Wanted
<1>5. CASE c \notin runSet
  <2>1. ~Wanted(file, loaded, m, c)
    BY <1>1, <1>5, WantedRuns
  <2>2. c \in Evals /\ t = "evals"
    BY <1>2, <1>3, <1>5, <2>1, SweepAssumption DEF Wanted, TierOf, Cases
  <2>3. file'.base[m][c] = IF freshBase[c] # NoHash THEN freshBase[c] ELSE file.base[m][c]
    BY <1>3, <1>5, <2>1, <2>2, CommitLeaves DEF Wanted, Settling
  <2>4. freshBase[c] # NoHash => freshBase[c] = loaded.spec[c]
    BY <2>2 DEF Filled
  <2>5. ~BaselineNeeded(cmd, file'.base[m][c], loaded.spec[c])
    BY <2>1, <2>2, <2>3, <2>4 DEF Wanted, BaselineNeeded
  <2> QED BY <1>3, <1>5, <2>1, <2>5 DEF Wanted
<1> QED BY <1>4, <1>5

\* Every action keeps SettleInv.
LEMMA StepSettle ==
    ASSUME SweepInv, Filled, SettleInv, [Next]_vars
    PROVE  SettleInv'
<1>1. TypeOK
  BY DEF SweepInv
<1>2. ASSUME UNCHANGED <<cmd, loaded, file, todo, unit>>, pc' = pc
      PROVE  SettleInv'
  BY <1>2 DEF SettleInv, Settling, Visited, Settled, Wanted
<1>3. ASSUME NEW m \in Models, NEW t \in Tiers, SkipUnit(m, t)
      PROVE  SettleInv'
  <2>1. /\ Runs(m, t) = {} /\ pc = "units"
        /\ todo' = todo \ {<<m, t>>} /\ UNCHANGED <<cmd, loaded, file, unit, pc>>
    BY <1>3 DEF SkipUnit, Eligible, unitVars
  <2>2. Settling /\ ~(Agent /\ t = "triggers") => Settled(m, t)
    BY <2>1, WantedRuns DEF Runs, Settled, Settling
  <2>3. ASSUME Settling, NEW n \in Models, NEW u \in Tiers, Visited(n, u)'
        PROVE  Settled(n, u)
    <3>1. CASE n = m /\ u = t
      BY <2>2, <2>3, <3>1 DEF Visited
    <3>2. CASE ~(n = m /\ u = t)
      <4>1. Visited(n, u)
        BY <2>1, <2>3, <3>2 DEF Visited
      <4> QED BY <2>3, <4>1 DEF SettleInv
    <3> QED BY <3>1, <3>2
  <2>4. /\ Settling' <=> Settling
        /\ \A n \in Models, u \in Tiers : Settled(n, u)' <=> Settled(n, u)
    BY <2>1 DEF Settling, Settled, Wanted
  <2> QED BY <2>1, <2>3, <2>4 DEF SettleInv
<1>4. ASSUME NEW m \in Models, NEW t \in Tiers, BeginUnit(m, t)
      PROVE  SettleInv'
  <2>1. /\ pc = "units" /\ pc' = "running" /\ unit' = <<m, t>>
        /\ todo' = todo \ {<<m, t>>} /\ UNCHANGED <<cmd, loaded, file>>
    BY <1>4 DEF BeginUnit, Eligible
  <2>2. ASSUME NEW n \in Models, NEW u \in Tiers, Visited(n, u)'
        PROVE  Visited(n, u)
    BY <2>1, <2>2 DEF Visited
  <2>3. /\ Settling' <=> Settling
        /\ \A n \in Models, u \in Tiers : Settled(n, u)' <=> Settled(n, u)
    BY <2>1 DEF Settling, Settled, Wanted
  <2> QED BY <2>1, <2>2, <2>3 DEF SettleInv
<1>5. ASSUME CommitTriggers \/ CommitEvals
      PROVE  SettleInv'
  <2>1. PICK m \in Models, t \in Tiers : Commit(m, t)
    BY <1>1, <1>5, Commits
  <2>2. /\ pc = "running" /\ unit = <<m, t>> /\ pc' = "units"
        /\ UNCHANGED <<cmd, loaded, todo>>
    BY <2>1 DEF Commit, Save
  <2>3. ASSUME Settling, NEW n \in Models, NEW u \in Tiers, Visited(n, u)',
               NEW c \in ModelApplicable(cmd, loaded, u), Wanted(file', loaded, n, c)
        PROVE  file'.result[n][c].verdict \in {"error", "unmetered"}
    <3>1. CASE n = m /\ u = t
      BY <2>1, <2>2, <2>3, <3>1, CommitSettles DEF Visited
    <3>2. CASE ~(n = m /\ u = t)
      <4>1. Visited(n, u)
        BY <2>2, <2>3, <3>2 DEF Visited
      <4>2. Settled(n, u)
        BY <2>3, <4>1 DEF SettleInv
      <4>3. c \in Cases /\ TierOf(c) = u
        BY DEF ModelApplicable, Narrowed
      <4>4. /\ file'.result[n][c] = file.result[n][c]
            /\ c \in Evals => file'.base[n][c] = file.base[n][c]
        BY <2>1, <3>2, <4>3, CommitLeaves
      <4>5. Wanted(file, loaded, n, c)
        BY <2>3, <4>4 DEF Wanted
      <4> QED BY <4>2, <4>4, <4>5 DEF Settled
    <3> QED BY <3>1, <3>2
  <2>4. /\ Settling' <=> Settling
        /\ \A n \in Models, u \in Tiers : Settled(n, u)' <=>
              \A c \in ModelApplicable(cmd, loaded, u) : Wanted(file', loaded, n, c) =>
                 file'.result[n][c].verdict \in {"error", "unmetered"}
    BY <2>2 DEF Settling, Settled, Wanted
  <2> QED BY <2>2, <2>3, <2>4 DEF SettleInv
<1>6. ASSUME NEW k \in Commands, StartSweep(k)
      PROVE  SettleInv'
  <2>1. todo' = Models \X k.tiers /\ cmd' = k /\ pc' = "units"
    BY <1>6 DEF StartSweep
  <2>2. \A m \in Models, t \in Tiers : ~Visited(m, t)'
    BY <2>1 DEF Visited
  <2> QED BY <2>1, <2>2 DEF SettleInv
<1>7. CASE Abort
  <2>1. pc' = "idle"
    BY <1>7 DEF Abort
  <2> QED BY <2>1 DEF SettleInv, Visited
<1>8. CASE FinishSweep
  <2>1. pc = "units" /\ pc' = "done" /\ UNCHANGED <<cmd, loaded, file, todo, unit>>
        /\ todo = {}
    BY <1>8 DEF FinishSweep, unitVars
  <2> QED BY <2>1 DEF SettleInv, Settling, Visited, Settled, Wanted
<1>9. ASSUME NEW v, EditContent(v)
      PROVE  SettleInv'
  BY <1>2, <1>9 DEF EditContent, unitVars
<1>10. ASSUME NEW c, EditCase(c)
       PROVE  SettleInv'
  BY <1>2, <1>10 DEF EditCase, unitVars
<1>11. ASSUME NEW c, NEW v, RunTrigger(c, v) \/ RunEval(c, v)
       PROVE  SettleInv'
  BY <1>2, <1>11 DEF RunTrigger, RunEval
<1>12. CASE UNCHANGED vars
  BY <1>2, <1>12 DEF vars
<1> QED
  BY <1>3, <1>4, <1>5, <1>6, <1>7, <1>8, <1>9, <1>10, <1>11, <1>12 DEF Next

UnitInv == SweepInv /\ Filled /\ SettleInv

\* What a unit has in hand, and what a --new sweep has settled, at every moment.
THEOREM SweepUnits == Spec => []UnitInv
<1>1. Init => UnitInv
  <2> SUFFICES ASSUME Init PROVE UnitInv
    OBVIOUS
  <2>1. SweepInv
    BY InitInv
  <2>2. pc = "idle" /\ runSet = {} /\ freshBase = NoBaselines
    BY DEF Init
  <2> QED BY <2>1, <2>2 DEF UnitInv, Filled, SettleInv, Visited, NoBaselines
<1>2. UnitInv /\ [Next]_vars => UnitInv'
  BY StepInv, StepFilled, StepSettle DEF UnitInv
<1> QED BY <1>1, <1>2, PTL DEF Spec

\* However it was interrupted and resumed, a --new sweep over every case leaves a
\* second one nothing to do, but evals whose run errored or reported no usage.
THEOREM SweepNewSettles == Spec => []NewSettles
<1>1. UnitInv => NewSettles
  <2> DEFINE rest(m, t) == RunSet([cmd EXCEPT !.failed = FALSE, !.modified = FALSE],
                                  disk, authored, m, t)
  <2> SUFFICES ASSUME UnitInv, pc = "done", Settling, authored.spec = loaded.spec,
                      NEW m \in Models, NEW t \in cmd.tiers, NEW c \in rest(m, t),
                      ~(Agent /\ t = "triggers")
               PROVE  disk.result[m][c].verdict \in {"error", "unmetered"}
    BY DEF NewSettles, Settling
  <2>1. TypeOK /\ file = disk
    BY DEF UnitInv, SweepInv
  <2>2. t \in Tiers
    BY <2>1, SweepAssumption DEF TypeOK, AllCommands
  <2>3. c \in ModelApplicable(cmd, authored, t) /\ Wanted(disk, authored, m, c)
    BY <2>1, WhatIsLeft
  <2>4. c \in ModelApplicable(cmd, loaded, t) /\ Wanted(file, loaded, m, c)
    BY <2>1, <2>3 DEF ModelApplicable, Wanted
  <2> HIDE DEF rest
  <2>5. Visited(m, t)
    BY DEF UnitInv, SettleInv, Visited
  <2> QED BY <2>1, <2>2, <2>4, <2>5 DEF UnitInv, SettleInv, Settled
<1> QED BY SweepUnits, <1>1, PTL

\* Saving a unit keeps the baseline of an unchanged eval that has a result.
LEMMA CommitKeepsBase ==
    ASSUME SweepInv, Filled, NEW m \in Models, NEW t \in Tiers, Commit(m, t),
           NEW n \in Models, NEW e \in Evals, cmd.eval = AnyEval,
           disk.base[n][e] # NoHash, disk.base[n][e] = loaded.spec[e],
           disk.result[n][e].verdict # "absent"
    PROVE  disk'.base[n][e] = disk.base[n][e]
<1>1. /\ TypeOK /\ file = disk /\ disk' = file' /\ pc = "running" /\ unit = <<m, t>>
  BY DEF SweepInv, Commit, Save
<1>2. e \in Cases /\ TierOf(e) = "evals"
  BY SweepAssumption DEF Cases, TierOf
<1>3. CASE n = m /\ t = "evals"
  <2>1. e \in ModelApplicable(cmd, loaded, t)
    BY <1>2, <1>3 DEF ModelApplicable, Narrowed
  <2>2. file'.result[m][e].verdict # "absent"
    BY <1>1, <1>3, <2>1, CommitLeaves DEF Filled
  <2>3. CASE cmd.count
    BY <1>1, <1>3, <2>3, CommitLeaves
  <2>4. CASE ~cmd.count
    <3>1. freshBase[e] = NoHash
      BY <1>1, <1>3 DEF Filled, BaselineNeeded
    <3> QED BY <1>1, <1>3, <2>1, <2>2, <2>4, <3>1, CommitLeaves
  <2> QED BY <2>3, <2>4
<1>4. CASE n # m \/ t # "evals"
  BY <1>1, <1>2, <1>4, CommitLeaves
<1> QED BY <1>3, <1>4

\* No edit of the skill and no sweep, interrupted or not, recomputes or loses the
\* baseline of an eval that has a result and is still defined as it was.
THEOREM SweepBaselines == Spec => BaselineCached
<1> DEFINE Cached(m, e) == /\ disk.base[m][e] # NoHash
                           /\ disk.base[m][e] = loaded.spec[e]
                           /\ disk.result[m][e].verdict # "absent"
                           /\ cmd.eval = AnyEval
           Kept(m, e) == /\ disk'.base[m][e] = disk.base[m][e]
                         /\ pc' = "running" /\ unit'[1] = m => freshBase'[e] = NoHash
<1>1. ASSUME UnitInv, [Next]_vars, NEW m \in Models, NEW e \in Evals, Cached(m, e)
      PROVE  Kept(m, e)
  <2>1. SweepInv /\ Filled /\ TypeOK /\ file = disk
    BY <1>1 DEF UnitInv, SweepInv
  <2>2. pc = "running" /\ unit[1] = m => freshBase[e] = NoHash
    BY <1>1, <2>1 DEF Filled, BaselineNeeded
  <2>3. ASSUME CommitTriggers \/ CommitEvals
        PROVE  Kept(m, e)
    <3>1. PICK n \in Models, t \in Tiers : Commit(n, t)
      BY <2>1, <2>3, Commits
    <3>2. pc' # "running"
      BY <3>1 DEF Commit, Save
    <3> QED BY <1>1, <2>1, <3>1, <3>2, CommitKeepsBase
  <2>4. ASSUME UNCHANGED <<disk, freshBase>>, UNCHANGED <<pc, unit>> \/ pc' # "running"
        PROVE  Kept(m, e)
    BY <2>2, <2>4
  <2>5. ASSUME NEW c \in Evals, NEW v, RunEval(c, v)
        PROVE  Kept(m, e)
    <3>1. /\ disk' = disk /\ pc = "running" /\ unit' = unit
          /\ freshBase' = IF BaselineNeeded(cmd, file.base[unit[1]][c], loaded.spec[c])
                          THEN [freshBase EXCEPT ![c] = loaded.spec[c]] ELSE freshBase
      BY <2>5 DEF RunEval
    <3>2. unit[1] = m => ~BaselineNeeded(cmd, file.base[unit[1]][e], loaded.spec[e])
      BY <1>1, <2>1 DEF BaselineNeeded
    <3>3. freshBase \in [Evals -> Specs]
      BY <2>1 DEF TypeOK
    <3>4. unit[1] = m => freshBase'[e] = freshBase[e]
      <4>1. CASE c = e
        BY <3>1, <3>2, <4>1
      <4>2. CASE c # e
        BY <3>1, <3>3, <4>2
      <4> QED BY <4>1, <4>2
    <3> QED BY <2>2, <3>1, <3>4
  <2>6. ASSUME NEW n, NEW t, BeginUnit(n, t)
        PROVE  Kept(m, e)
    BY <2>6 DEF BeginUnit, NoBaselines
  <2>7. ASSUME NEW c, NEW v, RunTrigger(c, v)
        PROVE  Kept(m, e)
    BY <2>4, <2>7 DEF RunTrigger
  <2>8. ASSUME NEW n, NEW t, SkipUnit(n, t)
        PROVE  Kept(m, e)
    BY <2>4, <2>8 DEF SkipUnit, unitVars
  <2>9. ASSUME NEW k, StartSweep(k)
        PROVE  Kept(m, e)
    BY <2>9 DEF StartSweep
  <2>10. ASSUME FinishSweep \/ Abort
         PROVE  Kept(m, e)
    BY <2>10 DEF FinishSweep, Abort
  <2>11. ASSUME NEW v, EditContent(v)
         PROVE  Kept(m, e)
    BY <2>4, <2>11 DEF EditContent, unitVars
  <2>12. ASSUME NEW c, EditCase(c)
         PROVE  Kept(m, e)
    BY <2>4, <2>12 DEF EditCase, unitVars
  <2>13. CASE UNCHANGED vars
    BY <2>4, <2>13 DEF vars
  <2> HIDE DEF Kept
  <2> QED
    BY <1>1, <2>3, <2>5, <2>6, <2>7, <2>8, <2>9, <2>10, <2>11, <2>12, <2>13 DEF Next
<1>2. UnitInv /\ [Next]_vars =>
        [\A m \in Models, e \in Evals : Cached(m, e) => Kept(m, e)]_vars
  BY <1>1
<1> QED BY SweepUnits, <1>2, PTL DEF Spec, BaselineCached
=============================================================================
