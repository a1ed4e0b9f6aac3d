------------------------- MODULE AppVerdictsProofs --------------------------
(* For every catalog, flags, stored results and inputs: the verdicts a      *)
(* finished run shows are those it saves, reports and returns.              *)
(*                                                                          *)
(* A result is held four times: by the engine, the dashboard, the disk and  *)
(* the reports.  ResultsInv follows it from one to the next: what ran in a  *)
(* unit that is not saved yet the engine has, what is saved the disk has,   *)
(* and of both the dashboard shows the same status.  At the end of a run    *)
(* nothing is left unsaved, and what remains to compare are the sums the    *)
(* dashboard's groups, the gate and the reports make of the same rows.      *)
EXTENDS AppProofs

-----------------------------------------------------------------------------
(* What the dashboard, report --check, the reports and the exit code make   *)
(* of the results.                                                          *)

\* A unit's cases are of its tier and its skill, so that the row alone says
\* whether it gets a verdict.
Keyed(u) == \A c \in ToSet(u.cases) :
                c \in AllCases /\ TierOf(c) = u.tier /\ EntryOf(c).skill = u.skill

\* Every unit the engine has left is such a unit.
KeyedInv == \A u \in ToSet(eng.todo) : Keyed(u)

\* Whether the harness of a row's model runs cases of its tier.
RowExecutes(row) == IsEval(row[2]) => request.harness[row[1]] \in EvalRunners

\* The rows of the unit at hand.
Open == IF eng.todo = <<>> THEN {} ELSE UnitSet

\* A row without a verdict is one that only counted tokens, and a bad one of a
\* unit that was saved is remembered.
JudgedInv ==
    eng.err = "none" => \A row \in DOMAIN ran :
        /\ ran[row] = "none" <=> ~RowExecutes(row)
        /\ ran[row] \in {"fail", "error"} /\ row \notin Open => eng.failed

\* The units of a plan have cases of their own tier and skill.
LEMMA PlanKeyed ==
    ASSUME NEW models, IsSeq(models), NEW u \in ToSet(UnitsOf(models))
    PROVE  IsSeq(u.cases) /\ Keyed(u) /\ {"cases", "model", "tier", "skill"} \subseteq DOMAIN u
<1>1. PICK sc \in ToSet(Catalog), m \in ToSet(models) : IsUnit(u, sc, m)
  BY UnitsTell
<1>2. PICK t \in ToSet(Tiers) : u = UnitFor(sc, m, t)
  BY <1>1 DEF IsUnit
<1>3. /\ u.cases = TierSeq(sc, t) /\ u.tier = t /\ u.skill = sc.skill
      /\ {"cases", "model", "tier", "skill"} \subseteq DOMAIN u
  BY <1>2 DEF UnitFor
<1>4. \A c \in ToSet(TierSeq(sc, t)) : c \in AllCases /\ EntryOf(c) = sc /\ TierOf(c) = t
  BY TierIs
<1>5. Keyed(u)
  BY <1>3, <1>4 DEF Keyed
<1> QED BY <1>3, <1>5, UnitsHaveCases

\* So have those left after a filter.
LEMMA NarrowKeyed ==
    ASSUME NEW models, IsSeq(models), NEW R, NEW u \in ToSet(Narrow(UnitsOf(models), R))
    PROVE  Keyed(u)
<1> DEFINE units == UnitsOf(models)
           us == [i \in DOMAIN units |-> Narrowed(units[i], R)]
           full == {x \in ToSet(us) : x.cases # <<>>}
<1>1. IsSeq(units)
  BY UnitsTell
<1>2. DOMAIN units = 1 .. Len(units) /\ Len(units) \in Nat
  BY <1>1, SeqDomain
<1>3. IsSeq(us) /\ Len(us) = Len(units)
  BY <1>2, MapTells
<1>4. Narrow(units, R) = Only(us, full)
  BY DEF Narrow
<1>5. u \in ToSet(us)
  <2> HIDE DEF us, full
  <2>1. ToSet(Only(us, full)) = ToSet(us) \cap full
    BY <1>3, OnlyTells
  <2> QED BY <1>4, <2>1
<1>6. PICK i \in 1 .. Len(units) : us[i] = u
  <2> HIDE DEF us
  <2> QED BY <1>3, <1>5, InSeq
<1> DEFINE x == units[i]
<1>7. x \in ToSet(units)
  <2> HIDE DEF units
  <2> QED BY <1>1, InSeq
<1>8. IsSeq(x.cases) /\ Keyed(x) /\ {"cases", "model", "tier", "skill"} \subseteq DOMAIN x
  BY <1>7, PlanKeyed
<1>9. u = Narrowed(x, R)
  BY <1>2, <1>6
<1> HIDE DEF x, us
<1> DEFINE C == {c \in ToSet(x.cases) : <<x.model, c>> \in R}
<1>10. u.cases = Only(x.cases, C) /\ u.tier = x.tier /\ u.skill = x.skill
  BY <1>8, <1>9 DEF Narrowed
<1>11. ToSet(Only(x.cases, C)) \subseteq ToSet(x.cases)
  <2> HIDE DEF C
  <2> QED BY <1>8, OnlyTells
<1> QED BY <1>8, <1>10, <1>11 DEF Keyed

\* What the user and the command do leaves the engine alone, but for Sweeps,
\* which starts it.
Resumes == /\ UNCHANGED <<start, ran>>
           /\ \/ UNCHANGED <<request, eng>>
              \/ /\ ran = <<>> /\ screen = "form" /\ ui' = "sweeping"
                 /\ eng'.pc = "sweep" /\ eng'.err = "none" /\ eng'.todo = PlainUnits(start)
              \/ /\ ran = <<>> /\ screen = "form" /\ eng' = eng /\ eng.todo = <<>>
                 /\ eng.pc \in {"select", "unused"}

\* The user, the program and evolve around them leave the engine, or start it.
LEMMA EngineRests ==
    ASSUME RowsInv, User \/ Host \/ UNCHANGED vars
    PROVE  Resumes
<1> USE DEF user, host, shell, rest
<1>1. CASE Run
  <2>1. /\ screen = "form" /\ prog = "up" /\ UNCHANGED <<start, eng, ran>>
    BY <1>1 DEF Run, Handles
  <2>2. eng.pc \in {"select", "unused"} /\ ran = <<>> /\ eng.todo = <<>>
    BY <2>1 DEF RowsInv, OpenInv
  <2> QED BY <2>1, <2>2 DEF Resumes
<1>2. CASE User /\ ~Run
  <2>1. UNCHANGED <<start, request, eng, ran>>
    BY <1>2 DEF User, FormInput, Cancel, DashInput, AskQuit, Stay, Quit, SigTerm, SigInt,
                SigPlain
  <2> QED BY <2>1 DEF Resumes
<1>3. CASE UNCHANGED vars
  BY <1>3 DEF vars, Resumes
<1>4. CASE Reconcile \/ RunChecks
  <2>1. /\ UNCHANGED <<start, ran>> /\ ui \in {"starting", "checking"}
        /\ Begins \/ UNCHANGED <<prog, request, eng>>
    BY <1>4 DEF Reconcile, RunChecks, Fails
  <2>2. Sweeps \/ UNCHANGED <<request, eng>>
    BY <2>1 DEF Begins, Fails, OpensForm
  <2>3. ran = <<>> /\ screen = "form"
    BY <2>1 DEF RowsInv, OpenInv
  <2>4. Sweeps => /\ ui' = "sweeping" /\ eng'.pc = "sweep" /\ eng'.err = "none"
                  /\ eng'.todo = PlainUnits(start)
    BY DEF Sweeps, EmptyEngine
  <2> QED BY <2>1, <2>2, <2>3, <2>4 DEF Resumes
<1>5. CASE Host /\ ~Reconcile /\ ~RunChecks
  <2>1. UNCHANGED <<start, request, eng, ran>>
    BY <1>5 DEF Host, Deliver, ProgramExits, Main, ReconcileFails, UiCloses, UiReturns,
                PlainReturns, UiAborts, RunReport, ReportFails, Fails
  <2> QED BY <2>1 DEF Resumes
<1> QED BY <1>1, <1>2, <1>3, <1>4, <1>5

\* A step of the engine that finds and saves nothing.
Idles == ran' = ran /\ disk' = disk /\ eng'.failed = eng.failed

\* It takes the request, or learns that there is none.
Begun == /\ ran = <<>> /\ Idles /\ eng'.err = "none"
         /\ \/ eng'.todo = <<>>
            \/ screen = "dash" /\ eng'.todo = EngineUnits(request, start.eval)

\* It goes on with the unit at hand, or ends.
Goes == Idles /\ eng'.todo = eng.todo /\ (eng'.err = eng.err \/ eng'.err # "none")

\* It breaks off, and leaves the rest of its units.
Breaks == eng'.err # "none" /\ ran' = ran /\ disk' = disk /\ eng'.todo = <<>>

\* A case of the unit at hand gets its verdict.
Finishes == /\ Running /\ disk' = disk /\ eng'.todo = eng.todo /\ eng'.failed = eng.failed
            /\ \E row \in UnitSet \ DOMAIN ran : \E v \in Verdicts :
                  ran' = Adding(ran, {row}, v)

\* The unit at hand is saved, and the next one follows.
Advances == /\ Sweeping /\ eng.err = "none" /\ eng'.err = "none" /\ eng'.todo = Tail(eng.todo)
            /\ \/ SaveUnit /\ ran' = ran /\ eng'.failed = (eng.failed \/ UnitFailed)
               \/ CountUnit /\ eng'.failed = eng.failed

\* Every step of the engine is one of these.
LEMMA EngineDoes ==
    ASSUME RowsInv, Engine
    PROVE  /\ UNCHANGED <<start, screen, request, prog, ui>> /\ ui # "returned"
           /\ Begun \/ Goes \/ Breaks \/ Finishes \/ Advances
<1> USE DEF user, host, shell
<1>1. {"pc", "todo", "base", "run", "failed", "err"} \subseteq DOMAIN eng
  BY DEF RowsInv, OpenInv
<1>2. UNCHANGED <<start, screen, request, prog, ui>>
  BY DEF Engine, EngineTakes, EngineUnused, StartBaseline, FinishBaseline, StartItem,
         FinishItem, SaveUnit, CountUnit, AbortUnit, EngineEnds
<1>3. ui # "returned"
  BY DEF Engine, EngineTakes, EngineUnused, StartBaseline, FinishBaseline, StartItem,
         FinishItem, SaveUnit, CountUnit, AbortUnit, EngineEnds, Running, Sweeping, progExited
<1>4. CASE EngineTakes \/ EngineUnused
  <2>1. eng.pc = "select" /\ ran' = ran /\ disk' = disk
    BY <1>4 DEF EngineTakes, EngineUnused
  <2>2. ran = <<>> /\ eng.todo = <<>> /\ eng.err = "none"
    BY <2>1 DEF RowsInv, OpenInv
  <2>3. /\ eng'.failed = eng.failed /\ eng'.err = eng.err
        /\ eng'.todo = eng.todo
           \/ (screen = "dash" /\ eng'.todo = EngineUnits(request, start.eval))
    BY <1>1, <1>4 DEF EngineTakes, EngineUnused, RowsInv, OpenInv
  <2> QED BY <1>2, <1>3, <2>1, <2>2, <2>3 DEF Begun, Idles
<1>5. CASE StartBaseline \/ FinishBaseline \/ StartItem
  <2>1. ran' = ran /\ disk' = disk
    BY <1>5 DEF StartBaseline, FinishBaseline, StartItem
  <2>2. eng'.failed = eng.failed /\ eng'.todo = eng.todo /\ eng'.err = eng.err
    BY <1>1, <1>5 DEF StartBaseline, FinishBaseline, StartItem
  <2> QED BY <1>2, <1>3, <2>1, <2>2 DEF Goes, Idles
<1>6. CASE FinishItem
  <2>1. PICK row \in eng.run : \E v \in Outcomes(row) : /\ ran' = Adding(ran, {row}, v)
                                                      /\ eng' = [eng EXCEPT !.run = @ \ {row}]
    BY <1>6 DEF FinishItem
  <2>2. PICK v \in Outcomes(row) : /\ ran' = Adding(ran, {row}, v)
                                  /\ eng' = [eng EXCEPT !.run = @ \ {row}]
    BY <2>1
  <2>3. Running /\ disk' = disk
    BY <1>6 DEF FinishItem
  <2>4. v \in Verdicts
    BY VerdictsAre
  <2>5. eng.err = "none" /\ WorkInv
    BY <2>3, RunningIsWell DEF RowsInv
  <2>6. row \in UnitSet \ DOMAIN ran
    BY <2>3, <2>5, BusyRows DEF Busy
  <2>7. eng'.failed = eng.failed /\ eng'.todo = eng.todo
    BY <1>1, <2>2
  <2> QED BY <1>2, <1>3, <2>2, <2>3, <2>4, <2>6, <2>7 DEF Finishes
<1>7. CASE SaveUnit \/ CountUnit
  <2>1. Sweeping
    BY <1>7 DEF SaveUnit, CountUnit, Running
  <2>2. eng.err = "none"
    BY <2>1 DEF Sweeping, RowsInv, OpenInv
  <2>3. eng'.err = eng.err /\ eng'.todo = Tail(eng.todo)
    BY <1>1, <1>7 DEF SaveUnit, CountUnit
  <2>4. SaveUnit => ran' = ran
    BY DEF SaveUnit
  <2>5. SaveUnit => eng'.failed = (eng.failed \/ UnitFailed)
    BY <1>1 DEF SaveUnit
  <2>6. CountUnit => eng'.failed = eng.failed
    BY <1>1 DEF CountUnit
  <2> QED BY <1>2, <1>3, <1>7, <2>1, <2>2, <2>3, <2>4, <2>5, <2>6 DEF Advances
<1>8. CASE AbortUnit
  <2>1. \E err, failed : /\ eng' = [eng EXCEPT !.todo = <<>>, !.base = {}, !.run = {}, !.err = err,
                                               !.failed = failed]
                         /\ err \in {"cancelled", "fault"}
    BY <1>8 DEF AbortUnit
  <2>2. ran' = ran /\ disk' = disk
    BY <1>8 DEF AbortUnit
  <2>3. eng'.err # "none" /\ eng'.todo = <<>>
    BY <1>1, <2>1
  <2> QED BY <1>2, <1>3, <2>2, <2>3 DEF Breaks
<1>9. CASE EngineEnds
  <2>1. ran' = ran /\ disk' = disk
    BY <1>9 DEF EngineEnds
  <2>2. PICK err : /\ eng' = [eng EXCEPT !.pc = "stopped", !.err = err]
                   /\ err = eng.err \/ err = "fault"
    BY <1>9 DEF EngineEnds
  <2>3. eng'.failed = eng.failed /\ eng'.todo = eng.todo /\ eng'.err = err
    BY <1>1, <2>2
  <2> QED BY <1>2, <1>3, <2>1, <2>2, <2>3 DEF Goes, Idles
<1> QED BY <1>4, <1>5, <1>6, <1>7, <1>8, <1>9 DEF Engine

\* Every step keeps the units keyed.
LEMMA KeyedStep == ASSUME RowsInv, KeyedInv, [Next]_vars PROVE KeyedInv'
<1>1. CASE \/ eng'.todo \in {eng.todo, <<>>}
           \/ eng.todo # <<>> /\ eng'.todo = Tail(eng.todo)
  <2>1. IsSeq(eng.todo)
    BY DEF RowsInv, PlanInv
  <2>2. eng.todo # <<>> => ToSet(Tail(eng.todo)) \subseteq ToSet(eng.todo)
    BY <2>1, HeadTail
  <2>3. ToSet(eng'.todo) \subseteq ToSet(eng.todo)
    BY <1>1, <2>2, NoRows
  <2> QED BY <2>3 DEF KeyedInv
<1>2. CASE Begun
  <2>1. CASE screen = "dash" /\ eng'.todo = EngineUnits(request, start.eval)
    <3>1. IsSeq(request.models)
      BY <2>1 DEF RowsInv, PlanInv
    <3>2. \E R : EngineUnits(request, start.eval) = Narrow(UnitsOf(request.models), R)
      BY Zenon DEF EngineUnits
    <3> QED BY <2>1, <3>1, <3>2, NarrowKeyed DEF KeyedInv
  <2> QED BY <1>1, <1>2, <2>1 DEF Begun
<1>3. CASE eng'.todo = PlainUnits(start)
  <2>1. \E R : PlainUnits(start) = Narrow(UnitsOf(PlainModels(start)), R)
    BY Zenon DEF PlainUnits
  <2>2. IsSeq(PlainModels(start))
    BY CatalogAssumption, SeqIn, OnlyTells DEF PlainModels, Models
  <2> QED BY <1>3, <2>1, <2>2, NarrowKeyed DEF KeyedInv
<1>4. CASE Engine
  <2>1. Begun \/ Goes \/ Breaks \/ Finishes \/ Advances
    BY <1>4, EngineDoes
  <2> QED BY <1>1, <1>2, <2>1 DEF Goes, Breaks, Finishes, Advances, Sweeping
<1>5. CASE ~Engine
  <2>1. Resumes
    BY <1>5, EngineRests DEF Next
  <2> QED BY <1>1, <1>3, <2>1 DEF Resumes
<1> QED BY <1>4, <1>5
-----------------------------------------------------------------------------
\* The rows of the unit at hand are of its model, entry and tier.
LEMMA UnitIs ==
    ASSUME RowsInv, KeyedInv, eng.todo # <<>>
    PROVE  /\ Unit \in ToSet(eng.todo) /\ UnitSet = UnitCases(Unit) /\ Open = UnitSet
           /\ \A row \in UnitSet : /\ row = <<Unit.model, row[2]>> /\ row[2] \in ToSet(Unit.cases)
                                   /\ row[2] \in AllCases /\ EntryKeyOf(row) = EntryKey(Unit)
                                   /\ IsEval(row[2]) <=> Unit.tier = "evals"
                                   /\ RowExecutes(row) <=> UnitExecutes(Unit)
<1>1. UnitSet = UnitCases(Unit) /\ Open = UnitSet
  BY UnitLeft DEF RowsInv, Open
<1>2. Unit \in ToSet(eng.todo)
  BY HeadTail DEF Unit, RowsInv, PlanInv
<1>3. \A c \in ToSet(Unit.cases) : /\ c \in AllCases /\ TierOf(c) = Unit.tier
                                   /\ EntryOf(c).skill = Unit.skill
  BY <1>2 DEF KeyedInv, Keyed
<1>4. ASSUME NEW row \in UnitSet
      PROVE  /\ row = <<Unit.model, row[2]>> /\ row[2] \in ToSet(Unit.cases)
             /\ row[2] \in AllCases /\ EntryKeyOf(row) = EntryKey(Unit)
             /\ (IsEval(row[2]) <=> Unit.tier = "evals")
             /\ (RowExecutes(row) <=> UnitExecutes(Unit))
  <2>1. PICK c \in ToSet(Unit.cases) : row = <<Unit.model, c>>
    BY <1>1 DEF UnitCases
  <2>2. row[1] = Unit.model /\ row[2] = c
    BY <2>1
  <2>3. TierOf(c) = Unit.tier /\ EntryOf(c).skill = Unit.skill /\ c \in AllCases
    BY <1>3
  <2>4. IsEval(c) <=> Unit.tier = "evals"
    BY <2>3 DEF TierOf
  <2>5. EntryKeyOf(row) = EntryKey(Unit)
    BY <2>2, <2>3 DEF EntryKeyOf, EntryKey
  <2>6. RowExecutes(row) <=> UnitExecutes(Unit)
    BY <2>2, <2>4 DEF RowExecutes, UnitExecutes
  <2> QED BY <2>1, <2>2, <2>3, <2>4, <2>5, <2>6
<1> QED BY <1>1, <1>2, <1>4

\* They are all cases of the one tier of the skill the unit is saved to.
LEMMA UnitEntry ==
    ASSUME RowsInv, KeyedInv, eng.todo # <<>>,
           NEW sc, sc = EntryOf(Head(Unit.cases)), NEW t, t = Unit.tier
    PROVE  /\ sc \in ToSet(Catalog) /\ t \in ToSet(Tiers)
           /\ \A row \in UnitSet : EntryOf(row[2]) = sc /\ TierOf(row[2]) = t
<1>1. Unit \in ToSet(eng.todo) /\ IsSeq(Unit.cases) /\ Unit.cases # <<>>
  BY UnitIs DEF RowsInv, PlanInv
<1>2. \A c \in ToSet(Unit.cases) : c \in AllCases /\ TierOf(c) = t /\ EntryOf(c).skill = Unit.skill
  BY <1>1 DEF KeyedInv, Keyed
<1>3. Head(Unit.cases) \in ToSet(Unit.cases)
  BY <1>1, HeadTail
<1>4. sc \in ToSet(Catalog) /\ sc.skill = Unit.skill
  BY <1>2, <1>3, EntryHas
<1>5. t \in ToSet(Tiers)
  BY <1>2, <1>3, TierNames DEF TierOf
<1>6. ASSUME NEW row \in UnitSet PROVE EntryOf(row[2]) = sc /\ TierOf(row[2]) = t
  <2>1. row[2] \in ToSet(Unit.cases)
    BY UnitIs
  <2>2. EntryOf(row[2]) \in ToSet(Catalog)
    BY <1>2, <2>1, EntryHas
  <2> QED BY <1>2, <1>4, <2>1, <2>2, SkillNames
<1> QED BY <1>4, <1>5, <1>6

\* A new result is there, and the others are as they were.
LEMMA AddedTells ==
    ASSUME NEW rows, NEW v, ran' = Adding(ran, rows, v)
    PROVE  /\ DOMAIN ran' = DOMAIN ran \cup rows
           /\ \A x \in DOMAIN ran : ran'[x] = ran[x]
           /\ \A x \in rows \ DOMAIN ran : ran'[x] = v
<1> DEFINE more == Adding(ran, rows, v)
<1>1. /\ DOMAIN more = DOMAIN ran \cup rows
      /\ \A x \in DOMAIN ran : more[x] = ran[x]
      /\ \A x \in rows \ DOMAIN ran : more[x] = v
  BY RanMore
<1>2. ran' = more
  OBVIOUS
<1> HIDE DEF more
<1> QED BY <1>1, <1>2

\* Adding a result: the others stay.
LEMMA ResultsStay ==
    ASSUME JudgedInv, eng.err = "none", NEW rows, NEW v, ran' = Adding(ran, rows, v),
           request' = request, eng'.failed = eng.failed, rows \subseteq Open',
           Open \subseteq Open',
           \A row \in rows : (v = "none" <=> ~RowExecutes(row))
    PROVE  JudgedInv'
<1>1. /\ DOMAIN ran' = DOMAIN ran \cup rows
      /\ \A x \in DOMAIN ran : ran'[x] = ran[x]
      /\ \A x \in rows \ DOMAIN ran : ran'[x] = v
  BY AddedTells
<1>2. ASSUME NEW row \in DOMAIN ran'
      PROVE  /\ (ran'[row] = "none" <=> ~RowExecutes(row))
             /\ ran'[row] \in {"fail", "error"} /\ row \notin Open' => eng'.failed
  BY <1>1 DEF JudgedInv
<1>3. \A row : RowExecutes(row)' <=> RowExecutes(row)
  BY DEF RowExecutes
<1> QED BY <1>2, <1>3 DEF JudgedInv

\* Every step keeps JudgedInv.
LEMMA VerdictsStep == ASSUME RowsInv, KeyedInv, JudgedInv, [Next]_vars PROVE JudgedInv'
<1>1. ASSUME ran' = ran, request' = request, eng'.failed = eng.failed, eng'.todo = eng.todo,
             eng'.err = eng.err \/ eng'.err # "none"
      PROVE  JudgedInv'
  BY <1>1 DEF JudgedInv, Open, UnitSet, Unit, RowExecutes
<1>2. ASSUME ran' = <<>> PROVE JudgedInv'
  BY <1>2, NoRows DEF JudgedInv
<1>3. CASE Finishes /\ request' = request
  <2>1. /\ Running /\ eng'.todo = eng.todo /\ eng'.failed = eng.failed
    BY <1>3 DEF Finishes
  <2>2. eng.err = "none" /\ eng.todo # <<>> /\ UnitExecutes(Unit)
    BY <2>1, RunningIsWell DEF RowsInv
  <2>3. PICK row \in UnitSet \ DOMAIN ran : \E v \in Verdicts : ran' = Adding(ran, {row}, v)
    BY <1>3 DEF Finishes
  <2>4. PICK v \in Verdicts : ran' = Adding(ran, {row}, v)
    BY <2>3
  <2>5. RowExecutes(row) /\ Open = UnitSet
    BY <2>2, UnitIs
  <2>6. Open' = Open
    BY <2>1 DEF Open, UnitSet, Unit
  <2>7. v # "none"
    BY DEF Verdicts
  <2> QED BY <1>3, <2>1, <2>2, <2>4, <2>5, <2>6, <2>7, ResultsStay
<1>4. CASE Advances /\ request' = request
  <2>1. /\ Sweeping /\ eng.err = "none" /\ eng.todo # <<>>
    BY <1>4 DEF Advances, Sweeping
  <2>2. Open = UnitSet /\ \A row \in UnitSet : RowExecutes(row) <=> UnitExecutes(Unit)
    BY <2>1, UnitIs
  <2>3. \A row : RowExecutes(row)' <=> RowExecutes(row)
    BY <1>4 DEF RowExecutes
  <2>4. \A row \in DOMAIN ran :
          /\ ran[row] = "none" <=> ~RowExecutes(row)
          /\ ran[row] \in {"fail", "error"} /\ row \notin UnitSet => eng.failed
    BY <2>1, <2>2 DEF JudgedInv
  <2>5. CASE SaveUnit
    <3>1. ran' = ran /\ eng'.failed = (eng.failed \/ UnitFailed)
      BY <1>4, <2>5 DEF Advances, SaveUnit, CountUnit, Running
    <3>2. \A row \in DOMAIN ran : ran[row] \in {"fail", "error"} => eng'.failed
      BY <2>4, <3>1 DEF UnitFailed
    <3> QED BY <2>3, <2>4, <3>1, <3>2 DEF JudgedInv
  <2>6. CASE CountUnit
    <3>1. ran' = Adding(ran, UnitSet, "none") /\ ~UnitExecutes(Unit)
      BY <2>6 DEF CountUnit
    <3>2. eng'.failed = eng.failed
      BY <1>4, <2>6, <3>1 DEF Advances, SaveUnit, Running
    <3>3. /\ DOMAIN ran' = DOMAIN ran \cup UnitSet
          /\ \A x \in DOMAIN ran : ran'[x] = ran[x]
          /\ \A x \in UnitSet \ DOMAIN ran : ran'[x] = "none"
      BY <3>1, AddedTells
    <3>4. \A row \in UnitSet : ~RowExecutes(row)
      BY <2>2, <3>1
    <3>5. \A row \in DOMAIN ran' : /\ ran'[row] = "none" <=> ~RowExecutes(row)
                                   /\ (ran'[row] \in {"fail", "error"} => eng'.failed)
      BY <2>4, <3>2, <3>3, <3>4
    <3> QED BY <2>3, <3>5 DEF JudgedInv
  <2> QED BY <1>4, <2>5, <2>6 DEF Advances
<1>5. CASE Engine
  <2>1. request' = request /\ (Begun \/ Goes \/ Breaks \/ Finishes \/ Advances)
    BY <1>5, EngineDoes
  <2>2. CASE Begun
    BY <1>2, <2>2 DEF Begun, Idles
  <2>3. CASE Goes
    BY <1>1, <2>1, <2>3 DEF Goes, Idles
  <2>4. CASE Breaks
    BY <2>4 DEF Breaks, JudgedInv
  <2> QED BY <1>3, <1>4, <2>1, <2>2, <2>3, <2>4
<1>6. CASE ~Engine
  <2>1. Resumes
    BY <1>6, EngineRests DEF Next
  <2> QED BY <1>1, <1>2, <2>1 DEF Resumes
<1> QED BY <1>5, <1>6
-----------------------------------------------------------------------------
\* The engine goroutine is over, or was never needed.
Ended == eng.pc \in {"stopped", "unused"}

\* The command ends well only after the engine, and without a failure.
ExitInv ==
    /\ ui \in {"starting", "checking", "waiting", "closing", "sweeping"} => exit = "none"
    /\ ui = "reporting" => exit = "none" /\ Ended /\ start.all
    /\ exit \in {"ok", "warned", "failures"} => ui = "returned" /\ Ended
    /\ exit = "ok" => ~eng.failed /\ checked # "failures"

\* A step of the engine is one of an engine that has not ended.
LEMMA EngineNotEnded ==
    ASSUME Engine
    PROVE  ~Ended /\ UNCHANGED <<ui, exit, checked, start>>
<1>1. UNCHANGED <<ui, exit, checked, start>>
  BY DEF Engine, EngineTakes, EngineUnused, StartBaseline, FinishBaseline, StartItem,
         FinishItem, SaveUnit, CountUnit, AbortUnit, EngineEnds, host, shell
<1>2. eng.pc \in {"select", "sweep"}
  BY DEF Engine, EngineTakes, EngineUnused, StartBaseline, FinishBaseline, StartItem,
         FinishItem, SaveUnit, CountUnit, AbortUnit, EngineEnds, Running, Sweeping
<1> QED BY <1>1, <1>2 DEF Ended

\* What the exit code follows from.
LEMMA ConcludesExit ==
    ASSUME ExitInv, ui \in {"closing", "sweeping"}, Ended, NEW fatal \in BOOLEAN, Concludes(fatal),
           UNCHANGED <<start, eng, checked>>
    PROVE  ExitInv'
<1>1. exit = "none"
  BY DEF ExitInv
<1>2. \/ ui' = "returned" /\ exit' = "fatal"
      \/ ui' = "reporting" /\ exit' = "none" /\ start.all
      \/ ui' = "returned" /\ exit' = Verdict
  BY <1>1 DEF Concludes
<1>3. CASE ui' = "returned" /\ exit' = "fatal"
  BY <1>3 DEF ExitInv
<1>4. CASE ui' = "reporting" /\ exit' = "none" /\ start.all
  BY <1>4 DEF ExitInv, Ended
<1>5. CASE ui' = "returned" /\ exit' = Verdict
  <2>1. exit' = "ok" => ~eng.failed /\ checked # "failures"
    BY <1>5 DEF Verdict
  <2> QED BY <1>5, <2>1 DEF ExitInv, Ended
<1> QED BY <1>2, <1>3, <1>4, <1>5

\* What follows the checks decides no exit but a failure.
LEMMA BeginsExit ==
    ASSUME ExitInv, ui \in {"starting", "checking"}, Begins
    PROVE  ExitInv'
<1>1. exit = "none"
  BY DEF ExitInv
<1>2. \/ ui' = "returned" /\ exit' = "fatal"
      \/ ui' \in {"waiting", "sweeping"} /\ exit' = "none"
  BY <1>1 DEF Begins, Fails, OpensForm, Sweeps
<1> QED BY <1>2 DEF ExitInv

\* Nor does what evolve does around the sweep.
LEMMA HostExit == ASSUME ExitInv, Host PROVE ExitInv'
<1> USE DEF shell, rest
<1>1. CASE Reconcile
  <2>1. CASE start.all
    BY <1>1, <2>1 DEF Reconcile, ExitInv
  <2>2. CASE ~start.all
    BY <1>1, <2>2, BeginsExit DEF Reconcile
  <2> QED BY <2>1, <2>2
<1>2. CASE RunChecks
  <2>1. Begins \/ Fails
    BY <1>2 DEF RunChecks
  <2>2. CASE Fails
    BY <2>2 DEF Fails, ExitInv
  <2> QED BY <1>2, <2>1, <2>2, BeginsExit DEF RunChecks
<1>3. CASE ReconcileFails \/ ReportFails \/ UiAborts
  <2>1. ui' = "returned" /\ exit' = "fatal"
    BY <1>3 DEF ReconcileFails, ReportFails, UiAborts, Fails
  <2> QED BY <2>1 DEF ExitInv
<1>4. CASE RunReport
  <2>1. ui' = "returned" /\ exit' = Verdict /\ UNCHANGED <<eng, checked>> /\ Ended
    BY <1>4 DEF RunReport, ExitInv
  <2>2. exit' = "ok" => ~eng.failed /\ checked # "failures"
    BY <2>1 DEF Verdict
  <2> QED BY <2>1, <2>2 DEF ExitInv, Ended
<1>5. CASE UiReturns
  <2>1. ui = "closing" /\ Ended /\ Concludes(eng.err = "fault") /\ UNCHANGED <<start, eng, checked>>
    BY <1>5 DEF UiReturns, Ended
  <2> QED BY <2>1, ConcludesExit
<1>6. CASE PlainReturns
  <2>1. ui = "sweeping" /\ Ended /\ Concludes(eng.err # "none") /\ UNCHANGED <<start, eng, checked>>
    BY <1>6 DEF PlainReturns, Ended
  <2> QED BY <2>1, ConcludesExit
<1>7. CASE UiCloses
  <2>1. ui = "waiting" /\ ui' = "closing" /\ exit' = exit
    BY <1>7 DEF UiCloses
  <2> QED BY <2>1 DEF ExitInv
<1>8. CASE Deliver \/ ProgramExits
  <2>1. UNCHANGED <<ui, exit, eng, checked, start>>
    BY <1>8 DEF Deliver, ProgramExits, host
  <2> QED BY <2>1 DEF ExitInv, Ended
<1> QED BY <1>1, <1>2, <1>3, <1>4, <1>5, <1>6, <1>7, <1>8 DEF Host, Main

\* Every step keeps ExitInv.
LEMMA ExitStep == ASSUME ExitInv, [Next]_vars PROVE ExitInv'
<1>1. CASE Engine
  BY <1>1, EngineNotEnded DEF ExitInv
<1>2. CASE User
  <2>1. UNCHANGED <<ui, exit, eng, checked, start>>
    BY <1>2 DEF User, FormInput, Run, Cancel, DashInput, AskQuit, Stay, Quit, SigTerm, SigInt,
                SigPlain, host, shell
  <2> QED BY <2>1 DEF ExitInv, Ended
<1>3. CASE UNCHANGED vars
  BY <1>3 DEF vars, host, shell, ExitInv, Ended
<1> QED BY <1>1, <1>2, <1>3, HostExit DEF Next

-----------------------------------------------------------------------------
\* The reports are generated last, from the results as they stay.
ReportInv ==
    /\ ~start.all /\ eng.pc = "stopped" /\ eng.err = "none"
         => report.summary = Summary(disk, Reported)
    /\ start.all /\ ui = "returned" /\ exit # "fatal"
         => report.summary = Summary(disk, Reported)

\* A step that leaves the results alone leaves the reports current.
LEMMA ReportsRest ==
    ASSUME ReportInv, UNCHANGED <<start, report, disk>>, eng' = eng \/ eng'.pc = "sweep",
           ui' # "returned" \/ exit' = "fatal" \/ ~start.all \/ UNCHANGED <<ui, exit>>
    PROVE  ReportInv'
BY DEF ReportInv, Reported

\* Every step keeps ReportInv.
LEMMA ReportsStep == ASSUME RowsInv, ExitInv, ReportInv, [Next]_vars PROVE ReportInv'
<1> USE DEF shell
<1>1. CASE EngineEnds
  <2>1. ui' # "returned" /\ UNCHANGED <<start, disk>>
    BY <1>1 DEF EngineEnds
  <2>2. PICK err : /\ eng' = [eng EXCEPT !.pc = "stopped", !.err = err]
                   /\ report' = IF err = "none" /\ ~start.all
                                THEN Generate(disk, Reported, StrictConfig) ELSE report
    BY <1>1 DEF EngineEnds
  <2>3. eng'.err = err
    BY <2>2 DEF RowsInv, OpenInv
  <2>4. ~start.all /\ eng'.err = "none" => report'.summary = Summary(disk, Reported)
    BY <2>2, <2>3 DEF Generate
  <2> QED BY <2>1, <2>4 DEF ReportInv, Reported
<1>2. CASE Engine /\ ~EngineEnds
  <2>1. ui' # "returned"
    BY <1>2, EngineDoes
  <2>2. UNCHANGED start
    BY <1>2, EngineNotEnded
  <2>3. eng'.pc # "stopped"
    <3>1. {"pc", "todo", "base", "run", "failed", "err"} \subseteq DOMAIN eng
      BY DEF RowsInv, OpenInv
    <3>2. eng'.pc = eng.pc \/ eng'.pc \in {"sweep", "unused"}
      BY <1>2, <3>1 DEF Engine, EngineTakes, EngineUnused, StartBaseline, FinishBaseline,
                        StartItem, FinishItem, SaveUnit, CountUnit, AbortUnit
    <3>3. eng.pc # "stopped"
      BY <1>2, EngineNotEnded DEF Ended
    <3> QED BY <3>2, <3>3
  <2> QED BY <2>1, <2>2, <2>3 DEF ReportInv
<1>3. CASE User \/ UNCHANGED vars
  <2>1. UNCHANGED <<start, report, disk, eng, ui, exit>>
    BY <1>3 DEF User, FormInput, Run, Cancel, DashInput, AskQuit, Stay, Quit, SigTerm, SigInt,
                SigPlain, host, vars
  <2> QED BY <2>1, ReportsRest
<1>4. CASE RunReport
  <2>1. /\ start.all /\ UNCHANGED start
        /\ report' = Generate(disk', Reported, start.strict \/ StrictConfig)
    BY <1>4 DEF RunReport, ExitInv, rest
  <2>2. report'.summary = Summary(disk', Reported)
    BY <2>1 DEF Generate
  <2> QED BY <2>1, <2>2 DEF ReportInv, Reported
<1>5. CASE ReportFails
  <2>1. start.all /\ UNCHANGED start /\ exit' = "fatal"
    BY <1>5 DEF ReportFails, ExitInv, rest, Fails
  <2> QED BY <2>1 DEF ReportInv
<1>6. CASE Reconcile \/ ReconcileFails \/ RunChecks
  <2>1. ui \in {"starting", "checking"} /\ UNCHANGED <<start, report>>
    BY <1>6 DEF Reconcile, ReconcileFails, RunChecks, rest
  <2>2. eng.pc = "select"
    BY <2>1 DEF RowsInv, OpenInv
  <2>3. eng'.pc \in {"select", "sweep"}
    <3>1. eng' = eng \/ Sweeps
      BY <1>6 DEF Reconcile, ReconcileFails, RunChecks, Begins, Fails, OpensForm
    <3> QED BY <2>2, <3>1 DEF Sweeps, EmptyEngine
  <2>4. ui' # "returned" \/ exit' = "fatal"
    BY <1>6 DEF Reconcile, ReconcileFails, RunChecks, Begins, Fails, OpensForm, Sweeps
  <2> QED BY <2>1, <2>3, <2>4 DEF ReportInv
<1>7. CASE UiReturns \/ PlainReturns
  <2>1. UNCHANGED <<start, report, disk, eng>> /\ \E fatal \in BOOLEAN : Concludes(fatal)
    BY <1>7 DEF UiReturns, PlainReturns
  <2>2. ui' # "returned" \/ exit' = "fatal" \/ ~start.all
    BY <2>1 DEF Concludes
  <2> QED BY <2>1, <2>2, ReportsRest
<1>8. CASE Deliver \/ ProgramExits \/ UiCloses \/ UiAborts
  <2>1. /\ UNCHANGED <<start, report, disk, eng>>
        /\ ui' # "returned" \/ exit' = "fatal" \/ UNCHANGED <<ui, exit>>
    BY <1>8 DEF Deliver, ProgramExits, UiCloses, UiAborts, host
  <2> QED BY <2>1, ReportsRest
<1> QED BY <1>1, <1>2, <1>3, <1>4, <1>5, <1>6, <1>7, <1>8 DEF Next, Host, Main
-----------------------------------------------------------------------------
\* An entry that only counted tokens is none that executed.
CountedInv == eng.err = "none" =>
    \A row \in DOMAIN ran : ran[row] = "none" => EntryKeyOf(row) \notin disk.executed

\* The result of a row that did not run stays as it was,
Untouched == \A row \in Reported \X AllCases :
    row \notin DOMAIN ran => disk.stored[row] = start.stored[row]

\* and that of one that ran is on disk once its unit is saved,
OnDisk == eng.err = "none" =>
    \A row \in Reported \X AllCases :
        row \in DOMAIN ran \ Open => disk.stored[row] = ran[row]

\* No result of a removed case is stored where a row's are.
Cleared(row) == \A c \in EntryOf(row[2]).removed[TierOf(row[2])] :
                    disk.stored[<<row[1], c>>] = "absent"

\* Saving a unit clears the results of its removed cases.
ClearedInv == eng.err = "none" =>
    \A row \in Reported \X AllCases : row \in DOMAIN ran \ Open => Cleared(row)

\* This is so of every model that is configured, unless --eval leaves some cases out.
DiskInv == /\ DOMAIN disk.stored = Recorded \X (AllCases \cup Removed)
           /\ CountedInv /\ ClearedInv
           /\ start.eval = AnyEval => Untouched /\ OnDisk

\* The models the reports take in are models with results.
LEMMA ReportedRows == Reported \X (AllCases \cup Removed) \subseteq Recorded \X (AllCases \cup Removed)
BY DEF Reported, ActiveKeys, Recorded

\* Those that could be in the way of a row's are no other row's.
LEMMA RemovedRows ==
    ASSUME NEW row \in Reported \X AllCases, NEW c \in EntryOf(row[2]).removed[TierOf(row[2])]
    PROVE  <<row[1], c>> \in Reported \X Removed /\ c \notin AllCases
<1>1. EntryOf(row[2]) \in ToSet(Catalog) /\ TierOf(row[2]) \in ToSet(Tiers)
  BY EntryHas, TierNames DEF TierOf
<1>2. c \in Removed
  BY <1>1 DEF Removed
<1> QED BY <1>2, CatalogAssumption

\* Dropping the results of models outside leaves the others.
LEMMA PrunedTells ==
    ASSUME NEW skills, disk' = Pruned(skills)
    PROVE  /\ DOMAIN disk'.stored = DOMAIN disk.stored
           /\ disk'.executed \subseteq disk.executed
           /\ \A row \in DOMAIN disk.stored :
                  row[1] \in Reported => disk'.stored[row] = disk.stored[row]
<1> DEFINE gone == {row \in Outside : OwnerOf(row[2]).skill \in skills}
           stored == [row \in DOMAIN disk.stored |->
                         IF row \in gone THEN "absent" ELSE disk.stored[row]]
<1>1. disk'.stored = stored /\ disk'.executed \subseteq disk.executed
  BY DEF Pruned
<1>2. \A row \in gone : row[1] \notin Reported
  BY DEF Outside
<1> HIDE DEF gone
<1>3. /\ DOMAIN stored = DOMAIN disk.stored
      /\ \A row \in DOMAIN disk.stored : row[1] \in Reported => stored[row] = disk.stored[row]
  BY <1>2
<1> HIDE DEF stored
<1> QED BY <1>1, <1>3

\* The rows of a unit's removed cases.
RemovedOf(u) == {u.model} \X EntryOf(Head(u.cases)).removed[u.tier]

\* A saved unit's results are on disk and those of its removed cases are not; the
\* others are as they were (merge).
LEMMA MergedTells ==
    ASSUME NEW u, NEW fresh
    PROVE  /\ DOMAIN Merged(u, fresh) = DOMAIN disk.stored
           /\ \A row \in DOMAIN disk.stored \cap DOMAIN fresh : Merged(u, fresh)[row] = fresh[row]
           /\ \A row \in DOMAIN disk.stored \ DOMAIN fresh :
                 /\ Merged(u, fresh)[row] \in {"absent", disk.stored[row]}
                 /\ row \in RemovedOf(u) => Merged(u, fresh)[row] = "absent"
                 /\ start.eval = AnyEval /\ row \notin RemovedOf(u)
                      => Merged(u, fresh)[row] = disk.stored[row]
<1> DEFINE gone == RemovedOf(u)
           sc == EntryOf(Head(u.cases))
           out == {c \in TierCases(sc, u.tier) : IsEval(c) /\ start.eval \notin {AnyEval, c}}
           dropped == {u.model} \X (out \cup sc.removed[u.tier])
           merged == [row \in DOMAIN disk.stored |->
                        IF row \in DOMAIN fresh THEN fresh[row]
                        ELSE IF row \in dropped THEN "absent" ELSE disk.stored[row]]
<1>1. Merged(u, fresh) = merged
  BY DEF Merged
<1>2. gone \subseteq dropped /\ (start.eval = AnyEval => dropped = gone)
  BY DEF RemovedOf
<1> HIDE DEF dropped, gone
<1>3. /\ DOMAIN merged = DOMAIN disk.stored
      /\ \A row \in DOMAIN disk.stored \cap DOMAIN fresh : merged[row] = fresh[row]
      /\ \A row \in DOMAIN disk.stored \ DOMAIN fresh :
            /\ merged[row] \in {"absent", disk.stored[row]}
            /\ row \in gone => merged[row] = "absent"
            /\ start.eval = AnyEval /\ row \notin gone => merged[row] = disk.stored[row]
  BY <1>2
<1> HIDE DEF merged
<1> QED BY <1>1, <1>3 DEF gone

\* A unit that leaves the sweep is on disk.
LEMMA LeavesDisk ==
    ASSUME DiskInv, eng.err = "none", UNCHANGED start, Open = UnitSet,
           EntryOf(Head(Unit.cases)) \in ToSet(Catalog), Unit.tier \in ToSet(Tiers),
           \A row \in UnitSet : /\ row[1] = Unit.model /\ row[2] \in AllCases
                                /\ EntryOf(row[2]) = EntryOf(Head(Unit.cases))
                                /\ TierOf(row[2]) = Unit.tier,
           DOMAIN ran' = DOMAIN ran \cup UnitSet,
           \A row \in DOMAIN ran : ran'[row] = ran[row],
           NEW fresh, DOMAIN fresh = UnitSet, \A row \in UnitSet : fresh[row] = ran'[row],
           disk'.stored = Merged(Unit, fresh), CountedInv'
    PROVE  DiskInv'
<1> DEFINE gone == RemovedOf(Unit)
<1>1. /\ DOMAIN disk'.stored = DOMAIN disk.stored
      /\ DOMAIN disk.stored = Recorded \X (AllCases \cup Removed)
      /\ \A row \in DOMAIN disk.stored \cap UnitSet : disk'.stored[row] = fresh[row]
      /\ \A row \in DOMAIN disk.stored \ UnitSet :
            /\ disk'.stored[row] \in {"absent", disk.stored[row]}
            /\ row \in gone => disk'.stored[row] = "absent"
            /\ start.eval = AnyEval /\ row \notin gone => disk'.stored[row] = disk.stored[row]
  <2>1. /\ DOMAIN Merged(Unit, fresh) = DOMAIN disk.stored
        /\ \A row \in DOMAIN disk.stored \cap DOMAIN fresh : Merged(Unit, fresh)[row] = fresh[row]
        /\ \A row \in DOMAIN disk.stored \ DOMAIN fresh :
              /\ Merged(Unit, fresh)[row] \in {"absent", disk.stored[row]}
              /\ row \in RemovedOf(Unit) => Merged(Unit, fresh)[row] = "absent"
              /\ start.eval = AnyEval /\ row \notin RemovedOf(Unit)
                   => Merged(Unit, fresh)[row] = disk.stored[row]
    BY MergedTells, SMTT(20)
  <2>2. DOMAIN disk.stored = Recorded \X (AllCases \cup Removed)
    BY DEF DiskInv
  <2> QED BY <2>1, <2>2
<1>2. Reported' = Reported
  BY DEF Reported
<1>3. \A row \in gone : row[2] \notin AllCases
  BY CatalogAssumption DEF Removed, RemovedOf
<1> HIDE DEF gone
<1>4. ASSUME start.eval = AnyEval, NEW row \in Reported \X AllCases
      PROVE  /\ row \notin DOMAIN ran' => disk'.stored[row] = start.stored[row]
             /\ row \in DOMAIN ran' => disk'.stored[row] = ran'[row]
  <2>1. row \in DOMAIN disk.stored /\ row \notin gone
    BY <1>1, <1>3, ReportedRows
  <2>2. row \in UnitSet => disk'.stored[row] = fresh[row]
    BY <1>1, <2>1
  <2>3. row \notin UnitSet => disk'.stored[row] = disk.stored[row]
    BY <1>1, <1>4, <2>1
  <2>4. row \notin DOMAIN ran => disk.stored[row] = start.stored[row]
    BY <1>4 DEF DiskInv, Untouched
  <2>5. row \in DOMAIN ran \ UnitSet => disk.stored[row] = ran[row]
    BY <1>4 DEF DiskInv, OnDisk
  <2> QED BY <2>2, <2>3, <2>4, <2>5
<1>5. start.eval = AnyEval => Untouched' /\ OnDisk'
  BY <1>2, <1>4 DEF Untouched, OnDisk
<1>6. ASSUME NEW row \in Reported \X AllCases, row \in DOMAIN ran',
             NEW c \in EntryOf(row[2]).removed[TierOf(row[2])]
      PROVE  disk'.stored[<<row[1], c>>] = "absent"
  <2>1. <<row[1], c>> \in DOMAIN disk.stored /\ <<row[1], c>> \notin UnitSet
    BY <1>1, <1>6, RemovedRows, ReportedRows
  <2>2. row \in UnitSet => <<row[1], c>> \in gone
    BY <1>6 DEF gone, RemovedOf
  <2>3. row \notin UnitSet => disk.stored[<<row[1], c>>] = "absent"
    BY <1>6 DEF DiskInv, ClearedInv, Cleared
  <2> QED BY <1>1, <2>1, <2>2, <2>3
<1>7. ClearedInv'
  BY <1>2, <1>6 DEF ClearedInv, Cleared
<1> QED BY <1>1, <1>5, <1>7 DEF DiskInv

\* Saving a unit keeps DiskInv.
LEMMA SaveDisk ==
    ASSUME RowsInv, KeyedInv, JudgedInv, DiskInv, Advances, UNCHANGED <<start, request>>
    PROVE  DiskInv'
<1>1. /\ Sweeping /\ eng.err = "none" /\ eng.todo # <<>>
  BY DEF Advances, Sweeping
<1>2. /\ Open = UnitSet
      /\ \A row \in UnitSet : /\ EntryKeyOf(row) = EntryKey(Unit)
                              /\ RowExecutes(row) <=> UnitExecutes(Unit)
                              /\ row[1] = Unit.model /\ row[2] \in AllCases
  BY <1>1, UnitIs
<1>3. /\ EntryOf(Head(Unit.cases)) \in ToSet(Catalog) /\ Unit.tier \in ToSet(Tiers)
      /\ \A row \in UnitSet : /\ row[1] = Unit.model /\ row[2] \in AllCases
                               /\ EntryOf(row[2]) = EntryOf(Head(Unit.cases))
                               /\ TierOf(row[2]) = Unit.tier
  BY <1>1, <1>2, UnitEntry
<1>4. CASE SaveUnit
  <2> DEFINE fresh == [row \in UnitSet |-> ran[row]]
  <2>1. /\ Running /\ UnitSet \subseteq DOMAIN ran /\ ran' = ran
        /\ disk'.stored = Merged(Unit, fresh)
        /\ disk'.executed = disk.executed \cup {EntryKey(Unit)}
    BY <1>4 DEF SaveUnit, Save
  <2>2. DOMAIN fresh = UnitSet /\ \A row \in UnitSet : fresh[row] = ran'[row]
    BY <2>1
  <2> HIDE DEF fresh
  <2>3. ASSUME NEW row \in DOMAIN ran, ran[row] = "none"
        PROVE  EntryKeyOf(row) # EntryKey(Unit)
    <3>1. ~RowExecutes(row)
      BY <1>1, <2>3 DEF JudgedInv
    <3>2. IsEval(row[2]) /\ request.harness[row[1]] \notin EvalRunners
      BY <3>1 DEF RowExecutes
    <3>3. TierOf(row[2]) = "evals"
      BY <3>2 DEF TierOf
    <3>4. Unit.tier = "evals" => request.harness[Unit.model] \in EvalRunners
      BY <2>1 DEF Running, UnitExecutes
    <3> QED BY <3>2, <3>3, <3>4 DEF EntryKeyOf, EntryKey
  <2>4. CountedInv'
    BY <1>1, <2>1, <2>3 DEF CountedInv, DiskInv
  <2> QED BY <1>1, <1>2, <1>3, <2>1, <2>2, <2>4, LeavesDisk
<1>5. CASE CountUnit
  <2> DEFINE fresh == [row \in UnitSet |-> "none"]
  <2>1. /\ ~UnitExecutes(Unit) /\ ran' = Adding(ran, UnitSet, "none")
        /\ disk'.stored = Merged(Unit, fresh)
        /\ disk'.executed = disk.executed \ {EntryKey(Unit)}
    BY <1>5 DEF CountUnit, Save
  <2>2. /\ DOMAIN ran' = DOMAIN ran \cup UnitSet
        /\ \A x \in DOMAIN ran : ran'[x] = ran[x]
        /\ \A x \in UnitSet \ DOMAIN ran : ran'[x] = "none"
    BY <2>1, AddedTells
  <2>3. \A row \in UnitSet \cap DOMAIN ran : ran[row] = "none"
    BY <1>1, <1>2, <2>1 DEF JudgedInv
  <2>4. DOMAIN fresh = UnitSet /\ \A row \in UnitSet : fresh[row] = ran'[row]
    BY <2>2, <2>3
  <2> HIDE DEF fresh
  <2>5. CountedInv'
    BY <1>1, <1>2, <2>1, <2>2 DEF CountedInv, DiskInv
  <2> QED BY <1>1, <1>2, <1>3, <2>1, <2>2, <2>4, <2>5, LeavesDisk
<1> QED BY <1>4, <1>5 DEF Advances

\* Steps that write no results: they may drop those of other models.
LEMMA DiskRests ==
    ASSUME DiskInv, UNCHANGED start, disk' = disk \/ \E skills : disk' = Pruned(skills),
           \/ ran' = <<>> /\ ran = <<>>
           \/ ran' = ran /\ eng'.err # "none"
           \/ ran' = ran /\ eng'.err = eng.err /\ Open' = Open
           \/ /\ \E row \in Open : \E v : v # "none" /\ ran' = Adding(ran, {row}, v)
              /\ Open' = Open /\ eng.err = "none"
    PROVE  DiskInv'
<1>1. Reported' = Reported
  BY DEF Reported
<1>2. /\ DOMAIN disk'.stored = DOMAIN disk.stored /\ disk'.executed \subseteq disk.executed
      /\ \A row \in Reported \X (AllCases \cup Removed) : disk'.stored[row] = disk.stored[row]
  <2>1. CASE \E skills : disk' = Pruned(skills)
    BY <2>1, PrunedTells, ReportedRows DEF DiskInv
  <2> QED BY <2>1
<1>3. \A row \in Reported \X AllCases : Cleared(row) => Cleared(row)'
  BY <1>2, RemovedRows DEF Cleared
<1>4. CASE ran' = <<>> /\ ran = <<>>
  <2>1. DOMAIN ran' = {} /\ DOMAIN ran = {}
    BY <1>4, NoRows
  <2> QED BY <1>1, <1>2, <2>1 DEF DiskInv, CountedInv, ClearedInv, Untouched, OnDisk
<1>5. CASE ran' = ran /\ eng'.err # "none"
  BY <1>1, <1>2, <1>5 DEF DiskInv, CountedInv, ClearedInv, Untouched, OnDisk
<1>6. CASE ran' = ran /\ eng'.err = eng.err /\ Open' = Open
  <2>1. ClearedInv'
    BY <1>1, <1>6, <1>3 DEF DiskInv, ClearedInv
  <2> QED BY <1>1, <1>2, <1>6, <2>1 DEF DiskInv, CountedInv, Untouched, OnDisk
<1>7. CASE /\ \E row \in Open : \E v : v # "none" /\ ran' = Adding(ran, {row}, v)
           /\ Open' = Open /\ eng.err = "none"
  <2>1. PICK row \in Open : \E v : v # "none" /\ ran' = Adding(ran, {row}, v)
    BY <1>7
  <2>2. PICK v : v # "none" /\ ran' = Adding(ran, {row}, v)
    BY <2>1
  <2>3. /\ DOMAIN ran' = DOMAIN ran \cup {row}
        /\ \A x \in DOMAIN ran : ran'[x] = ran[x]
        /\ \A x \in {row} \ DOMAIN ran : ran'[x] = v
    BY <2>2, AddedTells
  <2>4. CountedInv'
    BY <1>2, <1>7, <2>2, <2>3 DEF DiskInv, CountedInv
  <2>5. start.eval = AnyEval => Untouched'
    BY <1>1, <1>2, <2>3 DEF DiskInv, Untouched
  <2>6. start.eval = AnyEval => OnDisk'
    BY <1>1, <1>2, <1>7, <2>3 DEF DiskInv, OnDisk
  <2>7. ClearedInv'
    BY <1>1, <1>7, <1>3, <2>3 DEF DiskInv, ClearedInv
  <2> QED BY <1>2, <2>4, <2>5, <2>6, <2>7 DEF DiskInv
<1> QED BY <1>4, <1>5, <1>6, <1>7
-----------------------------------------------------------------------------
\* Only the engine writes results; evolve around it may drop those of models outside.
LEMMA OthersDisk ==
    ASSUME User \/ Host \/ UNCHANGED vars
    PROVE  disk' = disk \/ \E skills : disk' = Pruned(skills)
<1>1. CASE User \/ UNCHANGED vars
  BY <1>1 DEF User, FormInput, Run, Cancel, DashInput, AskQuit, Stay, Quit, SigTerm, SigInt,
              SigPlain, vars
<1>2. CASE Reconcile \/ RunReport \/ ReportFails
  BY <1>2 DEF Reconcile, RunReport, ReportFails, Reconciled
<1>3. CASE ReconcileFails
  BY <1>3 DEF ReconcileFails
<1>4. CASE Deliver \/ ProgramExits \/ RunChecks \/ UiCloses \/ UiReturns \/ PlainReturns \/ UiAborts
  BY <1>4 DEF Deliver, ProgramExits, RunChecks, UiCloses, UiReturns, PlainReturns, UiAborts
<1> QED BY <1>1, <1>2, <1>3, <1>4 DEF Host, Main

\* Every step keeps DiskInv.
LEMMA DiskStep ==
    ASSUME RowsInv, KeyedInv, JudgedInv, DiskInv, [Next]_vars PROVE DiskInv'
<1>1. CASE Engine
  <2>1. /\ UNCHANGED <<start, request>>
        /\ Begun \/ Goes \/ Breaks \/ Finishes \/ Advances
    BY <1>1, EngineDoes
  <2>2. CASE Begun
    BY <2>1, <2>2, DiskRests DEF Begun, Idles
  <2>3. CASE Goes
    <3>1. Open' = Open
      BY <2>3 DEF Goes, Open, UnitSet, Unit
    <3> QED BY <2>1, <2>3, <3>1, DiskRests DEF Goes, Idles
  <2>4. CASE Breaks
    BY <2>1, <2>4, DiskRests DEF Breaks
  <2>5. CASE Finishes
    <3>1. Running /\ disk' = disk /\ eng'.todo = eng.todo
      BY <2>5 DEF Finishes
    <3>2. eng.err = "none" /\ eng.todo # <<>>
      BY <3>1, RunningIsWell DEF RowsInv
    <3>3. Open = UnitSet /\ Open' = Open
      BY <3>1, <3>2 DEF Open, UnitSet, Unit
    <3>4. PICK row \in UnitSet \ DOMAIN ran : \E v \in Verdicts : ran' = Adding(ran, {row}, v)
      BY <2>5 DEF Finishes
    <3>5. \E x \in Open : \E v : v # "none" /\ ran' = Adding(ran, {x}, v)
      BY <3>3, <3>4 DEF Verdicts
    <3> QED BY <2>1, <3>1, <3>2, <3>3, <3>5, DiskRests
  <2> QED BY <2>1, <2>2, <2>3, <2>4, <2>5, SaveDisk
<1>2. CASE ~Engine
  <2>1. User \/ Host \/ UNCHANGED vars
    BY <1>2 DEF Next
  <2>2. Resumes /\ (disk' = disk \/ \E skills : disk' = Pruned(skills))
    BY <2>1, EngineRests, OthersDisk
  <2>3. CASE UNCHANGED <<request, eng>>
    <3>1. Open' = Open
      BY <2>3 DEF Open, UnitSet, Unit
    <3> QED BY <2>2, <2>3, <3>1, DiskRests DEF Resumes
  <2> QED BY <2>2, <2>3, DiskRests DEF Resumes
<1> QED BY <1>1, <1>2

\* Before the engine starts nothing has run.
LEMMA ResultsInit == Init => KeyedInv /\ JudgedInv /\ ExitInv /\ ReportInv /\ DiskInv
<1> SUFFICES ASSUME Init PROVE KeyedInv /\ JudgedInv /\ ExitInv /\ ReportInv /\ DiskInv
  OBVIOUS
<1>1. /\ eng.pc = "select" /\ eng.todo = <<>> /\ ran = <<>> /\ ui = "starting" /\ exit = "none"
      /\ disk.stored = start.stored /\ start \in Starts
  BY DEF Init, EmptyEngine
<1>2. KeyedInv
  BY <1>1, NoRows DEF KeyedInv
<1>3. JudgedInv
  BY <1>1, NoRows DEF JudgedInv
<1>4. ExitInv /\ ReportInv
  BY <1>1 DEF ExitInv, ReportInv
<1>5. DOMAIN disk.stored = Recorded \X (AllCases \cup Removed)
  BY <1>1, StartsAssumption
<1>6. DiskInv
  BY <1>1, <1>5, NoRows DEF DiskInv, CountedInv, ClearedInv, Untouched, OnDisk
<1> QED BY <1>2, <1>3, <1>4, <1>6
-----------------------------------------------------------------------------
\* A model with a harness that can run it has one that supports it.
LEMMA RunnableTells ==
    ASSUME NEW m, NEW eligible, RunnableHarness(m, eligible) # NoHarness
    PROVE  Supports[m] # {}
<1> DEFINE E == eligible \cap Supports[m]
           fit == Only(Builtins, E)
<1>1. IsSeq(Builtins)
  BY CatalogAssumption DEF IsSeq
<1>2. IsSeq(fit) /\ ToSet(fit) = ToSet(Builtins) \cap E
  <2> HIDE DEF E
  <2> QED BY <1>1, OnlyTells
<1>3. fit = <<>> => RunnableHarness(m, eligible) = NoHarness
  <2>1. RunnableHarness(m, eligible) = CASE fit = <<>> -> NoHarness
                                         [] Preferred[m] \in ToSet(fit) -> Preferred[m]
                                         [] OTHER -> Head(fit)
    BY Zenon DEF RunnableHarness
  <2> HIDE DEF fit
  <2>2. fit = <<>> => Preferred[m] \notin ToSet(fit)
    BY SeqEmpty
  <2> QED BY <2>1, <2>2
<1>4. ToSet(fit) # {}
  <2> HIDE DEF fit
  <2> QED BY <1>2, <1>3, NoneEmpty
<1> QED BY <1>2, <1>4

\* The result a row is shown with until it runs.
Opening(row) == IF start.stored[row] \in Verdicts THEN start.stored[row] ELSE "nodata"

\* On the dashboard are models that can run;
ModelsRun == screen = "dash" => \A m \in ToSet(request.models) : m \in Models /\ Supports[m] # {}

\* the rows that are not queued show what was on disk;
PriorsShown == screen = "dash" =>
    \A row \in ToSet(dash.log) \ dash.queued : dash.status[row] = Opening(row)

\* and once the run is done the others show what the engine has found.
EndShown ==
    dash.done =>
      /\ screen = "dash"
      /\ eng.err = "none" =>
           /\ dash.base = {} /\ \A row \in ToSet(dash.log) : dash.status[row] # "running"
           /\ \A row \in DOMAIN ran : ran[row] # "none" => dash.status[row] = ran[row]

\* The dashboard shows the results.
BoardInv == ModelsRun /\ PriorsShown /\ EndShown

\* As the dashboard opens, the rows that are not queued show what is on disk.
LEMMA BuiltShows ==
    ASSUME NEW q, NEW stored, NEW row \in ToSet(RowsOf(UnitsOf(q.models))) \ QueuedRows(q)
    PROVE  NewDashboard(Build(q), stored).status[row]
             = IF stored[row] \in Verdicts THEN stored[row] ELSE "nodata"
<1> DEFINE d == NewDashboard(Build(q), stored)
           log == RowsOf(UnitsOf(q.models))
           queued == QueuedRows(q)
<1>1. Build(q).units = UnitsOf(q.models) /\ Build(q).queued = queued
  BY DEF Build
<1>2. row \in ToSet(log) \ queued
  OBVIOUS
<1> HIDE DEF log, queued
<1>3. d.status = [x \in ToSet(log) |-> IF stored[x] \in Verdicts THEN stored[x]
                                       ELSE IF x \in queued THEN "pending" ELSE "nodata"]
  BY <1>1 DEF NewDashboard, log
<1>4. d.status[row] = IF stored[row] \in Verdicts THEN stored[row] ELSE "nodata"
  BY <1>2, <1>3
<1> QED BY <1>4

\* [r] opens such a dashboard.
LEMMA RunBoards == ASSUME RowsInv, Run PROVE BoardInv'
<1> DEFINE q == Request(form.session, reasons)
           d == NewDashboard(Build(q), start.stored)
<1>1. /\ screen' = "dash" /\ request' = q /\ dash' = d /\ start' = start
  BY DEF Run
<1>2. /\ d.log = RowsOf(UnitsOf(q.models)) /\ d.queued = QueuedRows(q) /\ d.done = FALSE
  <2> HIDE DEF q
  <2> DEFINE s == start.stored
  <2>1. d = NewDashboard(Build(q), s)
    OBVIOUS
  <2> HIDE DEF d, s
  <2>2. /\ IsDash(d) /\ d.units = UnitsOf(q.models) /\ d.log = RowsOf(d.units)
        /\ d.queued = QueuedRows(q) /\ DOMAIN d.status = ToSet(d.log)
        /\ \A row \in ToSet(d.log) : d.status[row] # "running"
        /\ d.base = {} /\ d.live = {} /\ d.inflight = <<>> /\ d.done = FALSE
    BY <2>1, BuiltTells, Zenon
  <2> QED BY <2>2
<1>3. ToSet(q.models) = Enabled(form.session)
  BY RequestTells
<1>4. \A m \in Enabled(form.session) : m \in Models /\ Supports[m] # {}
  BY RunnableTells DEF Enabled, Runnable
<1>5. \A row \in ToSet(d.log) \ d.queued :
         d.status[row] = IF start.stored[row] \in Verdicts THEN start.stored[row] ELSE "nodata"
  BY <1>2, BuiltShows
<1> HIDE DEF q, d
<1>6. ModelsRun'
  BY <1>1, <1>3, <1>4 DEF ModelsRun
<1>7. PriorsShown'
  BY <1>1, <1>5 DEF PriorsShown, Opening
<1>8. EndShown'
  BY <1>1, <1>2 DEF EndShown
<1> QED BY <1>6, <1>7, <1>8 DEF BoardInv

\* What an event of the engine changes of the dashboard.
Beats == /\ dash'.done = dash.done
         /\ screen = "dash" => /\ dash'.log = dash.log /\ dash'.queued = dash.queued
                               /\ \A row \in ToSet(dash.log) \ dash.queued :
                                      dash'.status[row] = dash.status[row]

\* An event told to the program changes no more than it says.
LEMMA ToldBeats ==
    ASSUME RowsInv, eng.pc = "sweep", NEW e, Tell(e),
           screen = "dash" /\ prog = "up" =>
             /\ e.done = dash.done /\ e.log = dash.log /\ e.queued = dash.queued
             /\ \A row \in ToSet(dash.log) \ dash.queued : e.status[row] = dash.status[row]
    PROVE  Beats
<1>1. CASE prog = "up"
  <2>1. screen = "dash" /\ dash' = e
    BY <1>1 DEF Tell, RowsInv, OpenInv
  <2> QED BY <1>1, <2>1 DEF Beats
<1>2. CASE prog # "up"
  BY <1>2 DEF Tell, Beats
<1> QED BY <1>1, <1>2

\* The unit at hand is queued.
LEMMA QueuedUnit ==
    ASSUME RowsInv, Running, screen = "dash"
    PROVE  UnitSet \subseteq dash.queued
<1>1. eng.err = "none" /\ eng.todo # <<>>
  BY RunningIsWell DEF RowsInv
<1>2. UnitSet \subseteq Left
  BY <1>1, UnitLeft DEF RowsInv
<1> QED BY <1>1, <1>2 DEF RowsInv, WorkInv

\* A case starts,
LEMMA StartBeats ==
    ASSUME RowsInv, Running, NEW row \in UnitSet, NEW b, Tell(StartCase(dash, row, b))
    PROVE  Beats
<1> DEFINE e == StartCase(dash, row, b)
<1>1. eng.pc = "sweep"
  BY RunningIsWell DEF RowsInv
<1>2. ASSUME screen = "dash", prog = "up"
      PROVE  /\ e.done = dash.done /\ e.log = dash.log /\ e.queued = dash.queued
             /\ \A x \in ToSet(dash.log) \ dash.queued : e.status[x] = dash.status[x]
  <2>1. /\ row \in DOMAIN dash.status /\ IsDash(dash) /\ DOMAIN dash.status = ToSet(dash.log)
        /\ IsSeq(dash.inflight) /\ Distinct(dash.inflight)
    BY <1>2, RunningShown
  <2>2. /\ e.log = dash.log /\ e.queued = dash.queued
        /\ e.done = dash.done
        /\ e.status = [dash.status EXCEPT ![row] = "running"]
    BY <2>1, StartTellsRows, Zenon
  <2>3. row \in dash.queued
    BY <1>2, QueuedUnit
  <2> HIDE DEF e
  <2> QED BY <2>1, <2>2, <2>3
<1> HIDE DEF e
<1>3. Tell(e)
  BY DEF e
<1> QED BY <1>1, <1>2, <1>3, ToldBeats

\* ends,
LEMMA FinishBeats == ASSUME RowsInv, FinishItem PROVE Beats
<1>1. Running /\ eng.pc = "sweep" /\ eng.err = "none" /\ WorkInv
  BY RunningIsWell DEF FinishItem, RowsInv
<1>2. PICK row \in eng.run : \E v : Tell(ItemDone(dash, row, v))
  BY DEF FinishItem
<1>3. PICK v : Tell(ItemDone(dash, row, v))
  BY <1>2
<1> DEFINE e == ItemDone(dash, row, v)
<1>4. row \in UnitSet
  BY <1>1, BusyRows DEF Busy
<1>5. ASSUME screen = "dash", prog = "up"
      PROVE  /\ e.done = dash.done /\ e.log = dash.log /\ e.queued = dash.queued
             /\ \A x \in ToSet(dash.log) \ dash.queued : e.status[x] = dash.status[x]
  <2>1. /\ row \in DOMAIN dash.status /\ IsDash(dash) /\ DOMAIN dash.status = ToSet(dash.log)
        /\ IsSeq(dash.inflight) /\ Distinct(dash.inflight)
    BY <1>1, <1>4, <1>5, RunningShown
  <2>2. /\ e.log = dash.log /\ e.queued = dash.queued /\ e.done = dash.done
        /\ e.status = [dash.status EXCEPT ![row] = v]
    BY <2>1, ItemDoneTells
  <2>3. row \in dash.queued
    BY <1>1, <1>4, <1>5, QueuedUnit
  <2> HIDE DEF e
  <2> QED BY <2>1, <2>2, <2>3
<1>6. Tell(e)
  BY <1>3
<1> HIDE DEF e
<1> QED BY <1>1, <1>5, <1>6, ToldBeats

\* or only counts tokens:
LEMMA CountBeats == ASSUME RowsInv, CountUnit PROVE Beats
<1> DEFINE row1 == Head(UnitRows(Unit))
           e == UnitCounted(dash, row1)
           rows == (ToSet(UnitRows(UnitOf(dash, row1))) \cap dash.queued) \ dash.live
<1>1. eng.pc = "sweep" /\ Tell(e)
  BY DEF CountUnit, Sweeping
<1>2. ASSUME screen = "dash"
      PROVE  /\ e.done = dash.done /\ e.log = dash.log /\ e.queued = dash.queued
             /\ \A x \in ToSet(dash.log) \ dash.queued : e.status[x] = dash.status[x]
  <2>1. IsDash(dash) /\ DOMAIN dash.status = ToSet(dash.log)
    BY <1>2 DEF RowsInv, PlanInv
  <2>2. /\ e.log = dash.log /\ e.queued = dash.queued /\ e.done = dash.done
        /\ \A row \in DOMAIN dash.status :
               e.status[row] = IF row \in rows /\ dash.status[row] = "pending"
                               THEN "count" ELSE dash.status[row]
    BY <2>1, UnitCountedTells
  <2>3. rows \subseteq dash.queued
    OBVIOUS
  <2> HIDE DEF e, rows
  <2> QED BY <2>1, <2>2, <2>3
<1> HIDE DEF e
<1> QED BY <1>1, <1>2, ToldBeats

\* no event but the end changes more than queued rows.
LEMMA EngineBeats == ASSUME RowsInv, Engine, ~EngineEnds PROVE Beats
<1>1. CASE StartBaseline \/ StartItem
  <2>1. Running
    BY <1>1 DEF StartBaseline, StartItem
  <2>2. PICK row \in Waiting : \E b \in BOOLEAN : Tell(StartCase(dash, row, b))
    BY <1>1 DEF StartBaseline, StartItem
  <2>3. row \in UnitSet
    BY DEF Waiting
  <2> QED BY <2>1, <2>2, <2>3, StartBeats
<1>2. CASE FinishBaseline
  <2>1. Running
    BY <1>2 DEF FinishBaseline
  <2>2. PICK row \in eng.base : Tell(StartCase(dash, row, FALSE))
    BY <1>2 DEF FinishBaseline
  <2>3. row \in UnitSet
    <3>1. WorkInv /\ eng.err = "none"
      BY <2>1, RunningIsWell DEF RowsInv
    <3> QED BY <2>1, <3>1, BusyRows DEF Busy
  <2> QED BY <2>1, <2>2, <2>3, StartBeats
<1>3. CASE FinishItem \/ CountUnit
  BY <1>3, FinishBeats, CountBeats
<1>4. CASE EngineTakes \/ EngineUnused \/ SaveUnit \/ AbortUnit
  BY <1>4 DEF EngineTakes, EngineUnused, SaveUnit, AbortUnit, user, Beats
<1> QED BY <1>1, <1>2, <1>3, <1>4 DEF Engine
-----------------------------------------------------------------------------
\* While the engine is at work the dashboard is not done.
LEMMA NotDone ==
    ASSUME SettledInv, BoardInv, eng.err = "none", dash.done
    PROVE  screen = "dash" /\ eng.pc = "stopped"
BY DEF SettledInv, BoardInv, EndShown

\* When the sweep ends the dashboard shows what it found.
LEMMA EndBoards == ASSUME RowsInv, SettledInv, BoardInv, EngineEnds PROVE BoardInv'
<1> USE DEF user, host, shell
<1>1. /\ eng.pc = "sweep" /\ eng.todo = <<>> /\ Tell(RunDone(dash, eng.failed))
      /\ UNCHANGED <<start, screen, request, ran, prog>>
  BY DEF EngineEnds
<1>2. eng'.err = "none" => eng.err = "none"
  <2>1. PICK err : /\ eng' = [eng EXCEPT !.pc = "stopped", !.err = err]
                   /\ err = eng.err \/ err = "fault"
    BY DEF EngineEnds
  <2> QED BY <2>1 DEF RowsInv, OpenInv
<1>3. CASE prog # "up"
  <2>1. dash' = dash
    BY <1>1, <1>3 DEF Tell
  <2>2. EndShown'
    <3>1. dash.done => eng.err # "none"
      BY <1>1, NotDone
    <3> QED BY <1>1, <1>2, <2>1, <3>1 DEF BoardInv, EndShown
  <2> QED BY <1>1, <2>1, <2>2 DEF BoardInv, ModelsRun, PriorsShown, Opening
<1>4. CASE prog = "up"
  <2>1. screen = "dash" /\ IsDash(dash)
    BY <1>1, <1>4 DEF RowsInv, OpenInv, PlanInv
  <2> DEFINE e == RunDone(dash, eng.failed)
  <2>2. /\ e.log = dash.log /\ e.queued = dash.queued /\ e.status = dash.status
        /\ e.base = dash.base
    BY <2>1, RunDoneTells
  <2>3. dash' = e
    BY <1>1, <1>4 DEF Tell
  <2> HIDE DEF e
  <2>4. ASSUME eng.err = "none"
        PROVE  /\ dash.base = {} /\ \A row \in ToSet(dash.log) : dash.status[row] # "running"
               /\ \A row \in DOMAIN ran : ran[row] # "none" => dash.status[row] = ran[row]
    <3>1. Busy = {}
      BY <1>1, <2>4 DEF RowsInv, WorkInv
    <3>2. eng.base = {}
      BY <3>1 DEF Busy
    <3> QED BY <1>4, <2>1, <2>4, <3>1, <3>2 DEF RowsInv, LiveInv
  <2>5. EndShown'
    BY <1>1, <1>2, <2>1, <2>2, <2>3, <2>4 DEF EndShown
  <2>6. ModelsRun' /\ PriorsShown'
    BY <1>1, <2>2, <2>3 DEF BoardInv, ModelsRun, PriorsShown, Opening
  <2> QED BY <2>5, <2>6 DEF BoardInv
<1> QED BY <1>3, <1>4

\* A step that leaves the verdicts alone keeps BoardInv.
LEMMA SameBoards ==
    ASSUME BoardInv, screen = "dash" => Same(dash, dash'), screen = "form" => dash' = dash,
           screen \in {"form", "dash"}, UNCHANGED <<start, screen, request, eng, ran>>
    PROVE  BoardInv'
<1>1. CASE screen = "dash"
  <2>1. /\ dash'.log = dash.log /\ dash'.queued = dash.queued /\ dash'.status = dash.status
        /\ dash'.base = dash.base /\ dash'.done = dash.done
    BY <1>1 DEF Same
  <2> QED BY <2>1 DEF BoardInv, ModelsRun, PriorsShown, EndShown, Opening
<1>2. CASE screen = "form"
  BY <1>2 DEF BoardInv, ModelsRun, PriorsShown, EndShown, Opening
<1> QED BY <1>1, <1>2

\* The user's steps.
LEMMA UserBoards == ASSUME RowsInv, BoardInv, User PROVE BoardInv'
<1> USE DEF user, host, shell
<1>0. screen \in {"form", "dash"}
  BY DEF RowsInv, OpenInv
<1>1. CASE DashInput
  <2>1. screen = "dash" /\ UNCHANGED <<start, screen, request, eng, ran>>
    BY <1>1 DEF DashInput, Handles
  <2>2. IsDash(dash)
    BY <2>1 DEF RowsInv, PlanInv
  <2>3. dash' \in PaneInputs(dash) \cup TreeInputs(dash, Nodes(dash, dash.open))
    BY <1>1 DEF DashInput
  <2>4. Same(dash, dash')
    BY <2>2, <2>3, SameInputs
  <2> QED BY <1>0, <2>1, <2>4, SameBoards
<1>2. CASE AskQuit \/ Stay
  <2>1. /\ screen = "dash" /\ \E x \in BOOLEAN : dash' = [dash EXCEPT !.confirm = x]
        /\ UNCHANGED <<start, screen, request, eng, ran>>
    BY <1>2 DEF AskQuit, Stay, Handles
  <2>2. IsDash(dash)
    BY <2>1 DEF RowsInv, PlanInv
  <2>3. \A x : Same(dash, [dash EXCEPT !.confirm = x])
    BY <2>2, SameEdits
  <2>4. Same(dash, dash')
    BY <2>1, <2>3
  <2> QED BY <1>0, <2>1, <2>4, SameBoards
<1>3. CASE FormInput \/ Cancel \/ Quit \/ SigTerm \/ SigInt \/ SigPlain
  <2>1. UNCHANGED <<start, screen, request, eng, ran, dash>>
    BY <1>3 DEF FormInput, Cancel, Quit, SigTerm, SigInt, SigPlain
  <2> QED BY <2>1 DEF BoardInv, ModelsRun, PriorsShown, EndShown, Opening
<1> QED BY <1>1, <1>2, <1>3, RunBoards DEF User

\* Every step keeps BoardInv.
LEMMA BoardStep == ASSUME RowsInv, SettledInv, BoardInv, [Next]_vars PROVE BoardInv'
<1>1. CASE Engine /\ ~EngineEnds
  <2>1. Beats /\ UNCHANGED <<start, screen, request>>
    BY <1>1, EngineBeats, EngineDoes
  <2>2. eng.err = "none"
    BY <1>1 DEF Engine, EngineTakes, EngineUnused, StartBaseline, FinishBaseline, StartItem,
                FinishItem, SaveUnit, CountUnit, AbortUnit, Running, Sweeping, RowsInv, OpenInv
  <2>3. ~dash.done
    <3>1. eng.pc # "stopped"
      BY <1>1, EngineNotEnded DEF Ended
    <3> QED BY <2>2, <3>1, NotDone
  <2> QED BY <2>1, <2>3 DEF Beats, BoardInv, ModelsRun, PriorsShown, EndShown, Opening
<1>2. CASE UNCHANGED vars
  BY <1>2 DEF vars, user, BoardInv, ModelsRun, PriorsShown, EndShown, Opening
<1>3. CASE Host
  <2>1. dash' = dash /\ screen' = screen /\ Resumes
    BY <1>3, HostMoves, EngineRests
  <2>2. CASE UNCHANGED <<request, eng>>
    BY <2>1, <2>2 DEF Resumes, BoardInv, ModelsRun, PriorsShown, EndShown, Opening
  <2>3. CASE screen = "form"
    BY <2>1, <2>3 DEF BoardInv, ModelsRun, PriorsShown, EndShown
  <2> QED BY <2>1, <2>2, <2>3 DEF Resumes
<1> QED BY <1>1, <1>2, <1>3, EndBoards, UserBoards DEF Next

\* At first there is no dashboard.
LEMMA BoardInit == Init => BoardInv
<1> SUFFICES ASSUME Init PROVE BoardInv
  OBVIOUS
<1>1. screen = "form" /\ dash = NewDashboard(Build(NoRequest), start.stored)
  BY DEF Init
<1>2. dash.done = FALSE
  BY <1>1 DEF NewDashboard
<1> QED BY <1>1, <1>2 DEF BoardInv, ModelsRun, PriorsShown, EndShown

-----------------------------------------------------------------------------
(* The invariant behind VerdictsAgree, and what it says of a finished run.  *)

\* What the run has found stays, on the dashboard, on disk and in the reports.
ResultsInv == KeyedInv /\ JudgedInv /\ ExitInv /\ ReportInv /\ DiskInv /\ BoardInv

\* When the run is done, a row whose entry executed is shown with the verdict
\* on disk, and a row without a result without one.
LEMMA BoardIsDisk ==
    ASSUME RowsInv, TakesInv, ResultsInv, dash.done, eng.err = "none", start.eval = AnyEval,
           NEW row \in ToSet(dash.log)
    PROVE  /\ row[1] \in Reported /\ row = <<row[1], row[2]>> /\ row[2] \in AllCases
           /\ row[1] \in ToSet(request.models) /\ Allows(EntryOf(row[2]), row[1])
           /\ disk.stored[row] \in Verdicts => dash.status[row] = disk.stored[row]
           /\ disk.stored[row] = "absent" => dash.status[row] = "nodata"
           /\ EntryKeyOf(row) \in disk.executed /\ dash.status[row] \in Verdicts
                 => disk.stored[row] = dash.status[row]
           /\ ~Active(dash, row) /\ ~QueuedPending(dash, row)
<1>1. screen = "dash" /\ eng.pc = "stopped"
  BY NotDone DEF TakesInv, ResultsInv
<1>2. /\ IsSeq(request.models) /\ ToSet(dash.log) = Rows(ToSet(request.models))
      /\ dash.queued = QueuedRows(request)
  BY <1>1, PlanRows DEF RowsInv, PlanInv
<1>3. /\ row[1] \in ToSet(request.models) /\ row[2] \in AllCases /\ row = <<row[1], row[2]>>
      /\ Allows(EntryOf(row[2]), row[1])
  BY <1>2 DEF Rows
<1>4. row[1] \in Reported
  <2>1. row[1] \in Models /\ Supports[row[1]] # {}
    BY <1>1, <1>3 DEF ResultsInv, BoardInv, ModelsRun
  <2> QED BY <2>1 DEF Reported, ActiveKeys, Recorded
<1>5. DOMAIN ran = dash.queued
  <2>1. Interactive
    BY <1>1 DEF RowsInv, OpenInv
  <2>2. DOMAIN ran \cup Left = Planned /\ Left = {}
    BY <1>1, NoRows DEF TakesInv, PlannedInv, Left
  <2>3. Planned = QueuedRows(request)
    <3>1. Planned = {x \in QueuedRows(request) : EvalAllows(start.eval, x)}
      BY <2>1 DEF Planned
    <3>2. \A x : EvalAllows(start.eval, x)
      BY DEF EvalAllows
    <3> QED BY <3>1, <3>2
  <2> QED BY <1>2, <2>2, <2>3
<1>6. Open = {}
  BY <1>1 DEF Open, TakesInv, PlannedInv
<1>7. row \in Reported \X AllCases
  BY <1>3, <1>4
<1>8. /\ row \notin DOMAIN ran => disk.stored[row] = start.stored[row]
      /\ row \in DOMAIN ran => disk.stored[row] = ran[row]
  BY <1>6, <1>7 DEF ResultsInv, DiskInv, Untouched, OnDisk
<1>9. row \notin DOMAIN ran => dash.status[row] = Opening(row)
  BY <1>1, <1>5 DEF ResultsInv, BoardInv, PriorsShown
<1>10. row \in DOMAIN ran =>
         /\ ran[row] # "none" => dash.status[row] = ran[row]
         /\ ran[row] = "none" => EntryKeyOf(row) \notin disk.executed
         /\ ran[row] \in Verdicts \cup {"none"}
  BY DEF ResultsInv, BoardInv, EndShown, DiskInv, CountedInv, RowsInv, WorkInv
<1>11. ~Active(dash, row)
  BY <1>1 DEF Active, ResultsInv, BoardInv, EndShown
<1>12. ~QueuedPending(dash, row)
  <2>1. DOMAIN ran \subseteq dash.live
    BY <1>1 DEF TakesInv, SettledInv
  <2> QED BY <1>5, <2>1 DEF QueuedPending
<1>13. /\ disk.stored[row] \in Verdicts => dash.status[row] = disk.stored[row]
       /\ disk.stored[row] = "absent" => dash.status[row] = "nodata"
       /\ EntryKeyOf(row) \in disk.executed /\ dash.status[row] \in Verdicts
             => disk.stored[row] = dash.status[row]
  BY <1>8, <1>9, <1>10 DEF Opening, Verdicts
<1> QED BY <1>3, <1>4, <1>11, <1>12, <1>13
-----------------------------------------------------------------------------
\* Every step keeps the invariant.
LEMMA ResultsStep == ASSUME RowsInv, TakesInv, ResultsInv, [Next]_vars PROVE ResultsInv'
<1>1. KeyedInv' /\ JudgedInv' /\ ExitInv'
  BY KeyedStep, VerdictsStep, ExitStep DEF ResultsInv
<1>2. ReportInv' /\ DiskInv' /\ BoardInv'
  BY ReportsStep, DiskStep, BoardStep DEF ResultsInv, TakesInv
<1> QED BY <1>1, <1>2 DEF ResultsInv

\* The invariant behind VerdictsAgree: a unit's results are verdicts exactly where its
\* harness runs its tier, they are on disk once the unit is saved and nobody touches them
\* after, the reports are generated last, the dashboard ends with what the engine found,
\* and evolve ends well only if nothing failed (runui.go, dashboard.go, results.go, report.go).
THEOREM ResultsAlways == Spec => []ResultsInv
<1>1. Init => ResultsInv
  BY ResultsInit, BoardInit DEF ResultsInv
<1>2. RowsInv /\ TakesInv /\ ResultsInv /\ [Next]_vars => ResultsInv'
  BY ResultsStep
<1> QED BY <1>1, <1>2, RowsAlways, TakesAlways, PTL DEF Spec

\* The invariants say what ExitTellsFailures says.
LEMMA ExitTells == ASSUME RowsInv, TakesInv, ResultsInv PROVE ExitTellsFailures
<1> SUFFICES ASSUME exit = "ok", eng.err = "none", NEW row \in DOMAIN ran
             PROVE  checked # "failures" /\ ran[row] \in {"pass", "none"}
  BY DEF ExitTellsFailures, ResultsInv, ExitInv
<1>1. ~eng.failed /\ checked # "failures" /\ Ended
  BY DEF ResultsInv, ExitInv
<1>2. eng.pc = "stopped"
  BY <1>1, NoRows DEF Ended, RowsInv, OpenInv
<1>3. Open = {}
  BY <1>2 DEF Open, TakesInv, PlannedInv
<1>4. ran[row] \notin {"fail", "error"}
  BY <1>1, <1>3 DEF ResultsInv, JudgedInv
<1>5. ran[row] \in Verdicts \cup {"none"}
  BY DEF RowsInv, WorkInv
<1> QED BY <1>1, <1>4, <1>5 DEF Verdicts

\* A product grows with its factors.
LEMMA ProductsTell ==
    ASSUME NEW a \in Nat, NEW b \in Nat, NEW c \in Nat, NEW d \in Nat, a <= c, b <= d
    PROVE  a * b <= c * d
<1>1. PICK x \in Nat : c = a + x
  <2>1. c - a \in Nat /\ c = a + (c - a)
    OBVIOUS
  <2> QED BY <2>1
<1>2. PICK y \in Nat : d = b + y
  <2>1. d - b \in Nat /\ d = b + (d - b)
    OBVIOUS
  <2> QED BY <2>1
<1>3. c * d = a * b + a * y + x * b + x * y
  BY <1>1, <1>2
<1>4. a * b \in Nat /\ a * y \in Nat /\ x * b \in Nat /\ x * y \in Nat
  OBVIOUS
<1> QED BY <1>3, <1>4

\* Nothing improves unless an eval that did not pass now does.
LEMMA ImprovedTells ==
    ASSUME NEW d, NEW stored, NEW known, NEW rows, IsFiniteSet(rows),
           Improved(d, stored, known, rows)
    PROVE  \E row \in rows : d.status[row] = "pass" /\ Basis(stored, known, row) # "pass"
<1> DEFINE ended == {row \in rows : d.status[row] \in Settled}
           passed == With(d, ended, "pass")
           judged == {row \in ended : Basis(stored, known, row) \in {"pass", "fail"}}
           before == {row \in judged : Basis(stored, known, row) = "pass"}
<1>1. SUFFICES ASSUME \A row \in rows :
                        d.status[row] = "pass" => Basis(stored, known, row) = "pass"
               PROVE  FALSE
  OBVIOUS
<1>2. Cardinality(passed) * Cardinality(judged) > Cardinality(before) * Cardinality(ended)
  BY DEF Improved
<1>3. /\ passed \subseteq before /\ judged \subseteq ended
      /\ before \subseteq rows /\ ended \subseteq rows
  BY <1>1 DEF With
<1> HIDE DEF ended, passed, judged, before
<1>4. IsFiniteSet(before) /\ IsFiniteSet(ended)
  BY <1>3, FS_Subset
<1>5. /\ Cardinality(passed) <= Cardinality(before) /\ Cardinality(judged) <= Cardinality(ended)
      /\ IsFiniteSet(passed) /\ IsFiniteSet(judged)
  BY <1>3, <1>4, FS_Subset
<1>6. /\ Cardinality(passed) \in Nat /\ Cardinality(judged) \in Nat
      /\ Cardinality(before) \in Nat /\ Cardinality(ended) \in Nat
  BY <1>4, <1>5, FS_CardinalityType
<1>7. Cardinality(passed) * Cardinality(judged) <= Cardinality(before) * Cardinality(ended)
  BY <1>5, <1>6, ProductsTell
<1>8. /\ Cardinality(passed) * Cardinality(judged) \in Nat
      /\ Cardinality(before) * Cardinality(ended) \in Nat
  BY <1>6
<1> QED BY <1>2, <1>7, <1>8
-----------------------------------------------------------------------------
(* The dashboard, the gate and the reports count the same results.         *)

\* The rows of a tier are its cases.
LEMMA TierShown ==
    ASSUME RowsInv, screen = "dash", NEW sc \in ToSet(Catalog), NEW m \in ToSet(request.models),
           Allows(sc, m), NEW t \in ToSet(Tiers)
    PROVE  OfTier(RowsIn(m, sc), t) = {m} \X TierCases(sc, t)
<1>1. ToSet(dash.log) = Rows(ToSet(request.models))
  <2>1. IsSeq(request.models) /\ dash.log = RowsOf(UnitsOf(request.models))
    BY DEF RowsInv, PlanInv
  <2> QED BY <2>1, PlanRows
<1>2. TierCases(sc, t) = ToSet(TierSeq(sc, t))
  BY DEF TierCases, TierSeq
<1>3. ASSUME NEW row \in OfTier(RowsIn(m, sc), t) PROVE row \in {m} \X TierCases(sc, t)
  <2>1. row \in ToSet(dash.log) /\ row[1] = m /\ EntryOf(row[2]) = sc /\ TierOf(row[2]) = t
    BY <1>3 DEF OfTier, RowsIn
  <2>2. row = <<row[1], row[2]>> /\ row[2] \in AllCases
    BY <1>1, <2>1 DEF Rows
  <2>3. row[2] \in ToSet(sc.triggers) \cup ToSet(sc.evals)
    BY <2>1, <2>2, EntryHas, TierSeqs
  <2>4. row[2] \in TierCases(sc, t)
    BY <2>1, <2>3 DEF TierCases, TierOf, IsEval
  <2> QED BY <2>1, <2>2, <2>4
<1>4. ASSUME NEW c \in TierCases(sc, t) PROVE <<m, c>> \in OfTier(RowsIn(m, sc), t)
  <2>1. c \in AllCases /\ EntryOf(c) = sc /\ TierOf(c) = t
    BY <1>2, TierIs
  <2>2. <<m, c>> \in ToSet(dash.log)
    BY <1>1, <2>1 DEF Rows
  <2> QED BY <2>1, <2>2 DEF OfTier, RowsIn
<1> QED BY <1>3, <1>4

\* They are finitely many.
LEMMA TiersFinite ==
    ASSUME NEW m, NEW sc \in ToSet(Catalog), NEW t
    PROVE  IsFiniteSet({m} \X TierCases(sc, t))
<1>1. {m} \X TierCases(sc, t) \in SUBSET ({m} \X AllCases)
  BY TierSeqs DEF TierCases
<1>2. IsFiniteSet({m} \X AllCases)
  BY CasesFinite, FS_Singleton, FS_Product
<1> QED BY <1>1, <1>2, FS_Subset

\* A case is in a spec file.
LEMMA CasesInFiles ==
    ASSUME NEW sc \in ToSet(Catalog), NEW t \in ToSet(Tiers), TierCases(sc, t) # {}
    PROVE  t \in sc.files
<1>1. t \in {"triggers", "evals"}
  BY TierNames
<1>2. t = "evals" => sc.evals # <<>>
  BY SeqEmpty DEF TierCases
<1>3. t = "triggers" => sc.triggers # <<>>
  BY SeqEmpty DEF TierCases
<1> QED BY <1>1, <1>2, <1>3, CatalogAssumption

\* The results of an entry that count: those of one that executed.
Executed(sc, t, m) ==
    IF <<sc.skill, m, t>> \in disk.executed THEN Entry(disk, sc, t, m) ELSE {}

\* Without results of removed cases an entry holds those of its cases.
LEMMA EntryIsCases ==
    ASSUME NEW scs, NEW t, NEW m, NoneRemoved(scs, t, m), NEW sc \in scs
    PROVE  Entry(disk, sc, t, m) = {row \in {m} \X TierCases(sc, t) : disk.stored[row] # "absent"}
<1>1. \A c \in sc.removed[t] : disk.stored[<<m, c>>] = "absent"
  BY DEF NoneRemoved
<1> QED BY <1>1 DEF Entry, Ever

\* The only skill of a plugin has all its results.
LEMMA OthersEmpty ==
    ASSUME NEW sc \in ToSet(Catalog), OnlySkill(sc), NEW t, NEW m,
           NoneRemoved(SkillsOf(sc.plugin), t, m)
    PROVE  /\ sc \in SkillsOf(sc.plugin)
           /\ \A x \in SkillsOf(sc.plugin) : x # sc => Entry(disk, x, t, m) = {}
<1>1. sc \in SkillsOf(sc.plugin)
  BY DEF SkillsOf
<1>2. ASSUME NEW x \in SkillsOf(sc.plugin), x # sc PROVE Entry(disk, x, t, m) = {}
  <2>1. x \in ToSet(Catalog) /\ CasesOf(x) = <<>>
    BY <1>2 DEF OnlySkill, SkillsOf
  <2>2. ToSet(x.triggers) \cup ToSet(x.evals) = {}
    BY <2>1, TierSeqs, SeqEmpty
  <2>3. TierCases(x, t) = {}
    BY <2>2 DEF TierCases
  <2>4. Entry(disk, x, t, m) = {row \in {m} \X TierCases(x, t) : disk.stored[row] # "absent"}
    BY <1>2, EntryIsCases
  <2> QED BY <2>3, <2>4
<1> QED BY <1>1, <1>2

\* So the plugin's rollup counts those of the skill.
LEMMA OnlyRollup ==
    ASSUME NEW sc \in ToSet(Catalog), OnlySkill(sc), NEW t, NEW m,
           NoneRemoved(SkillsOf(sc.plugin), t, m)
    PROVE  /\ Rollup(disk, SkillsOf(sc.plugin), t, m).passed
                = Cardinality({row \in Executed(sc, t, m) : disk.stored[row] = "pass"})
           /\ Rollup(disk, SkillsOf(sc.plugin), t, m).errored
                = Cardinality({row \in Executed(sc, t, m) : disk.stored[row] = "error"})
           /\ Rollup(disk, SkillsOf(sc.plugin), t, m).executed = Cardinality(Executed(sc, t, m))
           /\ Rollup(disk, SkillsOf(sc.plugin), t, m).judged <=> Executed(sc, t, m) # {}
<1> DEFINE scs == SkillsOf(sc.plugin)
           done == {x \in scs : <<x.skill, m, t>> \in disk.executed}
           U == UNION {Entry(disk, x, t, m) : x \in done}
<1>1. /\ Rollup(disk, scs, t, m).passed = Cardinality({row \in U : disk.stored[row] = "pass"})
      /\ Rollup(disk, scs, t, m).errored = Cardinality({row \in U : disk.stored[row] = "error"})
      /\ Rollup(disk, scs, t, m).executed = Cardinality(U)
      /\ Rollup(disk, scs, t, m).judged = (U # {})
  BY DEF Rollup
<1>2. U = Executed(sc, t, m)
  <2>1. sc \in scs /\ \A x \in scs : x # sc => Entry(disk, x, t, m) = {}
    BY OthersEmpty
  <2>2. sc \in done <=> <<sc.skill, m, t>> \in disk.executed
    BY <2>1
  <2>3. \A row : row \in U <=> \E x \in done : row \in Entry(disk, x, t, m)
    OBVIOUS
  <2>4. done \subseteq scs
    OBVIOUS
  <2> HIDE DEF done, scs, U
  <2>5. \A row : row \in U <=> sc \in done /\ row \in Entry(disk, sc, t, m)
    BY <2>1, <2>3, <2>4
  <2> QED BY <2>2, <2>5 DEF Executed
<1> HIDE DEF U
<1> QED BY <1>1, <1>2

\* For the one skill of a plugin the rollup counts those of its entry.
LEMMA OnlyCounts ==
    ASSUME NEW sc \in ToSet(Catalog), OnlySkill(sc), NEW t \in ToSet(Tiers),
           NEW active, NEW m \in active, NoneRemoved(SkillsOf(sc.plugin), t, m)
    PROVE  /\ RollupOf(Summary(disk, active), <<sc.plugin, t, m>>).passed
                = Cardinality({row \in Executed(sc, t, m) : disk.stored[row] = "pass"})
           /\ RollupOf(Summary(disk, active), <<sc.plugin, t, m>>).errored
                = Cardinality({row \in Executed(sc, t, m) : disk.stored[row] = "error"})
           /\ RollupOf(Summary(disk, active), <<sc.plugin, t, m>>).executed
                = Cardinality(Executed(sc, t, m))
           /\ RollupOf(Summary(disk, active), <<sc.plugin, t, m>>).judged
                <=> Executed(sc, t, m) # {}
<1> DEFINE p == sc.plugin
           k == <<p, t, m>>
           E == Entry(disk, sc, t, m)
           S == Summary(disk, active)
           r == RollupOf(Summary(disk, active), <<sc.plugin, t, m>>)
<1>1. p \in Plugins
  BY DEF Plugins
<1>2. sc \in SkillsOf(p) /\ \A x \in SkillsOf(p) : x # sc => Entry(disk, x, t, m) = {}
  BY OthersEmpty
<1>3. k \in DOMAIN S <=> E # {}
  <2>1. DOMAIN S = {j \in Plugins \X ToSet(Tiers) \X active :
                       \E x \in SkillsOf(j[1]) : Entry(disk, x, j[2], j[3]) # {}}
    BY DEF Summary
  <2>2. k \in Plugins \X ToSet(Tiers) \X active /\ k[1] = p /\ k[2] = t /\ k[3] = m
    BY <1>1
  <2>3. k \in DOMAIN S <=> \E x \in SkillsOf(k[1]) : Entry(disk, x, k[2], k[3]) # {}
    BY <2>1, <2>2
  <2> HIDE DEF S
  <2> QED BY <1>2, <2>2, <2>3
<1>4. k \in DOMAIN S => S[k] = Rollup(disk, SkillsOf(p), t, m)
  <2> SUFFICES ASSUME k \in DOMAIN S PROVE S[k] = Rollup(disk, SkillsOf(p), t, m)
    OBVIOUS
  <2>1. S[k] = Rollup(disk, SkillsOf(k[1]), k[2], k[3])
    BY DEF Summary
  <2> QED BY <2>1
<1>5. r = IF k \in DOMAIN S THEN S[k] ELSE NoRollup
  BY DEF RollupOf
<1> HIDE DEF S, k, r
<1>6. /\ r.passed = Cardinality({row \in Executed(sc, t, m) : disk.stored[row] = "pass"})
      /\ r.errored = Cardinality({row \in Executed(sc, t, m) : disk.stored[row] = "error"})
      /\ r.executed = Cardinality(Executed(sc, t, m))
      /\ r.judged <=> Executed(sc, t, m) # {}
  <2>1. CASE E # {}
    <3>1. r = Rollup(disk, SkillsOf(p), t, m)
      BY <1>3, <1>4, <1>5, <2>1
    <3>2. /\ Rollup(disk, SkillsOf(sc.plugin), t, m).passed
                = Cardinality({row \in Executed(sc, t, m) : disk.stored[row] = "pass"})
          /\ Rollup(disk, SkillsOf(sc.plugin), t, m).errored
                = Cardinality({row \in Executed(sc, t, m) : disk.stored[row] = "error"})
          /\ Rollup(disk, SkillsOf(sc.plugin), t, m).executed = Cardinality(Executed(sc, t, m))
          /\ Rollup(disk, SkillsOf(sc.plugin), t, m).judged <=> Executed(sc, t, m) # {}
      BY OnlyRollup, Zenon
    <3> QED BY <3>1, <3>2, Zenon
  <2>2. CASE E = {}
    <3>1. r = NoRollup
      BY <1>3, <1>5, <2>2
    <3>2. Executed(sc, t, m) = {}
      BY <2>2 DEF Executed
    <3>3. \A v : {row \in Executed(sc, t, m) : disk.stored[row] = v} = {}
      BY <3>2
    <3>4. r.passed = 0 /\ r.errored = 0 /\ r.executed = 0 /\ r.judged = FALSE
      BY <3>1 DEF NoRollup
    <3> QED BY <3>2, <3>3, <3>4, FS_EmptySet
  <2> QED BY <2>1, <2>2, Zenon
<1> QED BY <1>6, Zenon DEF r
-----------------------------------------------------------------------------
\* A tier without a failure cannot be below a threshold of at most 100 percent.
LEMMA ThresholdTells ==
    ASSUME NEW pass \in Nat, NEW fail \in Nat, NEW min \in 0 .. 100
    PROVE  TierStatus(pass, fail, min) = "fail"
             <=> pass + fail # 0 /\ 100 * pass < min * (pass + fail)
<1>1. min * pass <= 100 * pass
  BY ProductsTell
<1>2. min * (pass + fail) \in Nat /\ min * pass \in Nat
  <2>1. pass + fail \in Nat /\ min \in Nat
    OBVIOUS
  <2> QED BY <2>1
<1>3. CASE fail = 0
  <2>1. pass + fail = pass
    BY <1>3
  <2>2. TierStatus(pass, fail, min) = "pass"
    BY <1>3 DEF TierStatus
  <2>3. ~(100 * pass < min * (pass + fail))
    BY <1>1, <1>2, <2>1
  <2> QED BY <2>2, <2>3
<1>4. CASE fail # 0
  <2>1. pass + fail # 0
    BY <1>4
  <2> DEFINE need == min * (pass + fail)
  <2>2. TierStatus(pass, fail, min) = IF 100 * pass >= need THEN "threshold" ELSE "fail"
    BY <1>4 DEF TierStatus
  <2>3. need \in Nat
    BY <1>2
  <2> HIDE DEF need
  <2>4. 100 * pass >= need <=> ~(100 * pass < need)
    BY <2>3
  <2> QED BY <2>1, <2>2, <2>4 DEF need
<1> QED BY <1>3, <1>4

\* Every row is without a result or has a verdict, other than an error, of an
\* entry that executed.
Plain(row) == \/ disk.stored[row] = "absent"
              \/ disk.stored[row] \in {"pass", "fail"} /\ EntryKeyOf(row) \in disk.executed

\* At the end of such a run.
Final ==
    /\ RowsInv /\ TakesInv /\ ResultsInv
    /\ dash.done /\ eng.err = "none" /\ start.eval = AnyEval

\* With plain rows only, a tier's rollup counts what passed and what failed on the dashboard.
LEMMA CountsShown ==
    ASSUME Final, NEW sc \in ToSet(Catalog), OnlySkill(sc), NEW m \in ToSet(request.models),
           Allows(sc, m), \A row \in RowsIn(m, sc) : Plain(row), NEW t \in ToSet(Tiers),
           NoneRemoved(SkillsOf(sc.plugin), t, m),
           NEW r, r = RollupOf(Summary(disk, Reported), <<sc.plugin, t, m>>),
           NEW T, T = OfTier(RowsIn(m, sc), t)
    PROVE  /\ m \in Reported
           /\ Cardinality(With(dash, T, "pass")) \in Nat
           /\ Cardinality(With(dash, T, "fail")) \in Nat
           /\ r.passed = Cardinality(With(dash, T, "pass"))
           /\ r.executed = Cardinality(With(dash, T, "pass")) + Cardinality(With(dash, T, "fail"))
           /\ r.judged <=> r.executed # 0
           /\ r.executed # 0 => TierCases(sc, t) # {}
<1> DEFINE C == Executed(sc, t, m)
           P == With(dash, T, "pass")
           F == With(dash, T, "fail")
           key == <<sc.skill, m, t>>
<1>1. screen = "dash"
  BY NotDone DEF Final, TakesInv, ResultsInv
<1>2. T = {m} \X TierCases(sc, t)
  BY <1>1, TierShown DEF Final
<1>3. \A row \in T : row \in ToSet(dash.log) /\ Plain(row) /\ EntryKeyOf(row) = key
  BY DEF OfTier, RowsIn, EntryKeyOf
<1>4. m \in Reported
  <2>1. m \in Models /\ Supports[m] # {}
    BY <1>1 DEF Final, ResultsInv, BoardInv, ModelsRun
  <2> QED BY <2>1 DEF Reported, ActiveKeys, Recorded
<1>5. ASSUME NEW row \in T
      PROVE  /\ disk.stored[row] \in Verdicts => dash.status[row] = disk.stored[row]
             /\ disk.stored[row] = "absent" => dash.status[row] = "nodata"
  BY <1>3, BoardIsDisk DEF Final
<1>6. ASSUME NEW row \in T
      PROVE  /\ disk.stored[row] \in {"pass", "fail", "absent"}
             /\ dash.status[row] = "pass" <=> disk.stored[row] = "pass"
             /\ dash.status[row] = "fail" <=> disk.stored[row] = "fail"
             /\ disk.stored[row] # "absent" => key \in disk.executed
  <2>1. Plain(row) /\ EntryKeyOf(row) = key
    BY <1>3
  <2> HIDE DEF key
  <2> QED BY <1>5, <2>1 DEF Plain, Verdicts
<1>7. Entry(disk, sc, t, m) = {row \in T : disk.stored[row] # "absent"}
  BY <1>2, EntryIsCases DEF SkillsOf
<1>8. C = {row \in T : disk.stored[row] # "absent"}
  <2>1. CASE key \in disk.executed
    BY <1>7, <2>1 DEF Executed
  <2>2. CASE key \notin disk.executed
    <3>1. {row \in T : disk.stored[row] # "absent"} = {}
      BY <1>6, <2>2
    <3> QED BY <2>2, <3>1 DEF Executed
  <2> QED BY <2>1, <2>2
<1>9. {row \in C : disk.stored[row] = "pass"} = P
  BY <1>6, <1>8 DEF With
<1>10. C = P \cup F /\ P \cap F = {} /\ P \subseteq T /\ F \subseteq T
  BY <1>6, <1>8 DEF With
<1>11. /\ r.passed = Cardinality({row \in C : disk.stored[row] = "pass"})
       /\ r.errored = Cardinality({row \in C : disk.stored[row] = "error"})
       /\ r.executed = Cardinality(C)
       /\ r.judged <=> C # {}
  <2>1. /\ RollupOf(Summary(disk, Reported), <<sc.plugin, t, m>>).passed
              = Cardinality({row \in Executed(sc, t, m) : disk.stored[row] = "pass"})
        /\ RollupOf(Summary(disk, Reported), <<sc.plugin, t, m>>).errored
              = Cardinality({row \in Executed(sc, t, m) : disk.stored[row] = "error"})
        /\ RollupOf(Summary(disk, Reported), <<sc.plugin, t, m>>).executed
              = Cardinality(Executed(sc, t, m))
        /\ RollupOf(Summary(disk, Reported), <<sc.plugin, t, m>>).judged
              <=> Executed(sc, t, m) # {}
    BY <1>4, OnlyCounts, Zenon
  <2> QED BY <2>1, Zenon
<1> HIDE DEF C, P, F
<1>12. IsFiniteSet(T)
  <2>1. IsFiniteSet({m} \X TierCases(sc, t))
    BY TiersFinite, Zenon
  <2> QED BY <1>2, <2>1
<1>13. IsFiniteSet(P) /\ IsFiniteSet(F) /\ IsFiniteSet(C)
  <2>1. P \cup F \in SUBSET T
    BY <1>10
  <2> QED BY <1>10, <1>12, <2>1, FS_Subset
<1>14. Cardinality(P) \in Nat /\ Cardinality(F) \in Nat
  BY <1>13, FS_CardinalityType
<1>15. Cardinality(C) = Cardinality(P) + Cardinality(F)
  <2>1. Cardinality(P \cup F) = Cardinality(P) + Cardinality(F) - Cardinality(P \cap F)
    BY <1>13, FS_Union
  <2>2. Cardinality(P \cap F) = 0
    BY <1>10, FS_EmptySet
  <2>3. Cardinality(P \cup F) = Cardinality(P) + Cardinality(F)
    BY <1>14, <2>1, <2>2
  <2> QED BY <1>10, <2>3
<1>16. C # {} <=> Cardinality(C) # 0
  BY <1>13, FS_EmptySet
<1>17. C # {} => TierCases(sc, t) # {}
  BY <1>2, <1>10
<1> QED BY <1>4, <1>9, <1>11, <1>14, <1>15, <1>16, <1>17 DEF P, F

\* A model is below a threshold exactly if the dashboard shows its tier failed.
LEMMA BelowTells ==
    ASSUME Final, NEW sc \in ToSet(Catalog), OnlySkill(sc), NEW m \in ToSet(request.models),
           Allows(sc, m), Gated(m), \A row \in RowsIn(m, sc) : Plain(row), NEW t \in ToSet(Tiers),
           NoneRemoved(SkillsOf(sc.plugin), t, m), NEW T, T = OfTier(RowsIn(m, sc), t)
    PROVE  <<"below", m>> \in Issues(disk, Reported, sc.plugin, t, FALSE)
             <=> TierStatus(Cardinality(With(dash, T, "pass")),
                            Cardinality(With(dash, T, "fail")), MinRate[t]) = "fail"
<1> DEFINE p == sc.plugin
           summary == Summary(disk, Reported)
           rollup(x) == RollupOf(summary, <<p, t, x>>)
           held == IF Authored(p, t) THEN GateModels(summary, p, t, FALSE) ELSE {}
           missing == {x \in held : rollup(x).executed = 0}
           below == {x \in held \ missing :
                        100 * rollup(x).passed < MinRate[t] * rollup(x).executed}
           r == rollup(m)
           pass == Cardinality(With(dash, T, "pass"))
           fail == Cardinality(With(dash, T, "fail"))
<1>1. <<"below", m>> \in Issues(disk, Reported, p, t, FALSE) <=> m \in below
  <2>1. Issues(disk, Reported, p, t, FALSE)
          = {<<"missing", x>> : x \in missing} \cup {<<"below", x>> : x \in below}
            \cup {<<"stale", s>> : s \in {}}
    BY DEF Issues
  <2> HIDE DEF missing, below
  <2> QED BY <2>1
<1>2. m \in below <=> m \in held /\ r.executed # 0 /\ 100 * r.passed < MinRate[t] * r.executed
  <2> HIDE DEF held, rollup
  <2> QED OBVIOUS
<1>3. /\ m \in Reported /\ pass \in Nat /\ fail \in Nat
      /\ r.passed = pass /\ r.executed = pass + fail
      /\ r.judged <=> r.executed # 0
      /\ r.executed # 0 => TierCases(sc, t) # {}
  <2>1. r = RollupOf(Summary(disk, Reported), <<sc.plugin, t, m>>)
    OBVIOUS
  <2> HIDE DEF r
  <2>2. /\ m \in Reported
        /\ Cardinality(With(dash, T, "pass")) \in Nat
        /\ Cardinality(With(dash, T, "fail")) \in Nat
        /\ r.passed = Cardinality(With(dash, T, "pass"))
        /\ r.executed = Cardinality(With(dash, T, "pass")) + Cardinality(With(dash, T, "fail"))
        /\ r.judged <=> r.executed # 0
        /\ r.executed # 0 => TierCases(sc, t) # {}
    BY <2>1, CountsShown, Zenon
  <2> QED BY <2>2
<1>4. r.executed # 0 => m \in held
  <2> SUFFICES ASSUME r.executed # 0 PROVE m \in held
    OBVIOUS
  <2>1. Authored(p, t)
    BY <1>3, CasesInFiles DEF Authored, SkillsOf
  <2>2. m \in Recorded
    BY <1>3 DEF Reported, ActiveKeys, Recorded
  <2>3. m \in GateModels(summary, p, t, FALSE)
    <3>1. CASE ThresholdModels # {}
      <4>1. GateModels(summary, p, t, FALSE) = ThresholdModels
        BY <3>1, Zenon DEF GateModels
      <4> QED BY <3>1, <4>1 DEF Gated
    <3>2. CASE ThresholdModels = {}
      <4> DEFINE judged == {x \in Recorded : RollupOf(summary, <<p, t, x>>).judged}
      <4>1. GateModels(summary, p, t, FALSE) = judged
        <5> HIDE DEF summary, judged
        <5>1. GateModels(summary, p, t, FALSE)
                = CASE ThresholdModels # {} -> ThresholdModels
                    [] ThresholdModels = {} /\ FALSE -> Models
                    [] OTHER -> judged
          BY Zenon DEF GateModels, judged
        <5> QED BY <3>2, <5>1
      <4>2. r.judged
        BY <1>3
      <4> QED BY <2>2, <4>1, <4>2
    <3> QED BY <3>1, <3>2
  <2> QED BY <2>1, <2>3
<1> HIDE DEF r, held, pass, fail, below
<1>5. MinRate[t] \in 0 .. 100
  BY ReportAssumption
<1>6. TierStatus(pass, fail, MinRate[t]) = "fail"
        <=> pass + fail # 0 /\ 100 * pass < MinRate[t] * (pass + fail)
  BY <1>3, <1>5, ThresholdTells
<1>7. m \in below <=> r.executed # 0 /\ 100 * r.passed < MinRate[t] * r.executed
  BY <1>2, <1>4
<1>8. m \in below <=> pass + fail # 0 /\ 100 * pass < MinRate[t] * (pass + fail)
  <2>1. r.passed = pass /\ r.executed = pass + fail
    BY <1>3
  <2> QED BY <1>7, <2>1, Zenon
<1>9. m \in below <=> TierStatus(pass, fail, MinRate[t]) = "fail"
  BY <1>6, <1>8, Zenon
<1> QED BY <1>1, <1>9 DEF pass, fail
-----------------------------------------------------------------------------
\* What the dashboard makes of a tier of some rows.
TierShows(rows, t) == TierStatus(Cardinality(With(dash, OfTier(rows, t), "pass")),
                                 Cardinality(With(dash, OfTier(rows, t), "fail")), MinRate[t])

\* A group that is done and without an error is red exactly if a tier is.
LEMMA RedGroup ==
    ASSUME NEW rows,
           \A row \in rows : /\ ~Active(dash, row) /\ ~QueuedPending(dash, row)
                             /\ dash.status[row] # "error"
    PROVE  GroupStatus(dash, rows) = "fail" <=> \E t \in ToSet(Tiers) : TierShows(rows, t) = "fail"
<1> DEFINE tiers == {TierShows(rows, t) : t \in ToSet(Tiers)}
           errors == With(dash, rows, "error")
           passes == With(dash, rows, "pass")
           counts == With(dash, rows, "count")
<1>1. AggStatus(dash, rows) = IF errors # {} THEN "error"
                              ELSE IF "fail" \in tiers THEN "fail"
                              ELSE IF "threshold" \in tiers THEN "threshold"
                              ELSE IF passes # {} THEN "pass"
                              ELSE IF counts # {} THEN "count" ELSE "skipped"
  BY DEF AggStatus, TierShows
<1>2. errors = {}
  BY DEF With
<1>3. "fail" \in tiers <=> \E t \in ToSet(Tiers) : TierShows(rows, t) = "fail"
  OBVIOUS
<1>4. AggStatus(dash, rows) = "fail" <=> "fail" \in tiers
  <2> HIDE DEF tiers, errors, passes, counts
  <2> QED BY <1>1, <1>2
<1>5. GroupStatus(dash, rows) = IF Done(dash, rows) THEN AggStatus(dash, rows) ELSE "pending"
  BY DEF GroupStatus
<1>6. ASSUME NEW t \in ToSet(Tiers), TierShows(rows, t) = "fail" PROVE Done(dash, rows)
  <2> DEFINE F == With(dash, OfTier(rows, t), "fail")
             pass == Cardinality(With(dash, OfTier(rows, t), "pass"))
  <2>1. Cardinality(F) # 0
    <3>1. TierShows(rows, t) = TierStatus(pass, Cardinality(F), MinRate[t])
      BY DEF TierShows
    <3> HIDE DEF F, pass
    <3>2. Cardinality(F) = 0 => TierStatus(pass, Cardinality(F), MinRate[t]) = "pass"
      BY DEF TierStatus
    <3> QED BY <1>6, <3>1, <3>2
  <2>2. F # {}
    BY <2>1, FS_EmptySet
  <2>3. PICK row \in rows : dash.status[row] = "fail"
    BY <2>2 DEF With, OfTier
  <2> QED BY <2>3 DEF Done, Started, Settled
<1> QED BY <1>3, <1>4, <1>5, <1>6

\* The invariants say what GroupsAgreeWithTheGate says.
LEMMA GatesTell == ASSUME RowsInv, TakesInv, ResultsInv PROVE GroupsAgreeWithTheGate
<1> SUFFICES ASSUME Swept, NEW sc \in ToSet(Catalog), OnlySkill(sc),
                    NEW m \in ToSet(request.models)
             PROVE
    LET evals == OfTier(RowsIn(m, sc), "evals")
        basis(row) == Basis(start.stored, based, row)
    IN  /\ (\A t \in ToSet(Tiers) : NoneRemoved(SkillsOf(sc.plugin), t, m))
              => GroupTellsTheGate(sc, m)
        /\ Improved(dash, start.stored, based, evals)
              => \E row \in evals : dash.status[row] = "pass" /\ basis(row) # "pass"
  BY DEF GroupsAgreeWithTheGate
<1> DEFINE evals == OfTier(RowsIn(m, sc), "evals")
           basis(row) == Basis(start.stored, based, row)
           red == \E t \in ToSet(Tiers) :
                     <<"below", m>> \in Issues(disk, Reported, sc.plugin, t, FALSE)
<1>1. Final /\ screen = "dash"
  BY NotDone DEF Final, Swept, TakesInv, ResultsInv
<1>2. ASSUME \A t \in ToSet(Tiers) : NoneRemoved(SkillsOf(sc.plugin), t, m),
             Allows(sc, m), Gated(m), \A row \in RowsIn(m, sc) : Plain(row)
      PROVE  GroupStatus(dash, RowsIn(m, sc)) = "fail" <=> red
  <2>1. ASSUME NEW row \in RowsIn(m, sc)
        PROVE  /\ ~Active(dash, row) /\ ~QueuedPending(dash, row)
               /\ dash.status[row] # "error"
    <3>1. row \in ToSet(dash.log) /\ Plain(row)
      BY <1>2, <2>1 DEF RowsIn
    <3>2. /\ disk.stored[row] \in Verdicts => dash.status[row] = disk.stored[row]
          /\ disk.stored[row] = "absent" => dash.status[row] = "nodata"
          /\ ~Active(dash, row) /\ ~QueuedPending(dash, row)
      BY <1>1, <3>1, BoardIsDisk DEF Final
    <3> QED BY <3>1, <3>2 DEF Plain, Verdicts
  <2>2. GroupStatus(dash, RowsIn(m, sc)) = "fail"
          <=> \E t \in ToSet(Tiers) : TierShows(RowsIn(m, sc), t) = "fail"
    BY <2>1, RedGroup
  <2>3. ASSUME NEW t \in ToSet(Tiers)
        PROVE  <<"below", m>> \in Issues(disk, Reported, sc.plugin, t, FALSE)
                 <=> TierShows(RowsIn(m, sc), t) = "fail"
    <3> DEFINE T == OfTier(RowsIn(m, sc), t)
    <3>1. T = OfTier(RowsIn(m, sc), t)
      OBVIOUS
    <3> HIDE DEF T
    <3>2. <<"below", m>> \in Issues(disk, Reported, sc.plugin, t, FALSE)
            <=> TierStatus(Cardinality(With(dash, T, "pass")),
                           Cardinality(With(dash, T, "fail")), MinRate[t]) = "fail"
      BY <1>1, <1>2, <3>1, BelowTells, Zenon
    <3> QED BY <3>1, <3>2 DEF TierShows
  <2> QED BY <2>2, <2>3
<1>3. IsFiniteSet(evals)
  <2>1. evals \subseteq ToSet(dash.log)
    BY DEF OfTier, RowsIn
  <2>2. IsFiniteSet(ToSet(dash.log))
    <3>1. IsSeq(dash.log)
      BY <1>1, PlanRows DEF Final, RowsInv, PlanInv
    <3> QED BY <3>1, SeqFinite
  <2> HIDE DEF evals
  <2> QED BY <2>1, <2>2, FS_Subset
<1>4. Improved(dash, start.stored, based, evals)
        => \E row \in evals : dash.status[row] = "pass" /\ basis(row) # "pass"
  <2> HIDE DEF evals
  <2> QED BY <1>3, ImprovedTells
<1>5. (\A t \in ToSet(Tiers) : NoneRemoved(SkillsOf(sc.plugin), t, m)) => GroupTellsTheGate(sc, m)
  BY <1>2 DEF GroupTellsTheGate, Plain
<1> QED BY <1>4, <1>5
-----------------------------------------------------------------------------
\* A passed tier, for every configured model, has no issue.
LEMMA GreenTells == ASSUME RowsInv, TakesInv, ResultsInv PROVE GreenBoardPassesTheGate
<1> SUFFICES ASSUME dash.done, eng.err = "none", start.restricted, start.eval = AnyEval,
                    ThresholdModels \subseteq Models, NEW p \in Plugins, NEW t \in ToSet(Tiers),
                    Authored(p, t) => UNION {TierCases(sc, t) : sc \in SkillsOf(p)} # {},
                    \A m \in Models : NoneRemoved(SkillsOf(p), t, m),
                    \A row \in Models \X UNION {TierCases(sc, t) : sc \in SkillsOf(p)} :
                        /\ row \in ToSet(dash.log) /\ dash.status[row] = "pass"
                        /\ EntryKeyOf(row) \in disk.executed
                        /\ row \notin disk.old
             PROVE  <<p, t>> \notin CheckFails(disk, Reported, TRUE)
  BY DEF GreenBoardPassesTheGate
<1> DEFINE scs == SkillsOf(p)
           summary == Summary(disk, Reported)
           rollup(x) == RollupOf(summary, <<p, t, x>>)
           held == IF Authored(p, t) THEN GateModels(summary, p, t, TRUE) ELSE {}
           missing == {x \in held : rollup(x).executed = 0}
           below == {x \in held \ missing :
                        100 * rollup(x).passed < MinRate[t] * rollup(x).executed}
           stale == {sc.skill : sc \in {x \in scs : Stale(disk, Reported, x, t)}}
<1>1. Reported \subseteq Models
  BY DEF Reported, ActiveKeys
<1>2. ASSUME NEW m \in Models, NEW x \in scs, NEW c \in TierCases(x, t)
      PROVE  /\ m \in Reported /\ disk.stored[<<m, c>>] = "pass" /\ <<m, c>> \notin disk.old
             /\ <<x.skill, m, t>> \in disk.executed
  <2> DEFINE row == <<m, c>>
  <2>1. /\ row \in ToSet(dash.log) /\ dash.status[row] = "pass"
        /\ EntryKeyOf(row) \in disk.executed /\ row \notin disk.old
    BY <1>2
  <2>2. row[1] = m /\ row[2] = c
    OBVIOUS
  <2>3. x \in ToSet(Catalog) /\ c \in ToSet(TierSeq(x, t))
    BY DEF SkillsOf, TierCases, TierSeq
  <2>4. EntryOf(c) = x /\ TierOf(c) = t
    BY <2>3, TierIs
  <2>5. EntryKeyOf(row) = <<x.skill, m, t>>
    BY <2>2, <2>4 DEF EntryKeyOf
  <2> HIDE DEF row
  <2>6. dash.status[row] \in Verdicts
    BY <2>1 DEF Verdicts
  <2>7. /\ row[1] \in Reported
        /\ EntryKeyOf(row) \in disk.executed /\ dash.status[row] \in Verdicts
              => disk.stored[row] = dash.status[row]
    BY <2>1, BoardIsDisk
  <2> QED BY <2>1, <2>2, <2>5, <2>6, <2>7 DEF row
<1>3. stale = {}
  <2>1. ASSUME NEW x \in scs, Stale(disk, Reported, x, t) PROVE FALSE
    <3>1. PICK m \in Reported : \E row \in Entry(disk, x, t, m) : row \in disk.old
      BY <2>1 DEF Stale, StaleTier
    <3>2. PICK row \in Entry(disk, x, t, m) : row \in disk.old
      BY <3>1
    <3>3. PICK c \in TierCases(x, t) : row = <<m, c>>
      BY <1>1, <3>2, EntryIsCases
    <3> QED BY <1>1, <1>2, <3>2, <3>3
  <2> QED BY <2>1
<1>4. ASSUME NEW m \in held
      PROVE  /\ rollup(m).passed = rollup(m).executed
             /\ rollup(m).executed \in Nat /\ rollup(m).executed # 0
  <2> DEFINE S == UNION {Entry(disk, x, t, m) :
                            x \in {y \in scs : <<y.skill, m, t>> \in disk.executed}}
  <2>1. Authored(p, t) /\ m \in GateModels(summary, p, t, TRUE)
    BY <1>4
  <2>2. m \in Models
    <3>1. GateModels(summary, p, t, TRUE) \subseteq Models
      <4> HIDE DEF summary
      <4>1. CASE ThresholdModels # {}
        <5>1. GateModels(summary, p, t, TRUE) = ThresholdModels
          BY <4>1, Zenon DEF GateModels
        <5> QED BY <5>1
      <4>2. CASE ThresholdModels = {}
        <5> DEFINE judged == {x \in Recorded : RollupOf(summary, <<p, t, x>>).judged}
        <5> HIDE DEF judged
        <5>1. GateModels(summary, p, t, TRUE)
                = CASE ThresholdModels # {} -> ThresholdModels
                    [] ThresholdModels = {} /\ TRUE -> Models
                    [] OTHER -> judged
          BY Zenon DEF GateModels, judged
        <5> QED BY <4>2, <5>1
      <4> QED BY <4>1, <4>2
    <3> QED BY <2>1, <3>1
  <2>3. PICK x \in scs : TierCases(x, t) # {}
    BY <2>1
  <2>4. PICK c \in TierCases(x, t) : TRUE
    BY <2>3
  <2>5. /\ m \in Reported /\ disk.stored[<<m, c>>] = "pass"
        /\ <<x.skill, m, t>> \in disk.executed
    BY <1>2, <2>2
  <2>6. <<m, c>> \in Entry(disk, x, t, m)
    BY <2>2, <2>5, EntryIsCases
  <2>7. rollup(m) = Rollup(disk, scs, t, m)
    <3> DEFINE k == <<p, t, m>>
    <3>1. DOMAIN summary = {j \in Plugins \X ToSet(Tiers) \X Reported :
                               \E y \in SkillsOf(j[1]) : Entry(disk, y, j[2], j[3]) # {}}
      BY DEF Summary
    <3>2. k \in Plugins \X ToSet(Tiers) \X Reported /\ k[1] = p /\ k[2] = t /\ k[3] = m
      BY <2>5
    <3>3. \E y \in SkillsOf(p) : Entry(disk, y, t, m) # {}
      BY <2>6
    <3>4. k \in DOMAIN summary
      <4>1. \E y \in SkillsOf(k[1]) : Entry(disk, y, k[2], k[3]) # {}
        BY <3>2, <3>3
      <4> HIDE DEF k, summary
      <4> QED BY <3>1, <3>2, <4>1
    <3>5. summary[k] = Rollup(disk, SkillsOf(k[1]), k[2], k[3])
      <4> HIDE DEF k
      <4> QED BY <3>4 DEF Summary
    <3>6. rollup(m) = summary[k]
      BY <3>4 DEF RollupOf
    <3> HIDE DEF k, summary
    <3> QED BY <3>2, <3>5, <3>6
  <2>8. /\ Rollup(disk, scs, t, m).passed = Cardinality({row \in S : disk.stored[row] = "pass"})
        /\ Rollup(disk, scs, t, m).executed = Cardinality(S)
    BY DEF Rollup
  <2>9. {row \in S : disk.stored[row] = "pass"} = S
    <3>1. ASSUME NEW row \in S PROVE disk.stored[row] = "pass"
      <4>1. PICK y \in scs : row \in Entry(disk, y, t, m)
        BY <3>1
      <4>2. PICK d \in TierCases(y, t) : row = <<m, d>>
        BY <2>2, <4>1, EntryIsCases
      <4> QED BY <1>2, <2>2, <4>2
    <3> QED BY <3>1
  <2>10. S # {}
    BY <2>5, <2>6
  <2>11. IsFiniteSet(S)
    <3>1. \A row \in S : \E y \in ToSet(Catalog) : row \in Entry(disk, y, t, m)
      BY DEF SkillsOf
    <3> HIDE DEF S
    <3> QED BY <3>1, EntriesFinite
  <2> HIDE DEF S, rollup, scs
  <2>12. Cardinality(S) \in Nat /\ Cardinality(S) # 0
    BY <2>10, <2>11, FS_CardinalityType, FS_EmptySet
  <2> QED BY <2>7, <2>8, <2>9, <2>12
<1>5. missing = {}
  BY <1>4
<1>6. below = {}
  <2> SUFFICES ASSUME NEW x \in held
               PROVE  ~(100 * rollup(x).passed < MinRate[t] * rollup(x).executed)
    OBVIOUS
  <2> DEFINE n == rollup(x).executed
  <2>1. n \in Nat /\ rollup(x).passed = n
    BY <1>4
  <2>2. MinRate[t] \in 0 .. 100
    BY ReportAssumption
  <2> DEFINE min == MinRate[t]
  <2> HIDE DEF n, min, rollup
  <2>3. min \in Nat /\ min <= 100
    BY <2>2 DEF min
  <2>4. min * n <= 100 * n
    BY <2>1, <2>3, ProductsTell
  <2>5. min * n \in Nat /\ 100 * n \in Nat
    BY <2>1, <2>3
  <2>6. ~(100 * n < min * n)
    BY <2>4, <2>5
  <2> QED BY <2>1, <2>6 DEF n, min
<1>7. Issues(disk, Reported, p, t, TRUE) = {}
  <2>1. Issues(disk, Reported, p, t, TRUE)
          = {<<"missing", x>> : x \in missing} \cup {<<"below", x>> : x \in below}
            \cup {<<"stale", s>> : s \in stale}
    BY DEF Issues
  <2> HIDE DEF missing, below, stale
  <2> QED BY <1>3, <1>5, <1>6, <2>1
<1> QED BY <1>7 DEF CheckFails
-----------------------------------------------------------------------------
\* The committed reports count the verdicts of the dashboard.
LEMMA CountsAgree ==
    ASSUME Final, NEW sc \in ToSet(Catalog), OnlySkill(sc), NEW t \in ToSet(Tiers),
           NEW m \in ToSet(request.models), Allows(sc, m), <<sc.skill, m, t>> \in disk.executed,
           NoneRemoved(SkillsOf(sc.plugin), t, m),
           NEW T, T = OfTier(RowsIn(m, sc), t), T # {},
           \A row \in T : disk.stored[row] \in Verdicts
    PROVE  /\ Summary(disk, Reported)[<<sc.plugin, t, m>>].passed
                = Cardinality(With(dash, T, "pass"))
           /\ Failed(Summary(disk, Reported)[<<sc.plugin, t, m>>])
                = Cardinality(With(dash, T, "fail"))
           /\ Summary(disk, Reported)[<<sc.plugin, t, m>>].errored
                = Cardinality(With(dash, T, "error"))
<1> DEFINE P == With(dash, T, "pass")
           F == With(dash, T, "fail")
           E == With(dash, T, "error")
           S == Summary(disk, Reported)
           k == <<sc.plugin, t, m>>
           r == Summary(disk, Reported)[<<sc.plugin, t, m>>]
<1>1. screen = "dash"
  BY NotDone DEF Final, TakesInv, ResultsInv
<1>2. T = {m} \X TierCases(sc, t)
  BY <1>1, TierShown DEF Final
<1>3. m \in Reported
  <2>1. m \in Models /\ Supports[m] # {}
    BY <1>1 DEF Final, ResultsInv, BoardInv, ModelsRun
  <2> QED BY <2>1 DEF Reported, ActiveKeys, Recorded
<1>4. ASSUME NEW row \in T PROVE dash.status[row] = disk.stored[row]
  <2>1. row \in ToSet(dash.log)
    BY DEF OfTier, RowsIn
  <2> QED BY <2>1, BoardIsDisk DEF Final
<1>5. Executed(sc, t, m) = T /\ Entry(disk, sc, t, m) = T
  <2>1. Entry(disk, sc, t, m) = T
    BY <1>2, EntryIsCases DEF SkillsOf, Verdicts
  <2> QED BY <2>1 DEF Executed
<1>6. /\ P = {row \in T : disk.stored[row] = "pass"} /\ E = {row \in T : disk.stored[row] = "error"}
      /\ T = (P \cup F) \cup E /\ P \cap F = {} /\ (P \cup F) \cap E = {}
  BY <1>4 DEF With, Verdicts
<1>7. r = RollupOf(S, k)
  <2>1. DOMAIN S = {j \in Plugins \X ToSet(Tiers) \X Reported :
                       \E x \in SkillsOf(j[1]) : Entry(disk, x, j[2], j[3]) # {}}
    BY DEF Summary
  <2>2. /\ k \in Plugins \X ToSet(Tiers) \X Reported
        /\ k[1] = sc.plugin /\ k[2] = t /\ k[3] = m
    BY <1>3 DEF Plugins
  <2>3. \E x \in SkillsOf(sc.plugin) : Entry(disk, x, t, m) # {}
    BY <1>5 DEF SkillsOf
  <2>4. k \in DOMAIN S
    <3>1. \E x \in SkillsOf(k[1]) : Entry(disk, x, k[2], k[3]) # {}
      BY <2>2, <2>3
    <3> HIDE DEF k, S
    <3> QED BY <2>1, <2>2, <3>1
  <2> QED BY <2>4 DEF RollupOf
<1>8. /\ r.passed = Cardinality(P) /\ r.errored = Cardinality(E) /\ r.executed = Cardinality(T)
  <2>1. /\ RollupOf(Summary(disk, Reported), <<sc.plugin, t, m>>).passed
              = Cardinality({row \in Executed(sc, t, m) : disk.stored[row] = "pass"})
        /\ RollupOf(Summary(disk, Reported), <<sc.plugin, t, m>>).errored
              = Cardinality({row \in Executed(sc, t, m) : disk.stored[row] = "error"})
        /\ RollupOf(Summary(disk, Reported), <<sc.plugin, t, m>>).executed
              = Cardinality(Executed(sc, t, m))
        /\ RollupOf(Summary(disk, Reported), <<sc.plugin, t, m>>).judged
              <=> Executed(sc, t, m) # {}
    BY <1>3, OnlyCounts, Zenon
  <2> DEFINE x == RollupOf(Summary(disk, Reported), <<sc.plugin, t, m>>)
             C == Executed(sc, t, m)
  <2>2. /\ x.passed = Cardinality({row \in C : disk.stored[row] = "pass"})
        /\ x.errored = Cardinality({row \in C : disk.stored[row] = "error"})
        /\ x.executed = Cardinality(C) /\ r = x /\ C = T
    BY <1>5, <1>7, <2>1, Zenon
  <2> HIDE DEF x, C, P, E
  <2> QED BY <1>6, <2>2
<1> HIDE DEF P, F, E, S, k, r
<1>9. IsFiniteSet(T)
  <2>1. IsFiniteSet({m} \X TierCases(sc, t))
    BY TiersFinite, Zenon
  <2> QED BY <1>2, <2>1
<1>10. IsFiniteSet(P) /\ IsFiniteSet(F) /\ IsFiniteSet(E) /\ IsFiniteSet(P \cup F)
  <2>1. P \in SUBSET T /\ F \in SUBSET T /\ E \in SUBSET T /\ P \cup F \in SUBSET T
    BY <1>6
  <2> QED BY <1>9, <2>1, FS_Subset
<1>11. Cardinality(P) \in Nat /\ Cardinality(F) \in Nat /\ Cardinality(E) \in Nat
  BY <1>10, FS_CardinalityType
<1>12. Cardinality(P \cup F) = Cardinality(P) + Cardinality(F)
  <2>1. Cardinality(P \cup F) = Cardinality(P) + Cardinality(F) - Cardinality(P \cap F)
    BY <1>10, FS_Union
  <2>2. Cardinality(P \cap F) = 0
    BY <1>6, FS_EmptySet
  <2> QED BY <1>11, <2>1, <2>2
<1>13. Cardinality(T) = Cardinality(P \cup F) + Cardinality(E)
  <2> DEFINE A == P \cup F
  <2>1. /\ IsFiniteSet(A) /\ T = A \cup E /\ A \cap E = {}
        /\ Cardinality(A) = Cardinality(P) + Cardinality(F)
    BY <1>6, <1>10, <1>12
  <2> HIDE DEF A
  <2>2. Cardinality(A \cup E) = Cardinality(A) + Cardinality(E) - Cardinality(A \cap E)
    BY <1>10, <2>1, FS_Union
  <2>3. Cardinality(A \cap E) = 0
    BY <2>1, FS_EmptySet
  <2>4. Cardinality(T) = Cardinality(A) + Cardinality(E)
    BY <1>11, <2>1, <2>2, <2>3
  <2> QED BY <2>4 DEF A
<1>14. Failed(r) = Cardinality(F)
  BY <1>8, <1>11, <1>12, <1>13 DEF Failed, Graded
<1> QED BY <1>8, <1>14, Zenon DEF P, F, E, r

\* The invariants say what ReportsAreCurrent says.
LEMMA ReportsTell == ASSUME RowsInv, TakesInv, ResultsInv PROVE ReportsAreCurrent
<1> DEFINE counts(r) == <<r.passed, Failed(r), r.errored>>
           shown(rows) == [i \in 1 .. 3 |->
                              Cardinality(With(dash, rows, <<"pass", "fail", "error">>[i]))]
<1>1. ui = "returned" /\ exit # "fatal" /\ eng.err = "none" /\ (start.all \/ eng.pc = "stopped")
        => report.summary = Summary(disk, Reported)
  BY DEF ResultsInv, ReportInv
<1>2. ASSUME ui = "returned", exit # "fatal", dash.done, start.eval = AnyEval,
             NEW row \in DOMAIN ran,
             OnlySkill(EntryOf(row[2])),
             NoneRemoved(SkillsOf(EntryOf(row[2]).plugin) \ {EntryOf(row[2])},
                         TierOf(row[2]), row[1]),
             EntryKeyOf(row) \in disk.executed, eng.err = "none",
             NEW rows, rows = {x \in ToSet(dash.log) : EntryKeyOf(x) = EntryKeyOf(row)},
             \A x \in rows : disk.stored[x] \in Verdicts
      PROVE  counts(report.summary[<<EntryOf(row[2]).plugin, TierOf(row[2]), row[1]>>])
               = shown(rows)
  <2> DEFINE sc == EntryOf(row[2])
             t == TierOf(row[2])
             m == row[1]
             r == report.summary[<<sc.plugin, t, m>>]
  <2>1. screen = "dash" /\ eng.pc = "stopped" /\ Final
    BY <1>2, NotDone DEF Final, TakesInv, ResultsInv
  <2>2. report.summary = Summary(disk, Reported)
    BY <1>1, <1>2, <2>1
  <2>3. row \in ToSet(dash.log)
    <3>1. IsSeq(request.models) /\ ToSet(dash.log) = Rows(ToSet(request.models))
      BY <2>1, PlanRows DEF RowsInv, PlanInv
    <3>2. row \in QueuedRows(request)
      BY <1>2, <2>1 DEF RowsInv, PlanInv, WorkInv
    <3> QED BY <3>1, <3>2 DEF QueuedRows
  <2>4. /\ row[2] \in AllCases /\ m \in ToSet(request.models) /\ Allows(sc, m)
        /\ \A x \in ToSet(dash.log) : x[2] \in AllCases
    BY <1>2, <2>3, BoardIsDisk
  <2>5. sc \in ToSet(Catalog) /\ t \in ToSet(Tiers)
    BY <2>4, EntryHas, TierNames DEF TierOf
  <2>6. rows = OfTier(RowsIn(m, sc), t)
    <3>1. ASSUME NEW x \in ToSet(dash.log)
          PROVE  EntryKeyOf(x) = EntryKeyOf(row)
                   <=> x[1] = m /\ EntryOf(x[2]) = sc /\ TierOf(x[2]) = t
      <4>1. EntryOf(x[2]) \in ToSet(Catalog)
        BY <2>4, EntryHas
      <4>2. EntryOf(x[2]).skill = sc.skill <=> EntryOf(x[2]) = sc
        BY <2>5, <4>1, SkillNames
      <4> QED BY <4>2 DEF EntryKeyOf
    <3> HIDE DEF sc, t, m
    <3> QED BY <1>2, <3>1 DEF OfTier, RowsIn
  <2>7. row \in rows
    BY <1>2, <2>3
  <2>8. <<sc.skill, m, t>> \in disk.executed
    BY <1>2 DEF EntryKeyOf
  <2>9. NoneRemoved(SkillsOf(sc.plugin), t, m)
    <3>1. Open = {}
      BY <2>1 DEF Open, Final, TakesInv, PlannedInv
    <3>2. row \in Reported \X AllCases
      BY <1>2, <2>3, BoardIsDisk
    <3>3. Cleared(row)
      BY <1>2, <3>1, <3>2 DEF ResultsInv, DiskInv, ClearedInv
    <3> QED BY <1>2, <3>3 DEF NoneRemoved, Cleared
  <2>10. OnlySkill(sc) /\ rows # {} /\ r = Summary(disk, Reported)[<<sc.plugin, t, m>>]
    BY <1>2, <2>2, <2>7
  <2> HIDE DEF sc, t, m, r
  <2>11. /\ r.passed = Cardinality(With(dash, rows, "pass"))
         /\ Failed(r) = Cardinality(With(dash, rows, "fail"))
         /\ r.errored = Cardinality(With(dash, rows, "error"))
    <3>1. /\ Summary(disk, Reported)[<<sc.plugin, t, m>>].passed
                = Cardinality(With(dash, rows, "pass"))
          /\ Failed(Summary(disk, Reported)[<<sc.plugin, t, m>>])
                = Cardinality(With(dash, rows, "fail"))
          /\ Summary(disk, Reported)[<<sc.plugin, t, m>>].errored
                = Cardinality(With(dash, rows, "error"))
      BY <1>2, <2>1, <2>4, <2>5, <2>6, <2>8, <2>10, <2>9, CountsAgree, Zenon
    <3> QED BY <2>10, <3>1, Zenon
  <2>12. counts(r) = shown(rows)
    <3> DEFINE c(st) == Cardinality(With(dash, rows, st))
    <3>1. shown(rows) = [i \in 1 .. 3 |-> c(<<"pass", "fail", "error">>[i])]
      OBVIOUS
    <3>2. counts(r) = <<c("pass"), c("fail"), c("error")>>
      BY <2>11
    <3> HIDE DEF c
    <3>3. <<c("pass"), c("fail"), c("error")>>
            = [i \in 1 .. 3 |-> c(<<"pass", "fail", "error">>[i])]
      OBVIOUS
    <3> QED BY <3>1, <3>2, <3>3, Zenon
  <2> QED BY <2>12 DEF sc, t, m, r
<1> HIDE DEF counts, shown
<1> QED BY <1>1, <1>2 DEF ReportsAreCurrent, counts, shown

\* VerdictsAgree for every catalog, plan, threshold and outcome: after a sweep without an
\* error the dashboard's groups are red exactly where report --check is below a threshold
\* (unless results of removed cases are left in the plugin), a board all green passes it
\* under --strict, the committed reports count what the dashboard shows, and evolve exits
\* well only if nothing failed (dashboard.go, check.go, report.go, run_all.go).
THEOREM VerdictsAlways == Spec => []VerdictsAgree
<1>1. RowsInv /\ TakesInv /\ ResultsInv => VerdictsAgree
  BY GatesTell, ExitTells, GreenTells, ReportsTell DEF VerdictsAgree
<1> QED BY <1>1, RowsAlways, TakesAlways, ResultsAlways, PTL
=============================================================================
