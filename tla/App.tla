---------------------------------- MODULE App ----------------------------------
(***************************************************************************)
(* A run of evolve (cmd/evolve): on a terminal the form, the dashboard,    *)
(* the engine goroutine behind them and runWithUI (runui.go, tui/app.go),  *)
(* from the first key to the process's exit; without it the engine alone   *)
(* (run_triggers.go, run_evals.go); and around both what run all adds      *)
(* (run_all.go): the checks before and the report after.                   *)
(*                                                                         *)
(* The user presses keys, the bubbletea program handles one message at a   *)
(* time, the request travels to the engine through a buffered channel sent *)
(* by an asynchronous command, the engine's workers report concurrently,   *)
(* and runWithUI waits for the program and then for the engine.  A unit of *)
(* the engine is the outside of TriggerPool and EvalPool: its cases start, *)
(* finish with a verdict and are saved together, or it aborts.             *)
(***************************************************************************)
EXTENDS Form, Dashboard

CONSTANTS
    Starts,  \* the runs of evolve: stored results, flags and bounds, see below
    Jobs     \* --jobs

VARIABLES
    start,     \* the run this behaviour is about
    screen,    \* "form" or "dash"
    form,      \* the form, and in it the session
    request,   \* the RunRequest submitted, NoRequest before
    link,      \* where it is: "none", "sending" (tea.Cmd), "full" (runReq)
    dash,      \* the dashboard
    eng,       \* the engine goroutine
    ran,       \* row -> verdict of the rows the engine ran
    based,     \* row -> verdict of the baselines that ran
    disk,      \* the results files: [stored, executed, old], see Report
    report,    \* the committed reports
    checked,   \* how the checks of run all ended: "none", "ok", "failures"
    prog,      \* the bubbletea program: "off", "up", "down" or "error"
    quitting,  \* tea.Quit was returned: a QuitMsg is on its way
    cancelled, \* the engine's context is cancelled
    ui,        \* the command: "starting", "checking", then runWithUI's
               \* "waiting" and "closing" or else "sweeping", then
               \* "reporting", "returned"
    exit,      \* "ok", "warned", "failures" or "fatal" once returned
    inputs     \* how many more inputs the user makes

user == <<screen, form, request>>
shell == <<report, checked>>
host == <<prog, quitting, cancelled, ui, exit, shell>>
vars == <<start, user, link, dash, eng, ran, based, disk, host, inputs>>

\* A start: stored results, entries that executed, cases that changed or are
\* removed from a spec file that parses, the tiers,
\* skills, --eval, filters, --harness and --model of the command line, the CLIs
\* that tell what they offer, whether there is a terminal and --no-tui,
\* whether it is run all, --strict, whether the configuration restricts the
\* models, --stale-results, how the checks can end, the evals with a stale
\* baseline, the verdicts that can occur, and bounds: whether agents and saves
\* can break, whether signals arrive, whether the user quits; and how many
\* inputs there are in the form and the dashboard.
ASSUME StartsAssumption ==
    /\ Jobs \in Nat \ {0}
    /\ \A k \in Starts : /\ DOMAIN k.stored = Recorded \X (AllCases \cup Removed)
                         /\ k.mode \in {"ask", "keep", "drop"}
                         /\ k.eval \in AllCases \cup {AnyEval}
                         /\ k.formInputs \in Nat /\ k.dashInputs \in Nat
                         /\ k.terminal \in BOOLEAN /\ k.noTui \in BOOLEAN
                         /\ k.outcomes \subseteq Verdicts /\ k.filters \subseteq FilterNames

ReasonsOf == [k \in Starts |-> CaseReasons(k)]
reasons == ReasonsOf[start]
Reported == ActiveKeys(start.restricted)

NoRequest == [models |-> <<>>, harness |-> [m \in {} |-> NoHarness],
              cases |-> [c \in AllCases |-> "auto"], needs |-> {}]
EmptyEngine == [pc |-> "select", todo |-> <<>>, base |-> {}, run |-> {},
                failed |-> FALSE, err |-> "none"]

Init ==
    /\ start \in Starts
    /\ screen = "form" /\ form = NewForm(start, reasons)
    /\ request = NoRequest /\ link = "none"
    /\ dash = NewDashboard(Build(NoRequest), start.stored)
    /\ eng = EmptyEngine /\ ran = <<>> /\ based = <<>>
    /\ disk = [stored |-> start.stored, executed |-> start.executed,
               old |-> {row \in DOMAIN start.stored :
                           start.stored[row] # "absent" /\ row[2] \in start.changed}]
    /\ report = NoReport /\ checked = "none"
    /\ prog = "off" /\ quitting = FALSE /\ cancelled = FALSE
    /\ ui = "starting" /\ exit = "none" /\ inputs = start.formInputs

-----------------------------------------------------------------------------
(* Before and after the program: the results of models that are no longer  *)
(* configured, the checks and the report of run all.                       *)

\* FindStaleResults, by skill, and DropStaleResults for some of the skills.
Outside == {row \in DOMAIN disk.stored : disk.stored[row] # "absent" /\ row[1] \notin Reported}
OwnerOf(c) == CHOOSE sc \in ToSet(Catalog) : \E t \in ToSet(Tiers) : c \in Ever(sc, t)
StaleSkills == {OwnerOf(row[2]).skill : row \in Outside}
Pruned(skills) ==
    LET gone == {row \in Outside : OwnerOf(row[2]).skill \in skills}
    IN  [stored |-> [row \in DOMAIN disk.stored |->
                        IF row \in gone THEN "absent" ELSE disk.stored[row]],
         executed |-> {e \in disk.executed : e[2] \in Reported \/ e[1] \notin skills},
         old |-> disk.old \ gone]

\* interactiveTUI; the report asks whatever --no-tui says.
Interactive == start.terminal /\ ~start.noTui
Prompts == IF ui = "reporting" THEN start.terminal ELSE Interactive

\* --stale-results, or else what the user answers if there is one to ask.
Kept == start.mode \in {"ask", "keep"}
Dropped == start.mode = "drop" \/ (start.mode = "ask" /\ Prompts)
Reconciled ==
    \/ Kept /\ UNCHANGED disk
    \/ Dropped /\ disk' = Pruned(StaleSkills)

rest == <<start, screen, form, link, dash, ran, based, quitting, cancelled, inputs>>
Fails == ui' = "returned" /\ exit' = "fatal" /\ UNCHANGED <<prog, request, eng>>

OpensForm == Interactive /\ ui' = "waiting" /\ prog' = "up" /\ UNCHANGED <<request, eng>>

\* The engine is called directly.
Sweeps ==
    LET ms == ToSet(PlainModels(start))
        units == PlainUnits(start)
    IN  /\ ~Interactive /\ ui' = "sweeping" /\ UNCHANGED prog
        /\ eng' = [EmptyEngine EXCEPT !.pc = "sweep", !.todo = units]
        /\ request' = [NoRequest EXCEPT
               !.models = PlainModels(start),
               !.harness = [m \in ms |-> PlainHarness(start, m)]]

\* sweepOptions: flags the configuration does not admit end the command.
Begins == IF BadFlags(start) THEN Fails ELSE (OpensForm \/ Sweeps) /\ UNCHANGED exit

Reconcile ==
    /\ ui = "starting" /\ Reconciled
    /\ IF start.all THEN ui' = "checking" /\ UNCHANGED <<prog, request, eng, exit>>
                    ELSE Begins
    /\ UNCHANGED <<rest, shell>>

\* Dropping rewrites one file after the other and ends at one that fails.
ReconcileFails ==
    /\ ui = "starting" /\ start.faults /\ Dropped
    /\ \E skills \in SUBSET StaleSkills :
         skills # StaleSkills /\ disk' = Pruned(skills)
    /\ Fails /\ UNCHANGED <<rest, shell>>

\* runSub: failed checks are remembered, an error ends the command.
RunChecks ==
    /\ ui = "checking"
    /\ \/ checked' \in start.checks \cap {"ok", "failures"} /\ Begins
       \/ "error" \in start.checks /\ Fails /\ UNCHANGED checked
    /\ UNCHANGED <<rest, disk, report>>

\* failOrWarn: failures only fail the command under --strict.
Verdict == IF ~eng.failed /\ checked # "failures" THEN "ok"
           ELSE IF start.strict THEN "failures" ELSE "warned"

\* The report command asks about the models outside again; --strict, forwarded
\* to it, makes the coverage strict.
RunReport ==
    /\ ui = "reporting" /\ Reconciled
    /\ report' = Generate(disk', Reported, start.strict \/ StrictConfig)
    /\ ui' = "returned" /\ exit' = Verdict
    /\ UNCHANGED <<rest, request, eng, checked, prog>>

ReportFails ==
    /\ ui = "reporting" /\ start.faults /\ Reconciled
    /\ Fails /\ UNCHANGED <<rest, shell>>

-----------------------------------------------------------------------------
(* The program: Model.Update on the user's keys and clicks.                *)

Handles(where) == prog = "up" /\ screen = where

FormInput ==
    /\ Handles("form") /\ inputs > 0
    /\ form' \in Keys(form, reasons) \cup Mouse(form, reasons)
    /\ inputs' = inputs - 1
    /\ UNCHANGED <<start, screen, request, link, dash, eng, ran, based, disk, host>>

\* [r] or the RUN button, which is off while nothing is queued: startRun.  The
\* form is not looked at again and is put back to keep the states few.
Run ==
    LET q == Request(form.session, reasons)
    IN  /\ Handles("form") /\ AnyQueued(form.session, reasons)
        /\ request' = q /\ form' = NewForm(start, reasons) /\ link' = "sending"
        /\ screen' = "dash" /\ dash' = NewDashboard(Build(q), start.stored)
        /\ inputs' = start.dashInputs
        /\ UNCHANGED <<start, eng, ran, based, disk, host>>

\* The CANCEL button, q, esc or ctrl+c on the form.
Cancel ==
    /\ Handles("form") /\ start.quits /\ ~quitting
    /\ quitting' = TRUE
    /\ UNCHANGED <<start, user, link, dash, eng, ran, based, disk, prog, cancelled,
                   ui, exit, shell, inputs>>

DashInput ==
    /\ Handles("dash") /\ inputs > 0
    /\ ~dash.confirm
    /\ \/ dash' \in PaneInputs(dash)
       \/ \E nodes \in {Nodes(dash, dash.open)} : dash' \in TreeInputs(dash, nodes)
    /\ inputs' = inputs - 1
    /\ UNCHANGED <<start, user, link, eng, ran, based, disk, host>>

\* q, esc or ctrl+c opens the dialog, y answers it, n closes it.
AskQuit ==
    /\ Handles("dash") /\ start.quits /\ ~dash.confirm
    /\ dash' = [dash EXCEPT !.confirm = TRUE]
    /\ UNCHANGED <<start, user, link, eng, ran, based, disk, host, inputs>>

Stay ==
    /\ Handles("dash") /\ dash.confirm
    /\ dash' = [dash EXCEPT !.confirm = FALSE]
    /\ UNCHANGED <<start, user, link, eng, ran, based, disk, host, inputs>>

Quit ==
    /\ Handles("dash") /\ dash.confirm /\ ~quitting
    /\ quitting' = TRUE
    /\ UNCHANGED <<start, user, link, dash, eng, ran, based, disk, prog, cancelled,
                   ui, exit, shell, inputs>>

\* The command of startRun, in a goroutine of its own.
Deliver ==
    /\ link = "sending" /\ ui # "returned"
    /\ link' = "full"
    /\ UNCHANGED <<start, user, dash, eng, ran, based, disk, host, inputs>>

ProgramExits ==
    /\ prog = "up" /\ quitting
    /\ prog' = "down"
    /\ UNCHANGED <<start, user, link, dash, eng, ran, based, disk, quitting, cancelled,
                   ui, exit, shell, inputs>>

\* A signal cancels the command's context; bubbletea quits on SIGTERM and
\* returns an error on SIGINT.
SigTerm ==
    /\ start.signals /\ prog = "up" /\ ~cancelled
    /\ cancelled' = TRUE /\ quitting' = TRUE
    /\ UNCHANGED <<start, user, link, dash, eng, ran, based, disk, prog, ui, exit,
                   shell, inputs>>

SigPlain ==
    /\ start.signals /\ ui = "sweeping" /\ ~cancelled
    /\ cancelled' = TRUE
    /\ UNCHANGED <<start, user, link, dash, eng, ran, based, disk, prog, quitting, ui,
                   exit, shell, inputs>>

SigInt ==
    /\ start.signals /\ prog = "up" /\ ~cancelled
    /\ cancelled' = TRUE /\ prog' = "error"
    /\ UNCHANGED <<start, user, link, dash, eng, ran, based, disk, quitting, ui, exit,
                   shell, inputs>>

-----------------------------------------------------------------------------
(* runWithUI and uiRun after p.Run.                                        *)

\* close(progExited) and cancel().
UiCloses ==
    /\ ui = "waiting" /\ prog = "down"
    /\ ui' = "closing" /\ cancelled' = TRUE
    /\ UNCHANGED <<start, user, link, dash, eng, ran, based, disk, prog, quitting, exit,
                   shell, inputs>>

\* Mutant: the engine learns of the program's end only after its request.
progExitedIfSent == ui = "closing" /\ link # "none"

progExited == ui = "closing"

\* An error skips the report.
Concludes(fatal) ==
    CASE fatal -> ui' = "returned" /\ exit' = "fatal"
      [] ~fatal /\ start.all -> ui' = "reporting" /\ UNCHANGED exit
      [] OTHER -> ui' = "returned" /\ exit' = Verdict

\* <-engineDone; a cancelled engine is no error.
UiReturns ==
    /\ ui = "closing" /\ eng.pc \in {"stopped", "unused"}
    /\ Concludes(eng.err = "fault")
    /\ UNCHANGED <<start, user, link, dash, eng, ran, based, disk, prog, quitting,
                   cancelled, shell, inputs>>

\* Without the form it is one.
PlainReturns ==
    /\ ui = "sweeping" /\ eng.pc = "stopped"
    /\ Concludes(eng.err # "none")
    /\ UNCHANGED <<start, user, link, dash, eng, ran, based, disk, prog, quitting,
                   cancelled, shell, inputs>>

\* p.Run failed: the engine is not awaited, the deferred cancel runs.
UiAborts ==
    /\ ui = "waiting" /\ prog = "error"
    /\ ui' = "returned" /\ exit' = "fatal" /\ cancelled' = TRUE
    /\ UNCHANGED <<start, user, link, dash, eng, ran, based, disk, prog, quitting,
                   shell, inputs>>

-----------------------------------------------------------------------------
(* The engine goroutine and its workers.                                   *)

\* p.Send does nothing once the program is gone.
Tell(d) == dash' = IF prog = "up" THEN d ELSE dash

Unit == Head(eng.todo)
UnitSet == ToSet(UnitRows(Unit))
EntryKey(u) == <<u.skill, u.model, u.tier>>
EntryKeyOf(row) == <<EntryOf(row[2]).skill, row[1], TierOf(row[2])>>
UnitExecutes(u) == u.tier = "evals" => request.harness[u.model] \in EvalRunners

\* select, with a request in the channel and with the program gone.
EngineTakes ==
    /\ eng.pc = "select" /\ link = "full" /\ ui # "returned"
    /\ link' = "none"
    /\ eng' = [eng EXCEPT !.pc = "sweep", !.todo = EngineUnits(request, start.eval)]
    /\ UNCHANGED <<start, user, dash, ran, based, disk, host, inputs>>

EngineUnused ==
    /\ eng.pc = "select" /\ progExited
    /\ eng' = [eng EXCEPT !.pc = "unused"]
    /\ UNCHANGED <<start, user, link, dash, ran, based, disk, host, inputs>>

Sweeping == eng.pc = "sweep" /\ eng.todo # <<>> /\ ui # "returned"
Running == Sweeping /\ UnitExecutes(Unit)
Waiting == UnitSet \ (DOMAIN ran \cup eng.base \cup eng.run)
NeedsBaseline(row) == row \in start.baselines

\* The results known, and result v of other rows.
Adding(known, rows, v) ==
    [row \in DOMAIN known \cup rows |-> IF row \in DOMAIN known THEN known[row] ELSE v]

\* The workers the rows occupy.  The launching loop announces a trigger
\* before it has a worker for it, and a finished one after the worker is free.
Slots(row) == IF IsEval(row[2]) THEN Jobs ELSE Jobs + 2
CanStart(row) ==
    /\ row \in Waiting
    /\ Cardinality(eng.base \cup eng.run) < Slots(row)

StartBaseline ==
    /\ Running
    /\ \E row \in Waiting :
         /\ CanStart(row) /\ NeedsBaseline(row)
         /\ eng' = [eng EXCEPT !.base = @ \cup {row}]
         /\ Tell(StartCase(dash, row, TRUE))
    /\ UNCHANGED <<start, user, link, ran, based, disk, host, inputs>>

\* BaselineDone and the start of the eval itself, in the same worker.
FinishBaseline ==
    /\ Running
    /\ \E row \in eng.base, v \in start.outcomes :
         /\ based' = Adding(based, {row}, v)
         /\ eng' = [eng EXCEPT !.base = @ \ {row}, !.run = @ \cup {row}]
         /\ Tell(StartCase(dash, row, FALSE))
    /\ UNCHANGED <<start, user, link, ran, disk, host, inputs>>

StartItem ==
    /\ Running
    /\ \E row \in Waiting :
         /\ CanStart(row) /\ ~NeedsBaseline(row)
         /\ eng' = [eng EXCEPT !.run = @ \cup {row}]
         /\ Tell(StartCase(dash, row, FALSE))
    /\ UNCHANGED <<start, user, link, ran, based, disk, host, inputs>>

\* A trigger that could not be judged counts as not fired: it has no error.
Outcomes(row) == IF IsEval(row[2]) THEN start.outcomes ELSE start.outcomes \ {"error"}

FinishItem ==
    /\ Running
    /\ \E row \in eng.run : \E v \in Outcomes(row) :
         /\ ran' = Adding(ran, {row}, v)
         /\ eng' = [eng EXCEPT !.run = @ \ {row}]
         /\ Tell(ItemDone(dash, row, v))
    /\ UNCHANGED <<start, user, link, based, disk, host, inputs>>

\* merge: what ran, over what is stored of the cases --eval leaves in; a case
\* that is not in the spec any more loses its result.
Merged(u, fresh) ==
    LET sc == EntryOf(Head(u.cases))
        out == {c \in TierCases(sc, u.tier) : IsEval(c) /\ start.eval \notin {AnyEval, c}}
        dropped == {u.model} \X (out \cup sc.removed[u.tier])
    IN  [row \in DOMAIN disk.stored |->
            IF row \in DOMAIN fresh THEN fresh[row]
            ELSE IF row \in dropped THEN "absent" ELSE disk.stored[row]]

\* SaveDir: the unit's results are current, the ones it carries as they were.
Save(merged, executed) ==
    disk' = [stored |-> merged, executed |-> executed,
             old |-> {row \in disk.old \ UnitSet : merged[row] # "absent"}]

UnitFailed == \E row \in UnitSet \cap DOMAIN ran : ran[row] \in {"fail", "error"}

SaveUnit ==
    /\ Running /\ UnitSet \subseteq DOMAIN ran
    /\ Save(Merged(Unit, [row \in UnitSet |-> ran[row]]),
            disk.executed \cup {EntryKey(Unit)})
    /\ eng' = [eng EXCEPT !.todo = Tail(@), !.failed = @ \/ UnitFailed]
    /\ UNCHANGED <<start, user, link, dash, ran, based, host, inputs>>

\* A harness that cannot run evals: token counts replace the results.
CountUnit ==
    LET counts == [row \in UnitSet |-> "none"]
    IN  /\ Sweeping /\ ~UnitExecutes(Unit)
        /\ ran' = Adding(ran, UnitSet, "none")
        /\ Save(Merged(Unit, counts), disk.executed \ {EntryKey(Unit)})
        /\ eng' = [eng EXCEPT !.todo = Tail(@)]
        /\ Tell(UnitCounted(dash, Head(UnitRows(Unit))))
        /\ UNCHANGED <<start, user, link, based, host, inputs>>

\* The cancelled context, an agent that cannot be run or a failed save ends
\* the sweep with the unit unsaved.  What already failed in it is reported if
\* the unit had ended or is one of triggers, and forgotten of evals.
AbortUnit ==
    LET ended == UnitSet \subseteq DOMAIN ran
    IN  /\ Running
        /\ \E err \in (IF cancelled /\ ~ended THEN {"cancelled"} ELSE {})
                      \cup (IF start.faults THEN {"fault"} ELSE {}) :
             eng' = [eng EXCEPT
                 !.todo = <<>>, !.base = {}, !.run = {}, !.err = err,
                 !.failed = @ \/ (UnitFailed /\ (ended \/ Unit.tier = "triggers"))]
    /\ UNCHANGED <<start, user, link, dash, ran, based, disk, host, inputs>>

\* The sweep is over; saving the counter or the reports may still fail.  The
\* reports of run all come after the program.
EngineEnds ==
    /\ eng.pc = "sweep" /\ eng.todo = <<>> /\ ui # "returned"
    /\ \E err \in {eng.err} \cup (IF start.faults /\ eng.err = "none" THEN {"fault"} ELSE {}) :
         /\ eng' = [eng EXCEPT !.pc = "stopped", !.err = err]
         /\ report' = IF err = "none" /\ ~start.all
                      THEN Generate(disk, Reported, StrictConfig) ELSE report
    /\ Tell(RunDone(dash, eng.failed))
    /\ UNCHANGED <<start, user, link, ran, based, disk, checked, prog, quitting, cancelled,
                   ui, exit, inputs>>

-----------------------------------------------------------------------------
Engine == \/ EngineTakes \/ EngineUnused \/ StartBaseline \/ FinishBaseline
          \/ StartItem \/ FinishItem \/ SaveUnit \/ CountUnit \/ AbortUnit
          \/ EngineEnds
User == FormInput \/ Run \/ Cancel \/ DashInput \/ AskQuit \/ Stay \/ Quit
        \/ SigTerm \/ SigInt \/ SigPlain
Main == Reconcile \/ ReconcileFails \/ RunChecks \/ UiCloses \/ UiReturns \/ PlainReturns
        \/ UiAborts \/ RunReport \/ ReportFails
Host == Deliver \/ ProgramExits \/ Main
Next == User \/ Engine \/ Host

EngineEnabled ==
    /\ ui # "returned"
    /\ \/ eng.pc = "sweep"
       \/ eng.pc = "select" /\ (link = "full" \/ progExited)

\* The command after its prompts and checks, from the program or the sweep on.
Ending == UiCloses \/ UiReturns \/ PlainReturns \/ UiAborts \/ RunReport \/ ReportFails

\* Every agent ends (by its timeout at the latest), the workers and the
\* runtime are scheduled.  Of the user nothing is assumed, but that the question
\* of run all's report is answered.  The engine's fairness is weak fairness of
\* Engine, spelled out.
Spec == /\ Init /\ [][Next]_vars
        /\ <>[]EngineEnabled => []<><<Engine>>_eng
        /\ WF_link(Deliver)
        /\ WF_host(ProgramExits)
        /\ WF_ui(Ending)

-----------------------------------------------------------------------------
\* The cursors of the form are on rows it shows, where there are any.
FormOK ==
    /\ form.session \in Sessions /\ form.open \subseteq Parents
    /\ form.focus \in ToSet(FormPanes)
    /\ \A l \in Lists : LengthOf[l] > 0 => form.at[l] \in 1 .. LengthOf[l]
    /\ TreeSeq # <<>> => form.cur \in DOMAIN RowsShown(form)

\* Every variable has its type: the selection and the cursors stay on rows.
TypeOK ==
    /\ screen \in {"form", "dash"} /\ FormOK
    /\ link \in {"none", "sending", "full"} /\ prog \in {"off", "up", "down", "error"}
    /\ ui \in {"starting", "checking", "waiting", "closing", "sweeping",
               "reporting", "returned"}
    /\ exit \in {"none", "ok", "warned", "failures", "fatal"}
    /\ checked \in {"none", "ok", "failures"}
    /\ \A k \in DOMAIN report.summary :
           LET r == report.summary[k]
           IN  r.passed + r.errored <= r.executed /\ r.executed <= r.total
    /\ eng.pc \in {"select", "sweep", "stopped", "unused"}
    /\ \A row \in DOMAIN dash.status : dash.status[row] \in Statuses
    /\ dash.focus \in ToSet(Panes) /\ dash.queued \subseteq ToSet(dash.log)
    /\ screen = "dash" =>
           /\ dash.sel \in DOMAIN dash.log /\ dash.liveIdx \in DOMAIN dash.log \cup {NoLive}
           /\ Browsing(dash) => dash.cur \in DOMAIN Nodes(dash, dash.open)
    /\ \A row \in DOMAIN ran : ran[row] \in Verdicts \cup {"none"}

\* What the form shows is what its plan holds: a node shown empty has no case
\* to run and a full one no case left out, unless a forced case lies outside
\* the command's own tiers, skills and --eval.
GlyphsTellThePlan ==
    LET queued == QueuedRows(Request(form.session, reasons))
        enabled == Enabled(form.session)
    IN  screen = "form" => \A n \in ToSet(TreeSeq) :
            LET rows == {row \in Rows(enabled) : row[2] \in Leaves[n]}
                sel == NodeSel(form.session, reasons, Leaves[n])
            IN  (\A row \in rows : HasReason(reasons, row[1], row[2])) =>
                    /\ sel \in {"none", "forceOff"} => rows \cap queued = {}
                    /\ sel \in {"all", "forceOn"} => rows \subseteq queued

\* The engine visits exactly the rows the dashboard shows as queued (but for
\* evals another --eval rules out), and none is left pending when it is done.
Taken == DOMAIN ran \cup ToSet(RowsOf(eng.todo))

SweepRunsThePlan ==
    LET visible == {row \in dash.queued : IsEval(row[2]) => start.eval \in {AnyEval, row[2]}}
    IN  Interactive /\ eng.pc \in {"sweep", "stopped"} /\ eng.err = "none" =>
            /\ Taken = visible
            /\ dash.done => \A row \in visible : row \in dash.live

\* Without the form the engine runs what the form would, submitted at once
\* (triggers.go:157, evals.go:132), and the evals that need a baseline; if
\* every model has the harness it has without --harness, and is offered.
UnattendedOf ==
    [k \in Starts |-> ToSet(RowsOf(EngineUnits(Request(NewSession(k), ReasonsOf[k]), k.eval)))]
Unattended == UnattendedOf[start]
SameHarness == \A m \in ToSet(request.models) :
                   request.harness[m] = RunnableHarness(m, Installed)
PlainRunsTheSame ==
    (/\ ~Interactive /\ eng.pc \in {"sweep", "stopped"} /\ eng.err = "none"
     /\ SameHarness /\ NewSession(start).models = ToSet(request.models))
        => /\ Unattended \subseteq Taken
           /\ Taken \subseteq Unattended \cup start.baselines

\* What runs is exactly what the form showed (runui.go:288), or would show.
RunsWhatWasShown == GlyphsTellThePlan /\ SweepRunsThePlan /\ PlainRunsTheSame

\* While the program is up and the engine runs without an error, the rows
\* shown as running are the ones an agent works on, each with one timer, the
\* finished ones carry the engine's verdict, and the bar counts them.
LiveRowsExact ==
    LET busy == eng.base \cup eng.run
        judged == {row \in DOMAIN ran : ran[row] # "none"}
        bar == Progress(dash)
    IN  prog = "up" /\ screen = "dash" /\ eng.err = "none" =>
            /\ {row \in ToSet(dash.log) : Active(dash, row)} = busy
            /\ ToSet(dash.inflight) = busy /\ Len(dash.inflight) = Cardinality(busy)
            /\ dash.base = eng.base
            /\ \A row \in judged : row \in dash.live /\ dash.status[row] = ran[row]
            /\ bar.running = Cardinality(busy)
            /\ bar.ok + bar.bad <= bar.total
            /\ bar.bad >= Cardinality({row \in judged : ran[row] # "pass"})

\* While following, the selection is the case started last, except in
\* Details; the tree's cursor never rests on a ruler; and the engine moves
\* neither the selection nor the cursor of a user who reads Details or has
\* moved away.
SelectionFollows ==
    /\ [](/\ dash.follow /\ dash.liveIdx # NoLive /\ dash.focus # "details"
            => dash.sel = dash.liveIdx
          /\ Browsing(dash) => ~IsRule(Nodes(dash, dash.open)[dash.cur]))
    /\ [][(dash.focus = "details" \/ ~dash.follow) /\ eng' # eng =>
             UNCHANGED <<dash.sel, dash.cur, dash.open, dash.focus>>]_vars

\* The one skill with cases of its plugin.
OnlySkill(sc) == {x \in SkillsOf(sc.plugin) : CasesOf(x) # <<>>} = {sc}

\* The models report --check looks at, unless it is strict.
Gated(m) == ThresholdModels = {} \/ m \in ThresholdModels

\* No result of a removed case is stored for the model in the tier.
NoneRemoved(scs, t, m) ==
    \A sc \in scs : \A c \in sc.removed[t] : disk.stored[<<m, c>>] = "absent"

\* A model's group is red exactly if report --check fails it; for the one skill
\* of a plugin, a model the check looks at, and results that are all verdicts of
\* an entry that executed.
RowsIn(m, sc) == {row \in ToSet(dash.log) : row[1] = m /\ EntryOf(row[2]) = sc}
GroupTellsTheGate(sc, m) ==
    LET plain(row) == \/ disk.stored[row] = "absent"
                      \/ /\ disk.stored[row] \in {"pass", "fail"}
                         /\ EntryKeyOf(row) \in disk.executed
    IN  Allows(sc, m) /\ Gated(m) /\ (\A row \in RowsIn(m, sc) : plain(row))
           => (GroupStatus(dash, RowsIn(m, sc)) = "fail"
                 <=> \E t \in ToSet(Tiers) :
                        <<"below", m>> \in Issues(disk, Reported, sc.plugin, t, FALSE))

Swept == eng.pc = "stopped" /\ dash.done /\ eng.err = "none" /\ start.eval = AnyEval

\* After a sweep without an error the groups and the gate agree, unless results
\* of removed cases are left in the plugin (a save of their unit drops them); and
\* a unit listed under Improvements has an eval that newly passes.
GroupsAgreeWithTheGate ==
    Swept => \A sc \in {x \in ToSet(Catalog) : OnlySkill(x)}, m \in ToSet(request.models) :
        LET evals == OfTier(RowsIn(m, sc), "evals")
            basis(row) == Basis(start.stored, based, row)
        IN  /\ (\A t \in ToSet(Tiers) : NoneRemoved(SkillsOf(sc.plugin), t, m))
                  => GroupTellsTheGate(sc, m)
            /\ Improved(dash, start.stored, based, evals)
                  => \E row \in evals : dash.status[row] = "pass" /\ basis(row) # "pass"

\* A run that ended well, and was not broken off, had no failed case and no
\* failed check.
ExitTellsFailures ==
    exit = "ok" /\ eng.err = "none" =>
        /\ checked # "failures"
        /\ \A row \in DOMAIN ran : ran[row] \in {"pass", "none"}

\* A tier of a plugin for every configured model that the dashboard shows
\* passed, with no result of an older version or of a removed case, has no issue
\* under --strict (if the plugin's skills admit every model, no retired one has
\* a threshold, and the tier's spec files, where there are any, hold a case).
GreenBoardPassesTheGate ==
    dash.done /\ eng.err = "none" /\ start.restricted /\ start.eval = AnyEval
      /\ ThresholdModels \subseteq Models =>
        \A p \in Plugins, t \in ToSet(Tiers) :
            LET cases == UNION {TierCases(sc, t) : sc \in SkillsOf(p)}
                rows == Models \X cases
            IN  /\ Authored(p, t) => cases # {}
                /\ \A m \in Models : NoneRemoved(SkillsOf(p), t, m)
                /\ \A row \in rows : /\ row \in ToSet(dash.log) /\ dash.status[row] = "pass"
                                      /\ EntryKeyOf(row) \in disk.executed
                                      /\ row \notin disk.old
                => <<p, t>> \notin CheckFails(disk, Reported, TRUE)

\* Once evolve returned without an error from a run that was not broken off,
\* the committed reports are those of the results on disk; and the dashboard
\* and they count the same verdicts of a tier that was saved (for the one skill
\* of a plugin, if no result of a removed case is left in another one).
ReportsAreCurrent ==
    LET counts(r) == <<r.passed, Failed(r), r.errored>>
        shown(rows) == [i \in 1 .. 3 |->
                           Cardinality(With(dash, rows, <<"pass", "fail", "error">>[i]))]
    IN  /\ ui = "returned" /\ exit # "fatal" /\ eng.err = "none"
             /\ (start.all \/ eng.pc = "stopped") =>
               report.summary = Summary(disk, Reported)
        /\ ui = "returned" /\ exit # "fatal" /\ dash.done /\ start.eval = AnyEval =>
               \A row \in DOMAIN ran :
                   LET rows == {x \in ToSet(dash.log) : EntryKeyOf(x) = EntryKeyOf(row)}
                       k == <<EntryOf(row[2]).plugin, TierOf(row[2]), row[1]>>
                       others == SkillsOf(k[1]) \ {EntryOf(row[2])}
                   IN  OnlySkill(EntryOf(row[2])) /\ NoneRemoved(others, k[2], k[3])
                         /\ (\A x \in rows : disk.stored[x] \in Verdicts)
                         /\ EntryKeyOf(row) \in disk.executed /\ eng.err = "none"
                           => counts(report.summary[k]) = shown(rows)

\* The dashboard's verdicts, report --check, the committed reports and the
\* exit code agree.
VerdictsAgree == /\ GroupsAgreeWithTheGate /\ ExitTellsFailures
                 /\ GreenBoardPassesTheGate /\ ReportsAreCurrent

\* runui.go: "The dashboard classifies its rollup glyphs against the same report
\* thresholds `report --check` gates on, so the two verdicts cannot drift."
VerdictsCannotDrift ==
    Swept => \A sc \in {x \in ToSet(Catalog) : OnlySkill(x)}, m \in ToSet(request.models) :
                 GroupTellsTheGate(sc, m)

\* Once the user quits, the program fails or there is none, evolve returns,
\* and but for a failed program only when the engine has stopped.
Returns ==
    /\ (quitting \/ prog = "error" \/ ui = "sweeping") ~> (ui = "returned")
    /\ [](ui = "returned" => \/ prog = "error" \/ eng.pc \in {"stopped", "unused"}
                             \/ prog = "off" /\ eng.pc = "select")
=============================================================================
