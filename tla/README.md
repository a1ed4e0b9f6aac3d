# Verification of evolve

evolve runs skill evaluations: for every skill of a repository and every selected
(model, harness) pair it runs *triggers* (does a query make the agent activate the
skill?) and *evals* (does the agent do the task, as graded by assertions?), and keeps the
outcomes in one committed `results.<ext>` per skill. What makes it hard is that a sweep
is long, costs money, runs many agents at once, is interrupted and resumed, selects
parts of its work by what is stored, and works on a directory its author keeps editing.

This directory holds TLA+ models of that core, the TLC runs that check them and the
TLAPS proofs about them. Paths below are relative to the repository.

## 1. Inventory

| Component | State | Operations | Hard behaviour | What makes it correct |
|---|---|---|---|---|
| `internal/run` sweep (`sweep.go`, `triggers.go`, `evals.go`, `reasons.go`, `fingerprint.go`) | loaded cases, content hashes, in-memory results file | load, select, run a unit, merge, save | partial reruns, edits while running, interrupts, resumption | a stored result that counts as current is current; untouched results survive; `--new` converges; baselines are computed once |
| `internal/run` trigger pool (`runQueries`) | errgroup slots, unbuffered channel, collector's tallies | launch, run, hand over, tally, close, answer | three kinds of goroutine, first error cancels all, Ctrl-C | exact tallies, verdict from all runs, all or nothing, no deadlock |
| `internal/run` eval pool (`runEvals`, `runEval`) | one slot per eval, baseline and result | launch, baseline, session, grading, join | two-stage slots, errors that are results and errors that abort | complete hand-over, interrupts discard the unit |
| `internal/run` plan and coverage (`plan.go`, `coverage.go`) | none | catalog, reasons per case, coverage | the same rules as the sweep's, written twice | same selection as the engine |
| `internal/runner` | process, pipe, two contexts, channel, marker file | start, scan or collect, poll, time out, kill, drain, wait | races between output, marker, exit, timeout and Ctrl-C; held pipes | no lost or invented activation, exactly one answer, always ends |
| `internal/results`, `internal/encfmt` | `results.<ext>` on disk | find, load, migrate, save | three system calls per save, format switch, old and newer schemas | a reported result stays readable, whatever is interrupted |
| `internal/plan` | catalog, filters, session of the form | toggle, force, glyphs, build, filter | CLI, form and engine must select the same cases | what runs is what was shown |
| `internal/grade` | none | assertions, one judge session | external commands and the judge fail or are cancelled | a verdict is about the agent |
| `internal/workspace` | temporary directory | stage links and copies, clean up | live links to the skill | agents see the skill under test |
| `internal/harness`, `internal/model` | registry | arguments, output parsing, side channel, choice of a harness | one marker per run | markers are not shared |
| `internal/agui` | transcript, thread, pending calls, the validator's open items | read, validate, reduce, settle, answer, follow up | event order, replays, cut and silent streams, pending calls over several runs | the transcript is the requested run; no error is lost; every request is answered once |
| `internal/remote` | submission, stream, landed units | plan, upload, submit, stream, reconnect, reconcile, land, cancel | lost connections, replayed units, crash between landing and saving | every unit is accounted for, lands whole and stays |
| `internal/tui` | form, tree, dashboard, log, selection | keys, mouse, engine's reports, dialogs | the user moves while workers report | rows, timers and counts are the engine's; the selection is the user's |
| `cmd/evolve` run and report | program and engine goroutines, exit code, report files | checks, form or plain sweep, await, report | quit, crash and signals while the engine runs | engine stopped and awaited; reports current; exit code tells failures |
| `internal/report` | `EVALUATION.json`, coverage, issues | roll up, classify, gate | several rates and thresholds of the same results | gate, board, report and exit code agree |
| `internal/cli` | options | harnesses, models, stale results | dropping results of retired models rewrites many files | only what was agreed is dropped |
| `internal/web` | snapshot, subscribers | watch, broadcast | slow readers | last snapshot wins |
| `internal/tokencount` | cache file | count, cache | concurrent counts | estimates only |
| `internal/{evalspec,layout,manifest,configdoc,profile,telemetry,version}` | none | parse, discover, render, export | none of the above | pure |

How they interact: `cmd/evolve` resolves options and calls `run.Sweep` with a context that
a signal cancels. The sweep walks skill, model, tier; a unit calls `runQueries` or
`runEvals`; these call `runner.Exec.Run` (or, for hosted agents, `agui.Converse`) from
goroutines bounded by `--jobs`, and `grade.Case` for evals. Results travel back through a
channel or per-index slots, are merged in memory and saved through `results.SaveDir`.
Progress goes through the `Reporter` callbacks to the terminal, the form's dashboard or
telemetry. On a terminal, the form's request reaches the sweep through a channel, and
the sweep's reports reach the dashboard as messages of the same program. A remote sweep
replaces the pools by a server and an event stream.

The hazards this gives rise to, each at its line and with the properties that watch it,
are the `hazards` of `PROJECT.json`.

## 2. Plan

Order: what can silently corrupt stored results first, then what feeds it, then what
shows it.

1. `Sweep` (done): a skill's results file under sweeps and edits.
2. `UnitRun` (done): the abstract unit, all or nothing. `TriggerPool` and `EvalPool`
   (done) implement it; `Sweep` takes a case's run and a unit's hand-over as the atomic
   steps of `UnitRun`.
3. `AgentCall` (done): the abstract agent invocation the pools rely on. `AgentRun` (done)
   implements it with a process, a pipe and two contexts.
4. `Validator`, `Reducer`, `Conversation` (done): a hosted agent's conversation, which
   implements `Dialogue`.
5. `ResultsDir`, `RemoteSweep` (done): the steps of a save, and a sweep on the service
   that lands through them, with crashes.
6. `Selection`, `Report`, `Form`, `Dashboard`, `App` (done): a run of the command, from
   the flags or the form to the exit code.
7. `TriggerPoolProofs`, `EvalPoolProofs`, `AgentRunProofs`, `SweepProofs`,
   `RemoteSweepProofs`, `ConversationProofs` (done): every invariant and action property that
   the runs of these components check; `AppProofs` (done): the types, rows, plan and
   selection of a run; `AppVerdictsProofs` (done), which extends it: its verdicts, see section 6.
8. Left to model: the broker of `internal/web` (subscribers and the last snapshot), the
   relay of progress events from a remote unit, two evolve processes on one skill.
9. Left to prove: nothing that a run checks, liveness aside (section 6).

## 3. Modules

Sources are given in full in `PROJECT.json` under `map`.

### Sweep

The state is what the author's files say (`authored`), the results file on disk (`disk`)
and a sweep's memory: the invocation, the loaded skill, the in-memory `file`, the units
left (`todo`) and the unit being run with its `runSet`, `fresh` results and recomputed
baselines. `StartSweep` is `runSweepSet` up to its model loop, `SkipUnit` and `BeginUnit`
the two outcomes of a unit's selection, `RunTrigger`/`RunEval` one case,
`CommitTriggers`/`CommitEvals` merge, stamp and save, `Abort` an interrupt, an error or a
crash. `EditContent` and `EditCase` are the author's, and may come at any moment.

Fingerprints are numbers, one for each of the contents the skill may have, and contents come
in any order: `EditContent` may undo an earlier edit and with it bring back a hash that is on
file. The triggers hash only the frontmatter of `SKILL.md` (`Frontmatter`), the evals every
file. Three variables are history: `ran`, in a result, is the content its agents saw;
`partial` says that some saved sweep could leave a changed case unselected; `torn` holds the
contents that a sweep had loaded and that were edited away before it ended. What ran under the
content in between is stored with the hash of the torn one (`internal/run/sweep.go:106` takes it,
`triggers.go:362` and `evals.go:748` stamp it) and passes for current once the author restores
that, so `FreshMeansCurrent` excepts the contents in `torn` (section 5).

Abstractions:
* one skill, one evolve process. Loading the specs, the hashes and the file is one
  moment, and fixtures read again later belong to the loaded spec;
* the evals file's `models` restriction: `Models` are the allowed ones;
* `count` stands for every reason not to execute (`--count-only`, no CLI found);
* a case runs in one step, with the content of that moment, which may be any between the
  sweep's load and the save. That it ends at one moment, and its unit as a whole or not at all,
  is what `ImplementsUnitRun` establishes for both pools;
* models may be visited in any order, triggers before evals within one;
* `Header.Previous`, `Executed`, timestamps, estimates and summaries are left out;
* `Init` allows no file, and one migrated from before fingerprints (results without a
  spec hash and without a content hash).

### UnitRun, TriggerPool, EvalPool

`UnitRun`: each case of the run set gets one verdict, together with its baseline if that
was stale, and the unit then ends complete or abandoned. `TriggerPool` is `runQueries`:
the launching loop with `errgroup.SetLimit`, the workers, the unbuffered channel (worker
and collector meet in `Receive`) and the collector. `EvalPool` is `runEvals` with
`runEval`: baseline, its grading, the run with the skill, its grading. Grading is one step,
placed at its last command or judge session. `cutShort` and `guessed` are history.
`EvalPool` covers CLI sessions, and hosted conversations past their script's validation.

### AgentCall, AgentRun

`AgentCall`: one answer, an outcome only while the caller's context is live, an error only
once it is not. `AgentRun` is `Exec.Run` for a process that has started (one that cannot
start is `AgentErrs` in the pools), with `scanStdout`'s reader goroutine, its channel of
capacity one, its select loop, and the tail of the trigger worker that decides what
counts as a hit. A last line without a newline is a line followed by end of file. The
process, its pipe and the `WaitDelay` of `os/exec` are external; their timing is
over-approximated: a held pipe may be released, or given up, at any moment after the
kill. The stdout cap and the sandbox wrapper are left out.

### Validator, Reducer, Dialogue, Conversation

`Conversation` is `Converse` with `runAGUI`: the client posts the thread, reads the
response event by event, and the run's ending decides what comes next. The handlers of
an event are pure functions of the memories they keep, and so are operators here:
`Validator` is `validate.go` (decoding, chunk expansion, the life cycle and pairing
rules), `Reducer` is `reduce.go` (messages, calls, results, shared state). An action
`ReadEvent` is one turn of the read loop with decoding, expansion, validation,
reduction and the timers it sets; `ReadEnd`, `ReadFails` are the ends of the stream;
`RunFails`, `CancelledRun`, `AnswerRequests`, `FollowUp`, `Complete` are the branches of
the decision; `Cancel` and `Expire` may come at any moment. `Dialogue` is what the
conversation owes to its agent: turns alternate, and each turn of the client answers all
of what the last one asked, or none follows. Its `asked` is the set of what the last run of
the transcript left pending, its `given` what the thread is about to carry, so that a
request forgotten on the way from the reducer to the next post breaks the refinement.

Abstractions: texts are lengths, ids small numbers, the shared state the number of the
value last set; JSON Patch, HTTP headers, redirects, authentication and the wording of
violations are left out. Messages made up by the client have ids above `ClientIds`. A
transcript's human-in-the-loop requests and violations are sets: nothing depends on their order
within a run. What is not there (a result, an ending, a role) is the value "none" of its field.

### ResultsDir, RemoteSweep

`ResultsDir` holds the files of a results directory by extension and a save in progress
(`WriteTemp`, `Rename`, `RemoveSibling`, one system call each); `Loaded` is `LoadDir`:
the lookup among the extensions and the schema rules. `RemoteSweep` is `remote.Sweep`:
`Plan`, `Upload`, `Submit`, the loop of `Client.Events` (`Connect`, `Receive`,
`StreamFails`, `Reconcile`, `StatusFails`, `Backoff`), `onUnit` with `landUnit`
(`Ignore`, `LandLoss`, `LandResult`, `Save`, `SaveFails`, `Report`, `Applied`) and the
deferred cancel (`Close`). `PodFile` is what the in-pod `exec-unit` makes of the prior
entry. `Crash` may come at any step, `Rerun` starts the command again, possibly with
another format. An entry is, per case, the number of the sweep that produced the result.
`asked`, `unsaved`, `reported`, `dropped` and `littered` are history variables; the last
says that a save began with files of two or more other formats (`Others`), which takes
two formats besides the new one and a save that was killed before its removals.

The service is external, modelled from what the client assumes: it settles every unit,
repeats all states on every connection, and ends the stream with the evaluation.
Abstractions: progress events, log-in and token refresh, and the
preflight are left out; an entry may be too large for the wire (`dropped`
remembers it); the removal of another format's file succeeds. A client that gives up in `Submit`
may leave an evaluation behind that it never learnt the id of: the POST was accepted and its answer
lost or interrupted (`internal/remote/client.go:111`). The service then runs it as `orphaned`, and
`InterruptCancels` speaks of the submissions the client knows.

### Selection, Report, Form, Dashboard, App

`App` is a run of `evolve run triggers`, `evals` or `all`. Its state is the form, the
dashboard, the request's way to the engine (`link`), the engine (`eng`, with the rows an
agent works on), the program (`prog`), `runWithUI` (`ui`), what is on disk and what was
reported. User actions (`FormInput`, `Run`, `DashInput`, `AskQuit`, `Quit`, ...) are one
message of the program each; engine actions are one `Reporter` call each, with the
handler of its message in the same step. `Reconcile` is all of a command's work before
the program starts (flags, stale results), `RunChecks` the checks of `run all`,
`UiCloses` and `UiReturns` the end of `runWithUI` with the report, `PlainReturns` the
same without a terminal or with `--no-tui`. A unit of the engine is the outside of
`UnitRun`: its cases start, settle and are saved together, or it aborts.

`Selection` translates `internal/plan` (session, glyphs, `Build`, the filters), the
catalog and reasons of `internal/run/plan.go`, the plain sweeps' own selection and the
choice of harnesses; `Report` the rollups, the gate and the coverage profile; `Form` and
`Dashboard` the `Update` of the two screens, as operators from a record to the next one.

An entry of the catalog has, besides the cases of its specs, its `files`, the tiers with a spec
file, and the `removed` cases, which are in no spec but may have results on disk. A tier is
authored if its file is there, whether or not it parses or holds a case. A rollup counts what the entry
on disk carries, removed cases included (`Ever`), until a save of that unit drops them
(`Merged`); the form and the dashboard know the cases there are. A file that does not parse
makes the sweep that visits it end with an error, one of a start's `faults`.

Abstractions: rendering, window heights, scrolling, spinners, metrics and the discovery
picker are left out, a click can hit any row of a list; a unit's status and counters are
those of its cases; deltas compare with a stored baseline of the same sweep. Reports are
their counts, issues and verdicts: no tokens, costs, times, JUnit or deltas to the previous
report; a report is written whole. The checks are one outcome. `run all --remote`, judge
resolution errors and the order of several `--model` values are left out, and so are signals
that arrive before the program or the plain sweep has started. When the process has
returned, whatever still ran in it is frozen.

## 4. Runs

| Run | Checks | Shows |
|---|---|---|
| `MCSweep` | TypeOK, FreshMeansCurrent, NewSettles, UntouchedPreserved, BaselineCached | two sweeps of any of ten invocations, two edits (or one and its undoing) and any interrupts over two queries and one eval |
| `MCTriggerPool` | TypeOK, TallyExact, VerdictFromAllRuns, ReturnSound, ImplementsUnitRun, Terminates | two queries of two runs, three slots |
| `MCEvalPool` | TypeOK, ReturnSound, InterruptDiscards, ImplementsUnitRun, Terminates | three evals on two slots, two with a stale baseline, two judged |
| `MCAgentRun` | TypeOK, HitMeansActivation, ActivationCounted, ImplementsAgentCall, Terminates | three lines, three ways of watching |
| `MCConversation` | TypeOK, TranscriptExact, ErrorSurfaces, CompletedMeansAnswered, AnsweredIsCarried, ImplementsDialogue, Terminates | two runs with an agent that sends legal, malformed, foreign, replayed and cut-off streams, refuses or falls silent |
| `MCRemoteSweep` | TypeOK, ReturnExact, InterruptCancels, ReportedIsDurable, LandingPreserves, Returns | two sweeps of two units over a stream that drops and replays, with crashes, failing saves and three formats to change between |
| `MCApp` | TypeOK, RunsWhatWasShown, LiveRowsExact, VerdictsAgree, SelectionFollows, Returns | nine starts of the command, seven with the form and two without |
| `MCSweepEvalFilter` | PartialRerunPreserves: violated | finding 1 |
| `MCSweepModified` | ModifiedFindsChanged: violated | finding 2 |
| `MCAppDrift` | VerdictsCannotDrift: violated | finding 3 |
| `MCEvalPoolInterrupt` | NoVerdictFromInterrupt: violated | finding 4 |
| `MCAgentRunTimeout` | TimedOutCountsAsNoTrigger: violated | finding 5 |

Bounds and why they are enough:
* `MaxSweeps = 2`, `MaxEdits = 2`, `MaxContent = 3`, `MaxSpec = 2`: every property relates a
  result to the sweep that stored it and to one later sweep, with an edit before, during
  or between, or with an edit during a sweep and its undoing during or after it. Of the three
  contents two have the same frontmatter, so that an edit changes either the hash of the evals
  alone or that of both tiers.
  Two queries give a case that runs beside one that does not; the eval puts a second tier
  into the same file. The runs of findings 1 and 2 use two evals instead; that of finding 2
  has one edit, so that a partial rerun and not an undone edit is what it shows.
* Trigger pool: two runs put the rate exactly on the 0.5 boundary, two queries let their
  outcomes interleave, three slots for four runs make the loop wait for a slot.
* Eval pool: three evals on two slots leave one queued; the two marks (stale, judged) come
  alone and together.
* Agent: `MaxLines = 3` is one line in the pipe, one in the channel and one to come.
* Conversation: `MaxRuns = 2` is a run that asks and one that carries the answer or may not
  be sent; streams are the ones listed in `MCConversation`, each chosen to reach a rule of the
  validator or of the reducer, and every one may be cut anywhere. One declared tool and
  one of the agent's own. Some 350 000 states; the proofs need none of these bounds.
* Remote: `MaxSweeps = 3` is the past and two sweeps; a trigger and an eval unit of two
  cases, and directories that start with a legacy, an ancient or a newer file (the first
  sweep makes a current one of it). The first sweep runs everything or nothing, the second
  one case of a unit the first one ran whole.
  Three formats, because a save that is killed between its rename and its removals leaves
  two files, and only a save in a third format meets both.
* App: two plugins, two models and a retired one, two harnesses, four cases, two spec
  files without a case, a trigger and an eval that were removed and have results on disk, two job
  slots. The inputs of the user are bounded per start (`formInputs`, `dashInputs`): the
  state space is the product of what the user and the workers do. Each start of `MCApp` is
  one situation: browsing while two workers run, changing the selection of a rerun, one
  eval asked for and others forced, counting only with a retired model, broken agents and
  signals, a results file that cannot be rewritten, a model that is refused, a plain
  run, and a pipeline of checks, runs and reports. `MCAppDrift` has one of its own, a run of
  the triggers alone.

Deadlock is checked in the pools, the agent run, the conversation and the remote sweep. A
sweep model stops when its bounds are used up, and a run of the command when its process
has ended or when the user, whose inputs are used up, leaves it open: there it is not.

Every property of a passing run has a mutant in `PROJECT.json`: a plausible bug in the code the
mutated operator models, which makes TLC find that property violated.

Fairness: the pools and the agent assume that goroutines are scheduled (weak fairness of each),
and that every agent run ends, since its timeout kills it. `AgentRun` does not assume the latter:
it assumes that the timer fires, that a process whose context has ended is killed (`SIGKILL` to
its group) and that `os/exec` closes a held pipe `WaitDelay` later; its `Terminates` is what the
pools' assumption rests on. Neither Ctrl-C nor an agent that exits by itself is assumed to
happen. `Sweep` has no liveness property: how long a sweep takes is the pools' business.
`Conversation` assumes that the client reads and decides and that a set timeout fires, nothing of
the agent. `RemoteSweep` assumes that the client proceeds, that the service settles what it runs
and that the keep-alive notices a dead connection; the connection itself may drop for ever. `App`
assumes that the runtime schedules program, command and engine, and that every agent ends
(`Terminates` of the pools); of the checks and of the stale-results question before the form,
nothing; of the user, nothing but an answer to that question when `run all`'s report asks it
again: `Returns` starts with a quit or without a terminal. Where an action's enabledness is
costly for TLC, weak fairness is spelled out as `<>[]Enabled => []<><<Step>>_v` with the
condition written down beside it.

## 5. Findings

1. `--eval X` prunes the stored results and baselines of the skill's other evals
   (`internal/run/evals.go:132` against its own comment and
   `docs/evaluations/execution.md:126`). `UntouchedPreserved` and `BaselineCached` are
   therefore stated for invocations without `--eval`.
2. A partial rerun stamps the results it kept with the current content hash, after which
   `--modified` misses them (`internal/run/triggers.go:362`, `internal/run/evals.go:748`
   against `internal/run/run.go:69`). `FreshMeansCurrent` is therefore stated for
   histories without such a rerun.
3. A rollup adds up what the stored entry carries (`internal/report/report.go:643`, `:665`,
   `:699-722`), results of removed or renamed cases included, until that unit is saved again; the
   dashboard's groups count the cases there are. A group can be green whose tier
   `report --check` fails, or red whose tier it passes, although `cmd/evolve/runui.go:323` says
   that "the two verdicts cannot drift". The parts of `VerdictsAgree` that compare dashboard and
   rollups are therefore stated for tiers without such results (`NoneRemoved`).
4. A Ctrl-C during the grading of the last evals is saved as failed assertions
   (`internal/grade/grade.go:207`, `:572`) against `internal/run/session.go:20`.
5. A timed-out trigger run can count as a hit (`internal/run/triggers.go:338`) against
   `internal/runner/runner.go:127`.

The runs of this project are all used; what else the models show of the code, without a run of
its own:
* The same as finding 2 without any partial rerun: the author edits the skill while a sweep
  runs and restores it later. The results of what was there in between carry the hash of what
  is there again, and `--modified` takes them for current (`torn`, section 3).
* `--new` does not run stale results (`internal/run/reasons.go:104`), although `README.md:151`
  says that it runs what is "missing or stale".
* A strict gate fails a plugin whose spec files hold no case, or do not parse: what counts is that
  the file is there (`internal/report/report.go:376`). `GreenBoardPassesTheGate` therefore asks that
  the tier's files hold a case.
* An eval that `--eval` leaves out can still be shown as queued when the form forces it, and is not
  run, against `cmd/evolve/runui.go:288`. `RunsWhatWasShown` excepts these evals.
* A hosted conversation whose last run had ended already returns without an error under a
  cancelled context (`internal/agui/converse.go:231`, `:536`). `InterruptDiscards` reads it as one that
  ended before the Ctrl-C.
* One failed status request after a dropped stream makes the client give up
  (`internal/remote/client.go:202`); without a Ctrl-C the evaluation it leaves is not cancelled.
  `Returns` says that the client returns, not that the evaluation ends.
* Without the form the engine also runs evals whose baseline alone is stale; the form
  never selects these (`internal/run/plan.go`), although
  `internal/run/evals.go:343` says that both run an identical set and `:361` that both OR this
  gap into their selection. `RunsWhatWasShown` allows exactly that
  difference.
* A wrong `--model` or `--harness` is refused only after results of retired models may
  have been dropped and the checks of `run all` have run, against
  `cmd/evolve/run.go:195`, "before any work begins" (`Reconcile`, `Begins`).
* `run all --no-tui` on a terminal still asks its question in the report step (`Prompts`).
* `thresholds.models` may name a model that is no longer configured: `report --check --strict`
  then finds no results of it (`internal/report/report.go:405`), however green a board of
  the configured models is. `GreenBoardPassesTheGate` therefore asks for thresholds of
  configured models.
* A user who quits in the middle of a unit gets exit code 0 whatever had failed in it, and
  no report of the units saved before (`VerdictsAgree` speaks of runs not broken off).
* `run all --strict` also makes the coverage of its report strict.
* A save killed between its rename and its removals leaves two files; when the next one,
  in a third format, removes them in the order of the extensions
  (`internal/results/results.go:420`), a reader that looks between two removals may find
  the leftover, with results older than those it saw before. `LandingPreserves` excepts that
  moment (`littered`); no reported result is lost by it (`ReportedIsDurable` has no
  exception).
* The baseline of an eval that was taken out of the skill, swept without executing and then put
  back as it was does not survive a partial rerun: the merge keeps baselines only of evals
  that have a result (`internal/run/evals.go:407`, `:763`), where the comment at `:391` says it
  drops "cases no longer in the spec" and `docs/evaluations/execution.md:121` that baselines are
  "recomputed only when the eval or its fixtures change". `BaselineCached` therefore speaks of
  evals with a result.
* A result that arrives before its call counts for the validator
  (`internal/agui/validate.go:771`) but is not attached to the call
  (`internal/agui/reduce.go:188`): a conversation can complete cleanly with a call whose result
  is nil, although it was answered (`internal/agui/converse.go:152`: "nil while unanswered").
  `CompletedMeansAnswered` therefore asks for a result among the events of the run.

## 6. Proofs

All theorems hold for every value of the constants that satisfies the module's `ASSUME`:
`PoolAssumption` (a number of queries, at least one run and one job, the positive queries
among the queries), `EvalPoolAssumption` (a number of evals, at least one job, the stale
and the judged evals among them), `AgentRunAssumption` (a number of lines, modes of the three
kinds), `RemoteAssumption` (finitely many units, plans over them, outcomes among the settled
states), `FilesAssumption` (formats are named extensions, the files a directory starts
with are results files), `SweepAssumption` (query and eval names disjoint, bounds natural numbers,
invocations of the shape the CLI can produce), `CatalogAssumption`, `ReportAssumption` and
`StartsAssumption` for a run of the command (skills have different names, a case, removed or
not, belongs to one skill and one tier, a tier with cases has a file, models and harnesses are
known ones, flags have one of their values, at least one job), and for a conversation `ConversationAssumption`
(at least one run), `BodiesAssumption` (an agent sends sequences of events) and
`ScriptsAssumption` (a script has a list of responses and a number of follow-ups).

**TriggerPool** (`TriggerPoolProofs`). TypeOK, TallyExact, VerdictFromAllRuns and
ReturnSound are invariants, and the pool implements `UnitRun`. None of these is inductive
alone: a counter stays in its range only because it equals the cardinality of a set of
runs, and a return without error is complete only because of where the goroutines are.
`PoolInv` joins TypeOK, TallyExact and VerdictFromAllRuns with `Flow`: queries behind the
launching loop are wholly launched; once the loop is left all are; after `Close` no worker
is active; `groupErr` holds exactly when some run failed, `failed` exactly when some
verdict is "fail"; the result is `Answer`. When the pool has returned without error, every
run is launched, none is active and none failed, hence all were received and every query
has a verdict. The refinement uses `PoolInv` and `ReturnSound`: the last `Receive` of a
query is `RunCase`, `Return` is `Complete` or `Abandon`, every other step stutters.

**EvalPool** (`EvalPoolProofs`). TypeOK, ReturnSound and InterruptDiscards are invariants,
and the pool implements `UnitRun`, baselines included. `EvalInv` adds to the types where
the launching loop stands (`Launching`: exactly the evals before `next` have left the
queue), what each goroutine has recorded at its stage (`Goroutines`: an outcome exactly when
done, a stale baseline before the run with the skill), and what an interrupt leaves behind
(`Stuck`: an eval that needed an agent at the Ctrl-C never gets past it, because a session
that ends under a cancelled context fails). At a return without error all evals are done,
so none was stuck. In the refinement an eval's last step is `RunCase`: its baseline, if
stale, is recorded by then.

**AgentRun** (`AgentRunProofs`). TypeOK, HitMeansActivation and ActivationCounted are
invariants and the invocation implements `AgentCall`. That no activation is lost is a
statement about the answer; `RunInv` follows the activation to it: while the run's context
is live and the loop has not seen it, it is in the pipe or in the channel
(`Activations`), the final event comes behind every line and a live run is left only with it
(`Ends`), and a run's context that was cancelled was so by a hit or by the caller
(`Causes`).

**Sweep** (`SweepProofs`). TypeOK, FreshMeansCurrent and NewSettles are invariants;
UntouchedPreserved and BaselineCached hold of every step. FreshMeansCurrent needs `SweepInv`. Contents come back,
so nothing can be said of older and newer; what can be said of a result and the hash it
carries is that they belong together or that the content of that hash was edited away under a
sweep (`Vouched`). The invariant says it at three places: of the content a sweep has
loaded and the author's (`LoadedIsKnown`: the edit that tells them apart is the one that tears);
of the loaded content and what a running unit holds (`InHand`); and, while nothing
changed was left out, of the stamp of each stored verdict with a spec hash (`Stamped`). The
in-memory file equals the disk, for a unit merges and saves in one step. A commit
keeps `Stamped` because what it ran saw the content of some moment since the load, and because a
result it carries over was not modified at load time, so that its old stamp is the hash it is
given again. A stamp that equals the author's hash then leaves two possibilities: the
result is of that content, or that content is torn.

NewSettles and BaselineCached are about what a unit has in hand and the merge makes of it.
`Filled` says that a case that ran has a result, that a baseline is recomputed only for an eval
that needs one under the file's own baselines, and that an eval that ran and needed one has it;
BaselineCached then is a fact about one merge. NewSettles is a promise about the end of a
sweep, and `SettleInv` says how much of it is kept halfway: every (model, tier) the sweep has
left behind finds, under the loaded specs, work only in cases that errored or ran
unmetered, whether it was skipped (nothing was selected) or committed (what ran has a
result, what did not run was not wanted), and no later unit touches it. At the end no unit
is left to visit, and a second sweep's selection is exactly those cases as long as the author's
specs are the loaded ones.

**RemoteSweep** (`RemoteSweepProofs`). ReturnExact and
InterruptCancels need `RemoteInv`. The stream drops, repeats and reorders, so nothing
follows from the messages seen so far; but at every moment a message tells no settled
state that the service does not have, the end of the stream only comes with the end of the
evaluation (`News`), a landed unit is accounted for unless it is the one being saved
(`Landings`), and the last snapshot names every unit that has not landed (`Finals`). Hence
a return without an error has landed them all. TypeOK and ReportedIsDurable need
`StorageInv`, about the files: a crash can leave several, and readers see only one of them, so
*every* file there is must hold all reported results, and so must what is being saved and
what was sent along for the pod's merge. It is kept because a landing is reported only
when `SaveDir` has returned, that is, when one file is left, and a unit whose prior entry did
not fit on the wire is out of it (`dropped`). LandingPreserves holds of every step that is
not `littered`: `LandingInv` says that the save under way is that of the unit at the head of
the inbox, that at most one other file is there, and that what is written is either what a
reader sees already or the landing of that unit. The file a reader sees therefore changes at the
rename or, while the one other file hides the new one, at its removal, and only by that landing.

**App** (`AppProofs`, `AppVerdictsProofs`). LiveRowsExact and RunsWhatWasShown are invariants, for every catalog,
set of flags, stored results and number of jobs. The program and the engine never share
memory: the one has a log of rows with a status each, a list of timers and a set of settled rows,
the other a list of units, the rows at work and the results. `RowsInv` is what the messages
between them keep:
* `OpenInv`: which screen, program and engine state go together; nothing has run before the
  plan was taken, and an engine with an error has nothing left.
* `PlanInv`: the dashboard's units, log and queued rows are those `Build` makes of the request
  the form sent; every unit left is one with cases.
* `WorkInv`: the rows at work are of the unit at hand, none twice and none that has a result,
  and all rows of the engine, done or left, are among the queued ones. This is where `Filters`
  matters: the engine selects by skill and tier, not by row, and would run a row the plan did
  not have if `BothTiers` pinned one tier only.
* `LiveInv`: a row is shown as running exactly while it is at work, with one timer, and a row
  with a verdict shows it.

LiveRowsExact is a part of `LiveInv`, and the engine's rows being rows of the log is what makes
each message find its row. RunsWhatWasShown is about the whole of the run. `TakesInv` says
that the planned rows are at any moment those that ran and those left (`PlannedInv`), that what
ran is settled on the dashboard (`SettledInv`), and that without the form the request is made
from the flags (`AskedInv`). At the end nothing is left. What a glyph says is a fact about
`NodeSel` and `Queued` (`GlyphTells`) that needs every choice of the form to be one of auto, on
and off; `FormAlways` shows that, and where the form's cursors are, through all keys and clicks.
That a run without the form takes the rows the form would open with (`PlainIsTheSame`) compares two
selections written independently in the code, by reason and by filter.

The lemmas before say what `Only`, `FlattenSeq` and `Build` return: a filtered or flattened
sequence has the elements one expects, each unit of a plan has cases of its own, and a row
is in one unit (`OneUnit`). `Only` and `FlattenSeq` are recursive functions; that they exist is
shown by a least counterexample (`KeepsExists`, `JoinsExists`).

SelectionFollows is about two cursors that the user and the engine both move: the selection in
the list of runs and the cursor in the tree, which changes its length whenever a group opens or
closes. `FollowInv` says that before the dashboard opens there is no live row, and that from
then on it is `Placed`: selection and live row are rows of the log (`Based`), the selection is the
live one while it follows (`Follows`), and the cursor of a user in the tree is on a row of
it that is no rule (`OnNode`). That needs to know the tree: it begins with a group, a
rule has a case before and behind it (`TreeTells`), a case whose groups are open has its row
(`PathTells`), and opening a group only puts in rows behind it (`TreeGrown`), so that a group
opened at the cursor leaves the cursor on it. The last uses that no skill is in two plugins
(`OnePlugin`), which `CatalogAssumption` grants: the same group would appear twice. The second part of
the property, that the engine leaves a user alone who reads Details or has moved away, is
`EngineMoves`: the step an event makes of the dashboard, event by event.

TypeOK says, for most of it, that cursors are on rows. Of the form, `IsForm` says so: a cursor in
each list that has an item, and the tree's cursor on one of the rows that show. Opening and closing
branches changes which rows those are, and the code moves the cursor only where a whole level is
closed. That is enough because parents stand before what is below them (`TopDown`, `TreeRows`):
a row closed or opened at the cursor hides and shows only rows behind it, so the rows up to the
cursor stay (`RowStays`), and going to a parent finds it among the rows that show. Of the
dashboard, `FollowInv` says it. `TypeInv` adds the rest: statuses the board can draw, results
that are verdicts, and that the counts of a report add up (`RollupAdds`).

VerdictsAgree compares four accounts of the same results that the code keeps apart: the statuses on
the dashboard, the rollups behind `report --check`, the committed reports and the exit code.
`ResultsInv` follows a result through all of them. A unit's rows are all of its tier and its
skill (`KeyedInv`), so the row alone says whether it gets a verdict or only tokens, and a
failed one of a unit that was saved is remembered (`JudgedInv`), which decides the exit code
(`ExitInv`). Once its unit is saved the result is on disk, and no result of a removed case of the
unit is (`ClearedInv`); what did not run is there as it was, an
entry that only counted tokens does not count as executed, and what is dropped belongs to models
the reports leave out (`DiskInv`). Reports are made last (`ReportInv`). The dashboard
shows the rows that are not queued as they were stored, and when it is done the others with the
engine's results, none of them running (`BoardInv`). Hence at the end of a run without an error
each row shows what is on disk (`BoardIsDisk`). What is left is counting: for the only
skill of a plugin, without results of removed cases, the rollup of a tier ranges over the rows that
the dashboard's group shows
(`OnlyCounts`, `TierShown`), what passed and what failed are disjoint parts of them
(`CountsShown`), and a tier without a failure is not below a threshold of at most 100 percent
(`ThresholdTells`), the one case the dashboard treats on its own. A tier that is all green has as many
passed as executed results, and at least one, for every model the strict gate asks for.

**Conversation** (`ConversationProofs`). TypeOK, ErrorSurfaces, CompletedMeansAnswered and
AnsweredIsCarried are invariants, and the conversation implements `Dialogue`; for any agent,
whatever events it sends. Four inductive invariants, each on top of the one before:
* `CarryInv`: transcript and requests fit (`RunsOK`, `RequestsOK`), what is on its way to the
  agent answers exactly what the last run asked, and nothing is on its way while a run is
  read and decided on (`OnItsWay`), and a request marked answered is carried by the run after
  its own, which is the next one to be sent or was sent already (`Commitment`). AnsweredIsCarried
  and the refinement follow: `RunFails`, `Complete` and the like end the dialogue,
  `AnswerRequests` and `FollowUp` fill in `given`, posting the run is the client's turn, and
  the decoded ending the agent's.
* `StreamInv`: the stream being read keeps its form (its parts, the chunk under expansion, the
  validator's record), and a run is posted only below the limit; `SurfaceInv` adds what the
  parts say of the requested run (`Reads`): they are non-empty once a run started, the part
  taken for the requested run is the one that echoes its id, or else the last, and a
  RUN_ERROR heard in that part is in it. `Ending` therefore is an error whatever came before or
  after, and no decision makes a success of it.
* `FormInv`: thread, pending calls and used responses keep their form, so that a run's items
  are well typed, and with them TypeOK.
* `TrackInv`: as long as nothing is wrong with a run, the validator has on record every call that
  was started in it, and only results that were heard; when such a run ends and
  asks nothing, every call on record has its result (`Tracks`, `Follows`). What the reducer makes
  calls of was started in the run. Hence a run that ended in success with nothing pending has
  results for all its calls (`Covered`), and only such a run completes a conversation.

Everything a run amounts to here is a fold over its events, and the induction theorems of the
library cannot be used (their operator parameters are not instantiated). `FoldSteps` shows, by
a least counterexample of a well-founded order, that a fold goes through a sequence of
values, each made of the one before and the next element; a property that the first value has
and each step keeps (`UpTo`) then holds of the last.

TranscriptExact says what is recorded of a run when its response has been read, and not only that
some form is kept. It has two halves:
* `ExactInv`, while the stream is read: whatever pieces it was cut into, the part that `PartOf`
  takes for the requested run holds exactly what was heard of that run (`Holds`): the events
  name the same items (`Made`, `Marks`), and of each item they carry the same text in all
  (`Added`, `Total`). A new RUN_STARTED may change which part that is, with all that was filed
  so far (`OursTaken`, `FreshExact`); an event more is filed as its expansion, with the id of
  the chunk it continues (`NextMark`, `PiecesMore`), or is rejected and names nothing
  (`IgnoredExact`).
* `MemoryInv`, between runs: no text or arguments are under construction in the thread
  (`Resting`). Reducing starts from there, and `Fits` says what the reducer has after some of
  the events: a reference to each item named, a builder for each of those and for no other, and
  in the builder of an item that was blank before the run the pieces so far. `ApplyFits` keeps
  it event by event, `RunExact` reads items and lengths off it at the end (`Materialized`).
  `Unmixed` is a premise because a message and a reasoning with one id share a builder; `Blank`
  because an item of an earlier run is continued; and a MESSAGES_SNAPSHOT brings items that
  the run did not name.

Only model-checked: liveness under fairness (`Terminates`, `Returns`, the second half of `App`'s
`Returns`), which is out of the prover's reach and stays with TLC. Every safety property of the
passing runs is proved.

What the proofs changed in the models: `BaselineCached` once let a running unit of one model
excuse the baselines of another, which its proof could not use; the arms of `Ending` overlapped, so
that a run in error could be read as one broken off (the code tests in order); and the
transcript's requests became a set, as no property and no step of the code depends on their order.
TranscriptExact was an invariant about the last run recorded; it did not hold of a run in which a
message and a reasoning have one id, which no instance had. It is now about the step that records a
run, with what that step starts from, and has that premise (`Unmixed`). `Reducer` has its folds as operators of two
arguments by name (`Keep`, `WithBuilder`), which is what the lemmas on folds can be applied to.
`Selection` takes sequences apart with `Only` and `FlattenSeq` where it had set comprehensions over
indices, and so does the tree of `Dashboard`, which is now built group by group (`Groups`,
`ModelNodes`, `SkillNodes`, `PluginNodes`), and the tree of `Form` (`Listed`, `Branch`). An empty
list or tree (no harness configured, no skill with a case) was out of bounds for `Form`'s keys: they
now leave it alone, as `list.move`, `current` and `currentNode` do. Two parts of VerdictsAgree held
on the instances TLC checks and not for all constants. `GroupsAgreeWithTheGate` spoke of models that
`thresholds.models` leaves out, for which a red group breaks no threshold, and of results whose
entry did not execute, which the dashboard shows from an earlier run and the rollups leave out;
`GreenBoardPassesTheGate` of thresholds for retired models (section 5). `FreshMeansCurrent` and
`VerdictsAgree` once held because contents never came back and because no result on disk was of a
removed case; with both in the models they are stated with `torn` and `NoneRemoved`. `CatalogAssumption`,
`StartsAssumption` and `PageStepAssumption` say what the proofs about `App` use of a catalog
(models, harnesses and the built-in ones come in an order), the flags (filters have names) and a
page (a page is `max(.., 1)` rows in the code).

## 7. Not modelled

* The web viewer: planned (section 2). Two evolve processes on one skill, a removal of the
  other format's file that fails (`internal/results/results.go:421`), progress events of
  remote units.
* Parsing, encoding, discovery, rendering, the model registry, telemetry and token counting
  have no state a property could be about, or only estimates that no verdict and no selection
  depends on. Assertion kinds are pure evaluators; `EvalPool` takes a grading's outcome.
* The commands besides `run` and `report`: straight-line input and output around
  libraries.
* Argument building and output parsing of each agent CLI: per-vendor text formats.
