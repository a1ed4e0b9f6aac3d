------------------------------- MODULE Dashboard -------------------------------
(***************************************************************************)
(* The live dashboard (internal/tui/dashboard*.go, delta.go): its rows,    *)
(* what an engine event and a key or mouse input do to it, and the         *)
(* verdicts it shows.  A dashboard is a record and every operator returns  *)
(* the next one; module App holds the state.                               *)
(*                                                                         *)
(* A row <<m, c>> stands for a caseState and its execLog item.  Window     *)
(* heights and scroll offsets are left out: a page is PageStep rows, and a *)
(* click can hit any row of the list or tree it lands in.                  *)
(***************************************************************************)
EXTENDS Report

CONSTANT PageStep \* how many rows a page key moves

ASSUME PageStepAssumption == PageStep \in Nat \ {0}

Panes == <<"exec", "rollup", "runs", "details">>
Settled == {"pass", "fail", "error", "skipped", "count"}
Statuses == Settled \cup {"pending", "running", "nodata"}
NoLive == 0
NoRule == "rule"

\* The elements of s, each once, where it first occurs.
Uniq(s) ==
    LET first == Only([i \in DOMAIN s |-> i],
                      {i \in DOMAIN s : \A j \in 1 .. i - 1 : s[j] # s[i]})
    IN  [n \in DOMAIN first |-> s[first[n]]]
Clamp(i, lo, hi) == IF i < lo THEN lo ELSE IF i > hi THEN hi ELSE i

UnitRows(u) == [i \in DOMAIN u.cases |-> <<u.model, u.cases[i]>>]
RowsOf(units) == FlattenSeq([i \in DOMAIN units |-> UnitRows(units[i])])
Index(d, row) == CHOOSE i \in DOMAIN d.log : d.log[i] = row
Selected(d) == d.log[d.sel]

\* newDashboard, caseFromPlan and buildExecLog: every applicable case has a
\* row, in plan order.  A queued row shows its prior result until it runs.
NewDashboard(plan, stored) ==
    LET log == RowsOf(plan.units)
        status(row) == IF stored[row] \in Verdicts THEN stored[row]
                       ELSE IF row \in plan.queued THEN "pending" ELSE "nodata"
    IN  [units |-> plan.units, log |-> log, queued |-> plan.queued,
         status |-> [row \in ToSet(log) |-> status(row)],
         base |-> {}, live |-> {}, inflight |-> <<>>, liveIdx |-> NoLive,
         sel |-> 1, follow |-> TRUE, focus |-> "runs", cur |-> 1, open |-> {},
         done |-> FALSE, failed |-> FALSE, confirm |-> FALSE]

Active(d, row) == d.status[row] = "running" \/ row \in d.base
QueuedPending(d, row) == row \in d.queued \ d.live /\ ~Active(d, row)

-----------------------------------------------------------------------------
(* The Execution tree: plugin, skill and model groups over the rows.       *)

PluginKey(u) == <<"plugin", u.plugin>>
SkillKey(u) == <<"skill", u.skill>>
ModelKey(u) == <<"model", u.skill, u.model>>
KeysOf(u) == <<PluginKey(u), SkillKey(u), ModelKey(u)>>
IsCase(n) == n[1] = "case"
IsRule(n) == n[1] = NoRule
CaseNode(row) == <<"case", row[1], row[2]>>

OfTier(rows, t) == {row \in rows : TierOf(row[2]) = t}
UnitsUnder(units, k) == Only(units, {u \in ToSet(units) : k \in ToSet(KeysOf(u))})
GroupRows(d, k) == RowsOf(UnitsUnder(d.units, k))
UnitOf(d, row) ==
    LET i == CHOOSE j \in DOMAIN d.units : row \in ToSet(UnitRows(d.units[j]))
    IN  d.units[i]

\* groupState.
Started(d, rows) == \E row \in rows : Active(d, row) \/ d.status[row] \in Settled
Done(d, rows) ==
    /\ Started(d, rows)
    /\ \A row \in rows : ~Active(d, row) /\ ~QueuedPending(d, row)

\* newDashboard: the groups of a level (plugin, skill, model), of some units.
Groups(units, level) == Uniq([i \in DOMAIN units |-> KeysOf(units[i])[level]])

\* buildNodeRefsWith: one ruler between a model's triggers and its evals.
TierNodes(units, k, t) ==
    LET rows == RowsOf(UnitsUnder(units, k))
        own == Only(rows, OfTier(ToSet(rows), t))
    IN  [i \in DOMAIN own |-> CaseNode(own[i])]
CaseNodes(units, k) ==
    LET ts == TierNodes(units, k, "triggers")
        es == TierNodes(units, k, "evals")
    IN  IF ts = <<>> \/ es = <<>> THEN ts \o es
        ELSE ts \o <<<<NoRule, k[2], k[3]>>>> \o es
ModelNodes(units, open, k) ==
    IF k \in open THEN <<k>> \o CaseNodes(units, k) ELSE <<k>>
SkillNodes(units, open, k) ==
    LET ms == Groups(UnitsUnder(units, k), 3)
        below == FlattenSeq([i \in DOMAIN ms |-> ModelNodes(units, open, ms[i])])
    IN  IF k \in open THEN <<k>> \o below ELSE <<k>>
PluginNodes(units, open, k) ==
    LET ss == Groups(UnitsUnder(units, k), 2)
        below == FlattenSeq([i \in DOMAIN ss |-> SkillNodes(units, open, ss[i])])
    IN  IF k \in open THEN <<k>> \o below ELSE <<k>>
Tree(units, open) ==
    LET ps == Groups(units, 1)
    IN  FlattenSeq([i \in DOMAIN ps |-> PluginNodes(units, open, ps[i])])
Nodes(d, open) == Tree(d.units, open)

\* followExpanded: what is open while the pane is not focused.
FollowOpen(d) ==
    {k \in UNION {ToSet(KeysOf(u)) : u \in ToSet(d.units)} :
        LET rows == ToSet(GroupRows(d, k))
        IN  \/ Started(d, rows) /\ ~Done(d, rows)
            \/ ~d.follow /\ Selected(d) \in rows}

Browsing(d) == d.focus = "exec"
OpenShown(d) == IF Browsing(d) THEN d.open ELSE FollowOpen(d)
NodeIndex(d, open, n) == SelectInSeq(Nodes(d, open), LAMBDA x : x = n)

\* skipRule(-1) and clampExecCursor.  Row 1 is never a ruler.
OffRule(nodes, i) ==
    LET j == Clamp(i, 1, Len(nodes)) IN IF IsRule(nodes[j]) THEN j - 1 ELSE j
Reopen(d, open) == [d EXCEPT !.open = open, !.cur = OffRule(Nodes(d, open), @)]

\* syncExecToSel: opens the path to the selection and moves the cursor there.
PathTo(d, row) == ToSet(KeysOf(UnitOf(d, row)))
SyncExecToSel(d, open) ==
    LET path == open \cup PathTo(d, Selected(d))
    IN  [d EXCEPT !.open = path, !.cur = NodeIndex(d, path, CaseNode(Selected(d)))]

Cursor(d) == Nodes(d, d.open)[d.cur]

\* selectKey, once the groups in open are.
SelectNode(d, open, n) ==
    LET i == NodeIndex(d, open, n)
    IN  IF i = 0 THEN Reopen(d, open) ELSE [d EXCEPT !.open = open, !.cur = i]

-----------------------------------------------------------------------------
(* The shared selection and the pane that has the focus.                   *)

OnLive(d) ==
    IF d.follow /\ d.liveIdx # NoLive THEN [d EXCEPT !.sel = d.liveIdx] ELSE d
ResumeFollow(d) ==
    IF d.follow /\ Browsing(d) THEN SyncExecToSel(OnLive(d), d.open) ELSE OnLive(d)

\* Mutant: a started case takes the selection whatever pane is focused.
FollowAdvanceAlways(d) == ResumeFollow(d)

FollowAdvance(d) == IF d.focus # "details" THEN ResumeFollow(d) ELSE d

\* The [f] key.
Follow(d) == ResumeFollow([d EXCEPT !.follow = TRUE])

\* setFocus with exitBrowse and enterBrowse.
SetFocus(d, p) ==
    LET left == IF d.focus = "details" /\ p # "details" THEN OnLive(d) ELSE d
    IN  IF p = d.focus THEN left
        ELSE IF p = "exec"
             THEN SyncExecToSel([left EXCEPT !.focus = p], FollowOpen(left))
             ELSE [left EXCEPT !.focus = p, !.cur = 1, !.open = {}]

\* moveRun, runTop and runBottom.
SelectRun(d, i) == [d EXCEPT !.sel = i, !.follow = (i = d.liveIdx)]

\* Mutant: a page key past the end is not clamped.
MoveRunPastEnd(d, delta) == SelectRun(d, IF d.sel + delta < 1 THEN 1 ELSE d.sel + delta)

MoveRun(d, delta) == SelectRun(d, Clamp(d.sel + delta, 1, Len(d.log)))
SelectCase(d, n) == SelectRun(d, Index(d, <<n[2], n[3]>>))

\* syncSelFromExec: a case n under the cursor becomes the selection.
SyncSelFromExec(d, n) == IF IsCase(n) THEN SelectCase(d, n) ELSE d

\* moveExec: over the rows that are no ruler, one step at a time.
MoveExec(d, nodes, delta) ==
    LET stops == Only([i \in DOMAIN nodes |-> i], {i \in DOMAIN nodes : ~IsRule(nodes[i])})
        at == SelectInSeq(stops, LAMBDA i : i = d.cur)
    IN  [d EXCEPT !.cur = stops[Clamp(at + delta, 1, Len(stops))]]

\* openCaseInDetails.
OpenDetails(d, n) ==
    LET row == <<n[2], n[3]>>
    IN  IF d.status[row] = "pending" THEN d
        ELSE [SetFocus(d, "details") EXCEPT !.sel = Index(d, row), !.follow = FALSE]

\* execActivate: enter or space on the cursor's row n.
Activate(d, n) ==
    IF IsCase(n) THEN OpenDetails(d, n)
    ELSE Reopen(d, IF n \in d.open THEN d.open \ {n} ELSE d.open \cup {n})

\* execExpandCurrent: right, or left.
Expand(d, n) == IF IsCase(n) THEN d ELSE [d EXCEPT !.open = @ \cup {n}]
Collapse(d, n) ==
    LET m == ModelKey(UnitOf(d, <<n[2], n[3]>>))
    IN  IF IsCase(n) THEN SelectNode(d, d.open \ {m}, m) ELSE Reopen(d, d.open \ {n})

\* execClick on row n of the tree as it was rendered, the pane focused.
ClickNode(d, n, collapsed) ==
    LET i == NodeIndex(d, d.open, n)
    IN  CASE IsRule(n) -> d
          [] IsCase(n) -> IF i = 0 THEN d
                          ELSE SelectCase([d EXCEPT !.cur = i], n)
          [] OTHER ->
               SelectNode(d, IF collapsed THEN d.open \cup {n} ELSE d.open \ {n}, n)

-----------------------------------------------------------------------------
(* One input of the user, as the dashboards it can lead to.                *)

Steps == {-PageStep, -1, 1, PageStep}

RunsKeys(d) ==
    {MoveRun(d, n) : n \in Steps} \cup {SelectRun(d, 1), SelectRun(d, Len(d.log))}
    \cup {SetFocus(d, "details")}

\* The keys of the tree; nodes are its rows.
ExecKeys(d, nodes) ==
    LET n == nodes[d.cur]
        moves == {MoveExec(d, nodes, k) : k \in Steps}
                 \cup {[d EXCEPT !.cur = i] : i \in {1, OffRule(nodes, Len(nodes))}}
                 \cup {Expand(d, n), Collapse(d, n)}
    IN  {SyncSelFromExec(e, Cursor(e)) : e \in moves} \cup {Activate(d, n)}

\* runsClick and execClick: the pane gets the focus first.
ClickRun(d, i) == IF i = d.sel THEN d ELSE SelectRun(d, i)
Clicks(d) ==
    {ClickRun(e, i) : e \in {SetFocus(d, "runs")}, i \in DOMAIN d.log}
    \cup {ClickNode(e, n, n \notin OpenShown(d)) :
             e \in {SetFocus(d, "exec")}, n \in ToSet(Nodes(d, OpenShown(d)))}

Wheel(d, nodes) ==
    {MoveRun(d, n) : n \in {-1, 1}}
    \cup {SyncSelFromExec(e, Cursor(e)) :
             e \in {MoveExec(d, nodes, n) : n \in IF Browsing(d) THEN {-1, 1} ELSE {}}}

\* handleKey and handleMouse, but for the keys of the quit dialog.
PaneInputs(d) ==
    {SetFocus(d, p) : p \in ToSet(Panes)} \cup {Follow(d)} \cup Clicks(d)
    \cup (IF d.focus = "runs" THEN RunsKeys(d) ELSE {})
TreeInputs(d, nodes) ==
    Wheel(d, nodes) \cup (IF Browsing(d) THEN ExecKeys(d, nodes) ELSE {})

-----------------------------------------------------------------------------
(* The engine's events: dashboardModel.apply.                              *)

\* Mutant: a baseline's entry stays when the case itself starts.
StartCaseAgain(d, row, baseline) ==
    FollowAdvance([d EXCEPT
        !.status[row] = "running",
        !.base = IF baseline THEN @ \cup {row} ELSE @ \ {row},
        !.inflight = Append(@, row),
        !.liveIdx = Index(d, row)])

\* startCase, for a baseline and for the run under test.
StartCase(d, row, baseline) ==
    FollowAdvance([d EXCEPT
        !.status[row] = "running",
        !.base = IF baseline THEN @ \cup {row} ELSE @ \ {row},
        !.inflight = Append(RemoveFirst(@, row), row),
        !.liveIdx = Index(d, row)])

ItemDone(d, row, v) ==
    [d EXCEPT !.status[row] = v, !.base = @ \ {row}, !.live = @ \cup {row},
              !.inflight = RemoveFirst(@, row)]

\* unitFinished of a unit that only counted tokens: settlePending, over all
\* the unit's queued rows.  Other unit events change no row.
UnitCounted(d, row1) ==
    LET rows == (ToSet(UnitRows(UnitOf(d, row1))) \cap d.queued) \ d.live
    IN  [d EXCEPT !.live = @ \cup rows,
                  !.status = [row \in DOMAIN @ |->
                      IF row \in rows /\ @[row] = "pending" THEN "count" ELSE @[row]]]

RunDone(d, failed) == [d EXCEPT !.done = TRUE, !.failed = failed]

-----------------------------------------------------------------------------
(* The verdicts it shows.                                                  *)

With(d, rows, st) == {row \in rows : d.status[row] = st}

\* Mutant: a tier exactly at its threshold misses it.
TierStatusStrict(pass, fail, min) ==
    IF fail = 0 THEN "pass"
    ELSE IF 100 * pass > min * (pass + fail) THEN "threshold" ELSE "fail"

TierStatus(pass, fail, min) ==
    IF fail = 0 THEN "pass"
    ELSE IF 100 * pass >= min * (pass + fail) THEN "threshold" ELSE "fail"

\* caseAggStatus: an error wins, else the worst tier decides.
AggStatus(d, rows) ==
    LET of(t) == TierStatus(Cardinality(With(d, OfTier(rows, t), "pass")),
                            Cardinality(With(d, OfTier(rows, t), "fail")), MinRate[t])
        tiers == {of(t) : t \in ToSet(Tiers)}
    IN  IF With(d, rows, "error") # {} THEN "error"
        ELSE IF "fail" \in tiers THEN "fail"
        ELSE IF "threshold" \in tiers THEN "threshold"
        ELSE IF With(d, rows, "pass") # {} THEN "pass"
        ELSE IF With(d, rows, "count") # {} THEN "count" ELSE "skipped"

\* aggStatus.
GroupStatus(d, rows) ==
    IF \E row \in rows : Active(d, row) THEN "running"
    ELSE IF Done(d, rows) THEN AggStatus(d, rows) ELSE "pending"

\* overallProgress.
Progress(d) ==
    LET settled == {row \in d.queued : row \in d.live /\ d.status[row] # "running"}
    IN  [ok |-> Cardinality({row \in settled : d.status[row] \in {"pass", "skipped", "count"}}),
         bad |-> Cardinality({row \in settled : d.status[row] \in {"fail", "error"}}),
         running |-> Cardinality(With(d, d.queued, "running")),
         total |-> Cardinality(d.queued)]

\* evalCasePrior, TriggerPrevious: the result a row is compared with, the
\* stored one or else the baseline that ran this session.
Basis(stored, based, row) ==
    IF stored[row] # "absent" THEN stored[row]
    ELSE IF row \in DOMAIN based THEN based[row] ELSE "absent"

\* aggregateGroup, delta and filterByDelta: the sign of a finished eval
\* unit's change in pass rate.
Improved(d, stored, based, rows) ==
    LET ended == {row \in rows : d.status[row] \in Settled}
        passed == With(d, ended, "pass")
        judged == {row \in ended : Basis(stored, based, row) \in {"pass", "fail"}}
        before == {row \in judged : Basis(stored, based, row) = "pass"}
    IN  /\ Done(d, rows) /\ judged # {}
        /\ Cardinality(passed) * Cardinality(judged)
             > Cardinality(before) * Cardinality(ended)
=============================================================================
