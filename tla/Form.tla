---------------------------------- MODULE Form ----------------------------------
(***************************************************************************)
(* The selection form (internal/tui/form.go, list.go, tree.go): its panes, *)
(* cursors and folds, and what one key, click or turn of the wheel does to *)
(* them and to the session.  A form is a record and every operator returns *)
(* the next one; module App holds the state.  Window heights are left out: *)
(* a click can hit any row of a list or any visible row of the tree.       *)
(***************************************************************************)
EXTENDS Selection, Integers

Providers == {ProviderOf[m] : m \in Models}
FormPanes == <<"filters", "harness", "models", "tree", "buttons">>
Lists == {"filters", "harness", "models"}

\* newForm: the models list has a header row at each provider boundary.
Header(p) == <<"provider", p>>
ModelItems ==
    LET first(i) == i = 1 \/ ProviderOf[ModelOrder[i]] # ProviderOf[ModelOrder[i - 1]]
    IN  FlattenSeq([i \in DOMAIN ModelOrder |->
            IF first(i) THEN <<Header(ProviderOf[ModelOrder[i]]), <<"model", ModelOrder[i]>>>>
                        ELSE <<<<"model", ModelOrder[i]>>>>])
FilterItems == <<"new", "modified", "failed">>
LengthOf == [filters |-> Len(FilterItems), harness |-> Len(HarnessOrder),
             models |-> Len(ModelItems)]

-----------------------------------------------------------------------------
(* The tree of plugins, skills and cases.                                  *)

PluginRow(p) == <<"plugin", p>>
SkillRow(sc) == <<"skill", sc.skill>>
CaseRow(c) == <<"leaf", c>>
IsLeaf(n) == n[1] = "leaf"
SkillEntry(n) == CHOOSE sc \in ToSet(Catalog) : SkillRow(sc) = n

\* buildCaseTree: a skill without cases (its specs may not parse) is left out;
\* the first of a plugin has the plugin's row before it.
Listed == Only(Catalog, {sc \in ToSet(Catalog) : CasesOf(sc) # <<>>})
Branch(i) ==
    LET sc == Listed[i]
        first == \A j \in 1 .. i - 1 : Listed[j].plugin # sc.plugin
    IN  (IF first THEN <<PluginRow(sc.plugin)>> ELSE <<>>) \o <<SkillRow(sc)>>
            \o [j \in DOMAIN CasesOf(sc) |-> CaseRow(CasesOf(sc)[j])]
TreeSeq == FlattenSeq([i \in DOMAIN Listed |-> Branch(i)])
Parents == {n \in ToSet(TreeSeq) : ~IsLeaf(n)}

\* caseLeaves, parent and depth.
Leaves == [n \in ToSet(TreeSeq) |->
    CASE n[1] = "plugin" -> {c \in AllCases : PluginRow(EntryOf(c).plugin) = n}
      [] n[1] = "skill" -> ToSet(CasesOf(SkillEntry(n)))
      [] OTHER -> {n[2]}]
ParentOf(n) == IF IsLeaf(n) THEN SkillRow(EntryOf(n[2])) ELSE PluginRow(SkillEntry(n).plugin)
Ancestors == [n \in ToSet(TreeSeq) |->
    CASE n[1] = "plugin" -> {}
      [] n[1] = "skill" -> {ParentOf(n)}
      [] OTHER -> {ParentOf(n), ParentOf(ParentOf(n))}]
Depth(n) == Cardinality(Ancestors[n])

Visible(open) == Only(TreeSeq, {n \in ToSet(TreeSeq) : Ancestors[n] \subseteq open})

-----------------------------------------------------------------------------
(* What a toggle does to the session.                                      *)

Flip(x, S) == IF x \in S THEN S \ {x} ELSE S \cup {x}

ToggleFilter(s, f) == [s EXCEPT !.filters = Flip(f, @)]

\* A harness without its CLI cannot be toggled.
ToggleHarness(s, h) ==
    IF h \in Installed THEN [s EXCEPT !.harnesses = Flip(h, @)] ELSE s

\* Nor can a model none of the enabled harnesses drives; one that is merely
\* not offered can.
ToggleModel(s, m) == IF Runnable(s, m) THEN [s EXCEPT !.models = Flip(m, @)] ELSE s

\* A header row: all runnable models of a vendor, or none when all are on.
ToggleProvider(s, p) ==
    LET group == {m \in Models : ProviderOf[m] = p /\ Runnable(s, m)}
    IN  [s EXCEPT !.models =
            IF group \subseteq s.models THEN @ \ group ELSE @ \cup group]

SetCases(s, refs, st) ==
    [s EXCEPT !.cases = [c \in AllCases |-> IF c \in refs THEN st ELSE @[c]]]

\* cycleNode: auto, off, on, and auto again if that would run something.
CycleNode(s, r, refs) ==
    LET sel == NodeSel(s, r, refs)
    IN  SetCases(s, refs,
            CASE sel = "forceOff" -> "on"
              [] sel = "forceOn" /\ AutoAvailable(s, r, refs) -> "auto"
              [] OTHER -> "off")

-----------------------------------------------------------------------------
(* The form: the focused pane and button, the cursors of the lists, the    *)
(* unfolded nodes and the cursor among the visible ones.                   *)

\* newForm: the branches with a preselected case are open.
NewForm(k, r) ==
    LET s == NewSession(k)
        shown(c) == NodeSel(s, r, {c}) \in {"forceOn", "all", "some"}
    IN  [session |-> s, focus |-> "filters", button |-> "cancel",
         at |-> [l \in Lists |-> 1], cur |-> 1,
         open |-> {n \in Parents : \E c \in Leaves[n] : shown(c)}]

Within(i, n) == IF i < 1 THEN 1 ELSE IF i > n THEN n ELSE i
RowsShown(f) == Visible(f.open)
NodeAt(f) == RowsShown(f)[Within(f.cur, Len(RowsShown(f)))]

\* tree.selectNode.
GoTo(f, n) == [f EXCEPT !.cur = SelectInSeq(RowsShown(f), LAMBDA x : x = n)]

\* tree.expand: right unfolds; left folds, or goes to the parent.
FoldNode(f, n, unfold) ==
    IF IsLeaf(n) \/ (n \in f.open) = unfold
    THEN IF unfold \/ Depth(n) = 0 THEN f ELSE GoTo(f, ParentOf(n))
    ELSE [f EXCEPT !.open = Flip(n, @)]

\* tree.expandLevel and collapseLevel, the latter clamping the cursor.
ExpandLevel(f) ==
    LET closed == {n \in ToSet(RowsShown(f)) : ~IsLeaf(n) /\ n \notin f.open}
    IN  [f EXCEPT !.open = @ \cup {n \in closed : \A x \in closed : Depth(n) <= Depth(x)}]

CollapseLevel(f) ==
    LET opened == ToSet(RowsShown(f)) \cap f.open
        g == [f EXCEPT !.open = @ \ {n \in opened : \A x \in opened : Depth(n) >= Depth(x)}]
    IN  IF opened = {} THEN f ELSE [g EXCEPT !.cur = Within(@, Len(RowsShown(g)))]

\* moveIn: a pane's cursor, focused or not; an empty list leaves it alone.
MoveIn(f, pane, delta) ==
    CASE pane \in Lists /\ LengthOf[pane] > 0 ->
            [f EXCEPT !.at[pane] = Within(@ + delta, LengthOf[pane])]
      [] pane = "tree" /\ RowsShown(f) # <<>> ->
             [f EXCEPT !.cur = Within(@ + delta, Len(RowsShown(f)))]
      [] OTHER -> f

\* toEnd.
ToEnd(f, start) ==
    LET last(l) == IF LengthOf[l] = 0 THEN 1 ELSE LengthOf[l]
    IN  CASE f.focus \in Lists ->
                [f EXCEPT !.at[f.focus] = IF start THEN 1 ELSE last(f.focus)]
          [] f.focus = "tree" -> [f EXCEPT !.cur = IF start THEN 1 ELSE Len(RowsShown(f))]
          [] OTHER -> f

\* cycleFocus: the buttons start on RUN.
CycleFocus(f, delta) ==
    LET n == Len(FormPanes)
        i == SelectInSeq(FormPanes, LAMBDA p : p = f.focus) - 1
        pane == FormPanes[((i + delta + n) % n) + 1]
    IN  [f EXCEPT !.focus = pane, !.button = IF pane = "buttons" THEN "run" ELSE @]

\* horizontal: folds in the tree, and picks one of the two buttons.
Horizontal(f, right) ==
    CASE f.focus = "tree" /\ RowsShown(f) # <<>> -> FoldNode(f, NodeAt(f), right)
      [] f.focus = "buttons" -> [f EXCEPT !.button = IF right THEN "run" ELSE "cancel"]
      [] OTHER -> f

\* toggle: space on the row under the cursor of the focused pane, if it has one.
ToggleItem(s, item) ==
    IF item[1] = "provider" THEN ToggleProvider(s, item[2]) ELSE ToggleModel(s, item[2])
Toggle(f, r) ==
    LET s == f.session
    IN  CASE f.focus = "filters" -> [f EXCEPT !.session = ToggleFilter(s, FilterItems[f.at.filters])]
          [] f.focus = "harness" /\ HarnessOrder # <<>> ->
                [f EXCEPT !.session = ToggleHarness(s, HarnessOrder[f.at.harness])]
          [] f.focus = "models" /\ ModelItems # <<>> ->
                [f EXCEPT !.session = ToggleItem(s, ModelItems[f.at.models])]
          [] f.focus = "tree" /\ RowsShown(f) # <<>> ->
                [f EXCEPT !.session = CycleNode(s, r, Leaves[NodeAt(f)])]
          [] OTHER -> f

\* clickList: the row gets the cursor and is toggled.
ClickList(f, r, pane, i) == Toggle([f EXCEPT !.focus = pane, !.at[pane] = i], r)

\* clickTree: a parent folds; only a repeated click on a leaf toggles it.
ClickTree(f, r, i) ==
    LET n == RowsShown(f)[i]
        g == [f EXCEPT !.focus = "tree", !.cur = i]
    IN  CASE ~IsLeaf(n) -> [g EXCEPT !.open = Flip(n, @)]
          [] IsLeaf(n) /\ f.focus = "tree" /\ f.cur = i -> Toggle(g, r)
          [] OTHER -> g

\* update and handleMouse: what one input leads to, but for running and
\* cancelling.  A click on RUN while nothing is queued only takes the focus.
Keys(f, r) ==
    {CycleFocus(f, d) : d \in {-1, 1}} \cup {MoveIn(f, f.focus, d) : d \in {-1, 1}}
    \cup {[f EXCEPT !.focus = p] : p \in ToSet(FormPanes) \ {"buttons"}}
    \cup {Horizontal(f, right) : right \in BOOLEAN}
    \cup {ToEnd(f, start) : start \in BOOLEAN} \cup {Toggle(f, r)}
    \cup (IF f.focus = "tree" THEN {ExpandLevel(f), CollapseLevel(f)} ELSE {})
Mouse(f, r) ==
    (UNION {{ClickList(f, r, l, i) : i \in 1 .. LengthOf[l]} : l \in Lists})
    \cup {ClickTree(f, r, i) : i \in DOMAIN RowsShown(f)}
    \cup {MoveIn(f, p, d) : p \in ToSet(FormPanes), d \in {-1, 1}}
    \cup (IF AnyQueued(f.session, r) THEN {}
          ELSE {[f EXCEPT !.focus = "buttons", !.button = "run"]})
=============================================================================
