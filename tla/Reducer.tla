------------------------------- MODULE Reducer -------------------------------
(***************************************************************************)
(* What one run of a hosted conversation leaves behind                     *)
(* (internal/agui/reduce.go): its validated events are folded into the     *)
(* thread's messages, the tool calls with their results, and the shared    *)
(* state.  A text is abstracted to its length, the state to the number of  *)
(* the value last set.  text and args are the builders of the messages and *)
(* calls being streamed; Materialize writes them into the thread.          *)
(***************************************************************************)
EXTENDS Validator

CONSTANT Declared \* the tools the eval declares: calls to them are the client's

ClientIds == 100 \* message ids above it are made up by the client

EmptyThread == [history |-> <<>>, calls |-> <<>>, text |-> <<>>, args |-> <<>>,
                texts |-> <<>>, state |-> 0, fresh |-> ClientIds]

Message(id, role, tool) ==
    [id |-> id, role |-> role, len |-> 0, calls |-> <<>>, tool |-> tool]

\* The last index of a message, the index of a call; 0 for none.
Find(history, id) == SelectLastInSeq(history, LAMBDA m : m.id = id)
CallAt(c, id) == SelectInSeq(c.calls, LAMBDA tc : tc.id = id)

Frontend(tc) == tc.name \in Declared

\* A client-authored message: returned together with the thread it joins.
AddMessage(c, role, tool) ==
    [c EXCEPT !.history = Append(@, Message(c.fresh + 1, role, tool)), !.fresh = @ + 1]

Materialize(c) ==
    LET Text(m) == IF m.id \in DOMAIN c.text /\ Find(c.history, m.id) # 0
                   THEN [m EXCEPT !.len = c.text[m.id]] ELSE m
        Args(tc) == IF tc.id \in DOMAIN c.args
                    THEN [tc EXCEPT !.args = c.args[tc.id]] ELSE tc
    IN  [c EXCEPT !.history = [i \in DOMAIN @ |->
                                  IF i = Find(@, @[i].id) THEN Text(@[i]) ELSE @[i]],
                  !.calls = [i \in DOMAIN @ |-> Args(@[i])],
                  !.texts = [id \in DOMAIN c.text \cup DOMAIN @ |->
                                IF id \in DOMAIN c.text THEN c.text[id] ELSE @[id]],
                  !.text = <<>>, !.args = <<>>]

-----------------------------------------------------------------------------
(* Reducing: r is the thread, what it knows of this run, and the items     *)
(* produced so far as <<kind, id>> references.                             *)

Ref(r, kind, id) ==
    IF <<kind, id>> \in ToSet(r.refs) THEN r
    ELSE [r EXCEPT !.refs = Append(@, <<kind, id>>)]

\* A builder starts with what its message or call holds, unless it is open.
WithBuilder(builders, id, base) ==
    [key \in DOMAIN builders \cup {id} |->
        IF key \in DOMAIN builders THEN builders[key] ELSE base]

\* Start or reopen a streamed message.
OpenMessage(r, id, role, kind) ==
    LET c == r.c
        i == Find(c.history, id)
        base == IF i = 0 THEN 0 ELSE c.history[i].len
    IN  Ref([r EXCEPT
             !.c.history = IF i = 0 THEN Append(@, Message(id, role, 0)) ELSE @,
             !.c.text = WithBuilder(@, id, base),
             !.opened = @ \cup {id},
             !.roles = @ @@ (id :> role)], kind, id)

WriteText(r, e, role) ==
    LET open == IF e.id \in DOMAIN r.c.text THEN r
                ELSE OpenMessage(r, e.id, role, e.kind)
    IN  [open EXCEPT !.c.text[e.id] = @ + e.delta]

\* The thread with a message that a call can hang on, and its index: the named
\* parent, else the assistant message being streamed, else a new one.
WithParent(r, parent) ==
    LET h == r.c.history
        named == Find(h, parent)
        last == Len(h)
        id == IF parent # 0 /\ named = 0 THEN parent ELSE r.c.fresh + 1
    IN  CASE parent # 0 /\ named # 0 /\ h[named].role = "assistant" ->
                [r |-> r, at |-> named]
          [] parent = 0 /\ last > 0 /\ h[last].role = "assistant"
                        /\ h[last].id \in r.opened -> [r |-> r, at |-> last]
          [] OTHER ->
                [r  |-> [r EXCEPT
                         !.c.history = Append(@, Message(id, "assistant", 0)),
                         !.c.fresh = IF id > ClientIds THEN id ELSE @,
                         !.opened = @ \cup {id},
                         !.roles = (id :> "assistant") @@ @],
                 at |-> last + 1]

NewCall(run, id, name, args) ==
    [run |-> run, id |-> id, name |-> name, args |-> args, result |-> "none"]

OpenCall(r, id, name, parent) ==
    LET at == CallAt(r.c, id)
        base == IF at = 0 THEN 0 ELSE r.c.calls[at].args
        host == WithParent(r, parent)
        known == IF at # 0 THEN r
                 ELSE [host.r EXCEPT
                       !.c.calls = Append(@, NewCall(r.run, id, name, 0)),
                       !.c.history[host.at].calls = Append(@, id)]
    IN  Ref([known EXCEPT !.c.args = WithBuilder(@, id, base)], "call", id)

WriteArgs(r, e) ==
    LET open == IF e.id \in DOMAIN r.c.args THEN r ELSE OpenCall(r, e.id, "none", 0)
    IN  [open EXCEPT !.c.args[e.id] = @ + e.delta]

SetResult(r, id) ==
    LET at == CallAt(r.c, id)
    IN  IF at = 0 THEN r ELSE [r EXCEPT !.c.calls[at].result = "agent"]

\* A backend tool's result: a tool message, and the result of its call.
ToolResult(r, e) ==
    LET i == Find(r.c.history, e.message)
        msg == Message(e.message, "tool", e.id)
        kept == [r EXCEPT !.c.history = IF i = 0 THEN Append(@, msg)
                                        ELSE [@ EXCEPT ![i] = msg]]
    IN  Ref(SetResult(kept, e.id), "result", e.id)

\* What a message known only through a snapshot adds to the run: its item and its
\* calls, or the result it stands for.
LearnCall(r, id, m) ==
    Ref(IF CallAt(r.c, id) # 0 THEN r
        ELSE [r EXCEPT !.c.calls = Append(@, NewCall(r.run, id, m.name, m.len))],
        "call", id)
LearnCalls(r, m) == FoldLeft(LAMBDA q, id : LearnCall(q, id, m), r, m.calls)

Learn(r, m) ==
    LET kind == IF m.role = "reasoning" THEN "reasoning" ELSE "message"
        told == [r EXCEPT !.c.texts = (m.id :> m.len) @@ @,
                          !.roles = @ @@ (m.id :> m.role)]
        at == CallAt(r.c, m.tool)
    IN  CASE m.id \in r.before -> r
          [] m.id \notin r.before /\ m.role \in {"assistant", "reasoning"} ->
                LearnCalls(IF m.len > 0 THEN Ref(told, kind, m.id) ELSE told, m)
          [] m.id \notin r.before /\ m.role = "tool" ->
                IF at # 0 /\ r.c.calls[at].result = "none"
                THEN Ref(SetResult(r, m.tool), "result", m.tool) ELSE r
          [] OTHER -> r

\* MESSAGES_SNAPSHOT replaces the thread, activity messages left out (nothing is
\* learnt from them).
Keep(history, m) ==
    IF m.role = "activity" THEN history
    ELSE Append(history, [id |-> m.id, role |-> m.role, len |-> m.len,
                          calls |-> m.calls, tool |-> m.tool])

Snapshot(r, msgs) ==
    LET replaced == [Materialize(r.c) EXCEPT !.history = FoldLeft(Keep, <<>>, msgs)]
    IN  FoldLeft(Learn, [r EXCEPT !.c = replaced], msgs)

Apply(r, e) ==
    CASE e.type = "START" /\ e.kind = "message" ->
            OpenMessage(r, e.id, IF e.name = "none" THEN "assistant" ELSE e.name, "message")
      [] e.type = "START" /\ e.kind = "reasoning" ->
            OpenMessage(r, e.id, "reasoning", "reasoning")
      [] e.type = "START" /\ e.kind = "call" -> OpenCall(r, e.id, e.name, e.parent)
      [] e.type = "CONTENT" /\ e.kind = "message" -> WriteText(r, e, "assistant")
      [] e.type = "CONTENT" /\ e.kind = "reasoning" -> WriteText(r, e, "reasoning")
      [] e.type = "CONTENT" /\ e.kind = "call" -> WriteArgs(r, e)
      [] e.type = "TOOL_CALL_RESULT" -> ToolResult(r, e)
      [] e.type = "STATE_SNAPSHOT" -> [r EXCEPT !.c.state = e.id]
      [] e.type = "STATE_DELTA" -> \* id 0: the patch does not apply
            IF e.id = 0 THEN [r EXCEPT !.unpatched = TRUE]
            ELSE [r EXCEPT !.c.state = e.id]
      [] e.type = "MESSAGES_SNAPSHOT" -> Snapshot(r, e.messages)
      [] OTHER -> r

\* The items of the run, resolved to their final content.
Items(r) ==
    LET Item(ref) ==
            LET at == CallAt(r.c, ref[2])
            IN  [kind |-> ref[1], id |-> ref[2],
                 role |-> IF ref[1] \in {"message", "reasoning"} THEN r.roles[ref[2]] ELSE "none",
                 len |-> CASE ref[1] \in {"message", "reasoning"} -> r.c.texts[ref[2]]
                           [] ref[1] = "call" -> r.c.calls[at].args
                           [] OTHER -> 0]
    IN  [i \in DOMAIN r.refs |-> Item(r.refs[i])]

\* The thread after a run's events, the run's items, and whether a state patch
\* failed.
Reduced(r) == [thread |-> r.c, items |-> Items(r), unpatched |-> r.unpatched]

ReduceRun(c, run, events) ==
    LET r0 == [c |-> c, run |-> run, before |-> {c.history[i].id : i \in DOMAIN c.history},
               opened |-> {}, roles |-> <<>>, refs |-> <<>>, unpatched |-> FALSE]
        Closed(r) == [r EXCEPT !.c = Materialize(@)]
    IN  Reduced(Closed(FoldLeft(Apply, r0, events)))
=============================================================================
