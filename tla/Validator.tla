------------------------------ MODULE Validator ------------------------------
(***************************************************************************)
(* Conformance of one AG-UI response (internal/agui/validate.go): decoding *)
(* an event, expanding the *_CHUNK convenience events, and the lifecycle   *)
(* and pairing rules over the expanded events.  All of it is pure: each    *)
(* operator takes the checker's memory and an event, and returns the new   *)
(* memory together with the problems found.                                *)
(*                                                                         *)
(* TEXT_MESSAGE_*, TOOL_CALL_*, REASONING_MESSAGE_* and REASONING_* follow *)
(* one pattern, so START, CONTENT, END and CHUNK carry the kind of their   *)
(* item.  name is the field an item cannot change (role, tool name),       *)
(* parent the one a later chunk may supply (name, parentMessageId).  Ids   *)
(* are numbers, 0 is an absent one; delta is the length of the text.       *)
(***************************************************************************)
EXTENDS Naturals, Sequences, FiniteSets, SequencesExt

Kinds == {"message", "call", "reasoning", "span"}

EventTypes == {"RUN_STARTED", "RUN_FINISHED", "RUN_ERROR", "START", "CONTENT",
               "END", "CHUNK", "TOOL_CALL_RESULT", "STEP_STARTED",
               "STEP_FINISHED", "STATE_SNAPSHOT", "STATE_DELTA",
               "MESSAGES_SNAPSHOT", "ACTIVITY_SNAPSHOT", "ACTIVITY_DELTA", "RAW"}

Flaws == {"none", "not_an_object", "bad_field", "missing_field", "unknown_type",
          "retired_type", "unknown_field", "null_field"}

NoOutcome == [type |-> "none", interrupts |-> <<>>, listed |-> FALSE, pending |-> <<>>]

\* A run that finishes without an outcome lists no pending calls.
RunOutcomes == {o \in [type : STRING, interrupts : Seq([id : Nat, reason : STRING]),
                       listed : BOOLEAN, pending : Seq(Nat)] :
                   o.type = "none" => o = NoOutcome}

SnapshotMessages == [id : Nat, role : STRING, len : Nat, calls : Seq(Nat), tool : Nat,
                     name : STRING]

Fields == [type : EventTypes, kind : Kinds \cup {"none"}, id : Nat, name : STRING,
           parent : Nat, message : Nat, delta : Nat, chunked : BOOLEAN, thread : BOOLEAN,
           outcome : RunOutcomes, messages : Seq(SnapshotMessages), flaw : Flaws]

\* Only an item has a kind (REASONING_START has no chunks) and only content a text.
Events == {e \in Fields : /\ e.type \in {"START", "CONTENT", "END"} => e.kind \in Kinds
                          /\ e.type = "CHUNK" => e.kind \in Kinds \ {"span"}
                          /\ e.delta # 0 => e.type \in {"CONTENT", "CHUNK"}}

\* An event without its particulars.  flaw is what decoding finds wrong with
\* it, thread says that it names the conversation's own thread.
Plain == [type |-> "RAW", kind |-> "none", id |-> 0, name |-> "none", parent |-> 0,
          message |-> 0, delta |-> 0, chunked |-> FALSE, thread |-> TRUE, outcome |-> NoOutcome,
          messages |-> <<>>, flaw |-> "none"]

\* A problem, if the condition holds.
Problem(holds, rule, severity) == IF holds THEN {<<rule, severity>>} ELSE {}

-----------------------------------------------------------------------------
(* Decoding.                                                               *)

MalformedOutcome(o) ==
    \/ o.type \notin {"none", "success", "interrupt", "cancelled"}
    \/ o.type = "interrupt" /\ o.interrupts = <<>>

OutcomeProblems(o) ==
    Problem(\/ o.type = "interrupt"
               /\ \E i, j \in DOMAIN o.interrupts :
                      i # j /\ o.interrupts[i].id = o.interrupts[j].id
            \/ o.type = "success" /\ o.interrupts # <<>>, "outcome", "error")

\* A known event with a field the schema rejects, a missing field or a
\* malformed outcome ends the stream; a type outside 1.0 is skipped.
Fatal(e) == \/ e.flaw \in {"not_an_object", "bad_field", "missing_field"}
            \/ e.type = "RUN_FINISHED" /\ MalformedOutcome(e.outcome)

Known(e) == e.flaw \notin {"unknown_type", "retired_type"}

DecodeProblems(e) ==
    Problem(e.flaw \in {"unknown_type", "unknown_field"}, "unknown", "warning")
    \cup Problem(e.flaw = "retired_type", "deprecated", "warning")
    \cup Problem(e.flaw = "null_field", "schema", "error")
    \cup IF e.type = "RUN_FINISHED" THEN OutcomeProblems(e.outcome) ELSE {}

-----------------------------------------------------------------------------
(* The expander: x is the chunked item that is open.                       *)

NoChunk == [kind |-> "none", id |-> 0, name |-> "none", parent |-> 0]

Of(x, type) == [Plain EXCEPT !.type = type, !.kind = x.kind, !.id = x.id,
                             !.chunked = TRUE]

Close(x) == IF x.kind = "none" THEN <<>> ELSE <<Of(x, "END")>>

Content(x, e) ==
    IF e.delta = 0 THEN <<>> ELSE <<[Of(x, "CONTENT") EXCEPT !.delta = e.delta]>>

Continues(x, e) == x.kind = e.kind /\ e.id \in {0, x.id}

\* A continuing chunk changes what the first one said, or the first one lacks
\* what it must say.
BadChunk(x, e) ==
    IF Continues(x, e)
    THEN \/ e.name \notin {"none", x.name}
         \/ x.parent # 0 /\ e.parent \notin {0, x.parent}
    ELSE e.id = 0 \/ (e.kind = "call" /\ e.name = "none")

Opened(e) ==
    [kind |-> e.kind, id |-> e.id, parent |-> e.parent,
     name |-> IF e.kind = "message" /\ e.name = "none" THEN "assistant" ELSE e.name]

\* The open item after e, and the explicit events that e stands for.
Feed(x, e) ==
    CASE e.type = "RAW" -> [x |-> x, out |-> <<e>>]
      [] e.type = "CHUNK" /\ Continues(x, e) ->
            [x |-> [x EXCEPT !.parent = IF @ = 0 THEN e.parent ELSE @],
             out |-> Content(x, e)]
      [] e.type = "CHUNK" /\ ~Continues(x, e) ->
            LET new == Opened(e)
            IN  [x |-> new,
                 out |-> Close(x)
                         \o <<[Of(new, "START") EXCEPT !.name = new.name,
                                                       !.parent = new.parent]>>
                         \o Content(new, e)]
      [] OTHER -> [x |-> NoChunk, out |-> Append(Close(x), e)]

-----------------------------------------------------------------------------
(* The validator: the phase of the response and, for the current run, the  *)
(* items by kind and id, the open steps, the activities, the calls that    *)
(* were started and those with a result.                                   *)

NewValidator ==
    [phase |-> "idle", run |-> 0, items |-> <<>>, steps |-> {},
     activities |-> {}, results |-> {}, calls |-> {}]

Key(e) == <<e.kind, e.id>>

IsOpen(v, k) == k \in DOMAIN v.items /\ v.items[k].open

Unanswered(v) == v.calls \ v.results

Put(f, k, x) == [j \in DOMAIN f \cup {k} |-> IF j = k THEN x ELSE f[j]]

StartItem(v, e) ==
    LET role == IF e.kind = "message" /\ e.name = "none" THEN "assistant" ELSE e.name
        seen == Key(e) \in DOMAIN v.items
        old  == IF seen THEN v.items[Key(e)]
                ELSE [open |-> FALSE, chunked |-> FALSE, role |-> role, parent |-> e.parent]
    IN [v  |-> [v EXCEPT
                !.calls = IF e.kind = "call" THEN @ \cup {e.id} ELSE @,
                !.items = IF old.open THEN @
                          ELSE Put(@, Key(e), [old EXCEPT !.open = TRUE,
                                                          !.chunked = e.chunked])],
        ps |-> Problem(\/ old.open
                       \/ old.role # role
                       \/ e.parent # 0 /\ old.parent # e.parent, "pairing", "error")]

ContinueItem(v, e) ==
    [v  |-> v,
     ps |-> Problem(~IsOpen(v, Key(e)), "pairing", "error")
            \cup Problem(IsOpen(v, Key(e)) /\ v.items[Key(e)].chunked # e.chunked,
                         "chunk", "error")]

EndItem(v, e) ==
    [v  |-> IF IsOpen(v, Key(e)) THEN [v EXCEPT !.items[Key(e)].open = FALSE] ELSE v,
     ps |-> ContinueItem(v, e).ps]

\* One event inside a run.
Pair(v, e) ==
    CASE e.type = "START"   -> StartItem(v, e)
      [] e.type = "CONTENT" -> ContinueItem(v, e)
      [] e.type = "END"     -> EndItem(v, e)
      [] e.type = "TOOL_CALL_RESULT" ->
            [v |-> [v EXCEPT !.results = @ \cup {e.id}], ps |-> {}]
      [] e.type = "STEP_STARTED" ->
            [v  |-> [v EXCEPT !.steps = @ \cup {e.id}],
             ps |-> Problem(e.id \in v.steps, "pairing", "error")]
      [] e.type = "STEP_FINISHED" ->
            [v  |-> [v EXCEPT !.steps = @ \ {e.id}],
             ps |-> Problem(e.id \notin v.steps, "pairing", "error")]
      [] e.type = "ACTIVITY_SNAPSHOT" ->
            [v |-> [v EXCEPT !.activities = @ \cup {e.id}], ps |-> {}]
      [] e.type = "ACTIVITY_DELTA" ->
            [v |-> v, ps |-> Problem(e.id \notin v.activities, "activity", "warning")]
      [] OTHER -> [v |-> v, ps |-> {}]

\* RUN_FINISHED must end the active run with everything closed, and a list of
\* pending calls must be the calls this run left without a result.
Finish(v, e) ==
    LET o == e.outcome
    IN [v  |-> [v EXCEPT !.phase = "finished"],
        ps |-> IF v.phase # "active" THEN {<<"lifecycle", "error">>}
               ELSE Problem(e.id # v.run \/ ~e.thread, "lifecycle", "error")
                    \cup Problem(\/ \E k \in DOMAIN v.items : v.items[k].open
                                 \/ v.steps # {}, "pairing", "error")
                    \cup Problem(/\ o.type = "success" /\ o.listed
                                 /\ \/ ToSet(o.pending) # Unanswered(v)
                                    \/ ~IsInjective(o.pending), "outcome", "error")]

Check(v, e) ==
    CASE e.type = "RUN_STARTED" ->
            [v  |-> [NewValidator EXCEPT !.phase = "active", !.run = e.id],
             ps |-> Problem(v.phase = "active" \/ ~e.thread, "lifecycle", "error")]
      [] e.type = "RUN_FINISHED" -> Finish(v, e)
      [] e.type = "RUN_ERROR" ->
            [v  |-> [v EXCEPT !.phase = "errored"],
             ps |-> Problem(v.phase = "errored", "lifecycle", "error")]
      [] OTHER ->
            IF v.phase = "active" THEN Pair(v, e)
            ELSE [v |-> v, ps |-> {<<"lifecycle", "error">>}]
=============================================================================
