---------------------------- MODULE MCConversation ----------------------------
(* One declared tool and one of the agent's own; two messages, two calls.    *)
EXTENDS Conversation

Ev(type, id) == [Plain EXCEPT !.type = type, !.id = id]
ItemEv(type, kind, id, delta) ==
    [Plain EXCEPT !.type = type, !.kind = kind, !.id = id, !.delta = delta]
CallEv(type, id, name) == [ItemEv(type, "call", id, 1) EXCEPT !.name = name]
Flawed(flaw) == [Plain EXCEPT !.flaw = flaw]
Ends(o) == [Ev("RUN_FINISHED", 1) EXCEPT !.outcome = o]
Success(ids) == [NoOutcome EXCEPT !.type = "success", !.listed = TRUE, !.pending = ids]
Interrupts(ids) ==
    [NoOutcome EXCEPT !.type = "interrupt",
                      !.interrupts = [i \in DOMAIN ids |-> [id |-> ids[i], reason |-> "approve"]]]
Cancelled == [NoOutcome EXCEPT !.type = "cancelled"]

SnapshotEv ==
    [Plain EXCEPT !.type = "MESSAGES_SNAPSHOT",
     !.messages = <<[id |-> 2, role |-> "assistant", len |-> 1, calls |-> <<2>>,
                     tool |-> 0, name |-> "pick"],
                    [id |-> 3, role |-> "tool", len |-> 1, calls |-> <<>>,
                     tool |-> 1, name |-> "none"]>>]

Replay == <<Ev("RUN_STARTED", 2), ItemEv("CHUNK", "message", 1, 1),
            Ev("RUN_FINISHED", 2), Ev("RUN_STARTED", 1)>>
Opening == {<<>>, <<Ev("RUN_STARTED", 1)>>, <<Ev("RUN_STARTED", 2)>>, Replay}

\* Message 1 and calls 1 and 2 as chunks, and as explicit events.
Chunks == {ItemEv("CHUNK", "message", 1, 1), ItemEv("CHUNK", "message", 0, 1),
           CallEv("CHUNK", 1, "pick"), CallEv("CHUNK", 2, "fetch")}
Pieces == {ItemEv("START", "message", 1, 0), ItemEv("CONTENT", "message", 1, 1),
           ItemEv("END", "message", 1, 0), [CallEv("START", 1, "pick") EXCEPT !.delta = 0],
           [Ev("TOOL_CALL_RESULT", 1) EXCEPT !.message = 4], SnapshotEv}
Rich == Chunks \cup Pieces \cup
        {ItemEv("CONTENT", "reasoning", 5, 1), Ev("STEP_STARTED", 1), Ev("STATE_DELTA", 0),
         Plain, Flawed("bad_field"), Flawed("unknown_type"), Flawed("null_field")}

Brief == {ItemEv("CHUNK", "message", 1, 1), CallEv("CHUNK", 1, "pick"),
          [Ev("TOOL_CALL_RESULT", 1) EXCEPT !.message = 4]}

Closing == {<<>>, <<Ends(NoOutcome)>>, <<Ends(Success(<<>>))>>, <<Ends(Success(<<1>>))>>,
            <<Ends(Interrupts(<<7>>))>>, <<Ends(Interrupts(<<7, 8>>))>>,
            <<Ends(Interrupts(<<>>))>>, <<Ends(Cancelled)>>,
            <<Ev("RUN_ERROR", 0)>>, <<Ends(NoOutcome), Ev("RUN_ERROR", 0)>>,
            <<Ends(NoOutcome), Ev("RUN_STARTED", 2)>>}

\* Openings, contents and closings in combination, and every pair of contents
\* that could matter to each other inside one plain run.
Told == {<<>>} \cup {<<e>> : e \in Brief}
Pairs == {<<a, b>> : a \in Chunks, b \in Chunks \cup Pieces}
         \cup {<<a, b>> : a \in Pieces, b \in Chunks \cup Pieces}
Inside(S, C) == {<<Ev("RUN_STARTED", 1)>> \o m \o c : m \in S, c \in C}

FirstBodies ==
    {o \o m \o c : o \in Opening, m \in Told, c \in Closing}
    \cup Inside({<<e>> : e \in Rich} \cup Pairs,
                {<<Ends(NoOutcome)>>, <<Ends(Success(<<>>))>>, <<Ends(Success(<<1>>))>>})

\* The second run sums up what the first could have left over.
LaterBodies ==
    {<<>>, Replay \o <<ItemEv("CHUNK", "message", 1, 1), Ends(NoOutcome)>>,
     <<Ev("RUN_STARTED", 1), CallEv("CHUNK", 1, "pick"), Ends(Success(<<1>>))>>,
     <<Ev("RUN_STARTED", 1), Ends(Interrupts(<<8>>))>>}

MCBodies(run) == IF run = 1 THEN FirstBodies ELSE LaterBodies

Tool(repeat) == [kind |-> "tool", names |-> {"pick"}, repeat |-> repeat]
Approve(repeat) == [kind |-> "interrupt", names |-> {"approve"}, repeat |-> repeat]

MCScripts == {[valid |-> FALSE, responses |-> <<>>, followUps |-> 0],
              [valid |-> TRUE, responses |-> <<Tool(FALSE), Approve(FALSE)>>, followUps |-> 1],
              [valid |-> TRUE, responses |-> <<Approve(TRUE), Tool(TRUE)>>, followUps |-> 0]}
=============================================================================
