----------------------------- MODULE Conversation -----------------------------
(***************************************************************************)
(* One scripted conversation with a hosted AG-UI agent: Converse           *)
(* (internal/agui/converse.go) and runAGUI (internal/run/hosted.go).       *)
(*                                                                         *)
(* The client posts the thread and reads the response's events one by one; *)
(* the run's ending decides what it posts next, if anything.  The agent is *)
(* external: it may refuse the request, send any of Bodies, and end the    *)
(* stream cleanly, break it, or leave it open.  The caller's context and   *)
(* the conversation's own timeout end whenever they like.                  *)
(***************************************************************************)
EXTENDS Reducer

CONSTANTS
    Bodies(_),  \* the event sequences the agent may send in a given run
    Scripts,    \* the evals' sides of the conversation
    MaxRuns,    \* Script.MaxRuns
    Timed       \* Script.Timeout is set

ASSUME ConversationAssumption == MaxRuns \in Nat \ {0} /\ Timed \in BOOLEAN

ASSUME BodiesAssumption == \A k \in 1 .. MaxRuns : Bodies(k) \subseteq Seq(Events)

OurRun == 1 \* the runId the client asked for; every other id is foreign

\* A tool response names the tools and no reason, an interrupt response the
\* reasons; repeat keeps it available.
ResponseKinds == {"tool", "interrupt"}

ASSUME ScriptsAssumption ==
    \A s \in Scripts : /\ Len(s.responses) \in Nat /\ DOMAIN s.responses = 1 .. Len(s.responses)
                      /\ s.followUps \in Nat

VARIABLES
    script,     \* [valid, responses, followUps]
    ctx,        \* the caller's context: "live" or "cancelled"
    expired,    \* the conversation's timeout has passed
    pc,         \* "send", "reading", "decide", "over" or "returned"
    thread,     \* the reducer's memory: messages, tool calls, state
    sent,       \* messages the next run carries
    resume,     \* interrupt answers to be carried by the next run
    used,       \* responses consumed
    turns,      \* follow-ups sent
    runs,       \* Transcript.Runs
    hitl,       \* Transcript.HITL, as a set
    violations, \* Transcript.Violations, as a set
    stream,     \* the response being read
    outcome,    \* Transcript.Outcome
    answer,     \* what runAGUI returned
    heard       \* history: what the current response held of the requested run

vars == <<script, ctx, expired, pc, thread, sent, resume, used, turns, runs,
          hitl, violations, stream, outcome, answer, heard>>
client == <<script, used, turns, hitl>>
contexts == <<ctx, expired>>

NoStream == [x |-> NoChunk, v |-> NewValidator, segments |-> <<>>, badStart |-> FALSE,
             ourEnded |-> FALSE, body |-> <<>>, tail |-> "eof", failed |-> FALSE,
             ps |-> {}]

\* What the client can say: a user turn, or the answer to a call.
UserTurn == [role |-> "user", call |-> 0]
ToolAnswer(id) == [role |-> "tool", call |-> id]

NoRun == [outcome |-> "none", interrupts |-> <<>>, listed |-> FALSE,
          pending |-> <<>>, items |-> <<>>, sent |-> <<>>, resume |-> <<>>]

Init == /\ script \in Scripts
        /\ ctx = "live" /\ expired = FALSE
        /\ pc = "send"
        /\ thread = AddMessage(EmptyThread, "user", 0)
        /\ sent = <<UserTurn>> /\ resume = <<>>
        /\ used = {} /\ turns = 0
        /\ runs = <<>> /\ hitl = {} /\ violations = {}
        /\ stream = NoStream
        /\ outcome = "none" /\ answer = "pending"
        /\ heard = <<>>

Ended == ctx = "cancelled" \/ expired

End(o) == pc' = "over" /\ outcome' = o

-----------------------------------------------------------------------------
(* The caller.                                                             *)

Cancel == /\ ctx = "live" /\ pc # "returned"
          /\ ctx' = "cancelled"
          /\ UNCHANGED <<script, expired, pc, thread, sent, resume, used, turns,
                         runs, hitl, violations, stream, outcome, answer, heard>>

Expire == /\ Timed /\ ~expired /\ pc \notin {"over", "returned"}
          /\ expired' = TRUE
          /\ UNCHANGED <<script, ctx, pc, thread, sent, resume, used, turns, runs,
                         hitl, violations, stream, outcome, answer, heard>>

-----------------------------------------------------------------------------
(* Posting a run.                                                          *)

\* A script newConversation rejects ends the conversation before any run.
RejectScript ==
    /\ pc = "send" /\ runs = <<>> /\ ~script.valid
    /\ End("errored")
    /\ sent' = <<>> /\ heard' = <<>>
    /\ thread' = EmptyThread
    /\ UNCHANGED <<client, contexts, resume, runs, violations, stream, answer>>

Posting == pc = "send" /\ script.valid

\* A transport error, a status other than 2xx, or not an event stream.
PostRefused ==
    /\ Posting
    /\ runs' = Append(runs, [NoRun EXCEPT !.outcome = "rejected", !.sent = sent,
                                          !.resume = resume])
    /\ sent' = <<>> /\ resume' = <<>>
    /\ pc' = "decide"
    /\ UNCHANGED <<client, contexts, thread, violations, stream, outcome, answer,
                   heard>>

PostAccepted(body, tail) ==
    /\ Posting /\ ~Ended
    /\ stream' = [NoStream EXCEPT !.body = body, !.tail = tail]
    /\ runs' = Append(runs, [NoRun EXCEPT !.sent = sent, !.resume = resume])
    /\ sent' = <<>> /\ resume' = <<>>
    /\ pc' = "reading"
    /\ heard' = <<>>
    /\ UNCHANGED <<client, contexts, thread, violations, outcome, answer>>

-----------------------------------------------------------------------------
(* Reading the response.                                                   *)

Tails == {"eof", "unterminated", "break", "open"}

NewSegment(run) ==
    [run |-> run, events |-> <<>>, end |-> "none", outcome |-> NoOutcome, late |-> FALSE]

\* An expanded event is filed under its run.  After a run's end nothing joins it, and
\* an error that comes before any run is one of its own.
File(segments, e) ==
    LET n == Len(segments)
        cur == segments[n]
        Cur(s) == [segments EXCEPT ![n] = s]
    IN  CASE e.type = "RUN_STARTED" -> Append(segments, NewSegment(e.id))
          [] e.type = "RUN_FINISHED" /\ n > 0 /\ cur.end = "none" ->
                Cur([cur EXCEPT !.end = "finished", !.outcome = e.outcome])
          [] e.type = "RUN_ERROR" /\ n = 0 -> <<[NewSegment(0) EXCEPT !.end = "errored"]>>
          [] e.type = "RUN_ERROR" /\ n > 0 /\ cur.end = "finished" ->
                Cur([cur EXCEPT !.late = TRUE])
          [] e.type = "RUN_ERROR" /\ n > 0 /\ cur.end = "none" ->
                Cur([cur EXCEPT !.end = "errored"])
          [] e.type \notin {"RUN_STARTED", "RUN_FINISHED", "RUN_ERROR"}
             /\ n > 0 /\ cur.end = "none" ->
                Cur([cur EXCEPT !.events = Append(@, e)])
          [] OTHER -> segments

\* One expanded event is validated and filed; the requested run may end with it.
Accept(st, e) ==
    LET n == Len(st.segments)
        check == Check(st.v, e)
        bad == n = 0 /\ e.type \notin {"RUN_STARTED", "RUN_ERROR"}
    IN  [st EXCEPT
         !.v = check.v,
         !.badStart = @ \/ bad,
         !.ps = @ \cup check.ps \cup Problem(bad, "lifecycle", "error"),
         !.ourEnded = \/ @
                      \/ /\ n > 0 /\ e.type \in {"RUN_FINISHED", "RUN_ERROR"}
                         /\ st.segments[n].run = OurRun /\ st.segments[n].end = "none",
         !.segments = File(@, e)]

LastSegment(segments) == Len(segments) \* mutant

\* The segment the run is read from: the last that echoes the runId, else the
\* last one.
Ours(segments) ==
    LET echo == SelectLastInSeq(segments, LAMBDA s : s.run = OurRun)
    IN  IF echo # 0 THEN echo ELSE Len(segments)

ErroredUntilEnd(seg) == seg.end = "errored" \* mutant

Errored(seg) == seg.end = "errored" \/ seg.late

\* How settle names the run's ending; "rejected", "truncated" and "error" are
\* runtime failures.
Ending(st, at) ==
    LET seg == st.segments[at]
    IN  CASE st.failed \/ st.badStart -> "rejected"
          [] ~st.failed /\ ~st.badStart /\ at = 0 -> "truncated"
          [] ~st.failed /\ ~st.badStart /\ at # 0 /\ Errored(seg) -> "error"
          [] ~st.failed /\ ~st.badStart /\ at # 0 /\ ~Errored(seg) /\ seg.end = "none" ->
                "truncated"
          [] OTHER -> IF seg.outcome.type = "none" THEN "success" ELSE seg.outcome.type

Failures == {"rejected", "truncated", "error"}

\* The run is recorded with how it ended and what it left behind; seg is its part
\* of the response, number at.
Record(st, at, seg, reduced) ==
    LET k == Len(runs)
        ending == Ending(st, at)
        run == [runs[k] EXCEPT !.outcome = ending, !.items = reduced.items]
        ps == st.ps
              \cup Problem(at # 0 /\ seg.run \notin {0, OurRun}, "lifecycle", "warning")
              \cup Problem(at < Len(st.segments), "lifecycle", "error")
              \cup Problem(reduced.unpatched, "state", "warning")
    IN  /\ runs' = [runs EXCEPT ![k] =
                       IF ending \in Failures THEN run
                       ELSE [run EXCEPT !.interrupts = seg.outcome.interrupts,
                                        !.listed = seg.outcome.listed,
                                        !.pending = seg.outcome.pending]]
        /\ thread' = reduced.thread
        /\ violations' = violations \cup {<<k, p[1], p[2]>> : p \in ps}
        /\ stream' = NoStream
        /\ pc' = "decide"

\* The stream is over: the requested run is picked and reduced.
Settle(st) ==
    LET at == Ours(st.segments)
        seg == IF at = 0 THEN NewSegment(0) ELSE st.segments[at]
    IN  Record(st, at, seg, ReduceRun(thread, Len(runs), seg.events))

\* The last event came without its terminating blank line: it counts.
Unterminated == stream.tail = "unterminated" /\ Len(stream.body) = 1

\* The next event is decoded, expanded and accepted; a fatal one ends the
\* reading.
ReadEvent ==
    /\ pc = "reading" /\ stream.body # <<>>
    /\ LET e == Head(stream.body)
           rest == [stream EXCEPT !.body = Tail(@),
                                  !.ps = @ \cup DecodeProblems(e)
                                         \cup Problem(Unterminated, "transport", "warning")]
           fed == Feed(stream.x, e)
           bad == e.type = "CHUNK" /\ BadChunk(stream.x, e)
       IN  \/ /\ Fatal(e)
              /\ Settle([stream EXCEPT !.failed = TRUE,
                                       !.ps = @ \cup {<<"schema", "error">>}])
              /\ UNCHANGED heard
           \/ /\ ~Fatal(e) /\ ~Known(e)
              /\ stream' = rest
              /\ UNCHANGED <<pc, thread, runs, violations, heard>>
           \/ /\ ~Fatal(e) /\ Known(e) /\ bad
              /\ Settle([rest EXCEPT !.failed = TRUE,
                                     !.ps = @ \cup {<<"chunk", "error">>}])
              /\ UNCHANGED heard
           \/ /\ ~Fatal(e) /\ Known(e) /\ ~bad
              /\ stream' = FoldLeft(Accept, [rest EXCEPT !.x = fed.x], fed.out)
              /\ heard' = Append(heard, e)
              /\ UNCHANGED <<pc, thread, runs, violations>>
    /\ UNCHANGED <<client, contexts, sent, resume, outcome, answer>>

\* A clean end of the stream.
ReadEnd ==
    /\ pc = "reading" /\ stream.body = <<>> /\ stream.tail \in {"eof", "unterminated"}
    /\ Settle([stream EXCEPT
               !.ps = @ \cup Problem(stream.v.phase = "active", "lifecycle", "error")])
    /\ UNCHANGED <<client, contexts, sent, resume, outcome, answer, heard>>

BrokenOrCancelled == \* mutant: the timeout does not reach the body
    \/ stream.body = <<>> /\ stream.tail = "break"
    \/ ctx = "cancelled"
    \/ stream.ourEnded

\* A read error: the connection broke, a context ended, or the grace timer,
\* armed when the requested run ended, closed the body.  Once the requested
\* run has ended it costs no more than a note.
Broken == \/ stream.body = <<>> /\ stream.tail = "break"
          \/ Ended
          \/ stream.ourEnded

ReadFails ==
    /\ pc = "reading" /\ Broken
    /\ Settle(IF stream.ourEnded
              THEN [stream EXCEPT !.ps = @ \cup {<<"transport", "warning">>}]
              ELSE [stream EXCEPT !.failed = TRUE])
    /\ UNCHANGED <<client, contexts, sent, resume, outcome, answer, heard>>

-----------------------------------------------------------------------------
(* What the client does with a run's ending.                               *)

Latest == runs[Len(runs)]
RunEnded(o) == pc = "decide" /\ Latest.outcome = o

\* A failed run ends the conversation; a cancelled caller gets its error.
RunFails ==
    /\ pc = "decide" /\ Latest.outcome \in Failures
    /\ IF ctx = "cancelled" THEN End("none") ELSE End("errored")
    /\ UNCHANGED <<client, contexts, thread, sent, resume, runs, violations,
                   stream, answer, heard>>

CancelledRun ==
    /\ RunEnded("cancelled")
    /\ End("cancelled")
    /\ UNCHANGED <<client, contexts, thread, sent, resume, runs, violations,
                   stream, answer, heard>>

PendingListed == Latest.pending \* mutant

\* The unanswered calls of a run to declared tools, in order.
AddOpen(ids, tc, run) ==
    IF tc.run = run /\ Frontend(tc) /\ tc.result = "none" THEN Append(ids, tc.id) ELSE ids
OpenCalls(c, run) == FoldLeft(LAMBDA ids, tc : AddOpen(ids, tc, run), <<>>, c.calls)

\* The frontend calls left for the client: those the agent lists, else the open
\* ones of this run.
PendingCalls == IF Latest.listed THEN Latest.pending ELSE OpenCalls(thread, Len(runs))

ToolName(id) ==
    LET at == CallAt(thread, id) IN IF at = 0 THEN "none" ELSE thread.calls[at].name

\* Does response r answer request q?
Matches(r, q) ==
    /\ r.kind = q.kind
    /\ q.kind = "tool" => q.known /\ q.name \in r.names
    /\ q.kind = "interrupt" => q.name \in r.names

Available(taken, i) == i \notin taken \/ script.responses[i].repeat

\* Each request takes the first available response that matches it; the
\* result gives the response taken by each request, 0 for none.
Take(acc, q) ==
    LET i == SelectInSeq([j \in DOMAIN script.responses |-> j], LAMBDA j :
                Available(acc.used, j) /\ Matches(script.responses[j], q))
    IN  [used |-> IF i = 0 THEN acc.used ELSE acc.used \cup {i},
         taken |-> Append(acc.taken, i)]

TakeAll(requests) == FoldLeft(Take, [used |-> used, taken |-> <<>>], requests)

Asked ==
    IF Latest.outcome = "interrupt"
    THEN [i \in DOMAIN Latest.interrupts |->
             [kind |-> "interrupt", id |-> Latest.interrupts[i].id, known |-> TRUE,
              name |-> Latest.interrupts[i].reason]]
    ELSE [i \in DOMAIN PendingCalls |->
             [kind |-> "tool", id |-> PendingCalls[i],
              known |-> CallAt(thread, PendingCalls[i]) # 0,
              name |-> ToolName(PendingCalls[i])]]

RequestedWhenTaken(answered) == \* mutant
    {[run |-> Len(runs), kind |-> Asked[i].kind, id |-> Asked[i].id,
      answered |-> TRUE] : i \in DOMAIN Asked}

Requested(answered) ==
    {[run |-> Len(runs), kind |-> Asked[i].kind, id |-> Asked[i].id,
      answered |-> answered] : i \in DOMAIN Asked}

OneRunMore == Len(runs) <= MaxRuns \* mutant
RunsLeft == Len(runs) < MaxRuns

FirstOnly == <<Asked[1].id>> \* mutant
AnsweredIds == [i \in DOMAIN Asked |-> Asked[i].id]

\* An answered call: a tool message, and the call's result.
AnswerCall(c, q) ==
    [AddMessage(c, "tool", q.id) EXCEPT !.calls[CallAt(c, q.id)].result = "client"]

\* The run asked for something: every request is recorded and takes its
\* response.  All answers are committed for the next run, or none is.
AnswerRequests ==
    /\ pc = "decide" /\ Latest.outcome \in {"interrupt", "success"} /\ Asked # <<>>
    /\ LET take == TakeAll(Asked)
           covered == \A i \in DOMAIN Asked : take.taken[i] # 0
           send == covered /\ RunsLeft
       IN  /\ used' = take.used
           /\ hitl' = hitl \cup Requested(send)
           /\ IF send THEN pc' = "send" /\ heard' = <<>> /\ UNCHANGED outcome
              ELSE /\ End(IF covered THEN "max_turns" ELSE "awaiting_input")
                   /\ UNCHANGED heard
           /\ IF send /\ Latest.outcome = "interrupt"
              THEN resume' = AnsweredIds /\ UNCHANGED <<sent, thread>>
              ELSE IF send
              THEN /\ sent' = [i \in DOMAIN AnsweredIds |-> ToolAnswer(AnsweredIds[i])]
                   /\ thread' = FoldLeft(AnswerCall, thread, Asked)
                   /\ UNCHANGED resume
              ELSE UNCHANGED <<sent, resume, thread>>
    /\ UNCHANGED <<script, contexts, turns, runs, violations, stream, answer>>

\* Nothing is pending: the next user turn, if the script has one.
FollowUp ==
    /\ RunEnded("success") /\ Asked = <<>> /\ turns < script.followUps
    /\ IF RunsLeft
       THEN /\ thread' = AddMessage(thread, "user", 0)
            /\ sent' = <<UserTurn>>
            /\ turns' = turns + 1
            /\ pc' = "send" /\ heard' = <<>> /\ UNCHANGED outcome
       ELSE End("max_turns") /\ UNCHANGED <<thread, sent, turns, heard>>
    /\ UNCHANGED <<script, contexts, used, hitl, resume, runs, violations, stream,
                   answer>>

Complete ==
    /\ RunEnded("success") /\ Asked = <<>> /\ turns = script.followUps
    /\ End("completed")
    /\ UNCHANGED <<client, contexts, thread, sent, resume, runs, violations,
                   stream, answer, heard>>

-----------------------------------------------------------------------------
(* runAGUI: the artifacts are written unless the caller was cancelled, and  *)
(* the transcript becomes the eval's session.                              *)

Return ==
    /\ pc = "over"
    /\ pc' = "returned"
    /\ \/ answer' = CASE outcome = "none" -> "error"
                      [] outcome = "errored" -> "failed"
                      [] OTHER -> "session"
       \/ outcome # "none" /\ answer' = "error" \* writing the artifacts failed
    /\ UNCHANGED <<client, contexts, thread, sent, resume, runs, violations,
                   stream, outcome, heard>>

Reading == ReadEvent \/ ReadEnd \/ ReadFails
Deciding == RunFails \/ CancelledRun \/ AnswerRequests \/ FollowUp \/ Complete
Stopped == pc = "returned" /\ UNCHANGED vars

Post == \/ PostRefused
        \/ /\ Posting
           /\ \E body \in Bodies(Len(runs) + 1), tail \in Tails : PostAccepted(body, tail)

Next == \/ Cancel \/ Expire
        \/ RejectScript \/ Post \/ Reading \/ Deciding \/ Return \/ Stopped

\* The client reads, decides and posts (fairness of PostRefused keeps it from
\* dwelling in "send": any post disables it); a set timeout fires.  An agent is
\* not assumed to end its stream.  Weak fairness of Reading and of Deciding is
\* spelled out with the conditions under which they can step.
CanRead == /\ pc = "reading"
           /\ stream.body # <<>> \/ stream.tail \in {"eof", "unterminated"} \/ Broken

KeepsReading == <>[]CanRead => []<><<pc = "reading">>_<<pc, stream>>
KeepsDeciding == <>[](pc = "decide") => []<><<pc = "decide">>_pc

Spec == /\ Init /\ [][Next]_vars
        /\ KeepsReading /\ KeepsDeciding
        /\ WF_vars(RejectScript) /\ WF_vars(PostRefused) /\ WF_vars(Return)
        /\ WF_vars(Expire)
-----------------------------------------------------------------------------
(* Properties.                                                             *)

\* Every variable has its type, and no conversation runs longer than MaxRuns
\* (converse.go:246).
TypeOK ==
    /\ ctx \in {"live", "cancelled"} /\ expired \in BOOLEAN
    /\ pc \in {"send", "reading", "decide", "over", "returned"}
    /\ used \subseteq DOMAIN script.responses /\ turns \in 0 .. script.followUps
    /\ Len(runs) <= MaxRuns
    /\ \A h \in hitl : h.run \in DOMAIN runs /\ h.kind \in ResponseKinds
    /\ \A p \in violations : p[1] \in DOMAIN runs /\ p[3] \in {"error", "warning"}
    /\ outcome \in {"none", "completed", "awaiting_input", "max_turns", "cancelled", "errored"}
    /\ answer \in {"pending", "error", "failed", "session"}

\* The part of the response that is the requested run, as a reader of the
\* protocol would cut it out: from the last RUN_STARTED that echoes the runId,
\* or else the last one, up to the next RUN_STARTED.
Starts == {i \in DOMAIN heard : heard[i].type = "RUN_STARTED"}
OurStart ==
    LET echo == {i \in Starts : heard[i].id = OurRun}
    IN  IF echo # {} THEN Max(echo) ELSE IF Starts # {} THEN Max(Starts) ELSE Len(heard)
OurPart == LET later == {i \in Starts : i > OurStart}
           IN  OurStart + 1 .. IF later = {} THEN Len(heard) ELSE Min(later) - 1
Terminals == {i \in OurPart : heard[i].type \in {"RUN_FINISHED", "RUN_ERROR"}}
OurEvents == {i \in OurPart : \A t \in Terminals : i < t}

\* The item an event belongs to; a chunk without an id continues the last one.
ItemOf(i) ==
    LET e == heard[i]
        named == {j \in 1 .. i : heard[j].type = "CHUNK" /\ heard[j].id # 0}
    IN  IF e.type = "TOOL_CALL_RESULT" THEN <<"result", e.id>>
        ELSE IF e.type = "CHUNK" /\ e.id = 0 THEN <<e.kind, heard[Max(named)].id>>
        ELSE <<e.kind, e.id>>

Producing == {i \in OurEvents :
                 \/ heard[i].type \in {"START", "CONTENT", "CHUNK"}
                    /\ heard[i].kind # "span"
                 \/ heard[i].type = "TOOL_CALL_RESULT"}
Named == {ItemOf(i) : i \in Producing}

\* The lengths of the pieces of an item, in the order they came; 0 for any other event.
PiecesOf(item) == [i \in DOMAIN heard |->
                      IF i \in Producing /\ ItemOf(i) = item THEN heard[i].delta ELSE 0]
Total(lengths) == FoldLeft(LAMBDA sum, n : sum + n, 0, lengths)

\* A message and a reasoning with the same id would share one text.
Unmixed(items) == \A m, n \in items : m[1] = "message" /\ n[1] = "reasoning" => m[2] # n[2]

\* No earlier run left a text or arguments that the item goes on from.
Blank(c, item) ==
    IF item[1] = "call" THEN \A tc \in ToSet(c.calls) : tc.id = item[2] => tc.args = 0
    ELSE \A m \in ToSet(c.history) : m.id = item[2] => m.len = 0

\* A transcript's run holds the requested run of the response and nothing else
\* (replayed runs, runs that follow, events outside a run): exactly the items
\* its events name, each new one with the text of all its pieces, whatever
\* form they came in and however the stream ended (settle and reduceRun).  A
\* MESSAGES_SNAPSHOT may bring items that no event of the run names.
TranscriptExact ==
    [][/\ pc = "reading" /\ pc' = "decide"
       /\ Unmixed(Named) /\ \A i \in OurEvents : heard[i].type # "MESSAGES_SNAPSHOT"
       => /\ {<<it.kind, it.id>> : it \in ToSet(Latest'.items)} = Named
          /\ \A it \in ToSet(Latest'.items) :
                 LET item == <<it.kind, it.id>>
                 IN  it.kind # "result" /\ Blank(thread, item)
                     => it.len = Total(PiecesOf(item))]_vars

\* A RUN_ERROR of the requested run, before or after its RUN_FINISHED, is never
\* hidden by a conversation that goes on or ends well (finishGrace, settle).
ErrorSurfaces ==
    pc \in {"decide", "over"} /\ (\E i \in OurPart : heard[i].type = "RUN_ERROR") =>
        Latest.outcome \in {"error", "rejected"} /\ outcome \in {"none", "errored"}

\* A conversation that completed without an error-severity violation in its last
\* run left none of that run's streamed calls to declared tools unanswered: each has
\* its result, or the agent sent one in that run (before it started the call, so that
\* the transcript has none).  What the validator accepts as the list of pending calls
\* is what the client goes by (pending, unanswered, toolResult).
CompletedMeansAnswered ==
    outcome = "completed"
    /\ (\A p \in violations : p[1] = Len(runs) => p[3] # "error")
    /\ (\A i \in DOMAIN heard : heard[i].type # "MESSAGES_SNAPSHOT") =>
        \A i \in DOMAIN thread.calls :
            LET call == thread.calls[i]
            IN  call.run = Len(runs) /\ Frontend(call) /\ call.result = "none"
                => \E j \in OurEvents : /\ heard[j].type = "TOOL_CALL_RESULT"
                                        /\ heard[j].id = call.id

\* The answers a run carried, or the next run is to carry.
Answers(ms, rs) == {<<"tool", m.call>> : m \in {m \in ToSet(ms) : m.role = "tool"}}
                   \cup {<<"interrupt", id>> : id \in ToSet(rs)}
Carried(k) == IF k \in DOMAIN runs THEN Answers(runs[k].sent, runs[k].resume)
              ELSE IF pc = "send" THEN Answers(sent, resume) ELSE {}

\* "Nothing is committed unless another run will actually carry it"
\* (converse.go:221): a request is marked answered exactly when the following
\* run carries its answer, whatever MaxRuns, failures and cancellation do.
AnsweredIsCarried ==
    \A h \in hitl : h.answered <=> <<h.kind, h.id>> \in Carried(h.run + 1)

\* Every turn of the client answers all of what the agent's turn asked, or the
\* conversation is over.
AskedIn(k) == {<<h.kind, h.id>> : h \in {h \in hitl : h.run = k}}
WhoseTurn == CASE pc \in {"send", "reading"} -> "agent"
               [] pc = "decide" -> "client"
               [] OTHER -> "over"
LastAsked == CASE pc = "decide" /\ Latest.outcome \in {"interrupt", "success"} ->
                      {<<Asked[i].kind, Asked[i].id>> : i \in DOMAIN Asked}
               [] pc = "decide" /\ Latest.outcome \notin {"interrupt", "success"} -> {}
               [] pc = "reading" -> AskedIn(Len(runs) - 1)
               [] OTHER -> AskedIn(Len(runs))
NextGives == CASE pc = "send" -> Carried(Len(runs) + 1)
               [] pc = "reading" -> Carried(Len(runs))
               [] OTHER -> {}
Turns == INSTANCE Dialogue WITH turn <- WhoseTurn, asked <- LastAsked, given <- NextGives
ImplementsDialogue == Turns!Init /\ [][Turns!Next]_(Turns!vars)

\* A conversation with a timeout returns, whatever the agent does with its
\* streams (grace timer, timeout, broken and open streams).
Terminates == <>(pc = "returned")
=============================================================================
