----------------------------- MODULE RemoteSweep -----------------------------
(***************************************************************************)
(* evolve run --remote (internal/remote, cmd/evolve/run_remote.go and the  *)
(* in-pod exec-unit): one skill's units are planned against the local      *)
(* results, submitted, followed over an event stream that reconnects, and  *)
(* landed one by one in the local results file.                            *)
(*                                                                         *)
(* The service is external: it launches and settles units, relays their    *)
(* states on the stream and keeps them for status requests.  Requests and  *)
(* connections fail at any time, the user interrupts at any time, and the  *)
(* evolve process may die at any step and be run again.                    *)
(***************************************************************************)
EXTENDS FiniteSets, ResultsDir

CONSTANTS Units,     \* (model, tier) units of the skill
          Cases,     \* each unit's cases
          Plans,     \* selections of cases, one per unit, considered in each sweep
          Firsts,    \* contents of the results directory to start from
          Formats,   \* the results formats an invocation may ask for
          Outcomes,  \* how the service may settle each unit
          Large,     \* units whose stored entry may be too large for the wire
          MaxSweeps  \* bound on the number of a sweep; 1 stands for the past

\* An entry gives the number of the sweep that produced each case's result.
None == 0
Entries == [Cases -> 0 .. MaxSweeps]
NoEntry == [c \in Cases |-> None]

Results == {"pass", "fail"}                    \* Complete, with a result
Losses == {"unavailable", "lost"}              \* Failed, for this reason
Settled == Results \cup Losses

ASSUME RemoteAssumption ==
    /\ IsFiniteSet(Units) /\ MaxSweeps \in Nat \ {0}
    /\ Models = [Units -> Entries] /\ NoModels = [u \in Units |-> NoEntry]
    /\ Plans \in [2 .. MaxSweeps -> SUBSET [Units -> SUBSET Cases]]
    /\ Large \subseteq Units /\ Outcomes \in [Units -> SUBSET Settled]

ASSUME FilesAssumption ==
    /\ Extensions \in Seq(STRING) /\ "" \notin ToSet(Extensions)
    /\ Formats \subseteq ToSet(Extensions)
    /\ Firsts \subseteq [ToSet(Extensions) -> ResultsFile]

VARIABLES
    ctx,     \* the command's context: "live" or "cancelled"
    pc,      \* where the client is
    sweep,   \* the number of this sweep
    want,    \* the cases each unit is asked to run
    prior,   \* the entries sent along for the merge in the pod
    uploads, \* units whose workspace bundle is still to be uploaded
    format,  \* opts.ResultsFormat
    server,  \* the service: unit states and the evaluation's phase
    conn,    \* the event stream: "none", "open" or "dead"
    queue,   \* messages on their way
    inbox,   \* unit states handed to onUnit
    after,   \* what follows when the inbox is empty
    landed, failed, \* Sweep's memory
    answer,  \* what Sweep returns
    asked,   \* history: the service was asked to cancel
    unsaved, \* history: units whose landing failed
    reported,\* history: results whose landing was reported, by sweep
    dropped, \* history: units whose prior entry was not sent
    littered \* history: the save met files of two or more other formats

remote == <<server, conn, queue>>
memory == <<inbox, after, landed, failed>>
plan == <<sweep, want, prior, format>>
history == <<asked, unsaved, reported, dropped, littered>>
vars == <<ctx, pc, plan, uploads, remote, memory, answer, history, dirVars>>

AllPlanned == Units \* mutant
\* A unit with an empty run-set is not submitted.
Planned == {u \in Units : want[u] # {}}

Idle == [unit |-> [u \in Units |-> "Pending"], phase |-> "none"]

Init == /\ ctx = "live" /\ pc = "plan" /\ sweep = 1
        /\ want = [u \in Units |-> {}] /\ prior = NoModels /\ uploads = {}
        /\ format \in Formats
        /\ conn = "none" /\ queue = <<>> /\ server = Idle
        /\ inbox = <<>> /\ after = "stream"
        /\ landed = {} /\ failed = FALSE
        /\ answer = "running" /\ asked = FALSE /\ unsaved = {}
        /\ reported = NoModels /\ dropped = {} /\ littered = FALSE
        /\ DirInit(Firsts)

Leave(a) == pc' = "closing" /\ answer' = a

-----------------------------------------------------------------------------
(* The service.                                                            *)

Status(u) == [type |-> "unit", unit |-> u, status |-> server.unit[u]]
Snapshot == SetToSeq({Status(u) : u \in Planned})
EndOfStream == [type |-> "end", unit |-> CHOOSE u \in Units : TRUE, status |-> ""]

Emit(message) == queue' = IF conn = "open" THEN Append(queue, message) ELSE queue

Serving == server.phase = "Running"

\* A unit moves on, and the stream re-emits its state.
Moves(u, status) ==
    /\ server' = [server EXCEPT !.unit[u] = status]
    /\ Emit([type |-> "unit", unit |-> u, status |-> status])
    /\ UNCHANGED <<ctx, pc, plan, uploads, conn, memory, answer, history, dirVars>>

Settle(u) == /\ Serving /\ u \in Planned /\ server.unit[u] = "Pending"
             /\ \E s \in Outcomes[u] : Moves(u, s)

\* All units have settled: the evaluation is, and the stream ends.
Conclude ==
    /\ Serving /\ \A u \in Planned : server.unit[u] \in Settled
    /\ \E phase \in {"Complete", "Failed"} : server' = [server EXCEPT !.phase = phase]
    /\ Emit(EndOfStream)
    /\ UNCHANGED <<ctx, pc, plan, uploads, conn, memory, answer, history, dirVars>>

\* The connection is lost, noticed at once or only by the keep-alive.
Drop == /\ conn = "open"
        /\ conn' \in {"none", "dead"} /\ queue' = <<>>
        /\ UNCHANGED <<ctx, pc, plan, uploads, server, memory, answer, history, dirVars>>

KeepAlive == /\ conn = "dead" /\ conn' = "none"
             /\ UNCHANGED <<ctx, pc, plan, uploads, server, queue, memory, answer,
                            history, dirVars>>

\* A bundle is staged without the results of the skill it carries.
Bundled == NoModels

\* The pod's results file before its sweep: the bundle's, with the unit's prior
\* entry put in (seedPriorEntry).
Seeded(u) == IF prior[u] = NoEntry THEN Bundled[u] ELSE prior[u]

\* The file after it: the sweep runs the listed cases of the unit and merges
\* them over the seeded entry (runExecUnit, casesFilter, run.Sweep).
PodFile(u) ==
    [Bundled EXCEPT ![u] =
        [c \in Cases |-> IF c \in want[u] THEN sweep ELSE Seeded(u)[c]]]

\* The pod emits the unit's entry of it (collectResult).
Emitted(u) == PodFile(u)[u]

-----------------------------------------------------------------------------
(* The user.                                                               *)

Interrupt == /\ ctx = "live" /\ pc \notin {"returned", "crashed"}
             /\ ctx' = "cancelled"
             /\ UNCHANGED <<pc, plan, uploads, remote, memory, answer, history, dirVars>>

\* What the process knew is gone; the evaluation goes on, but nobody asks again.
Forgets == /\ conn' = "none" /\ queue' = <<>> /\ server' = Idle
           /\ inbox' = <<>> /\ after' = "stream" /\ landed' = {} /\ failed' = FALSE
           /\ answer' = "running" /\ asked' = FALSE /\ unsaved' = {}
           /\ uploads' = {} /\ saving' = NotSaving

Crash == /\ pc \notin {"returned", "crashed"}
         /\ pc' = "crashed" /\ Forgets
         /\ UNCHANGED <<ctx, plan, reported, dropped, littered, files>>

\* The command is run again, perhaps with another format: a new evaluation.
Rerun == /\ pc \in {"returned", "crashed"} /\ sweep < MaxSweeps
         /\ pc' = "plan" /\ ctx' = "live" /\ format' \in Formats
         /\ Forgets
         /\ UNCHANGED <<sweep, want, prior, reported, dropped, littered, files>>

-----------------------------------------------------------------------------
(* Planning and submitting.                                                *)

\* Entries that may be too large for the wire even when trimmed.
Oversized == {u \in Large : Loaded[u] # NoEntry}

\* The stored entry as it is, for the merge in the pod; an entry that could
\* not be read or is too large is not sent.
PriorEntry(u, out) == IF u \in out THEN NoEntry ELSE Loaded[u]

\* The cases are selected as run.Sweep would.
Plan == /\ pc = "plan" /\ sweep < MaxSweeps
        /\ sweep' = sweep + 1
        /\ want' \in Plans[sweep']
        /\ \E out \in SUBSET Oversized :
               /\ prior' = [u \in Units |-> IF want'[u] = {} THEN NoEntry
                                            ELSE PriorEntry(u, out)]
               /\ dropped' = dropped \cup {u \in out : want'[u] # {}}
        /\ uploads' = Planned'
        /\ IF Planned' = {} THEN Leave("ok") ELSE pc' = "upload" /\ UNCHANGED answer
        /\ UNCHANGED <<ctx, format, remote, memory, asked, unsaved, reported, littered,
                       dirVars>>

\* Any request before the submission is answered fails for good.  The service
\* may have accepted a submission whose answer is lost; it then runs an
\* evaluation that nobody asks for any more.
GiveUp == /\ pc \in {"upload", "submit"}
          /\ pc' = "returned" /\ answer' = "error"
          /\ \/ UNCHANGED server
             \/ pc = "submit" /\ server' = [server EXCEPT !.phase = "orphaned"]
          /\ UNCHANGED <<ctx, plan, uploads, conn, queue, memory, history, dirVars>>

\* The bundle of one unit is probed for and uploaded; units may share it.
Upload == /\ pc = "upload" /\ ctx = "live"
          /\ \E u \in uploads : uploads' = uploads \ {u}
          /\ pc' = IF uploads' = {} THEN "submit" ELSE "upload"
          /\ UNCHANGED <<ctx, plan, remote, memory, answer, history, dirVars>>

Submit == /\ pc = "submit" /\ ctx = "live"
          /\ server' = [server EXCEPT !.phase = "Running"]
          /\ pc' = "connect"
          /\ UNCHANGED <<ctx, plan, uploads, conn, queue, memory, answer, history, dirVars>>

-----------------------------------------------------------------------------
(* Following the stream (Client.Events).                                   *)

\* The server replays every unit, and the end of an evaluation that is over.
Connect == /\ pc = "connect" /\ ctx = "live"
           /\ conn' = "open" /\ pc' = "stream"
           /\ queue' = IF Serving THEN Snapshot ELSE Append(Snapshot, EndOfStream)
           /\ UNCHANGED <<ctx, plan, uploads, server, memory, answer, history, dirVars>>

\* The stream cannot be opened, breaks, or is abandoned on Ctrl-C.
StreamFails ==
    /\ \/ pc = "connect"
       \/ pc = "stream" /\ (conn = "none" \/ ctx = "cancelled")
    /\ conn' = "none" /\ queue' = <<>>
    /\ IF ctx = "cancelled" THEN Leave("error") ELSE pc' = "status" /\ UNCHANGED answer
    /\ UNCHANGED <<ctx, plan, uploads, server, memory, history, dirVars>>

Receive ==
    /\ pc = "stream" /\ conn = "open" /\ queue # <<>>
    /\ IF Head(queue).type = "unit"
       THEN inbox' = <<Head(queue)>> /\ after' = "stream" /\ UNCHANGED conn
       ELSE inbox' = Snapshot /\ after' = "return" /\ conn' = "none"
    /\ queue' = Tail(queue)
    /\ pc' = "apply"
    /\ UNCHANGED <<ctx, plan, uploads, server, landed, failed, answer, history,
                   dirVars>>

OnlyComplete == server.phase = "Complete" \* mutant
\* The evaluation is over, as a snapshot tells it.
Over == server.phase \in {"Complete", "Failed"}

\* Reconciling: the snapshot's units are applied before the stream is retried.
Reconcile ==
    /\ pc = "status" /\ ctx = "live"
    /\ inbox' = Snapshot
    /\ after' = IF Over THEN "final" ELSE "backoff"
    /\ pc' = "apply"
    /\ UNCHANGED <<ctx, plan, uploads, remote, landed, failed, answer, history,
                   dirVars>>

StatusFails == /\ pc = "status" /\ Leave("error")
               /\ UNCHANGED <<ctx, plan, uploads, remote, memory, history, dirVars>>

Backoff == /\ pc = "backoff"
           /\ IF ctx = "cancelled"
                THEN Leave("error")
                ELSE pc' = "connect" /\ UNCHANGED answer
           /\ UNCHANGED <<ctx, plan, uploads, remote, memory, history, dirVars>>

-----------------------------------------------------------------------------
(* Landing (onUnit, landUnit).                                             *)

Unit == Head(inbox).unit
State == Head(inbox).status
Next1 == inbox' = Tail(inbox)

\* A state that is old news, or not yet final.
Ignore ==
    /\ pc = "apply" /\ inbox # <<>>
    /\ Unit \in landed \/ State \notin Settled
    /\ Next1
    /\ UNCHANGED <<ctx, pc, plan, uploads, remote, after, landed, failed, answer, history,
                   dirVars>>

ToLand == pc = "apply" /\ inbox # <<>> /\ Unit \notin landed

\* A unit the fleet cannot run is skipped; any other loss is a failure.
LandLoss ==
    /\ ToLand /\ State \in Losses
    /\ landed' = landed \cup {Unit}
    /\ failed' = (failed \/ State # "unavailable")
    /\ Next1
    /\ UNCHANGED <<ctx, pc, plan, uploads, remote, after, answer, history, dirVars>>

MergedAtPlan(u) == [prior EXCEPT ![u] = Emitted(u)] \* mutant
\* The entry replaces the unit's in the file as it is now.
Merged(u) == [Loaded EXCEPT ![u] = Emitted(u)]

LandResult ==
    /\ ToLand /\ State \in Results
    /\ landed' = landed \cup {Unit}
    /\ IF TooNew
       THEN /\ failed' = TRUE /\ unsaved' = unsaved \cup {Unit} /\ Next1
            /\ UNCHANGED <<pc, saving, littered>>
       ELSE /\ StartSave(format, Merged(Unit)) /\ pc' = "save"
            /\ littered' = (Cardinality(Others(format)) > 1)
            /\ UNCHANGED <<inbox, failed, unsaved>>
    /\ UNCHANGED <<ctx, plan, uploads, remote, after, answer, asked, reported,
                   dropped, files>>

Save == /\ pc = "save" /\ (WriteTemp \/ Rename \/ RemoveSibling)
        /\ UNCHANGED <<ctx, pc, plan, uploads, remote, memory, answer, history>>

SwallowFailure == FALSE \* mutant
FailedSave == TRUE

SaveFails ==
    /\ pc = "save" /\ SaveBreaks
    /\ failed' = (failed \/ FailedSave) /\ unsaved' = unsaved \cup {Unit}
    /\ saving' = NotSaving /\ Next1 /\ pc' = "apply"
    /\ UNCHANGED <<ctx, plan, uploads, remote, after, landed, answer, asked,
                   reported, dropped, littered, files>>

\* The unit is reported finished.
Report ==
    /\ pc = "save" /\ Saved
    /\ failed' = (failed \/ State = "fail")
    /\ reported' = [reported EXCEPT ![Unit] = [c \in Cases |->
                       IF c \in want[Unit] THEN sweep ELSE @[c]]]
    /\ saving' = NotSaving /\ Next1 /\ pc' = "apply"
    /\ UNCHANGED <<ctx, plan, uploads, remote, after, landed, answer, asked,
                   unsaved, dropped, littered, files>>

\* onUnit has seen every state it was given.  The units of the final snapshot
\* are applied once more, whoever delivered it.
Applied ==
    /\ pc = "apply" /\ inbox = <<>>
    /\ CASE after \in {"stream", "backoff"} ->
                pc' = after /\ UNCHANGED <<inbox, after, failed, answer>>
         [] after = "final" ->
                inbox' = Snapshot /\ after' = "return" /\ UNCHANGED <<pc, failed, answer>>
         [] OTHER ->
                /\ failed' = (failed \/ server.phase = "Failed")
                /\ Leave(IF failed' THEN "failed" ELSE "ok")
                /\ UNCHANGED <<inbox, after>>
    /\ UNCHANGED <<ctx, plan, uploads, remote, landed, history, dirVars>>

CancelsFailed == ctx = "cancelled" /\ answer = "error" \* mutant
Cancels == ctx = "cancelled"

\* On the way out, an interrupted sweep asks the service to cancel with a
\* context of its own; it may not get through.
Close == /\ pc = "closing"
         /\ pc' = "returned"
         /\ asked' = (Cancels /\ server.phase # "none")
         /\ \/ asked' /\ Serving /\ server' = [server EXCEPT !.phase = "deleted"]
            \/ UNCHANGED server
         /\ UNCHANGED <<ctx, plan, uploads, conn, queue, memory, answer, unsaved, reported,
                        dropped, littered, dirVars>>

Landing == Ignore \/ LandLoss \/ LandResult \/ Save \/ SaveFails \/ Report \/ Applied
Following == Connect \/ StreamFails \/ Receive \/ Reconcile \/ StatusFails \/ Backoff
Client == Plan \/ GiveUp \/ Upload \/ Submit \/ Following \/ Landing \/ Close
Stopped == pc \in {"returned", "crashed"} /\ sweep = MaxSweeps /\ UNCHANGED vars

Next == \/ Client \/ Interrupt \/ Crash \/ Rerun
        \/ \E u \in Units : Settle(u)
        \/ Conclude \/ Drop \/ KeepAlive
        \/ Stopped

\* The client makes progress, the service settles what it was given, and TCP
\* notices a dead peer.  Nothing is assumed of the connection otherwise.
Spec == /\ Init /\ [][Next]_vars
        /\ WF_vars(Client) /\ WF_vars(Conclude) /\ WF_vars(KeepAlive)
        /\ \A u \in Units : WF_vars(Settle(u))
-----------------------------------------------------------------------------
(* Properties.                                                             *)

\* Every variable has its type, and only units that were submitted land
\* (runSet, planOne).
TypeOK ==
    /\ ctx \in {"live", "cancelled"} /\ sweep \in 1 .. MaxSweeps
    /\ pc \in {"plan", "upload", "submit", "connect", "stream", "status", "backoff",
               "apply", "save", "closing", "returned", "crashed"}
    /\ files \in [ToSet(Extensions) -> ResultsFile]
    /\ saving.models \in Models
    /\ conn \in {"none", "open", "dead"} /\ (queue # <<>> => conn = "open")
    /\ inbox # <<>> => pc \in {"apply", "save", "crashed"}
    /\ \A u \in landed : want[u] # {}
    /\ answer \in {"running", "ok", "failed", "error"}

\* A sweep that returns without an error has accounted for every unit it
\* submitted, whatever was lost, repeated or reordered on the way: the unit's
\* result is reported saved, or it was skipped, or the sweep reports failure;
\* and it reports failure only for a reason (onUnit, Sweep).
ReturnExact ==
    pc = "returned" /\ answer \in {"ok", "failed"} =>
        /\ \A u \in Planned :
              \/ \A c \in want[u] : reported[u][c] = sweep
              \/ server.unit[u] = "unavailable"
              \/ answer = "failed"
        /\ answer = "failed" => \/ unsaved # {} \/ server.phase = "Failed"
                                \/ \E u \in Planned : server.unit[u] \in {"fail", "lost"}

\* "Ctrl-C cancels server-side": an interrupted sweep that has the answer to its
\* submission never returns without asking the service to cancel, and no other
\* sweep asks (the deferred cancel of Sweep).  Without the answer it does not
\* know what to cancel: an evaluation accepted all the same goes on.
InterruptCancels ==
    pc = "returned" =>
        (asked <=> ctx = "cancelled" /\ server.phase \notin {"none", "orphaned"})

\* What a reader finds in the results file changes only by one submitted unit's
\* entry landing whole, with what the pod kept of the prior entry; never by a
\* half-done save, a format switch, a crash or another unit (landUnit, SaveDir).
\* The exception is a save that finds the leftovers of a killed one in a third
\* format: as its siblings go one by one, the leftover comes to light for a moment.
LandingPreserves ==
    [][~littered' /\ Loaded' # Loaded =>
           \E u \in Planned : Loaded' = [Loaded EXCEPT ![u] = Emitted(u)]]_vars

\* A result whose landing was reported stays in the file, or a later one does,
\* across crashes, reruns of other cases and changes of format, as long as the
\* unit's entries fit on the wire.
ReportedIsDurable ==
    \A u \in Units \ dropped, c \in Cases : reported[u][c] <= Loaded[u][c]

\* The sweep always comes to an end, even when the stream never stays open long
\* enough to deliver the evaluation's end.
Returns == pc = "submit" ~> pc \in {"returned", "crashed"}
=============================================================================
