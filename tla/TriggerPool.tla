----------------------------- MODULE TriggerPool -----------------------------
(***************************************************************************)
(* runQueries (internal/run/triggers.go): the queries of one trigger unit, *)
(* each run Runs times, at most Jobs at once.                              *)
(*                                                                         *)
(* Three kinds of goroutine.  The unit's own launches the runs in order    *)
(* through errgroup.Go, which blocks while Jobs of them are active, then   *)
(* waits for them, closes the outcomes channel and takes the collector's   *)
(* answer.  A worker runs one agent and hands its outcome over on an       *)
(* unbuffered channel.  The collector tallies outcomes and settles a       *)
(* query's verdict when its last run has been received.                    *)
(***************************************************************************)
EXTENDS Naturals, FiniteSets

CONSTANTS NQueries,      \* number of queries, launched in order 1..NQueries
          Runs,          \* --runs
          Jobs,          \* --jobs
          ShouldTrigger  \* the queries that must activate the skill

Queries == 1 .. NQueries
Tasks == Queries \X (1 .. Runs)

ASSUME PoolAssumption ==
    /\ NQueries \in Nat
    /\ Runs \in Nat \ {0}
    /\ Jobs \in Nat \ {0}
    /\ ShouldTrigger \subseteq Queries

VARIABLES
    main,      \* "launch", "wait", "collect", "returned"
    next,      \* the query the launching loop is at
    started,   \* ItemStarted was reported for these queries
    task,      \* state of each run
    outcome,   \* "none", or what the run reported: "hit" or "miss"
    hits,      \* collector: hits received per query
    remaining, \* collector: outcomes still to come per query
    verdict,   \* "none", "pass" or "fail", per query
    itemDone,  \* ItemDone reports per query
    failed,    \* collector: some settled query failed
    groupErr,  \* errgroup: a worker returned an error
    ctx,       \* the unit's context: "live" or "cancelled" (Ctrl-C)
    result     \* what runQueries returned: "none", "ok", "failed", "error"

vars == <<main, next, started, task, outcome, hits, remaining, verdict,
          itemDone, failed, groupErr, ctx, result>>
collector == <<hits, remaining, verdict, itemDone, failed>>

TaskState == {"unlaunched", "running", "sending", "received", "failed"}

\* Mutant: each query waits for one outcome.
OneToCome == 1

RunsToCome == Runs

Init == /\ main = "launch"
        /\ next = 1
        /\ started = {}
        /\ task = [t \in Tasks |-> "unlaunched"]
        /\ outcome = [t \in Tasks |-> "none"]
        /\ hits = [q \in Queries |-> 0]
        /\ remaining = [q \in Queries |-> RunsToCome]
        /\ verdict = [q \in Queries |-> "none"]
        /\ itemDone = [q \in Queries |-> 0]
        /\ failed = FALSE
        /\ groupErr = FALSE
        /\ ctx = "live"
        /\ result = "none"

\* Workers that hold one of the group's Jobs slots.
Active == {t \in Tasks : task[t] \in {"running", "sending"}}
Cancelled == groupErr \/ ctx = "cancelled"

-----------------------------------------------------------------------------
(* The launching loop: it does not look at the context.                    *)

StartItem ==
    /\ main = "launch" /\ next \in Queries \ started
    /\ started' = started \cup {next}
    /\ UNCHANGED <<main, next, task, outcome, collector, groupErr, ctx, result>>

CanLaunch == Cardinality(Active) < Jobs

Launch(r) ==
    /\ main = "launch" /\ next \in started
    /\ CanLaunch
    /\ task[<<next, r>>] = "unlaunched"
    /\ \A s \in 1 .. (r - 1) : task[<<next, s>>] # "unlaunched"
    /\ task' = [task EXCEPT ![<<next, r>>] = "running"]
    /\ UNCHANGED <<main, next, started, outcome, collector, groupErr, ctx,
                   result>>

NextItem ==
    /\ main = "launch" /\ next \in started
    /\ \A r \in 1 .. Runs : task[<<next, r>>] # "unlaunched"
    /\ next' = next + 1
    /\ UNCHANGED <<main, started, task, outcome, collector, groupErr, ctx,
                   result>>

LoopDone ==
    /\ main = "launch" /\ next \notin Queries
    /\ main' = "wait"
    /\ UNCHANGED <<next, started, task, outcome, collector, groupErr, ctx,
                   result>>

-----------------------------------------------------------------------------
(* Workers.                                                                *)

\* Runner.Run reports an error whenever its context is cancelled by the time
\* the agent is reaped; otherwise the run ends in a hit or a miss.
AgentReturns(t, o) ==
    /\ task[t] = "running"
    /\ ~Cancelled
    /\ task' = [task EXCEPT ![t] = "sending"]
    /\ outcome' = [outcome EXCEPT ![t] = o]
    /\ UNCHANGED <<main, next, started, collector, groupErr, ctx, result>>

\* Cancelled, or the CLI could not be started: the first error of a worker
\* cancels the group's context.
AgentErrs(t) ==
    /\ task[t] = "running"
    /\ task' = [task EXCEPT ![t] = "failed"]
    /\ groupErr' = TRUE
    /\ UNCHANGED <<main, next, started, outcome, collector, ctx, result>>

-----------------------------------------------------------------------------
(* The collector.                                                          *)

\* rate >= 0.5 where rate = hits / Runs
Passes(q, h) == IF q \in ShouldTrigger THEN 2 * h >= Runs ELSE 2 * h < Runs
Verdict(q, h) == IF Passes(q, h) THEN "pass" ELSE "fail"

\* Mutant: a query settles one run early.
SettledEarly(left) == left <= 1

Settled(left) == left = 0

\* Mutant: only hits count down.
LeftAfterHit(q, o) == IF o = "hit" THEN remaining[q] - 1 ELSE remaining[q]

Left(q, o) == remaining[q] - 1

\* Mutant: the last settled query decides.
LastFails(q, h) == ~Passes(q, h)

FailedWith(q, h) == failed \/ ~Passes(q, h)

Receive(t) ==
    LET q == t[1]
        h == IF outcome[t] = "hit" THEN hits[q] + 1 ELSE hits[q]
        left == Left(q, outcome[t])
    IN  /\ task[t] = "sending"
        /\ task' = [task EXCEPT ![t] = "received"]
        /\ hits' = [hits EXCEPT ![q] = h]
        /\ remaining' = [remaining EXCEPT ![q] = left]
        /\ IF Settled(left)
           THEN /\ verdict' = [verdict EXCEPT ![q] = Verdict(q, h)]
                /\ itemDone' = [itemDone EXCEPT ![q] = @ + 1]
                /\ failed' = FailedWith(q, h)
           ELSE UNCHANGED <<verdict, itemDone, failed>>
        /\ UNCHANGED <<main, next, started, outcome, groupErr, ctx, result>>

-----------------------------------------------------------------------------
\* Mutant: waiting for every run's outcome instead of every worker.
AllReceived == \A t \in Tasks : task[t] = "received"

Drained == Active = {}

\* g.Wait returns, and the outcomes channel is closed.
Close ==
    /\ main = "wait"
    /\ Drained
    /\ main' = "collect"
    /\ UNCHANGED <<next, started, task, outcome, collector, groupErr, ctx,
                   result>>

\* Mutant: the group's error is lost.
AnswerOfCollector == IF failed THEN "failed" ELSE "ok"

Answer == IF groupErr THEN "error" ELSE IF failed THEN "failed" ELSE "ok"

\* failed := <-collectorDone.  On an error the unit is abandoned unsaved.
Return ==
    /\ main = "collect"
    /\ main' = "returned"
    /\ result' = Answer
    /\ UNCHANGED <<next, started, task, outcome, collector, groupErr, ctx>>

Interrupt ==
    /\ ctx = "live" /\ main # "returned"
    /\ ctx' = "cancelled"
    /\ UNCHANGED <<main, next, started, task, outcome, collector, groupErr,
                   result>>

Loop == StartItem \/ (\E r \in 1 .. Runs : Launch(r)) \/ NextItem \/ LoopDone
        \/ Close \/ Return
Worker(t) == (\E o \in {"hit", "miss"} : AgentReturns(t, o)) \/ AgentErrs(t)
Collector == \E t \in Tasks : Receive(t)

Done == main = "returned" /\ UNCHANGED vars

Next == Loop \/ (\E t \in Tasks : Worker(t)) \/ Collector \/ Interrupt \/ Done

Spec == Init /\ [][Next]_vars

\* Goroutines are scheduled, and every agent run ends: its timeout kills it.
FairSpec == /\ Spec
            /\ WF_vars(Loop)
            /\ \A t \in Tasks : WF_vars(Worker(t))
            /\ WF_vars(Collector)

-----------------------------------------------------------------------------
TypeOK ==
    /\ main \in {"launch", "wait", "collect", "returned"}
    /\ next \in 1 .. (NQueries + 1)
    /\ started \subseteq Queries
    /\ task \in [Tasks -> TaskState]
    /\ outcome \in [Tasks -> {"none", "hit", "miss"}]
    /\ hits \in [Queries -> 0 .. Runs]
    /\ remaining \in [Queries -> 0 .. Runs]
    /\ verdict \in [Queries -> {"none", "pass", "fail"}]
    /\ itemDone \in [Queries -> 0 .. 1]
    /\ failed \in BOOLEAN /\ groupErr \in BOOLEAN
    /\ ctx \in {"live", "cancelled"}
    /\ result \in {"none", "ok", "failed", "error"}

\* The runs of q whose agent really reported a hit.
HitRuns(q) == {r \in 1 .. Runs : task[<<q, r>>] = "received"
                                 /\ outcome[<<q, r>>] = "hit"}
ReceivedRuns(q) == {r \in 1 .. Runs : task[<<q, r>>] = "received"}

\* No outcome is lost or counted twice on its way to the collector, whatever
\* the order the runs of several queries end in (hits[o.index]++,
\* remaining[o.index]--).
TallyExact ==
    \A q \in Queries :
        /\ hits[q] = Cardinality(HitRuns(q))
        /\ remaining[q] = Runs - Cardinality(ReceivedRuns(q))

\* A query has a verdict exactly when all its runs were counted, the verdict
\* is the majority rule over all of them, and it was reported exactly once.
VerdictFromAllRuns ==
    \A q \in Queries :
        /\ verdict[q] # "none" <=> \A r \in 1 .. Runs : task[<<q, r>>] = "received"
        /\ verdict[q] # "none" => verdict[q] = Verdict(q, Cardinality(HitRuns(q)))
        /\ itemDone[q] = IF verdict[q] = "none" THEN 0 ELSE 1

\* What the unit saves after a return without error is complete, and the
\* returned flag says whether any query failed; in particular a Ctrl-C that
\* cut some run short always surfaces as an error.
ReturnSound ==
    /\ result \in {"ok", "failed"} =>
           /\ \A q \in Queries : verdict[q] # "none"
           /\ result = "failed" <=> \E q \in Queries : verdict[q] = "fail"
    /\ result = "error" => \E t \in Tasks : task[t] = "failed"

\* Each query is one atomic step of the abstract unit, and the unit is handed
\* over whole or abandoned.
Unit == INSTANCE UnitRun WITH
    Cases <- Queries, Stale <- {}, Verdicts <- {"pass", "fail"},
    None <- "none",
    status <- CASE result = "none" -> "running"
                [] result = "error" -> "abandoned"
                [] OTHER -> "complete",
    verdict <- verdict, based <- {}
ImplementsUnitRun == Unit!Spec

\* The sweep gets past the unit: launching, handing over and collecting never
\* wait for each other in a circle, also after an error or a Ctrl-C.
Terminates == <>(main = "returned")
=============================================================================
