------------------------------- MODULE AgentRun -------------------------------
(***************************************************************************)
(* One agent invocation: Exec.Run (internal/runner/runner.go), its scan    *)
(* loop, and what a trigger worker makes of the answer (the tail of the    *)
(* closure in runQueries, internal/run/triggers.go).                       *)
(*                                                                         *)
(* The agent process writes lines into a pipe and may leave a marker file  *)
(* (the side channel).  In scan mode a reader goroutine moves the lines    *)
(* into a channel of capacity one and the main loop selects among that     *)
(* channel, a ticker that polls the marker, and the run's context, which   *)
(* ends by the timeout, by the caller's cancellation, or by the loop's own *)
(* cancel() after a hit.  In collect mode the caller reads the pipe to its *)
(* end.  A killed agent may leave behind a process that keeps the pipe     *)
(* open (held).                                                            *)
(***************************************************************************)
EXTENDS Naturals, Sequences

CONSTANTS MaxLines, \* bound on lines the agent writes
          Modes     \* subset of {"scan", "sideChannel", "collect"}

ASSUME AgentRunAssumption ==
    MaxLines \in Nat /\ Modes \subseteq {"scan", "sideChannel", "collect"}

Lines == {"activation", "other"}

VARIABLES
    mode,    \* how the run is watched
    alive,   \* the agent process runs
    held,    \* a process outside the killed group holds the pipe open
    pipe,    \* lines written and not yet read
    written, \* number of lines written so far
    marker,  \* the side channel's file exists
    ch,      \* the channel: at most one line, or "eof"
    eofSent, \* the reader goroutine has delivered its final event
    loop,    \* "scan", "drain", "collect", "wait" or "returned"
    hit,     \* the loop saw an activation
    parent,  \* the caller's context: "live" or "cancelled"
    run,     \* the run's own: "live", "cancelled" or "deadline"
    answer,  \* "pending", "error", "hit", "miss" or "output"
    timedOut,\* Result.TimedOut
    shown    \* history: the agent wrote an activation line

vars == <<mode, alive, held, pipe, written, marker, ch, eofSent, loop, hit,
          parent, run, answer, timedOut, shown>>
process == <<alive, held, pipe, written, marker, shown>>
contexts == <<parent, run>>
returned == <<answer, timedOut>>

Init == /\ mode \in Modes
        /\ alive = TRUE /\ held \in BOOLEAN
        /\ pipe = <<>> /\ written = 0
        /\ marker = FALSE
        /\ ch = <<>> /\ eofSent = FALSE
        /\ loop = IF mode = "collect" THEN "collect" ELSE "scan"
        /\ hit = FALSE
        /\ parent = "live" /\ run = "live"
        /\ answer = "pending" /\ timedOut = FALSE
        /\ shown = FALSE

\* A context ends once; what ended it first stays its cause.
Ended(cause) == IF run = "live" THEN cause ELSE run

-----------------------------------------------------------------------------
(* The agent process.                                                      *)

Write(l) ==
    /\ alive /\ written < MaxLines
    /\ pipe' = Append(pipe, l)
    /\ written' = written + 1
    /\ shown' = (shown \/ l = "activation")
    /\ UNCHANGED <<mode, alive, held, marker, ch, eofSent, loop, hit, contexts,
                   returned>>

\* The PreToolUse hook of a harness with a side channel.
Mark ==
    /\ alive /\ mode = "sideChannel" /\ ~marker
    /\ marker' = TRUE
    /\ UNCHANGED <<mode, alive, held, pipe, written, shown, ch, eofSent, loop,
                   hit, contexts, returned>>

\* The agent exits, or os/exec kills its process group once the run's context
\* has ended.
Exit ==
    /\ alive
    /\ alive' = FALSE
    /\ UNCHANGED <<mode, held, pipe, written, marker, shown, ch, eofSent, loop,
                   hit, contexts, returned>>

\* A process that survives the group lets go of the pipe, or os/exec closes
\* it WaitDelay after the kill.
Release ==
    /\ held /\ ~alive
    /\ held' = FALSE
    /\ UNCHANGED <<mode, alive, pipe, written, marker, shown, ch, eofSent, loop,
                   hit, contexts, returned>>

Eof == pipe = <<>> /\ ~alive /\ ~held

-----------------------------------------------------------------------------
(* The run's context.                                                      *)

Deadline ==
    /\ run = "live" /\ loop # "returned"
    /\ run' = "deadline"
    /\ UNCHANGED <<mode, process, ch, eofSent, loop, hit, parent, returned>>

Interrupt ==
    /\ parent = "live" /\ loop # "returned"
    /\ parent' = "cancelled"
    /\ run' = Ended("cancelled")
    /\ UNCHANGED <<mode, process, ch, eofSent, loop, hit, returned>>

-----------------------------------------------------------------------------
(* scanStdout: the reader goroutine.                                       *)

Scanning == mode # "collect"

\* Mutant: a channel of capacity two.
CanSendTwo == Len(ch) < 2

\* ch <- blocks while the channel is full.
CanSend == Len(ch) < 1

ReadLine ==
    /\ Scanning /\ CanSend /\ pipe # <<>>
    /\ ch' = Append(ch, Head(pipe))
    /\ pipe' = Tail(pipe)
    /\ UNCHANGED <<mode, alive, held, written, marker, shown, eofSent, loop, hit,
                   contexts, returned>>

ReadEof ==
    /\ Scanning /\ CanSend /\ Eof /\ ~eofSent
    /\ ch' = Append(ch, "eof")
    /\ eofSent' = TRUE
    /\ UNCHANGED <<mode, process, loop, hit, contexts, returned>>

-----------------------------------------------------------------------------
(* scanStdout: the select loop.  Any ready case may be chosen.             *)

\* Mutant: any line ends the run.
OnAnyLine(l) == l \in Lines

OnLine(l) == l = "activation"

TakeLine ==
    /\ loop = "scan" /\ ch # <<>> /\ ch[1] # "eof"
    /\ ch' = Tail(ch)
    /\ hit' = (hit \/ OnLine(ch[1]))
    /\ run' = IF ~hit /\ hit' THEN Ended("cancelled") ELSE run
    /\ UNCHANGED <<mode, process, eofSent, loop, parent, returned>>

Tick ==
    /\ loop = "scan" /\ mode = "sideChannel" /\ marker /\ ~hit
    /\ hit' = TRUE
    /\ run' = Ended("cancelled")
    /\ UNCHANGED <<mode, process, ch, eofSent, loop, parent, returned>>

ContextDone ==
    /\ loop = "scan" /\ run # "live"
    /\ loop' = "drain"
    /\ UNCHANGED <<mode, process, ch, eofSent, hit, contexts, returned>>

\* Lines are dropped, further hits ignored.
Drain ==
    /\ loop = "drain" /\ ch # <<>> /\ ch[1] # "eof"
    /\ ch' = Tail(ch)
    /\ UNCHANGED <<mode, process, eofSent, loop, hit, contexts, returned>>

\* No event for waitDelay: some process keeps the pipe open.
GiveUp ==
    /\ loop = "drain" /\ ch = <<>> /\ pipe = <<>> /\ held
    /\ loop' = "wait"
    /\ UNCHANGED <<mode, process, ch, eofSent, hit, contexts, returned>>

\* Mutant: the final event is dropped while draining.
ScanSeesEof == loop = "scan"

SeesEof == loop \in {"scan", "drain"}

TakeEof ==
    /\ SeesEof /\ ch # <<>> /\ ch[1] = "eof"
    /\ ch' = Tail(ch)
    /\ loop' = "wait"
    /\ UNCHANGED <<mode, process, eofSent, hit, contexts, returned>>

-----------------------------------------------------------------------------
(* Collect mode: the pipe is drained to its end.                           *)

Collect ==
    /\ loop = "collect" /\ pipe # <<>>
    /\ pipe' = Tail(pipe)
    /\ UNCHANGED <<mode, alive, held, written, marker, shown, ch, eofSent, loop,
                   hit, contexts, returned>>

Collected ==
    /\ loop = "collect" /\ Eof
    /\ loop' = "wait"
    /\ UNCHANGED <<mode, process, ch, eofSent, hit, contexts, returned>>

-----------------------------------------------------------------------------
\* Mutant: without the fallback.
SeenInTime == hit

\* res.Hit, or the fallback of runQueries: the process died before the poller
\* saw the marker.
Counted == hit \/ (mode = "sideChannel" /\ marker)
TimedOut == run = "deadline"

\* Mutant: the run's own context decides, which an early exit cancels too.
RunCancelled == run = "cancelled"

Aborted == parent = "cancelled"

\* cmd.Wait returns, and the switch on the two contexts decides the answer.
Return ==
    /\ loop = "wait" /\ ~alive
    /\ loop' = "returned"
    /\ IF Aborted
       THEN answer' = "error" /\ UNCHANGED timedOut
       ELSE /\ timedOut' = TimedOut
            /\ answer' = IF ~Scanning THEN "output"
                         ELSE IF Counted THEN "hit" ELSE "miss"
    /\ UNCHANGED <<mode, process, ch, eofSent, hit, contexts>>

Process == (\E l \in Lines : Write(l)) \/ Mark \/ Exit
Reader == ReadLine \/ ReadEof
Main == TakeLine \/ Tick \/ ContextDone \/ Drain \/ GiveUp \/ TakeEof
        \/ Collect \/ Collected \/ Return
Done == loop = "returned" /\ UNCHANGED vars

Next == Process \/ Release \/ Deadline \/ Interrupt \/ Reader \/ Main \/ Done

Spec == Init /\ [][Next]_vars

\* The timer fires, a process whose context has ended is killed, os/exec
\* closes a pipe that is held after the kill, and goroutines are scheduled.
FairSpec == /\ Spec
            /\ WF_vars(Deadline) /\ WF_vars(run # "live" /\ Exit)
            /\ WF_vars(run # "live" /\ Release)
            /\ WF_vars(Reader) /\ WF_vars(Main)

-----------------------------------------------------------------------------
TypeOK ==
    /\ mode \in Modes
    /\ alive \in BOOLEAN /\ held \in BOOLEAN
    /\ pipe \in Seq(Lines) /\ Len(pipe) <= MaxLines
    /\ written \in 0 .. MaxLines
    /\ marker \in BOOLEAN /\ shown \in BOOLEAN
    /\ ch \in {<<>>} \cup {<<l>> : l \in Lines \cup {"eof"}}
    /\ eofSent \in BOOLEAN
    /\ loop \in {"scan", "drain", "collect", "wait", "returned"}
    /\ hit \in BOOLEAN
    /\ parent \in {"live", "cancelled"}
    /\ run \in {"live", "cancelled", "deadline"}
    /\ answer \in {"pending", "error", "hit", "miss", "output"}
    /\ timedOut \in BOOLEAN

\* An activation is never invented: a counted hit has its line or its marker.
HitMeansActivation == answer = "hit" => shown \/ marker

\* An activation is never lost: a run that ended by itself, with neither the
\* timeout nor the caller cutting it short, is a miss only if the agent wrote
\* no activation line and left no marker, however reading, polling and the
\* process's exit interleave.
ActivationCounted ==
    answer = "miss" /\ ~timedOut => ~shown /\ ~(mode = "sideChannel" /\ marker)

\* The answer the pools are built on: one, an outcome only while the caller
\* is live, an error only once it is not.
Call == INSTANCE AgentCall WITH
    Outcomes <- {"hit", "miss", "output"}, Pending <- "pending",
    Failure <- "error", live <- parent = "live", answer <- answer
ImplementsAgentCall == Call!Spec

\* Every invocation ends, whatever the agent writes, keeps open or ignores.
Terminates == <>(loop = "returned")

-----------------------------------------------------------------------------
(* A statement of the code's comments that the code does not keep.         *)

\* internal/runner/runner.go: "A timed-out run is not an error: it returns
\* TimedOut=true with whatever output arrived, so trigger runs count as
\* no-trigger".
TimedOutCountsAsNoTrigger == timedOut => answer # "hit"
=============================================================================
