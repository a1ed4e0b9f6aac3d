---------------------------- MODULE AgentRunProofs ----------------------------
(***************************************************************************)
(* For any number of lines and every way a run is watched: a hit is never  *)
(* invented, an activation is never lost, and Exec.Run is the single,      *)
(* context-respecting answer that the pools are built on.                  *)
(*                                                                         *)
(* That no activation is lost is a fact about the answer; what keeps it is *)
(* where the activation is on the way there.  RunInv follows it: until the *)
(* loop has seen it, or the run's context has ended, it is in the pipe or  *)
(* in the channel, and the end of the file comes behind it.                *)
(***************************************************************************)
EXTENDS AgentRun, TLAPS

\* An activation line that is still on its way from the agent to the loop.
InPipe == \E i \in 1 .. Len(pipe) : pipe[i] = "activation"
OnItsWay == InPipe \/ ch = <<"activation">>

\* A line comes from the agent, and one that is not lost yet can be found.
Activations ==
    /\ Len(pipe) <= written
    /\ OnItsWay => shown
    /\ Scanning /\ shown /\ run = "live" => hit \/ OnItsWay

\* The final event is the last one, and the loop leaves a live run only with it.
Ends ==
    /\ eofSent => pipe = <<>> /\ ~alive
    /\ ch = <<"eof">> => eofSent
    /\ loop = "drain" => run # "live"
    /\ Scanning /\ loop \in {"wait", "returned"} /\ run = "live"
           => eofSent /\ ch = <<>>

\* What the run's context ended by, and what follows from being returned.
Causes ==
    /\ loop = "collect" => ~Scanning
    /\ hit => shown \/ marker
    /\ run = "cancelled" => hit \/ parent = "cancelled"
    /\ answer = "pending" <=> loop # "returned"
    /\ loop = "returned" => ~alive

RunInv == TypeOK /\ Activations /\ Ends /\ Causes /\ HitMeansActivation
          /\ ActivationCounted

-----------------------------------------------------------------------------
\* Nothing is written, and the context is live.
LEMMA InitRun == Init => RunInv
<1> SUFFICES ASSUME Init PROVE RunInv
  OBVIOUS
<1> USE AgentRunAssumption DEF Init
<1>1. TypeOK
  <2>1. pipe \in Seq(Lines) /\ Len(pipe) = 0 /\ Len(pipe) <= MaxLines
    OBVIOUS
  <2>2. /\ alive \in BOOLEAN /\ marker \in BOOLEAN /\ shown \in BOOLEAN
        /\ eofSent \in BOOLEAN /\ hit \in BOOLEAN /\ timedOut \in BOOLEAN
    BY Zenon
  <2>3. written \in 0 .. MaxLines
    OBVIOUS
  <2> QED BY <2>1, <2>2, <2>3 DEF TypeOK
<1>2. Activations /\ Ends
  BY DEF Activations, Ends, OnItsWay, InPipe, Scanning
<1>3. Causes /\ HitMeansActivation /\ ActivationCounted
  BY DEF Causes, HitMeansActivation, ActivationCounted, Scanning
<1> QED BY <1>1, <1>2, <1>3 DEF RunInv

\* The agent writes, marks, exits or releases the pipe.
LEMMA ProcessRun ==
    ASSUME RunInv, Process \/ Release
    PROVE  RunInv'
<1> USE AgentRunAssumption DEF RunInv
<1>1. UNCHANGED <<mode, ch, eofSent, loop, hit, parent, run, answer, timedOut>>
  BY DEF Process, Write, Mark, Exit, Release, contexts, returned
<1>2. ASSUME NEW l \in Lines, Write(l)
      PROVE  RunInv'
  <2>1. /\ alive /\ written < MaxLines /\ written' = written + 1
        /\ pipe' = Append(pipe, l)
        /\ shown' = (shown \/ l = "activation")
        /\ UNCHANGED <<alive, held, marker>>
    BY <1>2 DEF Write
  <2>2. ~eofSent /\ loop # "returned"
    BY <2>1 DEF Ends, Causes
  <2>3. /\ pipe' \in Seq(Lines) /\ Len(pipe') = Len(pipe) + 1
        /\ \A i \in 1 .. Len(pipe) : pipe'[i] = pipe[i]
        /\ pipe'[Len(pipe) + 1] = l
    BY <2>1 DEF TypeOK
  <2>4. InPipe' <=> InPipe \/ l = "activation"
    <3>1. Len(pipe) \in Nat
      BY DEF TypeOK
    <3> QED BY <2>3, <3>1 DEF InPipe
  <2>5. TypeOK'
    <3>1. Len(pipe') <= MaxLines /\ written' \in 0 .. MaxLines
      BY <2>1, <2>3 DEF TypeOK, Activations
    <3>2. shown' \in BOOLEAN
      BY <2>1, Zenon DEF TypeOK
    <3> QED BY <1>1, <2>1, <2>3, <3>1, <3>2 DEF TypeOK
  <2>6. Activations'
    <3>1. Len(pipe') <= written'
      BY <2>1, <2>3 DEF TypeOK, Activations
    <3>2. OnItsWay' <=> OnItsWay \/ l = "activation"
      BY <1>1, <2>4 DEF OnItsWay
    <3> QED BY <1>1, <2>1, <3>1, <3>2 DEF Activations, Scanning
  <2>7. Ends'
    BY <1>1, <2>1, <2>2 DEF Ends, Scanning
  <2>8. Causes' /\ HitMeansActivation' /\ ActivationCounted'
    BY <1>1, <2>1, <2>2 DEF Causes, HitMeansActivation, ActivationCounted, Scanning
  <2> QED BY <2>5, <2>6, <2>7, <2>8
<1>3. CASE Mark
  <2>1. alive /\ marker' = TRUE /\ UNCHANGED <<alive, held, pipe, written, shown>>
    BY <1>3 DEF Mark
  <2>2. loop # "returned"
    BY <2>1 DEF Causes
  <2>3. TypeOK'
    BY <1>1, <2>1 DEF TypeOK
  <2>4. Activations' /\ Ends'
    BY <1>1, <2>1 DEF Activations, Ends, OnItsWay, InPipe, Scanning
  <2>5. Causes' /\ HitMeansActivation' /\ ActivationCounted'
    BY <1>1, <2>1, <2>2 DEF Causes, HitMeansActivation, ActivationCounted, Scanning
  <2> QED BY <2>3, <2>4, <2>5
<1>4. CASE Exit \/ Release
  <2>1. /\ UNCHANGED <<pipe, written, marker, shown>>
        /\ alive' \in BOOLEAN /\ held' \in BOOLEAN /\ (~alive => ~alive')
    <3>1. CASE Exit
      BY <3>1 DEF Exit, TypeOK
    <3>2. CASE Release
      BY <3>2 DEF Release, TypeOK
    <3> QED BY <1>4, <3>1, <3>2
  <2>2. TypeOK'
    BY <1>1, <2>1 DEF TypeOK
  <2>3. Activations' /\ Ends'
    BY <1>1, <2>1 DEF Activations, Ends, OnItsWay, InPipe, Scanning
  <2>4. Causes' /\ HitMeansActivation' /\ ActivationCounted'
    BY <1>1, <2>1 DEF Causes, HitMeansActivation, ActivationCounted, Scanning
  <2> QED BY <2>2, <2>3, <2>4
<1> QED BY <1>2, <1>3, <1>4 DEF Process

\* The timer and the caller's cancellation end the run's context.
LEMMA ContextRun ==
    ASSUME RunInv, Deadline \/ Interrupt
    PROVE  RunInv'
<1> USE DEF RunInv
<1>1. /\ UNCHANGED <<mode, alive, held, pipe, written, marker, shown, ch, eofSent,
                     loop, hit, answer, timedOut>>
      /\ loop # "returned" /\ run' # "live"
      /\ run' = run \/ run' \in {"cancelled", "deadline"}
      /\ parent' \in {"live", "cancelled"}
      /\ parent = "cancelled" => parent' = "cancelled"
      /\ run' = "cancelled" => run = "cancelled" \/ parent' = "cancelled"
  BY DEF Deadline, Interrupt, process, returned, Ended, TypeOK
<1>2. TypeOK'
  BY <1>1 DEF TypeOK
<1>3. Activations' /\ Ends'
  BY <1>1 DEF Activations, Ends, OnItsWay, InPipe, Scanning
<1>4. Causes' /\ HitMeansActivation' /\ ActivationCounted'
  BY <1>1 DEF Causes, HitMeansActivation, ActivationCounted, Scanning
<1> QED BY <1>2, <1>3, <1>4

\* The channel holds one entry at most.
LEMMA OneEntry ==
    ASSUME TypeOK, ch # <<>>
    PROVE  ch = <<ch[1]>> /\ Tail(ch) = <<>> /\ ch[1] \in Lines \cup {"eof"}
<1>1. PICK l \in Lines \cup {"eof"} : ch = <<l>>
  BY DEF TypeOK
<1>2. ch[1] = l /\ Len(Tail(ch)) = 0 /\ Tail(ch) \in Seq(Lines \cup {"eof"})
  BY <1>1
<1>3. Tail(ch) = <<>>
  <2>1. \A t \in Seq(Lines \cup {"eof"}) : Len(t) = 0 => t = <<>>
    OBVIOUS
  <2> QED BY <1>2, <2>1, Zenon
<1> QED BY <1>1, <1>2, <1>3

\* The head of a nonempty pipe is a line, and the rest is the pipe without it.
LEMMA PipeHead ==
    ASSUME TypeOK, pipe # <<>>
    PROVE  /\ Head(pipe) \in Lines
           /\ Tail(pipe) \in Seq(Lines) /\ Len(Tail(pipe)) = Len(pipe) - 1
           /\ Len(pipe) \in Nat \ {0}
           /\ InPipe <=> \/ Head(pipe) = "activation"
                         \/ \E i \in 1 .. Len(Tail(pipe)) :
                                Tail(pipe)[i] = "activation"
<1>1. pipe \in Seq(Lines)
  BY DEF TypeOK
<1>2. /\ Head(pipe) = pipe[1] /\ Head(pipe) \in Lines
      /\ Tail(pipe) \in Seq(Lines) /\ Len(Tail(pipe)) = Len(pipe) - 1
      /\ Len(pipe) \in Nat \ {0}
      /\ \A i \in 1 .. Len(Tail(pipe)) : Tail(pipe)[i] = pipe[i + 1]
  BY <1>1
<1>3. ASSUME NEW i \in 1 .. Len(pipe), i # 1
      PROVE  /\ i - 1 \in 1 .. Len(Tail(pipe))
             /\ Tail(pipe)[i - 1] = pipe[i]
  BY <1>2, <1>3
<1>4. \A i \in 1 .. Len(Tail(pipe)) : i + 1 \in 1 .. Len(pipe)
  BY <1>2
<1>5. 1 \in 1 .. Len(pipe)
  BY <1>2
<1> QED BY <1>2, <1>3, <1>4, <1>5 DEF InPipe

\* The reader moves a line into the empty channel, or the final event.
LEMMA ReaderRun ==
    ASSUME RunInv, Reader
    PROVE  RunInv'
<1> USE DEF RunInv
<1>1. /\ UNCHANGED <<mode, alive, held, written, marker, shown, loop, hit, parent,
                     run, answer, timedOut>>
      /\ Scanning /\ ch = <<>>
  BY DEF Reader, ReadLine, ReadEof, CanSend, process, contexts, returned, TypeOK
<1>2. Causes' /\ HitMeansActivation' /\ ActivationCounted'
  BY <1>1 DEF Causes, HitMeansActivation, ActivationCounted, Scanning
<1>3. CASE ReadLine
  <2>1. pipe # <<>> /\ pipe' = Tail(pipe) /\ ch' = <<Head(pipe)>> /\ UNCHANGED eofSent
    BY <1>1, <1>3 DEF ReadLine
  <2>2. ~eofSent /\ Head(pipe) \in Lines /\ Head(pipe) # "eof"
    BY <2>1, PipeHead DEF Ends, Lines
  <2>3. TypeOK'
    <3>1. pipe' \in Seq(Lines) /\ Len(pipe') <= MaxLines
      BY <2>1, PipeHead, AgentRunAssumption DEF TypeOK
    <3> QED BY <1>1, <2>1, <2>2, <3>1 DEF TypeOK
  <2>4. OnItsWay' <=> OnItsWay
    BY <1>1, <2>1, PipeHead DEF OnItsWay, InPipe
  <2>5. Len(pipe') <= written'
    BY <1>1, <2>1, PipeHead DEF TypeOK, Activations
  <2>6. Activations'
    BY <1>1, <2>4, <2>5 DEF Activations, Scanning
  <2>7. Ends'
    BY <1>1, <2>1, <2>2 DEF Ends, Scanning
  <2> QED BY <1>2, <2>3, <2>6, <2>7
<1>4. CASE ReadEof
  <2>1. ch' = <<"eof">> /\ eofSent' = TRUE /\ pipe = <<>> /\ ~alive /\ UNCHANGED pipe
    BY <1>1, <1>4 DEF ReadEof, Eof, process
  <2>2. ~eofSent
    BY <1>4 DEF ReadEof
  <2>3. TypeOK'
    BY <1>1, <2>1 DEF TypeOK
  <2>4. OnItsWay' <=> OnItsWay
    BY <1>1, <2>1 DEF OnItsWay, InPipe
  <2>5. Activations'
    BY <1>1, <2>1, <2>4 DEF Activations, Scanning
  <2>6. Ends'
    BY <1>1, <2>1, <2>2 DEF Ends, Scanning
  <2> QED BY <1>2, <2>3, <2>5, <2>6
<1> QED BY <1>3, <1>4 DEF Reader

\* The loop takes a line or the marker, and ends its own run at the first hit.
LEMMA HitRun ==
    ASSUME RunInv, TakeLine \/ Tick
    PROVE  RunInv'
<1> USE DEF RunInv
<1>1. /\ UNCHANGED <<mode, alive, held, pipe, written, marker, shown, eofSent, loop,
                     parent, answer, timedOut>>
      /\ loop = "scan" /\ hit' \in BOOLEAN /\ (hit => hit')
      /\ run' = run \/ (hit' /\ run = "live" /\ run' = "cancelled")
      /\ run' = IF ~hit /\ hit' THEN Ended("cancelled") ELSE run
  BY DEF TakeLine, Tick, process, returned, Ended, TypeOK
<1>2. \/ UNCHANGED ch
      \/ /\ ch # <<>> /\ ch' = <<>> /\ ch # <<"eof">>
         /\ hit' = (hit \/ ch = <<"activation">>)
  <2>1. CASE TakeLine
    <3>1. ch # <<>> /\ ch[1] # "eof" /\ ch' = Tail(ch)
          /\ hit' = (hit \/ ch[1] = "activation")
      BY <2>1 DEF TakeLine, OnLine
    <3>2. ch = <<ch[1]>> /\ ch' = <<>>
      BY <3>1, OneEntry
    <3>3. ch # <<"eof">> /\ (ch[1] = "activation" <=> ch = <<"activation">>)
      BY <3>1, <3>2
    <3> QED BY <3>1, <3>2, <3>3
  <2>2. CASE Tick
    BY <2>2 DEF Tick
  <2> QED BY <2>1, <2>2
<1>4. hit' => shown \/ marker
  <2>1. CASE TakeLine
    <3>1. hit' = (hit \/ ch = <<"activation">>)
      BY <2>1 DEF TakeLine, OnLine, TypeOK
    <3> QED BY <3>1 DEF Causes, Activations, OnItsWay
  <2>2. CASE Tick
    BY <2>2 DEF Tick
  <2> QED BY <2>1, <2>2
<1>5. TypeOK'
  BY <1>1, <1>2 DEF TypeOK
<1>6. Activations'
  <2>1. OnItsWay' => OnItsWay
    BY <1>1, <1>2 DEF OnItsWay, InPipe
  <2>2. OnItsWay => OnItsWay' \/ hit'
    BY <1>1, <1>2 DEF OnItsWay, InPipe
  <2> QED BY <1>1, <2>1, <2>2 DEF Activations, Scanning
<1>7. Ends'
  BY <1>1, <1>2 DEF Ends, Scanning
<1>8. Causes' /\ HitMeansActivation' /\ ActivationCounted'
  BY <1>1, <1>4 DEF Causes, HitMeansActivation, ActivationCounted, Scanning
<1> QED BY <1>5, <1>6, <1>7, <1>8

\* The loop drains, gives up, takes the final event, or collects.
LEMMA LoopRun ==
    ASSUME RunInv,
           ContextDone \/ Drain \/ GiveUp \/ TakeEof \/ Collect \/ Collected
    PROVE  RunInv'
<1> USE DEF RunInv
<1>1. /\ UNCHANGED <<mode, alive, held, written, marker, shown, eofSent, hit, parent,
                     run, answer, timedOut>>
      /\ loop # "returned"
      /\ loop' = loop \/ loop' \in {"drain", "wait"}
  <2> USE DEF process, contexts, returned
  <2>1. CASE ContextDone \/ GiveUp \/ Collected
    BY <2>1 DEF ContextDone, GiveUp, Collected
  <2>2. CASE Drain \/ Collect
    BY <2>2 DEF Drain, Collect
  <2>3. CASE TakeEof
    BY <2>3 DEF TakeEof, SeesEof
  <2> QED BY <2>1, <2>2, <2>3
<1>2. Causes' /\ HitMeansActivation' /\ ActivationCounted'
  BY <1>1 DEF Causes, HitMeansActivation, ActivationCounted, Scanning
<1>3. CASE Collect
  <2>1. loop = "collect" /\ pipe # <<>> /\ pipe' = Tail(pipe) /\ UNCHANGED <<ch, loop>>
    BY <1>3 DEF Collect
  <2>2. ~Scanning /\ ~eofSent
    BY <2>1 DEF Causes, Ends
  <2>3. TypeOK' /\ Len(pipe') <= written'
    BY <1>1, <2>1, PipeHead, AgentRunAssumption DEF TypeOK, Activations
  <2>4. OnItsWay' => OnItsWay
    BY <1>1, <2>1, PipeHead DEF OnItsWay, InPipe
  <2>5. Activations' /\ Ends'
    BY <1>1, <2>1, <2>2, <2>3, <2>4 DEF Activations, Ends, Scanning
  <2> QED BY <1>2, <2>3, <2>5
<1>4. CASE ContextDone \/ GiveUp \/ Collected
  <2>1. UNCHANGED <<pipe, ch>> /\ (loop' = "drain" => run # "live")
        /\ (run # "live" \/ ~Scanning)
    BY <1>4 DEF ContextDone, GiveUp, Collected, process, Causes, Ends
  <2>2. TypeOK'
    BY <1>1, <2>1 DEF TypeOK
  <2>3. Activations' /\ Ends'
    BY <1>1, <2>1 DEF Activations, Ends, OnItsWay, InPipe, Scanning
  <2> QED BY <1>2, <2>2, <2>3
<1>5. CASE Drain
  <2>1. loop = "drain" /\ ch' = <<>> /\ UNCHANGED <<pipe, loop>> /\ run # "live"
    <3>1. ch' = <<>>
      BY <1>5, OneEntry DEF Drain
    <3> QED BY <1>5, <3>1 DEF Drain, Ends, process
  <2>2. TypeOK'
    BY <1>1, <2>1 DEF TypeOK
  <2>3. Activations' /\ Ends'
    BY <1>1, <2>1 DEF Activations, Ends, OnItsWay, InPipe, Scanning
  <2> QED BY <1>2, <2>2, <2>3
<1>6. CASE TakeEof
  <2>1. ch = <<"eof">> /\ ch' = <<>> /\ loop' = "wait" /\ UNCHANGED pipe
    <3>1. ch # <<>> /\ ch[1] = "eof" /\ ch' = Tail(ch) /\ loop' = "wait" /\ UNCHANGED pipe
      BY <1>6 DEF TakeEof, process
    <3> QED BY <3>1, OneEntry
  <2>2. eofSent
    BY <2>1 DEF Ends
  <2>3. TypeOK'
    BY <1>1, <2>1 DEF TypeOK
  <2>4. Activations'
    BY <1>1, <2>1 DEF Activations, OnItsWay, InPipe, Scanning
  <2>5. Ends'
    BY <1>1, <2>1, <2>2 DEF Ends, Scanning
  <2> QED BY <1>2, <2>3, <2>4, <2>5
<1> QED BY <1>3, <1>4, <1>5, <1>6

\* Exec.Run returns: a miss of a run that nothing cut short has no activation.
LEMMA ReturnRun ==
    ASSUME RunInv, Return
    PROVE  RunInv'
<1> USE DEF RunInv
<1>1. /\ UNCHANGED <<mode, alive, held, pipe, written, marker, shown, ch, eofSent, hit,
                     parent, run>>
      /\ loop = "wait" /\ ~alive /\ loop' = "returned"
  BY DEF Return, process, contexts
<1>2. \/ Aborted /\ answer' = "error" /\ UNCHANGED timedOut
      \/ /\ ~Aborted /\ timedOut' = TimedOut
         /\ answer' = IF ~Scanning THEN "output" ELSE IF Counted THEN "hit" ELSE "miss"
  BY DEF Return
<1>3. TypeOK'
  <2>1. timedOut' \in BOOLEAN
    BY <1>2 DEF TimedOut, TypeOK
  <2>2. answer' \in {"pending", "error", "hit", "miss", "output"}
    BY <1>2
  <2> QED BY <1>1, <2>1, <2>2 DEF TypeOK
<1>4. Activations' /\ Ends'
  BY <1>1 DEF Activations, Ends, OnItsWay, InPipe, Scanning
<1>5. Causes'
  BY <1>1, <1>2 DEF Causes, Scanning
<1>6. HitMeansActivation'
  BY <1>1, <1>2 DEF HitMeansActivation, Counted, Causes
<1>7. ActivationCounted'
  <2> SUFFICES ASSUME answer' = "miss", ~timedOut'
               PROVE  ~shown /\ ~(mode = "sideChannel" /\ marker)
    BY <1>1 DEF ActivationCounted
  <2>1. ~Aborted /\ ~TimedOut /\ Scanning /\ ~Counted
    BY <1>2
  <2>2. run = "live"
    BY <2>1 DEF Aborted, TimedOut, Counted, Causes, TypeOK
  <2>3. pipe = <<>> /\ ch = <<>>
    BY <1>1, <2>1, <2>2 DEF Ends
  <2>4. ~OnItsWay
    BY <2>3 DEF OnItsWay, InPipe
  <2> QED BY <2>1, <2>2, <2>4 DEF Counted, Activations
<1> QED BY <1>3, <1>4, <1>5, <1>6, <1>7

\* Every step keeps the invariant.
LEMMA StepRun == RunInv /\ [Next]_vars => RunInv'
<1> SUFFICES ASSUME RunInv, [Next]_vars PROVE RunInv'
  OBVIOUS
<1>1. CASE UNCHANGED vars
  BY <1>1 DEF vars, RunInv, TypeOK, Activations, Ends, Causes, HitMeansActivation,
              ActivationCounted, OnItsWay, InPipe, Scanning
<1>2. CASE Next
  BY <1>1, <1>2, ProcessRun, ContextRun, ReaderRun, HitRun, LoopRun, ReturnRun
     DEF Next, Main, Done
<1> QED BY <1>1, <1>2

\* The invariant of one invocation: where an activation is, what ended the
\* run, and what its end implies.
THEOREM RunInvariant == Spec => []RunInv
BY InitRun, StepRun, PTL DEF Spec

\* The invocation is type correct for any number of lines, its channel never
\* above one entry.
THEOREM RunTypeCorrect == Spec => []TypeOK
<1>1. RunInv => TypeOK
  BY DEF RunInv
<1> QED BY <1>1, RunInvariant, PTL

\* Exec.Run never invents an activation.
THEOREM RunHits == Spec => []HitMeansActivation
<1>1. RunInv => HitMeansActivation
  BY DEF RunInv
<1> QED BY <1>1, RunInvariant, PTL

\* Exec.Run never loses an activation of a run that nothing cut short.
THEOREM RunMisses == Spec => []ActivationCounted
<1>1. RunInv => ActivationCounted
  BY DEF RunInv
<1> QED BY <1>1, RunInvariant, PTL

-----------------------------------------------------------------------------
\* The initial state of the invocation is one of the abstract call.
LEMMA CallInit == Init => Call!Init
BY DEF Init, Call!Init

\* Interrupt cancels the call, Return answers it, no other step touches it.
LEMMA CallStep ==
    ASSUME RunInv, [Next]_vars
    PROVE  [Call!Next]_(Call!vars)
<1>1. CASE UNCHANGED <<parent, answer>>
  BY <1>1 DEF Call!vars
<1>2. CASE Interrupt
  BY <1>2 DEF Interrupt, returned, Call!Next, Call!Cancel
<1>3. CASE Return
  <2>1. answer = "pending" /\ UNCHANGED parent
    BY <1>3 DEF Return, contexts, RunInv, Causes
  <2>2. CASE Aborted
    BY <1>3, <2>1, <2>2 DEF Return, Aborted, Call!Next, Call!Fail
  <2>3. CASE ~Aborted
    <3>1. parent = "live" /\ answer' \in {"hit", "miss", "output"}
      BY <1>3, <2>3 DEF Return, Aborted, RunInv, TypeOK
    <3> QED BY <2>1, <3>1 DEF Call!Next, Call!Answer
  <2> QED BY <2>2, <2>3
<1> QED BY <1>1, <1>2, <1>3
        DEF Next, Process, Write, Mark, Exit, Release, Deadline, Reader, ReadLine,
            ReadEof, Main, TakeLine, Tick, ContextDone, Drain, GiveUp, TakeEof,
            Collect, Collected, Done, vars, contexts, returned

\* One invocation, with its process, pipe, channel and timers, implements the
\* abstract call of the pools: one answer, an outcome only while the caller is
\* live and an error only once it is not.
THEOREM RunImplementsAgentCall == Spec => ImplementsAgentCall
<1>1. Spec => []RunInv
  BY RunInvariant
<1> QED BY <1>1, CallInit, CallStep, PTL DEF Spec, ImplementsAgentCall, Call!Spec
=============================================================================
