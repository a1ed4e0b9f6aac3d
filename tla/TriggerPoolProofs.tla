-------------------------- MODULE TriggerPoolProofs --------------------------
(***************************************************************************)
(* For every number of queries, runs and jobs: the collector's tally is    *)
(* exact, a verdict is the rule over all runs of its query, and what       *)
(* runQueries returns says the truth about them.                           *)
(*                                                                         *)
(* None of the three is inductive alone: the counters stay in their range  *)
(* only because they equal the cardinalities of sets of runs, and a return *)
(* without error is complete only because of where the goroutines are.     *)
(* PoolInv joins them.                                                     *)
(***************************************************************************)
EXTENDS TriggerPool, FiniteSetTheorems, TLAPS

\* Where the launching loop stands and what the workers have done so far.
Launched(q) == \A r \in 1 .. Runs : task[<<q, r>>] # "unlaunched"
Flow ==
    /\ \A q \in Queries : q < next => Launched(q)
    /\ main # "launch" => next = NQueries + 1
    /\ main \in {"collect", "returned"} => Active = {}
    /\ groupErr <=> \E t \in Tasks : task[t] = "failed"
    /\ failed <=> \E q \in Queries : verdict[q] = "fail"
    /\ IF main = "returned" THEN result = Answer ELSE result = "none"

PoolInv == TypeOK /\ TallyExact /\ VerdictFromAllRuns /\ Flow

-----------------------------------------------------------------------------
\* The sets of runs behind the counters are finite and bounded.
LEMMA RunSets ==
    ASSUME NEW q \in Queries
    PROVE  /\ IsFiniteSet(HitRuns(q)) /\ IsFiniteSet(ReceivedRuns(q))
           /\ Cardinality(HitRuns(q)) \in 0 .. Runs
           /\ Cardinality(ReceivedRuns(q)) \in 0 .. Runs
           /\ Cardinality(ReceivedRuns(q)) = Runs
                 => ReceivedRuns(q) = 1 .. Runs
<1>1. IsFiniteSet(1 .. Runs) /\ Cardinality(1 .. Runs) = Runs
  BY FS_Interval, PoolAssumption
<1>2. HitRuns(q) \in SUBSET (1 .. Runs) /\ ReceivedRuns(q) \in SUBSET (1 .. Runs)
  BY DEF HitRuns, ReceivedRuns
<1>3. \A T \in SUBSET (1 .. Runs) :
         /\ IsFiniteSet(T) /\ Cardinality(T) <= Runs
         /\ Cardinality(T) = Runs => T = 1 .. Runs
  BY <1>1, FS_Subset, Zenon
<1>4. Cardinality(HitRuns(q)) \in Nat /\ Cardinality(ReceivedRuns(q)) \in Nat
  BY <1>2, <1>3, FS_CardinalityType
<1> QED BY <1>2, <1>3, <1>4, PoolAssumption

\* A step that keeps the received runs and their outcomes keeps the tally.
LEMMA TallyStutters ==
    ASSUME TallyExact, VerdictFromAllRuns, UNCHANGED collector,
           \A t \in Tasks : task'[t] = "received" <=> task[t] = "received",
           \A t \in Tasks : task[t] = "received" => outcome'[t] = outcome[t]
    PROVE  TallyExact' /\ VerdictFromAllRuns'
<1>1. \A q \in Queries, r \in 1 .. Runs : <<q, r>> \in Tasks
  BY DEF Tasks
<1>2. \A q \in Queries : HitRuns(q)' = HitRuns(q)
                          /\ ReceivedRuns(q)' = ReceivedRuns(q)
  BY <1>1 DEF HitRuns, ReceivedRuns
<1>3. TallyExact'
  BY <1>2 DEF TallyExact, collector
<1>4. VerdictFromAllRuns'
  BY <1>1, <1>2 DEF VerdictFromAllRuns, collector, Verdict, Passes
<1> QED BY <1>3, <1>4

-----------------------------------------------------------------------------
\* Before any launch the counters and the positions of the goroutines agree.
LEMMA InitPool == Init => PoolInv
<1> SUFFICES ASSUME Init PROVE PoolInv
  OBVIOUS
<1> USE PoolAssumption DEF Init, RunsToCome
<1>1. TypeOK
  <2>1. next \in 1 .. (NQueries + 1) /\ Runs \in 0 .. Runs /\ 0 \in 0 .. Runs
    OBVIOUS
  <2>2. failed \in BOOLEAN /\ groupErr \in BOOLEAN
    BY Zenon
  <2>3. /\ task \in [Tasks -> TaskState]
        /\ outcome \in [Tasks -> {"none", "hit", "miss"}]
        /\ verdict \in [Queries -> {"none", "pass", "fail"}]
    BY Zenon DEF TaskState
  <2>4. hits \in [Queries -> 0 .. Runs] /\ remaining \in [Queries -> 0 .. Runs]
        /\ itemDone \in [Queries -> 0 .. 1]
    BY <2>1
  <2> QED BY <2>1, <2>2, <2>3, <2>4 DEF TypeOK
<1>2. TallyExact
  <2> SUFFICES ASSUME NEW q \in Queries
               PROVE  hits[q] = Cardinality(HitRuns(q))
                      /\ remaining[q] = Runs - Cardinality(ReceivedRuns(q))
    BY DEF TallyExact
  <2>1. HitRuns(q) = {} /\ ReceivedRuns(q) = {}
    BY DEF HitRuns, ReceivedRuns, Tasks
  <2> QED BY <2>1, FS_EmptySet
<1>3. VerdictFromAllRuns
  <2>1. \A q \in Queries : <<q, 1>> \in Tasks /\ 1 \in 1 .. Runs
    BY DEF Tasks
  <2> QED BY <2>1 DEF VerdictFromAllRuns
<1>4. Flow
  BY DEF Flow, Active, Queries
<1> QED BY <1>1, <1>2, <1>3, <1>4 DEF PoolInv

-----------------------------------------------------------------------------
\* Receive(t): one received run more for the query of t, and at the last one
\* its verdict.
LEMMA ReceivePool ==
    ASSUME PoolInv, NEW t \in Tasks, Receive(t)
    PROVE  PoolInv'
<1> DEFINE p == t[1]
           n == t[2]
           h == IF outcome[t] = "hit" THEN hits[p] + 1 ELSE hits[p]
           left == remaining[p] - 1
<1>0. p \in Queries /\ n \in 1 .. Runs /\ t = <<p, n>>
  BY DEF Tasks
<1>1. \A q \in Queries, r \in 1 .. Runs : <<q, r>> \in Tasks
  BY DEF Tasks
<1>2. /\ task[t] = "sending"
      /\ task' = [task EXCEPT ![t] = "received"]
      /\ hits' = [hits EXCEPT ![p] = h]
      /\ remaining' = [remaining EXCEPT ![p] = left]
      /\ left = 0 => /\ verdict' = [verdict EXCEPT ![p] = Verdict(p, h)]
                     /\ itemDone' = [itemDone EXCEPT ![p] = @ + 1]
      /\ left # 0 => UNCHANGED <<verdict, itemDone>>
      /\ UNCHANGED <<main, next, started, outcome, groupErr, ctx, result>>
  BY DEF Receive, Left, Settled
<1>3. TypeOK /\ TallyExact /\ VerdictFromAllRuns /\ Flow
  BY DEF PoolInv
<1>4. /\ n \notin ReceivedRuns(p) /\ n \notin HitRuns(p)
      /\ ReceivedRuns(p)' = ReceivedRuns(p) \cup {n}
      /\ HitRuns(p)' = IF outcome[t] = "hit" THEN HitRuns(p) \cup {n}
                       ELSE HitRuns(p)
  BY <1>0, <1>1, <1>2, <1>3 DEF ReceivedRuns, HitRuns, TypeOK
<1>5. \A q \in Queries \ {p} : ReceivedRuns(q)' = ReceivedRuns(q)
                                /\ HitRuns(q)' = HitRuns(q)
  BY <1>0, <1>1, <1>2, <1>3 DEF ReceivedRuns, HitRuns, TypeOK
<1>6. /\ h = Cardinality(HitRuns(p)')
      /\ left = Runs - Cardinality(ReceivedRuns(p)')
  <2>1. hits[p] = Cardinality(HitRuns(p))
        /\ remaining[p] = Runs - Cardinality(ReceivedRuns(p))
    BY <1>0, <1>3 DEF TallyExact
  <2>2. /\ Cardinality(ReceivedRuns(p) \cup {n}) = Cardinality(ReceivedRuns(p)) + 1
        /\ Cardinality(HitRuns(p) \cup {n}) = Cardinality(HitRuns(p)) + 1
    BY <1>0, <1>4, RunSets, FS_AddElement
  <2> QED BY <1>0, <1>4, <2>1, <2>2, RunSets, PoolAssumption
<1>7. TallyExact'
  <2> SUFFICES ASSUME NEW q \in Queries
               PROVE  hits'[q] = Cardinality(HitRuns(q)')
                      /\ remaining'[q] = Runs - Cardinality(ReceivedRuns(q)')
    BY DEF TallyExact
  <2>1. CASE q = p
    BY <2>1, <1>0, <1>2, <1>3, <1>6 DEF TypeOK
  <2>2. CASE q # p
    BY <2>2, <1>2, <1>3, <1>5 DEF TypeOK, TallyExact
  <2> QED BY <2>1, <2>2
<1>8. left = 0 <=> \A r \in 1 .. Runs : task'[<<p, r>>] = "received"
  <2>1. Cardinality(ReceivedRuns(p)') = Runs <=> ReceivedRuns(p)' = 1 .. Runs
    <3>1. IsFiniteSet(1 .. Runs) /\ Cardinality(1 .. Runs) = Runs
      BY FS_Interval, PoolAssumption
    <3>2. ReceivedRuns(p)' \in SUBSET (1 .. Runs)
      BY <1>0, <1>4 DEF ReceivedRuns
    <3> QED BY <3>1, <3>2, FS_Subset, Zenon
  <2>2. Cardinality(ReceivedRuns(p)') \in Nat
    <3>1. IsFiniteSet(ReceivedRuns(p)')
      BY <1>0, <1>4, RunSets, FS_AddElement
    <3> QED BY <3>1, FS_CardinalityType
  <2>3. ReceivedRuns(p)' = {r \in 1 .. Runs : task'[<<p, r>>] = "received"}
    BY DEF ReceivedRuns
  <2>4. left = 0 <=> Cardinality(ReceivedRuns(p)') = Runs
    <3>1. \A c \in Nat : Runs - c = 0 <=> c = Runs
      BY PoolAssumption
    <3> HIDE DEF left, h
    <3> QED BY <1>6, <2>2, <3>1
  <2>5. ReceivedRuns(p)' = 1 .. Runs
           <=> \A r \in 1 .. Runs : task'[<<p, r>>] = "received"
    BY <2>3
  <2> QED BY <2>1, <2>4, <2>5
<1>9. verdict[p] = "none" /\ itemDone[p] = 0
  BY <1>0, <1>2, <1>3 DEF VerdictFromAllRuns
<1>10. VerdictFromAllRuns'
  <2> SUFFICES ASSUME NEW q \in Queries
               PROVE  /\ verdict'[q] # "none" <=>
                              \A r \in 1 .. Runs : task'[<<q, r>>] = "received"
                      /\ verdict'[q] # "none" =>
                              verdict'[q] = Verdict(q, Cardinality(HitRuns(q)'))
                      /\ itemDone'[q] = IF verdict'[q] = "none" THEN 0 ELSE 1
    BY DEF VerdictFromAllRuns, Verdict, Passes
  <2>1. CASE q # p
    <3>1. verdict'[q] = verdict[q] /\ itemDone'[q] = itemDone[q]
      BY <2>1, <1>2, <1>3 DEF TypeOK
    <3>2. \A r \in 1 .. Runs : task'[<<q, r>>] = task[<<q, r>>]
      BY <2>1, <1>0, <1>1, <1>2, <1>3 DEF TypeOK
    <3> QED BY <2>1, <3>1, <3>2, <1>3, <1>5 DEF VerdictFromAllRuns
  <2>2. CASE q = p /\ left = 0
    <3>1. verdict'[p] = Verdict(p, h) /\ itemDone'[p] = 1
      BY <2>2, <1>0, <1>2, <1>3, <1>9 DEF TypeOK
    <3>2. verdict'[p] # "none"
      BY <3>1 DEF Verdict
    <3> QED BY <2>2, <3>1, <3>2, <1>6, <1>8
  <2>3. CASE q = p /\ left # 0
    BY <2>3, <1>2, <1>8, <1>9
  <2> QED BY <2>1, <2>2, <2>3
<1>11. TypeOK'
  <2>1. task' \in [Tasks -> TaskState]
    BY <1>2, <1>3 DEF TypeOK, TaskState
  <2>2. hits' \in [Queries -> 0 .. Runs] /\ remaining' \in [Queries -> 0 .. Runs]
    <3>1. h \in 0 .. Runs /\ left \in 0 .. Runs
      <4>1. Cardinality(HitRuns(p)') \in 0 .. Runs
            /\ Cardinality(ReceivedRuns(p)') \in 0 .. Runs
        <5>1. IsFiniteSet(1 .. Runs) /\ Cardinality(1 .. Runs) = Runs
          BY FS_Interval, PoolAssumption
        <5>2. HitRuns(p)' \in SUBSET (1 .. Runs) /\ ReceivedRuns(p)' \in SUBSET (1 .. Runs)
          BY DEF HitRuns, ReceivedRuns
        <5>3. \A T \in SUBSET (1 .. Runs) : IsFiniteSet(T) /\ Cardinality(T) <= Runs
          BY <5>1, FS_Subset, Zenon
        <5> QED BY <5>2, <5>3, FS_CardinalityType, PoolAssumption
      <4> QED BY <4>1, <1>6, PoolAssumption
    <3> QED BY <3>1, <1>2, <1>3 DEF TypeOK
  <2>3. verdict' \in [Queries -> {"none", "pass", "fail"}]
        /\ itemDone' \in [Queries -> 0 .. 1]
    <3>1. Verdict(p, h) \in {"none", "pass", "fail"}
      BY DEF Verdict
    <3>2. itemDone[p] + 1 = 1
      BY <1>9
    <3> QED BY <3>1, <3>2, <1>2, <1>3 DEF TypeOK
  <2>4. failed' \in BOOLEAN
    BY <1>3, Zenon DEF Receive, FailedWith, Passes, TypeOK
  <2> QED BY <2>1, <2>2, <2>3, <2>4, <1>2, <1>3 DEF TypeOK
<1>12. Flow'
  <2>1. \A s \in Tasks :
           /\ (task'[s] = "unlaunched") <=> (task[s] = "unlaunched")
           /\ (task'[s] = "failed") <=> (task[s] = "failed")
    BY <1>2, <1>3 DEF TypeOK
  <2>2. \A q \in Queries : q < next' => Launched(q)'
    BY <1>1, <1>2, <1>3, <2>1 DEF Flow, Launched
  <2>3. main' # "launch" => next' = NQueries + 1
    BY <1>2, <1>3 DEF Flow
  <2>4. t \in Active /\ main \notin {"collect", "returned"}
    BY <1>2, <1>3 DEF Flow, Active
  <2>5. groupErr' <=> \E s \in Tasks : task'[s] = "failed"
    BY <1>2, <1>3, <2>1 DEF Flow
  <2>6. failed' <=> \E q \in Queries : verdict'[q] = "fail"
    <3>1. CASE left = 0
      <4>1. failed' = (failed \/ ~Passes(p, h))
        BY <3>1 DEF Receive, Left, Settled, FailedWith
      <4>2. verdict'[p] = "fail" <=> ~Passes(p, h)
        BY <3>1, <1>0, <1>2, <1>3 DEF TypeOK, Verdict
      <4>3. \A q \in Queries \ {p} : verdict'[q] = verdict[q]
        BY <3>1, <1>2, <1>3 DEF TypeOK
      <4> QED BY <4>1, <4>2, <4>3, <1>0, <1>3, <1>9 DEF Flow
    <3>2. CASE left # 0
      BY <3>2, <1>2, <1>3 DEF Receive, Left, Settled, Flow
    <3> QED BY <3>1, <3>2
  <2>7. main' = main /\ result' = result /\ main # "returned" /\ result = "none"
    BY <1>2, <1>3, <2>4 DEF Flow
  <2> QED BY <2>2, <2>3, <2>4, <2>5, <2>6, <2>7 DEF Flow
<1> QED BY <1>7, <1>10, <1>11, <1>12 DEF PoolInv
-----------------------------------------------------------------------------
\* Every other step leaves the collector's variables and the received runs
\* alone.
LEMMA StepPool ==
    ASSUME PoolInv, [Next]_vars
    PROVE  PoolInv'
<1>1. TypeOK /\ TallyExact /\ VerdictFromAllRuns /\ Flow
  BY DEF PoolInv
<1>2. NQueries \in Nat /\ \A q \in Queries, r \in 1 .. Runs : <<q, r>> \in Tasks
  BY PoolAssumption DEF Tasks
<1>3. CASE StartItem
  <2> USE <1>3 DEF StartItem
  <2>1. TypeOK'
    BY <1>1 DEF TypeOK, collector
  <2>2. TallyExact' /\ VerdictFromAllRuns'
    BY <1>1, TallyStutters
  <2>3. Flow'
    BY <1>1 DEF Flow, Launched, Active, Answer, collector
  <2> QED BY <2>1, <2>2, <2>3 DEF PoolInv
<1>4. ASSUME NEW r \in 1 .. Runs, Launch(r)
      PROVE  PoolInv'
  <2> USE <1>4 DEF Launch
  <2>1. /\ <<next, r>> \in Tasks
        /\ task' \in [Tasks -> TaskState]
        /\ \A t \in Tasks \ {<<next, r>>} : task'[t] = task[t]
        /\ task'[<<next, r>>] = "running"
    BY <1>1, <1>2 DEF TypeOK, TaskState
  <2>2. TypeOK'
    BY <1>1, <2>1 DEF TypeOK, collector
  <2>3. TallyExact' /\ VerdictFromAllRuns'
    BY <1>1, <2>1, TallyStutters
  <2>4. Flow'
    BY <1>1, <1>2, <2>1 DEF Flow, Launched, Active, Answer, collector
  <2> QED BY <2>2, <2>3, <2>4 DEF PoolInv
<1>5. CASE NextItem
  <2> USE <1>5 DEF NextItem
  <2>1. next \in Queries /\ next' = next + 1 /\ next' \in 1 .. (NQueries + 1)
    BY <1>1, <1>2 DEF TypeOK, Queries
  <2>2. TypeOK'
    BY <1>1, <2>1 DEF TypeOK, collector
  <2>3. TallyExact' /\ VerdictFromAllRuns'
    BY <1>1, TallyStutters
  <2>4. \A q \in Queries : q < next' => Launched(q)'
    BY <1>1, <2>1 DEF Flow, Launched, Queries
  <2>5. Flow'
    BY <1>1, <2>4 DEF Flow, Active, Answer, collector
  <2> QED BY <2>2, <2>3, <2>5 DEF PoolInv
<1>6. CASE LoopDone
  <2> USE <1>6 DEF LoopDone
  <2>1. next = NQueries + 1
    BY <1>1, <1>2 DEF TypeOK, Queries
  <2>2. TypeOK'
    BY <1>1 DEF TypeOK, collector
  <2>3. TallyExact' /\ VerdictFromAllRuns'
    BY <1>1, TallyStutters
  <2>4. Flow'
    BY <1>1, <2>1 DEF Flow, Launched, Active, Answer, collector
  <2> QED BY <2>2, <2>3, <2>4 DEF PoolInv
<1>7. ASSUME NEW t \in Tasks, NEW o \in {"hit", "miss"}, AgentReturns(t, o)
      PROVE  PoolInv'
  <2> USE <1>7 DEF AgentReturns
  <2>1. /\ task' \in [Tasks -> TaskState]
        /\ outcome' \in [Tasks -> {"none", "hit", "miss"}]
        /\ \A s \in Tasks \ {t} : task'[s] = task[s] /\ outcome'[s] = outcome[s]
        /\ task[t] = "running" /\ task'[t] = "sending"
    BY <1>1 DEF TypeOK, TaskState
  <2>2. TypeOK'
    BY <1>1, <2>1 DEF TypeOK, collector
  <2>3. TallyExact' /\ VerdictFromAllRuns'
    BY <1>1, <2>1, TallyStutters
  <2>4. Flow'
    BY <1>1, <1>2, <2>1 DEF Flow, Launched, Active, Answer, collector
  <2> QED BY <2>2, <2>3, <2>4 DEF PoolInv
<1>8. ASSUME NEW t \in Tasks, AgentErrs(t)
      PROVE  PoolInv'
  <2> USE <1>8 DEF AgentErrs
  <2>1. /\ task' \in [Tasks -> TaskState]
        /\ \A s \in Tasks \ {t} : task'[s] = task[s]
        /\ task[t] = "running" /\ task'[t] = "failed"
    BY <1>1 DEF TypeOK, TaskState
  <2>2. TypeOK'
    BY <1>1, <2>1 DEF TypeOK, collector
  <2>3. TallyExact' /\ VerdictFromAllRuns'
    BY <1>1, <2>1, TallyStutters
  <2>4. Flow'
    <3>1. main \notin {"collect", "returned"}
      BY <1>1, <2>1 DEF Flow, Active
    <3> QED BY <1>1, <1>2, <2>1, <3>1 DEF Flow, Launched, Active, Answer, collector
  <2> QED BY <2>2, <2>3, <2>4 DEF PoolInv
<1>9. ASSUME NEW t \in Tasks, Receive(t)
      PROVE  PoolInv'
  BY <1>9, ReceivePool
<1>10. CASE Close
  <2> USE <1>10 DEF Close
  <2>1. TypeOK'
    BY <1>1 DEF TypeOK, collector
  <2>2. TallyExact' /\ VerdictFromAllRuns'
    BY <1>1, TallyStutters
  <2>3. Flow'
    BY <1>1 DEF Flow, Launched, Active, Answer, Drained, collector
  <2> QED BY <2>1, <2>2, <2>3 DEF PoolInv
<1>11. CASE Return
  <2> USE <1>11 DEF Return
  <2>1. TypeOK'
    BY <1>1 DEF TypeOK, Answer, collector
  <2>2. TallyExact' /\ VerdictFromAllRuns'
    BY <1>1, TallyStutters
  <2>3. Flow'
    BY <1>1 DEF Flow, Launched, Active, Answer, collector
  <2> QED BY <2>1, <2>2, <2>3 DEF PoolInv
<1>12. CASE Interrupt
  <2> USE <1>12 DEF Interrupt
  <2>1. TypeOK'
    BY <1>1 DEF TypeOK, collector
  <2>2. TallyExact' /\ VerdictFromAllRuns'
    BY <1>1, TallyStutters
  <2>3. Flow'
    BY <1>1 DEF Flow, Launched, Active, Answer, collector
  <2> QED BY <2>1, <2>2, <2>3 DEF PoolInv
<1>13. CASE UNCHANGED vars
  <2> USE <1>13 DEF vars
  <2>1. TypeOK'
    BY <1>1 DEF TypeOK
  <2>2. TallyExact' /\ VerdictFromAllRuns'
    BY <1>1, TallyStutters DEF collector
  <2>3. Flow'
    BY <1>1 DEF Flow, Launched, Active, Answer
  <2> QED BY <2>1, <2>2, <2>3 DEF PoolInv
<1> QED
  BY <1>3, <1>4, <1>5, <1>6, <1>7, <1>8, <1>9, <1>10, <1>11, <1>12, <1>13
  DEF Next, Loop, Worker, Collector, Done

-----------------------------------------------------------------------------
\* The tally, the verdicts and the positions of the goroutines agree in every
\* reachable state of runQueries.
THEOREM PoolInvariant == Spec => []PoolInv
<1>1. Init => PoolInv
  BY InitPool
<1>2. PoolInv /\ [Next]_vars => PoolInv'
  BY StepPool
<1> QED BY <1>1, <1>2, PTL DEF Spec

\* Counters stay in range: no run is counted that was not expected.
THEOREM PoolTypeCorrect == Spec => []TypeOK
BY PoolInvariant, PTL DEF PoolInv

\* hits and remaining count exactly the runs received (runQueries' collector).
THEOREM PoolTallyExact == Spec => []TallyExact
BY PoolInvariant, PTL DEF PoolInv

\* A verdict is settled once, from all runs of its query.
THEOREM PoolVerdicts == Spec => []VerdictFromAllRuns
BY PoolInvariant, PTL DEF PoolInv

\* The invariant pins down what runQueries can return.
LEMMA ReturnFollows == PoolInv => ReturnSound
<1> SUFFICES ASSUME PoolInv PROVE ReturnSound
  OBVIOUS
<1>1. TypeOK /\ VerdictFromAllRuns /\ Flow
  BY DEF PoolInv
<1>2. NQueries \in Nat /\ \A q \in Queries, r \in 1 .. Runs : <<q, r>> \in Tasks
  BY PoolAssumption DEF Tasks
<1>3. ASSUME result \in {"ok", "failed"}
      PROVE  /\ \A q \in Queries : verdict[q] # "none"
             /\ (result = "failed") <=> \E q \in Queries : verdict[q] = "fail"
  <2>1. main = "returned" /\ result = Answer /\ ~groupErr
    BY <1>1, <1>3 DEF Flow, Answer
  <2>2. Active = {} /\ next = NQueries + 1
    BY <1>1, <2>1 DEF Flow
  <2>3. \A t \in Tasks : task[t] \in {"unlaunched", "received"}
    BY <1>1, <2>1, <2>2 DEF Flow, Active, TypeOK, TaskState
  <2>4. \A q \in Queries, r \in 1 .. Runs : task[<<q, r>>] = "received"
    <3>1. \A q \in Queries : q < next
      BY <1>2, <2>2 DEF Queries
    <3>2. \A q \in Queries : Launched(q)
      BY <1>1, <3>1 DEF Flow
    <3> QED BY <1>2, <2>3, <3>2 DEF Launched
  <2> QED BY <1>1, <2>1, <2>4 DEF VerdictFromAllRuns, Flow, Answer
<1>4. ASSUME result = "error"
      PROVE  \E t \in Tasks : task[t] = "failed"
  BY <1>1, <1>4 DEF Flow, Answer
<1> QED BY <1>3, <1>4 DEF ReturnSound

\* At the return of runQueries no error means every query has its verdict and
\* the flag is right; an error means some worker failed.
THEOREM PoolReturns == Spec => []ReturnSound
BY PoolInvariant, ReturnFollows, PTL
-----------------------------------------------------------------------------
\* The initial state of the pool is one of the abstract unit.
LEMMA UnitInit == Init => Unit!Init
BY DEF Init, Unit!Init

\* Every step of the pool is a step of the abstract unit, or none: the last
\* Receive of a query runs its case, Return completes or abandons the unit.
LEMMA UnitStep ==
    ASSUME PoolInv, [Next]_vars
    PROVE  [Unit!Next]_(Unit!vars)
<1>1. TypeOK /\ VerdictFromAllRuns /\ Flow
  BY DEF PoolInv
<1>2. ASSUME UNCHANGED <<verdict, result>>
      PROVE  UNCHANGED Unit!vars
  BY <1>2 DEF Unit!vars
<1>3. ASSUME NEW t \in Tasks, Receive(t)
      PROVE  Unit!Next \/ UNCHANGED Unit!vars
  <2> DEFINE p == t[1]
  <2>1. p \in Queries /\ t = <<p, t[2]>> /\ t[2] \in 1 .. Runs
    BY DEF Tasks
  <2>2. task[t] = "sending" /\ UNCHANGED result
    BY <1>3 DEF Receive
  <2>3. verdict[p] = "none"
    BY <1>1, <2>1, <2>2 DEF VerdictFromAllRuns
  <2>4. result = "none"
    BY <1>1, <2>2 DEF Flow, Active
  <2>5. \/ \E v \in {"pass", "fail"} : verdict' = [verdict EXCEPT ![p] = v]
        \/ UNCHANGED verdict
    BY <1>3 DEF Receive, Verdict
  <2>6. ASSUME NEW v \in {"pass", "fail"}, verdict' = [verdict EXCEPT ![p] = v]
        PROVE  Unit!RunCase(p, v)
    BY <2>2, <2>3, <2>4, <2>6 DEF Unit!RunCase
  <2> QED BY <1>2, <2>1, <2>2, <2>5, <2>6 DEF Unit!Next
<1>4. CASE Return
  <2>1. result = "none" /\ UNCHANGED verdict /\ result' = Answer
    BY <1>1, <1>4 DEF Return, Flow, collector
  <2>2. CASE Answer = "error"
    BY <2>1, <2>2 DEF Unit!Next, Unit!Abandon
  <2>3. CASE Answer # "error"
    <3>1. Answer \in {"ok", "failed"}
      BY <2>3 DEF Answer
    <3>2. PoolInv' /\ ReturnSound'
      <4>1. PoolInv'
        BY StepPool
      <4>2. PoolInv' => ReturnSound'
        BY ReturnFollows, PTL
      <4> QED BY <4>1, <4>2
    <3>3. \A q \in Queries : verdict[q] # "none"
      BY <2>1, <3>1, <3>2 DEF ReturnSound
    <3>4. Unit!Complete
      BY <2>1, <3>1, <3>3 DEF Unit!Complete
    <3> QED BY <3>4 DEF Unit!Next
  <2> QED BY <2>2, <2>3
<1>5. CASE UNCHANGED <<verdict, result>>
  BY <1>2, <1>5
<1> QED
  BY <1>3, <1>4, <1>5
  DEF Next, Loop, Worker, Collector, Done, vars, collector, StartItem, Launch,
      NextItem, LoopDone, AgentReturns, AgentErrs, Close, Interrupt

\* The pool of goroutines implements the abstract unit that the sweep is
\* written against: each query is settled in one step, and the unit is handed
\* over whole or abandoned.
THEOREM PoolImplementsUnitRun == Spec => ImplementsUnitRun
<1>1. Init => Unit!Init
  BY UnitInit
<1>2. PoolInv /\ [Next]_vars => [Unit!Next]_(Unit!vars)
  BY UnitStep
<1>3. Spec => []PoolInv
  BY PoolInvariant
<1> QED BY <1>1, <1>2, <1>3, PTL DEF Spec, ImplementsUnitRun, Unit!Spec
=============================================================================
