-------------------------- MODULE RemoteSweepProofs --------------------------
(***************************************************************************)
(* For any units, cases, formats and number of sweeps: a remote sweep that *)
(* returns without an error has accounted for every unit it submitted, and *)
(* asks the service to cancel exactly when it was interrupted; and it      *)
(* loses no result whose landing it reported (the second half).            *)
(*                                                                         *)
(* The stream drops, repeats and reorders, so nothing follows from the     *)
(* messages seen so far; what holds at every moment is that a message      *)
(* tells no settled state the service does not have, that a landed unit is *)
(* accounted for, and that the last snapshot names every unit.  RemoteInv  *)
(* joins these.  The results directory does not matter for the first half. *)
(***************************************************************************)
EXTENDS RemoteSweep, FiniteSetTheorems, WellFoundedInduction, TLAPS

UnitStates == {"Pending"} \cup Settled
UnitMessages == [type : {"unit"}, unit : Units, status : UnitStates]
Messages == UnitMessages \cup {EndOfStream}

Types ==
    /\ want \in [Units -> SUBSET Cases] /\ sweep \in 1 .. MaxSweeps
    /\ server \in [unit : [Units -> UnitStates],
                   phase : {"none", "orphaned", "Running", "Complete", "Failed", "deleted"}]
    /\ reported \in [Units -> Entries]
    /\ queue \in Seq(Messages) /\ inbox \in Seq(UnitMessages)
    /\ after \in {"stream", "backoff", "final", "return"}
    /\ landed \subseteq Planned /\ failed \in BOOLEAN

\* Nothing has happened yet in a sweep that has not submitted.
Before ==
    pc \in {"plan", "upload", "submit"} =>
        /\ server = Idle /\ queue = <<>> /\ inbox = <<>>
        /\ landed = {} /\ failed = FALSE /\ answer = "running"

\* What a message tells of a unit that settled is the unit's state, and the
\* end of the stream is the end of the evaluation, when every unit has settled.
Told(m) == m.unit \in Planned /\ (m.status \in Settled => server.unit[m.unit] = m.status)
News ==
    /\ \A m \in ToSet(queue) : m \in UnitMessages => Told(m)
    /\ \A m \in ToSet(inbox) : Told(m)
    /\ EndOfStream \in ToSet(queue) => Over
    /\ Over => \A u \in Planned : server.unit[u] \in Settled

\* A landed unit is accounted for, but for the one being saved.
Accounted(u) == \/ \A c \in want[u] : reported[u][c] = sweep
                \/ server.unit[u] = "unavailable"
                \/ failed
Landings ==
    /\ pc = "save" => inbox # <<>> /\ State \in Results /\ Unit \in landed
    /\ \A u \in landed : Accounted(u) \/ (pc = "save" /\ u = Unit)
    /\ failed => \/ unsaved # {} \/ server.phase = "Failed"
                 \/ \E u \in Planned : server.unit[u] \in {"fail", "lost"}

\* The last snapshot holds every unit that has not landed, settled.
Finals ==
    /\ pc \in {"apply", "save"} /\ after \in {"final", "return"} => Over
    /\ pc \in {"apply", "save"} /\ after = "return" =>
           \A u \in Planned \ landed :
               \E m \in ToSet(inbox) : m.unit = u /\ m.status \in Settled
    /\ pc \notin {"closing", "returned"} => answer = "running"
    /\ pc \in {"closing", "returned"} /\ answer \in {"ok", "failed"} =>
           /\ Planned \subseteq landed /\ server.phase # "Running"
           /\ (answer = "failed" <=> failed)

Asks ==
    /\ pc # "returned" => asked = FALSE
    /\ InterruptCancels

\* A sweep that submitted follows an evaluation the service still has; one
\* the service keeps without the client knowing it has returned.
Served ==
    /\ pc \in {"connect", "stream", "status", "backoff", "apply", "save"} =>
           server.phase \in {"Running", "Complete", "Failed"}
    /\ server.phase = "orphaned" => pc = "returned"

RemoteInv == Types /\ Before /\ Served /\ News /\ Landings /\ Finals /\ Asks

-----------------------------------------------------------------------------
(* Sequences of messages, as the sets of their elements.                   *)

\* What a sequence holds is its head and what its tail holds.
LEMMA HeadTail ==
    ASSUME NEW S, NEW s \in Seq(S), s # <<>>
    PROVE  /\ Head(s) \in S /\ Head(s) \in ToSet(s)
           /\ Tail(s) \in Seq(S)
           /\ ToSet(s) = {Head(s)} \cup ToSet(Tail(s))
<1>1. /\ Head(s) = s[1] /\ Head(s) \in S
      /\ Tail(s) \in Seq(S) /\ Len(Tail(s)) = Len(s) - 1
      /\ Len(s) \in Nat \ {0} /\ DOMAIN s = 1 .. Len(s)
      /\ DOMAIN Tail(s) = 1 .. Len(Tail(s))
      /\ \A i \in 1 .. Len(Tail(s)) : Tail(s)[i] = s[i + 1]
  OBVIOUS
<1>2. \A i \in 1 .. Len(s) : i = 1 \/ i - 1 \in 1 .. Len(Tail(s))
  BY <1>1
<1>3. \A i \in 1 .. Len(Tail(s)) : i + 1 \in 1 .. Len(s)
  BY <1>1
<1>4. ASSUME NEW m \in ToSet(s) PROVE m = Head(s) \/ m \in ToSet(Tail(s))
  <2>1. PICK i \in 1 .. Len(s) : m = s[i]
    BY <1>1, <1>4 DEF ToSet
  <2>2. CASE i = 1
    BY <2>1, <2>2, <1>1
  <2>3. CASE i # 1
    <3>1. i - 1 \in 1 .. Len(Tail(s)) /\ Tail(s)[i - 1] = m
      BY <1>1, <1>2, <2>1, <2>3
    <3> QED BY <3>1, <1>1 DEF ToSet
  <2> QED BY <2>2, <2>3
<1>5. \A m \in ToSet(Tail(s)) : m \in ToSet(s)
  BY <1>1, <1>3 DEF ToSet
<1>6. Head(s) \in ToSet(s)
  BY <1>1 DEF ToSet
<1> QED BY <1>1, <1>4, <1>5, <1>6

\* Appending adds one element.
LEMMA Appended ==
    ASSUME NEW S, NEW s \in Seq(S), NEW m \in S
    PROVE  Append(s, m) \in Seq(S) /\ ToSet(Append(s, m)) = ToSet(s) \cup {m}
<1> DEFINE t == Append(s, m)
<1>1. /\ t \in Seq(S) /\ Len(t) = Len(s) + 1 /\ Len(s) \in Nat
      /\ DOMAIN t = 1 .. Len(t) /\ DOMAIN s = 1 .. Len(s)
      /\ t[Len(s) + 1] = m /\ \A i \in 1 .. Len(s) : t[i] = s[i]
  OBVIOUS
<1>2. \A i \in 1 .. Len(t) : i \in 1 .. Len(s) \/ i = Len(s) + 1
  BY <1>1
<1>3. Len(s) + 1 \in 1 .. Len(t) /\ \A i \in 1 .. Len(s) : i \in 1 .. Len(t)
  BY <1>1
<1> HIDE DEF t
<1>4. ToSet(t) = ToSet(s) \cup {m}
  BY <1>1, <1>2, <1>3 DEF ToSet
<1> QED BY <1>1, <1>4 DEF t

\* A sequence of one element.
LEMMA OneMessage ==
    ASSUME NEW S, NEW m \in S
    PROVE  <<m>> \in Seq(S) /\ ToSet(<<m>>) = {m}
<1>1. <<m>> \in Seq(S) /\ DOMAIN <<m>> = {1} /\ <<m>>[1] = m
  OBVIOUS
<1>2. ToSet(<<m>>) = {<<m>>[i] : i \in DOMAIN <<m>>}
  BY DEF ToSet
<1>3. \A x : x \in ToSet(<<m>>) <=> x = m
  BY <1>1, <1>2
<1> QED BY <1>1, <1>3

LEMMA NoMessages == ToSet(<<>>) = {}
BY DEF ToSet

\* A finite set, listed.
LEMMA Listed ==
    ASSUME NEW S, IsFiniteSet(S)
    PROVE  SetToSeq(S) \in Seq(S) /\ ToSet(SetToSeq(S)) = S
<1> DEFINE n == Cardinality(S)
<1>1. n \in Nat /\ ExistsBijection(1 .. n, S)
  BY FS_CardinalityType
<1>2. PICK g : g \in Bijection(1 .. n, S)
  BY <1>1, Zenon DEF ExistsBijection
<1>3. g \in [1 .. n -> S] /\ IsInjective(g)
  BY <1>2 DEF Bijection, Injection
<1>4. SetToSeq(S) \in [1 .. n -> S] /\ IsInjective(SetToSeq(S))
  BY <1>3, Zenon DEF SetToSeq
<1>5. SetToSeq(S) \in Injection(1 .. n, S)
  BY <1>4 DEF Injection
<1>6. IsFiniteSet(1 .. n) /\ Cardinality(1 .. n) = n
  BY <1>1, FS_Interval
<1>7. SetToSeq(S) \in Surjection(1 .. n, S)
  BY <1>5, <1>6, FS_Injection
<1>8. \A x \in S : \E i \in 1 .. n : SetToSeq(S)[i] = x
  BY <1>7 DEF Surjection
<1>9. DOMAIN SetToSeq(S) = 1 .. n
  BY <1>4
<1>10. ToSet(SetToSeq(S)) = S
  BY <1>4, <1>8, <1>9 DEF ToSet
<1>11. SetToSeq(S) \in Seq(S)
  BY <1>1, <1>4
<1> QED BY <1>10, <1>11

\* A snapshot holds the state of every planned unit and nothing else.
LEMMA SnapshotHolds ==
    ASSUME Types
    PROVE  /\ Snapshot \in Seq(UnitMessages)
           /\ \A u \in Planned : Status(u) \in ToSet(Snapshot)
           /\ \A m \in ToSet(Snapshot) : \E u \in Planned : m = Status(u)
<1> DEFINE S == {Status(u) : u \in Planned}
           f == [u \in Planned |-> Status(u)]
<1>1. IsFiniteSet(Planned)
  BY FS_Subset, RemoteAssumption DEF Planned
<1>2. f \in Surjection(Planned, S)
  BY DEF Surjection
<1>3. IsFiniteSet(S)
  BY <1>1, <1>2, FS_Surjection
<1>4. S \subseteq UnitMessages
  BY DEF Types, Status, UnitMessages, Planned
<1>5. SetToSeq(S) \in Seq(S) /\ ToSet(SetToSeq(S)) = S
  BY <1>3, Listed
<1>6. SetToSeq(S) \in Seq(UnitMessages)
  BY <1>4, <1>5
<1>7. Snapshot = SetToSeq(S)
  BY DEF Snapshot
<1> QED BY <1>5, <1>6, <1>7

\* The end of the stream is no unit's message.
LEMMA EndIsNoUnit == EndOfStream.type = "end" /\ EndOfStream \notin UnitMessages
<1>1. EndOfStream.type = "end"
  BY DEF EndOfStream
<1>2. \A m \in UnitMessages : m.type = "unit"
  BY DEF UnitMessages
<1> QED BY <1>1, <1>2

-----------------------------------------------------------------------------
(* The invariant, step by step.                                            *)

\* The command starts with nothing submitted.
LEMMA InitRemote == Init => RemoteInv
<1> SUFFICES ASSUME Init PROVE RemoteInv
  OBVIOUS
<1> USE RemoteAssumption DEF Init, Idle
<1>1. Planned = {}
  BY DEF Planned
<1>2. Types
  <2>1. failed \in BOOLEAN
    BY Zenon
  <2>2. reported \in [Units -> Entries]
    BY DEF Entries, NoEntry, None
  <2>3. server \in [unit : [Units -> UnitStates],
                    phase : {"none", "orphaned", "Running", "Complete", "Failed", "deleted"}]
    BY DEF UnitStates
  <2>4. want \in [Units -> SUBSET Cases] /\ sweep \in 1 .. MaxSweeps
    OBVIOUS
  <2>5. queue \in Seq(Messages) /\ inbox \in Seq(UnitMessages)
    OBVIOUS
  <2>6. after \in {"stream", "backoff", "final", "return"} /\ landed \subseteq Planned
    OBVIOUS
  <2> QED BY <2>1, <2>2, <2>3, <2>4, <2>5, <2>6, Zenon DEF Types
<1>3. Before /\ Served
  BY DEF Before, Served
<1>4. ~Over
  BY DEF Over
<1>5. News /\ Landings /\ Finals /\ Asks
  BY <1>1, <1>4, NoMessages DEF News, Landings, Finals, Asks, InterruptCancels
<1> QED BY <1>2, <1>3, <1>5 DEF RemoteInv

\* Steps that touch neither what the sweep remembers nor the service: the
\* client moves on before it has submitted or along the stream, or leaves.
LEMMA Elsewhere ==
    ASSUME RemoteInv,
           UNCHANGED <<want, sweep, server, reported, landed, failed, unsaved, inbox,
                       after, asked>>,
           queue' \in {queue, <<>>},
           \/ pc' = pc /\ UNCHANGED answer
           \/ pc = "upload" /\ pc' = "submit" /\ UNCHANGED answer
           \/ /\ pc \in {"connect", "stream", "status", "backoff"}
              /\ \/ pc' \in {"connect", "stream", "status", "backoff"} /\ UNCHANGED answer
                 \/ pc' = "closing" /\ answer' = "error",
           UNCHANGED ctx \/ pc # "returned"
    PROVE  RemoteInv'
<1> USE DEF RemoteInv
<1>1. Planned' = Planned /\ Over' = Over /\ ToSet(queue') \subseteq ToSet(queue)
  BY NoMessages DEF Planned, Over
<1>2. Types'
  <2>1. queue \in Seq(Messages) /\ <<>> \in Seq(Messages)
    BY DEF Types
  <2>2. queue' \in Seq(Messages)
    BY <2>1
  <2> QED BY <1>1, <2>2 DEF Types
<1>3. Before' /\ Served'
  BY DEF Before, Served
<1>4. News'
  BY <1>1 DEF News, Told
<1>5. Landings'
  BY <1>1 DEF Landings, Accounted, State, Unit
<1>6. Finals'
  BY <1>1 DEF Finals
<1>7. Asks'
  BY DEF Asks, InterruptCancels
<1> QED BY <1>2, <1>3, <1>4, <1>5, <1>6, <1>7

LEMMA MovesOn ==
    ASSUME RemoteInv,
           \/ Upload \/ StreamFails \/ StatusFails \/ Backoff \/ Save
           \/ Interrupt \/ Drop \/ KeepAlive \/ UNCHANGED vars
    PROVE  RemoteInv'
<1> USE DEF plan, remote, memory, history, Leave
<1>1. CASE Upload
  BY <1>1, Elsewhere DEF Upload
<1>2. CASE StreamFails
  BY <1>2, Elsewhere DEF StreamFails
<1>3. CASE StatusFails
  BY <1>3, Elsewhere DEF StatusFails
<1>4. CASE Backoff
  BY <1>4, Elsewhere DEF Backoff
<1>5. CASE Save
  BY <1>5, Elsewhere DEF Save
<1>6. CASE Interrupt
  BY <1>6, Elsewhere DEF Interrupt
<1>7. CASE Drop
  BY <1>7, Elsewhere DEF Drop
<1>8. CASE KeepAlive
  BY <1>8, Elsewhere DEF KeepAlive
<1>9. CASE UNCHANGED vars
  BY <1>9, Elsewhere DEF vars
<1> QED BY <1>1, <1>2, <1>3, <1>4, <1>5, <1>6, <1>7, <1>8, <1>9

\* Plan: a new sweep has nothing landed, and may have nothing to submit.
LEMMA PlanRemote ==
    ASSUME RemoteInv, Plan
    PROVE  RemoteInv'
<1> USE RemoteAssumption DEF RemoteInv
<1>1. /\ sweep' = sweep + 1 /\ sweep < MaxSweeps /\ pc = "plan"
      /\ want' \in Plans[sweep']
      /\ UNCHANGED <<ctx, server, queue, inbox, after, landed, failed, asked, unsaved,
                     reported>>
      /\ \/ Planned' = {} /\ pc' = "closing" /\ answer' = "ok"
         \/ pc' = "upload" /\ UNCHANGED answer
  BY DEF Plan, Leave, remote, memory
<1>2. /\ server = Idle /\ queue = <<>> /\ inbox = <<>> /\ landed = {}
      /\ failed = FALSE /\ answer = "running"
  BY <1>1 DEF Before
<1>3. server.phase = "none"
  BY <1>2 DEF Idle
<1>4. Types'
  <2>1. sweep' \in 2 .. MaxSweeps
    BY <1>1 DEF Types
  <2>2. want' \in [Units -> SUBSET Cases]
    BY <1>1, <2>1
  <2> QED BY <1>1, <1>2, <2>1, <2>2 DEF Types
<1>5. Before' /\ Served'
  BY <1>1, <1>2 DEF Before, Idle, Served
<1>6. News'
  BY <1>1, <1>2, <1>3, NoMessages DEF News, Over
<1>7. Landings' /\ Finals' /\ Asks'
  BY <1>1, <1>2, <1>3 DEF Landings, Finals, Asks, InterruptCancels
<1> QED BY <1>4, <1>5, <1>6, <1>7

\* GiveUp: nothing was submitted, or nothing the client could ask to cancel.
LEMMA GiveUpRemote ==
    ASSUME RemoteInv, GiveUp
    PROVE  RemoteInv'
<1> USE DEF RemoteInv
<1>1. /\ pc \in {"upload", "submit"} /\ pc' = "returned" /\ answer' = "error"
      /\ UNCHANGED <<ctx, want, sweep, queue, inbox, after, landed, failed, asked,
                     unsaved, reported>>
      /\ server' = server \/ server' = [server EXCEPT !.phase = "orphaned"]
  BY DEF GiveUp, plan, memory, history
<1>2. server.phase = "none" /\ asked = FALSE /\ queue = <<>> /\ inbox = <<>> /\ landed = {}
  BY <1>1 DEF Before, Idle, Asks
<1>3. /\ Planned' = Planned /\ ~Over' /\ server'.phase \in {"none", "orphaned"}
      /\ server'.unit = server.unit
      /\ server' \in [unit : [Units -> UnitStates],
                      phase : {"none", "orphaned", "Running", "Complete", "Failed", "deleted"}]
  BY <1>1, <1>2 DEF Planned, Over, Types
<1>4. Types' /\ Before' /\ Served'
  BY <1>1, <1>3 DEF Types, Before, Served
<1>5. News'
  BY <1>1, <1>2, <1>3, NoMessages DEF News
<1>6. failed' => unsaved' # {}
  BY <1>1 DEF Before
<1>7. Landings' /\ Finals' /\ Asks'
  BY <1>1, <1>2, <1>3, <1>6 DEF Landings, Finals, Asks, InterruptCancels
<1> QED BY <1>4, <1>5, <1>7

\* Submit: the service runs the units.
LEMMA SubmitRemote ==
    ASSUME RemoteInv, Submit
    PROVE  RemoteInv'
<1> USE DEF RemoteInv
<1>1. /\ pc = "submit" /\ pc' = "connect"
      /\ server' = [server EXCEPT !.phase = "Running"]
      /\ UNCHANGED <<ctx, want, sweep, queue, inbox, after, landed, failed, asked, answer,
                     unsaved, reported>>
  BY DEF Submit, plan, memory, history
<1>2. server'.phase = "Running" /\ server'.unit = server.unit
  BY <1>1 DEF Types
<1>3. queue = <<>> /\ inbox = <<>> /\ landed = {} /\ failed = FALSE /\ answer = "running"
  BY <1>1 DEF Before
<1>4. Planned' = Planned /\ ~Over'
  BY <1>1, <1>2 DEF Planned, Over
<1>5. Types' /\ Before' /\ Served'
  BY <1>1, <1>2, <1>4 DEF Types, Before, Served
<1>6. News'
  BY <1>1, <1>3, <1>4, NoMessages DEF News
<1>7. Landings' /\ Finals' /\ Asks'
  BY <1>1, <1>3, <1>4 DEF Landings, Finals, Asks, InterruptCancels
<1> QED BY <1>5, <1>6, <1>7

\* A snapshot tells the truth.
LEMMA SnapshotTells ==
    ASSUME Types
    PROVE  \A m \in ToSet(Snapshot) : m \in UnitMessages /\ Told(m)
<1>1. \A u \in Planned : Status(u) \in UnitMessages /\ Told(Status(u))
  BY DEF Types, Status, Told, UnitMessages, Planned
<1> QED BY <1>1, SnapshotHolds

\* Connect: the server replays its states, and the end if it is over.
LEMMA ConnectRemote ==
    ASSUME RemoteInv, Connect
    PROVE  RemoteInv'
<1> USE DEF RemoteInv
<1>1. /\ pc = "connect" /\ pc' = "stream"
      /\ queue' = IF Serving THEN Snapshot ELSE Append(Snapshot, EndOfStream)
      /\ UNCHANGED <<ctx, want, sweep, server, inbox, after, landed, failed, asked, answer,
                     unsaved, reported>>
  BY DEF Connect, plan, memory, history
<1>2. Snapshot \in Seq(Messages)
  BY SnapshotHolds DEF Messages
<1>3. queue' \in Seq(Messages)
      /\ ToSet(queue') \subseteq ToSet(Snapshot) \cup {EndOfStream}
      /\ (Serving => ToSet(queue') = ToSet(Snapshot))
  BY <1>1, <1>2, Appended DEF Messages
<1>4. Planned' = Planned /\ Over' = Over
  BY <1>1 DEF Planned, Over
<1>6. server.phase \in {"Running", "Complete", "Failed"}
  BY <1>1 DEF Served
<1>5. Types' /\ Before' /\ Served'
  BY <1>1, <1>3, <1>4, <1>6 DEF Types, Before, Served
<1>7. News'
  <2>1. \A m \in ToSet(queue') : m \in UnitMessages => Told(m)'
    BY <1>1, <1>3, <1>4, SnapshotTells, EndIsNoUnit DEF Told
  <2>2. EndOfStream \in ToSet(queue') => Over'
    BY <1>3, <1>4, <1>6, SnapshotTells, EndIsNoUnit DEF Serving, Over
  <2> QED BY <1>1, <1>4, <2>1, <2>2 DEF News, Told
<1>8. Landings' /\ Finals' /\ Asks'
  BY <1>1, <1>4 DEF Landings, Accounted, Finals, Asks, InterruptCancels
<1> QED BY <1>5, <1>7, <1>8

\* The snapshot of an evaluation that is over settles every unit.
LEMMA SnapshotSettles ==
    ASSUME Types, News, Over
    PROVE  \A u \in Planned : \E m \in ToSet(Snapshot) : m.unit = u /\ m.status \in Settled
<1>1. \A u \in Planned : Status(u).unit = u /\ Status(u).status \in Settled
  BY DEF News, Status
<1> QED BY <1>1, SnapshotHolds

\* What is handed to onUnit when nothing else changes: one message, or a
\* snapshot, which is the last one only if the evaluation is over.
LEMMA Handed ==
    ASSUME RemoteInv, pc \in {"stream", "status", "apply"}, pc' = "apply",
           UNCHANGED <<ctx, want, sweep, server, reported, landed, failed, unsaved,
                       answer, asked>>,
           queue' \in Seq(Messages), ToSet(queue') \subseteq ToSet(queue),
           after' \in {"stream", "backoff", "final", "return"},
           inbox' \in Seq(UnitMessages), \A m \in ToSet(inbox') : Told(m),
           after' \in {"final", "return"} => Over,
           after' = "return" => inbox' = Snapshot
    PROVE  RemoteInv'
<1> USE DEF RemoteInv
<1>1. Planned' = Planned /\ Over' = Over
  BY DEF Planned, Over
<1>2. Types'
  BY <1>1 DEF Types
<1>3. Before' /\ Served'
  BY DEF Before, Served
<1>4. News'
  BY <1>1 DEF News, Told
<1>5. Landings'
  BY <1>1 DEF Landings, Accounted
<1>6. Finals' /\ Asks'
  BY <1>1, SnapshotSettles DEF Finals, Asks, InterruptCancels
<1> QED BY <1>2, <1>3, <1>4, <1>5, <1>6

LEMMA ReceiveRemote ==
    ASSUME RemoteInv, Receive
    PROVE  RemoteInv'
<1> USE DEF RemoteInv
<1> DEFINE m == Head(queue)
<1>1. /\ pc = "stream" /\ pc' = "apply" /\ queue # <<>> /\ queue' = Tail(queue)
      /\ \/ m.type = "unit" /\ inbox' = <<m>> /\ after' = "stream"
         \/ m.type # "unit" /\ inbox' = Snapshot /\ after' = "return"
      /\ UNCHANGED <<ctx, want, sweep, server, landed, failed, answer, asked, unsaved,
                     reported>>
  BY DEF Receive, plan, history
<1>2. /\ m \in Messages /\ m \in ToSet(queue) /\ queue' \in Seq(Messages)
      /\ ToSet(queue') \subseteq ToSet(queue)
  BY <1>1, HeadTail DEF Types
<1>3. CASE m.type = "unit"
  <2>1. m # EndOfStream
    BY <1>3, EndIsNoUnit
  <2>2. m \in UnitMessages /\ Told(m)
    BY <1>2, <2>1 DEF Messages, News
  <2>3. inbox' \in Seq(UnitMessages) /\ ToSet(inbox') = {m}
    BY <1>1, <1>3, <2>2, OneMessage
  <2> QED BY <1>1, <1>2, <1>3, <2>2, <2>3, Handed
<1>4. CASE m.type # "unit"
  <2>1. m = EndOfStream
    BY <1>2, <1>4 DEF Messages, UnitMessages
  <2>2. Over
    BY <1>2, <2>1 DEF News
  <2> QED BY <1>1, <1>2, <1>4, <2>2, Handed, SnapshotHolds, SnapshotTells
<1> QED BY <1>3, <1>4

LEMMA ReconcileRemote ==
    ASSUME RemoteInv, Reconcile
    PROVE  RemoteInv'
<1> USE DEF RemoteInv
<1>1. /\ pc = "status" /\ pc' = "apply" /\ inbox' = Snapshot
      /\ after' = IF Over THEN "final" ELSE "backoff"
      /\ UNCHANGED <<ctx, want, sweep, server, queue, landed, failed, answer, asked,
                     unsaved, reported>>
  BY DEF Reconcile, plan, remote, history
<1>2. queue' \in Seq(Messages) /\ ToSet(queue') \subseteq ToSet(queue)
  BY <1>1 DEF Types
<1> QED BY <1>1, <1>2, Handed, SnapshotHolds, SnapshotTells

\* Dropping the head of the inbox keeps what the last snapshot has to say of
\* the units that have not landed, if the head has nothing to say of them.
LEMMA Dropped ==
    ASSUME RemoteInv, inbox # <<>>, inbox' = Tail(inbox),
           NEW L, landed \subseteq L, Unit \in L \/ State \notin Settled
    PROVE  /\ inbox' \in Seq(UnitMessages) /\ ToSet(inbox') \subseteq ToSet(inbox)
           /\ \A u \in Planned \ L, m \in ToSet(inbox) :
                  m.unit = u /\ m.status \in Settled => m \in ToSet(inbox')
<1>1. /\ Head(inbox) \in ToSet(inbox) /\ inbox' \in Seq(UnitMessages)
      /\ ToSet(inbox) = {Head(inbox)} \cup ToSet(inbox')
  BY HeadTail DEF RemoteInv, Types
<1> QED BY <1>1 DEF Unit, State

\* The state to apply is the service's, of a unit that was submitted.
LEMMA HeadTells ==
    ASSUME RemoteInv, inbox # <<>>
    PROVE  Unit \in Planned /\ (State \in Settled => server.unit[Unit] = State)
<1>1. Head(inbox) \in ToSet(inbox)
  BY HeadTail DEF RemoteInv, Types
<1> QED BY <1>1 DEF RemoteInv, News, Told, Unit, State

LEMMA IgnoreRemote ==
    ASSUME RemoteInv, Ignore
    PROVE  RemoteInv'
<1> USE DEF RemoteInv
<1>1. /\ pc = "apply" /\ pc' = pc /\ inbox # <<>> /\ inbox' = Tail(inbox)
      /\ Unit \in landed \/ State \notin Settled
      /\ UNCHANGED <<ctx, want, sweep, server, queue, after, landed, failed, answer, asked,
                     unsaved, reported>>
  BY DEF Ignore, Next1, plan, remote, history
<1>2. /\ inbox' \in Seq(UnitMessages) /\ ToSet(inbox') \subseteq ToSet(inbox)
      /\ \A u \in Planned \ landed, m \in ToSet(inbox) :
             m.unit = u /\ m.status \in Settled => m \in ToSet(inbox')
  BY <1>1, Dropped
<1>3. Planned' = Planned /\ Over' = Over
  BY <1>1 DEF Planned, Over
<1>4. Types' /\ Before' /\ Served'
  BY <1>1, <1>2, <1>3 DEF Types, Before, Served
<1>5. News'
  BY <1>1, <1>2, <1>3 DEF News, Told
<1>6. Landings'
  BY <1>1, <1>3 DEF Landings, Accounted
<1>7. Finals'
  BY <1>1, <1>2, <1>3 DEF Finals
<1>8. Asks'
  BY <1>1 DEF Asks, InterruptCancels
<1> QED BY <1>4, <1>5, <1>6, <1>7, <1>8

\* A unit lands: it is accounted for, or being saved.
LEMMA Lands ==
    ASSUME RemoteInv, pc \in {"apply", "save"}, inbox # <<>>,
           UNCHANGED <<ctx, want, sweep, server, queue, after, answer, asked>>,
           reported' \in [Units -> Entries],
           \A u \in Units \ {Unit} : reported'[u] = reported[u],
           landed' = landed \cup {Unit},
           failed' \in BOOLEAN, unsaved \subseteq unsaved', failed => failed',
           failed' => \/ failed \/ unsaved' # {}
                      \/ server.unit[Unit] \in {"fail", "lost"},
           \/ /\ pc' = "apply" /\ inbox' = Tail(inbox)
              /\ \/ \A c \in want[Unit] : reported'[Unit][c] = sweep
                 \/ server.unit[Unit] = "unavailable"
                 \/ failed'
           \/ pc' = "save" /\ UNCHANGED inbox /\ State \in Results
    PROVE  RemoteInv'
<1> USE DEF RemoteInv
<1>1. /\ inbox' \in Seq(UnitMessages) /\ ToSet(inbox') \subseteq ToSet(inbox)
      /\ \A u \in Planned \ landed', m \in ToSet(inbox) :
             m.unit = u /\ m.status \in Settled => m \in ToSet(inbox')
  <2>1. CASE inbox' = Tail(inbox)
    <3>1. landed \subseteq landed' /\ Unit \in landed'
      OBVIOUS
    <3> QED BY <2>1, <3>1, Dropped
  <2>2. CASE UNCHANGED inbox
    BY <2>2 DEF Types
  <2> QED BY <2>1, <2>2
<1>2. Planned' = Planned /\ Over' = Over /\ Unit \in Planned
  BY HeadTells DEF Planned, Over
<1>3. Types'
  BY <1>1, <1>2 DEF Types
<1>4. Before' /\ Served'
  BY DEF Before, Served
<1>5. News'
  BY <1>1, <1>2 DEF News, Told
<1>6. Landings'
  <2>1. pc' = "save" => /\ inbox' # <<>> /\ State' \in Results
                        /\ Unit' \in landed' /\ Unit' = Unit
    BY DEF State, Unit
  <2>2. \A u \in landed' : Accounted(u)' \/ (pc' = "save" /\ u = Unit)
    <3> SUFFICES ASSUME NEW u \in landed', u # Unit PROVE Accounted(u)'
      BY DEF Accounted
    <3>1. u \in landed /\ u \in Units
      BY DEF Types, Planned
    <3>2. Accounted(u)
      BY <3>1 DEF Landings
    <3> QED BY <3>1, <3>2 DEF Accounted
  <2>3. failed' => \/ unsaved' # {} \/ server.phase = "Failed"
                   \/ \E u \in Planned : server.unit[u] \in {"fail", "lost"}
    BY <1>2 DEF Landings
  <2> QED BY <1>2, <2>1, <2>2, <2>3 DEF Landings
<1>7. Finals'
  BY <1>1, <1>2 DEF Finals
<1>8. Asks'
  BY DEF Asks, InterruptCancels
<1> QED BY <1>3, <1>4, <1>5, <1>6, <1>7, <1>8

LEMMA LandLossRemote ==
    ASSUME RemoteInv, LandLoss
    PROVE  RemoteInv'
<1>1. /\ pc = "apply" /\ pc' = pc /\ inbox # <<>> /\ inbox' = Tail(inbox)
      /\ State \in Losses /\ landed' = landed \cup {Unit}
      /\ failed' = (failed \/ State # "unavailable")
      /\ UNCHANGED <<ctx, want, sweep, server, queue, after, answer, asked, unsaved,
                     reported>>
  BY DEF LandLoss, ToLand, Next1, plan, remote, history
<1>2. server.unit[Unit] = State /\ State \in {"unavailable", "lost"}
  BY <1>1, HeadTells DEF Settled, Losses
<1>3. failed' \in BOOLEAN /\ reported' \in [Units -> Entries]
  BY <1>1 DEF RemoteInv, Types
<1> QED BY <1>1, <1>2, <1>3, Lands

LEMMA LandResultRemote ==
    ASSUME RemoteInv, LandResult
    PROVE  RemoteInv'
<1>1. /\ pc = "apply" /\ inbox # <<>> /\ State \in Results
      /\ landed' = landed \cup {Unit}
      /\ \/ /\ failed' = TRUE /\ unsaved' = unsaved \cup {Unit}
            /\ inbox' = Tail(inbox) /\ pc' = pc
         \/ pc' = "save" /\ UNCHANGED <<inbox, failed, unsaved>>
      /\ UNCHANGED <<ctx, want, sweep, server, queue, after, answer, asked, reported>>
  BY DEF LandResult, ToLand, Next1, plan, remote
<1>2. failed' \in BOOLEAN /\ reported' \in [Units -> Entries]
  BY <1>1 DEF RemoteInv, Types
<1> QED BY <1>1, <1>2, Lands

LEMMA SaveFailsRemote ==
    ASSUME RemoteInv, SaveFails
    PROVE  RemoteInv'
<1>1. /\ pc = "save" /\ pc' = "apply" /\ inbox' = Tail(inbox)
      /\ failed' = TRUE /\ unsaved' = unsaved \cup {Unit}
      /\ UNCHANGED <<ctx, want, sweep, server, queue, after, landed, answer, asked>>
      /\ UNCHANGED reported
  BY DEF SaveFails, FailedSave, Next1, plan, remote
<1>2. inbox # <<>> /\ landed' = landed \cup {Unit}
  BY <1>1 DEF RemoteInv, Landings
<1>3. failed' \in BOOLEAN /\ reported' \in [Units -> Entries]
  BY <1>1 DEF RemoteInv, Types
<1> QED BY <1>1, <1>2, <1>3, Lands

LEMMA ReportRemote ==
    ASSUME RemoteInv, Report
    PROVE  RemoteInv'
<1>1. /\ pc = "save" /\ pc' = "apply" /\ inbox' = Tail(inbox)
      /\ failed' = (failed \/ State = "fail")
      /\ reported' = [reported EXCEPT ![Unit] = [c \in Cases |->
                         IF c \in want[Unit] THEN sweep ELSE @[c]]]
      /\ UNCHANGED <<ctx, want, sweep, server, queue, after, landed, answer, asked>>
      /\ UNCHANGED unsaved
  BY DEF Report, Next1, plan, remote
<1>2. inbox # <<>> /\ landed' = landed \cup {Unit} /\ State \in Results
  BY <1>1 DEF RemoteInv, Landings
<1>3. Unit \in Planned /\ server.unit[Unit] = State
  BY <1>2, HeadTells DEF Settled
<1>4. reported' \in [Units -> Entries] /\ \A c \in want[Unit] : reported'[Unit][c] = sweep
  <2>1. /\ reported \in [Units -> Entries] /\ Unit \in Units /\ sweep \in 0 .. MaxSweeps
        /\ want[Unit] \subseteq Cases
    BY <1>3, RemoteAssumption DEF RemoteInv, Types, Planned
  <2>2. [c \in Cases |-> IF c \in want[Unit] THEN sweep ELSE reported[Unit][c]] \in Entries
    BY <2>1 DEF Entries
  <2>3. reported' \in [Units -> Entries]
    BY <1>1, <2>1, <2>2
  <2> QED BY <1>1, <2>1, <2>3
<1>5. \A u \in Units \ {Unit} : reported'[u] = reported[u]
  BY <1>1 DEF RemoteInv, Types
<1>6. failed' \in BOOLEAN
  BY <1>1 DEF RemoteInv, Types
<1> QED BY <1>1, <1>2, <1>3, <1>4, <1>5, <1>6, Lands

\* Applied: the client goes back to the stream, applies the last snapshot once
\* more, or leaves with every unit landed.
LEMMA AppliedRemote ==
    ASSUME RemoteInv, Applied
    PROVE  RemoteInv'
<1> USE DEF RemoteInv
<1>1. /\ pc = "apply" /\ inbox = <<>>
      /\ UNCHANGED <<ctx, want, sweep, server, queue, landed, asked, unsaved, reported>>
      /\ \/ /\ after \in {"stream", "backoff"} /\ pc' = after
            /\ UNCHANGED <<inbox, after, failed, answer>>
         \/ /\ after = "final" /\ inbox' = Snapshot /\ after' = "return"
            /\ UNCHANGED <<pc, failed, answer>>
         \/ /\ after = "return" /\ failed' = (failed \/ server.phase = "Failed")
            /\ pc' = "closing" /\ answer' = IF failed' THEN "failed" ELSE "ok"
            /\ UNCHANGED <<inbox, after>>
  <2>1. /\ pc = "apply" /\ inbox = <<>>
        /\ UNCHANGED <<ctx, want, sweep, server, queue, landed, asked, unsaved, reported>>
    BY DEF Applied, plan, remote, history
  <2>2. CASE after \in {"stream", "backoff"}
    BY <2>1, <2>2 DEF Applied
  <2>3. CASE after = "final"
    BY <2>1, <2>3 DEF Applied
  <2>4. CASE after = "return"
    BY <2>1, <2>4 DEF Applied, Leave
  <2> QED BY <2>1, <2>2, <2>3, <2>4 DEF Types
<1>2. Planned' = Planned /\ Over' = Over
  BY <1>1 DEF Planned, Over
<1>3. CASE after \in {"stream", "backoff"}
  <2>1. Types' /\ Before' /\ Served' /\ News'
    BY <1>1, <1>2, <1>3 DEF Types, Before, Served, News, Told
  <2>3. Landings'
    BY <1>1, <1>2, <1>3 DEF Landings, Accounted
  <2>2. Finals' /\ Asks'
    BY <1>1, <1>2, <1>3 DEF Finals, Asks, InterruptCancels
  <2> QED BY <2>1, <2>2, <2>3
<1>4. CASE after = "final"
  <2>1. Over /\ queue' \in Seq(Messages) /\ ToSet(queue') \subseteq ToSet(queue)
    BY <1>1, <1>4 DEF Finals, Types
  <2> QED BY <1>1, <1>4, <2>1, Handed, SnapshotHolds, SnapshotTells
<1>5. CASE after = "return"
  <2>1. /\ failed' \in BOOLEAN /\ (failed => failed')
        /\ (failed' => failed \/ server.phase = "Failed")
    BY <1>1, <1>5 DEF Types
  <2>2. Over /\ Planned \subseteq landed
    BY <1>1, <1>5, NoMessages DEF Finals
  <2>3. Types'
    BY <1>1, <1>2, <1>5, <2>1 DEF Types
  <2>4. Before' /\ Served' /\ News'
    BY <1>1, <1>2, <1>5 DEF Before, Served, News, Told
  <2>5. Landings'
    BY <1>1, <1>2, <1>5, <2>1 DEF Landings, Accounted
  <2>6. Finals'
    BY <1>1, <1>2, <1>5, <2>2 DEF Finals, Over
  <2>7. Asks'
    BY <1>1, <1>5 DEF Asks, InterruptCancels
  <2> QED BY <2>3, <2>4, <2>5, <2>6, <2>7
<1> QED BY <1>1, <1>3, <1>4, <1>5

\* Close: the deferred cancel is sent when the context is cancelled.
LEMMA CloseRemote ==
    ASSUME RemoteInv, Close
    PROVE  RemoteInv'
<1> USE DEF RemoteInv
<1>1. /\ pc = "closing" /\ pc' = "returned"
      /\ asked' = (ctx = "cancelled" /\ server.phase # "none")
      /\ \/ Serving /\ server' = [server EXCEPT !.phase = "deleted"]
         \/ UNCHANGED server
      /\ UNCHANGED <<ctx, want, sweep, queue, inbox, after, landed, failed, answer, unsaved,
                     reported>>
  BY DEF Close, Cancels, plan, memory
<1>2. /\ server'.unit = server.unit
      /\ \/ server'.phase = server.phase
         \/ server.phase = "Running" /\ server'.phase = "deleted"
      /\ server' \in [unit : [Units -> UnitStates],
                      phase : {"none", "orphaned", "Running", "Complete", "Failed", "deleted"}]
  BY <1>1 DEF Types, Serving
<1>3. Planned' = Planned /\ Over' = Over
  BY <1>1, <1>2 DEF Planned, Over
<1>4. Types'
  BY <1>1, <1>2, <1>3 DEF Types
<1>5. Before' /\ Served' /\ News'
  BY <1>1, <1>2, <1>3 DEF Before, Served, News, Told
<1>6. Landings'
  BY <1>1, <1>2, <1>3 DEF Landings, Accounted
<1>7. Finals'
  BY <1>1, <1>2, <1>3 DEF Finals
<1>8. Asks'
  BY <1>1, <1>2 DEF Asks, Served, InterruptCancels
<1> QED BY <1>4, <1>5, <1>6, <1>7, <1>8

\* Crash, Rerun: what was known of the evaluation is gone.
LEMMA ForgetsRemote ==
    ASSUME RemoteInv, Crash \/ Rerun
    PROVE  RemoteInv'
<1> USE DEF RemoteInv
<1>1. /\ pc' \in {"crashed", "plan"} /\ server' = Idle /\ queue' = <<>> /\ inbox' = <<>>
      /\ after' = "stream" /\ landed' = {} /\ failed' = FALSE
      /\ answer' = "running" /\ asked' = FALSE
      /\ UNCHANGED <<want, sweep, reported>>
  BY DEF Crash, Rerun, Forgets, plan
<1>2. server'.phase = "none" /\ ~Over'
  BY <1>1 DEF Idle, Over
<1>3. server' \in [unit : [Units -> UnitStates],
                  phase : {"none", "orphaned", "Running", "Complete", "Failed", "deleted"}]
  BY <1>1 DEF Idle, UnitStates
<1>4. queue' \in Seq(Messages) /\ inbox' \in Seq(UnitMessages)
  <2>1. <<>> \in Seq(Messages) /\ <<>> \in Seq(UnitMessages)
    OBVIOUS
  <2> QED BY <1>1, <2>1
<1>5. Types'
  <2>1. failed' \in BOOLEAN
    BY <1>1
  <2>2. want' \in [Units -> SUBSET Cases] /\ sweep' \in 1 .. MaxSweeps
        /\ reported' \in [Units -> Entries]
    BY <1>1 DEF Types
  <2> QED BY <1>1, <1>3, <1>4, <2>1, <2>2 DEF Types
<1>6. Before' /\ Served' /\ News'
  BY <1>1, <1>2, NoMessages DEF Before, Served, News
<1>7. Landings' /\ Finals' /\ Asks'
  BY <1>1, <1>2 DEF Landings, Finals, Asks, InterruptCancels
<1> QED BY <1>5, <1>6, <1>7

\* The service emits a message that tells its new state.
LEMMA Emits ==
    ASSUME Types, NEW m \in Messages, Emit(m)
    PROVE  queue' \in Seq(Messages) /\ ToSet(queue') \subseteq ToSet(queue) \cup {m}
BY Appended DEF Types, Emit

\* Settle: a unit that settles has not landed, and no message spoke of it.
LEMMA SettleRemote ==
    ASSUME RemoteInv, NEW u \in Units, Settle(u)
    PROVE  RemoteInv'
<1> USE DEF RemoteInv
<1>1. PICK s \in Outcomes[u] : Moves(u, s)
  BY DEF Settle
<1> DEFINE m == [type |-> "unit", unit |-> u, status |-> s]
<1>2. /\ server.phase = "Running" /\ u \in Planned /\ server.unit[u] = "Pending"
      /\ server' = [server EXCEPT !.unit[u] = s] /\ Emit(m)
      /\ UNCHANGED <<ctx, pc, want, sweep, inbox, after, landed, failed, answer, asked,
                     unsaved, reported>>
  BY <1>1 DEF Settle, Serving, Moves, plan, memory, history
<1>3. s \in Settled /\ s # "Pending"
  BY <1>1, RemoteAssumption DEF Settled, Results, Losses
<1>4. m \in UnitMessages
  BY <1>3 DEF UnitMessages, UnitStates
<1>5. queue' \in Seq(Messages) /\ ToSet(queue') \subseteq ToSet(queue) \cup {m}
  BY <1>2, <1>4, Emits DEF Messages
<1>6. /\ server' \in [unit : [Units -> UnitStates],
                      phase : {"none", "orphaned", "Running", "Complete", "Failed", "deleted"}]
      /\ server'.phase = "Running" /\ server'.unit[u] = s
      /\ \A v \in Units \ {u} : server'.unit[v] = server.unit[v]
  BY <1>2, <1>3 DEF Types, UnitStates
<1>7. Planned' = Planned /\ ~Over' /\ ~Over
  BY <1>2, <1>6 DEF Planned, Over
<1>8. \A v \in Planned : server.unit[v] \in Settled => server'.unit[v] = server.unit[v]
  BY <1>2, <1>6 DEF Planned, Settled, Results, Losses
<1>9. Types'
  BY <1>2, <1>5, <1>6, <1>7 DEF Types
<1>10. Before' /\ Served'
  BY <1>2, <1>6 DEF Before, Served, Idle
<1>11. News'
  <2>1. \A n \in UnitMessages : Told(n) => Told(n)'
    BY <1>7, <1>8 DEF Told
  <2>2. Told(m)'
    BY <1>2, <1>6, <1>7 DEF Told
  <2>3. \A n \in ToSet(queue') : n \in UnitMessages => Told(n)'
    BY <1>5, <2>1, <2>2 DEF News
  <2>4. \A n \in ToSet(inbox') : Told(n)'
    BY <1>2, <1>7, <1>8 DEF News, Told
  <2>5. EndOfStream \notin ToSet(queue')
    BY <1>4, <1>5, <1>7, EndIsNoUnit DEF News
  <2> QED BY <1>7, <2>3, <2>4, <2>5 DEF News, Told
<1>12. Landings'
  <2>1. \A v \in landed : Accounted(v) => Accounted(v)'
    BY <1>2, <1>8 DEF Accounted, Types, Settled, Losses
  <2>2. \A v \in Planned : server.unit[v] \in {"fail", "lost"}
                             => server'.unit[v] \in {"fail", "lost"}
    BY <1>8 DEF Settled, Results, Losses
  <2> QED BY <1>2, <1>6, <1>7, <2>1, <2>2 DEF Landings, State, Unit
<1>13. Finals'
  BY <1>2, <1>6, <1>7 DEF Finals
<1>14. Asks'
  BY <1>2, <1>6 DEF Asks, InterruptCancels
<1> QED BY <1>9, <1>10, <1>11, <1>12, <1>13, <1>14

\* Conclude: every unit has settled, and so the end is no lie.
LEMMA ConcludeRemote ==
    ASSUME RemoteInv, Conclude
    PROVE  RemoteInv'
<1> USE DEF RemoteInv
<1>1. PICK phase \in {"Complete", "Failed"} : server' = [server EXCEPT !.phase = phase]
  BY DEF Conclude
<1>2. /\ server.phase = "Running" /\ Emit(EndOfStream)
      /\ \A u \in Planned : server.unit[u] \in Settled
      /\ UNCHANGED <<ctx, pc, want, sweep, inbox, after, landed, failed, answer, asked,
                     unsaved, reported>>
  BY DEF Conclude, Serving, plan, memory, history
<1>3. queue' \in Seq(Messages) /\ ToSet(queue') \subseteq ToSet(queue) \cup {EndOfStream}
  BY <1>2, Emits DEF Messages
<1>4. /\ server' \in [unit : [Units -> UnitStates],
                      phase : {"none", "orphaned", "Running", "Complete", "Failed", "deleted"}]
      /\ server'.phase = phase /\ server'.unit = server.unit
  BY <1>1 DEF Types
<1>5. Planned' = Planned /\ Over' /\ ~Over
  BY <1>2, <1>4 DEF Planned, Over
<1>6. Types' /\ Before' /\ Served'
  BY <1>2, <1>3, <1>4, <1>5 DEF Types, Before, Served, Idle
<1>7. News'
  BY <1>2, <1>3, <1>4, <1>5, EndIsNoUnit DEF News, Told
<1>8. Landings'
  BY <1>2, <1>4, <1>5 DEF Landings, Accounted, State, Unit
<1>9. Finals'
  BY <1>2, <1>4, <1>5 DEF Finals
<1>10. Asks'
  BY <1>2, <1>4 DEF Asks, InterruptCancels
<1> QED BY <1>6, <1>7, <1>8, <1>9, <1>10

-----------------------------------------------------------------------------
(* The theorems.                                                           *)

\* Every step keeps the invariant, whatever the service, the connection and the
\* user do.
LEMMA StepRemote ==
    ASSUME RemoteInv, [Next]_vars
    PROVE  RemoteInv'
<1>1. CASE Client
  BY <1>1, PlanRemote, GiveUpRemote, SubmitRemote, ConnectRemote, ReceiveRemote,
     ReconcileRemote, IgnoreRemote, LandLossRemote, LandResultRemote, SaveFailsRemote,
     ReportRemote, AppliedRemote, CloseRemote, MovesOn
  DEF Client, Following, Landing
<1>2. CASE Interrupt \/ Drop \/ KeepAlive
  BY <1>2, MovesOn
<1>3. CASE Crash \/ Rerun
  BY <1>3, ForgetsRemote
<1>4. CASE \E u \in Units : Settle(u)
  BY <1>4, SettleRemote
<1>5. CASE Conclude
  BY <1>5, ConcludeRemote
<1>6. CASE Stopped \/ UNCHANGED vars
  BY <1>6, MovesOn DEF Stopped
<1> QED BY <1>1, <1>2, <1>3, <1>4, <1>5, <1>6 DEF Next

\* Messages tell the truth, landed units are accounted for and the last snapshot
\* is complete at every moment of a remote sweep (internal/remote/sweep.go,
\* client.go).
THEOREM RemoteInvariant == Spec => []RemoteInv
<1>1. RemoteInv /\ [Next]_vars => RemoteInv'
  BY StepRemote
<1> QED BY InitRemote, <1>1, PTL DEF Spec

\* A sweep that returns without an error has accounted for every unit it
\* submitted, and reports failure only for a reason (onUnit, Sweep).
THEOREM RemoteReturns == Spec => []ReturnExact
<1>1. RemoteInv => ReturnExact
  <2> SUFFICES ASSUME RemoteInv, pc = "returned", answer \in {"ok", "failed"}
               PROVE  /\ \A u \in Planned :
                            \/ \A c \in want[u] : reported[u][c] = sweep
                            \/ server.unit[u] = "unavailable"
                            \/ answer = "failed"
                      /\ answer = "failed" =>
                            \/ unsaved # {} \/ server.phase = "Failed"
                            \/ \E u \in Planned : server.unit[u] \in {"fail", "lost"}
    BY DEF ReturnExact
  <2>1. Planned \subseteq landed /\ (answer = "failed" <=> failed)
    BY DEF RemoteInv, Finals
  <2>2. \A u \in landed : Accounted(u)
    BY DEF RemoteInv, Landings
  <2>3. failed => \/ unsaved # {} \/ server.phase = "Failed"
                  \/ \E u \in Planned : server.unit[u] \in {"fail", "lost"}
    BY DEF RemoteInv, Landings
  <2> QED BY <2>1, <2>2, <2>3 DEF Accounted
<1> QED BY RemoteInvariant, <1>1, PTL

\* An interrupted sweep that has the answer to its submission never returns
\* without asking the service to cancel, and no other sweep asks (the deferred
\* cancel of Sweep).
THEOREM RemoteCancels == Spec => []InterruptCancels
<1>1. RemoteInv => InterruptCancels
  BY DEF RemoteInv, Asks
<1> QED BY RemoteInvariant, <1>1, PTL

-----------------------------------------------------------------------------
(* The results directory: for any initial files too, a result whose        *)
(* landing was reported is never lost from it, by no interleaving of       *)
(* system calls, crashes, reruns and changes of format.                    *)
(*                                                                         *)
(* A crash can leave several files behind, of which readers see only the   *)
(* first.  What holds at every moment is that every file there is has all  *)
(* reported results (a landing is reported only when one file is left),    *)
(* and so has what is being saved and what was sent along for the merge.   *)
(* Nor does a reader see anything but whole landings: what a save writes   *)
(* is the landing of the unit at the head of the inbox.                    *)

\* A set of numbers has its smallest.
LEMMA MinIsSmallest ==
    ASSUME NEW S \in SUBSET Nat, S # {}
    PROVE  Min(S) \in S /\ \A n \in S : Min(S) <= n
<1> DEFINE R == {ss \in Nat \X Nat : ss[1] < ss[2]}
<1>1. IsWellFoundedOn(R, Nat)
  BY NatLessThanWellFounded, Zenon DEF OpToRel
<1>2. PICK n \in S : \A m \in S : <<m, n>> \notin R
  BY <1>1, WFMin, Zenon
<1>3. ASSUME NEW m \in S PROVE n =< m
  <2>1. m \in Nat /\ n \in Nat
    OBVIOUS
  <2>2. m < n => <<m, n>> \in R
    BY <2>1
  <2> QED BY <1>2, <2>1, <2>2
<1> QED BY <1>3 DEF Min

\* Extensions are looked up by their position.
LEMMA Positions ==
    ASSUME NEW T \in SUBSET ToSet(Extensions), T # {}
    PROVE  /\ {i \in 1 .. Len(Extensions) : Extensions[i] \in T} # {}
           /\ Extensions[Min({i \in 1 .. Len(Extensions) : Extensions[i] \in T})] \in T
<1> DEFINE I == {i \in 1 .. Len(Extensions) : Extensions[i] \in T}
<1>1. Extensions \in Seq(STRING)
  BY FilesAssumption
<1>2. DOMAIN Extensions = 1 .. Len(Extensions) /\ Len(Extensions) \in Nat
  BY <1>1
<1>3. I # {}
  <2>1. PICK ext \in T : TRUE
    OBVIOUS
  <2>2. PICK i \in 1 .. Len(Extensions) : ext = Extensions[i]
    BY <2>1, <1>2 DEF ToSet
  <2> QED BY <2>1, <2>2
<1>4. I \in SUBSET Nat
  BY <1>2
<1>5. Min(I) \in I
  BY <1>3, <1>4, MinIsSmallest
<1> QED BY <1>3, <1>5

\* The extension of the file that readers see.
LEMMA FindFinds ==
    ASSUME files \in [ToSet(Extensions) -> ResultsFile]
    PROVE  \/ Find \in ToSet(Extensions) /\ files[Find] # Missing /\ Find # ""
           \/ Find = "" /\ \A ext \in ToSet(Extensions) : files[ext] = Missing
<1> DEFINE T == {ext \in ToSet(Extensions) : files[ext] # Missing}
           I == {i \in 1 .. Len(Extensions) : Extensions[i] \in T}
<1>1. "" \notin ToSet(Extensions)
  BY FilesAssumption
<1>2. \A i \in 1 .. Len(Extensions) : Extensions[i] \in ToSet(Extensions)
  <2>1. Extensions \in Seq(STRING)
    BY FilesAssumption
  <2>2. DOMAIN Extensions = 1 .. Len(Extensions)
    BY <2>1
  <2> QED BY <2>2 DEF ToSet
<1>3. I = {i \in 1 .. Len(Extensions) : files[Extensions[i]] # Missing}
  BY <1>2
<1>4. Find = LET i == IF I # {} THEN Min(I) ELSE 0
             IN  IF i = 0 THEN "" ELSE Extensions[i]
  BY <1>3, Zenon DEF Find, FindAmong, SelectInSeq
<1>5. CASE T = {}
  <2>1. I = {}
    BY <1>5
  <2> QED BY <1>4, <1>5, <2>1
<1>6. CASE T # {}
  <2>1. I # {} /\ Extensions[Min(I)] \in T
    BY <1>6, Positions
  <2>2. Min(I) # 0
    <3>1. I \in SUBSET Nat /\ 0 \notin I
      OBVIOUS
    <3> QED BY <2>1, <3>1, MinIsSmallest
  <2>3. Find = Extensions[Min(I)]
    BY <1>4, <2>1, <2>2
  <2> QED BY <1>1, <2>1, <2>3
<1> QED BY <1>5, <1>6

\* The next file to remove is a sibling.
LEMMA SiblingFound ==
    ASSUME files \in [ToSet(Extensions) -> ResultsFile], Siblings # {}
    PROVE  Extensions[SelectInSeq(Extensions, LAMBDA ext : ext \in Siblings)] \in Siblings
<1> DEFINE I == {i \in 1 .. Len(Extensions) : Extensions[i] \in Siblings}
<1>1. Siblings \in SUBSET ToSet(Extensions)
  BY DEF Siblings, Others
<1>2. I # {} /\ Extensions[Min(I)] \in Siblings
  BY <1>1, Positions
<1>3. SelectInSeq(Extensions, LAMBDA ext : ext \in Siblings) = Min(I)
  BY <1>2, Zenon DEF SelectInSeq
<1> QED BY <1>2, <1>3

-----------------------------------------------------------------------------
(* The invariant.                                                          *)

StorageTypes ==
    /\ files \in [ToSet(Extensions) -> ResultsFile]
    /\ saving \in [step : {"none", "write", "rename", "clean"},
                   format : ToSet(Extensions) \cup {""}, models : Models]
    /\ prior \in Models /\ format \in ToSet(Extensions)
    /\ \A u \in Units, c \in Cases : reported[u][c] <= sweep

\* As recent as what was reported, for the units whose entries were sent along.
Recent(models) ==
    \A u \in Units \ dropped, c \in Cases : reported[u][c] <= models[u][c]

\* What a reader makes of one file.
Held(file) == IF file.schema \in {"current", "legacy"} THEN file.models ELSE NoModels

FilesRecent ==
    /\ \A ext \in ToSet(Extensions) : files[ext] # Missing => Recent(Held(files[ext]))
    /\ (\A ext \in ToSet(Extensions) : files[ext] = Missing) => Recent(NoModels)

PriorRecent ==
    \A u \in Planned \ dropped : \A c \in Cases \ want[u] : reported[u][c] <= prior[u][c]

SavingRecent ==
    pc = "save" =>
        /\ saving.step # "none" /\ saving.format \in ToSet(Extensions)
        /\ Recent(saving.models)
        /\ \A c \in want[Unit] : saving.models[Unit][c] = sweep
        /\ saving.step = "clean" => files[saving.format] = Current(saving.models)

StorageInv == StorageTypes /\ FilesRecent /\ PriorRecent /\ SavingRecent

-----------------------------------------------------------------------------
(* What is read and what is written.                                       *)

\* The models of a fresh file.
LEMMA Fresh ==
    /\ Models = [Units -> Entries] /\ NoModels \in Models /\ NoEntry \in Entries
    /\ \A u \in Units : NoModels[u] = NoEntry
<1>1. /\ MaxSweeps \in Nat /\ Models = [Units -> Entries]
      /\ NoModels = [u \in Units |-> NoEntry]
  BY RemoteAssumption
<1>2. NoEntry \in Entries
  BY <1>1 DEF NoEntry, None, Entries
<1> QED BY <1>1, <1>2

\* A reader sees models, and all that was reported.
LEMMA LoadedRecent ==
    ASSUME StorageTypes
    PROVE  /\ Loaded \in Models
           /\ FilesRecent => Recent(Loaded)
<1>1. NoModels \in Models
  BY Fresh
<1>2. \A ext \in ToSet(Extensions) : files[ext] # Missing => files[ext].models \in Models
  BY DEF StorageTypes, ResultsFile
<1>3. Missing.schema = "missing"
  BY DEF Missing
<1>4. CASE Find = "" /\ \A ext \in ToSet(Extensions) : files[ext] = Missing
  <2>1. Loaded = NoModels
    BY <1>3, <1>4 DEF Loaded, Found, Migratable
  <2> QED BY <1>1, <1>4, <2>1 DEF FilesRecent
<1>5. CASE Find \in ToSet(Extensions) /\ files[Find] # Missing /\ Find # ""
  <2>1. Loaded = Held(files[Find])
    BY <1>5 DEF Loaded, Found, Migratable, Held
  <2>2. Held(files[Find]) \in Models
    BY <1>1, <1>2, <1>5 DEF Held
  <2> QED BY <1>5, <2>1, <2>2 DEF FilesRecent
<1> QED BY <1>4, <1>5, FindFinds DEF StorageTypes

\* The unit's new entry, as the pod emits it.
LEMMA EmittedEntry ==
    ASSUME RemoteInv, StorageInv, NEW u \in Planned
    PROVE  /\ Emitted(u) \in Entries
           /\ \A c \in want[u] : Emitted(u)[c] = sweep
           /\ u \notin dropped => \A c \in Cases : reported[u][c] <= Emitted(u)[c]
<1>1. /\ u \in Units /\ prior \in [Units -> Entries] /\ NoModels \in [Units -> Entries]
      /\ NoModels[u] = NoEntry /\ sweep \in 0 .. MaxSweeps /\ want[u] \subseteq Cases
  <2>1. u \in Units /\ want[u] \subseteq Cases
    BY DEF RemoteInv, Types, Planned
  <2>2. prior \in [Units -> Entries]
    BY Fresh DEF StorageInv, StorageTypes
  <2>3. sweep \in 0 .. MaxSweeps
    BY DEF RemoteInv, Types
  <2> QED BY <2>1, <2>2, <2>3, Fresh
<1>2. Seeded(u) = prior[u]
  BY <1>1 DEF Seeded, Bundled
<1>3. Emitted(u) = [c \in Cases |-> IF c \in want[u] THEN sweep ELSE prior[u][c]]
  BY <1>1, <1>2 DEF Emitted, PodFile, Bundled
<1>4. Emitted(u) \in Entries
  BY <1>1, <1>3 DEF Entries
<1>5. \A c \in Cases : reported[u][c] <= sweep
  BY <1>1 DEF StorageInv, StorageTypes
<1>6. u \notin dropped => \A c \in Cases \ want[u] : reported[u][c] <= prior[u][c]
  BY DEF StorageInv, PriorRecent
<1> QED BY <1>1, <1>3, <1>4, <1>5, <1>6

\* What is saved for a unit: its new entry over what a reader sees.
LEMMA MergedRecent ==
    ASSUME RemoteInv, StorageInv, NEW u \in Planned
    PROVE  /\ Merged(u) \in Models /\ Recent(Merged(u))
           /\ \A c \in want[u] : Merged(u)[u][c] = sweep
<1>1. u \in Units /\ Models = [Units -> Entries]
  BY RemoteAssumption DEF Planned
<1>2. Loaded \in Models /\ Recent(Loaded)
  BY LoadedRecent DEF StorageInv
<1>3. /\ Merged(u) \in Models /\ Merged(u)[u] = Emitted(u)
      /\ \A v \in Units \ {u} : Merged(u)[v] = Loaded[v]
  BY <1>1, <1>2, EmittedEntry DEF Merged
<1>4. Recent(Merged(u))
  BY <1>1, <1>2, <1>3, EmittedEntry DEF Recent
<1> QED BY <1>3, <1>4, EmittedEntry

-----------------------------------------------------------------------------
(* Step by step.                                                           *)

LEMMA InitStorage == Init => StorageInv
<1> SUFFICES ASSUME Init PROVE StorageInv
  OBVIOUS
<1>1. /\ files \in Firsts /\ saving = NotSaving /\ prior = NoModels /\ reported = NoModels
      /\ format \in Formats /\ sweep = 1 /\ pc = "plan" /\ Planned = {}
  BY DEF Init, DirInit, Planned
<1>2. files \in [ToSet(Extensions) -> ResultsFile] /\ format \in ToSet(Extensions)
  BY <1>1, FilesAssumption
<1>3. \A u \in Units, c \in Cases : reported[u][c] = 0
  BY <1>1, Fresh DEF NoEntry, None
<1>4. StorageTypes
  <2>1. saving \in [step : {"none", "write", "rename", "clean"},
                   format : ToSet(Extensions) \cup {""}, models : Models]
    BY <1>1, Fresh DEF NotSaving
  <2>2. \A u \in Units, c \in Cases : reported[u][c] <= sweep
    BY <1>1, <1>3
  <2> QED BY <1>1, <1>2, <2>1, <2>2, Fresh, Zenon DEF StorageTypes
<1>5. \A models \in Models : Recent(models)
  <2> SUFFICES ASSUME NEW models \in Models, NEW u \in Units, NEW c \in Cases
               PROVE  0 <= models[u][c]
    BY <1>3 DEF Recent
  <2>1. models[u][c] \in 0 .. MaxSweeps
    BY Fresh DEF Entries
  <2> QED BY <2>1
<1>6. FilesRecent
  <2>1. \A ext \in ToSet(Extensions) : files[ext] # Missing => Held(files[ext]) \in Models
    BY <1>2, Fresh DEF ResultsFile, Held
  <2> QED BY <1>5, <2>1, Fresh DEF FilesRecent
<1>7. PriorRecent /\ SavingRecent
  BY <1>1 DEF PriorRecent, SavingRecent
<1> QED BY <1>4, <1>6, <1>7 DEF StorageInv

\* Steps that leave the results, the reports and the plan alone.
LEMMA Apart ==
    ASSUME StorageInv,
           UNCHANGED <<files, saving, prior, format, sweep, want, reported, dropped>>,
           \/ pc' # "save"
           \/ UNCHANGED <<pc, inbox>>
    PROVE  StorageInv'
<1> USE DEF StorageInv
<1>1. StorageTypes'
  BY DEF StorageTypes
<1>2. FilesRecent'
  BY DEF FilesRecent, Recent
<1>3. PriorRecent'
  BY DEF PriorRecent, Planned
<1>4. SavingRecent'
  BY DEF SavingRecent, Recent, Unit
<1> QED BY <1>1, <1>2, <1>3, <1>4

LEMMA StaysApart ==
    ASSUME StorageInv,
           \/ GiveUp \/ Upload \/ Submit \/ Following \/ Ignore \/ LandLoss \/ Applied
           \/ Close \/ Interrupt \/ Conclude \/ Drop \/ KeepAlive
           \/ (\E u \in Units : Settle(u)) \/ UNCHANGED vars
    PROVE  StorageInv'
<1> USE DEF plan, remote, memory, history, dirVars, Leave
<1>1. CASE GiveUp \/ Upload \/ Submit
  BY <1>1, Apart DEF GiveUp, Upload, Submit
<1>2. CASE Connect \/ StreamFails \/ Receive \/ Reconcile
  BY <1>2, Apart DEF Connect, StreamFails, Receive, Reconcile
<1>3. CASE StatusFails \/ Backoff
  BY <1>3, Apart DEF StatusFails, Backoff
<1>4. CASE Ignore \/ LandLoss \/ Close
  BY <1>4, Apart DEF Ignore, LandLoss, ToLand, Close
<1>5. CASE Applied
  <2>1. pc' # "save"
    BY <1>5 DEF Applied
  <2> QED BY <1>5, <2>1, Apart DEF Applied
<1>6. CASE Interrupt \/ Drop \/ KeepAlive
  BY <1>6, Apart DEF Interrupt, Drop, KeepAlive
<1>7. CASE Conclude
  BY <1>7, Apart DEF Conclude
<1>8. CASE \E u \in Units : Settle(u)
  BY <1>8, Apart DEF Settle, Moves
<1>9. CASE UNCHANGED vars
  BY <1>9, Apart DEF vars
<1> QED BY <1>1, <1>2, <1>3, <1>4, <1>5, <1>6, <1>7, <1>8, <1>9 DEF Following

\* Plan: the entries sent along are those a reader sees.
LEMMA PlanStorage ==
    ASSUME RemoteInv, StorageInv, Plan
    PROVE  StorageInv'
<1> USE DEF StorageInv
<1>1. /\ sweep' = sweep + 1 /\ pc' # "save"
      /\ UNCHANGED <<files, saving, format, reported>>
  BY DEF Plan, Leave, dirVars
<1>2. PICK out \in SUBSET Oversized :
         /\ prior' = [u \in Units |-> IF want'[u] = {} THEN NoEntry ELSE PriorEntry(u, out)]
         /\ dropped' = dropped \cup {u \in out : want'[u] # {}}
  BY DEF Plan
<1>3. Loaded \in [Units -> Entries] /\ Recent(Loaded) /\ NoEntry \in Entries
  BY LoadedRecent, Fresh
<1>4. StorageTypes'
  <2>1. prior' \in Models
    BY <1>2, <1>3, Fresh DEF PriorEntry
  <2>2. \A u \in Units, c \in Cases : reported[u][c] <= sweep + 1
    <3> SUFFICES ASSUME NEW u \in Units, NEW c \in Cases PROVE reported[u][c] <= sweep + 1
      OBVIOUS
    <3>1. reported[u] \in Entries /\ sweep \in 1 .. MaxSweeps
      BY DEF RemoteInv, Types
    <3>2. reported[u][c] \in 0 .. MaxSweeps
      BY <3>1 DEF Entries
    <3>3. reported[u][c] <= sweep
      BY DEF StorageTypes
    <3> QED BY <3>1, <3>2, <3>3
  <2> QED BY <1>1, <2>1, <2>2 DEF StorageTypes
<1>5. FilesRecent' /\ SavingRecent'
  BY <1>1, <1>2 DEF FilesRecent, Recent, SavingRecent
<1>6. PriorRecent'
  <2> SUFFICES ASSUME NEW u \in Planned' \ dropped', NEW c \in Cases \ want'[u]
               PROVE  reported[u][c] <= prior'[u][c]
    BY <1>1 DEF PriorRecent
  <2>1. u \in Units /\ want'[u] # {} /\ u \notin dropped /\ u \notin out
    BY <1>2 DEF Planned
  <2>2. prior'[u] = Loaded[u]
    BY <1>2, <2>1 DEF PriorEntry
  <2> QED BY <1>3, <2>1, <2>2 DEF Recent
<1> QED BY <1>4, <1>5, <1>6

\* LandResult: what is to be saved has all that was reported.
LEMMA LandResultStorage ==
    ASSUME RemoteInv, StorageInv, LandResult
    PROVE  StorageInv'
<1> USE DEF StorageInv
<1>1. /\ inbox # <<>> /\ pc = "apply"
      /\ UNCHANGED <<files, prior, format, sweep, want, reported, dropped>>
      /\ \/ pc' = pc /\ UNCHANGED saving
         \/ StartSave(format, Merged(Unit)) /\ pc' = "save" /\ UNCHANGED inbox
  BY DEF LandResult, ToLand, plan
<1>2. CASE pc' = pc /\ UNCHANGED saving
  BY <1>1, <1>2, Apart
<1>3. CASE StartSave(format, Merged(Unit)) /\ pc' = "save" /\ UNCHANGED inbox
  <2>1. Unit \in Planned
    BY <1>1, HeadTells
  <2>2. /\ saving' = [step |-> "write", format |-> format, models |-> Merged(Unit)]
        /\ Merged(Unit) \in Models /\ Recent(Merged(Unit))
        /\ \A c \in want[Unit] : Merged(Unit)[Unit][c] = sweep
    BY <1>3, <2>1, MergedRecent DEF StartSave
  <2>3. format \in ToSet(Extensions)
    BY DEF StorageTypes
  <2>4. StorageTypes'
    BY <1>1, <2>2, <2>3 DEF StorageTypes
  <2>5. FilesRecent' /\ PriorRecent'
    BY <1>1 DEF FilesRecent, Recent, PriorRecent, Planned
  <2>6. SavingRecent'
    <3>1. Unit' = Unit
      BY <1>3 DEF Unit
    <3> QED BY <1>1, <2>2, <2>3, <3>1 DEF SavingRecent, Recent
  <2> QED BY <2>4, <2>5, <2>6
<1> QED BY <1>1, <1>2, <1>3

\* A file with a current layout, and what a reader makes of it.
LEMMA CurrentFile ==
    ASSUME NEW models \in Models
    PROVE  /\ Current(models) \in ResultsFile /\ Current(models) # Missing
           /\ Held(Current(models)) = models
<1>1. Current(models).schema = "current" /\ Missing.schema = "missing"
  BY DEF Current, Missing
<1>2. Held(Current(models)) = models
  BY DEF Held, Current
<1>3. Current(models) \in ResultsFile
  BY DEF Current, ResultsFile, Schemas
<1> QED BY <1>1, <1>2, <1>3

\* Save: no step of a save takes a reported result away.
LEMMA SaveStorage ==
    ASSUME StorageInv, Save
    PROVE  StorageInv'
<1> USE DEF StorageInv
<1>1. /\ pc = "save" /\ (WriteTemp \/ Rename \/ RemoveSibling)
      /\ UNCHANGED <<pc, inbox, prior, format, sweep, want, reported, dropped>>
  BY DEF Save, plan, memory, history
<1>2. /\ saving.step \in {"write", "rename", "clean"} /\ saving.format \in ToSet(Extensions)
      /\ saving.models \in Models /\ Recent(saving.models)
      /\ \A c \in want[Unit] : saving.models[Unit][c] = sweep
      /\ saving.step = "clean" => files[saving.format] = Current(saving.models)
  <2>1. saving.step \in {"none", "write", "rename", "clean"} /\ saving.models \in Models
    BY DEF StorageTypes
  <2>2. /\ saving.step # "none" /\ saving.format \in ToSet(Extensions)
        /\ Recent(saving.models)
        /\ \A c \in want[Unit] : saving.models[Unit][c] = sweep
        /\ saving.step = "clean" => files[saving.format] = Current(saving.models)
    BY <1>1 DEF SavingRecent
  <2> QED BY <2>1, <2>2
<1>3. /\ PriorRecent' /\ Unit' = Unit
      /\ \A models : Recent(models)' <=> Recent(models)
  BY <1>1 DEF PriorRecent, Planned, Unit, Recent
<1>4. CASE WriteTemp
  <2>1. saving' = [saving EXCEPT !.step = "rename"] /\ UNCHANGED files
    BY <1>4 DEF WriteTemp
  <2>2. StorageTypes'
    BY <1>1, <2>1 DEF StorageTypes
  <2>3. FilesRecent' /\ SavingRecent'
    BY <1>1, <1>2, <1>3, <2>1, <2>2 DEF FilesRecent, SavingRecent, Recent, StorageTypes
  <2> QED BY <1>3, <2>2, <2>3
<1>5. CASE Rename
  <2>1. /\ files' = [files EXCEPT ![saving.format] = Current(saving.models)]
        /\ saving' = [saving EXCEPT !.step = "clean"]
    BY <1>5 DEF Rename
  <2>2. /\ files' \in [ToSet(Extensions) -> ResultsFile]
        /\ files'[saving.format] = Current(saving.models)
        /\ \A ext \in ToSet(Extensions) \ {saving.format} : files'[ext] = files[ext]
    BY <1>2, <2>1, CurrentFile DEF StorageTypes
  <2>3. saving' \in [step : {"none", "write", "rename", "clean"},
                    format : ToSet(Extensions) \cup {""}, models : Models]
        /\ saving'.format = saving.format /\ saving'.models = saving.models
        /\ saving'.step = "clean"
    BY <2>1 DEF StorageTypes
  <2>4. StorageTypes'
    BY <1>1, <2>2, <2>3 DEF StorageTypes
  <2>5. FilesRecent'
    BY <1>1, <1>2, <2>2, CurrentFile DEF FilesRecent, Recent
  <2>6. SavingRecent'
    BY <1>1, <1>2, <1>3, <2>2, <2>3 DEF SavingRecent, Recent
  <2> QED BY <1>3, <2>4, <2>5, <2>6
<1>6. CASE RemoveSibling
  <2>1. PICK ext \in Siblings : files' = [files EXCEPT ![ext] = Missing]
    BY <1>6, SiblingFound DEF RemoveSibling, StorageTypes
  <2>2. UNCHANGED saving /\ saving.step = "clean"
    BY <1>6 DEF RemoveSibling
  <2>3. ext \in ToSet(Extensions) /\ ext # saving.format
    BY DEF Siblings, Others, StorageTypes
  <2>4. /\ files' \in [ToSet(Extensions) -> ResultsFile]
        /\ files'[saving.format] = Current(saving.models)
        /\ \A e \in ToSet(Extensions) : files'[e] # Missing => files'[e] = files[e]
    BY <1>2, <2>1, <2>2, <2>3 DEF StorageTypes, ResultsFile
  <2>5. StorageTypes'
    BY <1>1, <2>2, <2>4 DEF StorageTypes
  <2>6. FilesRecent'
    BY <1>1, <1>2, <2>4, CurrentFile DEF FilesRecent, Recent
  <2>7. SavingRecent'
    BY <1>1, <1>2, <1>3, <2>2, <2>4 DEF SavingRecent, Recent
  <2> QED BY <1>3, <2>5, <2>6, <2>7
<1> QED BY <1>1, <1>4, <1>5, <1>6

\* SaveFails, Crash, Rerun: whatever files there are stay.
LEMMA AbandonsStorage ==
    ASSUME StorageInv, SaveFails \/ Crash \/ Rerun
    PROVE  StorageInv'
<1> USE DEF StorageInv
<1>1. /\ pc' # "save" /\ saving' = NotSaving
      /\ UNCHANGED <<files, prior, sweep, want, reported, dropped>>
      /\ UNCHANGED format \/ format' \in Formats
  BY DEF SaveFails, Crash, Rerun, Forgets, plan
<1>2. StorageTypes'
  <2>1. saving' \in [step : {"none", "write", "rename", "clean"},
                    format : ToSet(Extensions) \cup {""}, models : Models]
    BY <1>1, Fresh DEF NotSaving
  <2>2. format' \in ToSet(Extensions)
    BY <1>1, FilesAssumption DEF StorageTypes
  <2> QED BY <1>1, <2>1, <2>2 DEF StorageTypes
<1>3. FilesRecent' /\ PriorRecent' /\ SavingRecent'
  BY <1>1 DEF FilesRecent, Recent, PriorRecent, Planned, SavingRecent
<1> QED BY <1>2, <1>3

\* Report: only the file just saved is left.
LEMMA ReportStorage ==
    ASSUME RemoteInv, StorageInv, Report
    PROVE  StorageInv'
<1> USE DEF StorageInv
<1>1. /\ pc = "save" /\ pc' # "save" /\ Saved /\ saving' = NotSaving
      /\ reported' = [reported EXCEPT ![Unit] = [c \in Cases |->
                         IF c \in want[Unit] THEN sweep ELSE @[c]]]
      /\ UNCHANGED <<files, prior, format, sweep, want, dropped>>
  BY DEF Report, plan
<1>2. Unit \in Units /\ reported \in [Units -> Entries] /\ sweep \in Nat
  BY <1>1, HeadTells DEF RemoteInv, Landings, Planned, Types
<1>3. /\ \A c \in Cases : reported'[Unit][c] = IF c \in want[Unit] THEN sweep
                                              ELSE reported[Unit][c]
      /\ \A u \in Units \ {Unit} : reported'[u] = reported[u]
  BY <1>1, <1>2
<1>4. /\ saving.format \in ToSet(Extensions) /\ Recent(saving.models)
      /\ \A c \in want[Unit] : saving.models[Unit][c] = sweep
      /\ files[saving.format] = Current(saving.models) /\ saving.models \in Models
  BY <1>1 DEF SavingRecent, StorageTypes, Saved
<1>5. \A ext \in ToSet(Extensions) : files[ext] # Missing => ext = saving.format
  BY <1>1 DEF Saved, Siblings, Others, StorageTypes
<1>6. ASSUME NEW u \in Units \ dropped, NEW c \in Cases
      PROVE  reported'[u][c] <= saving.models[u][c]
  <2>1. CASE u = Unit /\ c \in want[Unit]
    BY <1>2, <1>3, <1>4, <2>1
  <2>2. CASE ~(u = Unit /\ c \in want[Unit])
    <3>1. reported'[u][c] = reported[u][c]
      BY <1>3, <2>2
    <3> QED BY <1>4, <3>1 DEF Recent
  <2> QED BY <2>1, <2>2
<1>7. StorageTypes'
  <2>1. saving' \in [step : {"none", "write", "rename", "clean"},
                    format : ToSet(Extensions) \cup {""}, models : Models]
    BY <1>1, Fresh DEF NotSaving
  <2>2. \A u \in Units, c \in Cases : reported'[u][c] <= sweep
    <3> SUFFICES ASSUME NEW u \in Units, NEW c \in Cases PROVE reported'[u][c] <= sweep
      OBVIOUS
    <3>1. reported'[u][c] \in {sweep, reported[u][c]} /\ reported[u][c] <= sweep
      BY <1>2, <1>3 DEF StorageTypes
    <3> QED BY <1>2, <3>1
  <2> QED BY <1>1, <2>1, <2>2 DEF StorageTypes
<1>8. FilesRecent'
  BY <1>1, <1>4, <1>5, <1>6, CurrentFile DEF FilesRecent, Recent
<1>9. PriorRecent'
  <2> SUFFICES ASSUME NEW u \in Planned \ dropped, NEW c \in Cases \ want[u]
               PROVE  reported'[u][c] <= prior[u][c]
    BY <1>1 DEF PriorRecent, Planned
  <2>1. reported'[u][c] = reported[u][c]
    BY <1>3 DEF Planned
  <2> QED BY <2>1 DEF PriorRecent
<1>10. SavingRecent'
  BY <1>1 DEF SavingRecent
<1> QED BY <1>7, <1>8, <1>9, <1>10

-----------------------------------------------------------------------------
(* The rest of the type invariant: control, and the connection.            *)

Control ==
    /\ ctx \in {"live", "cancelled"}
    /\ pc \in {"plan", "upload", "submit", "connect", "stream", "status", "backoff",
               "apply", "save", "closing", "returned", "crashed"}
    /\ inbox # <<>> => pc \in {"apply", "save"}
    /\ answer \in {"running", "ok", "failed", "error"}

\* Nothing follows the end of the stream.
EndIsLast(messages) == \A i \in 1 .. Len(messages) - 1 : messages[i] # EndOfStream

Connection ==
    /\ conn \in {"none", "open", "dead"} /\ (queue # <<>> => conn = "open")
    /\ EndIsLast(queue)

LEMMA InitControl == Init => Control /\ Connection
<1> SUFFICES ASSUME Init PROVE Control /\ Connection
  OBVIOUS
<1>1. Len(<<>>) = 0 /\ 1 .. 0 - 1 = {}
  OBVIOUS
<1> QED BY <1>1 DEF Init, Control, Connection, EndIsLast

LEMMA StepControl ==
    ASSUME RemoteInv, Control, [Next]_vars
    PROVE  Control'
<1> USE DEF Control, Leave, plan, remote, memory
<1>1. CASE Plan \/ GiveUp \/ Upload \/ Submit
  BY <1>1 DEF Plan, GiveUp, Upload, Submit
<1>2. CASE Connect \/ StreamFails \/ Receive \/ Reconcile \/ StatusFails \/ Backoff
  BY <1>2 DEF Connect, StreamFails, Receive, Reconcile, StatusFails, Backoff
<1>3. CASE Ignore \/ LandLoss \/ LandResult
  BY <1>3 DEF Ignore, LandLoss, LandResult, ToLand, Next1
<1>4. CASE Save \/ SaveFails \/ Report
  BY <1>4 DEF Save, SaveFails, Report, Next1
<1>5. CASE Applied
  <2>1. after \in {"stream", "backoff", "final", "return"}
    BY DEF RemoteInv, Types
  <2>2. /\ UNCHANGED ctx
        /\ \/ pc' \in {"stream", "backoff"} /\ inbox' = <<>> /\ UNCHANGED answer
           \/ pc' = "apply" /\ UNCHANGED answer
           \/ pc' = "closing" /\ inbox' = <<>> /\ answer' \in {"ok", "failed"}
    <3>1. CASE after \in {"stream", "backoff"}
      BY <1>5, <3>1 DEF Applied
    <3>2. CASE after = "final"
      BY <1>5, <3>2 DEF Applied
    <3>3. CASE after = "return"
      BY <1>5, <3>3 DEF Applied
    <3> QED BY <2>1, <3>1, <3>2, <3>3
  <2> QED BY <2>2
<1>6. CASE Close \/ Interrupt \/ Drop \/ KeepAlive \/ Conclude
  BY <1>6 DEF Close, Interrupt, Drop, KeepAlive, Conclude
<1>7. CASE \E u \in Units : Settle(u)
  BY <1>7 DEF Settle, Moves
<1>8. CASE Crash \/ Rerun
  BY <1>8 DEF Crash, Rerun, Forgets
<1>9. CASE Stopped \/ UNCHANGED vars
  BY <1>9 DEF Stopped, vars
<1> QED BY <1>1, <1>2, <1>3, <1>4, <1>5, <1>6, <1>7, <1>8, <1>9
        DEF Next, Client, Following, Landing

\* A message joins messages without an end.
LEMMA EndStaysLast ==
    ASSUME NEW s \in Seq(Messages), EndOfStream \notin ToSet(s), NEW m \in Messages
    PROVE  EndIsLast(s) /\ EndIsLast(Append(s, m))
<1>1. /\ Len(s) \in Nat /\ DOMAIN s = 1 .. Len(s) /\ Len(Append(s, m)) = Len(s) + 1
      /\ \A i \in 1 .. Len(s) : Append(s, m)[i] = s[i]
  OBVIOUS
<1>2. \A i \in 1 .. Len(s) : s[i] # EndOfStream
  BY <1>1 DEF ToSet
<1> QED BY <1>1, <1>2 DEF EndIsLast

LEMMA ConnectionEmits ==
    ASSUME RemoteInv, Connection, Serving, NEW m \in Messages, Emit(m), UNCHANGED conn
    PROVE  Connection'
<1>1. queue \in Seq(Messages) /\ EndOfStream \notin ToSet(queue)
  BY DEF RemoteInv, Types, News, Over, Serving
<1>2. EndIsLast(queue')
  BY <1>1, EndStaysLast DEF Emit
<1>3. queue' # <<>> => conn = "open"
  BY DEF Emit, Connection
<1> QED BY <1>2, <1>3 DEF Connection

LEMMA ConnectionReceives ==
    ASSUME RemoteInv, Connection, Receive
    PROVE  Connection'
<1>1. /\ queue # <<>> /\ queue' = Tail(queue) /\ conn = "open"
      /\ Head(queue).type = "unit" => UNCHANGED conn
      /\ conn' \in {"open", "none"}
  BY DEF Receive
<1>2. queue \in Seq(Messages)
  BY DEF RemoteInv, Types
<1>3. /\ Len(queue) \in Nat \ {0} /\ queue' \in Seq(Messages)
      /\ Len(queue') = Len(queue) - 1
      /\ Head(queue) = queue[1] /\ Head(queue) \in Messages
      /\ \A i \in 1 .. Len(queue') : queue'[i] = queue[i + 1]
  BY <1>1, <1>2
<1>4. EndIsLast(queue')
  BY <1>3 DEF EndIsLast, Connection
<1>5. CASE Head(queue).type = "unit"
  BY <1>1, <1>4, <1>5 DEF Connection
<1>6. CASE Head(queue).type # "unit"
  <2>1. Head(queue) = EndOfStream
    BY <1>3, <1>6 DEF Messages, UnitMessages
  <2>2. ~(1 \in 1 .. Len(queue) - 1)
    BY <1>3, <2>1 DEF Connection, EndIsLast
  <2>3. Len(queue') = 0
    BY <1>3, <2>2
  <2>4. queue' = <<>>
    BY <1>3, <2>3
  <2> QED BY <1>1, <1>4, <2>4 DEF Connection
<1> QED BY <1>5, <1>6

LEMMA StepConnection ==
    ASSUME RemoteInv, Connection, [Next]_vars
    PROVE  Connection'
<1> USE DEF remote, Leave
<1>1. CASE UNCHANGED <<conn, queue>>
  BY <1>1 DEF Connection
<1>2. CASE queue' = <<>> /\ conn' \in {"none", "dead"}
  <2>1. Len(<<>>) = 0 /\ 1 .. 0 - 1 = {}
    OBVIOUS
  <2> QED BY <1>2, <2>1 DEF Connection, EndIsLast
<1>3. CASE KeepAlive
  BY <1>3 DEF KeepAlive, Connection
<1>4. CASE Connect
  <2>1. Snapshot \in Seq(Messages) /\ EndOfStream \notin ToSet(Snapshot)
    BY SnapshotHolds, SnapshotTells, EndIsNoUnit DEF RemoteInv, Messages
  <2>2. EndOfStream \in Messages
    BY DEF Messages
  <2> QED BY <1>4, <2>1, <2>2, EndStaysLast DEF Connect, Connection
<1>5. CASE Receive
  BY <1>5, ConnectionReceives
<1>6. CASE Conclude
  <2>1. EndOfStream \in Messages
    BY DEF Messages
  <2> QED BY <1>6, <2>1, ConnectionEmits DEF Conclude
<1>7. CASE \E u \in Units : Settle(u)
  <2>1. PICK u \in Units : Settle(u)
    BY <1>7
  <2>2. PICK s \in Outcomes[u] : Moves(u, s)
    BY <2>1 DEF Settle
  <2>3. s \in Settled
    BY RemoteAssumption
  <2>4. [type |-> "unit", unit |-> u, status |-> s] \in Messages
    BY <2>3 DEF Messages, UnitMessages, UnitStates
  <2> QED BY <2>1, <2>2, <2>4, ConnectionEmits DEF Settle, Moves
<1>8. CASE \/ Plan \/ GiveUp \/ Upload \/ Submit \/ Reconcile \/ StatusFails \/ Backoff
           \/ Landing \/ Close
  BY <1>1, <1>8 DEF Plan, GiveUp, Upload, Submit, Reconcile, StatusFails, Backoff, Landing,
     Ignore, LandLoss, LandResult, Save, SaveFails, Report, Applied, Close
<1>9. CASE StreamFails \/ Drop \/ Crash \/ Rerun
  BY <1>2, <1>9 DEF StreamFails, Drop, Crash, Rerun, Forgets
<1>10. CASE Interrupt \/ Stopped \/ UNCHANGED vars
  BY <1>1, <1>10 DEF Interrupt, Stopped, vars
<1> QED BY <1>3, <1>4, <1>5, <1>6, <1>7, <1>8, <1>9, <1>10 DEF Next, Client, Following

-----------------------------------------------------------------------------
(* What a reader sees of a landing.  Until the rename nothing changes; the *)
(* rename shows the new file, or the one other file goes on hiding it, in  *)
(* which case its removal shows the new file.                              *)

\* The save under way is that of the unit at the head of the inbox, and what it
\* writes is either what a reader already sees or that unit's landing.
LandingInv ==
    pc = "save" /\ ~littered =>
        /\ Unit \in Planned
        /\ \A a, b \in Siblings : a = b
        /\ saving.step \in {"write", "rename"} => saving.models = Merged(Unit)
        /\ saving.step = "clean" => saving.models \in {Loaded, Merged(Unit)}

\* A set that has no two elements, as the client counts them.
LEMMA AtMostOne ==
    ASSUME NEW S, IsFiniteSet(S), ~(Cardinality(S) > 1), NEW a \in S, NEW b \in S
    PROVE  a = b
<1>1. Cardinality(S) \in Nat
  BY FS_CardinalityType
<1>2. Cardinality(S) # 0
  BY FS_EmptySet
<1>3. Cardinality(S) = 1
  BY <1>1, <1>2
<1>4. PICK x : S = {x}
  BY <1>3, FS_Singleton
<1> QED BY <1>4

LEMMA ExtensionsFinite == IsFiniteSet(ToSet(Extensions))
<1>1. Extensions \in Seq(STRING)
  BY FilesAssumption
<1>2. Len(Extensions) \in Nat /\ DOMAIN Extensions = 1 .. Len(Extensions)
  BY <1>1
<1>3. IsFiniteSet(1 .. Len(Extensions))
  BY <1>2, FS_Interval
<1>4. Extensions \in Surjection(1 .. Len(Extensions), ToSet(Extensions))
  <2>1. Extensions \in [1 .. Len(Extensions) -> ToSet(Extensions)]
    BY <1>1, <1>2 DEF ToSet
  <2>2. \A ext \in ToSet(Extensions) : \E i \in 1 .. Len(Extensions) : Extensions[i] = ext
    BY <1>2 DEF ToSet
  <2> QED BY <2>1, <2>2 DEF Surjection
<1> QED BY <1>3, <1>4, FS_Surjection

\* The position at which readers find their file, 0 for none.
FoundAt == LET I == {i \in 1 .. Len(Extensions) : files[Extensions[i]] # Missing}
           IN  IF I # {} THEN Min(I) ELSE 0

LEMMA FindIsFoundAt ==
    /\ FoundAt # 0 => Find = Extensions[FoundAt]
    /\ FoundAt' # 0 => Find' = Extensions[FoundAt']
BY Zenon DEF Find, FindAmong, SelectInSeq, FoundAt

LEMMA SameFiles == ASSUME UNCHANGED files PROVE Loaded' = Loaded
BY Zenon DEF Loaded, Found, Find, FindAmong, SelectInSeq

\* A file that appears or is rewritten is the one found, or changes nothing.
LEMMA FindAfterWrite ==
    ASSUME files \in [ToSet(Extensions) -> ResultsFile],
           NEW ext \in ToSet(Extensions),
           files'[ext] # Missing,
           \A e \in ToSet(Extensions) \ {ext} : files'[e] = files[e]
    PROVE  Find' = ext \/ Find' = Find
<1> DEFINE I == {i \in 1 .. Len(Extensions) : files[Extensions[i]] # Missing}
           J == {i \in 1 .. Len(Extensions) : files'[Extensions[i]] # Missing}
<1>1. /\ Len(Extensions) \in Nat /\ DOMAIN Extensions = 1 .. Len(Extensions)
      /\ \A i \in 1 .. Len(Extensions) : Extensions[i] \in ToSet(Extensions)
  <2>1. Extensions \in Seq(STRING)
    BY FilesAssumption
  <2> QED BY <2>1 DEF ToSet
<1>2. I \in SUBSET Nat /\ J \in SUBSET Nat /\ 0 \notin I /\ 0 \notin J
  BY <1>1
<1>3. I \subseteq J /\ \A j \in J \ I : Extensions[j] = ext
  BY <1>1
<1>4. J # {}
  BY <1>1 DEF ToSet
<1>5. Min(J) \in J /\ \A j \in J : Min(J) <= j
  BY <1>2, <1>4, MinIsSmallest
<1>6. Find' = Extensions[Min(J)]
  <2>1. FoundAt' = Min(J)
    BY <1>4 DEF FoundAt
  <2>2. Min(J) # 0
    BY <1>2, <1>5
  <2> QED BY <2>1, <2>2, FindIsFoundAt, Zenon
<1>7. CASE Min(J) \in I
  <2>1. Min(I) \in I /\ Min(I) <= Min(J) /\ Min(J) <= Min(I)
    BY <1>2, <1>3, <1>5, <1>7, MinIsSmallest
  <2>2. Min(I) = Min(J)
    <3>1. Min(I) \in Nat /\ Min(J) \in Nat
      BY <1>2, <1>5, <2>1
    <3> QED BY <2>1, <3>1
  <2>3. FoundAt = Min(I) /\ Min(I) # 0
    BY <1>2, <1>7, <2>1 DEF FoundAt
  <2> QED BY <1>6, <2>2, <2>3, FindIsFoundAt
<1> QED BY <1>3, <1>5, <1>6, <1>7

\* A reader sees what the only file there holds.
LEMMA OnlyFile ==
    \A ext \in ToSet(Extensions), models \in Models :
        /\ files \in [ToSet(Extensions) -> ResultsFile] /\ files[ext] = Current(models)
        /\ \A e \in ToSet(Extensions) \ {ext} : files[e] = Missing
        => Loaded = models
<1> SUFFICES ASSUME files \in [ToSet(Extensions) -> ResultsFile],
                    NEW ext \in ToSet(Extensions), NEW models \in Models,
                    files[ext] = Current(models),
                    \A e \in ToSet(Extensions) \ {ext} : files[e] = Missing
             PROVE  Loaded = models
  OBVIOUS
<1>1. files[ext] # Missing /\ Current(models).schema = "current"
      /\ Current(models).models = models
  BY CurrentFile DEF Current
<1>2. Find = ext /\ Find # ""
  BY <1>1, FindFinds
<1> QED BY <1>1, <1>2 DEF Loaded, Found

LEMMA OnlyFileNext ==
    (\A ext \in ToSet(Extensions), models \in Models :
        /\ files \in [ToSet(Extensions) -> ResultsFile] /\ files[ext] = Current(models)
        /\ \A e \in ToSet(Extensions) \ {ext} : files[e] = Missing
        => Loaded = models)'
BY OnlyFile, PTL

\* Renaming: the new file is seen, or what was seen still is.
LEMMA RenameShows ==
    ASSUME StorageInv, pc = "save", Rename
    PROVE  /\ Loaded' \in {Loaded, saving.models}
           /\ Siblings' = Siblings
           /\ saving'.step = "clean" /\ saving'.models = saving.models
<1>1. /\ files \in [ToSet(Extensions) -> ResultsFile] /\ saving.format \in ToSet(Extensions)
      /\ saving.models \in Models
      /\ saving \in [step : {"none", "write", "rename", "clean"},
                     format : ToSet(Extensions) \cup {""}, models : Models]
  BY DEF StorageInv, StorageTypes, SavingRecent
<1>2. /\ files' = [files EXCEPT ![saving.format] = Current(saving.models)]
      /\ saving' = [saving EXCEPT !.step = "clean"]
  BY DEF Rename
<1>3. /\ files'[saving.format] = Current(saving.models) /\ DOMAIN files' = DOMAIN files
      /\ \A e \in ToSet(Extensions) \ {saving.format} : files'[e] = files[e]
      /\ saving'.step = "clean" /\ saving'.models = saving.models
      /\ saving'.format = saving.format
      /\ DOMAIN files = ToSet(Extensions)
  BY <1>1, <1>2
<1>4. files'[saving.format] # Missing
  BY <1>1, <1>3, CurrentFile
<1>5. saving.format # ""
  BY <1>1, FilesAssumption, Zenon
<1>6. Find' = saving.format \/ Find' = Find
  BY <1>1, <1>3, <1>4, FindAfterWrite
<1>7. CASE Find' = saving.format
  <2>1. Found' = Current(saving.models)
    BY <1>3, <1>5, <1>7 DEF Found
  <2>2. Loaded' = saving.models
    BY <2>1 DEF Loaded, Current
  <2> QED BY <1>3, <2>2 DEF Siblings, Others
<1>8. CASE Find' = Find /\ Find # saving.format
  <2>1. Found' = Found
    BY <1>1, <1>3, <1>8, FindFinds DEF Found
  <2>2. Loaded' = Loaded
    BY <2>1 DEF Loaded
  <2> QED BY <1>3, <2>2 DEF Siblings, Others
<1> QED BY <1>6, <1>7, <1>8

\* Removing the one other file shows the new one.
LEMMA RemovalShows ==
    ASSUME StorageInv, pc = "save", RemoveSibling, \A a, b \in Siblings : a = b
    PROVE  Loaded' = saving.models /\ Siblings' = {}
<1>1. /\ files \in [ToSet(Extensions) -> ResultsFile] /\ saving.format \in ToSet(Extensions)
      /\ saving.models \in Models /\ saving.step = "clean"
      /\ files[saving.format] = Current(saving.models)
  BY DEF StorageInv, StorageTypes, SavingRecent, RemoveSibling
<1>2. PICK ext \in Siblings : files' = [files EXCEPT ![ext] = Missing]
  BY <1>1, SiblingFound DEF RemoveSibling
<1>3. saving' = saving
  BY DEF RemoveSibling
<1>4. ext \in ToSet(Extensions) /\ ext # saving.format /\ Missing \in ResultsFile
  BY <1>1, <1>2 DEF Siblings, Others, ResultsFile
<1>5. /\ files' \in [ToSet(Extensions) -> ResultsFile]
      /\ files'[saving.format] = Current(saving.models)
  BY <1>1, <1>2, <1>4
<1>6. \A e \in ToSet(Extensions) \ {saving.format} : files'[e] = Missing
  <2> SUFFICES ASSUME NEW e \in ToSet(Extensions) \ {saving.format}, files'[e] # Missing
               PROVE  FALSE
    OBVIOUS
  <2>1. e # ext /\ files[e] # Missing
    BY <1>1, <1>2, <1>4
  <2>2. e \in Siblings
    BY <1>1, <2>1 DEF Siblings, Others
  <2> QED BY <2>1, <2>2
<1>7. Loaded' = saving.models
  BY <1>1, <1>5, <1>6, OnlyFileNext
<1>8. Siblings' = {}
  BY <1>3, <1>5, <1>6 DEF Siblings, Others
<1> QED BY <1>7, <1>8

\* What the steps of a save show, and the landing they are part of.
Shows == ~littered' /\ Loaded' # Loaded =>
             \E u \in Planned : Loaded' = [Loaded EXCEPT ![u] = Emitted(u)]

LEMMA SaveLands ==
    ASSUME StorageInv, LandingInv, Save
    PROVE  LandingInv' /\ Shows
<1>1. /\ pc = "save" /\ pc' = pc /\ (WriteTemp \/ Rename \/ RemoveSibling)
      /\ UNCHANGED <<inbox, prior, want, sweep, littered>>
  BY DEF Save, plan, memory, history
<1>2. SUFFICES ASSUME ~littered PROVE LandingInv' /\ Shows
  BY <1>1 DEF LandingInv, Shows
<1>3. /\ Unit \in Planned /\ \A a, b \in Siblings : a = b
      /\ saving.step \in {"write", "rename"} => saving.models = Merged(Unit)
      /\ saving.step = "clean" => saving.models \in {Loaded, Merged(Unit)}
  BY <1>1, <1>2 DEF LandingInv
<1>4. /\ Unit' = Unit /\ Planned' = Planned
      /\ Emitted(Unit)' = Emitted(Unit)
  BY <1>1 DEF Unit, Planned, Emitted, PodFile, Seeded, Bundled
<1>5. Merged(Unit) = [Loaded EXCEPT ![Unit] = Emitted(Unit)]
  BY DEF Merged
<1>6. saving \in [step : {"none", "write", "rename", "clean"},
                  format : ToSet(Extensions) \cup {""}, models : Models]
  BY DEF StorageInv, StorageTypes
<1>7. CASE WriteTemp
  <2>1. files' = files /\ saving' = [saving EXCEPT !.step = "rename"]
        /\ saving.step = "write"
    BY <1>7 DEF WriteTemp
  <2>2. /\ saving'.step = "rename" /\ saving'.models = saving.models
        /\ saving'.format = saving.format
    BY <1>6, <2>1
  <2>3. Loaded' = Loaded /\ Siblings' = Siblings
    BY <2>1, <2>2, SameFiles DEF Siblings, Others
  <2>4. Merged(Unit)' = Merged(Unit)
    BY <1>4, <2>3 DEF Merged
  <2> QED BY <1>1, <1>3, <1>4, <2>1, <2>2, <2>3, <2>4 DEF LandingInv, Shows
<1>8. CASE Rename
  <2>1. /\ Loaded' \in {Loaded, saving.models} /\ Siblings' = Siblings
        /\ saving'.step = "clean" /\ saving'.models = saving.models
    BY <1>1, <1>8, RenameShows
  <2>2. saving.models = Merged(Unit)
    BY <1>3, <1>8 DEF Rename
  <2>3. Loaded' # Loaded => Loaded' = [Loaded EXCEPT ![Unit] = Emitted(Unit)]
    BY <1>5, <2>1, <2>2
  <2>4. saving'.models \in {Loaded', Merged(Unit)'}
    <3>1. CASE Loaded' = saving.models
      BY <2>1, <3>1
    <3>2. CASE Loaded' = Loaded
      <4>1. Merged(Unit)' = Merged(Unit)
        BY <1>4, <3>2 DEF Merged
      <4> QED BY <2>1, <2>2, <4>1
    <3> QED BY <2>1, <3>1, <3>2
  <2>5. LandingInv'
    BY <1>3, <1>4, <2>1, <2>4 DEF LandingInv
  <2> QED BY <1>3, <2>3, <2>5 DEF Shows
<1>9. CASE RemoveSibling
  <2>1. Loaded' = saving.models /\ Siblings' = {}
    BY <1>1, <1>3, <1>9, RemovalShows
  <2>2. saving' = saving /\ saving.step = "clean"
    BY <1>9 DEF RemoveSibling
  <2>3. Loaded' # Loaded => Loaded' = [Loaded EXCEPT ![Unit] = Emitted(Unit)]
    BY <1>3, <1>5, <2>1, <2>2
  <2>4. LandingInv'
    BY <1>3, <1>4, <2>1, <2>2 DEF LandingInv
  <2> QED BY <1>3, <2>3, <2>4 DEF Shows
<1> QED BY <1>1, <1>7, <1>8, <1>9

\* A landing starts: the file is merged as it is, with the files it meets.
LEMMA LandResultLands ==
    ASSUME RemoteInv, StorageInv, LandingInv, LandResult
    PROVE  LandingInv'
<1>1. /\ inbox # <<>> /\ pc = "apply" /\ UNCHANGED <<files, prior, want, sweep>>
      /\ \/ pc' = pc
         \/ /\ StartSave(format, Merged(Unit)) /\ pc' = "save" /\ UNCHANGED inbox
            /\ littered' = (Cardinality(Others(format)) > 1)
  BY DEF LandResult, ToLand, plan
<1>2. SUFFICES ASSUME pc' = "save", ~littered' PROVE LandingInv'
  BY DEF LandingInv
<1>3. /\ saving' = [step |-> "write", format |-> format, models |-> Merged(Unit)]
      /\ ~(Cardinality(Others(format)) > 1) /\ UNCHANGED inbox
  BY <1>1, <1>2 DEF StartSave
<1>4. Siblings' = Others(format)
  BY <1>1, <1>3 DEF Siblings, Others
<1>5. Others(format) \in SUBSET ToSet(Extensions)
  BY DEF Others, StorageInv, StorageTypes
<1>6. \A a, b \in Siblings' : a = b
  BY <1>3, <1>4, <1>5, AtMostOne, ExtensionsFinite, FS_Subset
<1>7. Unit' = Unit /\ Unit \in Planned /\ Planned' = Planned
  BY <1>1, <1>3, HeadTells DEF Unit, Planned
<1>8. Loaded' = Loaded
  BY <1>1, SameFiles
<1>9. Merged(Unit)' = Merged(Unit)
  BY <1>1, <1>7, <1>8 DEF Merged, Emitted, PodFile, Seeded, Bundled
<1> QED BY <1>3, <1>6, <1>7, <1>9 DEF LandingInv

\* Every other step leaves the files alone, and is no part of a save or keeps
\* what the save is about.
LEMMA OtherStepsShowNothing ==
    ASSUME UNCHANGED files
    PROVE  Shows
BY SameFiles DEF Shows

LEMMA KeepsLanding ==
    ASSUME LandingInv,
           UNCHANGED <<files, saving, inbox, prior, want, sweep, littered, pc>>
    PROVE  LandingInv'
<1>1. Loaded' = Loaded
  BY SameFiles
<1>2. UNCHANGED <<Siblings, Unit, Planned>>
  BY DEF Siblings, Others, Unit, Planned
<1>3. Merged(Unit)' = Merged(Unit)
  BY <1>1, <1>2 DEF Merged, Emitted, PodFile, Seeded, Bundled
<1> QED BY <1>1, <1>2, <1>3 DEF LandingInv

LEMMA StepLands ==
    ASSUME RemoteInv, StorageInv, LandingInv, [Next]_vars
    PROVE  LandingInv' /\ Shows
<1> USE DEF plan, remote, memory, history, dirVars, Leave
<1>1. CASE UNCHANGED files /\ pc' # "save"
  BY <1>1, OtherStepsShowNothing DEF LandingInv
<1>2. CASE UNCHANGED <<files, saving, inbox, prior, want, sweep, littered, pc>>
  BY <1>2, OtherStepsShowNothing, KeepsLanding
<1>3. CASE Plan \/ GiveUp \/ Upload \/ Submit \/ Close
  BY <1>1, <1>3 DEF Plan, GiveUp, Upload, Submit, Close
<1>4. CASE Following
  BY <1>1, <1>4 DEF Following, Connect, StreamFails, Receive, Reconcile, StatusFails, Backoff
<1>5. CASE Ignore \/ LandLoss \/ SaveFails \/ Report
  BY <1>1, <1>5 DEF Ignore, LandLoss, ToLand, SaveFails, Report
<1>6. CASE Applied
  <2>1. pc' # "save" /\ UNCHANGED files
    BY <1>6 DEF Applied
  <2> QED BY <1>1, <2>1
<1>7. CASE LandResult
  <2>1. UNCHANGED files
    BY <1>7 DEF LandResult
  <2> QED BY <1>7, <2>1, LandResultLands, OtherStepsShowNothing
<1>8. CASE Save
  BY <1>8, SaveLands
<1>9. CASE Interrupt \/ Conclude \/ Drop \/ KeepAlive \/ \E u \in Units : Settle(u)
  BY <1>2, <1>9 DEF Interrupt, Conclude, Drop, KeepAlive, Settle, Moves
<1>10. CASE Crash \/ Rerun
  BY <1>1, <1>10 DEF Crash, Rerun, Forgets
<1>11. CASE Stopped \/ UNCHANGED vars
  BY <1>2, <1>11 DEF Stopped, vars
<1> QED BY <1>3, <1>4, <1>5, <1>6, <1>7, <1>8, <1>9, <1>10, <1>11 DEF Next, Client, Landing

-----------------------------------------------------------------------------
(* The theorems.                                                           *)

LEMMA StepStorage ==
    ASSUME RemoteInv, StorageInv, [Next]_vars
    PROVE  StorageInv'
<1>1. CASE Client
  BY <1>1, PlanStorage, LandResultStorage, SaveStorage, AbandonsStorage, ReportStorage,
     StaysApart
  DEF Client, Landing
<1>2. CASE Interrupt \/ Conclude \/ Drop \/ KeepAlive \/ \E u \in Units : Settle(u)
  BY <1>2, StaysApart
<1>3. CASE Crash \/ Rerun
  BY <1>3, AbandonsStorage
<1>4. CASE Stopped \/ UNCHANGED vars
  BY <1>4, StaysApart DEF Stopped
<1> QED BY <1>1, <1>2, <1>3, <1>4 DEF Next

\* Every file in the results directory, and what is about to be saved, has all
\* reported results, at every moment of every sweep (SaveDir, landUnit).
THEOREM StorageInvariant == Spec => []StorageInv
<1>1. RemoteInv /\ StorageInv /\ [Next]_vars => StorageInv'
  BY StepStorage
<1> QED BY InitStorage, <1>1, RemoteInvariant, PTL DEF Spec

\* Every variable has its type, and only units that were submitted land
\* (runSet, planOne).
THEOREM RemoteTypeCorrect == Spec => []TypeOK
<1>1. RemoteInv /\ Control /\ Connection /\ [Next]_vars => (Control /\ Connection)'
  BY StepControl, StepConnection
<1>2. RemoteInv /\ StorageInv /\ Control /\ Connection => TypeOK
  BY DEF RemoteInv, Types, Planned, StorageInv, StorageTypes, Control, Connection, TypeOK
<1> QED BY InitControl, <1>1, <1>2, RemoteInvariant, StorageInvariant, PTL DEF Spec

\* A result whose landing was reported stays in the file, or a later one does,
\* across crashes, reruns and changes of format (SaveDir, landUnit).
THEOREM RemoteDurable == Spec => []ReportedIsDurable
<1>1. StorageInv => ReportedIsDurable
  BY LoadedRecent DEF StorageInv, ReportedIsDurable, Recent
<1> QED BY StorageInvariant, <1>1, PTL
\* What a reader finds in the results file changes only by one submitted unit's
\* entry landing whole over what was there, whatever the save, a crash, a rerun or
\* a change of format does in between, unless the save meets the files of two other
\* formats (landUnit, SaveDir).
THEOREM RemoteLands == Spec => LandingPreserves
<1>1. Init => LandingInv
  BY DEF Init, LandingInv
<1>2. RemoteInv /\ StorageInv /\ LandingInv /\ [Next]_vars => LandingInv' /\ Shows
  BY StepLands
<1>3. RemoteInv /\ StorageInv /\ LandingInv /\ [Next]_vars
      => [~littered' /\ Loaded' # Loaded =>
              \E u \in Planned : Loaded' = [Loaded EXCEPT ![u] = Emitted(u)]]_vars
  BY <1>2 DEF Shows
<1> QED BY <1>1, <1>2, <1>3, RemoteInvariant, StorageInvariant, PTL
        DEF Spec, LandingPreserves
=============================================================================
