-------------------------- MODULE ConversationProofs --------------------------
(***************************************************************************)
(* For any scripts, any agent, any bodies of its responses and any limit   *)
(* on the runs:                                                            *)
(*   - a request is marked answered exactly when the next run carries its  *)
(*     answer, and the conversation implements Dialogue (CarryInv);        *)
(*   - the stream being read keeps its form, however it is cut into pieces *)
(*     and whatever is wrong with them (StreamInv), and an error of the    *)
(*     requested run surfaces (SurfaceInv);                                *)
(*   - the client's memory keeps its form (FormInv);                       *)
(*   - a clean completion leaves no call of the last run unanswered: the   *)
(*     validator's record of the calls and results is followed through the *)
(*     stream, the reducer and the client's answers (TrackInv);            *)
(*   - a recorded run holds exactly the items that the requested run of    *)
(*     the response names, each with all its pieces: what the stream has   *)
(*     filed is what was heard (ExactInv), and reducing loses none of it   *)
(*     (MemoryInv).                                                        *)
(* What the reader, the reducer and the client compute from a sequence is  *)
(* a fold: FoldSteps gives its values after each element.                  *)
(***************************************************************************)
EXTENDS Conversation, TLAPS, NaturalsInduction, WellFoundedInduction

-----------------------------------------------------------------------------
(* Sequences of whatever.                                                  *)

IsSeq(s) == s \in Seq(ToSet(s))

LEMMA SeqDomain ==
    ASSUME NEW s, IsSeq(s)
    PROVE  Len(s) \in Nat /\ DOMAIN s = 1 .. Len(s)
BY DEF IsSeq

LEMMA SeqAppend ==
    ASSUME NEW s, IsSeq(s), NEW x
    PROVE  /\ IsSeq(Append(s, x)) /\ Len(Append(s, x)) = Len(s) + 1
           /\ DOMAIN Append(s, x) = 1 .. Len(s) + 1
           /\ Append(s, x)[Len(s) + 1] = x
           /\ \A i \in 1 .. Len(s) : Append(s, x)[i] = s[i]
<1> DEFINE S == ToSet(s) \cup {x}
<1>1. s \in Seq(S)
  BY DEF IsSeq
<1>2. x \in S
  OBVIOUS
<1>3. Append(s, x) \in Seq(S)
  BY <1>1, <1>2
<1>4. Len(Append(s, x)) = Len(s) + 1 /\ DOMAIN Append(s, x) = 1 .. Len(s) + 1
  BY <1>1, <1>2, <1>3
<1>5. Append(s, x)[Len(s) + 1] = x /\ \A i \in 1 .. Len(s) : Append(s, x)[i] = s[i]
  BY <1>1, <1>2
<1>6. \A i \in 1 .. Len(s) + 1 : Append(s, x)[i] \in ToSet(Append(s, x))
  BY <1>4 DEF ToSet
<1>7. Append(s, x) \in Seq(ToSet(Append(s, x)))
  BY <1>3, <1>4, <1>6
<1> QED BY <1>4, <1>5, <1>7 DEF IsSeq

LEMMA SeqExcept ==
    ASSUME NEW s, IsSeq(s), NEW k \in DOMAIN s, NEW x
    PROVE  /\ IsSeq([s EXCEPT ![k] = x]) /\ Len([s EXCEPT ![k] = x]) = Len(s)
           /\ DOMAIN [s EXCEPT ![k] = x] = 1 .. Len(s)
           /\ [s EXCEPT ![k] = x][k] = x
           /\ \A i \in DOMAIN s \ {k} : [s EXCEPT ![k] = x][i] = s[i]
           /\ \A i \in 1 .. Len(s) : i # k => [s EXCEPT ![k] = x][i] = s[i]
<1> DEFINE t == [s EXCEPT ![k] = x]
<1>1. Len(s) \in Nat /\ DOMAIN s = 1 .. Len(s)
  BY SeqDomain
<1>2. DOMAIN t = 1 .. Len(s) /\ t[k] = x /\ \A i \in DOMAIN s \ {k} : t[i] = s[i]
  BY <1>1
<1>3. \A i \in 1 .. Len(s) : t[i] \in ToSet(t)
  BY <1>2 DEF ToSet
<1>4. t \in [1 .. Len(s) -> ToSet(t)]
  BY <1>1, <1>3
<1>5. \A i \in 1 .. Len(s) : i # k => t[i] = s[i]
  BY <1>1, <1>2
<1> HIDE DEF t
<1>6. t \in Seq(ToSet(t)) /\ Len(t) = Len(s)
  BY <1>1, <1>4
<1> QED BY <1>2, <1>5, <1>6 DEF IsSeq, t

WithLast(s, x) == [s EXCEPT ![Len(s)] = x]

LEMMA SeqLast ==
    ASSUME NEW s, IsSeq(s), Len(s) > 0, NEW x
    PROVE  /\ IsSeq(WithLast(s, x)) /\ Len(WithLast(s, x)) = Len(s)
           /\ DOMAIN WithLast(s, x) = 1 .. Len(s)
           /\ WithLast(s, x)[Len(s)] = x
           /\ \A i \in 1 .. Len(s) - 1 : WithLast(s, x)[i] = s[i]
<1>1. Len(s) \in Nat
  BY SeqDomain
<1>2. Len(s) \in DOMAIN s
  BY SeqDomain
<1>3. /\ IsSeq(WithLast(s, x)) /\ Len(WithLast(s, x)) = Len(s)
      /\ DOMAIN WithLast(s, x) = 1 .. Len(s)
      /\ WithLast(s, x)[Len(s)] = x
  BY <1>2, SeqExcept DEF WithLast
<1>4. ASSUME NEW i \in 1 .. Len(s) - 1 PROVE WithLast(s, x)[i] = s[i]
  <2>1. i \in 1 .. Len(s) /\ i # Len(s)
    BY <1>1
  <2> QED BY <1>2, <2>1, SeqExcept DEF WithLast
<1> QED BY <1>3, <1>4

LEMMA SeqEmpty == IsSeq(<<>>) /\ Len(<<>>) = 0 /\ DOMAIN <<>> = {} /\ ToSet(<<>>) = {}
<1>1. <<>> \in Seq(ToSet(<<>>)) /\ Len(<<>>) = 0
  OBVIOUS
<1>2. DOMAIN <<>> = {}
  BY <1>1
<1>3. ToSet(<<>>) = {}
  BY <1>2 DEF ToSet
<1>4. IsSeq(<<>>)
  BY <1>1, Zenon DEF IsSeq
<1> QED BY <1>1, <1>2, <1>3, <1>4

-----------------------------------------------------------------------------
(* The runs: a run keeps what it carried when its ending is recorded.      *)

RunsOK == IsSeq(runs) /\ \A k \in DOMAIN runs : DOMAIN runs[k] = DOMAIN NoRun

LEMMA RunFields ==
    DOMAIN NoRun = {"outcome", "interrupts", "listed", "pending", "items", "sent", "resume"}
BY DEF NoRun

LEMMA RecordRuns ==
    ASSUME RunsOK, Len(runs) >= 1, NEW st, NEW at, NEW seg, NEW reduced,
           Record(st, at, seg, reduced)
    PROVE  /\ RunsOK' /\ Len(runs') = Len(runs) /\ pc' = "decide"
           /\ \A k \in DOMAIN runs : /\ runs'[k].sent = runs[k].sent
                                     /\ runs'[k].resume = runs[k].resume
<1> DEFINE k == Len(runs)
           run == [runs[k] EXCEPT !.outcome = Ending(st, at), !.items = reduced.items]
           ended == [run EXCEPT !.interrupts = seg.outcome.interrupts,
                                !.listed = seg.outcome.listed,
                                !.pending = seg.outcome.pending]
<1>1. /\ Len(runs) \in Nat /\ DOMAIN runs = 1 .. Len(runs) /\ k \in DOMAIN runs
      /\ IsSeq(runs)
  BY SeqDomain DEF RunsOK
<1>2. PICK r \in {run, ended} : runs' = [runs EXCEPT ![k] = r]
  BY DEF Record
<1>3. pc' = "decide"
  BY DEF Record
<1>4. DOMAIN runs[k] = DOMAIN NoRun
  BY <1>1 DEF RunsOK
<1>5. DOMAIN r = DOMAIN NoRun /\ r.sent = runs[k].sent /\ r.resume = runs[k].resume
  BY <1>2, <1>4, RunFields
<1> HIDE DEF run, ended
<1>6. /\ IsSeq(runs') /\ Len(runs') = Len(runs) /\ runs'[k] = r
      /\ \A i \in DOMAIN runs \ {k} : runs'[i] = runs[i]
  <2>1. PICK d : d = k /\ d \in DOMAIN runs
    BY <1>1
  <2>2. runs' = [runs EXCEPT ![d] = r]
    BY <1>2, <2>1
  <2> HIDE DEF k
  <2> DEFINE new == [runs EXCEPT ![d] = r]
  <2>3. /\ IsSeq(new) /\ Len(new) = Len(runs) /\ new[d] = r
        /\ \A i \in DOMAIN runs \ {d} : new[i] = runs[i]
    <3>1. IsSeq(runs) /\ d \in DOMAIN runs
      BY <1>1, <2>1
    <3> QED BY <3>1, SeqExcept
  <2> HIDE DEF new
  <2>4. runs' = new
    BY <2>2 DEF new
  <2> QED BY <2>1, <2>3, <2>4
<1>7. DOMAIN runs' = DOMAIN runs
  BY <1>1, <1>6, SeqDomain
<1>8. RunsOK'
  BY <1>5, <1>6, <1>7 DEF RunsOK
<1> QED BY <1>3, <1>5, <1>6, <1>8

\* What reading does: the run goes on, or its ending is recorded.
LEMMA ReadingRuns ==
    ASSUME Reading
    PROVE  /\ UNCHANGED <<script, ctx, expired, used, turns, hitl, sent, resume, outcome,
                          answer>>
           /\ pc = "reading"
           /\ \/ UNCHANGED <<pc, thread, runs, violations>>
              \/ \E st : Settle(st) /\ UNCHANGED heard
<1> USE DEF client, contexts
<1>1. CASE ReadEvent
  BY <1>1 DEF ReadEvent
<1>2. CASE ReadEnd
  BY <1>2 DEF ReadEnd
<1>3. CASE ReadFails
  BY <1>3 DEF ReadFails
<1> QED BY <1>1, <1>2, <1>3 DEF Reading

LEMMA ReadingCarries ==
    ASSUME RunsOK, Len(runs) >= 1, Reading
    PROVE  /\ RunsOK' /\ Len(runs') = Len(runs)
           /\ pc = "reading" /\ pc' \in {"reading", "decide"}
           /\ \A k \in DOMAIN runs : /\ runs'[k].sent = runs[k].sent
                                     /\ runs'[k].resume = runs[k].resume
<1>1. CASE UNCHANGED <<pc, thread, runs, violations>>
  BY <1>1, ReadingRuns DEF RunsOK
<1>2. CASE \E st : Settle(st)
  <2>1. PICK st : Settle(st)
    BY <1>2
  <2>2. \E at, seg, reduced : Record(st, at, seg, reduced)
    BY <2>1 DEF Settle
  <2> QED BY <2>2, RecordRuns, ReadingRuns
<1> QED BY <1>1, <1>2, ReadingRuns

-----------------------------------------------------------------------------
(* Answers are carried by the run that follows.                            *)

\* A request stays unanswered only where the conversation ends, and its answer is on
\* its way to the next run, or in it.
Commitment(h) ==
    /\ h.answered => /\ h.run = Len(runs) => pc = "send"
                     /\ h.run < Len(runs) => <<h.kind, h.id>> \in Carried(h.run + 1)
    /\ ~h.answered => h.run = Len(runs) /\ pc \in {"over", "returned"}

\* While a run is read and decided on nothing is on its way; otherwise what is on its
\* way answers exactly what the last run asked.
OnItsWay ==
    /\ pc \in {"reading", "decide"} =>
           /\ sent = <<>> /\ resume = <<>> /\ Len(runs) >= 1
           /\ \A h \in hitl : h.run < Len(runs)
    /\ pc = "send" => Answers(sent, resume) = AskedIn(Len(runs))

RequestsOK == \A h \in hitl : h.run \in 1 .. Len(runs) /\ h.kind \in ResponseKinds

CarryInv == RunsOK /\ RequestsOK /\ OnItsWay /\ \A h \in hitl : Commitment(h)

\* The run after one of the runs there are.
LEMMA NextRun ==
    ASSUME CarryInv
    PROVE  /\ IsSeq(runs) /\ Len(runs) \in Nat /\ DOMAIN runs = 1 .. Len(runs)
           /\ \A k \in DOMAIN runs : Carried(k) = Answers(runs[k].sent, runs[k].resume)
           /\ Carried(Len(runs) + 1) = IF pc = "send" THEN Answers(sent, resume) ELSE {}
           /\ \A h \in hitl : h.run < Len(runs) => h.run + 1 \in DOMAIN runs
<1>1. IsSeq(runs) /\ Len(runs) \in Nat /\ DOMAIN runs = 1 .. Len(runs)
  BY SeqDomain DEF CarryInv, RunsOK
<1>2. Len(runs) + 1 \notin DOMAIN runs
  BY <1>1
<1>3. \A h \in hitl : h.run < Len(runs) => h.run + 1 \in DOMAIN runs
  BY <1>1 DEF CarryInv, RequestsOK
<1> QED BY <1>1, <1>2, <1>3 DEF Carried

\* A user turn answers nothing, neither does silence.
LEMMA NoAnswers == Answers(<<UserTurn>>, <<>>) = {} /\ Answers(<<>>, <<>>) = {}
<1>1. ToSet(<<UserTurn>>) = {UserTurn}
  BY DEF ToSet
<1>2. UserTurn.role # "tool"
  BY DEF UserTurn
<1> QED BY <1>1, <1>2, SeqEmpty DEF Answers

LEMMA InitCarry == Init => CarryInv
<1> SUFFICES ASSUME Init PROVE CarryInv
  OBVIOUS
<1>1. /\ runs = <<>> /\ hitl = {} /\ pc = "send" /\ sent = <<UserTurn>> /\ resume = <<>>
  BY DEF Init
<1>2. RunsOK
  <2>1. IsSeq(runs) /\ DOMAIN runs = {}
    BY <1>1, SeqEmpty
  <2> QED BY <2>1 DEF RunsOK
<1>3. Answers(sent, resume) = {} /\ AskedIn(Len(runs)) = {}
  BY <1>1, NoAnswers DEF AskedIn
<1> QED BY <1>1, <1>2, <1>3 DEF CarryInv, RequestsOK, OnItsWay

\* Steps that leave the runs and the requests alone, and post nothing.
LEMMA CarryStays ==
    ASSUME CarryInv, UNCHANGED <<runs, hitl>>,
           \/ UNCHANGED <<pc, sent, resume>>
           \/ /\ pc # "send" \/ hitl = {}
              /\ pc' \in {"over", "returned"}
    PROVE  CarryInv'
<1>1. RunsOK' /\ RequestsOK'
  BY DEF CarryInv, RunsOK, RequestsOK
<1>2. CASE UNCHANGED <<pc, sent, resume>>
  <2>1. OnItsWay'
    BY <1>2 DEF CarryInv, OnItsWay, AskedIn
  <2>2. \A h \in hitl : Commitment(h)'
    BY <1>2, Zenon DEF CarryInv, Commitment, Carried
  <2> QED BY <1>1, <2>1, <2>2 DEF CarryInv
<1>3. CASE (pc # "send" \/ hitl = {}) /\ pc' \in {"over", "returned"}
  <2>1. OnItsWay'
    BY <1>3 DEF OnItsWay
  <2>2. ASSUME NEW h \in hitl PROVE Commitment(h)'
    <3>1. /\ h.answered => h.run # Len(runs)
          /\ h.answered /\ h.run < Len(runs) => <<h.kind, h.id>> \in Carried(h.run + 1)
          /\ ~h.answered => h.run = Len(runs)
      BY <1>3 DEF CarryInv, Commitment
    <3>2. h.run < Len(runs) => Carried(h.run + 1)' = Carried(h.run + 1)
      BY NextRun DEF Carried
    <3> QED BY <1>3, <3>1, <3>2 DEF Commitment
  <2> QED BY <1>1, <2>1, <2>2 DEF CarryInv
<1> QED BY <1>2, <1>3

\* Post: what was on its way is in the run.
LEMMA PostCarries ==
    ASSUME CarryInv, pc = "send", NEW r,
           DOMAIN r = DOMAIN NoRun, r.sent = sent, r.resume = resume,
           runs' = Append(runs, r), sent' = <<>>, resume' = <<>>, UNCHANGED hitl,
           pc' \in {"reading", "decide"}
    PROVE  CarryInv' /\ Len(runs') = Len(runs) + 1
<1>1. /\ IsSeq(runs) /\ Len(runs) \in Nat /\ DOMAIN runs = 1 .. Len(runs)
      /\ \A k \in DOMAIN runs : DOMAIN runs[k] = DOMAIN NoRun
  BY NextRun DEF CarryInv, RunsOK
<1>2. /\ IsSeq(runs') /\ Len(runs') = Len(runs) + 1 /\ DOMAIN runs' = 1 .. Len(runs) + 1
      /\ runs'[Len(runs) + 1] = r /\ \A i \in 1 .. Len(runs) : runs'[i] = runs[i]
  BY <1>1, SeqAppend
<1>3. RunsOK'
  BY <1>1, <1>2 DEF RunsOK
<1>4. ASSUME NEW h \in hitl
      PROVE  /\ h.run \in 1 .. Len(runs') /\ h.run < Len(runs') /\ h.kind \in ResponseKinds
             /\ h.answered /\ <<h.kind, h.id>> \in Carried(h.run + 1)'
  <2>1. h.answered /\ h.run \in 1 .. Len(runs) /\ h.kind \in ResponseKinds
    BY DEF CarryInv, Commitment, RequestsOK
  <2>2. h.run \in 1 .. Len(runs') /\ h.run < Len(runs') /\ h.run + 1 \in DOMAIN runs'
    BY <1>1, <1>2, <2>1
  <2>3. Carried(h.run + 1)' = Answers(runs'[h.run + 1].sent, runs'[h.run + 1].resume)
    BY <2>2 DEF Carried
  <2>4. CASE h.run = Len(runs)
    <3>1. <<h.kind, h.id>> \in AskedIn(Len(runs))
      BY <2>4 DEF AskedIn
    <3>2. <<h.kind, h.id>> \in Answers(sent, resume)
      BY <3>1 DEF CarryInv, OnItsWay
    <3> QED BY <1>2, <2>1, <2>2, <2>3, <2>4, <3>2
  <2>5. CASE h.run # Len(runs)
    <3>1. h.run < Len(runs) /\ h.run + 1 \in 1 .. Len(runs)
      BY <1>1, <2>1, <2>5
    <3>2. <<h.kind, h.id>> \in Answers(runs[h.run + 1].sent, runs[h.run + 1].resume)
      BY <1>1, <2>1, <3>1, NextRun DEF CarryInv, Commitment
    <3> QED BY <1>2, <2>1, <2>2, <2>3, <3>1, <3>2
  <2> QED BY <2>4, <2>5
<1>5. RequestsOK'
  BY <1>4 DEF RequestsOK
<1>7. ASSUME NEW h \in hitl' PROVE Commitment(h)'
  <2>1. /\ h.answered /\ <<h.kind, h.id>> \in Carried(h.run + 1)'
        /\ h.run # Len(runs')
    BY <1>1, <1>2, <1>4
  <2> QED BY <2>1 DEF Commitment
<1>6. OnItsWay'
  <2>1. Len(runs') >= 1
    BY <1>1, <1>2
  <2> QED BY <1>4, <2>1 DEF OnItsWay
<1> QED BY <1>2, <1>3, <1>5, <1>6, <1>7 DEF CarryInv

LEMMA ReadingCarry ==
    ASSUME CarryInv, Reading
    PROVE  CarryInv'
<1>1. /\ pc = "reading" /\ pc' \in {"reading", "decide"}
      /\ UNCHANGED <<hitl, sent, resume>> /\ Len(runs) >= 1
      /\ sent = <<>> /\ resume = <<>>
      /\ \A h \in hitl : h.run < Len(runs)
  BY ReadingRuns, ReadingCarries DEF CarryInv, OnItsWay
<1>2. /\ RunsOK' /\ Len(runs') = Len(runs)
      /\ \A k \in DOMAIN runs : runs'[k].sent = runs[k].sent /\ runs'[k].resume = runs[k].resume
  BY <1>1, ReadingCarries DEF CarryInv
<1>3. DOMAIN runs' = DOMAIN runs
  BY <1>2, NextRun, SeqDomain DEF RunsOK
<1>4. ASSUME NEW h \in hitl
      PROVE  h.answered /\ <<h.kind, h.id>> \in Carried(h.run + 1)'
  <2>1. h.answered /\ <<h.kind, h.id>> \in Carried(h.run + 1)
    BY <1>1 DEF CarryInv, Commitment
  <2>2. h.run + 1 \in DOMAIN runs
    BY <1>1, NextRun
  <2>3. Carried(h.run + 1)' = Carried(h.run + 1)
    BY <1>2, <1>3, <2>2 DEF Carried
  <2> QED BY <2>1, <2>3
<1>5. RequestsOK' /\ OnItsWay'
  BY <1>1, <1>2 DEF CarryInv, RequestsOK, OnItsWay
<1>6. ASSUME NEW h \in hitl' PROVE Commitment(h)'
  <2>1. h.answered /\ h.run # Len(runs') /\ <<h.kind, h.id>> \in Carried(h.run + 1)'
    BY <1>1, <1>2, <1>4, NextRun DEF CarryInv, RequestsOK
  <2> QED BY <2>1 DEF Commitment
<1> QED BY <1>2, <1>5, <1>6 DEF CarryInv

\* What the requests of a turn say once they are recorded.
LEMMA RequestedTells ==
    ASSUME NEW b, NEW h \in Requested(b)
    PROVE  \E i \in DOMAIN Asked : /\ h.run = Len(runs) /\ h.kind = Asked[i].kind
                                  /\ h.id = Asked[i].id /\ h.answered = b
BY DEF Requested

LEMMA AskedKinds ==
    \A i \in DOMAIN Asked :
        Asked[i].kind = IF Latest.outcome = "interrupt" THEN "interrupt" ELSE "tool"
BY DEF Asked

AskedNow == {<<Asked[i].kind, Asked[i].id>> : i \in DOMAIN Asked}

\* AnswerRequests: all answers are on their way, or the conversation is over.
LEMMA AnswerRequestsCarries ==
    ASSUME CarryInv, AnswerRequests
    PROVE  /\ CarryInv' /\ UNCHANGED runs
           /\ pc' = "send" => Answers(sent', resume') = AskedNow
           /\ pc' \in {"send", "over"}
           /\ AskedIn(Len(runs))' = AskedNow
<1>1. /\ pc = "decide" /\ UNCHANGED runs
      /\ sent = <<>> /\ resume = <<>> /\ Len(runs) >= 1
      /\ \A h \in hitl : h.run < Len(runs) /\ h.run \in 1 .. Len(runs)
  BY DEF AnswerRequests, CarryInv, OnItsWay, RequestsOK
<1>2. PICK send \in BOOLEAN :
         /\ hitl' = hitl \cup Requested(send)
         /\ send => /\ pc' = "send"
                    /\ IF Latest.outcome = "interrupt"
                       THEN resume' = AnsweredIds /\ UNCHANGED sent
                       ELSE /\ sent' = [i \in DOMAIN AnsweredIds |-> ToolAnswer(AnsweredIds[i])]
                            /\ UNCHANGED resume
         /\ ~send => pc' = "over"
  <2> DEFINE take == TakeAll(Asked)
             covered == \A i \in DOMAIN Asked : take.taken[i] # 0
             send == covered /\ RunsLeft
  <2>1. send \in BOOLEAN
    OBVIOUS
  <2>2. hitl' = hitl \cup Requested(send)
    BY Zenon DEF AnswerRequests
  <2>3. /\ send => /\ pc' = "send"
                    /\ IF Latest.outcome = "interrupt"
                       THEN resume' = AnsweredIds /\ UNCHANGED sent
                       ELSE /\ sent' = [i \in DOMAIN AnsweredIds |-> ToolAnswer(AnsweredIds[i])]
                            /\ UNCHANGED resume
        /\ ~send => pc' = "over"
    BY Zenon DEF AnswerRequests, End
  <2> QED BY <2>1, <2>2, <2>3, Zenon
<1>3. Len(runs) \in Nat /\ DOMAIN runs = 1 .. Len(runs)
  BY NextRun
<1>4. AskedIn(Len(runs))' = AskedNow
  <2>1. {h \in hitl' : h.run = Len(runs)} = Requested(send)
    BY <1>1, <1>2, <1>3, RequestedTells
  <2>2. AskedIn(Len(runs))' = {<<h.kind, h.id>> : h \in Requested(send)}
    BY <1>1, <2>1 DEF AskedIn
  <2>3. {<<h.kind, h.id>> : h \in Requested(send)} = AskedNow
    <3>1. AskedNow \subseteq {<<h.kind, h.id>> : h \in Requested(send)}
      <4> SUFFICES ASSUME NEW i \in DOMAIN Asked
                   PROVE  \E h \in Requested(send) : /\ h.kind = Asked[i].kind
                                                     /\ h.id = Asked[i].id
        BY DEF AskedNow
      <4> DEFINE h == [run |-> Len(runs), kind |-> Asked[i].kind, id |-> Asked[i].id,
                       answered |-> send]
      <4>1. h \in Requested(send)
        BY DEF Requested
      <4>2. h.kind = Asked[i].kind /\ h.id = Asked[i].id
        OBVIOUS
      <4> QED BY <4>1, <4>2
    <3>2. {<<h.kind, h.id>> : h \in Requested(send)} \subseteq AskedNow
      BY RequestedTells DEF AskedNow
    <3> QED BY <3>1, <3>2
  <2> QED BY <2>2, <2>3
<1>5. send => Answers(sent', resume') = AskedNow
  <2> SUFFICES ASSUME send PROVE Answers(sent', resume') = AskedNow
    OBVIOUS
  <2>1. ToSet(AnsweredIds) = {Asked[i].id : i \in DOMAIN Asked}
    BY DEF ToSet, AnsweredIds
  <2>2. CASE Latest.outcome = "interrupt"
    <3>1. resume' = AnsweredIds /\ sent' = <<>>
      BY <1>1, <1>2, <2>2
    <3>2. Answers(sent', resume') = {<<"interrupt", id>> : id \in ToSet(AnsweredIds)}
      BY <3>1, SeqEmpty DEF Answers
    <3> QED BY <2>1, <2>2, <3>2, AskedKinds DEF AskedNow
  <2>3. CASE Latest.outcome # "interrupt"
    <3>1. /\ sent' = [i \in DOMAIN AnsweredIds |-> ToolAnswer(AnsweredIds[i])]
          /\ resume' = <<>>
      BY <1>1, <1>2, <2>3
    <3>2. ToSet(sent') = {ToolAnswer(id) : id \in ToSet(AnsweredIds)}
      BY <3>1 DEF ToSet
    <3>3. \A id : ToolAnswer(id).role = "tool" /\ ToolAnswer(id).call = id
      BY DEF ToolAnswer
    <3>4. Answers(sent', resume') = {<<"tool", id>> : id \in ToSet(AnsweredIds)}
      BY <3>1, <3>2, <3>3, SeqEmpty DEF Answers
    <3> QED BY <2>1, <2>3, <3>4, AskedKinds DEF AskedNow
  <2> QED BY <2>2, <2>3
<1>6. CarryInv'
  <2>1. RunsOK'
    BY <1>1 DEF CarryInv, RunsOK
  <2>2. \A h \in Requested(send) : h.answered = send /\ h.run = Len(runs)
    BY RequestedTells
  <2>3. RequestsOK'
    <3>1. Len(runs) \in 1 .. Len(runs)
      BY <1>1, <1>3
    <3> QED BY <1>1, <1>2, <3>1, RequestedTells, AskedKinds
         DEF CarryInv, RequestsOK, ResponseKinds
  <2>4. OnItsWay'
    BY <1>1, <1>2, <1>4, <1>5 DEF OnItsWay
  <2>5. ASSUME NEW h \in hitl' PROVE Commitment(h)'
    <3>1. CASE h \in hitl
      <4>1. h.answered /\ h.run < Len(runs) /\ <<h.kind, h.id>> \in Carried(h.run + 1)
        BY <1>1, <3>1 DEF CarryInv, Commitment
      <4>2. Carried(h.run + 1)' = Carried(h.run + 1)
        BY <1>1, <3>1, NextRun DEF Carried
      <4>3. h.run # Len(runs)
        BY <1>1, <1>3, <3>1
      <4> QED BY <1>1, <4>1, <4>2, <4>3 DEF Commitment
    <3>2. CASE h \in Requested(send)
      <4>1. h.answered = send /\ h.run = Len(runs') /\ ~(h.run < Len(runs'))
        BY <1>1, <1>3, <2>2, <3>2
      <4> QED BY <1>2, <4>1 DEF Commitment
    <3> QED BY <1>2, <3>1, <3>2
  <2> QED BY <2>1, <2>3, <2>4, <2>5 DEF CarryInv
<1> QED BY <1>1, <1>2, <1>4, <1>5, <1>6

\* FollowUp: a user turn answers nothing, as nothing was asked.
LEMMA FollowUpCarries ==
    ASSUME CarryInv, FollowUp
    PROVE  /\ CarryInv' /\ UNCHANGED <<runs, hitl>>
           /\ pc' = "send" => Answers(sent', resume') = {}
           /\ pc' \in {"send", "over"}
<1>1. /\ pc = "decide" /\ UNCHANGED <<runs, hitl, resume>> /\ resume = <<>>
      /\ \A h \in hitl : h.run < Len(runs)
      /\ \/ sent' = <<UserTurn>> /\ pc' = "send"
         \/ pc' = "over"
  BY DEF FollowUp, RunEnded, End, CarryInv, OnItsWay
<1>2. CASE pc' = "over"
  BY <1>1, <1>2, CarryStays
<1>3. CASE sent' = <<UserTurn>> /\ pc' = "send"
  <2>1. Answers(sent', resume') = {}
    BY <1>1, <1>3, NoAnswers
  <2>2. \A h \in hitl : h.run # Len(runs)
    BY <1>1, NextRun DEF CarryInv, RequestsOK
  <2>3. OnItsWay'
    BY <1>1, <1>3, <2>1, <2>2 DEF AskedIn, OnItsWay
  <2>4. RunsOK' /\ RequestsOK'
    BY <1>1 DEF CarryInv, RunsOK, RequestsOK
  <2>5. ASSUME NEW h \in hitl' PROVE Commitment(h)'
    <3>1. h.answered /\ h.run < Len(runs) /\ <<h.kind, h.id>> \in Carried(h.run + 1)
      BY <1>1 DEF CarryInv, Commitment
    <3>2. Carried(h.run + 1)' = Carried(h.run + 1)
      BY <1>1, NextRun DEF Carried
    <3> QED BY <1>1, <1>3, <2>2, <3>1, <3>2 DEF Commitment
  <2> QED BY <1>1, <1>3, <2>1, <2>3, <2>4, <2>5 DEF CarryInv
<1> QED BY <1>1, <1>2, <1>3

LEMMA StepCarry ==
    ASSUME CarryInv, [Next]_vars
    PROVE  CarryInv'
<1> USE DEF client, contexts
<1>1. CASE Cancel \/ Expire \/ Stopped \/ UNCHANGED vars
  BY <1>1, CarryStays DEF Cancel, Expire, Stopped, vars
<1>2. CASE RejectScript
  <2>1. /\ pc = "send" /\ runs = <<>> /\ pc' = "over" /\ UNCHANGED <<runs, hitl>>
    BY <1>2 DEF RejectScript, End
  <2>2. hitl = {}
    BY <2>1, SeqEmpty DEF CarryInv, RequestsOK
  <2> QED BY <2>1, <2>2, CarryStays
<1>3. CASE PostRefused
  <2> DEFINE r == [NoRun EXCEPT !.outcome = "rejected", !.sent = sent, !.resume = resume]
  <2>1. DOMAIN r = DOMAIN NoRun /\ r.sent = sent /\ r.resume = resume
    BY RunFields
  <2>2. /\ pc = "send" /\ pc' = "decide" /\ runs' = Append(runs, r)
        /\ sent' = <<>> /\ resume' = <<>> /\ UNCHANGED hitl
    BY <1>3 DEF PostRefused, Posting
  <2> HIDE DEF r
  <2> QED BY <2>1, <2>2, PostCarries
<1>4. CASE Post /\ ~PostRefused
  <2> DEFINE r == [NoRun EXCEPT !.sent = sent, !.resume = resume]
  <2>1. DOMAIN r = DOMAIN NoRun /\ r.sent = sent /\ r.resume = resume
    BY RunFields
  <2>2. /\ pc = "send" /\ pc' = "reading" /\ runs' = Append(runs, r)
        /\ sent' = <<>> /\ resume' = <<>> /\ UNCHANGED hitl
    BY <1>4, Zenon DEF Post, PostAccepted, Posting
  <2> HIDE DEF r
  <2> QED BY <2>1, <2>2, PostCarries
<1>5. CASE Reading
  BY <1>5, ReadingCarry
<1>6. CASE RunFails \/ CancelledRun \/ Complete
  <2>1. pc = "decide" /\ pc' = "over" /\ UNCHANGED <<runs, hitl>>
    BY <1>6 DEF RunFails, CancelledRun, Complete, RunEnded, End
  <2> QED BY <2>1, CarryStays
<1>7. CASE AnswerRequests
  BY <1>7, AnswerRequestsCarries
<1>8. CASE FollowUp
  BY <1>8, FollowUpCarries
<1>9. CASE Return
  <2>1. pc = "over" /\ pc' = "returned" /\ UNCHANGED <<runs, hitl>>
    BY <1>9 DEF Return
  <2> QED BY <2>1, CarryStays
<1> QED BY <1>1, <1>2, <1>3, <1>4, <1>5, <1>6, <1>7, <1>8, <1>9 DEF Next, Deciding

THEOREM CarryInvariant == Spec => []CarryInv
BY InitCarry, StepCarry, PTL DEF Spec

\* "Nothing is committed unless another run will actually carry it"
\* (converse.go:221): a request is marked answered exactly when the following run
\* carries its answer, whatever the limit on runs, failures and cancellation do.
THEOREM ConversationCarries == Spec => []AnsweredIsCarried
<1>1. CarryInv => AnsweredIsCarried
  <2> SUFFICES ASSUME CarryInv, NEW h \in hitl
               PROVE  h.answered <=> <<h.kind, h.id>> \in Carried(h.run + 1)
    BY Zenon DEF AnsweredIsCarried
  <2>1. Len(runs) \in Nat /\ h.run \in 1 .. Len(runs)
    BY NextRun DEF CarryInv, RequestsOK
  <2>2. CASE h.run = Len(runs)
    <3>1. <<h.kind, h.id>> \in AskedIn(Len(runs))
      BY <2>2 DEF AskedIn
    <3>2. h.answered <=> pc = "send"
      BY <2>2 DEF CarryInv, Commitment
    <3>3. Carried(h.run + 1) = IF pc = "send" THEN AskedIn(Len(runs)) ELSE {}
      BY <2>2, NextRun DEF CarryInv, OnItsWay
    <3> QED BY <3>1, <3>2, <3>3
  <2>3. CASE h.run < Len(runs)
    BY <2>1, <2>3 DEF CarryInv, Commitment
  <2> QED BY <2>1, <2>2, <2>3
<1> QED BY CarryInvariant, <1>1, PTL

-----------------------------------------------------------------------------
(* The conversation implements Dialogue.                                   *)

LEMMA DecideAsks ==
    ASSUME pc = "decide"
    PROVE  /\ WhoseTurn = "client" /\ NextGives = {}
           /\ Latest.outcome \in {"interrupt", "success"} => LastAsked = AskedNow
           /\ Latest.outcome \notin {"interrupt", "success"} => LastAsked = {}
<1>1. WhoseTurn = "client" /\ NextGives = {}
  BY DEF WhoseTurn, NextGives
<1>2. Latest.outcome \in {"interrupt", "success"} => LastAsked = AskedNow
  BY DEF LastAsked, AskedNow
<1>3. Latest.outcome \notin {"interrupt", "success"} => LastAsked = {}
  BY DEF LastAsked
<1> QED BY <1>1, <1>2, <1>3

LEMMA NothingAsked == Asked = <<>> => AskedNow = {}
BY SeqEmpty DEF AskedNow

LEMMA NextGivesSent == CarryInv /\ pc = "send" => NextGives = Answers(sent, resume)
BY NextRun DEF NextGives

LEMMA NextGivesSentNow == CarryInv' /\ pc' = "send" => NextGives' = Answers(sent', resume')
<1>1. (CarryInv /\ pc = "send" => NextGives = Answers(sent, resume))'
  BY NextGivesSent, PTL
<1> QED BY <1>1

LEMMA OverNow == pc' \in {"over", "returned"} =>
                    /\ WhoseTurn' = "over" /\ NextGives' = {}
                    /\ LastAsked' = AskedIn(Len(runs))'
<1> SUFFICES ASSUME pc' \in {"over", "returned"}
             PROVE  /\ WhoseTurn' = "over" /\ NextGives' = {}
                    /\ LastAsked' = AskedIn(Len(runs))'
  OBVIOUS
<1>1. pc' \notin {"send", "reading", "decide"}
  OBVIOUS
<1>2. WhoseTurn' = "over" /\ NextGives' = {}
  BY <1>1 DEF WhoseTurn, NextGives
<1>3. LastAsked' = AskedIn(Len(runs))'
  BY <1>1 DEF LastAsked
<1> QED BY <1>2, <1>3

LEMMA SendNow == pc' = "send" => /\ WhoseTurn' = "agent"
                                 /\ LastAsked' = AskedIn(Len(runs))'
BY DEF WhoseTurn, LastAsked

LEMMA NoneOfThisRun ==
    ASSUME CarryInv, pc = "decide"
    PROVE  AskedIn(Len(runs)) = {}
BY NextRun DEF CarryInv, OnItsWay, RequestsOK, AskedIn

\* Every step of the conversation is a turn of the dialogue, its end, or none.
LEMMA StepTurns ==
    ASSUME CarryInv, CarryInv', [Next]_vars
    PROVE  [Turns!Next]_(Turns!vars)
<1> USE DEF client, contexts
<1> DEFINE Same == UNCHANGED <<WhoseTurn, LastAsked, NextGives>>
<1>0. Same => UNCHANGED Turns!vars
  BY DEF Turns!vars
<1>1. CASE Cancel \/ Expire \/ Stopped \/ UNCHANGED vars
  <2>1. UNCHANGED <<pc, runs, hitl, sent, resume, thread>>
    BY <1>1 DEF Cancel, Expire, Stopped, vars
  <2>2. WhoseTurn' = WhoseTurn
    BY <2>1 DEF WhoseTurn
  <2>3. LastAsked' = LastAsked
    <3>1. Latest' = Latest /\ AskedIn(Len(runs))' = AskedIn(Len(runs))
          /\ AskedIn(Len(runs) - 1)' = AskedIn(Len(runs) - 1)
      BY <2>1 DEF Latest, AskedIn
    <3>2. PendingCalls' = PendingCalls
      BY <2>1, <3>1 DEF PendingCalls
    <3>3. \A id : ToolName(id)' = ToolName(id)
      BY <2>1, Zenon DEF ToolName
    <3>4. Asked' = Asked
      BY <2>1, <3>1, <3>2, <3>3 DEF Asked
    <3> QED BY <2>1, <3>1, <3>4 DEF LastAsked
  <2>4. NextGives' = NextGives
    BY <2>1 DEF NextGives, Carried
  <2> QED BY <1>0, <2>2, <2>3, <2>4
<1>2. CASE RejectScript
  <2>1. /\ pc = "send" /\ runs = <<>> /\ pc' = "over" /\ UNCHANGED <<runs, hitl>>
    BY <1>2 DEF RejectScript, End
  <2>2. hitl = {}
    BY <2>1, SeqEmpty DEF CarryInv, RequestsOK
  <2>3. AskedIn(Len(runs)) = {} /\ AskedIn(Len(runs))' = {}
    BY <2>1, <2>2 DEF AskedIn
  <2>4. WhoseTurn = "agent" /\ LastAsked = {} /\ NextGives = {}
    BY <2>1, <2>3, NextGivesSent DEF WhoseTurn, LastAsked, CarryInv, OnItsWay
  <2>5. WhoseTurn' = "over" /\ LastAsked' = {} /\ NextGives' = {}
    BY <2>1, <2>3, OverNow
  <2> QED BY <2>4, <2>5 DEF Turns!Next, Turns!Hang
<1>3. CASE PostRefused
  <2>1. WhoseTurn = "agent" /\ WhoseTurn' = "client" /\ NextGives' = {}
    BY <1>3 DEF PostRefused, Posting, WhoseTurn, NextGives
  <2> QED BY <2>1 DEF Turns!Next, Turns!AgentTurn
<1>4. CASE Post /\ ~PostRefused
  <2> DEFINE r == [NoRun EXCEPT !.sent = sent, !.resume = resume]
  <2>1. r.sent = sent /\ r.resume = resume
    BY RunFields
  <2>2. /\ pc = "send" /\ pc' = "reading" /\ runs' = Append(runs, r) /\ UNCHANGED hitl
    BY <1>4, Zenon DEF Post, PostAccepted, Posting
  <2> HIDE DEF r
  <2>3. /\ Len(runs') = Len(runs) + 1 /\ Len(runs') \in DOMAIN runs'
        /\ runs'[Len(runs')] = r
    BY <2>2, NextRun, SeqAppend
  <2>4. WhoseTurn = "agent" /\ WhoseTurn' = "agent"
    BY <2>2 DEF WhoseTurn
  <2>5. LastAsked = AskedIn(Len(runs)) /\ LastAsked' = AskedIn(Len(runs) - 1)'
    BY <2>2 DEF LastAsked
  <2>6. LastAsked' = LastAsked
    BY <2>2, <2>3, <2>5, NextRun DEF AskedIn
  <2>7. NextGives' = Carried(Len(runs))'
    BY <2>2 DEF NextGives
  <2>8. Carried(Len(runs))' = Answers(sent, resume)
    BY <2>1, <2>3 DEF Carried
  <2>9. NextGives' = NextGives
    BY <2>2, <2>7, <2>8, NextGivesSent
  <2> QED BY <1>0, <2>4, <2>6, <2>9
<1>5. CASE Reading
  <2>1. CASE UNCHANGED <<pc, thread, runs, violations>>
    <3>1. /\ pc = "reading" /\ pc' = "reading" /\ UNCHANGED <<runs, hitl, sent, resume>>
      BY <1>5, <2>1, ReadingRuns
    <3>2. Same
      BY <3>1, Zenon DEF WhoseTurn, LastAsked, NextGives, AskedIn, Carried
    <3> QED BY <1>0, <3>2
  <2>2. CASE \E st : Settle(st)
    <3>1. pc = "reading" /\ pc' = "decide"
      BY <1>5, <2>2, ReadingRuns, Zenon DEF Settle, Record
    <3>2. WhoseTurn = "agent" /\ WhoseTurn' = "client" /\ NextGives' = {}
      BY <3>1 DEF WhoseTurn, NextGives
    <3> QED BY <3>2 DEF Turns!Next, Turns!AgentTurn
  <2> QED BY <1>5, <2>1, <2>2, ReadingRuns
<1>6. CASE RunFails \/ CancelledRun \/ Complete
  <2>1. /\ pc = "decide" /\ pc' = "over" /\ UNCHANGED <<runs, hitl>>
        /\ \/ Latest.outcome \notin {"interrupt", "success"}
           \/ Latest.outcome = "success" /\ Asked = <<>>
    BY <1>6 DEF RunFails, CancelledRun, Complete, RunEnded, End, Failures
  <2>2. WhoseTurn = "client" /\ LastAsked = {} /\ NextGives = {}
    BY <2>1, DecideAsks, NothingAsked
  <2>3. WhoseTurn' = "over" /\ LastAsked' = AskedIn(Len(runs))' /\ NextGives' = {}
    BY <2>1, OverNow
  <2>4. AskedIn(Len(runs))' = {}
    BY <2>1, NoneOfThisRun DEF AskedIn
  <2> QED BY <2>2, <2>3, <2>4 DEF Turns!Next, Turns!Hang
<1>7. CASE AnswerRequests
  <2>1. pc = "decide" /\ Latest.outcome \in {"interrupt", "success"}
    BY <1>7 DEF AnswerRequests
  <2>2. WhoseTurn = "client" /\ LastAsked = AskedNow /\ NextGives = {}
    BY <2>1, DecideAsks
  <2>3. /\ pc' \in {"send", "over"} /\ AskedIn(Len(runs))' = AskedNow
        /\ pc' = "send" => Answers(sent', resume') = AskedNow
    BY <1>7, AnswerRequestsCarries
  <2>4. CASE pc' = "over"
    <3>1. WhoseTurn' = "over" /\ LastAsked' = AskedNow /\ NextGives' = {}
      BY <2>3, <2>4, OverNow
    <3> QED BY <2>2, <3>1 DEF Turns!Next, Turns!Hang
  <2>5. CASE pc' = "send"
    <3>1. WhoseTurn' = "agent" /\ LastAsked' = AskedNow
      BY <2>3, <2>5, SendNow
    <3>2. NextGives' = Answers(sent', resume')
      BY <2>5, NextGivesSentNow
    <3> QED BY <2>2, <2>3, <2>5, <3>1, <3>2 DEF Turns!Next, Turns!ClientTurn
  <2> QED BY <2>3, <2>4, <2>5
<1>8. CASE FollowUp
  <2>1. pc = "decide" /\ Latest.outcome = "success" /\ Asked = <<>>
    BY <1>8 DEF FollowUp, RunEnded
  <2>2. WhoseTurn = "client" /\ LastAsked = {} /\ NextGives = {}
    BY <2>1, DecideAsks, NothingAsked
  <2>3. /\ pc' \in {"send", "over"} /\ UNCHANGED <<runs, hitl>>
        /\ pc' = "send" => Answers(sent', resume') = {}
    BY <1>8, FollowUpCarries
  <2>4. AskedIn(Len(runs))' = {}
    BY <2>1, <2>3, NoneOfThisRun DEF AskedIn
  <2>5. CASE pc' = "over"
    <3>1. WhoseTurn' = "over" /\ LastAsked' = {} /\ NextGives' = {}
      BY <2>4, <2>5, OverNow
    <3> QED BY <2>2, <3>1 DEF Turns!Next, Turns!Hang
  <2>6. CASE pc' = "send"
    <3>1. WhoseTurn' = "agent" /\ LastAsked' = {}
      BY <2>4, <2>6, SendNow
    <3>2. NextGives' = Answers(sent', resume')
      BY <2>6, NextGivesSentNow
    <3> QED BY <2>2, <2>3, <2>6, <3>1, <3>2 DEF Turns!Next, Turns!ClientTurn
  <2> QED BY <2>3, <2>5, <2>6
<1>9. CASE Return
  <2>1. pc = "over" /\ pc' = "returned" /\ UNCHANGED <<runs, hitl>>
    BY <1>9 DEF Return
  <2>2. WhoseTurn = "over" /\ LastAsked = AskedIn(Len(runs)) /\ NextGives = {}
    BY <2>1 DEF WhoseTurn, LastAsked, NextGives
  <2>3. WhoseTurn' = "over" /\ LastAsked' = AskedIn(Len(runs))' /\ NextGives' = {}
    BY <2>1, OverNow
  <2>4. AskedIn(Len(runs))' = AskedIn(Len(runs))
    BY <2>1 DEF AskedIn
  <2> QED BY <1>0, <2>2, <2>3, <2>4
<1> QED BY <1>1, <1>2, <1>3, <1>4, <1>5, <1>6, <1>7, <1>8, <1>9 DEF Next, Deciding

\* The conversation keeps Dialogue's promise to its agent: after a turn that asked
\* something the client answers all of it in the next run, or posts no more.
THEOREM ConversationImplementsDialogue == Spec => ImplementsDialogue
<1>1. Init => Turns!Init
  <2> SUFFICES ASSUME Init PROVE Turns!Init
    OBVIOUS
  <2>1. /\ runs = <<>> /\ hitl = {} /\ pc = "send" /\ sent = <<UserTurn>> /\ resume = <<>>
    BY DEF Init
  <2>2. WhoseTurn = "agent"
    BY <2>1 DEF WhoseTurn
  <2>3. LastAsked = {}
    BY <2>1 DEF LastAsked, AskedIn
  <2>4. NextGives = {}
    BY <2>1, InitCarry, NextGivesSent, NoAnswers
  <2> QED BY <2>2, <2>3, <2>4 DEF Turns!Init
<1>2. CarryInv /\ CarryInv' /\ [Next]_vars => [Turns!Next]_(Turns!vars)
  BY StepTurns
<1> QED BY <1>1, <1>2, CarryInvariant, PTL DEF Spec, ImplementsDialogue

-----------------------------------------------------------------------------
(* Induction, and the folds of the model.                                  *)

\* Induction up to n, over a set.
LEMMA UpTo ==
    ASSUME NEW n \in Nat, NEW S, 0 \in S, \A i \in 1 .. n : i - 1 \in S => i \in S
    PROVE  \A i \in 0 .. n : i \in S
<1> DEFINE R == {ss \in Nat \X Nat : ss[1] < ss[2]}
           B == {i \in 0 .. n : i \notin S}
<1>1. IsWellFoundedOn(R, Nat)
  BY NatLessThanWellFounded, Zenon DEF OpToRel
<1>2. SUFFICES ASSUME B # {} PROVE FALSE
  OBVIOUS
<1>3. B \in SUBSET Nat
  OBVIOUS
<1>4. PICK i \in B : \A j \in B : <<j, i>> \notin R
  BY <1>1, <1>2, <1>3, WFMin, Zenon
<1>5. i \in 1 .. n /\ i - 1 \in 0 .. n
  BY <1>4
<1>6. i - 1 \notin B
  <2>1. <<i - 1, i>> \in R
    BY <1>5
  <2> QED BY <1>4, <2>1
<1> QED BY <1>4, <1>5, <1>6

\* A set of numbers up to n has its largest and its smallest.
LEMMA LargestUpTo ==
    ASSUME NEW n \in Nat, NEW S \in SUBSET (0 .. n), S # {}
    PROVE  Max(S) \in S /\ \A i \in S : i <= Max(S)
<1> DEFINE P == {k \in 0 .. n : (\E i \in S : i <= k)
                               => \E x \in S : x <= k /\ \A y \in S : y <= k => x >= y}
<1>1. 0 \in P
  OBVIOUS
<1>2. ASSUME NEW k \in 1 .. n, k - 1 \in P PROVE k \in P
  <2>1. CASE k \in S
    BY <2>1
  <2>2. CASE k \notin S
    <3>1. \A i \in S : i <= k <=> i <= k - 1
      BY <2>2
    <3> QED BY <1>2, <3>1
  <2> QED BY <2>1, <2>2
<1> HIDE DEF P
<1>3. n \in P
  BY <1>1, <1>2, UpTo
<1>4. \E x \in S : \A y \in S : x >= y
  <2>1. \A i \in S : i \in 0 .. n /\ i <= n
    OBVIOUS
  <2> QED BY <1>3, <2>1 DEF P
<1> QED BY <1>4 DEF Max

LEMMA SmallestUpTo ==
    ASSUME NEW S \in SUBSET Nat, S # {}
    PROVE  Min(S) \in S /\ \A i \in S : Min(S) <= i
<1> DEFINE R == {ss \in Nat \X Nat : ss[1] < ss[2]}
<1>1. IsWellFoundedOn(R, Nat)
  BY NatLessThanWellFounded, Zenon DEF OpToRel
<1>2. PICK n \in S : \A m \in S : <<m, n>> \notin R
  BY <1>1, WFMin, Zenon
<1>3. ASSUME NEW m \in S PROVE n =< m
  <2>1. m \in Nat /\ n \in Nat
    OBVIOUS
  <2>2. m < n => <<m, n>> \in R
    BY <2>1
  <2> QED BY <1>2, <2>1, <2>2
<1> QED BY <1>3 DEF Min

\* The folds of the model, one step of each.
Step(fold, acc, x) ==
    CASE fold[1] = "Accept" -> Accept(acc, x)
      [] fold[1] = "Take" -> Take(acc, x)
      [] fold[1] = "AnswerCall" -> AnswerCall(acc, x)
      [] fold[1] = "Apply" -> Apply(acc, x)
      [] fold[1] = "Learn" -> Learn(acc, x)
      [] fold[1] = "LearnCall" -> LearnCall(acc, x, fold[2])
      [] fold[1] = "AddOpen" -> AddOpen(acc, x, fold[2])
      [] fold[1] = "Add" -> acc + x
      [] fold[1] = "Keep" -> Keep(acc, x)

\* h: what a fold has computed from any of the first n elements of a sequence.
FoldOf(h, fold, base, seq, n) ==
    h = [s \in SUBSET (1 .. n) |->
            IF s = {} THEN base ELSE Step(fold, h[s \ {Max(s)}], seq[Max(s)])]

LEMMA FoldExists ==
    ASSUME NEW fold, NEW base, NEW seq, NEW n \in Nat
    PROVE  \E h : FoldOf(h, fold, base, seq, n)
<1> DEFINE F(h, k) == FoldOf(h, fold, base, seq, k)
           P == {k \in 0 .. n : \E h : F(h, k)}
<1>1. 0 \in P
  <2> DEFINE h == [s \in SUBSET (1 .. 0) |-> base]
  <2>1. SUBSET (1 .. 0) = {{}}
    OBVIOUS
  <2>2. F(h, 0)
    BY <2>1 DEF FoldOf
  <2> QED BY <2>2
<1>2. ASSUME NEW k \in 1 .. n, k - 1 \in P PROVE k \in P
  <2>1. PICK g : F(g, k - 1)
    BY <1>2
  <2> DEFINE h == [s \in SUBSET (1 .. k) |->
                      IF k \in s THEN Step(fold, g[s \ {k}], seq[k]) ELSE g[s]]
  <2>2. \A s \in SUBSET (1 .. k) : k \notin s => s \in SUBSET (1 .. k - 1)
    OBVIOUS
  <2>3. ASSUME NEW s \in SUBSET (1 .. k), k \in s
        PROVE  h[s] = Step(fold, h[s \ {Max(s)}], seq[Max(s)])
    <3>1. Max(s) = k
      <4>1. k \in Nat /\ s \in SUBSET (0 .. k) /\ \A i \in s : i \in Nat /\ i <= k
        OBVIOUS
      <4>2. Max(s) \in s /\ \A i \in s : i <= Max(s)
        BY <2>3, <4>1, LargestUpTo
      <4>3. Max(s) \in Nat /\ k \in Nat /\ Max(s) <= k /\ k <= Max(s)
        BY <2>3, <4>1, <4>2
      <4> QED BY <4>3
    <3>2. s \ {k} \in SUBSET (1 .. k - 1) /\ k \notin s \ {k}
      OBVIOUS
    <3>3. h[s \ {k}] = g[s \ {k}]
      BY <3>2
    <3> QED BY <2>3, <3>1, <3>3
  <2>4. ASSUME NEW s \in SUBSET (1 .. k), k \notin s, s # {}
        PROVE  h[s] = Step(fold, h[s \ {Max(s)}], seq[Max(s)])
    <3>1. s \in SUBSET (1 .. k - 1) /\ s \ {Max(s)} \in SUBSET (1 .. k - 1)
      BY <2>2, <2>4
    <3>2. g[s] = Step(fold, g[s \ {Max(s)}], seq[Max(s)])
      BY <2>1, <2>4, <3>1 DEF FoldOf
    <3>3. h[s] = g[s] /\ h[s \ {Max(s)}] = g[s \ {Max(s)}]
      BY <2>4, <3>1
    <3> QED BY <3>2, <3>3
  <2>5. h[{}] = base
    <3>1. {} \in SUBSET (1 .. k) /\ {} \in SUBSET (1 .. k - 1)
      OBVIOUS
    <3> QED BY <2>1, <3>1 DEF FoldOf
  <2>6. h = [s \in SUBSET (1 .. k) |-> h[s]]
    OBVIOUS
  <2> HIDE DEF h
  <2>7. F(h, k)
    BY <2>3, <2>4, <2>5, <2>6 DEF FoldOf
  <2> QED BY <2>7
<1> HIDE DEF P
<1>3. n \in P
  BY <1>1, <1>2, UpTo
<1> QED BY <1>3 DEF P

\* The steps of a fold, from what it starts with to what it returns.
Folds(fold, base, seq, result) ==
    \E a : /\ a[0] = base /\ a[Len(seq)] = result
           /\ \A i \in 1 .. Len(seq) : a[i] = Step(fold, a[i - 1], seq[i])

LEMMA FoldSteps ==
    ASSUME NEW fold, NEW base, NEW seq, NEW h, Len(seq) \in Nat,
           FoldOf(h, fold, base, seq, Len(seq))
    PROVE  Folds(fold, base, seq, h[1 .. Len(seq)])
<1> DEFINE n == Len(seq)
           a == [i \in 0 .. n |-> h[1 .. i]]
<1>1. a[0] = base /\ a[n] = h[1 .. n]
  <2>1. 1 .. 0 = {} /\ {} \in SUBSET (1 .. n) /\ n \in 0 .. n
    OBVIOUS
  <2> QED BY <2>1 DEF FoldOf
<1>2. ASSUME NEW i \in 1 .. n PROVE a[i] = Step(fold, a[i - 1], seq[i])
  <2>1. i \in Nat /\ 1 <= i /\ i <= n /\ i \in 0 .. n /\ i - 1 \in 0 .. n
    OBVIOUS
  <2>2. 1 .. i \in SUBSET (1 .. n) /\ 1 .. i # {} /\ i \in 1 .. i
    <3>1. i \in 1 .. i
      BY <2>1
    <3>2. \A j \in 1 .. i : j \in 1 .. n
      BY <2>1
    <3> QED BY <3>1, <3>2
  <2>3. Max(1 .. i) = i
    <3>1. 1 .. i \in SUBSET (0 .. n)
      BY <2>2
    <3>2. Max(1 .. i) \in 1 .. i /\ \A j \in 1 .. i : j <= Max(1 .. i)
      BY <2>2, <3>1, LargestUpTo
    <3> QED BY <2>1, <2>2, <3>2
  <2>4. (1 .. i) \ {i} = 1 .. i - 1
    BY <2>1
  <2>5. h[1 .. i] = Step(fold, h[1 .. i - 1], seq[i])
    BY <2>2, <2>3, <2>4 DEF FoldOf
  <2>6. a[i] = h[1 .. i] /\ a[i - 1] = h[1 .. i - 1]
    BY <2>1
  <2> HIDE DEF a
  <2> QED BY <2>5, <2>6
<1> HIDE DEF a
<1> QED BY <1>1, <1>2 DEF Folds

LEMMA AcceptFold ==
    ASSUME NEW base, NEW seq, IsSeq(seq)
    PROVE  Folds(<<"Accept", 0>>, base, seq, FoldLeft(Accept, base, seq))
<1> DEFINE E(h) == h = [s \in SUBSET DOMAIN seq |->
                           IF s = {} THEN base ELSE Accept(h[s \ {Max(s)}], seq[Max(s)])]
           it == CHOOSE h : E(h)
<1>1. Len(seq) \in Nat /\ DOMAIN seq = 1 .. Len(seq)
  BY SeqDomain
<1>2. \A h : E(h) <=> FoldOf(h, <<"Accept", 0>>, base, seq, Len(seq))
  BY <1>1 DEF FoldOf, Step
<1>3. E(it)
  <2>1. \E h : FoldOf(h, <<"Accept", 0>>, base, seq, Len(seq))
    BY <1>1, FoldExists
  <2> QED BY <1>2, <2>1, Zenon
<1>4. FoldLeft(Accept, base, seq) = it[1 .. Len(seq)]
  BY <1>1, Zenon DEF FoldLeft, MapThenFoldSet
<1> HIDE DEF it
<1>5. Folds(<<"Accept", 0>>, base, seq, it[1 .. Len(seq)])
  BY <1>1, <1>2, <1>3, FoldSteps
<1> QED BY <1>4, <1>5

LEMMA TakeFold ==
    ASSUME NEW base, NEW seq, IsSeq(seq)
    PROVE  Folds(<<"Take", 0>>, base, seq, FoldLeft(Take, base, seq))
<1> DEFINE E(h) == h = [s \in SUBSET DOMAIN seq |->
                           IF s = {} THEN base ELSE Take(h[s \ {Max(s)}], seq[Max(s)])]
           it == CHOOSE h : E(h)
<1>1. Len(seq) \in Nat /\ DOMAIN seq = 1 .. Len(seq)
  BY SeqDomain
<1>2. \A h : E(h) <=> FoldOf(h, <<"Take", 0>>, base, seq, Len(seq))
  BY <1>1 DEF FoldOf, Step
<1>3. E(it)
  <2>1. \E h : FoldOf(h, <<"Take", 0>>, base, seq, Len(seq))
    BY <1>1, FoldExists
  <2> QED BY <1>2, <2>1, Zenon
<1>4. FoldLeft(Take, base, seq) = it[1 .. Len(seq)]
  BY <1>1, Zenon DEF FoldLeft, MapThenFoldSet
<1> HIDE DEF it
<1>5. Folds(<<"Take", 0>>, base, seq, it[1 .. Len(seq)])
  BY <1>1, <1>2, <1>3, FoldSteps
<1> QED BY <1>4, <1>5

LEMMA AnswerCallFold ==
    ASSUME NEW base, NEW seq, IsSeq(seq)
    PROVE  Folds(<<"AnswerCall", 0>>, base, seq, FoldLeft(AnswerCall, base, seq))
<1> DEFINE E(h) == h = [s \in SUBSET DOMAIN seq |->
                           IF s = {} THEN base ELSE AnswerCall(h[s \ {Max(s)}], seq[Max(s)])]
           it == CHOOSE h : E(h)
<1>1. Len(seq) \in Nat /\ DOMAIN seq = 1 .. Len(seq)
  BY SeqDomain
<1>2. \A h : E(h) <=> FoldOf(h, <<"AnswerCall", 0>>, base, seq, Len(seq))
  BY <1>1 DEF FoldOf, Step
<1>3. E(it)
  <2>1. \E h : FoldOf(h, <<"AnswerCall", 0>>, base, seq, Len(seq))
    BY <1>1, FoldExists
  <2> QED BY <1>2, <2>1, Zenon
<1>4. FoldLeft(AnswerCall, base, seq) = it[1 .. Len(seq)]
  BY <1>1, Zenon DEF FoldLeft, MapThenFoldSet
<1> HIDE DEF it
<1>5. Folds(<<"AnswerCall", 0>>, base, seq, it[1 .. Len(seq)])
  BY <1>1, <1>2, <1>3, FoldSteps
<1> QED BY <1>4, <1>5

LEMMA ApplyFold ==
    ASSUME NEW base, NEW seq, IsSeq(seq)
    PROVE  Folds(<<"Apply", 0>>, base, seq, FoldLeft(Apply, base, seq))
<1> DEFINE E(h) == h = [s \in SUBSET DOMAIN seq |->
                           IF s = {} THEN base ELSE Apply(h[s \ {Max(s)}], seq[Max(s)])]
           it == CHOOSE h : E(h)
<1>1. Len(seq) \in Nat /\ DOMAIN seq = 1 .. Len(seq)
  BY SeqDomain
<1>2. \A h : E(h) <=> FoldOf(h, <<"Apply", 0>>, base, seq, Len(seq))
  BY <1>1 DEF FoldOf, Step
<1>3. E(it)
  <2>1. \E h : FoldOf(h, <<"Apply", 0>>, base, seq, Len(seq))
    BY <1>1, FoldExists
  <2> QED BY <1>2, <2>1, Zenon
<1>4. FoldLeft(Apply, base, seq) = it[1 .. Len(seq)]
  BY <1>1, Zenon DEF FoldLeft, MapThenFoldSet
<1> HIDE DEF it
<1>5. Folds(<<"Apply", 0>>, base, seq, it[1 .. Len(seq)])
  BY <1>1, <1>2, <1>3, FoldSteps
<1> QED BY <1>4, <1>5

LEMMA KeepFold ==
    ASSUME NEW base, NEW seq, IsSeq(seq)
    PROVE  Folds(<<"Keep", 0>>, base, seq, FoldLeft(Keep, base, seq))
<1> DEFINE E(h) == h = [s \in SUBSET DOMAIN seq |->
                           IF s = {} THEN base ELSE Keep(h[s \ {Max(s)}], seq[Max(s)])]
           it == CHOOSE h : E(h)
<1>1. Len(seq) \in Nat /\ DOMAIN seq = 1 .. Len(seq)
  BY SeqDomain
<1>2. \A h : E(h) <=> FoldOf(h, <<"Keep", 0>>, base, seq, Len(seq))
  BY <1>1 DEF FoldOf, Step
<1>3. E(it)
  <2>1. \E h : FoldOf(h, <<"Keep", 0>>, base, seq, Len(seq))
    BY <1>1, FoldExists
  <2> QED BY <1>2, <2>1, Zenon
<1>4. FoldLeft(Keep, base, seq) = it[1 .. Len(seq)]
  BY <1>1, Zenon DEF FoldLeft, MapThenFoldSet
<1> HIDE DEF it
<1>5. Folds(<<"Keep", 0>>, base, seq, it[1 .. Len(seq)])
  BY <1>1, <1>2, <1>3, FoldSteps
<1> QED BY <1>4, <1>5

LEMMA LearnFold ==
    ASSUME NEW base, NEW seq, IsSeq(seq)
    PROVE  Folds(<<"Learn", 0>>, base, seq, FoldLeft(Learn, base, seq))
<1> DEFINE E(h) == h = [s \in SUBSET DOMAIN seq |->
                           IF s = {} THEN base ELSE Learn(h[s \ {Max(s)}], seq[Max(s)])]
           it == CHOOSE h : E(h)
<1>1. Len(seq) \in Nat /\ DOMAIN seq = 1 .. Len(seq)
  BY SeqDomain
<1>2. \A h : E(h) <=> FoldOf(h, <<"Learn", 0>>, base, seq, Len(seq))
  BY <1>1 DEF FoldOf, Step
<1>3. E(it)
  <2>1. \E h : FoldOf(h, <<"Learn", 0>>, base, seq, Len(seq))
    BY <1>1, FoldExists
  <2> QED BY <1>2, <2>1, Zenon
<1>4. FoldLeft(Learn, base, seq) = it[1 .. Len(seq)]
  BY <1>1, Zenon DEF FoldLeft, MapThenFoldSet
<1> HIDE DEF it
<1>5. Folds(<<"Learn", 0>>, base, seq, it[1 .. Len(seq)])
  BY <1>1, <1>2, <1>3, FoldSteps
<1> QED BY <1>4, <1>5

LEMMA LearnCallFold ==
    ASSUME NEW base, NEW m, IsSeq(m.calls)
    PROVE  Folds(<<"LearnCall", m>>, base, m.calls, LearnCalls(base, m))
<1> DEFINE seq == m.calls
           E(h) == h = [s \in SUBSET DOMAIN seq |->
                           IF s = {} THEN base ELSE LearnCall(h[s \ {Max(s)}], seq[Max(s)], m)]
           it == CHOOSE h : E(h)
<1>1. Len(seq) \in Nat /\ DOMAIN seq = 1 .. Len(seq)
  BY SeqDomain
<1>2. \A h : E(h) <=> FoldOf(h, <<"LearnCall", m>>, base, seq, Len(seq))
  BY <1>1 DEF FoldOf, Step
<1>3. E(it)
  <2>1. \E h : FoldOf(h, <<"LearnCall", m>>, base, seq, Len(seq))
    BY <1>1, FoldExists
  <2> QED BY <1>2, <2>1, Zenon
<1>4. LearnCalls(base, m) = it[1 .. Len(seq)]
  BY <1>1, Zenon DEF LearnCalls, FoldLeft, MapThenFoldSet
<1> HIDE DEF it
<1>5. Folds(<<"LearnCall", m>>, base, seq, it[1 .. Len(seq)])
  BY <1>1, <1>2, <1>3, FoldSteps
<1> QED BY <1>4, <1>5

LEMMA AddOpenFold ==
    ASSUME NEW c, IsSeq(c.calls), NEW run
    PROVE  Folds(<<"AddOpen", run>>, <<>>, c.calls, OpenCalls(c, run))
<1> DEFINE base == <<>>
           seq == c.calls
           E(h) == h = [s \in SUBSET DOMAIN seq |->
                           IF s = {} THEN base ELSE AddOpen(h[s \ {Max(s)}], seq[Max(s)], run)]
           it == CHOOSE h : E(h)
<1>1. Len(seq) \in Nat /\ DOMAIN seq = 1 .. Len(seq)
  BY SeqDomain
<1>2. \A h : E(h) <=> FoldOf(h, <<"AddOpen", run>>, base, seq, Len(seq))
  BY <1>1 DEF FoldOf, Step
<1>3. E(it)
  <2>1. \E h : FoldOf(h, <<"AddOpen", run>>, base, seq, Len(seq))
    BY <1>1, FoldExists
  <2> QED BY <1>2, <2>1, Zenon
<1>4. OpenCalls(c, run) = it[1 .. Len(seq)]
  BY <1>1, Zenon DEF OpenCalls, FoldLeft, MapThenFoldSet
<1> HIDE DEF it
<1>5. Folds(<<"AddOpen", run>>, base, seq, it[1 .. Len(seq)])
  BY <1>1, <1>2, <1>3, FoldSteps
<1> QED BY <1>4, <1>5

-----------------------------------------------------------------------------
(* Problems are errors or warnings.                                        *)

Severities == {"error", "warning"}
Graded(ps) == \A p \in ps : p[2] \in Severities

LEMMA ProblemGraded ==
    \A holds, rule : \A severity \in Severities : Graded(Problem(holds, rule, severity))
BY DEF Problem, Graded, Severities

LEMMA OneProblem == \A rule : \A severity \in Severities : Graded({<<rule, severity>>})
BY DEF Graded, Severities

LEMMA BothGraded == \A ps, qs : Graded(ps) /\ Graded(qs) => Graded(ps \cup qs)
BY DEF Graded

LEMMA NoProblems == Graded({}) /\ "error" \in Severities /\ "warning" \in Severities
BY DEF Graded, Severities

LEMMA DecodeGraded == \A e : Graded(DecodeProblems(e))
<1> TAKE e
<1>1. Graded(OutcomeProblems(e.outcome))
  BY ProblemGraded, NoProblems, Zenon DEF OutcomeProblems
<1> QED BY <1>1, ProblemGraded, BothGraded, NoProblems, Zenon DEF DecodeProblems

LEMMA PairGraded == \A v, e : Graded(Pair(v, e).ps)
<1> TAKE v, e
<1>1. Graded(StartItem(v, e).ps)
  <2>1. \E holds : StartItem(v, e).ps = Problem(holds, "pairing", "error")
    BY DEF StartItem
  <2> QED BY <2>1, ProblemGraded, NoProblems
<1>2. Graded(ContinueItem(v, e).ps)
  <2>1. \E h1, h2 : ContinueItem(v, e).ps
                        = Problem(h1, "pairing", "error") \cup Problem(h2, "chunk", "error")
    BY DEF ContinueItem
  <2> QED BY <2>1, ProblemGraded, BothGraded, NoProblems
<1>3. EndItem(v, e).ps = ContinueItem(v, e).ps
  BY DEF EndItem
<1>4. \/ Pair(v, e) \in {StartItem(v, e), ContinueItem(v, e), EndItem(v, e)}
      \/ \E holds, rule : \E severity \in Severities :
             Pair(v, e).ps = Problem(holds, rule, severity)
      \/ Pair(v, e).ps = {}
  BY NoProblems DEF Pair
<1> QED BY <1>1, <1>2, <1>3, <1>4, ProblemGraded, NoProblems

LEMMA CheckGraded == \A v, e : Graded(Check(v, e).ps)
<1> TAKE v, e
<1>1. Graded(Finish(v, e).ps)
  <2>1. \/ Finish(v, e).ps = {<<"lifecycle", "error">>}
        \/ \E h1, h2, h3 : Finish(v, e).ps = Problem(h1, "lifecycle", "error")
                               \cup Problem(h2, "pairing", "error")
                               \cup Problem(h3, "outcome", "error")
    BY DEF Finish
  <2>2. ASSUME NEW h1, NEW h2, NEW h3
        PROVE  Graded(Problem(h1, "lifecycle", "error") \cup Problem(h2, "pairing", "error")
                      \cup Problem(h3, "outcome", "error"))
    BY ProblemGraded, BothGraded, NoProblems, Zenon
  <2>3. CASE Finish(v, e).ps = {<<"lifecycle", "error">>}
    BY <2>3, OneProblem, NoProblems
  <2>4. CASE Finish(v, e).ps # {<<"lifecycle", "error">>}
    <3>1. PICK h1, h2, h3 : Finish(v, e).ps = Problem(h1, "lifecycle", "error")
                                \cup Problem(h2, "pairing", "error")
                                \cup Problem(h3, "outcome", "error")
      BY <2>1, <2>4
    <3> QED BY <3>1, <2>2
  <2> QED BY <2>3, <2>4
<1>2. \/ Check(v, e) = Finish(v, e)
      \/ Check(v, e) = Pair(v, e)
      \/ \E holds : Check(v, e).ps = Problem(holds, "lifecycle", "error")
      \/ Check(v, e).ps = {<<"lifecycle", "error">>}
  BY DEF Check
<1> QED BY <1>1, <1>2, PairGraded, ProblemGraded, OneProblem, NoProblems

LEMMA SeqIsSeq ==
    ASSUME NEW X, NEW s \in Seq(X)
    PROVE  IsSeq(s)
<1>1. s \in [1 .. Len(s) -> X] /\ Len(s) \in Nat /\ DOMAIN s = 1 .. Len(s)
  OBVIOUS
<1>2. \A i \in 1 .. Len(s) : s[i] \in ToSet(s)
  BY <1>1 DEF ToSet
<1>3. s \in [1 .. Len(s) -> ToSet(s)]
  BY <1>1, <1>2
<1> QED BY <1>1, <1>3 DEF IsSeq

-----------------------------------------------------------------------------
(* The stream: its parts and the events filed in them.                     *)

OutcomeOK(o) == /\ IsSeq(o.interrupts) /\ IsSeq(o.pending)
                /\ o.type = "none" => ~o.listed
MessagesOK(ms) == IsSeq(ms) /\ \A i \in DOMAIN ms : IsSeq(ms[i].calls)
EventOK(e) == OutcomeOK(e.outcome) /\ MessagesOK(e.messages)

LEMMA EventsOK == \A e \in Events : EventOK(e)
<1> SUFFICES ASSUME NEW e \in Events PROVE EventOK(e)
  OBVIOUS
<1>1. OutcomeOK(e.outcome)
  <2>1. e.outcome \in RunOutcomes
    BY DEF Events, Fields
  <2>2. PICK P : e.outcome.interrupts \in Seq(P)
    BY <2>1 DEF RunOutcomes
  <2>3. e.outcome.pending \in Seq(Nat)
    BY <2>1 DEF RunOutcomes
  <2>4. e.outcome.type = "none" => ~e.outcome.listed
    BY <2>1 DEF RunOutcomes, NoOutcome
  <2> QED BY <2>2, <2>3, <2>4, SeqIsSeq DEF OutcomeOK
<1>2. MessagesOK(e.messages)
  <2>1. e.messages \in Seq(SnapshotMessages)
    BY DEF Events, Fields
  <2>2. IsSeq(e.messages) /\ \A i \in DOMAIN e.messages : e.messages[i] \in SnapshotMessages
    BY <2>1, SeqIsSeq
  <2>3. \A m \in SnapshotMessages : m.calls \in Seq(Nat)
    BY DEF SnapshotMessages
  <2>4. \A m \in SnapshotMessages : IsSeq(m.calls)
    BY <2>3, SeqIsSeq
  <2> QED BY <2>2, <2>4 DEF MessagesOK
<1> QED BY <1>1, <1>2 DEF EventOK

SegmentOK(s) ==
    /\ DOMAIN s = DOMAIN NewSegment(0)
    /\ IsSeq(s.events) /\ (\A i \in DOMAIN s.events : EventOK(s.events[i]))
    /\ OutcomeOK(s.outcome)
    /\ s.end \in {"none", "finished", "errored"}

SegmentsOK(segments) == IsSeq(segments) /\ \A k \in DOMAIN segments : SegmentOK(segments[k])

Lifecycle == {"RUN_STARTED", "RUN_FINISHED", "RUN_ERROR"}

LEMMA SegmentFields == \A run : DOMAIN NewSegment(run) = {"run", "events", "end", "outcome", "late"}
BY DEF NewSegment

LEMMA NewSegmentOK == \A run : SegmentOK(NewSegment(run)) /\ NewSegment(run).run = run
<1>1. OutcomeOK(NoOutcome)
  BY SeqEmpty DEF OutcomeOK, NoOutcome
<1> QED BY <1>1, SeqEmpty, SegmentFields DEF SegmentOK, NewSegment

\* Only the last part changes, and an error of it stays.
LEMMA FileTells ==
    ASSUME NEW S, SegmentsOK(S), NEW e, EventOK(e)
    PROVE  /\ SegmentsOK(File(S, e))
           /\ e.type = "RUN_STARTED" =>
                 /\ Len(File(S, e)) = Len(S) + 1
                 /\ File(S, e)[Len(S) + 1] = NewSegment(e.id)
                 /\ \A k \in 1 .. Len(S) : File(S, e)[k] = S[k]
           /\ e.type # "RUN_STARTED" /\ Len(S) > 0 =>
                 /\ Len(File(S, e)) = Len(S)
                 /\ \A k \in 1 .. Len(S) - 1 : File(S, e)[k] = S[k]
                 /\ File(S, e)[Len(S)].run = S[Len(S)].run
                 /\ e.type = "RUN_ERROR" \/ Errored(S[Len(S)]) => Errored(File(S, e)[Len(S)])
           /\ e.type = "RUN_ERROR" /\ Len(S) = 0 =>
                 /\ Len(File(S, e)) = 1
                 /\ File(S, e)[1] = [NewSegment(0) EXCEPT !.end = "errored"]
           /\ e.type \notin {"RUN_STARTED", "RUN_ERROR"} /\ Len(S) = 0 => File(S, e) = S
<1> DEFINE n == Len(S)
           cur == S[n]
<1>1. IsSeq(S) /\ n \in Nat /\ DOMAIN S = 1 .. n /\ \A k \in 1 .. n : SegmentOK(S[k])
  BY SeqDomain DEF SegmentsOK
<1>2. CASE e.type = "RUN_STARTED"
  <2>1. File(S, e) = Append(S, NewSegment(e.id))
    BY <1>2 DEF File
  <2>2. /\ IsSeq(File(S, e)) /\ Len(File(S, e)) = n + 1 /\ DOMAIN File(S, e) = 1 .. n + 1
        /\ File(S, e)[n + 1] = NewSegment(e.id)
        /\ \A k \in 1 .. n : File(S, e)[k] = S[k]
    BY <1>1, <2>1, SeqAppend
  <2>3. \A k \in 1 .. n + 1 : SegmentOK(File(S, e)[k])
    BY <1>1, <2>2, NewSegmentOK
  <2> QED BY <1>2, <2>2, <2>3 DEF SegmentsOK
<1>3. CASE e.type = "RUN_ERROR" /\ n = 0
  <2> DEFINE s == [NewSegment(0) EXCEPT !.end = "errored"]
  <2>1. File(S, e) = <<s>>
    BY <1>3 DEF File
  <2>2. SegmentOK(s)
    <3>1. /\ DOMAIN s = DOMAIN NewSegment(0) /\ s.end = "errored"
          /\ s.events = NewSegment(0).events /\ s.outcome = NewSegment(0).outcome
      BY SegmentFields
    <3> QED BY <3>1, NewSegmentOK DEF SegmentOK
  <2> HIDE DEF s
  <2>3. IsSeq(<<s>>) /\ Len(<<s>>) = 1 /\ DOMAIN <<s>> = {1} /\ <<s>>[1] = s
    BY DEF IsSeq, ToSet
  <2> QED BY <1>3, <2>1, <2>2, <2>3 DEF SegmentsOK, s
<1>4. CASE e.type # "RUN_STARTED" /\ n > 0
  <2>1. cur.end \in {"none", "finished", "errored"} /\ SegmentOK(cur)
    BY <1>1, <1>4 DEF SegmentOK
  <2>2. PICK s : /\ SegmentOK(s) /\ s.run = cur.run
                 /\ e.type = "RUN_ERROR" \/ Errored(cur) => Errored(s)
                 /\ File(S, e) = WithLast(S, s) \/ (s = cur /\ File(S, e) = S)
    <3>1. CASE e.type = "RUN_FINISHED" /\ cur.end = "none"
      <4> DEFINE s == [cur EXCEPT !.end = "finished", !.outcome = e.outcome]
      <4>1. File(S, e) = WithLast(S, s)
        BY <1>4, <3>1 DEF File, WithLast
      <4>2. SegmentOK(s) /\ s.run = cur.run /\ (Errored(cur) => Errored(s))
        BY <2>1, <3>1, SegmentFields DEF SegmentOK, Errored, EventOK
      <4> QED BY <3>1, <4>1, <4>2
    <3>2. CASE e.type = "RUN_ERROR" /\ cur.end = "finished"
      <4> DEFINE s == [cur EXCEPT !.late = TRUE]
      <4>1. File(S, e) = WithLast(S, s)
        BY <1>4, <3>2 DEF File, WithLast
      <4>2. SegmentOK(s) /\ s.run = cur.run /\ Errored(s)
        BY <2>1, SegmentFields DEF SegmentOK, Errored
      <4> QED BY <4>1, <4>2
    <3>3. CASE e.type = "RUN_ERROR" /\ cur.end = "none"
      <4> DEFINE s == [cur EXCEPT !.end = "errored"]
      <4>1. File(S, e) = WithLast(S, s)
        BY <1>4, <3>3 DEF File, WithLast
      <4>2. SegmentOK(s) /\ s.run = cur.run /\ Errored(s)
        BY <2>1, SegmentFields DEF SegmentOK, Errored
      <4> QED BY <4>1, <4>2
    <3>4. CASE e.type \notin Lifecycle /\ cur.end = "none"
      <4> DEFINE s == [cur EXCEPT !.events = Append(@, e)]
      <4>1. File(S, e) = WithLast(S, s)
        BY <1>4, <3>4 DEF File, Lifecycle, WithLast
      <4>2. /\ IsSeq(Append(cur.events, e))
            /\ \A i \in DOMAIN Append(cur.events, e) : EventOK(Append(cur.events, e)[i])
        <5>1. IsSeq(cur.events) /\ \A i \in 1 .. Len(cur.events) : EventOK(cur.events[i])
          BY <2>1, SeqDomain DEF SegmentOK
        <5>2. \A i \in 1 .. Len(cur.events) + 1 :
                  i = Len(cur.events) + 1 \/ i \in 1 .. Len(cur.events)
          BY <5>1, SeqDomain
        <5> QED BY <5>1, <5>2, SeqAppend
      <4>3. SegmentOK(s) /\ s.run = cur.run /\ (Errored(cur) => Errored(s))
        BY <2>1, <4>2, SegmentFields DEF SegmentOK, Errored
      <4> QED BY <3>4, <4>1, <4>3 DEF Lifecycle
    <3>5. CASE \/ e.type = "RUN_FINISHED" /\ cur.end # "none"
               \/ e.type = "RUN_ERROR" /\ cur.end = "errored"
               \/ e.type \notin Lifecycle /\ cur.end # "none"
      <4>1. File(S, e) = S
        BY <1>4, <3>5 DEF File, Lifecycle
      <4>2. e.type = "RUN_ERROR" => Errored(cur)
        BY <3>5 DEF Errored, Lifecycle
      <4> QED BY <2>1, <4>1, <4>2
    <3> QED BY <1>4, <2>1, <3>1, <3>2, <3>3, <3>4, <3>5 DEF Lifecycle
  <2>3. /\ IsSeq(File(S, e)) /\ Len(File(S, e)) = n /\ DOMAIN File(S, e) = 1 .. n
        /\ File(S, e)[n] = s /\ \A k \in 1 .. n - 1 : File(S, e)[k] = S[k]
    <3>1. IsSeq(S) /\ Len(S) > 0
      BY <1>4, Zenon DEF SegmentsOK
    <3>2. CASE File(S, e) = WithLast(S, s)
      BY <3>1, <3>2, SeqLast
    <3>3. CASE s = cur /\ File(S, e) = S
      BY <1>1, <3>3
    <3> QED BY <2>2, <3>2, <3>3
  <2>4. \A k \in 1 .. n : SegmentOK(File(S, e)[k])
    BY <1>1, <2>2, <2>3
  <2>5. SegmentsOK(File(S, e))
    BY <2>3, <2>4 DEF SegmentsOK
  <2>6. e.type = "RUN_ERROR" \/ Errored(S[n]) => Errored(File(S, e)[n])
    BY <2>2, <2>3
  <2>7. e.type # "RUN_STARTED" /\ ~(Len(S) = 0)
    BY <1>1, <1>4
  <2> QED BY <2>2, <2>3, <2>5, <2>6, <2>7, Zenon
<1>5. CASE e.type \notin {"RUN_STARTED", "RUN_ERROR"} /\ n = 0
  <2>1. File(S, e) = S
    BY <1>5 DEF File
  <2> QED BY <1>5, <2>1
<1> QED BY <1>1, <1>2, <1>3, <1>4, <1>5

LEMMA SeqConcat ==
    ASSUME NEW s, IsSeq(s), NEW t, IsSeq(t)
    PROVE  /\ IsSeq(s \o t) /\ Len(s \o t) = Len(s) + Len(t)
           /\ \A i \in 1 .. Len(s) : (s \o t)[i] = s[i]
           /\ \A i \in 1 .. Len(t) : (s \o t)[Len(s) + i] = t[i]
<1> DEFINE X == ToSet(s) \cup ToSet(t)
<1>1. s \in Seq(X) /\ t \in Seq(X)
  BY DEF IsSeq
<1>2. s \o t \in Seq(X)
  BY <1>1
<1>3. IsSeq(s \o t)
  BY <1>2, SeqIsSeq
<1> QED BY <1>1, <1>3

LEMMA SeqOne == \A x : IsSeq(<<x>>) /\ Len(<<x>>) = 1 /\ <<x>>[1] = x
BY DEF IsSeq, ToSet

-----------------------------------------------------------------------------
(* What one event of the stream stands for.                                *)

Pieces == {"START", "CONTENT", "END"}
IsPiece(p) == p.type \in Pieces /\ EventOK(p)

\* All but the last are pieces of the item that was open.
FeedOK(out, e) ==
    /\ IsSeq(out)
    /\ \A i \in 1 .. Len(out) : IsPiece(out[i]) \/ (i = Len(out) /\ out[i] = e)
    /\ e.type # "CHUNK" => Len(out) >= 1 /\ out[Len(out)] = e
    /\ e.type = "CHUNK" => \A i \in 1 .. Len(out) : IsPiece(out[i])

LEMMA OfType ==
    \A x, type : /\ Of(x, type).type = type /\ EventOK(Of(x, type))
                 /\ {"type", "outcome", "messages", "delta", "name", "parent"}
                        \subseteq DOMAIN Of(x, type)
<1> TAKE x, type
<1>1. /\ DOMAIN Plain = {"type", "kind", "id", "name", "parent", "message", "delta", "chunked",
                         "thread", "outcome", "messages", "flaw"}
      /\ Plain.outcome = NoOutcome /\ Plain.messages = <<>>
  BY DEF Plain
<1>2. /\ Of(x, type).type = type /\ Of(x, type).outcome = NoOutcome
      /\ Of(x, type).messages = <<>> /\ DOMAIN Of(x, type) = DOMAIN Plain
  BY <1>1 DEF Of
<1>3. EventOK(Of(x, type))
  BY <1>2, SeqEmpty DEF EventOK, OutcomeOK, NoOutcome, MessagesOK
<1> QED BY <1>1, <1>2, <1>3

LEMMA PieceOf == \A x : \A type \in Pieces : IsPiece(Of(x, type))
BY OfType DEF IsPiece

LEMMA CloseOK ==
    \A x : /\ IsSeq(Close(x)) /\ Len(Close(x)) \in {0, 1}
           /\ \A i \in 1 .. Len(Close(x)) : IsPiece(Close(x)[i])
<1> TAKE x
<1>1. CASE x.kind = "none"
  BY <1>1, SeqEmpty DEF Close
<1>2. CASE x.kind # "none"
  <2>1. IsPiece(Of(x, "END"))
    BY PieceOf DEF Pieces
  <2>2. Close(x) = <<Of(x, "END")>>
    BY <1>2 DEF Close
  <2> QED BY <2>1, <2>2, SeqOne
<1> QED BY <1>1, <1>2

LEMMA ContentOK ==
    \A x, e : /\ IsSeq(Content(x, e)) /\ Len(Content(x, e)) \in {0, 1}
              /\ \A i \in 1 .. Len(Content(x, e)) : IsPiece(Content(x, e)[i])
<1> TAKE x, e
<1>1. CASE e.delta = 0
  BY <1>1, SeqEmpty DEF Content
<1>2. CASE e.delta # 0
  <2> DEFINE y == [Of(x, "CONTENT") EXCEPT !.delta = e.delta]
  <2>1. IsPiece(y)
    <3>1. IsPiece(Of(x, "CONTENT"))
      BY PieceOf DEF Pieces
    <3>2. /\ y.type = Of(x, "CONTENT").type /\ y.outcome = Of(x, "CONTENT").outcome
          /\ y.messages = Of(x, "CONTENT").messages
      BY OfType
    <3> HIDE DEF y
    <3> QED BY <3>1, <3>2 DEF IsPiece, EventOK
  <2>2. Content(x, e) = <<y>>
    BY <1>2 DEF Content
  <2> HIDE DEF y
  <2> QED BY <2>1, <2>2, SeqOne
<1> QED BY <1>1, <1>2

LEMMA FeedTells == \A x, e : FeedOK(Feed(x, e).out, e)
<1> TAKE x, e
<1>1. CASE e.type = "RAW"
  <2>1. Feed(x, e).out = <<e>>
    BY <1>1 DEF Feed
  <2> QED BY <1>1, <2>1, SeqOne DEF FeedOK
<1>2. CASE e.type = "CHUNK" /\ Continues(x, e)
  <2>1. Feed(x, e).out = Content(x, e)
    BY <1>2 DEF Feed
  <2> QED BY <1>2, <2>1, ContentOK DEF FeedOK
<1>3. CASE e.type = "CHUNK" /\ ~Continues(x, e)
  <2> DEFINE new == Opened(e)
             start == [Of(new, "START") EXCEPT !.name = new.name, !.parent = new.parent]
             first == Close(x) \o <<start>>
  <2>1. Feed(x, e).out = first \o Content(new, e)
    BY <1>3 DEF Feed
  <2>2. IsPiece(start)
    <3>1. IsPiece(Of(new, "START"))
      BY PieceOf DEF Pieces
    <3>2. /\ start.type = Of(new, "START").type /\ start.outcome = Of(new, "START").outcome
          /\ start.messages = Of(new, "START").messages
      BY OfType
    <3> HIDE DEF start
    <3> QED BY <3>1, <3>2 DEF IsPiece, EventOK
  <2> HIDE DEF start, new
  <2>3. IsSeq(first) /\ Len(first) = Len(Close(x)) + 1
    BY CloseOK, SeqOne, SeqConcat
  <2>4. ASSUME NEW i \in 1 .. Len(first) PROVE IsPiece(first[i])
    <3>1. CASE i \in 1 .. Len(Close(x))
      BY <3>1, CloseOK, SeqOne, SeqConcat
    <3>2. CASE i = Len(Close(x)) + 1
      <4>1. first[Len(Close(x)) + 1] = <<start>>[1]
        BY CloseOK, SeqOne, SeqConcat
      <4> QED BY <2>2, <3>2, <4>1
    <3> QED BY <2>3, <3>1, <3>2, CloseOK
  <2> HIDE DEF first
  <2>5. IsSeq(Feed(x, e).out) /\ Len(Feed(x, e).out) = Len(first) + Len(Content(new, e))
    <3>1. IsSeq(Content(new, e))
      BY ContentOK
    <3>2. IsSeq(first)
      BY <2>3
    <3>3. /\ IsSeq(first \o Content(new, e))
          /\ Len(first \o Content(new, e)) = Len(first) + Len(Content(new, e))
      BY <3>1, <3>2, SeqConcat, Zenon
    <3> QED BY <2>1, <3>3
  <2>6. ASSUME NEW i \in 1 .. Len(Feed(x, e).out) PROVE IsPiece(Feed(x, e).out[i])
    <3>0. Len(first) \in Nat /\ Len(Content(new, e)) \in Nat
      BY <2>3, ContentOK, SeqDomain
    <3>1. CASE i \in 1 .. Len(first)
      BY <2>1, <2>3, <2>4, <3>1, ContentOK, SeqConcat
    <3>2. CASE i \notin 1 .. Len(first)
      <4>1. i - Len(first) \in 1 .. Len(Content(new, e)) /\ i = Len(first) + (i - Len(first))
        BY <2>5, <3>0, <3>2
      <4>2. Feed(x, e).out[Len(first) + (i - Len(first))] = Content(new, e)[i - Len(first)]
        BY <2>1, <2>3, <4>1, ContentOK, SeqConcat
      <4> QED BY <4>1, <4>2, ContentOK
    <3> QED BY <3>1, <3>2
  <2> QED BY <1>3, <2>5, <2>6 DEF FeedOK
<1>4. CASE e.type \notin {"RAW", "CHUNK"}
  <2>1. Feed(x, e).out = Append(Close(x), e)
    BY <1>4 DEF Feed
  <2>2. /\ IsSeq(Append(Close(x), e)) /\ Len(Append(Close(x), e)) = Len(Close(x)) + 1
        /\ Append(Close(x), e)[Len(Close(x)) + 1] = e
        /\ \A i \in 1 .. Len(Close(x)) : Append(Close(x), e)[i] = Close(x)[i]
    BY CloseOK, SeqAppend
  <2> QED BY <1>4, <2>1, <2>2, CloseOK DEF FeedOK
<1> QED BY <1>1, <1>2, <1>3, <1>4

ValidatorOK(v) == DOMAIN v = DOMAIN NewValidator

LEMMA ValidatorFields ==
    DOMAIN NewValidator = {"phase", "run", "items", "steps", "activities", "results", "calls"}
BY DEF NewValidator

LEMMA PairValidator == \A v, e : ValidatorOK(v) => ValidatorOK(Pair(v, e).v)
<1> SUFFICES ASSUME NEW v, NEW e, ValidatorOK(v) PROVE ValidatorOK(Pair(v, e).v)
  OBVIOUS
<1>1. DOMAIN StartItem(v, e).v = DOMAIN v
  BY DEF StartItem
<1>2. DOMAIN ContinueItem(v, e).v = DOMAIN v /\ DOMAIN EndItem(v, e).v = DOMAIN v
  BY DEF ContinueItem, EndItem
<1>3. DOMAIN Pair(v, e).v = DOMAIN v
  BY <1>1, <1>2 DEF Pair
<1> QED BY <1>3 DEF ValidatorOK

LEMMA CheckValidator == \A v, e : ValidatorOK(v) => ValidatorOK(Check(v, e).v)
<1> SUFFICES ASSUME NEW v, NEW e, ValidatorOK(v) PROVE ValidatorOK(Check(v, e).v)
  OBVIOUS
<1>1. DOMAIN Finish(v, e).v = DOMAIN v
  BY DEF Finish
<1>2. DOMAIN [NewValidator EXCEPT !.phase = "active", !.run = e.id] = DOMAIN NewValidator
  BY ValidatorFields
<1>3. DOMAIN Check(v, e).v \in {DOMAIN v, DOMAIN NewValidator, DOMAIN Pair(v, e).v}
  BY <1>1, <1>2 DEF Check
<1> QED BY <1>3, PairValidator DEF ValidatorOK

StreamOK(st) ==
    /\ DOMAIN st = DOMAIN NoStream
    /\ SegmentsOK(st.segments) /\ Graded(st.ps) /\ ValidatorOK(st.v)

LEMMA StreamFields ==
    DOMAIN NoStream = {"x", "v", "segments", "badStart", "ourEnded", "body", "tail",
                       "failed", "ps"}
BY DEF NoStream

LEMMA NoStreamOK == StreamOK(NoStream)
<1>1. SegmentsOK(<<>>)
  BY SeqEmpty DEF SegmentsOK
<1> QED BY <1>1, NoProblems DEF StreamOK, NoStream, ValidatorOK

LEMMA AcceptTells ==
    ASSUME NEW st, StreamOK(st), NEW e, EventOK(e)
    PROVE  /\ StreamOK(Accept(st, e))
           /\ Accept(st, e).segments = File(st.segments, e)
           /\ Accept(st, e).v = Check(st.v, e).v
           /\ st.ps \cup Check(st.v, e).ps \subseteq Accept(st, e).ps
           /\ Accept(st, e).body = st.body /\ Accept(st, e).tail = st.tail
           /\ Accept(st, e).x = st.x
<1> DEFINE bad == Len(st.segments) = 0 /\ e.type \notin {"RUN_STARTED", "RUN_ERROR"}
           more == Problem(bad, "lifecycle", "error")
<1>1. /\ DOMAIN Accept(st, e) = DOMAIN st
      /\ Accept(st, e).segments = File(st.segments, e)
      /\ Accept(st, e).v = Check(st.v, e).v
      /\ Accept(st, e).ps = st.ps \cup Check(st.v, e).ps \cup more
      /\ Accept(st, e).body = st.body /\ Accept(st, e).tail = st.tail
      /\ Accept(st, e).x = st.x
  BY StreamFields DEF StreamOK, Accept
<1> HIDE DEF more
<1>2. Graded(Accept(st, e).ps)
  <2>1. Graded(more)
    BY ProblemGraded, NoProblems DEF more
  <2>2. Graded(st.ps) /\ Graded(Check(st.v, e).ps)
    BY CheckGraded DEF StreamOK
  <2> QED BY <1>1, <2>1, <2>2, BothGraded, Zenon
<1>3. SegmentsOK(Accept(st, e).segments)
  BY <1>1, FileTells DEF StreamOK
<1>4. ValidatorOK(Accept(st, e).v)
  BY <1>1, CheckValidator DEF StreamOK
<1> QED BY <1>1, <1>2, <1>3, <1>4 DEF StreamOK

-----------------------------------------------------------------------------
(* Pieces of items leave how the runs of a stream end alone.               *)

Quiet(S, T) ==
    /\ SegmentsOK(T) /\ Len(T) = Len(S)
    /\ \A k \in 1 .. Len(S) : /\ T[k].run = S[k].run /\ T[k].end = S[k].end
                              /\ T[k].late = S[k].late /\ T[k].outcome = S[k].outcome
    /\ \A k \in 1 .. Len(S) - 1 : T[k] = S[k]

LEMMA QuietAgain ==
    \A S, T, U : SegmentsOK(S) /\ Quiet(S, T) /\ Quiet(T, U) => Quiet(S, U)
BY DEF Quiet

LEMMA QuietSame == \A S : SegmentsOK(S) => Quiet(S, S)
BY DEF Quiet

LEMMA FileQuiet ==
    ASSUME NEW S, SegmentsOK(S), NEW e, EventOK(e), e.type \notin Lifecycle
    PROVE  Quiet(S, File(S, e))
<1>1. IsSeq(S) /\ Len(S) \in Nat /\ \A k \in 1 .. Len(S) : SegmentOK(S[k])
  BY SeqDomain DEF SegmentsOK
<1>2. SegmentsOK(File(S, e))
  BY FileTells DEF Lifecycle
<1>3. CASE Len(S) > 0 /\ S[Len(S)].end = "none"
  <2> DEFINE s == [S[Len(S)] EXCEPT !.events = Append(@, e)]
  <2>1. File(S, e) = WithLast(S, s)
    BY <1>3 DEF File, Lifecycle, WithLast
  <2>2. SegmentOK(S[Len(S)])
    BY <1>1, <1>3
  <2>3. /\ s.run = S[Len(S)].run /\ s.end = S[Len(S)].end
        /\ s.late = S[Len(S)].late /\ s.outcome = S[Len(S)].outcome
    BY <2>2, SegmentFields DEF SegmentOK
  <2> HIDE DEF s
  <2>4. /\ Len(File(S, e)) = Len(S) /\ File(S, e)[Len(S)] = s
        /\ \A k \in 1 .. Len(S) - 1 : File(S, e)[k] = S[k]
    BY <1>1, <1>3, <2>1, SeqLast
  <2>5. \A k \in 1 .. Len(S) : k = Len(S) \/ k \in 1 .. Len(S) - 1
    BY <1>1
  <2> QED BY <1>2, <2>3, <2>4, <2>5 DEF Quiet
<1>4. CASE ~(Len(S) > 0 /\ S[Len(S)].end = "none")
  <2>1. File(S, e) = S
    BY <1>4 DEF File, Lifecycle
  <2> QED BY <2>1, QuietSame
<1> QED BY <1>3, <1>4

\* Accepting what an event stands for: pieces, and the event itself unless it is a
\* chunk.
LEMMA FedTells ==
    ASSUME NEW st, StreamOK(st), NEW e, EventOK(e),
           NEW x
    PROVE  /\ StreamOK(FoldLeft(Accept, st, Feed(x, e).out))
           /\ FoldLeft(Accept, st, Feed(x, e).out).body = st.body
           /\ FoldLeft(Accept, st, Feed(x, e).out).tail = st.tail
           /\ FoldLeft(Accept, st, Feed(x, e).out).x = st.x
           /\ IF e.type \in Lifecycle
              THEN \E M : /\ Quiet(st.segments, M)
                          /\ FoldLeft(Accept, st, Feed(x, e).out).segments = File(M, e)
              ELSE Quiet(st.segments, FoldLeft(Accept, st, Feed(x, e).out).segments)
<1> DEFINE out == Feed(x, e).out
           n == Len(out)
           fed == FoldLeft(Accept, st, out)
<1>1. FeedOK(out, e)
  BY FeedTells
<1> HIDE DEF out
<1>2. IsSeq(out) /\ n \in Nat
  BY <1>1, SeqDomain DEF FeedOK
<1>3. Folds(<<"Accept", 0>>, st, out, fed)
  BY <1>2, AcceptFold
<1> HIDE DEF fed
<1>4. PICK a : /\ a[0] = st /\ a[n] = fed
               /\ \A i \in 1 .. n : a[i] = Accept(a[i - 1], out[i])
  BY <1>3 DEF Folds, Step
<1> HIDE DEF n
<1> DEFINE Good(i) == /\ StreamOK(a[i]) /\ a[i].body = st.body /\ a[i].tail = st.tail
                      /\ a[i].x = st.x
           G == {i \in 0 .. n : /\ Good(i)
                                /\ i < n \/ e.type \notin Lifecycle
                                   => Quiet(st.segments, a[i].segments)}
<1>5. \A i \in 1 .. n : /\ EventOK(out[i])
                        /\ i < n \/ e.type \notin Lifecycle => out[i].type \notin Lifecycle
  <2>1. \A i \in 1 .. n : IsPiece(out[i]) \/ (i = n /\ out[i] = e)
    BY <1>1 DEF FeedOK, n
  <2>2. \A p : IsPiece(p) => EventOK(p) /\ p.type \notin Lifecycle
    BY DEF IsPiece, Pieces, Lifecycle
  <2> QED BY <1>2, <2>1, <2>2
<1>6. ASSUME NEW i \in 1 .. n, Good(i - 1)
      PROVE  Good(i) /\ a[i].segments = File(a[i - 1].segments, out[i])
  <2> DEFINE b == a[i - 1]
             o == out[i]
  <2>1. /\ a[i] = Accept(b, o) /\ StreamOK(b) /\ b.body = st.body /\ b.tail = st.tail
        /\ b.x = st.x
    BY <1>4, <1>6
  <2>2. EventOK(o)
    BY <1>5
  <2> HIDE DEF b, o
  <2>3. /\ StreamOK(Accept(b, o)) /\ Accept(b, o).segments = File(b.segments, o)
        /\ Accept(b, o).body = b.body /\ Accept(b, o).tail = b.tail /\ Accept(b, o).x = b.x
    BY <2>1, <2>2, AcceptTells
  <2> QED BY <2>1, <2>3 DEF b, o
<1>7. 0 \in G
  <2>1. 0 \in 0 .. n
    BY <1>2
  <2>2. Good(0)
    BY <1>4
  <2>3. Quiet(st.segments, a[0].segments)
    BY <1>4, QuietSame DEF StreamOK
  <2> QED BY <2>1, <2>2, <2>3
<1>8. ASSUME NEW i \in 1 .. n, i - 1 \in G PROVE i \in G
  <2>1. Good(i) /\ a[i].segments = File(a[i - 1].segments, out[i])
    BY <1>6, <1>8
  <2>2. i < n \/ e.type \notin Lifecycle => Quiet(st.segments, a[i].segments)
    <3> SUFFICES ASSUME i < n \/ e.type \notin Lifecycle
                 PROVE  Quiet(st.segments, a[i].segments)
      OBVIOUS
    <3>1. i - 1 < n
      BY <1>2
    <3>2. Quiet(st.segments, a[i - 1].segments) /\ SegmentsOK(a[i - 1].segments)
      BY <1>8, <3>1 DEF StreamOK
    <3>3. Quiet(a[i - 1].segments, a[i].segments)
      BY <1>5, <2>1, <3>2, FileQuiet
    <3> QED BY <3>2, <3>3, QuietAgain DEF StreamOK
  <2> QED BY <2>1, <2>2
<1> HIDE DEF G
<1>9. \A i \in 0 .. n : i \in G
  BY <1>2, <1>7, <1>8, UpTo
<1>10. Good(n)
  BY <1>2, <1>9 DEF G
<1>11. CASE e.type \in Lifecycle
  <2>1. n \in 1 .. n /\ n - 1 \in 0 .. n /\ n - 1 < n /\ out[n] = e
    BY <1>1, <1>2, <1>11 DEF FeedOK, Lifecycle, n
  <2>2. Good(n - 1) /\ Quiet(st.segments, a[n - 1].segments)
    BY <1>9, <2>1 DEF G
  <2>3. a[n].segments = File(a[n - 1].segments, e)
    BY <1>6, <2>1, <2>2
  <2> QED BY <1>4, <1>10, <1>11, <2>2, <2>3 DEF fed, out
<1>12. CASE e.type \notin Lifecycle
  <2>1. Quiet(st.segments, a[n].segments)
    BY <1>2, <1>9, <1>12 DEF G
  <2> QED BY <1>4, <1>10, <1>12, <2>1 DEF fed, out
<1> QED BY <1>11, <1>12

-----------------------------------------------------------------------------
(* The requested run, in the stream's parts and in what was heard.         *)

Echoes(S) == {k \in 1 .. Len(S) : S[k].run = OurRun}

LEMMA OursIs ==
    ASSUME NEW S, IsSeq(S)
    PROVE  /\ Len(S) \in Nat /\ Ours(S) \in 0 .. Len(S)
           /\ Echoes(S) # {} => Ours(S) \in Echoes(S) /\ \A k \in Echoes(S) : k <= Ours(S)
           /\ Echoes(S) = {} => Ours(S) = Len(S)
<1>1. Len(S) \in Nat
  BY SeqDomain
<1>2. SelectLastInSeq(S, LAMBDA s : s.run = OurRun)
          = IF Echoes(S) # {} THEN Max(Echoes(S)) ELSE 0
  BY Zenon DEF SelectLastInSeq, Echoes
<1>3. Ours(S) = LET echo == IF Echoes(S) # {} THEN Max(Echoes(S)) ELSE 0
                IN  IF echo # 0 THEN echo ELSE Len(S)
  BY <1>2, Zenon DEF Ours
<1>4. CASE Echoes(S) = {}
  <2>1. Ours(S) = Len(S)
    BY <1>3, <1>4
  <2> QED BY <1>1, <1>4, <2>1
<1>5. CASE Echoes(S) # {}
  <2>1. Echoes(S) \in SUBSET (0 .. Len(S))
    BY <1>1 DEF Echoes
  <2>2. Max(Echoes(S)) \in Echoes(S) /\ \A k \in Echoes(S) : k <= Max(Echoes(S))
    BY <1>1, <1>5, <2>1, LargestUpTo
  <2>3. Max(Echoes(S)) # 0
    BY <2>2 DEF Echoes
  <2>4. Ours(S) = Max(Echoes(S))
    BY <1>3, <1>5, <2>3
  <2> QED BY <1>1, <1>5, <2>1, <2>2, <2>4
<1> QED BY <1>4, <1>5

\* The choice depends on the runs the parts are of.
LEMMA OursSame ==
    ASSUME NEW S, IsSeq(S), NEW T, IsSeq(T), Len(T) = Len(S),
           \A k \in 1 .. Len(S) : T[k].run = S[k].run
    PROVE  Echoes(T) = Echoes(S) /\ Ours(T) = Ours(S)
<1>1. Echoes(T) = Echoes(S)
  BY DEF Echoes
<1>2. CASE Echoes(S) = {}
  BY <1>1, <1>2, OursIs
<1>3. CASE Echoes(S) # {}
  <2>1. /\ Ours(S) \in Echoes(S) /\ Ours(T) \in Echoes(S)
        /\ Ours(S) <= Ours(T) /\ Ours(T) <= Ours(S)
        /\ Ours(S) \in 0 .. Len(S) /\ Ours(T) \in 0 .. Len(S) /\ Len(S) \in Nat
    BY <1>1, <1>3, OursIs
  <2> QED BY <1>1, <2>1
<1> QED BY <1>2, <1>3

\* A run that starts is the one, unless the runId was echoed before and it does not.
LEMMA OursNext ==
    ASSUME NEW S, IsSeq(S), NEW T, IsSeq(T), Len(T) = Len(S) + 1,
           \A k \in 1 .. Len(S) : T[k].run = S[k].run
    PROVE  IF T[Len(S) + 1].run = OurRun
           THEN Ours(T) = Len(S) + 1 /\ Echoes(T) # {}
           ELSE /\ Echoes(T) = Echoes(S)
                /\ Ours(T) = IF Echoes(S) = {} THEN Len(S) + 1 ELSE Ours(S)
<1> DEFINE n == Len(S)
<1>1. n \in Nat /\ Ours(S) \in 0 .. n /\ Ours(T) \in 0 .. n + 1
  BY OursIs
<1>2. CASE T[n + 1].run = OurRun
  <2>1. n + 1 \in Echoes(T)
    BY <1>1, <1>2 DEF Echoes
  <2>2. n + 1 <= Ours(T)
    BY <2>1, OursIs
  <2>3. Ours(T) = n + 1
    BY <1>1, <2>2
  <2> QED BY <1>2, <2>1, <2>3
<1>3. CASE T[n + 1].run # OurRun
  <2>1. Echoes(T) = Echoes(S)
    <3>1. \A k \in 1 .. n + 1 : k = n + 1 \/ k \in 1 .. n
      BY <1>1
    <3>2. 1 .. n \subseteq 1 .. n + 1
      BY <1>1
    <3> QED BY <1>3, <3>1, <3>2 DEF Echoes
  <2>2. CASE Echoes(S) = {}
    BY <1>3, <2>1, <2>2, OursIs
  <2>3. CASE Echoes(S) # {}
    <3>1. /\ Ours(S) \in Echoes(S) /\ Ours(T) \in Echoes(S)
          /\ \A k \in Echoes(S) : k <= Ours(S) /\ k <= Ours(T)
      BY <2>1, <2>3, OursIs
    <3>2. Ours(S) <= Ours(T) /\ Ours(T) <= Ours(S)
      BY <3>1
    <3>3. Ours(T) = Ours(S)
      BY <1>1, <3>2
    <3> QED BY <1>3, <2>1, <2>3, <3>3
  <2> QED BY <2>2, <2>3
<1> QED BY <1>2, <1>3

Echoed == {i \in Starts : heard[i].id = OurRun}

\* No run started after the requested one.
OursIsLast == \A i \in Starts : i <= OurStart

PartTells ==
    /\ Len(heard) \in Nat /\ DOMAIN heard = 1 .. Len(heard)
    /\ Starts = {} => OurStart = Len(heard) /\ OurPart = {}
    /\ Starts # {} => OurStart \in Starts
    /\ Echoed # {} => OurStart \in Echoed /\ \A i \in Echoed : i <= OurStart
    /\ Echoed = {} => \A i \in Starts : i <= OurStart
    /\ OurPart = {i \in 1 .. Len(heard) :
                     i > OurStart /\ \A j \in Starts : j > OurStart => i < j}

LEMMA OurPartIs == IsSeq(heard) => PartTells
<1> SUFFICES ASSUME IsSeq(heard) PROVE PartTells
  OBVIOUS
<1> DEFINE L == Len(heard)
<1>1. L \in Nat /\ DOMAIN heard = 1 .. L
  BY SeqDomain
<1> HIDE DEF L
<1>2. /\ Starts \in SUBSET (0 .. L) /\ Echoed \in SUBSET (0 .. L)
      /\ Starts \in SUBSET (1 .. L)
  BY <1>1 DEF Starts, Echoed
<1>3. OurStart = IF Echoed # {} THEN Max(Echoed)
                 ELSE IF Starts # {} THEN Max(Starts) ELSE L
  BY Zenon DEF OurStart, Echoed, L
<1>4. Echoed # {} => OurStart \in Echoed /\ \A i \in Echoed : i <= OurStart
  BY <1>1, <1>2, <1>3, LargestUpTo
<1>5. Echoed = {} /\ Starts # {} => OurStart \in Starts /\ \A i \in Starts : i <= OurStart
  BY <1>1, <1>2, <1>3, LargestUpTo
<1>6. Starts = {} => OurStart = L /\ Echoed = {}
  <2>1. Starts = {} => Echoed = {}
    BY DEF Echoed
  <2> QED BY <1>3, <2>1
<1>7. Starts # {} => OurStart \in Starts
  BY <1>4, <1>5 DEF Echoed
<1>8. OurStart \in 0 .. L
  <2>1. CASE Starts = {}
    <3>1. L \in 0 .. L
      BY <1>1
    <3> QED BY <1>6, <2>1, <3>1
  <2>2. CASE Starts # {}
    BY <1>2, <1>7, <2>2
  <2> QED BY <2>1, <2>2
<1> DEFINE later == {i \in Starts : i > OurStart}
<1>9. OurPart = OurStart + 1 .. IF later = {} THEN L ELSE Min(later) - 1
  BY Zenon DEF OurPart, L
<1>10. OurPart = {i \in 1 .. L : i > OurStart /\ \A j \in Starts : j > OurStart => i < j}
  <2>1. CASE later = {}
    BY <1>1, <1>2, <1>8, <1>9, <2>1
  <2>2. CASE later # {}
    <3>1. later \in SUBSET Nat
      <4>1. \A i \in Starts : i \in 1 .. L
        BY <1>2
      <4> QED BY <1>1, <4>1
    <3>2. Min(later) \in later /\ \A j \in later : Min(later) <= j
      BY <2>2, <3>1, SmallestUpTo
    <3>3. Min(later) \in 1 .. L /\ Min(later) > OurStart
      BY <1>2, <3>2
    <3>4. \A j \in Starts : j > OurStart => Min(later) <= j
      BY <3>2
    <3>5. Min(later) \in Starts
      BY <3>2
    <3> HIDE DEF later
    <3>6. OurPart = OurStart + 1 .. Min(later) - 1
      BY <1>9, <2>2
    <3>7. ASSUME NEW i PROVE i \in OurPart <=> /\ i \in 1 .. L /\ i > OurStart
                                               /\ \A j \in Starts : j > OurStart => i < j
      <4>1. i \in OurPart <=> i \in Int /\ i > OurStart /\ i < Min(later)
        BY <1>1, <1>8, <3>3, <3>6
      <4>2. \A j \in Starts : j \in 1 .. L
        BY <1>2
      <4> QED BY <1>1, <1>8, <3>3, <3>4, <3>5, <4>1, <4>2
    <3> QED BY <3>7
  <2> QED BY <2>1, <2>2
<1>11. Starts = {} => OurPart = {}
  BY <1>1, <1>6, <1>10
<1> QED BY <1>1, <1>4, <1>5, <1>6, <1>7, <1>10, <1>11 DEF PartTells, L

LEMMA OurPartIsNext == IsSeq(heard)' => PartTells'
<1>1. (IsSeq(heard) => PartTells)'
  BY OurPartIs, PTL
<1> QED BY <1>1

\* A run that starts.
LEMMA StartHeard ==
    ASSUME IsSeq(heard), NEW e, e.type = "RUN_STARTED", heard' = Append(heard, e)
    PROVE  /\ Starts' # {}
           /\ IF e.id = OurRun \/ Echoed = {}
              THEN OursIsLast' /\ OurPart' = {}
              ELSE OurPart' = OurPart /\ ~OursIsLast' /\ Starts # {}
           /\ Echoed' = {} <=> Echoed = {} /\ e.id # OurRun
<1> DEFINE L == Len(heard)
<1>1. /\ IsSeq(heard') /\ Len(heard') = L + 1 /\ DOMAIN heard' = 1 .. L + 1
      /\ heard'[L + 1] = e /\ \A i \in 1 .. L : heard'[i] = heard[i]
      /\ L \in Nat /\ DOMAIN heard = 1 .. L
  BY SeqAppend, SeqDomain
<1>2. PartTells /\ PartTells'
  BY <1>1, OurPartIs, OurPartIsNext
<1>3. Starts' = Starts \cup {L + 1} /\ Starts \subseteq 1 .. L
  <2>1. 1 .. L + 1 = (1 .. L) \cup {L + 1}
    BY <1>1
  <2> QED BY <1>1, <2>1 DEF Starts
<1>4. Echoed' = Echoed \cup IF e.id = OurRun THEN {L + 1} ELSE {}
  BY <1>1, <1>3 DEF Echoed
<1>5. CASE e.id = OurRun \/ Echoed = {}
  <2>1. OurStart' = L + 1
    <3>1. CASE e.id = OurRun
      <4>1. L + 1 \in Echoed'
        BY <1>4, <3>1
      <4>2. OurStart' \in Echoed' /\ L + 1 <= OurStart'
        BY <1>2, <4>1 DEF PartTells
      <4>3. \A i \in Echoed' : i \in DOMAIN heard'
        BY DEF Echoed, Starts
      <4> HIDE DEF L
      <4> QED BY <1>1, <4>2, <4>3
    <3>2. CASE e.id # OurRun
      <4>1. Echoed' = {}
        BY <1>4, <1>5, <3>2
      <4>2. OurStart' \in Starts' /\ L + 1 <= OurStart'
        BY <1>2, <1>3, <4>1 DEF PartTells
      <4> HIDE DEF L
      <4>3. OurStart' \in 1 .. L + 1
        BY <1>1, <1>3, <4>2
      <4> QED BY <1>1, <4>2, <4>3
    <3> QED BY <3>1, <3>2
  <2>2. OursIsLast'
    <3>1. \A i \in 1 .. L : i <= L + 1
      BY <1>1
    <3>2. L + 1 <= L + 1
      BY <1>1
    <3> HIDE DEF L
    <3> QED BY <1>3, <2>1, <3>1, <3>2 DEF OursIsLast
  <2>3. OurPart' = {}
    BY <1>1, <1>2, <2>1 DEF PartTells
  <2> QED BY <1>3, <1>4, <1>5, <2>2, <2>3
<1>6. CASE ~(e.id = OurRun \/ Echoed = {})
  <2>1. Echoed' = Echoed /\ Starts # {}
    BY <1>4, <1>6 DEF Echoed
  <2>2. /\ OurStart \in Echoed /\ OurStart' \in Echoed
        /\ OurStart <= OurStart' /\ OurStart' <= OurStart
    BY <1>2, <1>6, <2>1 DEF PartTells
  <2>3. Echoed \subseteq 1 .. L
    BY <1>3 DEF Echoed
  <2>4. OurStart' = OurStart /\ OurStart \in 1 .. L
    BY <1>1, <2>2, <2>3
  <2>5. ~OursIsLast'
    BY <1>1, <1>3, <2>4 DEF OursIsLast
  <2>6. OurPart' = OurPart
    <3>1. \A i : i \in OurPart <=> /\ i \in 1 .. L /\ i > OurStart
                                   /\ \A j \in Starts : j > OurStart => i < j
      BY <1>2 DEF PartTells
    <3>2. \A i : i \in OurPart' <=> /\ i \in 1 .. L + 1 /\ i > OurStart
                                    /\ \A j \in Starts \cup {L + 1} : j > OurStart => i < j
      BY <1>1, <1>2, <1>3, <2>4 DEF PartTells
    <3>3. ASSUME NEW i PROVE i \in OurPart' <=> i \in OurPart
      BY <1>1, <2>4, <3>1, <3>2
    <3> QED BY <3>3
  <2> QED BY <1>3, <1>6, <2>1, <2>5, <2>6
<1> QED BY <1>5, <1>6

\* Any other event belongs to the run that started last.
LEMMA MoreHeard ==
    ASSUME IsSeq(heard), NEW e, e.type # "RUN_STARTED", heard' = Append(heard, e)
    PROVE  /\ Starts' = Starts /\ Echoed' = Echoed
           /\ Starts # {} /\ OursIsLast =>
                 OursIsLast' /\ OurPart' = OurPart \cup {Len(heard) + 1}
           /\ Starts # {} /\ ~OursIsLast => ~OursIsLast' /\ OurPart' = OurPart
           /\ Starts = {} => OurPart' = {}
<1> DEFINE L == Len(heard)
<1>1. /\ IsSeq(heard') /\ Len(heard') = L + 1 /\ DOMAIN heard' = 1 .. L + 1
      /\ heard'[L + 1] = e /\ \A i \in 1 .. L : heard'[i] = heard[i]
      /\ L \in Nat /\ DOMAIN heard = 1 .. L
  BY SeqAppend, SeqDomain
<1>2. PartTells /\ PartTells'
  BY <1>1, OurPartIs, OurPartIsNext
<1>3. Starts' = Starts /\ Starts \subseteq 1 .. L
  <2>1. 1 .. L + 1 = (1 .. L) \cup {L + 1}
    BY <1>1
  <2> QED BY <1>1, <2>1 DEF Starts
<1>4. Echoed' = Echoed
  BY <1>1, <1>3 DEF Echoed
<1>5. CASE Starts = {}
  BY <1>2, <1>3, <1>4, <1>5 DEF PartTells
<1>6. CASE Starts # {}
  <2>1. OurStart \in Starts /\ OurStart' \in Starts
    BY <1>2, <1>3, <1>6 DEF PartTells
  <2>2. OurStart <= OurStart' /\ OurStart' <= OurStart
    <3>1. CASE Echoed = {}
      BY <1>2, <1>3, <1>4, <2>1, <3>1, Zenon DEF PartTells
    <3>2. CASE Echoed # {}
      BY <1>2, <1>4, <3>2 DEF PartTells
    <3> QED BY <3>1, <3>2, Zenon
  <2>3. OurStart' = OurStart /\ OurStart \in 1 .. L
    BY <1>3, <2>1, <2>2
  <2>4. OursIsLast' <=> OursIsLast
    BY <1>3, <2>3 DEF OursIsLast
  <2>5. \A i : i \in OurPart <=> /\ i \in 1 .. L /\ i > OurStart
                                 /\ \A j \in Starts : j > OurStart => i < j
    BY <1>2 DEF PartTells
  <2>6. \A i : i \in OurPart' <=> /\ i \in 1 .. L + 1 /\ i > OurStart
                                  /\ \A j \in Starts : j > OurStart => i < j
    BY <1>1, <1>2, <1>3, <2>3 DEF PartTells
  <2>7. \A j \in Starts : j \in 1 .. L
    BY <1>3
  <2>8. ASSUME OursIsLast, NEW i PROVE i \in OurPart' <=> i \in OurPart \/ i = L + 1
    <3>1. \A j \in Starts : ~(j > OurStart)
      BY <2>3, <2>7, <2>8 DEF OursIsLast
    <3> QED BY <1>1, <2>3, <2>5, <2>6, <3>1
  <2>9. ASSUME ~OursIsLast, NEW i PROVE i \in OurPart' <=> i \in OurPart
    <3>1. PICK j \in Starts : j > OurStart
      BY <2>3, <2>7, <2>9 DEF OursIsLast
    <3> QED BY <1>1, <2>3, <2>5, <2>6, <2>7, <3>1
  <2> QED BY <1>3, <1>4, <1>6, <2>4, <2>8, <2>9
<1> QED BY <1>5, <1>6

-----------------------------------------------------------------------------
(* An error of the requested run surfaces.                                 *)

Erred == \E i \in OurPart : heard[i].type = "RUN_ERROR"

\* What the parts S of the stream say of the requested run, as it was heard.
Reads(S) ==
    /\ Starts # {} => Len(S) > 0
    /\ Echoed = {} <=> Echoes(S) = {}
    /\ Starts # {} => (OursIsLast <=> Ours(S) = Len(S))
    /\ Erred => Errored(S[Ours(S)])

LEMMA PartHeard ==
    ASSUME IsSeq(heard), NEW e, heard' = Append(heard, e), NEW i \in OurPart
    PROVE  heard'[i] = heard[i] /\ i # Len(heard) + 1
<1>1. i \in 1 .. Len(heard) /\ Len(heard) \in Nat
  BY OurPartIs DEF PartTells
<1> QED BY <1>1, SeqAppend

LEMMA ReadsStart ==
    ASSUME IsSeq(heard), NEW S, SegmentsOK(S), Reads(S),
           NEW e, EventOK(e), e.type = "RUN_STARTED", heard' = Append(heard, e),
           NEW M, Quiet(S, M), NEW T, T = File(M, e)
    PROVE  Reads(T)'
<1> DEFINE n == Len(S)
<1>1. /\ SegmentsOK(T) /\ Len(T) = n + 1 /\ T[n + 1].run = e.id
      /\ \A k \in 1 .. n : T[k] = M[k] /\ T[k].run = S[k].run
      /\ \A k \in 1 .. n : Errored(S[k]) => Errored(T[k])
  <2>1. SegmentsOK(M) /\ Len(M) = n
    BY DEF Quiet
  <2>2. /\ SegmentsOK(T) /\ Len(T) = n + 1 /\ T[n + 1] = NewSegment(e.id)
        /\ \A k \in 1 .. n : T[k] = M[k]
    BY <2>1, FileTells
  <2> QED BY <2>2, NewSegmentOK DEF Quiet, Errored
<1>2. IsSeq(S) /\ IsSeq(T) /\ n \in Nat
  BY <1>1, SeqDomain DEF SegmentsOK
<1>3. IF e.id = OurRun
      THEN Ours(T) = n + 1 /\ Echoes(T) # {}
      ELSE Echoes(T) = Echoes(S) /\ Ours(T) = IF Echoes(S) = {} THEN n + 1 ELSE Ours(S)
  BY <1>1, <1>2, OursNext
<1>4. /\ Starts' # {}
      /\ IF e.id = OurRun \/ Echoed = {}
         THEN OursIsLast' /\ OurPart' = {}
         ELSE OurPart' = OurPart /\ ~OursIsLast' /\ Starts # {}
      /\ Echoed' = {} <=> Echoed = {} /\ e.id # OurRun
  BY StartHeard
<1>5. Echoed = {} <=> Echoes(S) = {}
  BY DEF Reads
<1>6. Echoed' = {} <=> Echoes(T) = {}
  BY <1>3, <1>4, <1>5
<1>7. CASE e.id = OurRun \/ Echoed = {}
  <2>1. Ours(T) = Len(T) /\ Len(T) > 0
    BY <1>1, <1>2, <1>3, <1>5, <1>7
  <2>2. ~Erred'
    BY <1>4, <1>7 DEF Erred
  <2> QED BY <1>4, <1>6, <1>7, <2>1, <2>2 DEF Reads
<1>8. CASE ~(e.id = OurRun \/ Echoed = {})
  <2>1. Ours(T) = Ours(S) /\ Ours(S) \in 1 .. n
    <3>1. Ours(S) \in Echoes(S)
      BY <1>2, <1>5, <1>8, OursIs
    <3> QED BY <1>3, <1>5, <1>8, <3>1 DEF Echoes
  <2>2. Ours(T) # Len(T) /\ Len(T) > 0
    BY <1>1, <1>2, <2>1
  <2>3. Erred' => Erred
    BY <1>4, <1>8, PartHeard DEF Erred
  <2>4. Erred' => Errored(T[Ours(T)])
    BY <1>1, <2>1, <2>3 DEF Reads
  <2> QED BY <1>4, <1>6, <1>8, <2>2, <2>4 DEF Reads
<1> QED BY <1>7, <1>8

LEMMA ReadsMore ==
    ASSUME IsSeq(heard), NEW S, SegmentsOK(S), Reads(S),
           NEW e, e.type # "RUN_STARTED", heard' = Append(heard, e),
           EventOK(e),
           NEW M, Quiet(S, M), NEW T,
           T = IF e.type \in Lifecycle THEN File(M, e) ELSE M
    PROVE  Reads(T)'
<1> DEFINE n == Len(S)
<1>1. SegmentsOK(M) /\ Len(M) = n
  BY DEF Quiet
<1>2. IsSeq(S) /\ IsSeq(M) /\ n \in Nat
  BY <1>1, SeqDomain DEF SegmentsOK
<1>3. /\ Starts' = Starts /\ Echoed' = Echoed
      /\ Starts # {} /\ OursIsLast =>
            OursIsLast' /\ OurPart' = OurPart \cup {Len(heard) + 1}
      /\ Starts # {} /\ ~OursIsLast => ~OursIsLast' /\ OurPart' = OurPart
      /\ Starts = {} => OurPart' = {}
  BY MoreHeard
<1>4. Len(heard) \in Nat /\ heard'[Len(heard) + 1] = e
  BY SeqAppend, SeqDomain
<1>5. CASE n > 0
  <2>1. /\ SegmentsOK(T) /\ Len(T) = n
        /\ \A k \in 1 .. n - 1 : T[k] = M[k]
        /\ T[n].run = M[n].run
        /\ e.type = "RUN_ERROR" \/ Errored(M[n]) => Errored(T[n])
    <3>1. CASE e.type \in Lifecycle
      BY <1>1, <1>5, <3>1, FileTells
    <3>2. CASE e.type \notin Lifecycle
      BY <1>1, <3>2 DEF Lifecycle
    <3> QED BY <3>1, <3>2
  <2>2. \A k \in 1 .. n : k = n \/ k \in 1 .. n - 1
    BY <1>2
  <2>3. \A k \in 1 .. n : T[k].run = S[k].run /\ (Errored(S[k]) => Errored(T[k]))
    <3>1. \A k \in 1 .. n : M[k].run = S[k].run /\ (Errored(S[k]) => Errored(M[k]))
      BY DEF Quiet, Errored
    <3> QED BY <2>1, <2>2, <3>1
  <2>4. Echoes(T) = Echoes(S) /\ Ours(T) = Ours(S)
    <3>1. IsSeq(T)
      BY <2>1 DEF SegmentsOK
    <3> QED BY <1>2, <2>1, <2>3, <3>1, OursSame
  <2>5. Ours(S) \in 1 .. n
    BY <1>2, <1>5, OursIs DEF Echoes
  <2>6. Erred' => Errored(T[Ours(T)])
    <3> SUFFICES ASSUME NEW i \in OurPart', heard'[i].type = "RUN_ERROR"
                 PROVE  Errored(T[Ours(T)])
      BY DEF Erred
    <3>1. CASE i \in OurPart
      <4>1. Erred
        BY <3>1, PartHeard DEF Erred
      <4> QED BY <2>3, <2>4, <2>5, <4>1 DEF Reads
    <3>2. CASE i \notin OurPart
      <4>1. Starts # {} /\ OursIsLast /\ i = Len(heard) + 1
        BY <1>3, <3>2
      <4>2. e.type = "RUN_ERROR" /\ Ours(S) = n
        BY <1>4, <4>1 DEF Reads
      <4> QED BY <2>1, <2>4, <4>2
    <3> QED BY <3>1, <3>2
  <2>7. Starts # {} => (OursIsLast' <=> Ours(T) = Len(T))
    BY <1>3, <2>1, <2>4 DEF Reads
  <2>8. Echoed = {} <=> Echoes(T) = {}
    BY <2>4 DEF Reads
  <2> QED BY <1>3, <1>5, <2>1, <2>6, <2>7, <2>8 DEF Reads
<1>6. CASE n = 0
  <2>1. Starts = {} /\ Starts' = {} /\ OurPart' = {}
    BY <1>3, <1>6 DEF Reads
  <2>2. Echoed = {} /\ Echoed' = {}
    BY <1>3, <2>1 DEF Echoed
  <2>3. Echoes(T) = {}
    <3>1. CASE e.type = "RUN_ERROR"
      <4>1. T = File(M, e) /\ Len(M) = 0
        BY <1>1, <1>6, <3>1 DEF Lifecycle
      <4>2. Len(T) = 1 /\ T[1] = [NewSegment(0) EXCEPT !.end = "errored"]
        <5>1. /\ Len(File(M, e)) = 1
              /\ File(M, e)[1] = [NewSegment(0) EXCEPT !.end = "errored"]
          BY <1>1, <3>1, <4>1, FileTells, Zenon
        <5> QED BY <4>1, <5>1
      <4>3. T[1].run = 0
        BY <4>2 DEF NewSegment
      <4> QED BY <4>2, <4>3 DEF Echoes, OurRun
    <3>2. CASE e.type # "RUN_ERROR"
      <4>1. T = M
        BY <1>1, <1>6, <3>2 DEF File, Lifecycle
      <4> QED BY <1>1, <1>6, <4>1 DEF Echoes
    <3> QED BY <3>1, <3>2
  <2> QED BY <2>1, <2>2, <2>3 DEF Reads, Erred
<1> QED BY <1>2, <1>5, <1>6

-----------------------------------------------------------------------------
(* Reading: the stream keeps its form, and no conversation posts more than *)
(* MaxRuns runs.                                                           *)

Reader(st) == StreamOK(st) /\ st.body \in Seq(Events)

StreamInv ==
    /\ IsSeq(heard) /\ \A i \in DOMAIN heard : heard[i] \in Events
    /\ pc = "reading" => Reader(stream)
    /\ Len(runs) <= MaxRuns /\ (pc = "send" => Len(runs) < MaxRuns)

\* The stream after one more event: nothing of it joined a run, or what the event
\* stands for did.
Ignored == /\ UNCHANGED heard /\ stream'.segments = stream.segments
           /\ stream'.v = stream.v /\ stream.ps \subseteq stream'.ps
           /\ stream'.x = stream.x
FedInto(T, e) == \E st : /\ StreamOK(st) /\ st.segments = stream.segments
                        /\ st.v = stream.v /\ stream.ps \subseteq st.ps
                        /\ st.x = Feed(stream.x, e).x
                        /\ T = FoldLeft(Accept, st, Feed(stream.x, e).out)
Taken == \E e \in Events :
            /\ heard' = Append(heard, e) /\ FedInto(stream', e)
            /\ ~(e.type = "CHUNK" /\ BadChunk(stream.x, e))
            /\ \E M : /\ Quiet(stream.segments, M)
                      /\ stream'.segments = IF e.type \in Lifecycle THEN File(M, e) ELSE M

\* The stream is over: nothing more joined a run.
Settled == /\ UNCHANGED heard
           /\ \E st : /\ Settle(st) /\ Graded(st.ps) /\ stream.ps \subseteq st.ps
                      /\ st.segments = stream.segments

LEMMA ReadEventTells ==
    ASSUME Reader(stream), ReadEvent
    PROVE  \/ Settled
           \/ /\ Reader(stream') /\ UNCHANGED <<pc, thread, runs, violations>>
              /\ Ignored \/ Taken
<1> DEFINE e == Head(stream.body)
           more == DecodeProblems(e) \cup Problem(Unterminated, "transport", "warning")
           rest == [stream EXCEPT !.body = Tail(@),
                                  !.ps = @ \cup DecodeProblems(e)
                                         \cup Problem(Unterminated, "transport", "warning")]
           fed == Feed(stream.x, e)
<1>1. e \in Events /\ Tail(stream.body) \in Seq(Events)
  BY DEF Reader, ReadEvent
<1>2. Graded(more)
  BY DecodeGraded, ProblemGraded, BothGraded, NoProblems, Zenon
<1>3. /\ Reader(rest) /\ rest.segments = stream.segments /\ rest.ps = stream.ps \cup more
      /\ DOMAIN rest = DOMAIN stream /\ rest.v = stream.v /\ rest.x = stream.x
  <2>1. /\ DOMAIN rest = DOMAIN stream /\ rest.body = Tail(stream.body)
        /\ rest.ps = stream.ps \cup more /\ rest.segments = stream.segments
        /\ rest.v = stream.v /\ rest.x = stream.x
    BY StreamFields DEF Reader, StreamOK
  <2> HIDE DEF rest, more
  <2>2. Graded(rest.ps)
    BY <1>2, <2>1, BothGraded DEF Reader, StreamOK
  <2> QED BY <1>1, <2>1, <2>2 DEF Reader, StreamOK
<1>4. \/ /\ Settle([stream EXCEPT !.failed = TRUE, !.ps = @ \cup {<<"schema", "error">>}])
         /\ UNCHANGED heard
      \/ /\ stream' = rest
         /\ UNCHANGED <<pc, thread, runs, violations, heard>>
      \/ /\ Settle([rest EXCEPT !.failed = TRUE, !.ps = @ \cup {<<"chunk", "error">>}])
         /\ UNCHANGED heard
      \/ /\ stream' = FoldLeft(Accept, [rest EXCEPT !.x = fed.x], fed.out)
         /\ heard' = Append(heard, e) /\ ~(e.type = "CHUNK" /\ BadChunk(stream.x, e))
         /\ UNCHANGED <<pc, thread, runs, violations>>
  BY Zenon DEF ReadEvent
<1> HIDE DEF e, more, rest
<1>5. ASSUME NEW st, Reader(st), st.segments = stream.segments, stream.ps \subseteq st.ps,
             NEW rule, UNCHANGED heard,
             Settle([st EXCEPT !.failed = TRUE, !.ps = @ \cup {<<rule, "error">>}])
      PROVE  Settled
  <2> DEFINE s == [st EXCEPT !.failed = TRUE, !.ps = @ \cup {<<rule, "error">>}]
  <2>1. s.segments = stream.segments /\ s.ps = st.ps \cup {<<rule, "error">>}
    BY <1>5, StreamFields DEF Reader, StreamOK
  <2>2. Settle(s)
    BY <1>5
  <2> HIDE DEF s
  <2>3. Graded(st.ps) /\ Graded({<<rule, "error">>})
    BY <1>5, OneProblem, NoProblems DEF Reader, StreamOK
  <2>4. Graded(s.ps)
    BY <2>1, <2>3, BothGraded
  <2> QED BY <1>5, <2>1, <2>2, <2>4 DEF Settled
<1>6. CASE stream' = rest /\ UNCHANGED <<pc, thread, runs, violations, heard>>
  BY <1>3, <1>6 DEF Ignored
<1>7. CASE /\ stream' = FoldLeft(Accept, [rest EXCEPT !.x = fed.x], fed.out)
           /\ heard' = Append(heard, e) /\ ~(e.type = "CHUNK" /\ BadChunk(stream.x, e))
           /\ UNCHANGED <<pc, thread, runs, violations>>
  <2> DEFINE st == [rest EXCEPT !.x = fed.x]
             T == FoldLeft(Accept, st, fed.out)
  <2>1. /\ StreamOK(st) /\ st.body = rest.body /\ st.segments = stream.segments
        /\ st.v = stream.v /\ stream.ps \subseteq st.ps /\ st.x = fed.x
    BY <1>3, StreamFields DEF Reader, StreamOK
  <2>2. EventOK(e)
    BY <1>1, EventsOK
  <2> HIDE DEF st
  <2>3. /\ StreamOK(T) /\ T.body = st.body
        /\ IF e.type \in Lifecycle
           THEN \E M : Quiet(st.segments, M) /\ T.segments = File(M, e)
           ELSE Quiet(st.segments, T.segments)
    BY <2>1, <2>2, FedTells
  <2>4. stream' = T
    BY <1>7 DEF st
  <2>7. FedInto(stream', e)
    BY <2>1, <2>4 DEF FedInto
  <2> HIDE DEF T
  <2>5. Reader(stream')
    BY <1>3, <2>1, <2>3, <2>4 DEF Reader
  <2>6. \E M : /\ Quiet(stream.segments, M)
               /\ stream'.segments = IF e.type \in Lifecycle THEN File(M, e) ELSE M
    BY <2>1, <2>3, <2>4
  <2> QED BY <1>1, <1>7, <2>5, <2>6, <2>7 DEF Taken
<1> QED BY <1>3, <1>4, <1>5, <1>6, <1>7, Zenon

LEMMA ReadingTells ==
    ASSUME Reader(stream), Reading
    PROVE  \/ Settled
           \/ /\ Reader(stream') /\ UNCHANGED <<pc, thread, runs, violations>>
              /\ Ignored \/ Taken
<1>1. ASSUME NEW st, NEW more, Settle(st), UNCHANGED heard, Graded(more),
             st.ps = stream.ps \cup more, st.segments = stream.segments
      PROVE  Settled
  BY <1>1, BothGraded DEF Settled, Reader, StreamOK
<1>2. CASE ReadEnd
  <2> DEFINE more == Problem(stream.v.phase = "active", "lifecycle", "error")
             st == [stream EXCEPT !.ps = @ \cup more]
  <2>1. st.ps = stream.ps \cup more /\ st.segments = stream.segments
    BY StreamFields DEF Reader, StreamOK
  <2>2. Graded(more)
    BY ProblemGraded, NoProblems
  <2>3. Settle(st) /\ UNCHANGED heard
    BY <1>2, Zenon DEF ReadEnd
  <2> HIDE DEF st, more
  <2> QED BY <1>1, <2>1, <2>2, <2>3
<1>3. CASE ReadFails
  <2>1. CASE stream.ourEnded
    <3> DEFINE st == [stream EXCEPT !.ps = @ \cup {<<"transport", "warning">>}]
    <3>1. st.ps = stream.ps \cup {<<"transport", "warning">>} /\ st.segments = stream.segments
      BY StreamFields DEF Reader, StreamOK
    <3>2. Settle(st) /\ UNCHANGED heard
      BY <1>3, <2>1 DEF ReadFails
    <3> HIDE DEF st
    <3> QED BY <1>1, <3>1, <3>2, OneProblem, NoProblems
  <2>2. CASE ~stream.ourEnded
    <3> DEFINE st == [stream EXCEPT !.failed = TRUE]
    <3>1. st.ps = stream.ps \cup {} /\ st.segments = stream.segments
      BY StreamFields DEF Reader, StreamOK
    <3>2. Settle(st) /\ UNCHANGED heard
      BY <1>3, <2>2 DEF ReadFails
    <3> HIDE DEF st
    <3> QED BY <1>1, <3>1, <3>2, NoProblems
  <2> QED BY <2>1, <2>2
<1> QED BY <1>2, <1>3, ReadEventTells DEF Reading

\* What posting does.
LEMMA PostTells ==
    ASSUME StreamInv, CarryInv, Post
    PROVE  /\ pc = "send" /\ Len(runs') = Len(runs) + 1
           /\ UNCHANGED <<client, contexts, thread, violations, outcome, answer>>
           /\ \/ pc' = "decide" /\ UNCHANGED <<stream, heard>>
              \/ /\ pc' = "reading" /\ heard' = <<>> /\ Reader(stream')
                 /\ stream'.segments = <<>>
<1>1. pc = "send" /\ Len(runs') = Len(runs) + 1
  <2>1. pc = "send" /\ \E r : runs' = Append(runs, r)
    BY Zenon DEF Post, PostRefused, PostAccepted, Posting
  <2> QED BY <2>1, NextRun, SeqAppend
<1>2. CASE PostRefused
  BY <1>1, <1>2 DEF PostRefused
<1>3. ASSUME NEW body \in Bodies(Len(runs) + 1), NEW tail \in Tails, PostAccepted(body, tail)
      PROVE  /\ pc' = "reading" /\ heard' = <<>> /\ Reader(stream')
             /\ stream'.segments = <<>>
             /\ UNCHANGED <<client, contexts, thread, violations, outcome, answer>>
  <2>1. Len(runs) + 1 \in 1 .. MaxRuns
    BY <1>1, NextRun, ConversationAssumption DEF StreamInv
  <2>2. body \in Seq(Events)
    BY <2>1, BodiesAssumption
  <2> DEFINE st == [NoStream EXCEPT !.body = body, !.tail = tail]
  <2>3. stream' = st /\ pc' = "reading" /\ heard' = <<>>
    BY <1>3 DEF PostAccepted
  <2>4. /\ DOMAIN st = DOMAIN NoStream /\ st.body = body
        /\ st.segments = NoStream.segments /\ st.ps = NoStream.ps /\ st.v = NoStream.v
    BY StreamFields
  <2>5. NoStream.segments = <<>>
    BY DEF NoStream
  <2> HIDE DEF st
  <2>6. Reader(st)
    BY <2>2, <2>4, NoStreamOK DEF Reader, StreamOK
  <2> QED BY <1>3, <2>3, <2>4, <2>5, <2>6 DEF PostAccepted
<1> QED BY <1>1, <1>2, <1>3 DEF Post

LEMMA SettledTells ==
    Settled => UNCHANGED heard /\ pc' = "decide" /\ stream' = NoStream
BY DEF Settled, Settle, Record

LEMMA StepStream ==
    ASSUME StreamInv, CarryInv, [Next]_vars
    PROVE  StreamInv'
<1>0. Len(runs) \in Nat /\ (pc = "reading" => Len(runs) >= 1)
  BY NextRun DEF CarryInv, OnItsWay
<1>1. CASE Post
  <2>1. /\ pc = "send" /\ Len(runs') = Len(runs) + 1 /\ pc' # "send"
        /\ heard' = heard \/ heard' = <<>>
        /\ pc' = "reading" => Reader(stream')
    BY <1>1, PostTells
  <2>2. Len(runs') <= MaxRuns
    BY <1>0, <2>1, ConversationAssumption DEF StreamInv
  <2>3. IsSeq(heard') /\ \A i \in DOMAIN heard' : heard'[i] \in Events
    BY <2>1, SeqEmpty DEF StreamInv
  <2> QED BY <2>1, <2>2, <2>3 DEF StreamInv
<1>2. CASE Reading
  <2>1. pc = "reading" /\ Len(runs') = Len(runs) /\ pc' # "send"
    <3>1. pc = "reading" /\ RunsOK
      BY <1>2, ReadingRuns DEF CarryInv
    <3>2. Len(runs') = Len(runs) /\ pc' \in {"reading", "decide"}
      BY <1>0, <1>2, <3>1, ReadingCarries
    <3> QED BY <3>1, <3>2
  <2>2. pc' = "reading" => Reader(stream')
    BY <1>2, <2>1, ReadingTells, SettledTells DEF StreamInv
  <2>3. IsSeq(heard') /\ \A i \in DOMAIN heard' : heard'[i] \in Events
    <3>1. CASE UNCHANGED heard
      BY <3>1 DEF StreamInv
    <3>2. CASE \E e \in Events : heard' = Append(heard, e)
      <4>1. PICK e \in Events : heard' = Append(heard, e)
        BY <3>2
      <4>2. /\ IsSeq(heard') /\ DOMAIN heard' = 1 .. Len(heard) + 1
            /\ heard'[Len(heard) + 1] = e /\ Len(heard) \in Nat
            /\ \A i \in 1 .. Len(heard) : heard'[i] = heard[i] /\ heard[i] \in Events
        BY <4>1, SeqAppend, SeqDomain DEF StreamInv
      <4>3. \A i \in 1 .. Len(heard) + 1 : i = Len(heard) + 1 \/ i \in 1 .. Len(heard)
        BY <4>2
      <4> QED BY <4>2, <4>3
    <3> QED BY <1>2, <2>1, <3>1, <3>2, ReadingTells, SettledTells
         DEF StreamInv, Ignored, Taken
  <2> QED BY <2>1, <2>2, <2>3 DEF StreamInv
<1>3. CASE ~Post /\ ~Reading
  <2>1. /\ pc' # "reading" \/ UNCHANGED <<pc, stream>>
        /\ UNCHANGED runs
        /\ heard' = heard \/ heard' = <<>>
    BY <1>3 DEF Next, Cancel, Expire, RejectScript, Deciding, RunFails, CancelledRun,
                Complete, AnswerRequests, FollowUp, Return, Stopped, End, vars
  <2>2. IsSeq(heard') /\ \A i \in DOMAIN heard' : heard'[i] \in Events
    BY <2>1, SeqEmpty DEF StreamInv
  <2>3. pc' = "send" => pc = "send" \/ RunsLeft
    BY <1>3 DEF Next, Cancel, Expire, RejectScript, Deciding, RunFails, CancelledRun,
                Complete, AnswerRequests, FollowUp, Return, Stopped, End, vars
  <2> QED BY <2>1, <2>2, <2>3 DEF StreamInv, RunsLeft
<1> QED BY <1>1, <1>2, <1>3

LEMMA InitStream == Init => StreamInv
<1> SUFFICES ASSUME Init PROVE StreamInv
  OBVIOUS
<1>1. heard = <<>> /\ runs = <<>> /\ pc = "send"
  BY DEF Init
<1>2. MaxRuns \in Nat /\ 0 < MaxRuns
  BY ConversationAssumption
<1> QED BY <1>1, <1>2, SeqEmpty DEF StreamInv

THEOREM StreamInvariant == Spec => [](CarryInv /\ StreamInv)
BY InitCarry, StepCarry, InitStream, StepStream, PTL DEF Spec

-----------------------------------------------------------------------------
(* An error of the requested run ends the conversation.                    *)

LEMMA SettleEnding ==
    ASSUME RunsOK, Len(runs) >= 1, NEW st, Settle(st)
    PROVE  Latest'.outcome = Ending(st, Ours(st.segments))
<1> DEFINE k == Len(runs)
           at == Ours(st.segments)
           seg == IF at = 0 THEN NewSegment(0) ELSE st.segments[at]
           reduced == ReduceRun(thread, Len(runs), seg.events)
           ending == Ending(st, at)
           run == [runs[k] EXCEPT !.outcome = ending, !.items = reduced.items]
           ended == [run EXCEPT !.interrupts = seg.outcome.interrupts,
                                !.listed = seg.outcome.listed,
                                !.pending = seg.outcome.pending]
           new == IF ending \in Failures THEN run ELSE ended
<1>1. Record(st, at, seg, reduced)
  BY Zenon DEF Settle
<1>2. runs' = [runs EXCEPT ![k] = new]
  BY <1>1, Zenon DEF Record
<1>3. k \in DOMAIN runs /\ IsSeq(runs) /\ DOMAIN runs[k] = DOMAIN NoRun
  BY SeqDomain DEF RunsOK
<1> HIDE DEF seg, reduced, ending
<1>4. new.outcome = ending
  BY <1>3, RunFields
<1> HIDE DEF new
<1>5. Len(runs') = k /\ runs'[k] = new
  BY <1>2, <1>3, SeqExcept
<1> QED BY <1>4, <1>5 DEF Latest, ending

SurfaceInv ==
    /\ pc = "send" => heard = <<>>
    /\ pc = "reading" => Reads(stream.segments)
    /\ pc \in {"decide", "over"} /\ Erred => Latest.outcome \in {"error", "rejected"}
    /\ pc \in {"send", "reading", "decide"} => outcome = "none"
    /\ pc = "over" /\ Erred => outcome \in {"none", "errored"}

LEMMA NothingHeard == /\ heard = <<>> => Starts = {} /\ ~Erred
                      /\ heard' = <<>> => Starts' = {} /\ ~Erred'
<1>1. heard = <<>> => Starts = {} /\ ~Erred
  <2> SUFFICES ASSUME heard = <<>> PROVE Starts = {} /\ ~Erred
    OBVIOUS
  <2>1. Starts = {}
    BY SeqEmpty DEF Starts
  <2>2. OurPart = {}
    BY <2>1, SeqEmpty, OurPartIs DEF PartTells
  <2> QED BY <2>1, <2>2 DEF Erred
<1>2. (heard = <<>> => Starts = {} /\ ~Erred)'
  BY <1>1, PTL
<1> QED BY <1>1, <1>2

LEMMA SettledSurfaces ==
    ASSUME CarryInv, StreamInv, pc = "reading", Reads(stream.segments), Settled, Erred
    PROVE  Latest'.outcome \in {"error", "rejected"}
<1>1. PICK st : Settle(st) /\ st.segments = stream.segments
  BY DEF Settled
<1>2. Latest'.outcome = Ending(st, Ours(st.segments))
  BY <1>1, SettleEnding DEF CarryInv, OnItsWay
<1> DEFINE S == stream.segments
<1>3. SegmentsOK(S)
  BY DEF StreamInv, Reader, StreamOK
<1>4. IsSeq(S) /\ Len(S) \in Nat
  BY <1>3, SeqDomain DEF SegmentsOK
<1>5. Starts # {}
  BY OurPartIs DEF Erred, StreamInv, PartTells
<1>6. Len(S) > 0 /\ Errored(S[Ours(S)])
  BY <1>5 DEF Reads
<1>7. Ours(S) # 0
  BY <1>4, <1>6, OursIs DEF Echoes
<1>8. Ending(st, Ours(S)) \in {"error", "rejected"}
  <2>1. st.segments[Ours(S)] = S[Ours(S)]
    BY <1>1
  <2> DEFINE at == Ours(S)
  <2>2. at # 0 /\ Errored(st.segments[at])
    BY <1>6, <1>7, <2>1
  <2> HIDE DEF at, S
  <2>3. CASE st.failed \/ st.badStart
    <3>1. Ending(st, at) = "rejected"
      BY <2>3, Zenon DEF Ending
    <3> QED BY <3>1 DEF at
  <2>4. CASE ~(st.failed \/ st.badStart)
    <3>1. ~st.failed /\ ~st.badStart
      BY <2>4
    <3>2. Ending(st, at) = "error"
      BY <2>2, <3>1, Zenon DEF Ending
    <3> QED BY <3>2 DEF at
  <2> QED BY <2>3, <2>4
<1> QED BY <1>1, <1>2, <1>8

LEMMA StepSurfaces ==
    ASSUME CarryInv, StreamInv, SurfaceInv, [Next]_vars
    PROVE  SurfaceInv'
<1>1. CASE Post
  <2>1. pc = "send" /\ outcome = "none" /\ heard = <<>> /\ UNCHANGED outcome
    BY <1>1, PostTells DEF SurfaceInv
  <2>2. heard' = <<>> /\ pc' \in {"decide", "reading"}
    BY <1>1, <2>1, PostTells
  <2>3. Starts' = {} /\ ~Erred'
    BY <2>2, NothingHeard
  <2>4. pc' = "reading" => Reads(stream.segments)'
    <3> SUFFICES ASSUME pc' = "reading" PROVE Reads(stream.segments)'
      OBVIOUS
    <3>1. stream'.segments = <<>>
      BY <1>1, PostTells
    <3>2. Echoed' = {}
      BY <2>3 DEF Echoed
    <3>3. Echoes(stream.segments)' = {}
      BY <3>1, SeqEmpty DEF Echoes
    <3> QED BY <2>3, <3>2, <3>3 DEF Reads
  <2> QED BY <2>1, <2>2, <2>3, <2>4 DEF SurfaceInv
<1>2. CASE Reading
  <2>1. pc = "reading" /\ outcome = "none" /\ UNCHANGED outcome /\ Reads(stream.segments)
    BY <1>2, ReadingRuns DEF SurfaceInv
  <2>2. CASE Settled
    <3>1. UNCHANGED heard /\ pc' = "decide"
      BY <2>2, SettledTells
    <3>2. Erred' <=> Erred
      BY <3>1 DEF Erred, OurPart, OurStart, Starts
    <3>3. Erred => Latest'.outcome \in {"error", "rejected"}
      BY <2>1, <2>2, SettledSurfaces
    <3> QED BY <2>1, <3>1, <3>2, <3>3 DEF SurfaceInv
  <2>3. CASE UNCHANGED pc /\ Ignored
    <3>1. UNCHANGED heard /\ stream'.segments = stream.segments
      BY <2>3 DEF Ignored
    <3>2. Reads(stream.segments)'
      <4>1. Starts' = Starts /\ OurStart' = OurStart /\ OurPart' = OurPart
        BY <3>1 DEF OurPart, OurStart, Starts
      <4>2. /\ Echoed' = Echoed /\ Echoes(stream.segments)' = Echoes(stream.segments)
            /\ Erred' = Erred /\ OursIsLast' = OursIsLast
        BY <3>1, <4>1 DEF Echoed, Echoes, Erred, OursIsLast
      <4> QED BY <2>1, <3>1, <4>1, <4>2 DEF Reads
    <3> QED BY <2>1, <2>3, <3>2 DEF SurfaceInv
  <2>4. CASE UNCHANGED pc /\ Taken
    <3>1. PICK e \in Events :
              /\ heard' = Append(heard, e)
              /\ \E M : /\ Quiet(stream.segments, M)
                        /\ stream'.segments = IF e.type \in Lifecycle THEN File(M, e) ELSE M
      BY <2>4 DEF Taken
    <3>2. PICK M : /\ Quiet(stream.segments, M)
                   /\ stream'.segments = IF e.type \in Lifecycle THEN File(M, e) ELSE M
      BY <3>1
    <3>3. PICK S : S = stream.segments
      OBVIOUS
    <3>4. PICK T : T = stream'.segments
      OBVIOUS
    <3>5. SegmentsOK(S) /\ Reads(S) /\ IsSeq(heard)
      BY <2>1, <3>3 DEF StreamInv, Reader, StreamOK
    <3>6. EventOK(e)
      BY EventsOK
    <3>7. Reads(T)'
      <4>1. CASE e.type = "RUN_STARTED"
        <5>1. T = File(M, e) /\ Quiet(S, M)
          BY <3>2, <3>3, <3>4, <4>1 DEF Lifecycle
        <5> QED BY <3>1, <3>5, <3>6, <4>1, <5>1, ReadsStart
      <4>2. CASE e.type # "RUN_STARTED"
        <5>1. T = (IF e.type \in Lifecycle THEN File(M, e) ELSE M) /\ Quiet(S, M)
          BY <3>2, <3>3, <3>4
        <5> QED BY <3>1, <3>5, <3>6, <4>2, <5>1, ReadsMore
      <4> QED BY <4>1, <4>2
    <3>8. Reads(stream.segments)'
      BY <3>4, <3>7 DEF Reads, Echoes
    <3> QED BY <2>1, <2>4, <3>8 DEF SurfaceInv
  <2> QED BY <1>2, <2>1, <2>2, <2>3, <2>4, ReadingTells DEF StreamInv
<1>3. CASE RunFails
  <2>1. /\ pc = "decide" /\ pc' = "over" /\ UNCHANGED <<runs, heard>>
        /\ outcome' \in {"none", "errored"}
    BY <1>3 DEF RunFails, End
  <2>2. Erred' <=> Erred
    BY <2>1 DEF Erred, OurPart, OurStart, Starts
  <2> QED BY <2>1, <2>2 DEF SurfaceInv, Latest
<1>4. CASE CancelledRun \/ AnswerRequests \/ FollowUp \/ Complete
  <2>1. /\ pc = "decide" /\ Latest.outcome \notin {"error", "rejected"}
        /\ outcome = "none"
        /\ \/ pc' = "over" /\ heard' = heard
           \/ pc' = "send" /\ heard' = <<>> /\ outcome' = outcome
    BY <1>4 DEF CancelledRun, AnswerRequests, FollowUp, Complete, RunEnded, End, SurfaceInv
  <2>2. ~Erred
    BY <2>1 DEF SurfaceInv
  <2>3. heard' = heard => ~Erred'
    BY <2>2 DEF Erred, OurPart, OurStart, Starts
  <2> QED BY <2>1, <2>3 DEF SurfaceInv
<1>5. CASE RejectScript
  <2>1. pc' = "over" /\ heard' = <<>> /\ outcome' = "errored"
    BY <1>5 DEF RejectScript, End
  <2> QED BY <2>1, NothingHeard DEF SurfaceInv
<1>6. CASE Return
  BY <1>6 DEF Return, SurfaceInv
<1>7. CASE Cancel \/ Expire \/ Stopped \/ UNCHANGED vars
  <2>1. UNCHANGED <<pc, runs, heard, stream, outcome>>
    BY <1>7 DEF Cancel, Expire, Stopped, vars
  <2>2. Starts' = Starts /\ OurStart' = OurStart /\ OurPart' = OurPart
    BY <2>1 DEF OurPart, OurStart, Starts
  <2>3. /\ Echoed' = Echoed /\ Echoes(stream.segments)' = Echoes(stream.segments)
        /\ Erred' = Erred /\ OursIsLast' = OursIsLast
    BY <2>1, <2>2 DEF Echoed, Echoes, Erred, OursIsLast
  <2>4. Reads(stream.segments)' <=> Reads(stream.segments)
    BY <2>1, <2>2, <2>3 DEF Reads
  <2> QED BY <2>1, <2>3, <2>4 DEF SurfaceInv, Latest
<1> QED BY <1>1, <1>2, <1>3, <1>4, <1>5, <1>6, <1>7 DEF Next, Deciding

\* A RUN_ERROR of the requested run is never hidden by a conversation that goes on or
\* ends well, whatever else the response holds (finishGrace, settle).
THEOREM ConversationSurfaces == Spec => []ErrorSurfaces
<1>1. Init => SurfaceInv
  <2> SUFFICES ASSUME Init PROVE SurfaceInv
    OBVIOUS
  <2>1. pc = "send" /\ heard = <<>> /\ outcome = "none"
    BY DEF Init
  <2> QED BY <2>1 DEF SurfaceInv
<1>2. CarryInv /\ StreamInv /\ SurfaceInv /\ [Next]_vars => SurfaceInv'
  BY StepSurfaces
<1>3. SurfaceInv => ErrorSurfaces
  <2> SUFFICES ASSUME SurfaceInv PROVE ErrorSurfaces
    OBVIOUS
  <2>1. pc = "decide" => outcome = "none"
    BY DEF SurfaceInv
  <2> QED BY <2>1 DEF SurfaceInv, ErrorSurfaces, Erred
<1> QED BY StreamInvariant, <1>1, <1>2, <1>3, PTL DEF Spec

-----------------------------------------------------------------------------
(* Reducing: where the calls of a thread come from.                        *)

CallOK(tc) == DOMAIN tc = {"run", "id", "name", "args", "result"}
CallsOK(cs) == IsSeq(cs) /\ \A i \in DOMAIN cs : CallOK(cs[i])
ThreadOK(c) ==
    /\ DOMAIN c = {"history", "calls", "text", "args", "texts", "state", "fresh"}
    /\ CallsOK(c.calls)
ReducingOK(r) ==
    /\ DOMAIN r = {"c", "run", "before", "opened", "roles", "refs", "unpatched"}
    /\ ThreadOK(r.c)

\* The calls ds are the calls cs, and others of a run that ids names.
Kept(cs, ds, run, ids) ==
    /\ CallsOK(ds)
    /\ \A j \in DOMAIN ds : \/ \E i \in DOMAIN cs : cs[i].run = ds[j].run /\ cs[i].id = ds[j].id
                            \/ ds[j].run = run /\ ds[j].id \in ids

LEMMA KeptSame == \A cs, run : CallsOK(cs) => Kept(cs, cs, run, {})
BY DEF Kept

LEMMA KeptAgain ==
    \A cs, ds, es, run, A, B :
        Kept(cs, ds, run, A) /\ Kept(ds, es, run, B) => Kept(cs, es, run, A \cup B)
<1> SUFFICES ASSUME NEW cs, NEW ds, NEW es, NEW run, NEW A, NEW B,
                    Kept(cs, ds, run, A), Kept(ds, es, run, B)
             PROVE  Kept(cs, es, run, A \cup B)
  OBVIOUS
<1>1. CallsOK(es)
  BY DEF Kept
<1>2. ASSUME NEW j \in DOMAIN es
      PROVE  \/ \E i \in DOMAIN cs : cs[i].run = es[j].run /\ cs[i].id = es[j].id
             \/ es[j].run = run /\ es[j].id \in A \cup B
  <2>1. CASE es[j].run = run /\ es[j].id \in B
    BY <2>1
  <2>2. CASE \E k \in DOMAIN ds : ds[k].run = es[j].run /\ ds[k].id = es[j].id
    <3>1. PICK k \in DOMAIN ds : ds[k].run = es[j].run /\ ds[k].id = es[j].id
      BY <2>2
    <3>2. \/ \E i \in DOMAIN cs : cs[i].run = ds[k].run /\ cs[i].id = ds[k].id
          \/ ds[k].run = run /\ ds[k].id \in A
      BY DEF Kept
    <3> QED BY <3>1, <3>2
  <2> QED BY <2>1, <2>2 DEF Kept
<1> QED BY <1>1, <1>2 DEF Kept

LEMMA KeptNew ==
    ASSUME NEW cs, CallsOK(cs), NEW run, NEW id, NEW name, NEW args
    PROVE  Kept(cs, Append(cs, NewCall(run, id, name, args)), run, {id})
<1> DEFINE tc == NewCall(run, id, name, args)
           ds == Append(cs, tc)
           n == Len(cs)
<1>1. CallOK(tc) /\ tc.run = run /\ tc.id = id
  BY DEF CallOK, NewCall
<1> HIDE DEF tc
<1>2. /\ IsSeq(ds) /\ DOMAIN ds = 1 .. n + 1 /\ ds[n + 1] = tc
      /\ \A i \in 1 .. n : ds[i] = cs[i] /\ i \in DOMAIN cs
      /\ n \in Nat
  BY SeqAppend, SeqDomain DEF CallsOK
<1> HIDE DEF ds
<1>3. \A i \in 1 .. n + 1 : i = n + 1 \/ i \in 1 .. n
  BY <1>2
<1>4. CallsOK(ds)
  BY <1>1, <1>2, <1>3 DEF CallsOK
<1>5. \A j \in DOMAIN ds : \/ \E i \in DOMAIN cs : cs[i].run = ds[j].run /\ cs[i].id = ds[j].id
                           \/ ds[j].run = run /\ ds[j].id \in {id}
  BY <1>1, <1>2, <1>3
<1> QED BY <1>4, <1>5 DEF Kept, ds, tc

\* Calls change in place, but for their run and id.
LEMMA KeptChanged ==
    ASSUME NEW cs, CallsOK(cs), NEW ds, NEW run, DOMAIN ds = DOMAIN cs, IsSeq(ds),
           \A i \in DOMAIN cs : /\ DOMAIN ds[i] = DOMAIN cs[i]
                                /\ ds[i].run = cs[i].run /\ ds[i].id = cs[i].id
    PROVE  Kept(cs, ds, run, {})
BY DEF Kept, CallsOK, CallOK

LEMMA KeptResult ==
    ASSUME NEW cs, CallsOK(cs), NEW at, NEW x, NEW run
    PROVE  Kept(cs, [cs EXCEPT ![at].result = x], run, {})
<1> DEFINE ds == [cs EXCEPT ![at].result = x]
<1>1. CASE at \in DOMAIN cs
  <2> DEFINE tc == [cs[at] EXCEPT !.result = x]
  <2>1. ds = [cs EXCEPT ![at] = tc]
    OBVIOUS
  <2>2. DOMAIN tc = DOMAIN cs[at] /\ tc.run = cs[at].run /\ tc.id = cs[at].id
    BY <1>1 DEF CallsOK, CallOK
  <2> HIDE DEF tc
  <2>3. /\ IsSeq(ds) /\ DOMAIN ds = DOMAIN cs /\ ds[at] = tc
        /\ \A i \in DOMAIN cs \ {at} : ds[i] = cs[i]
    BY <1>1, <2>1, SeqExcept, SeqDomain DEF CallsOK
  <2> HIDE DEF ds
  <2>4. \A i \in DOMAIN cs : /\ DOMAIN ds[i] = DOMAIN cs[i]
                             /\ ds[i].run = cs[i].run /\ ds[i].id = cs[i].id
    BY <2>2, <2>3
  <2>5. Kept(cs, ds, run, {})
    BY <2>3, <2>4, KeptChanged
  <2> QED BY <2>5 DEF ds
<1>2. CASE at \notin DOMAIN cs
  <2>1. ds = cs
    BY <1>2 DEF CallsOK, IsSeq
  <2> QED BY <2>1, KeptSame
<1> QED BY <1>1, <1>2

Reduces(r, q, ids) ==
    ReducingOK(q) /\ q.run = r.run /\ Kept(r.c.calls, q.c.calls, r.run, ids)

LEMMA ReducesAgain ==
    \A r, q, s, A, B : Reduces(r, q, A) /\ Reduces(q, s, B) => Reduces(r, s, A \cup B)
BY KeptAgain DEF Reduces

\* A step that leaves the calls alone.
Aside(r, q) ==
    /\ DOMAIN q = DOMAIN r /\ q.run = r.run
    /\ DOMAIN q.c = DOMAIN r.c /\ q.c.calls = r.c.calls

LEMMA AsideReduces == \A r, q : ReducingOK(r) /\ Aside(r, q) => Reduces(r, q, {})
BY KeptSame DEF Reduces, Aside, ReducingOK, ThreadOK

LEMMA ReducesSelf == \A r, ids : ReducingOK(r) => Reduces(r, r, ids)
BY DEF Reduces, ReducingOK, ThreadOK, Kept

LEMMA RefAside == \A r, kind, id : ReducingOK(r) => Aside(r, Ref(r, kind, id))
BY DEF Ref, Aside, ReducingOK

LEMMA OpenMessageAside ==
    \A r, id, role, kind : ReducingOK(r) => Reduces(r, OpenMessage(r, id, role, kind), {})
<1> SUFFICES ASSUME NEW r, NEW id, NEW role, NEW kind, ReducingOK(r)
             PROVE  Reduces(r, OpenMessage(r, id, role, kind), {})
  OBVIOUS
<1>1. PICK q : OpenMessage(r, id, role, kind) = Ref(q, kind, id) /\ Aside(r, q)
  <2> DEFINE c == r.c
             i == Find(c.history, id)
             base == IF i = 0 THEN 0 ELSE c.history[i].len
             q == [r EXCEPT !.c.history = IF i = 0 THEN Append(@, Message(id, role, 0)) ELSE @,
                            !.c.text = WithBuilder(@, id, base),
                            !.opened = @ \cup {id},
                            !.roles = @ @@ (id :> role)]
  <2>1. OpenMessage(r, id, role, kind) = Ref(q, kind, id)
    BY Zenon DEF OpenMessage
  <2>2. Aside(r, q)
    BY DEF Aside, ReducingOK, ThreadOK
  <2> QED BY <2>1, <2>2, Zenon
<1>2. Reduces(r, q, {})
  BY <1>1, AsideReduces
<1>3. Reduces(q, Ref(q, kind, id), {})
  BY <1>2, RefAside, AsideReduces DEF Reduces
<1>4. Reduces(r, Ref(q, kind, id), {} \cup {})
  BY <1>2, <1>3, ReducesAgain
<1> QED BY <1>1, <1>4

LEMMA WriteTextAside ==
    \A r, e, role : ReducingOK(r) => Reduces(r, WriteText(r, e, role), {})
<1> SUFFICES ASSUME NEW r, NEW e, NEW role, ReducingOK(r)
             PROVE  Reduces(r, WriteText(r, e, role), {})
  OBVIOUS
<1>1. PICK q : /\ Reduces(r, q, {})
               /\ WriteText(r, e, role) = [q EXCEPT !.c.text[e.id] = @ + e.delta]
  <2>1. Reduces(r, r, {})
    BY AsideReduces DEF Aside
  <2> QED BY <2>1, OpenMessageAside DEF WriteText
<1>2. Aside(q, WriteText(r, e, role))
  BY <1>1 DEF Aside, Reduces, ReducingOK, ThreadOK
<1>3. Reduces(q, WriteText(r, e, role), {})
  BY <1>1, <1>2, AsideReduces DEF Reduces
<1>4. Reduces(r, WriteText(r, e, role), {} \cup {})
  BY <1>1, <1>3, ReducesAgain
<1> QED BY <1>4

LEMMA WithParentAside ==
    \A r, parent : ReducingOK(r) => /\ Aside(r, WithParent(r, parent).r)
                                    /\ ReducingOK(WithParent(r, parent).r)
<1> SUFFICES ASSUME NEW r, NEW parent, ReducingOK(r)
             PROVE  Aside(r, WithParent(r, parent).r) /\ ReducingOK(WithParent(r, parent).r)
  OBVIOUS
<1> DEFINE id == IF parent # 0 /\ Find(r.c.history, parent) = 0 THEN parent ELSE r.c.fresh + 1
           q == [r EXCEPT !.c.history = Append(@, Message(id, "assistant", 0)),
                          !.c.fresh = IF id > ClientIds THEN id ELSE @,
                          !.opened = @ \cup {id},
                          !.roles = (id :> "assistant") @@ @]
<1>1. WithParent(r, parent).r \in {r, q}
  BY DEF WithParent
<1>2. Aside(r, q)
  BY DEF Aside, ReducingOK, ThreadOK
<1>3. Aside(r, r)
  BY DEF Aside
<1> HIDE DEF q
<1>4. Aside(r, WithParent(r, parent).r)
  BY <1>1, <1>2, <1>3
<1> QED BY <1>4 DEF Aside, ReducingOK, ThreadOK

LEMMA OpenCallReduces ==
    \A r, id, name, parent : ReducingOK(r) => Reduces(r, OpenCall(r, id, name, parent), {id})
<1> SUFFICES ASSUME NEW r, NEW id, NEW name, NEW parent, ReducingOK(r)
             PROVE  Reduces(r, OpenCall(r, id, name, parent), {id})
  OBVIOUS
<1> DEFINE at == CallAt(r.c, id)
           base == IF at = 0 THEN 0 ELSE r.c.calls[at].args
           host == WithParent(r, parent)
           new == [host.r EXCEPT !.c.calls = Append(@, NewCall(r.run, id, name, 0)),
                                 !.c.history[host.at].calls = Append(@, id)]
           known == IF at # 0 THEN r ELSE new
           q == [known EXCEPT !.c.args = WithBuilder(@, id, base)]
<1>1. OpenCall(r, id, name, parent) = Ref(q, "call", id)
  BY Zenon DEF OpenCall
<1>2. Aside(r, host.r) /\ ReducingOK(host.r)
  BY WithParentAside
<1> HIDE DEF host
<1>3. Reduces(r, new, {id})
  <2>1. /\ DOMAIN new = DOMAIN r /\ new.run = r.run /\ DOMAIN new.c = DOMAIN r.c
        /\ new.c.calls = Append(r.c.calls, NewCall(r.run, id, name, 0))
    BY <1>2 DEF Aside, ReducingOK, ThreadOK
  <2> HIDE DEF new
  <2>2. Kept(r.c.calls, new.c.calls, r.run, {id})
    BY <2>1, KeptNew DEF ReducingOK, ThreadOK
  <2>3. CallsOK(new.c.calls)
    BY <2>2 DEF Kept
  <2>4. ReducingOK(new)
    BY <2>1, <2>3, Zenon DEF ReducingOK, ThreadOK
  <2> QED BY <2>1, <2>2, <2>4 DEF Reduces
<1> HIDE DEF new, base, known
<1>4. Reduces(r, known, {id})
  <2>1. Reduces(r, r, {id})
    BY ReducesSelf
  <2> QED BY <1>3, <2>1 DEF known
<1>5. Aside(known, q) /\ ReducingOK(known)
  BY <1>4 DEF Aside, Reduces, ReducingOK, ThreadOK
<1>6. Reduces(known, q, {})
  BY <1>5, AsideReduces
<1> HIDE DEF q
<1>7. Reduces(q, Ref(q, "call", id), {})
  BY <1>6, RefAside, AsideReduces DEF Reduces
<1>8. Reduces(r, Ref(q, "call", id), ({id} \cup {}) \cup {})
  BY <1>4, <1>6, <1>7, ReducesAgain
<1> QED BY <1>1, <1>8

LEMMA WriteArgsReduces == \A r, e : ReducingOK(r) => Reduces(r, WriteArgs(r, e), {e.id})
<1> SUFFICES ASSUME NEW r, NEW e, ReducingOK(r) PROVE Reduces(r, WriteArgs(r, e), {e.id})
  OBVIOUS
<1>1. PICK q : /\ Reduces(r, q, {e.id})
               /\ WriteArgs(r, e) = [q EXCEPT !.c.args[e.id] = @ + e.delta]
  <2>1. Reduces(r, r, {e.id})
    BY ReducesSelf
  <2> QED BY <2>1, OpenCallReduces DEF WriteArgs
<1>2. Aside(q, WriteArgs(r, e))
  BY <1>1 DEF Aside, Reduces, ReducingOK, ThreadOK
<1>3. Reduces(q, WriteArgs(r, e), {})
  BY <1>1, <1>2, AsideReduces DEF Reduces
<1>4. Reduces(r, WriteArgs(r, e), {e.id} \cup {})
  BY <1>1, <1>3, ReducesAgain
<1> QED BY <1>4

LEMMA SetResultReduces == \A r, id : ReducingOK(r) => Reduces(r, SetResult(r, id), {})
<1> SUFFICES ASSUME NEW r, NEW id, ReducingOK(r) PROVE Reduces(r, SetResult(r, id), {})
  OBVIOUS
<1> DEFINE at == CallAt(r.c, id)
           q == [r EXCEPT !.c.calls[at].result = "agent"]
<1>1. SetResult(r, id) \in {r, q}
  BY DEF SetResult
<1>2. Reduces(r, r, {})
  BY AsideReduces DEF Aside
<1>3. Reduces(r, q, {})
  <2>1. /\ DOMAIN q = DOMAIN r /\ q.run = r.run /\ DOMAIN q.c = DOMAIN r.c
        /\ q.c.calls = [r.c.calls EXCEPT ![at].result = "agent"]
    BY DEF ReducingOK, ThreadOK
  <2> HIDE DEF q
  <2>2. PICK cs : cs = r.c.calls /\ CallsOK(cs)
    BY DEF ReducingOK, ThreadOK
  <2> HIDE DEF at
  <2>3. q.c.calls = [cs EXCEPT ![at].result = "agent"]
    BY <2>1, <2>2
  <2>4. Kept(cs, [cs EXCEPT ![at].result = "agent"], r.run, {})
    BY <2>2, KeptResult
  <2> QED BY <2>1, <2>2, <2>3, <2>4 DEF Reduces, ReducingOK, ThreadOK, Kept
<1> HIDE DEF q
<1> QED BY <1>1, <1>2, <1>3

LEMMA ToolResultReduces == \A r, e : ReducingOK(r) => Reduces(r, ToolResult(r, e), {})
<1> SUFFICES ASSUME NEW r, NEW e, ReducingOK(r) PROVE Reduces(r, ToolResult(r, e), {})
  OBVIOUS
<1> DEFINE i == Find(r.c.history, e.message)
           msg == Message(e.message, "tool", e.id)
           kept == [r EXCEPT !.c.history = IF i = 0 THEN Append(@, msg)
                                           ELSE [@ EXCEPT ![i] = msg]]
           q == SetResult(kept, e.id)
<1>1. ToolResult(r, e) = Ref(q, "result", e.id)
  BY Zenon DEF ToolResult
<1>2. Aside(r, kept)
  BY DEF Aside, ReducingOK, ThreadOK
<1> HIDE DEF kept
<1>3. Reduces(r, kept, {})
  BY <1>2, AsideReduces
<1>4. Reduces(kept, q, {})
  BY <1>3, SetResultReduces DEF Reduces
<1> HIDE DEF q
<1>5. Reduces(q, Ref(q, "result", e.id), {})
  BY <1>4, RefAside, AsideReduces DEF Reduces
<1>6. Reduces(r, Ref(q, "result", e.id), ({} \cup {}) \cup {})
  BY <1>3, <1>4, <1>5, ReducesAgain
<1> QED BY <1>1, <1>6

LEMMA ReducesMore == \A r, q, A, B : Reduces(r, q, A) /\ A \subseteq B => Reduces(r, q, B)
BY DEF Reduces, Kept

IdsOf(r) == {r.c.calls[i].id : i \in DOMAIN r.c.calls}

LEMMA ReducesOwn == \A r, q, A : Reduces(r, q, A) => Reduces(r, q, IdsOf(q))
BY DEF Reduces, Kept, IdsOf

\* Step after step.
LEMMA AllReduce ==
    ASSUME NEW n \in Nat, NEW a, NEW B, ReducingOK(a[0]),
           \A i \in 1 .. n : ReducingOK(a[i - 1]) => Reduces(a[i - 1], a[i], B)
    PROVE  Reduces(a[0], a[n], B)
<1> DEFINE G == {i \in 0 .. n : Reduces(a[0], a[i], B)}
<1>1. 0 \in G
  BY ReducesSelf
<1>2. ASSUME NEW i \in 1 .. n, i - 1 \in G PROVE i \in G
  <2>1. Reduces(a[0], a[i - 1], B)
    BY <1>2
  <2>2. Reduces(a[i - 1], a[i], B)
    BY <2>1 DEF Reduces
  <2>3. Reduces(a[0], a[i], B \cup B)
    BY <2>1, <2>2, ReducesAgain
  <2>4. B \cup B = B
    OBVIOUS
  <2>5. Reduces(a[0], a[i], B)
    BY <2>3, <2>4, Zenon
  <2> QED BY <2>5
<1> HIDE DEF G
<1>3. n \in G
  BY <1>1, <1>2, UpTo
<1> QED BY <1>3 DEF G

LEMMA EachReduces ==
    ASSUME NEW n \in Nat, NEW a, ReducingOK(a[0]),
           \A i \in 1 .. n : ReducingOK(a[i - 1]) => \E ids : Reduces(a[i - 1], a[i], ids)
    PROVE  \E ids : Reduces(a[0], a[n], ids)
<1> DEFINE B == UNION {IdsOf(a[i]) : i \in 1 .. n}
<1>1. ASSUME NEW i \in 1 .. n, ReducingOK(a[i - 1]) PROVE Reduces(a[i - 1], a[i], B)
  <2>1. Reduces(a[i - 1], a[i], IdsOf(a[i]))
    BY <1>1, ReducesOwn
  <2>2. IdsOf(a[i]) \subseteq B
    OBVIOUS
  <2> HIDE DEF B
  <2> QED BY <2>1, <2>2, ReducesMore
<1> HIDE DEF B
<1> QED BY <1>1, AllReduce

LEMMA LearnCallReduces ==
    \A r, id, m : ReducingOK(r) => Reduces(r, LearnCall(r, id, m), {id})
<1> SUFFICES ASSUME NEW r, NEW id, NEW m, ReducingOK(r)
             PROVE  Reduces(r, LearnCall(r, id, m), {id})
  OBVIOUS
<1> DEFINE tc == NewCall(r.run, id, m.name, m.len)
           new == [r EXCEPT !.c.calls = Append(@, tc)]
<1>1. PICK q \in {r, new} : LearnCall(r, id, m) = Ref(q, "call", id)
  BY Zenon DEF LearnCall
<1>2. Reduces(r, new, {id})
  <2>1. /\ DOMAIN new = DOMAIN r /\ new.run = r.run /\ DOMAIN new.c = DOMAIN r.c
        /\ new.c.calls = Append(r.c.calls, tc)
    BY DEF ReducingOK, ThreadOK
  <2> HIDE DEF new
  <2>2. Kept(r.c.calls, new.c.calls, r.run, {id})
    BY <2>1, KeptNew DEF ReducingOK, ThreadOK
  <2>3. CallsOK(new.c.calls)
    BY <2>2 DEF Kept
  <2>4. ReducingOK(new)
    BY <2>1, <2>3, Zenon DEF ReducingOK, ThreadOK
  <2> QED BY <2>1, <2>2, <2>4 DEF Reduces
<1> HIDE DEF new
<1>3. Reduces(r, q, {id})
  BY <1>1, <1>2, ReducesSelf
<1>4. Reduces(q, Ref(q, "call", id), {})
  BY <1>3, RefAside, AsideReduces DEF Reduces
<1>5. Reduces(r, Ref(q, "call", id), {id} \cup {})
  BY <1>3, <1>4, ReducesAgain
<1> QED BY <1>1, <1>5

LEMMA LearnReduces ==
    \A r, m : ReducingOK(r) /\ IsSeq(m.calls) => \E ids : Reduces(r, Learn(r, m), ids)
<1> SUFFICES ASSUME NEW r, NEW m, ReducingOK(r), IsSeq(m.calls)
             PROVE  \E ids : Reduces(r, Learn(r, m), ids)
  OBVIOUS
<1> DEFINE kind == IF m.role = "reasoning" THEN "reasoning" ELSE "message"
           told == [r EXCEPT !.c.texts = (m.id :> m.len) @@ @,
                             !.roles = @ @@ (m.id :> m.role)]
           base == IF m.len > 0 THEN Ref(told, kind, m.id) ELSE told
           all == LearnCalls(base, m)
           q == SetResult(r, m.tool)
<1>1. Learn(r, m) \in {r, all, Ref(q, "result", m.tool)}
  BY Zenon DEF Learn
<1>2. Reduces(r, base, {})
  <2>1. Aside(r, told)
    BY DEF Aside, ReducingOK, ThreadOK
  <2> HIDE DEF told
  <2>2. Reduces(r, told, {})
    BY <2>1, AsideReduces
  <2>3. Reduces(told, Ref(told, kind, m.id), {})
    BY <2>2, RefAside, AsideReduces DEF Reduces
  <2>4. Reduces(r, Ref(told, kind, m.id), {} \cup {})
    BY <2>2, <2>3, ReducesAgain
  <2> QED BY <2>2, <2>4
<1> HIDE DEF base
<1>3. \E ids : Reduces(base, all, ids)
  <2>1. Folds(<<"LearnCall", m>>, base, m.calls, all)
    BY LearnCallFold
  <2> HIDE DEF all
  <2> DEFINE n == Len(m.calls)
  <2>2. PICK a : /\ a[0] = base /\ a[n] = all
                 /\ \A i \in 1 .. n : a[i] = LearnCall(a[i - 1], m.calls[i], m)
    BY <2>1 DEF Folds, Step
  <2>3. n \in Nat
    BY SeqDomain
  <2>4. ASSUME NEW i \in 1 .. n, ReducingOK(a[i - 1])
        PROVE  \E ids : Reduces(a[i - 1], a[i], ids)
    <3>1. Reduces(a[i - 1], LearnCall(a[i - 1], m.calls[i], m), {m.calls[i]})
      BY <2>4, LearnCallReduces
    <3>2. a[i] = LearnCall(a[i - 1], m.calls[i], m)
      BY <2>2
    <3> QED BY <3>1, <3>2
  <2>5. ReducingOK(a[0])
    BY <1>2, <2>2 DEF Reduces
  <2> HIDE DEF n
  <2> QED BY <2>2, <2>3, <2>4, <2>5, EachReduces
<1> HIDE DEF all
<1>4. Reduces(r, Ref(q, "result", m.tool), {} \cup {})
  <2>1. Reduces(r, q, {})
    BY SetResultReduces
  <2> HIDE DEF q
  <2>2. Reduces(q, Ref(q, "result", m.tool), {})
    BY <2>1, RefAside, AsideReduces DEF Reduces
  <2> QED BY <2>1, <2>2, ReducesAgain
<1> QED BY <1>1, <1>2, <1>3, <1>4, ReducesAgain, ReducesSelf

LEMMA MaterializeKept ==
    \A c, run : ThreadOK(c) => /\ ThreadOK(Materialize(c))
                               /\ Kept(c.calls, Materialize(c).calls, run, {})
<1> SUFFICES ASSUME NEW c, NEW run, ThreadOK(c)
             PROVE  ThreadOK(Materialize(c)) /\ Kept(c.calls, Materialize(c).calls, run, {})
  OBVIOUS
<1> DEFINE Args(tc) == IF tc.id \in DOMAIN c.args
                       THEN [tc EXCEPT !.args = c.args[tc.id]] ELSE tc
           ds == [i \in DOMAIN c.calls |-> Args(c.calls[i])]
<1>1. DOMAIN Materialize(c) = DOMAIN c /\ Materialize(c).calls = ds
  BY DEF Materialize, ThreadOK
<1>2. /\ IsSeq(c.calls) /\ DOMAIN ds = DOMAIN c.calls
      /\ \A i \in DOMAIN c.calls : CallOK(c.calls[i])
  BY DEF ThreadOK, CallsOK
<1>3. \A tc : CallOK(tc) => /\ DOMAIN Args(tc) = DOMAIN tc
                            /\ Args(tc).run = tc.run /\ Args(tc).id = tc.id
  BY DEF CallOK
<1>4. \A i \in DOMAIN c.calls : ds[i] = Args(c.calls[i])
  OBVIOUS
<1>5. IsSeq(ds)
  <2>1. Len(c.calls) \in Nat /\ DOMAIN c.calls = 1 .. Len(c.calls)
    BY <1>2, SeqDomain
  <2>2. ds = [i \in 1 .. Len(c.calls) |-> ds[i]]
    BY <2>1
  <2> HIDE DEF ds
  <2>3. \A i \in 1 .. Len(c.calls) : ds[i] \in ToSet(ds)
    BY <1>2, <2>1 DEF ToSet
  <2>4. ds \in [1 .. Len(c.calls) -> ToSet(ds)]
    BY <2>2, <2>3
  <2> QED BY <2>1, <2>4 DEF IsSeq
<1> HIDE DEF ds, Args
<1>6. Kept(c.calls, ds, run, {})
  BY <1>2, <1>3, <1>4, <1>5, KeptChanged DEF ThreadOK
<1> QED BY <1>1, <1>6 DEF ThreadOK, Kept

LEMMA SnapshotReduces ==
    \A r, msgs : ReducingOK(r) /\ MessagesOK(msgs) => \E ids : Reduces(r, Snapshot(r, msgs), ids)
<1> SUFFICES ASSUME NEW r, NEW msgs, ReducingOK(r), MessagesOK(msgs)
             PROVE  \E ids : Reduces(r, Snapshot(r, msgs), ids)
  OBVIOUS
<1>1. PICK h : Snapshot(r, msgs)
                   = FoldLeft(Learn, [r EXCEPT !.c = [Materialize(r.c) EXCEPT !.history = h]], msgs)
  BY Zenon DEF Snapshot
<1> DEFINE q == [r EXCEPT !.c = [Materialize(r.c) EXCEPT !.history = h]]
           all == FoldLeft(Learn, q, msgs)
<1>2. Reduces(r, q, {})
  <2>1. ThreadOK(Materialize(r.c)) /\ Kept(r.c.calls, Materialize(r.c).calls, r.run, {})
    BY MaterializeKept DEF ReducingOK
  <2>2. /\ DOMAIN q = DOMAIN r /\ q.run = r.run /\ DOMAIN q.c = DOMAIN r.c
        /\ q.c.calls = Materialize(r.c).calls
    BY <2>1 DEF ReducingOK, ThreadOK
  <2> HIDE DEF q
  <2> QED BY <2>1, <2>2 DEF Reduces, ReducingOK, ThreadOK, Kept
<1>3. \E ids : Reduces(q, all, ids)
  <2> HIDE DEF q
  <2>1. Folds(<<"Learn", 0>>, q, msgs, all)
    BY LearnFold DEF MessagesOK
  <2> HIDE DEF all
  <2> DEFINE n == Len(msgs)
  <2>2. PICK a : /\ a[0] = q /\ a[n] = all
                 /\ \A i \in 1 .. n : a[i] = Learn(a[i - 1], msgs[i])
    BY <2>1 DEF Folds, Step
  <2>3. n \in Nat /\ \A i \in 1 .. n : IsSeq(msgs[i].calls)
    BY SeqDomain DEF MessagesOK
  <2>4. \A i \in 1 .. n : ReducingOK(a[i - 1]) => \E ids : Reduces(a[i - 1], a[i], ids)
    BY <2>2, <2>3, LearnReduces
  <2>5. ReducingOK(a[0])
    BY <1>2, <2>2 DEF Reduces
  <2> HIDE DEF n
  <2> QED BY <2>2, <2>3, <2>4, <2>5, EachReduces
<1> HIDE DEF q, all
<1>4. Snapshot(r, msgs) = all
  BY <1>1 DEF all, q
<1> QED BY <1>2, <1>3, <1>4, ReducesAgain

\* The call an event names, if it can bring one to the thread.
CallIds(e) == IF e.kind = "call" /\ e.type \in {"START", "CONTENT"} THEN {e.id} ELSE {}
CallsOf(events) == UNION {CallIds(events[i]) : i \in DOMAIN events}
Told(events) == \E i \in DOMAIN events : events[i].type = "MESSAGES_SNAPSHOT"

LEMMA ApplyReduces ==
    \A r, e : ReducingOK(r) /\ EventOK(e) =>
        /\ e.type # "MESSAGES_SNAPSHOT" => Reduces(r, Apply(r, e), CallIds(e))
        /\ \E ids : Reduces(r, Apply(r, e), ids)
<1> SUFFICES ASSUME NEW r, NEW e, ReducingOK(r), EventOK(e)
             PROVE  /\ e.type # "MESSAGES_SNAPSHOT" => Reduces(r, Apply(r, e), CallIds(e))
                    /\ \E ids : Reduces(r, Apply(r, e), ids)
  OBVIOUS
<1>1. CASE e.type = "MESSAGES_SNAPSHOT"
  <2>1. Apply(r, e) = Snapshot(r, e.messages)
    BY <1>1 DEF Apply
  <2> QED BY <1>1, <2>1, SnapshotReduces DEF EventOK
<1>2. CASE e.type \in {"START", "CONTENT"} /\ e.kind = "call"
  <2>1. Apply(r, e) \in {OpenCall(r, e.id, e.name, e.parent), WriteArgs(r, e)}
    BY <1>2 DEF Apply
  <2>2. Reduces(r, Apply(r, e), {e.id})
    BY <2>1, OpenCallReduces, WriteArgsReduces
  <2> QED BY <1>2, <2>2 DEF CallIds
<1>3. CASE e.type # "MESSAGES_SNAPSHOT" /\ ~(e.type \in {"START", "CONTENT"} /\ e.kind = "call")
  <2> DEFINE set == [r EXCEPT !.c.state = e.id]
             not == [r EXCEPT !.unpatched = TRUE]
  <2>1. \/ \E id, role, kind : Apply(r, e) = OpenMessage(r, id, role, kind)
        \/ \E role : Apply(r, e) = WriteText(r, e, role)
        \/ Apply(r, e) \in {ToolResult(r, e), set, not, r}
    BY <1>3, Zenon DEF Apply
  <2>2. Reduces(r, set, {}) /\ Reduces(r, not, {}) /\ Reduces(r, r, {})
    <3>1. Aside(r, set) /\ Aside(r, not)
      BY DEF Aside, ReducingOK, ThreadOK
    <3> QED BY <3>1, AsideReduces, ReducesSelf
  <2> HIDE DEF set, not
  <2>3. Reduces(r, Apply(r, e), {})
    BY <2>1, <2>2, OpenMessageAside, WriteTextAside, ToolResultReduces
  <2>4. {} \subseteq CallIds(e)
    OBVIOUS
  <2> QED BY <2>3, <2>4, ReducesMore
<1> QED BY <1>1, <1>2, <1>3

\* The calls of a thread after a run.
LEMMA RunKeeps ==
    ASSUME NEW c, ThreadOK(c), NEW run, NEW events, IsSeq(events),
           \A i \in DOMAIN events : EventOK(events[i])
    PROVE  /\ ThreadOK(ReduceRun(c, run, events).thread)
           /\ \E ids : /\ Kept(c.calls, ReduceRun(c, run, events).thread.calls, run, ids)
                       /\ ~Told(events) => ids = CallsOf(events)
<1> DEFINE r0 == [c |-> c, run |-> run,
                  before |-> {c.history[i].id : i \in DOMAIN c.history},
                  opened |-> {}, roles |-> <<>>, refs |-> <<>>, unpatched |-> FALSE]
           n == Len(events)
           end == FoldLeft(Apply, r0, events)
<1>1. ReduceRun(c, run, events).thread = [end EXCEPT !.c = Materialize(@)].c
  BY DEF ReduceRun, Reduced
<1>2. ReducingOK(r0) /\ r0.c = c /\ r0.run = run
  BY DEF ReducingOK
<1> HIDE DEF r0
<1>3. n \in Nat /\ DOMAIN events = 1 .. n
  BY SeqDomain
<1>4. Folds(<<"Apply", 0>>, r0, events, end)
  BY ApplyFold
<1> HIDE DEF end
<1>5. PICK a : a[0] = r0 /\ a[n] = end /\ \A i \in 1 .. n : a[i] = Apply(a[i - 1], events[i])
  BY <1>4 DEF Folds, Step
<1> HIDE DEF n
<1>6. \E ids : Reduces(r0, end, ids) /\ (~Told(events) => ids = CallsOf(events))
  <2>1. CASE Told(events)
    <3>1. \A i \in 1 .. n : ReducingOK(a[i - 1]) => \E ids : Reduces(a[i - 1], a[i], ids)
      BY <1>3, <1>5, ApplyReduces
    <3> QED BY <1>2, <1>3, <1>5, <2>1, <3>1, EachReduces
  <2>2. CASE ~Told(events)
    <3>1. ASSUME NEW i \in 1 .. n, ReducingOK(a[i - 1])
          PROVE  Reduces(a[i - 1], a[i], CallsOf(events))
      <4>1. Reduces(a[i - 1], a[i], CallIds(events[i]))
        BY <1>3, <1>5, <2>2, <3>1, ApplyReduces DEF Told
      <4>2. CallIds(events[i]) \subseteq CallsOf(events)
        BY <1>3 DEF CallsOf
      <4> QED BY <4>1, <4>2, ReducesMore
    <3>2. Reduces(r0, end, CallsOf(events))
      BY <1>2, <1>3, <1>5, <3>1, AllReduce
    <3> QED BY <3>2
  <2> QED BY <2>1, <2>2
<1>7. PICK ids : Reduces(r0, end, ids) /\ (~Told(events) => ids = CallsOf(events))
  BY <1>6
<1>8. ReducingOK(end) /\ Kept(c.calls, end.c.calls, run, ids)
  BY <1>2, <1>7 DEF Reduces
<1>9. ReduceRun(c, run, events).thread = Materialize(end.c)
  BY <1>1, <1>8 DEF ReducingOK
<1>10. ThreadOK(Materialize(end.c)) /\ Kept(end.c.calls, Materialize(end.c).calls, run, {})
  BY <1>8, MaterializeKept DEF ReducingOK
<1>11. Kept(c.calls, Materialize(end.c).calls, run, ids \cup {})
  BY <1>8, <1>10, KeptAgain
<1>12. ids \cup {} = ids
  OBVIOUS
<1> QED BY <1>7, <1>9, <1>10, <1>11, <1>12

-----------------------------------------------------------------------------
(* Types.                                                                  *)

\* The requested run's part of a response.
PartOf(st) == LET at == Ours(st.segments)
              IN  IF at = 0 THEN NewSegment(0) ELSE st.segments[at]

LEMMA PartOK ==
    ASSUME NEW st, SegmentsOK(st.segments)
    PROVE  SegmentOK(PartOf(st))
<1> DEFINE S == st.segments
           at == Ours(S)
<1>1. /\ Len(S) \in Nat /\ at \in 0 .. Len(S) /\ DOMAIN S = 1 .. Len(S)
  BY OursIs, SeqDomain DEF SegmentsOK
<1>2. at # 0 => SegmentOK(S[at])
  BY <1>1 DEF SegmentsOK
<1>3. PartOf(st) = IF at = 0 THEN NewSegment(0) ELSE S[at]
  BY Zenon DEF PartOf
<1> QED BY <1>2, <1>3, NewSegmentOK

\* What is recorded of a response.
LEMMA SettleTells ==
    ASSUME RunsOK, Len(runs) >= 1, NEW st, Settle(st)
    PROVE  /\ \E r : /\ runs' = WithLast(runs, r) /\ DOMAIN r = DOMAIN NoRun
                     /\ r.outcome = Ending(st, Ours(st.segments))
                     /\ r.items = ReduceRun(thread, Len(runs), PartOf(st).events).items
                     /\ IF r.outcome \in Failures
                        THEN /\ r.interrupts = Latest.interrupts
                             /\ r.pending = Latest.pending /\ r.listed = Latest.listed
                        ELSE /\ r.interrupts = PartOf(st).outcome.interrupts
                             /\ r.pending = PartOf(st).outcome.pending
                             /\ r.listed = PartOf(st).outcome.listed
           /\ thread' = ReduceRun(thread, Len(runs), PartOf(st).events).thread
           /\ \E ps : /\ violations' = violations \cup {<<Len(runs), p[1], p[2]>> : p \in ps}
                      /\ st.ps \subseteq ps /\ (Graded(st.ps) => Graded(ps))
                      /\ Ours(st.segments) < Len(st.segments) => <<"lifecycle", "error">> \in ps
           /\ pc' = "decide" /\ stream' = NoStream
<1> DEFINE k == Len(runs)
           at == Ours(st.segments)
           seg == PartOf(st)
           reduced == ReduceRun(thread, Len(runs), seg.events)
           run == [runs[k] EXCEPT !.outcome = Ending(st, at), !.items = reduced.items]
           ended == [run EXCEPT !.interrupts = seg.outcome.interrupts,
                                !.listed = seg.outcome.listed,
                                !.pending = seg.outcome.pending]
           r == IF Ending(st, at) \in Failures THEN run ELSE ended
           foreign == Problem(at # 0 /\ seg.run \notin {0, OurRun}, "lifecycle", "warning")
           later == Problem(at < Len(st.segments), "lifecycle", "error")
           patch == Problem(reduced.unpatched, "state", "warning")
           ps == st.ps \cup foreign \cup later \cup patch
<1>1. Record(st, at, seg, reduced)
  BY Zenon DEF Settle, PartOf
<1>2. /\ runs' = [runs EXCEPT ![k] = r] /\ thread' = reduced.thread
      /\ violations' = violations \cup {<<k, p[1], p[2]>> : p \in ps}
      /\ pc' = "decide" /\ stream' = NoStream
  BY <1>1, Zenon DEF Record
<1>3. k \in DOMAIN runs /\ DOMAIN runs[k] = DOMAIN NoRun
  BY SeqDomain DEF RunsOK
<1>4. Graded(foreign) /\ Graded(later) /\ Graded(patch)
  BY ProblemGraded, NoProblems
<1>5. at < Len(st.segments) => <<"lifecycle", "error">> \in later
  BY DEF Problem
<1> HIDE DEF foreign, later, patch, seg, at, reduced
<1>6. /\ DOMAIN r = DOMAIN NoRun /\ r.outcome = Ending(st, at) /\ r.items = reduced.items
      /\ IF r.outcome \in Failures
         THEN r.interrupts = runs[k].interrupts /\ r.pending = runs[k].pending
              /\ r.listed = runs[k].listed
         ELSE r.interrupts = seg.outcome.interrupts /\ r.pending = seg.outcome.pending
              /\ r.listed = seg.outcome.listed
  BY <1>3, RunFields
<1> HIDE DEF r
<1>7. st.ps \subseteq ps /\ (Graded(st.ps) => Graded(ps))
      /\ (at < Len(st.segments) => <<"lifecycle", "error">> \in ps)
  BY <1>4, <1>5, BothGraded
<1> HIDE DEF ps
<1>8. runs' = WithLast(runs, r)
  BY <1>2 DEF WithLast
<1> QED BY <1>2, <1>6, <1>7, <1>8 DEF Latest, at, seg, reduced

\* The response a request takes is one of the script's.
LEMMA TakeFrom ==
    ASSUME script \in Scripts, NEW acc, NEW q, acc.used \subseteq DOMAIN script.responses
    PROVE  Take(acc, q).used \subseteq DOMAIN script.responses
<1> DEFINE n == Len(script.responses)
           js == [j \in DOMAIN script.responses |-> j]
           I == {i \in 1 .. Len(js) : /\ Available(acc.used, js[i])
                                      /\ Matches(script.responses[js[i]], q)}
           at == SelectInSeq([j \in DOMAIN script.responses |-> j], LAMBDA j :
                    Available(acc.used, j) /\ Matches(script.responses[j], q))
<1>1. n \in Nat /\ DOMAIN script.responses = 1 .. n
  BY ScriptsAssumption
<1>2. Len(js) = n
  BY <1>1
<1>3. at = IF I # {} THEN Min(I) ELSE 0
  BY Zenon DEF SelectInSeq
<1>4. I \in SUBSET (1 .. n) /\ I \in SUBSET Nat
  BY <1>1, <1>2
<1>5. at = 0 \/ at \in 1 .. n
  <2>1. I # {} => Min(I) \in I
    BY <1>4, SmallestUpTo
  <2> HIDE DEF I
  <2> QED BY <1>3, <1>4, <2>1
<1>6. Take(acc, q).used = IF at = 0 THEN acc.used ELSE acc.used \cup {at}
  BY DEF Take
<1> HIDE DEF at
<1> QED BY <1>1, <1>5, <1>6

LEMMA SeqMapped ==
    ASSUME NEW s, IsSeq(s), NEW t, t = [i \in DOMAIN s |-> t[i]]
    PROVE  IsSeq(t) /\ Len(t) = Len(s) /\ DOMAIN t = DOMAIN s
<1>1. Len(s) \in Nat /\ DOMAIN s = 1 .. Len(s)
  BY SeqDomain
<1>2. DOMAIN t = 1 .. Len(s) /\ t = [i \in 1 .. Len(s) |-> t[i]]
  BY <1>1
<1>3. \A i \in 1 .. Len(s) : t[i] \in ToSet(t)
  BY <1>2 DEF ToSet
<1>4. t \in [1 .. Len(s) -> ToSet(t)]
  BY <1>2, <1>3
<1>5. t \in Seq(ToSet(t)) /\ Len(t) = Len(s)
  BY <1>1, <1>4
<1> QED BY <1>1, <1>2, <1>5 DEF IsSeq

\* The open calls of a run are a sequence, of nothing when none of its calls to
\* declared tools lacks its result.
OpenAt(c, run, i) ==
    c.calls[i].run = run /\ Frontend(c.calls[i]) /\ c.calls[i].result = "none"

LEMMA OpenCallsTell ==
    ASSUME NEW c, IsSeq(c.calls), NEW run
    PROVE  /\ IsSeq(OpenCalls(c, run))
           /\ OpenCalls(c, run) = <<>> => \A i \in DOMAIN c.calls : ~OpenAt(c, run, i)
<1> DEFINE n == Len(c.calls)
           open == OpenCalls(c, run)
<1>1. n \in Nat /\ DOMAIN c.calls = 1 .. n
  BY SeqDomain
<1>7. Folds(<<"AddOpen", run>>, <<>>, c.calls, open)
  BY AddOpenFold
<1>8. \A acc, x : Step(<<"AddOpen", run>>, acc, x) = AddOpen(acc, x, run)
  BY Zenon DEF Step
<1> HIDE DEF open
<1>9. PICK a : /\ a[0] = <<>> /\ a[n] = open
               /\ \A i \in 1 .. n : a[i] = Step(<<"AddOpen", run>>, a[i - 1], c.calls[i])
  BY <1>7, Zenon DEF Folds
<1> HIDE DEF n
<1>2. /\ a[0] = <<>> /\ a[n] = open
      /\ \A i \in 1 .. n : a[i] = AddOpen(a[i - 1], c.calls[i], run)
  BY <1>8, <1>9
<1> DEFINE G == {i \in 0 .. n : /\ IsSeq(a[i])
                                /\ (\E j \in 1 .. i : OpenAt(c, run, j)) => Len(a[i]) > 0}
<1>3. 0 \in G
  BY <1>1, <1>2, SeqEmpty
<1>4. ASSUME NEW i \in 1 .. n, i - 1 \in G PROVE i \in G
  <2> DEFINE b == a[i - 1]
  <2>1. IsSeq(b) /\ Len(b) \in Nat /\ ((\E j \in 1 .. i - 1 : OpenAt(c, run, j)) => Len(b) > 0)
    BY <1>4, SeqDomain
  <2>2. a[i] = IF OpenAt(c, run, i) THEN Append(b, c.calls[i].id) ELSE b
    BY <1>2 DEF AddOpen, OpenAt
  <2>3. i \in Nat /\ i \in 0 .. n /\ \A j \in 1 .. i : j = i \/ j \in 1 .. i - 1
    BY <1>1
  <2> HIDE DEF b
  <2>4. IsSeq(a[i]) /\ (OpenAt(c, run, i) => Len(a[i]) = Len(b) + 1)
        /\ (~OpenAt(c, run, i) => a[i] = b)
    BY <2>1, <2>2, SeqAppend
  <2>5. (\E j \in 1 .. i : OpenAt(c, run, j)) => Len(a[i]) > 0
    BY <2>1, <2>3, <2>4
  <2> QED BY <2>3, <2>4, <2>5
<1> HIDE DEF G
<1>5. n \in G
  BY <1>1, <1>3, <1>4, UpTo
<1>6. IsSeq(open) /\ ((\E j \in 1 .. n : OpenAt(c, run, j)) => Len(open) > 0)
  BY <1>2, <1>5 DEF G
<1> QED BY <1>1, <1>6, SeqEmpty DEF open

FormInv ==
    /\ script \in Scripts
    /\ ctx \in {"live", "cancelled"} /\ expired \in BOOLEAN
    /\ pc \in {"send", "reading", "decide", "over", "returned"}
    /\ used \subseteq DOMAIN script.responses /\ turns \in 0 .. script.followUps
    /\ outcome \in {"none", "completed", "awaiting_input", "max_turns", "cancelled", "errored"}
    /\ answer \in {"pending", "error", "failed", "session"}
    /\ ThreadOK(thread)
    /\ \A k \in DOMAIN runs : IsSeq(runs[k].interrupts) /\ IsSeq(runs[k].pending)
    /\ \A p \in violations : p[1] \in DOMAIN runs /\ p[3] \in Severities

LEMMA AddMessageThread ==
    \A c, role, tool : ThreadOK(c) => /\ ThreadOK(AddMessage(c, role, tool))
                                      /\ AddMessage(c, role, tool).calls = c.calls
BY DEF ThreadOK, AddMessage

LEMMA AnswerCallThread ==
    \A c, q : ThreadOK(c) => /\ ThreadOK(AnswerCall(c, q))
                             /\ \A run : Kept(c.calls, AnswerCall(c, q).calls, run, {})
<1> SUFFICES ASSUME NEW c, NEW q, ThreadOK(c)
             PROVE  /\ ThreadOK(AnswerCall(c, q))
                    /\ \A run : Kept(c.calls, AnswerCall(c, q).calls, run, {})
  OBVIOUS
<1> DEFINE m == AddMessage(c, "tool", q.id)
           at == CallAt(c, q.id)
           ds == [c.calls EXCEPT ![at].result = "client"]
<1>1. ThreadOK(m) /\ m.calls = c.calls
  BY AddMessageThread
<1>2. AnswerCall(c, q) = [m EXCEPT !.calls[at].result = "client"]
  BY DEF AnswerCall
<1> HIDE DEF m, at
<1>3. DOMAIN AnswerCall(c, q) = DOMAIN m /\ AnswerCall(c, q).calls = ds
  BY <1>1, <1>2 DEF ThreadOK
<1>4. \A run : Kept(c.calls, ds, run, {})
  BY KeptResult DEF ThreadOK
<1> HIDE DEF ds
<1> QED BY <1>1, <1>3, <1>4 DEF ThreadOK, Kept

LEMMA AnswersThread ==
    ASSUME NEW c, ThreadOK(c), NEW qs, IsSeq(qs), NEW run
    PROVE  /\ ThreadOK(FoldLeft(AnswerCall, c, qs))
           /\ Kept(c.calls, FoldLeft(AnswerCall, c, qs).calls, run, {})
<1> DEFINE n == Len(qs)
           all == FoldLeft(AnswerCall, c, qs)
<1>1. n \in Nat
  BY SeqDomain
<1>2. Folds(<<"AnswerCall", 0>>, c, qs, all)
  BY AnswerCallFold
<1> HIDE DEF all
<1>3. PICK a : /\ a[0] = c /\ a[n] = all
               /\ \A i \in 1 .. n : a[i] = AnswerCall(a[i - 1], qs[i])
  BY <1>2 DEF Folds, Step
<1> HIDE DEF n
<1> DEFINE G == {i \in 0 .. n : ThreadOK(a[i]) /\ Kept(c.calls, a[i].calls, run, {})}
<1>4. 0 \in G
  BY <1>1, <1>3, KeptSame DEF ThreadOK
<1>5. ASSUME NEW i \in 1 .. n, i - 1 \in G PROVE i \in G
  <2>1. ThreadOK(a[i - 1]) /\ Kept(c.calls, a[i - 1].calls, run, {}) /\ i \in 0 .. n
    BY <1>1, <1>5
  <2>2. ThreadOK(a[i]) /\ Kept(a[i - 1].calls, a[i].calls, run, {})
    BY <1>3, <2>1, AnswerCallThread
  <2>3. Kept(c.calls, a[i].calls, run, {} \cup {})
    BY <2>1, <2>2, KeptAgain
  <2> QED BY <2>1, <2>2, <2>3
<1> HIDE DEF G
<1>6. n \in G
  BY <1>1, <1>4, <1>5, UpTo
<1> QED BY <1>3, <1>6 DEF G, all

LEMMA AskedSeq ==
    ASSUME RunsOK, Len(runs) >= 1, FormInv
    PROVE  IsSeq(Asked)
<1>1. Len(runs) \in DOMAIN runs
  BY SeqDomain DEF RunsOK
<1>2. IsSeq(Latest.interrupts) /\ IsSeq(Latest.pending) /\ IsSeq(thread.calls)
  BY <1>1 DEF FormInv, Latest, ThreadOK, CallsOK
<1>3. IsSeq(PendingCalls)
  BY <1>2, OpenCallsTell, Zenon DEF PendingCalls
<1>4. CASE Latest.outcome = "interrupt"
  <2>1. DOMAIN Asked = DOMAIN Latest.interrupts /\ Asked = [i \in DOMAIN Latest.interrupts |-> Asked[i]]
    BY <1>4 DEF Asked
  <2> QED BY <1>2, <2>1, SeqMapped
<1>5. CASE Latest.outcome # "interrupt"
  <2>1. DOMAIN Asked = DOMAIN PendingCalls /\ Asked = [i \in DOMAIN PendingCalls |-> Asked[i]]
    BY <1>5 DEF Asked
  <2> QED BY <1>3, <2>1, SeqMapped
<1> QED BY <1>4, <1>5

LEMMA TakeAllFrom ==
    ASSUME script \in Scripts, used \subseteq DOMAIN script.responses, NEW qs, IsSeq(qs)
    PROVE  TakeAll(qs).used \subseteq DOMAIN script.responses
<1> DEFINE n == Len(qs)
           base == [used |-> used, taken |-> <<>>]
           all == FoldLeft(Take, base, qs)
<1>1. n \in Nat /\ base.used = used
  BY SeqDomain
<1>2. TakeAll(qs) = all
  BY DEF TakeAll
<1> HIDE DEF base
<1>3. Folds(<<"Take", 0>>, base, qs, all)
  BY TakeFold
<1> HIDE DEF all
<1>4. PICK a : a[0] = base /\ a[n] = all /\ \A i \in 1 .. n : a[i] = Take(a[i - 1], qs[i])
  BY <1>3 DEF Folds, Step
<1> HIDE DEF n
<1> DEFINE G == {i \in 0 .. n : a[i].used \subseteq DOMAIN script.responses}
<1>5. 0 \in G
  BY <1>1, <1>4
<1>6. ASSUME NEW i \in 1 .. n, i - 1 \in G PROVE i \in G
  <2>1. Take(a[i - 1], qs[i]).used \subseteq DOMAIN script.responses
    BY <1>6, TakeFrom
  <2> QED BY <1>1, <1>4, <2>1
<1> HIDE DEF G
<1>7. n \in G
  BY <1>1, <1>5, <1>6, UpTo
<1> QED BY <1>2, <1>4, <1>7 DEF G

LEMMA LastOrBefore == \A n \in Nat : \A i \in 1 .. n : i = n \/ i \in 1 .. n - 1
OBVIOUS

LEMMA EmptyOK == ThreadOK(EmptyThread)
<1>1. EmptyThread.calls = <<>>
  BY DEF EmptyThread
<1>2. DOMAIN EmptyThread = {"history", "calls", "text", "args", "texts", "state", "fresh"}
  BY DEF EmptyThread
<1>3. CallsOK(<<>>)
  BY SeqEmpty DEF CallsOK
<1> QED BY <1>1, <1>2, <1>3 DEF ThreadOK

LEMMA InitForm == Init => FormInv
<1> SUFFICES ASSUME Init PROVE FormInv
  OBVIOUS
<1>2. ThreadOK(thread)
  BY EmptyOK, AddMessageThread DEF Init
<1>3. DOMAIN runs = {} /\ violations = {} /\ used = {}
  BY SeqEmpty DEF Init
<1>4. script \in Scripts /\ turns = 0 /\ script.followUps \in Nat
  BY ScriptsAssumption DEF Init
<1>5. /\ ctx = "live" /\ expired = FALSE /\ pc = "send" /\ outcome = "none"
      /\ answer = "pending"
  BY DEF Init
<1>6. turns \in 0 .. script.followUps
  BY <1>4
<1> QED BY <1>2, <1>3, <1>4, <1>5, <1>6 DEF FormInv

\* The recorded run has the form of a run, and so have the problems found in it.
LEMMA SettledForm ==
    ASSUME CarryInv, StreamInv, FormInv, pc = "reading", Settled
    PROVE  /\ ThreadOK(thread')
           /\ \A k \in DOMAIN runs' : IsSeq(runs'[k].interrupts) /\ IsSeq(runs'[k].pending)
           /\ \A p \in violations' : p[1] \in DOMAIN runs' /\ p[3] \in Severities
           /\ DOMAIN runs' = DOMAIN runs
<1>1. PICK st : Settle(st) /\ Graded(st.ps) /\ st.segments = stream.segments
  BY DEF Settled
<1>2. RunsOK /\ Len(runs) >= 1 /\ Len(runs) \in Nat /\ DOMAIN runs = 1 .. Len(runs)
  BY NextRun DEF CarryInv, OnItsWay
<1>3. SegmentOK(PartOf(st))
  BY <1>1, PartOK DEF StreamInv, Reader, StreamOK
<1>4. PICK r : /\ runs' = WithLast(runs, r)
               /\ IF r.outcome \in Failures
                  THEN r.interrupts = Latest.interrupts /\ r.pending = Latest.pending
                  ELSE /\ r.interrupts = PartOf(st).outcome.interrupts
                       /\ r.pending = PartOf(st).outcome.pending
  BY <1>1, <1>2, SettleTells
<1>5. IsSeq(r.interrupts) /\ IsSeq(r.pending)
  BY <1>2, <1>3, <1>4 DEF SegmentOK, OutcomeOK, FormInv, Latest
<1>6. /\ DOMAIN runs' = 1 .. Len(runs) /\ runs'[Len(runs)] = r
      /\ \A i \in 1 .. Len(runs) - 1 : runs'[i] = runs[i]
  BY <1>2, <1>4, SeqLast DEF RunsOK
<1>7. \A i \in 1 .. Len(runs) : i = Len(runs) \/ i \in 1 .. Len(runs) - 1
  <2>1. Len(runs) \in Nat
    BY <1>2, Zenon
  <2> QED BY <2>1, LastOrBefore
<1>8. \A k \in DOMAIN runs' : IsSeq(runs'[k].interrupts) /\ IsSeq(runs'[k].pending)
  BY <1>2, <1>5, <1>6, <1>7, Zenon DEF FormInv
<1>9. ThreadOK(thread')
  <2>1. thread' = ReduceRun(thread, Len(runs), PartOf(st).events).thread
    BY <1>1, <1>2, SettleTells
  <2>2. IsSeq(PartOf(st).events) /\ \A i \in DOMAIN PartOf(st).events : EventOK(PartOf(st).events[i])
    BY <1>3 DEF SegmentOK
  <2>3. ThreadOK(ReduceRun(thread, Len(runs), PartOf(st).events).thread)
    BY <2>2, RunKeeps DEF FormInv
  <2> QED BY <2>1, <2>3
<1>10. \A p \in violations' : p[1] \in DOMAIN runs' /\ p[3] \in Severities
  <2>1. PICK ps : /\ violations' = violations \cup {<<Len(runs), p[1], p[2]>> : p \in ps}
                  /\ Graded(ps)
    BY <1>1, <1>2, SettleTells
  <2>2. Len(runs) \in DOMAIN runs'
    BY <1>2, <1>6
  <2> QED BY <1>2, <1>6, <2>1, <2>2 DEF Graded, FormInv
<1> QED BY <1>2, <1>6, <1>8, <1>9, <1>10

LEMMA StepForm ==
    ASSUME CarryInv, StreamInv, FormInv, [Next]_vars
    PROVE  FormInv'
<1> USE DEF client, contexts
<1>0. Len(runs) \in Nat /\ DOMAIN runs = 1 .. Len(runs) /\ RunsOK
  BY NextRun DEF CarryInv
<1>1. CASE UNCHANGED <<script, used, turns, thread, runs, violations>>
           /\ ctx' \in {"live", "cancelled"} /\ expired' \in BOOLEAN
           /\ pc' \in {"send", "reading", "decide", "over", "returned"}
           /\ outcome' \in {"none", "completed", "awaiting_input", "max_turns", "cancelled",
                            "errored"}
           /\ answer' \in {"pending", "error", "failed", "session"}
  BY <1>1 DEF FormInv
<1>2. CASE Cancel \/ Expire \/ Stopped \/ UNCHANGED vars \/ RunFails \/ CancelledRun \/ Complete
  <2>1. UNCHANGED <<script, used, turns, thread, runs, violations>>
    BY <1>2 DEF Cancel, Expire, Stopped, vars, RunFails, CancelledRun, Complete
  <2>2. ctx' \in {"live", "cancelled"} /\ expired' \in BOOLEAN /\ answer' = answer
    BY <1>2 DEF Cancel, Expire, Stopped, vars, RunFails, CancelledRun, Complete, FormInv
  <2>3. \/ pc' = pc /\ outcome' = outcome
        \/ pc' = "over" /\ outcome' \in {"none", "errored", "cancelled", "completed"}
    BY <1>2 DEF Cancel, Expire, Stopped, vars, RunFails, CancelledRun, Complete, End
  <2> QED BY <1>1, <2>1, <2>2, <2>3 DEF FormInv
<1>3. CASE Return
  <2>1. UNCHANGED <<script, used, turns, thread, runs, violations, ctx, expired, outcome>>
        /\ pc' = "returned"
    BY <1>3 DEF Return
  <2>2. answer' \in {"error", "failed", "session"}
    BY <1>3, Zenon DEF Return
  <2> QED BY <1>1, <2>1, <2>2 DEF FormInv
<1>4. CASE RejectScript
  <2>1. ThreadOK(thread')
    BY <1>4, EmptyOK DEF RejectScript
  <2>2. UNCHANGED <<script, used, turns, runs, violations, ctx, expired, answer>>
        /\ pc' = "over" /\ outcome' = "errored"
    BY <1>4 DEF RejectScript, End
  <2> QED BY <2>1, <2>2 DEF FormInv
<1>5. CASE Post
  <2>1. /\ UNCHANGED <<script, used, turns, ctx, expired, thread, violations, outcome, answer>>
        /\ pc' \in {"decide", "reading"}
    BY <1>5, PostTells
  <2>2. PICK r : runs' = Append(runs, r) /\ r.interrupts = <<>> /\ r.pending = <<>>
    <3> DEFINE refused == [NoRun EXCEPT !.outcome = "rejected", !.sent = sent,
                                        !.resume = resume]
               accepted == [NoRun EXCEPT !.sent = sent, !.resume = resume]
    <3>1. runs' = Append(runs, refused) \/ runs' = Append(runs, accepted)
      BY <1>5, Zenon DEF Post, PostRefused, PostAccepted
    <3>2. /\ refused.interrupts = <<>> /\ refused.pending = <<>>
          /\ accepted.interrupts = <<>> /\ accepted.pending = <<>>
      BY DEF NoRun
    <3> HIDE DEF refused, accepted
    <3> QED BY <3>1, <3>2
  <2>3. /\ DOMAIN runs' = 1 .. Len(runs) + 1 /\ runs'[Len(runs) + 1] = r
        /\ \A i \in 1 .. Len(runs) : runs'[i] = runs[i]
    BY <1>0, <2>2, SeqAppend DEF RunsOK
  <2>4. \A i \in 1 .. Len(runs) + 1 : i = Len(runs) + 1 \/ i \in 1 .. Len(runs)
    BY <1>0
  <2>5. \A k \in DOMAIN runs' : IsSeq(runs'[k].interrupts) /\ IsSeq(runs'[k].pending)
    BY <1>0, <2>2, <2>3, <2>4, SeqEmpty DEF FormInv
  <2>6. DOMAIN runs \subseteq DOMAIN runs'
    BY <1>0, <2>3
  <2> QED BY <2>1, <2>5, <2>6 DEF FormInv
<1>6. CASE Reading
  <2>1. /\ UNCHANGED <<script, ctx, expired, used, turns, outcome, answer>>
        /\ pc = "reading"
    BY <1>6, ReadingRuns
  <2>2. CASE UNCHANGED <<pc, thread, runs, violations>>
    BY <1>1, <2>1, <2>2 DEF FormInv
  <2>3. CASE Settled
    <3>1. pc' = "decide"
      BY <2>3, SettledTells
    <3> QED BY <2>1, <2>3, <3>1, SettledForm DEF FormInv
  <2> QED BY <1>6, <2>1, <2>2, <2>3, ReadingTells DEF StreamInv
<1>7. CASE AnswerRequests
  <2>1. /\ UNCHANGED <<script, ctx, expired, turns, runs, violations, answer>>
        /\ pc = "decide" /\ used' = TakeAll(Asked).used
    BY <1>7 DEF AnswerRequests
  <2>2. IsSeq(Asked)
    BY <1>0, <2>1, AskedSeq DEF CarryInv, OnItsWay
  <2>3. used' \subseteq DOMAIN script.responses
    BY <2>1, <2>2, TakeAllFrom DEF FormInv
  <2>4. thread' = thread \/ thread' = FoldLeft(AnswerCall, thread, Asked)
    BY <1>7, Zenon DEF AnswerRequests
  <2>5. ThreadOK(thread')
    BY <2>2, <2>4, AnswersThread DEF FormInv
  <2>6. \/ pc' = "send" /\ outcome' = outcome
        \/ pc' = "over" /\ outcome' \in {"max_turns", "awaiting_input"}
    BY <1>7, Zenon DEF AnswerRequests, End
  <2> QED BY <2>1, <2>3, <2>5, <2>6 DEF FormInv
<1>8. CASE FollowUp
  <2>1. /\ UNCHANGED <<script, ctx, expired, used, runs, violations, answer>>
        /\ \/ pc' = "send" /\ outcome' = outcome
           \/ pc' = "over" /\ outcome' = "max_turns"
    BY <1>8 DEF FollowUp, End
  <2>2. thread' = thread \/ thread' = AddMessage(thread, "user", 0)
    BY <1>8 DEF FollowUp
  <2>3. ThreadOK(thread')
    BY <2>2, AddMessageThread DEF FormInv
  <2>4. turns < script.followUps /\ turns' \in {turns, turns + 1}
    BY <1>8 DEF FollowUp
  <2>5. script.followUps \in Nat
    BY ScriptsAssumption DEF FormInv
  <2>6. turns' \in 0 .. script.followUps
    BY <2>4, <2>5 DEF FormInv
  <2> QED BY <2>1, <2>3, <2>6 DEF FormInv
<1> QED BY <1>2, <1>3, <1>4, <1>5, <1>6, <1>7, <1>8 DEF Next, Deciding

\* A conversation's memory keeps its form, and no conversation runs longer than
\* MaxRuns (converse.go:246).
THEOREM ConversationTypes == Spec => []TypeOK
<1>1. CarryInv /\ StreamInv /\ FormInv => TypeOK
  <2> SUFFICES ASSUME CarryInv, StreamInv, FormInv PROVE TypeOK
    OBVIOUS
  <2>1. \A h \in hitl : h.run \in DOMAIN runs /\ h.kind \in ResponseKinds
    BY NextRun DEF CarryInv, RequestsOK
  <2> QED BY <2>1 DEF StreamInv, FormInv, TypeOK, Severities
<1>2. CarryInv /\ StreamInv /\ FormInv /\ [Next]_vars => FormInv'
  BY StepForm
<1> QED BY <1>1, <1>2, InitForm, StreamInvariant, PTL DEF Spec

-----------------------------------------------------------------------------
(* Following the calls of a run through the validator.                     *)

Clean(ps) == \A p \in ps : p[2] # "error"

CallsKnown(v) == \A k \in DOMAIN v.items : k[1] = "call" => k[2] \in v.calls

LEMMA NotClean == \A rule : ~Clean({<<rule, "error">>})
BY DEF Clean

LEMMA CleanProblem == \A holds, rule : Clean(Problem(holds, rule, "error")) => ~holds
BY DEF Clean, Problem

LEMMA CleanBoth == \A ps, qs : Clean(ps \cup qs) => Clean(ps) /\ Clean(qs)
BY DEF Clean

LEMMA CleanLess == \A ps, qs : Clean(ps) /\ qs \subseteq ps => Clean(qs)
BY DEF Clean

LEMMA StartItemTells ==
    ASSUME NEW v, ValidatorOK(v), CallsKnown(v), NEW e
    PROVE  /\ CallsKnown(StartItem(v, e).v)
           /\ StartItem(v, e).v.phase = v.phase /\ StartItem(v, e).v.results = v.results
           /\ StartItem(v, e).v.calls = IF e.kind = "call" THEN v.calls \cup {e.id} ELSE v.calls
<1> DEFINE w == StartItem(v, e).v
<1>1. PICK y : w = [v EXCEPT !.calls = IF e.kind = "call" THEN @ \cup {e.id} ELSE @, !.items = y]
               /\ (y = v.items \/ \E x : y = Put(v.items, Key(e), x))
  BY Zenon DEF StartItem
<1>2. /\ w.phase = v.phase /\ w.results = v.results /\ w.items = y
      /\ w.calls = IF e.kind = "call" THEN v.calls \cup {e.id} ELSE v.calls
  BY <1>1, ValidatorFields DEF ValidatorOK
<1> HIDE DEF w
<1>3. \A k \in DOMAIN y : k \in DOMAIN v.items \/ k = Key(e)
  BY <1>1 DEF Put
<1>4. Key(e)[1] = e.kind /\ Key(e)[2] = e.id
  BY DEF Key
<1>5. CallsKnown(w)
  BY <1>2, <1>3, <1>4 DEF CallsKnown
<1> QED BY <1>2, <1>5 DEF w

LEMMA EndItemTells ==
    ASSUME NEW v, ValidatorOK(v), CallsKnown(v), NEW e
    PROVE  /\ CallsKnown(EndItem(v, e).v)
           /\ EndItem(v, e).v.phase = v.phase /\ EndItem(v, e).v.results = v.results
           /\ EndItem(v, e).v.calls = v.calls
<1> DEFINE w == EndItem(v, e).v
           shut == [v EXCEPT !.items[Key(e)].open = FALSE]
<1>1. w = v \/ w = shut
  BY Zenon DEF EndItem
<1>2. /\ shut.phase = v.phase /\ shut.results = v.results /\ shut.calls = v.calls
      /\ DOMAIN shut.items = DOMAIN v.items
  BY ValidatorFields DEF ValidatorOK
<1> HIDE DEF shut, w
<1> QED BY <1>1, <1>2 DEF w, CallsKnown

\* A call in the run's items has been started; a piece of any other is a problem.
LEMMA PairTells ==
    ASSUME NEW v, ValidatorOK(v), CallsKnown(v), NEW e
    PROVE  /\ CallsKnown(Pair(v, e).v) /\ Pair(v, e).v.phase = v.phase
           /\ v.calls \subseteq Pair(v, e).v.calls
           /\ Pair(v, e).v.results \subseteq
                  v.results \cup IF e.type = "TOOL_CALL_RESULT" THEN {e.id} ELSE {}
           /\ Clean(Pair(v, e).ps) => CallIds(e) \subseteq Pair(v, e).v.calls
<1>1. CASE e.type = "START"
  <2>1. Pair(v, e) = StartItem(v, e)
    BY <1>1 DEF Pair
  <2>2. /\ CallsKnown(Pair(v, e).v) /\ Pair(v, e).v.phase = v.phase
        /\ Pair(v, e).v.results = v.results
        /\ Pair(v, e).v.calls = IF e.kind = "call" THEN v.calls \cup {e.id} ELSE v.calls
    BY <2>1, StartItemTells
  <2>3. CallIds(e) = IF e.kind = "call" THEN {e.id} ELSE {}
    BY <1>1 DEF CallIds
  <2>4. CallIds(e) \subseteq Pair(v, e).v.calls /\ v.calls \subseteq Pair(v, e).v.calls
    BY <2>2, <2>3
  <2> QED BY <2>2, <2>4
<1>2. CASE e.type = "CONTENT"
  <2>1. Pair(v, e) = ContinueItem(v, e)
    BY <1>2 DEF Pair
  <2>2. /\ ContinueItem(v, e).v = v
        /\ \E h : ContinueItem(v, e).ps = Problem(~IsOpen(v, Key(e)), "pairing", "error")
                                          \cup Problem(h, "chunk", "error")
    BY DEF ContinueItem
  <2>3. Clean(ContinueItem(v, e).ps) => IsOpen(v, Key(e))
    BY <2>2, CleanBoth, CleanProblem
  <2>4. IsOpen(v, Key(e)) => CallIds(e) \subseteq v.calls
    BY DEF IsOpen, CallsKnown, CallIds, Key
  <2>5. Pair(v, e).v = v /\ (Clean(Pair(v, e).ps) => CallIds(e) \subseteq v.calls)
    BY <2>1, <2>2, <2>3, <2>4
  <2> QED BY <2>5
<1>3. CASE e.type = "END"
  <2>1. Pair(v, e) = EndItem(v, e)
    BY <1>3 DEF Pair
  <2> QED BY <1>3, <2>1, EndItemTells DEF CallIds
<1>4. CASE e.type \notin {"START", "CONTENT", "END"}
  <2> DEFINE w == Pair(v, e).v
  <2>2. CASE e.type = "TOOL_CALL_RESULT"
    <3>1. w = [v EXCEPT !.results = @ \cup {e.id}]
      BY <2>2 DEF Pair
    <3>2. /\ w.items = v.items /\ w.phase = v.phase /\ w.calls = v.calls
          /\ w.results = v.results \cup {e.id}
      BY <3>1, ValidatorFields DEF ValidatorOK
    <3> HIDE DEF w
    <3>3. CallIds(e) = {}
      BY <2>2 DEF CallIds
    <3> QED BY <2>2, <3>2, <3>3 DEF w, CallsKnown
  <2>3. CASE e.type # "TOOL_CALL_RESULT"
    <3>1. w \in {v, [v EXCEPT !.steps = @ \cup {e.id}], [v EXCEPT !.steps = @ \ {e.id}],
                 [v EXCEPT !.activities = @ \cup {e.id}]}
      BY <1>4, <2>3 DEF Pair
    <3>2. /\ w.items = v.items /\ w.phase = v.phase /\ w.calls = v.calls
          /\ w.results = v.results
      BY <3>1, ValidatorFields DEF ValidatorOK
    <3> HIDE DEF w
    <3>3. CallIds(e) = {}
      BY <1>4 DEF CallIds
    <3> QED BY <2>3, <3>2, <3>3 DEF w, CallsKnown
  <2> QED BY <2>2, <2>3
<1> QED BY <1>1, <1>2, <1>3, <1>4

\* The outcome says that nothing is pending.
NothingPending(o) == o.type = "success" /\ o.listed /\ o.pending = <<>>

LEMMA CheckStart ==
    \A v, e : e.type = "RUN_STARTED" =>
        LET w == Check(v, e).v
        IN  w.phase = "active" /\ w.items = <<>> /\ w.calls = {} /\ w.results = {}
<1> SUFFICES ASSUME NEW v, NEW e, e.type = "RUN_STARTED"
             PROVE  LET w == Check(v, e).v
                    IN  w.phase = "active" /\ w.items = <<>> /\ w.calls = {} /\ w.results = {}
  OBVIOUS
<1>1. Check(v, e).v = [NewValidator EXCEPT !.phase = "active", !.run = e.id]
  BY DEF Check
<1> QED BY <1>1 DEF NewValidator

LEMMA CheckMore ==
    ASSUME NEW v, ValidatorOK(v), CallsKnown(v), NEW e, e.type # "RUN_STARTED"
    PROVE  /\ CallsKnown(Check(v, e).v) /\ v.calls \subseteq Check(v, e).v.calls
           /\ e.type \in Lifecycle =>
                 /\ Check(v, e).v.phase # "active" /\ Check(v, e).v.calls = v.calls
                 /\ Check(v, e).v.results = v.results
           /\ e.type = "RUN_FINISHED" /\ Clean(Check(v, e).ps) /\ NothingPending(e.outcome) =>
                 v.calls \subseteq v.results
           /\ e.type \notin Lifecycle => Check(v, e).v.phase = v.phase
           /\ e.type \notin Lifecycle /\ v.phase # "active" =>
                 Check(v, e).v = v /\ ~Clean(Check(v, e).ps)
           /\ e.type \notin Lifecycle /\ v.phase = "active" =>
                 /\ Clean(Check(v, e).ps) => CallIds(e) \subseteq Check(v, e).v.calls
                 /\ Check(v, e).v.results \subseteq
                        v.results \cup IF e.type = "TOOL_CALL_RESULT" THEN {e.id} ELSE {}
<1>1. CASE e.type = "RUN_FINISHED"
  <2>1. Check(v, e) = Finish(v, e)
    BY <1>1 DEF Check
  <2>2. Finish(v, e).v = [v EXCEPT !.phase = "finished"]
    BY DEF Finish
  <2>3. /\ Check(v, e).v.items = v.items /\ Check(v, e).v.calls = v.calls
        /\ Check(v, e).v.results = v.results /\ Check(v, e).v.phase = "finished"
    BY <2>1, <2>2, ValidatorFields DEF ValidatorOK
  <2>4. Clean(Finish(v, e).ps) /\ NothingPending(e.outcome) => v.calls \subseteq v.results
    <3> SUFFICES ASSUME Clean(Finish(v, e).ps), NothingPending(e.outcome)
                 PROVE  v.calls \subseteq v.results
      OBVIOUS
    <3>1. v.phase = "active"
      <4>1. v.phase # "active" => Finish(v, e).ps = {<<"lifecycle", "error">>}
        BY DEF Finish
      <4> QED BY <4>1, NotClean
    <3> DEFINE wrong == /\ e.outcome.type = "success" /\ e.outcome.listed
                        /\ \/ ToSet(e.outcome.pending) # Unanswered(v)
                           \/ ~IsInjective(e.outcome.pending)
    <3>2. \E ps : Finish(v, e).ps = ps \cup Problem(wrong, "outcome", "error")
      BY <3>1, Zenon DEF Finish
    <3>3. ~wrong
      BY <3>2, CleanBoth, CleanProblem, Zenon
    <3>4. ToSet(<<>>) = Unanswered(v)
      BY <3>3 DEF NothingPending
    <3> QED BY <3>4, SeqEmpty DEF Unanswered
  <2> QED BY <1>1, <2>1, <2>3, <2>4 DEF Lifecycle, CallsKnown
<1>2. CASE e.type = "RUN_ERROR"
  <2>1. Check(v, e).v = [v EXCEPT !.phase = "errored"]
    BY <1>2 DEF Check
  <2>2. /\ Check(v, e).v.items = v.items /\ Check(v, e).v.calls = v.calls
        /\ Check(v, e).v.results = v.results /\ Check(v, e).v.phase = "errored"
    BY <2>1, ValidatorFields DEF ValidatorOK
  <2> QED BY <1>2, <2>2 DEF Lifecycle, CallsKnown
<1>3. CASE e.type \notin Lifecycle /\ v.phase = "active"
  <2>1. Check(v, e) = Pair(v, e)
    BY <1>3 DEF Check, Lifecycle
  <2> QED BY <1>3, <2>1, PairTells DEF Lifecycle
<1>4. CASE e.type \notin Lifecycle /\ v.phase # "active"
  <2>1. Check(v, e) = [v |-> v, ps |-> {<<"lifecycle", "error">>}]
    BY <1>4 DEF Check, Lifecycle
  <2>2. Check(v, e).v = v /\ ~Clean(Check(v, e).ps)
    BY <2>1, NotClean
  <2>3. e.type \notin Lifecycle /\ e.type # "RUN_FINISHED"
    BY <1>4 DEF Lifecycle
  <2> QED BY <1>4, <2>2, <2>3
<1> QED BY <1>1, <1>2, <1>3, <1>4 DEF Lifecycle

\* What filing an event does to the part that the response is in.
LEMMA FileLast ==
    ASSUME NEW S, SegmentsOK(S), Len(S) > 0, NEW e, EventOK(e), e.type # "RUN_STARTED"
    PROVE  LET s == S[Len(S)]
               t == File(S, e)[Len(S)]
           IN  /\ SegmentOK(s) /\ Len(File(S, e)) = Len(S)
               /\ IF e.type \notin Lifecycle /\ s.end = "none"
                  THEN t.events = Append(s.events, e) ELSE t.events = s.events
               /\ e.type \notin Lifecycle => t.end = s.end /\ t.outcome = s.outcome
               /\ e.type \in Lifecycle => t.end # "none"
               /\ t.end = "finished" =>
                     \/ s.end = "finished" /\ t.outcome = s.outcome
                     \/ s.end = "none" /\ e.type = "RUN_FINISHED" /\ t.outcome = e.outcome
                     \/ s.end = "none" /\ e.type \notin Lifecycle
<1> DEFINE n == Len(S)
           s == S[n]
           t == File(S, e)[n]
<1>1. IsSeq(S) /\ n \in Nat /\ SegmentOK(s)
  BY SeqDomain DEF SegmentsOK
<1>2. DOMAIN s = {"run", "events", "end", "outcome", "late"} /\ s.end \in {"none", "finished", "errored"}
  BY <1>1, SegmentFields DEF SegmentOK
<1>3. ASSUME NEW x, File(S, e) = WithLast(S, x)
      PROVE  Len(File(S, e)) = n /\ t = x
  BY <1>1, <1>3, SeqLast
<1>4. CASE e.type \notin Lifecycle /\ s.end = "none"
  <2> DEFINE x == [s EXCEPT !.events = Append(@, e)]
  <2>1. File(S, e) = WithLast(S, x)
    BY <1>4 DEF File, Lifecycle, WithLast
  <2>2. x.events = Append(s.events, e) /\ x.end = s.end /\ x.outcome = s.outcome
    BY <1>2
  <2> HIDE DEF x
  <2>3. Len(File(S, e)) = n /\ t = x
    BY <1>3, <2>1
  <2> HIDE DEF t, s
  <2> QED BY <1>1, <1>4, <2>2, <2>3 DEF t, s
<1>5. CASE e.type \notin Lifecycle /\ s.end # "none"
  <2>1. File(S, e) = S
    BY <1>5 DEF File, Lifecycle
  <2> QED BY <1>1, <1>5, <2>1
<1>6. CASE e.type = "RUN_FINISHED" /\ s.end = "none"
  <2> DEFINE x == [s EXCEPT !.end = "finished", !.outcome = e.outcome]
  <2>1. File(S, e) = WithLast(S, x)
    BY <1>6 DEF File, WithLast
  <2>2. x.events = s.events /\ x.end = "finished" /\ x.outcome = e.outcome
    BY <1>2
  <2> HIDE DEF x
  <2>3. Len(File(S, e)) = n /\ t = x
    BY <1>3, <2>1
  <2>4. e.type \in Lifecycle
    BY <1>6 DEF Lifecycle
  <2> QED BY <1>1, <1>6, <2>2, <2>3, <2>4
<1>7. CASE e.type = "RUN_ERROR" /\ s.end = "none"
  <2> DEFINE x == [s EXCEPT !.end = "errored"]
  <2>1. File(S, e) = WithLast(S, x)
    BY <1>7 DEF File, WithLast
  <2>2. x.events = s.events /\ x.end = "errored"
    BY <1>2
  <2> HIDE DEF x
  <2>3. Len(File(S, e)) = n /\ t = x
    BY <1>3, <2>1
  <2>4. e.type \in Lifecycle
    BY <1>7 DEF Lifecycle
  <2> QED BY <1>1, <1>7, <2>2, <2>3, <2>4
<1>8. CASE e.type = "RUN_ERROR" /\ s.end = "finished"
  <2> DEFINE x == [s EXCEPT !.late = TRUE]
  <2>1. File(S, e) = WithLast(S, x)
    BY <1>8 DEF File, WithLast
  <2>2. x.events = s.events /\ x.end = s.end /\ x.outcome = s.outcome
    BY <1>2
  <2> HIDE DEF x
  <2>3. Len(File(S, e)) = n /\ t = x
    BY <1>3, <2>1
  <2>4. e.type \in Lifecycle
    BY <1>8 DEF Lifecycle
  <2> QED BY <1>1, <1>8, <2>2, <2>3, <2>4
<1>9. CASE \/ e.type = "RUN_FINISHED" /\ s.end # "none"
           \/ e.type = "RUN_ERROR" /\ s.end = "errored"
  <2>1. File(S, e) = S /\ e.type \in Lifecycle
    BY <1>9 DEF File, Lifecycle
  <2> QED BY <1>1, <1>9, <2>1
<1> QED BY <1>2, <1>4, <1>5, <1>6, <1>7, <1>8, <1>9 DEF Lifecycle

LEMMA MoreCalls ==
    ASSUME NEW events, IsSeq(events), NEW e
    PROVE  /\ CallsOf(Append(events, e)) = CallsOf(events) \cup CallIds(e)
           /\ Told(Append(events, e)) => Told(events) \/ e.type = "MESSAGES_SNAPSHOT"
<1> DEFINE n == Len(events)
           more == Append(events, e)
<1>1. /\ n \in Nat /\ DOMAIN events = 1 .. n /\ DOMAIN more = 1 .. n + 1
      /\ more[n + 1] = e /\ \A i \in 1 .. n : more[i] = events[i]
  BY SeqAppend, SeqDomain
<1> HIDE DEF more
<1>2. 1 .. n + 1 = (1 .. n) \cup {n + 1}
  BY <1>1
<1>3. CallsOf(more) = CallsOf(events) \cup CallIds(e)
  <2> HIDE DEF n
  <2>1. ASSUME NEW x PROVE x \in CallsOf(more) <=> x \in CallsOf(events) \cup CallIds(e)
    <3>1. x \in CallsOf(more) <=> \E i \in 1 .. n + 1 : x \in CallIds(more[i])
      BY <1>1 DEF CallsOf
    <3>2. x \in CallsOf(events) <=> \E i \in 1 .. n : x \in CallIds(events[i])
      BY <1>1 DEF CallsOf
    <3> QED BY <1>1, <1>2, <3>1, <3>2
  <2> QED BY <2>1
<1>4. Told(more) => Told(events) \/ e.type = "MESSAGES_SNAPSHOT"
  BY <1>1, <1>2 DEF Told
<1> QED BY <1>3, <1>4 DEF more

\* While a run has no problem its calls are known to the validator, and when it
\* finished with nothing pending all have their results; R holds what the results
\* that came with it are for, told whether the thread's messages came with it.
Tracks(st, R, told) ==
    LET n == Len(st.segments)
        s == st.segments[n]
    IN  /\ CallsKnown(st.v) /\ st.v.results \subseteq R
        /\ st.v.phase = "active" => n > 0 /\ s.end = "none"
        /\ n > 0 /\ Told(s.events) => told
        /\ n > 0 /\ Clean(st.ps) => CallsOf(s.events) \subseteq st.v.calls
        /\ n > 0 /\ Clean(st.ps) /\ s.end = "finished" /\ NothingPending(s.outcome) =>
               st.v.calls \subseteq st.v.results

LEMMA NewSegmentTells ==
    \A run : LET s == NewSegment(run)
             IN  s.end = "none" /\ s.events = <<>> /\ CallsOf(<<>>) = {} /\ ~Told(<<>>)
<1>1. CallsOf(<<>>) = {} /\ ~Told(<<>>)
  BY SeqEmpty DEF CallsOf, Told
<1> QED BY <1>1 DEF NewSegment

LEMMA AcceptStart ==
    ASSUME NEW st, StreamOK(st), NEW e, EventOK(e), e.type = "RUN_STARTED", NEW R, NEW told
    PROVE  Tracks(Accept(st, e), R, told)
<1> DEFINE S == st.segments
           n == Len(S)
           T == File(S, e)
           w == Check(st.v, e).v
           new == Accept(st, e)
<1>1. n \in Nat /\ Len(T) = n + 1 /\ T[n + 1] = NewSegment(e.id)
  BY FileTells, SeqDomain DEF StreamOK, SegmentsOK
<1>2. w.phase = "active" /\ w.items = <<>> /\ w.calls = {} /\ w.results = {}
  BY CheckStart
<1>3. CallsKnown(w)
  BY <1>2, SeqEmpty DEF CallsKnown
<1>4. new.segments = T /\ new.v = w
  BY AcceptTells
<1> HIDE DEF S, n, T, w, new
<1>5. /\ T[n + 1].end = "none" /\ ~Told(T[n + 1].events) /\ CallsOf(T[n + 1].events) = {}
  BY <1>1, NewSegmentTells
<1>6. n + 1 > 0
  BY <1>1
<1>7. Tracks(new, R, told)
  BY <1>1, <1>2, <1>3, <1>4, <1>5, <1>6 DEF Tracks
<1> QED BY <1>7 DEF new

LEMMA AcceptMore ==
    ASSUME NEW st, StreamOK(st), NEW e, EventOK(e), e.type # "RUN_STARTED",
           NEW R, NEW told, Tracks(st, R, told),
           e.type = "TOOL_CALL_RESULT" /\ st.v.phase = "active" => e.id \in R,
           e.type = "MESSAGES_SNAPSHOT" => told
    PROVE  /\ Tracks(Accept(st, e), R, told)
           /\ IF e.type \in Lifecycle THEN Accept(st, e).v.phase # "active"
              ELSE Accept(st, e).v.phase = st.v.phase
<1> DEFINE S == st.segments
           n == Len(S)
           s == S[n]
           T == File(S, e)
           t == T[n]
           v == st.v
           w == Check(v, e).v
           new == Accept(st, e)
<1>1. /\ new.segments = T /\ new.v = w
      /\ Clean(new.ps) => Clean(st.ps) /\ Clean(Check(v, e).ps)
  <2>1. st.ps \cup Check(v, e).ps \subseteq new.ps /\ new.segments = T /\ new.v = w
    BY AcceptTells
  <2> QED BY <2>1, CleanLess, CleanBoth
<1>2. SegmentsOK(S) /\ n \in Nat /\ CallsKnown(v) /\ v.results \subseteq R /\ ValidatorOK(v)
  BY SeqDomain DEF StreamOK, SegmentsOK, Tracks
<1>3. /\ CallsKnown(w) /\ v.calls \subseteq w.calls
      /\ e.type \in Lifecycle =>
            w.phase # "active" /\ w.calls = v.calls /\ w.results = v.results
      /\ e.type = "RUN_FINISHED" /\ Clean(Check(v, e).ps) /\ NothingPending(e.outcome) =>
            v.calls \subseteq v.results
      /\ e.type \notin Lifecycle => w.phase = v.phase
      /\ e.type \notin Lifecycle /\ v.phase # "active" => w = v /\ ~Clean(Check(v, e).ps)
      /\ e.type \notin Lifecycle /\ v.phase = "active" =>
            /\ Clean(Check(v, e).ps) => CallIds(e) \subseteq w.calls
            /\ w.results \subseteq v.results \cup IF e.type = "TOOL_CALL_RESULT" THEN {e.id} ELSE {}
  BY <1>2, CheckMore
<1>4. w.results \subseteq R
  <2>1. CASE e.type \in Lifecycle
    BY <1>2, <1>3, <2>1
  <2>2. CASE e.type \notin Lifecycle /\ v.phase # "active"
    BY <1>2, <1>3, <2>2
  <2>3. CASE e.type \notin Lifecycle /\ v.phase = "active"
    BY <1>2, <1>3, <2>3
  <2> QED BY <2>1, <2>2, <2>3
<1>5. v.phase = "active" => n > 0 /\ s.end = "none"
  BY DEF Tracks
<1>6. IF e.type \in Lifecycle THEN w.phase # "active" ELSE w.phase = v.phase
  BY <1>3
<1>7. CASE n > 0
  <2>1. /\ SegmentOK(s) /\ Len(T) = n
        /\ IF e.type \notin Lifecycle /\ s.end = "none"
           THEN t.events = Append(s.events, e) ELSE t.events = s.events
        /\ e.type \notin Lifecycle => t.end = s.end /\ t.outcome = s.outcome
        /\ t.end = "finished" =>
              \/ s.end = "finished" /\ t.outcome = s.outcome
              \/ s.end = "none" /\ e.type = "RUN_FINISHED" /\ t.outcome = e.outcome
              \/ s.end = "none" /\ e.type \notin Lifecycle
    BY <1>2, <1>7, FileLast
  <2>2. /\ Told(s.events) => told
        /\ Clean(st.ps) => CallsOf(s.events) \subseteq v.calls
        /\ Clean(st.ps) /\ s.end = "finished" /\ NothingPending(s.outcome) =>
               v.calls \subseteq v.results
    BY <1>7 DEF Tracks
  <2>3. IsSeq(s.events)
    BY <2>1 DEF SegmentOK
  <2>4. /\ CallsOf(Append(s.events, e)) = CallsOf(s.events) \cup CallIds(e)
        /\ Told(Append(s.events, e)) => Told(s.events) \/ e.type = "MESSAGES_SNAPSHOT"
    BY <2>3, MoreCalls
  <2> HIDE DEF S, n, s, T, t, v, w, new
  <2>5. Told(t.events) => told
    BY <2>1, <2>2, <2>4
  <2>6. w.phase = "active" => t.end = "none"
    BY <1>5, <1>6, <2>1
  <2>7. Clean(new.ps) => CallsOf(t.events) \subseteq w.calls
    <3> SUFFICES ASSUME Clean(new.ps) PROVE CallsOf(t.events) \subseteq w.calls
      OBVIOUS
    <3>1. CallsOf(s.events) \subseteq w.calls /\ Clean(Check(v, e).ps)
      BY <1>1, <1>3, <2>2
    <3>2. CASE e.type \notin Lifecycle /\ s.end = "none"
      <4>1. v.phase = "active"
        BY <1>3, <3>1, <3>2
      <4>2. CallIds(e) \subseteq w.calls
        BY <1>3, <3>1, <3>2, <4>1
      <4> QED BY <2>1, <2>4, <3>1, <3>2, <4>2
    <3>3. CASE ~(e.type \notin Lifecycle /\ s.end = "none")
      BY <2>1, <3>1, <3>3
    <3> QED BY <3>2, <3>3
  <2>8. Clean(new.ps) /\ t.end = "finished" /\ NothingPending(t.outcome) =>
            w.calls \subseteq w.results
    <3> SUFFICES ASSUME Clean(new.ps), t.end = "finished", NothingPending(t.outcome)
                 PROVE  w.calls \subseteq w.results
      OBVIOUS
    <3>1. Clean(st.ps) /\ Clean(Check(v, e).ps)
      BY <1>1
    <3>2. CASE e.type \notin Lifecycle
      <4>1. v.phase = "active"
        BY <1>3, <3>1, <3>2
      <4>2. s.end = "none" /\ t.end = s.end
        BY <1>5, <2>1, <3>2, <4>1
      <4> QED BY <4>2
    <3>3. CASE e.type \in Lifecycle /\ s.end = "finished" /\ t.outcome = s.outcome
      BY <1>3, <2>2, <3>1, <3>3
    <3>4. CASE e.type = "RUN_FINISHED" /\ t.outcome = e.outcome
      <4>1. e.type \in Lifecycle
        BY <3>4 DEF Lifecycle
      <4> QED BY <1>3, <3>1, <3>4, <4>1
    <3> QED BY <2>1, <3>2, <3>3, <3>4
  <2>9. Tracks(new, R, told)
    BY <1>1, <1>3, <1>4, <1>7, <2>1, <2>5, <2>6, <2>7, <2>8 DEF Tracks, t
  <2> QED BY <1>1, <1>6, <2>9 DEF new, v
<1>8. CASE n = 0
  <2>1. v.phase # "active"
    BY <1>5, <1>8
  <2>2. w.phase # "active"
    BY <1>6, <2>1
  <2>3. CASE e.type = "RUN_ERROR"
    <3>1. Len(T) = 1 /\ T[1] = [NewSegment(0) EXCEPT !.end = "errored"]
      BY <1>2, <1>8, <2>3, FileTells
    <3>2. T[1].events = <<>> /\ T[1].end = "errored"
      BY <3>1 DEF NewSegment
    <3> HIDE DEF S, n, s, T, t, v, w, new
    <3>3. CallsOf(T[1].events) = {} /\ ~Told(T[1].events)
      BY <3>2, NewSegmentTells
    <3>4. Tracks(new, R, told)
      BY <1>1, <1>3, <1>4, <2>2, <3>1, <3>2, <3>3 DEF Tracks
    <3> QED BY <1>1, <1>6, <3>4 DEF new, v
  <2>4. CASE e.type # "RUN_ERROR"
    <3>1. T = S
      BY <1>2, <1>8, <2>4, FileTells
    <3> HIDE DEF s, T, t, v, w, new
    <3>2. Tracks(new, R, told)
      BY <1>1, <1>3, <1>4, <1>8, <2>2, <3>1 DEF Tracks
    <3> QED BY <1>1, <1>6, <3>2 DEF new, v
  <2> QED BY <2>3, <2>4
<1> QED BY <1>2, <1>7, <1>8

\* The same for all that an event stands for.
LEMMA FedTracks ==
    ASSUME NEW st, StreamOK(st), NEW e, EventOK(e), NEW x, NEW R, NEW told,
           e.type = "RUN_STARTED" \/ Tracks(st, R, told),
           e.type = "TOOL_CALL_RESULT" /\ st.v.phase = "active" => e.id \in R,
           e.type = "MESSAGES_SNAPSHOT" => told
    PROVE  LET T == FoldLeft(Accept, st, Feed(x, e).out)
           IN  /\ Tracks(T, R, told)
               /\ e.type # "RUN_STARTED" /\ T.v.phase = "active" =>
                     e.type \notin Lifecycle /\ st.v.phase = "active"
<1> DEFINE out == Feed(x, e).out
           n == Len(out)
           fed == FoldLeft(Accept, st, out)
<1>1. FeedOK(out, e)
  BY FeedTells
<1> HIDE DEF out
<1>2. IsSeq(out) /\ n \in Nat
  BY <1>1, SeqDomain DEF FeedOK
<1>3. Folds(<<"Accept", 0>>, st, out, fed)
  BY <1>2, AcceptFold
<1> HIDE DEF fed
<1>4. PICK a : /\ a[0] = st /\ a[n] = fed
               /\ \A i \in 1 .. n : a[i] = Accept(a[i - 1], out[i])
  BY <1>3 DEF Folds, Step
<1>5. \A i \in 1 .. n : /\ IsPiece(out[i]) \/ (i = n /\ out[i] = e)
                        /\ EventOK(out[i])
  BY <1>1 DEF FeedOK, n, IsPiece
<1> HIDE DEF n
<1>6. \A p : IsPiece(p) => /\ EventOK(p) /\ p.type \notin Lifecycle
                           /\ p.type \notin {"RUN_STARTED", "TOOL_CALL_RESULT", "MESSAGES_SNAPSHOT"}
  BY DEF IsPiece, Pieces, Lifecycle
<1> DEFINE Good(i) == Tracks(a[i], R, told) /\ (a[i].v.phase = "active" => st.v.phase = "active")
           G == {i \in 0 .. n : /\ StreamOK(a[i])
                                /\ e.type # "RUN_STARTED" /\ (i < n \/ e.type \notin Lifecycle)
                                   => Good(i)}
<1>7. 0 \in G
  <2>1. 0 \in 0 .. n /\ a[0] = st
    BY <1>2, <1>4
  <2> QED BY <2>1
<1>8. ASSUME NEW i \in 1 .. n, e.type # "RUN_STARTED", StreamOK(a[i - 1]), Good(i - 1)
      PROVE  /\ Tracks(a[i], R, told)
             /\ out[i].type \in Lifecycle => a[i].v.phase # "active"
             /\ out[i].type \notin Lifecycle => Good(i)
  <2> DEFINE b == a[i - 1]
             o == out[i]
  <2>1. /\ a[i] = Accept(b, o) /\ EventOK(o) /\ StreamOK(b) /\ Tracks(b, R, told)
        /\ b.v.phase = "active" => st.v.phase = "active"
    BY <1>4, <1>5, <1>8
  <2>2. /\ o.type # "RUN_STARTED"
        /\ o.type = "TOOL_CALL_RESULT" /\ b.v.phase = "active" => o.id \in R
        /\ o.type = "MESSAGES_SNAPSHOT" => told
    <3>1. CASE IsPiece(o)
      BY <1>6, <3>1
    <3>2. CASE o = e
      BY <1>8, <2>1, <3>2
    <3> QED BY <1>5, <3>1, <3>2
  <2> HIDE DEF b, o
  <2>3. /\ Tracks(Accept(b, o), R, told)
        /\ IF o.type \in Lifecycle THEN Accept(b, o).v.phase # "active"
           ELSE Accept(b, o).v.phase = b.v.phase
    BY <2>1, <2>2, AcceptMore
  <2> QED BY <2>1, <2>3 DEF b, o
<1>9. ASSUME NEW i \in 1 .. n, i - 1 \in G PROVE i \in G
  <2>1. StreamOK(a[i - 1]) /\ EventOK(out[i]) /\ a[i] = Accept(a[i - 1], out[i])
    BY <1>4, <1>5, <1>9
  <2>2. StreamOK(a[i]) /\ i \in 0 .. n /\ i - 1 < n
    BY <1>2, <2>1, AcceptTells
  <2>3. ASSUME e.type # "RUN_STARTED", i < n \/ e.type \notin Lifecycle PROVE Good(i)
    <3>1. Good(i - 1)
      BY <1>9, <2>2, <2>3
    <3>2. out[i].type \notin Lifecycle
      BY <1>5, <1>6, <2>3
    <3> QED BY <1>8, <2>1, <2>3, <3>1, <3>2
  <2> HIDE DEF Good
  <2> QED BY <2>2, <2>3
<1> HIDE DEF G
<1>10. \A i \in 0 .. n : i \in G
  BY <1>2, <1>7, <1>9, UpTo
<1>11. CASE e.type \in Lifecycle
  <2>1. n \in 1 .. n /\ n - 1 \in 0 .. n /\ n - 1 < n /\ out[n] = e
    BY <1>1, <1>2, <1>11 DEF FeedOK, Lifecycle, n
  <2>2. StreamOK(a[n - 1]) /\ (e.type # "RUN_STARTED" => Good(n - 1))
    BY <1>10, <2>1 DEF G
  <2>3. CASE e.type = "RUN_STARTED"
    <3>1. a[n] = Accept(a[n - 1], e)
      BY <1>4, <2>1
    <3>2. Tracks(a[n], R, told)
      BY <2>2, <2>3, <3>1, AcceptStart
    <3> QED BY <1>4, <2>3, <3>2 DEF fed, out
  <2>4. CASE e.type # "RUN_STARTED"
    <3>1. Tracks(a[n], R, told) /\ a[n].v.phase # "active"
      BY <1>8, <1>11, <2>1, <2>2, <2>4
    <3> QED BY <1>4, <3>1 DEF fed, out
  <2> QED BY <2>3, <2>4
<1>12. CASE e.type \notin Lifecycle
  <2>1. n \in G /\ e.type # "RUN_STARTED"
    BY <1>2, <1>10, <1>12 DEF Lifecycle
  <2>2. Good(n)
    BY <1>12, <2>1 DEF G
  <2> QED BY <1>4, <1>12, <2>2 DEF fed, out
<1> QED BY <1>11, <1>12

-----------------------------------------------------------------------------
(* A completed conversation answered the calls of its last run.            *)

ResultsHeard == {heard[j].id : j \in {i \in OurEvents : heard[i].type = "TOOL_CALL_RESULT"}}
SnapshotHeard == \E i \in DOMAIN heard : heard[i].type = "MESSAGES_SNAPSHOT"

\* The stream is followed as long as no run started after the requested one.
Follows(st) ==
    OursIsLast => /\ Tracks(st, ResultsHeard, SnapshotHeard)
                  /\ st.v.phase = "active" => Starts # {} /\ Terminals = {}

LEMMA TracksMore ==
    ASSUME NEW st, NEW T, T.segments = st.segments, T.v = st.v, st.ps \subseteq T.ps,
           NEW R, NEW more, R \subseteq more, NEW told, NEW also, told => also,
           Tracks(st, R, told)
    PROVE  Tracks(T, more, also)
<1>1. Clean(T.ps) => Clean(st.ps)
  BY CleanLess
<1> QED BY <1>1 DEF Tracks

\* One more event, which starts no run.
LEMMA ResultsMore ==
    ASSUME IsSeq(heard), NEW e, e.type # "RUN_STARTED", heard' = Append(heard, e), OursIsLast'
    PROVE  /\ OursIsLast /\ ResultsHeard \subseteq ResultsHeard'
           /\ SnapshotHeard \/ e.type = "MESSAGES_SNAPSHOT" => SnapshotHeard'
           /\ Starts # {} /\ Terminals = {} /\ e.type \notin Lifecycle =>
                 /\ Starts' # {} /\ Terminals' = {}
                 /\ e.type = "TOOL_CALL_RESULT" => e.id \in ResultsHeard'
<1> DEFINE L == Len(heard)
<1>1. /\ L \in Nat /\ DOMAIN heard = 1 .. L /\ DOMAIN heard' = 1 .. L + 1
      /\ heard'[L + 1] = e /\ \A i \in 1 .. L : heard'[i] = heard[i]
  BY SeqAppend, SeqDomain
<1>2. /\ Starts' = Starts /\ OursIsLast
      /\ OurPart' = OurPart \cup {L + 1} \/ (OurPart' = {} /\ Starts = {} /\ OurPart = {})
      /\ Starts # {} => OurPart' = OurPart \cup {L + 1}
  <2>1. CASE Starts = {}
    <3>1. OursIsLast /\ OurPart = {}
      BY <2>1, OurPartIs DEF OursIsLast, PartTells
    <3> QED BY <2>1, <3>1, MoreHeard
  <2>2. CASE Starts # {}
    BY <2>2, MoreHeard
  <2> QED BY <2>1, <2>2
<1>3. \A i \in OurPart : i \in 1 .. L /\ heard'[i] = heard[i] /\ i < L + 1
  <2>1. \A i \in OurPart : i \in 1 .. L
    BY OurPartIs DEF PartTells
  <2> QED BY <1>1, <2>1
<1> HIDE DEF L
<1>4. \A t \in Terminals' : t \in Terminals \/ t = L + 1
  BY <1>2, <1>3 DEF Terminals
<1>5. \A i \in OurEvents : i \in OurEvents' /\ i \in OurPart
  BY <1>2, <1>3, <1>4 DEF OurEvents, Terminals
<1>6. ResultsHeard \subseteq ResultsHeard'
  BY <1>3, <1>5 DEF ResultsHeard
<1>7. SnapshotHeard \/ e.type = "MESSAGES_SNAPSHOT" => SnapshotHeard'
  <2>1. \A i \in 1 .. L : i \in 1 .. L + 1
    BY <1>1
  <2>2. L + 1 \in 1 .. L + 1
    BY <1>1
  <2> QED BY <1>1, <2>1, <2>2 DEF SnapshotHeard
<1>8. ASSUME Starts # {}, Terminals = {}, e.type \notin Lifecycle
      PROVE  /\ Starts' # {} /\ Terminals' = {}
             /\ e.type = "TOOL_CALL_RESULT" => e.id \in ResultsHeard'
  <2>1. Terminals' = {}
    BY <1>1, <1>4, <1>8 DEF Terminals, Lifecycle
  <2>2. L + 1 \in OurEvents'
    BY <1>2, <1>8, <2>1 DEF OurEvents
  <2>3. e.type = "TOOL_CALL_RESULT" => e.id \in ResultsHeard'
    BY <1>1, <2>2 DEF ResultsHeard
  <2> QED BY <1>2, <1>8, <2>1, <2>3
<1> QED BY <1>2, <1>6, <1>7, <1>8

LEMMA TakenFollows ==
    ASSUME StreamInv, Taken, Follows(stream)
    PROVE  Follows(stream)'
<1> SUFFICES ASSUME OursIsLast'
             PROVE  /\ Tracks(stream', ResultsHeard', SnapshotHeard')
                    /\ stream'.v.phase = "active" => Starts' # {} /\ Terminals' = {}
  BY DEF Follows, Tracks
<1>1. PICK e \in Events : heard' = Append(heard, e) /\ FedInto(stream', e)
  BY DEF Taken
<1>2. PICK st : /\ StreamOK(st) /\ st.segments = stream.segments
                /\ st.v = stream.v /\ stream.ps \subseteq st.ps
                /\ stream' = FoldLeft(Accept, st, Feed(stream.x, e).out)
  BY <1>1 DEF FedInto
<1>3. EventOK(e) /\ IsSeq(heard)
  BY <1>1, EventsOK DEF StreamInv
<1>4. CASE e.type = "RUN_STARTED"
  <2>1. Tracks(stream', ResultsHeard', SnapshotHeard')
    BY <1>2, <1>3, <1>4, FedTracks
  <2>2. Starts' # {} /\ OurPart' = {}
    BY <1>1, <1>3, <1>4, StartHeard
  <2> QED BY <2>1, <2>2 DEF Terminals
<1>5. CASE e.type # "RUN_STARTED"
  <2>1. /\ OursIsLast /\ ResultsHeard \subseteq ResultsHeard'
        /\ SnapshotHeard \/ e.type = "MESSAGES_SNAPSHOT" => SnapshotHeard'
        /\ Starts # {} /\ Terminals = {} /\ e.type \notin Lifecycle =>
                 /\ Starts' # {} /\ Terminals' = {}
                 /\ e.type = "TOOL_CALL_RESULT" => e.id \in ResultsHeard'
    BY <1>1, <1>3, <1>5, ResultsMore
  <2>2. /\ Tracks(stream, ResultsHeard, SnapshotHeard)
        /\ st.v.phase = "active" => Starts # {} /\ Terminals = {}
    BY <1>2, <2>1 DEF Follows
  <2>3. Tracks(st, ResultsHeard', SnapshotHeard')
    BY <1>2, <2>1, <2>2, TracksMore
  <2>4. e.type = "TOOL_CALL_RESULT" /\ st.v.phase = "active" => e.id \in ResultsHeard'
    BY <2>1, <2>2 DEF Lifecycle
  <2>5. /\ Tracks(stream', ResultsHeard', SnapshotHeard')
        /\ stream'.v.phase = "active" => e.type \notin Lifecycle /\ st.v.phase = "active"
    BY <1>2, <1>3, <1>5, <2>1, <2>3, <2>4, FedTracks
  <2> QED BY <2>1, <2>2, <2>5
<1> QED BY <1>4, <1>5

\* Nothing was wrong with the last run; each of its calls has a result among the
\* events.
Spotless == \A p \in violations : p[1] = Len(runs) => p[3] # "error"
Covered == \A i \in DOMAIN thread.calls :
              thread.calls[i].run = Len(runs) => thread.calls[i].id \in ResultsHeard

TrackInv ==
    /\ \A i \in DOMAIN thread.calls : /\ thread.calls[i].run \in 1 .. Len(runs)
                                      /\ pc = "reading" => thread.calls[i].run # Len(runs)
    /\ pc = "reading" => Follows(stream)
    /\ /\ pc = "decide" /\ Latest.outcome = "success" /\ Latest.listed
       /\ Latest.pending = <<>> /\ Spotless /\ ~SnapshotHeard
       => Covered
    /\ CompletedMeansAnswered

LEMMA SuccessTells ==
    ASSUME NEW st, SegmentsOK(st.segments), Ending(st, Ours(st.segments)) = "success"
    PROVE  /\ Ours(st.segments) \in 1 .. Len(st.segments)
           /\ PartOf(st) = st.segments[Ours(st.segments)]
           /\ PartOf(st).end = "finished"
           /\ PartOf(st).outcome.listed => PartOf(st).outcome.type = "success"
<1> DEFINE S == st.segments
           at == Ours(S)
           seg == S[at]
<1>1. Len(S) \in Nat /\ at \in 0 .. Len(S) /\ DOMAIN S = 1 .. Len(S)
  BY OursIs, SeqDomain DEF SegmentsOK
<1> HIDE DEF at
<1>2. /\ ~st.failed /\ ~st.badStart /\ at # 0 /\ ~Errored(seg) /\ seg.end # "none"
      /\ seg.outcome.type \in {"none", "success"}
  <2>1. Ending(st, at) = "success"
    BY DEF at
  <2>2. st.failed \/ st.badStart => Ending(st, at) = "rejected"
    BY Zenon DEF Ending
  <2>3. ~(st.failed \/ st.badStart)
    BY <2>1, <2>2
  <2>4. at = 0 => Ending(st, at) = "truncated"
    BY <2>3, Zenon DEF Ending
  <2>5. at # 0
    BY <2>1, <2>4
  <2>6. Errored(seg) => Ending(st, at) = "error"
    BY <2>3, <2>5, Zenon DEF Ending
  <2>7. ~Errored(seg)
    BY <2>1, <2>6
  <2>8. seg.end = "none" => Ending(st, at) = "truncated"
    BY <2>3, <2>5, <2>7, Zenon DEF Ending
  <2>9. seg.end # "none"
    BY <2>1, <2>8
  <2>10. Ending(st, at) = IF seg.outcome.type = "none" THEN "success" ELSE seg.outcome.type
    BY <2>3, <2>5, <2>7, <2>9 DEF Ending
  <2>11. seg.outcome.type \in {"none", "success"}
    BY <2>1, <2>10
  <2> QED BY <2>3, <2>5, <2>7, <2>9, <2>11
<1>3. at \in 1 .. Len(S) /\ SegmentOK(seg)
  BY <1>1, <1>2 DEF SegmentsOK
<1>4. PartOf(st) = seg
  BY <1>2, Zenon DEF PartOf, at
<1>5. seg.end = "finished"
  BY <1>2, <1>3 DEF SegmentOK, Errored
<1>6. seg.outcome.listed => seg.outcome.type = "success"
  BY <1>2, <1>3 DEF SegmentOK, OutcomeOK
<1> QED BY <1>3, <1>4, <1>5, <1>6 DEF at

LEMMA SettledCovers ==
    ASSUME CarryInv, StreamInv, SurfaceInv, FormInv, TrackInv, pc = "reading", Settled
    PROVE  /\ Len(runs') = Len(runs)
           /\ \A i \in DOMAIN thread'.calls : thread'.calls[i].run \in 1 .. Len(runs)
           /\ /\ Latest'.outcome = "success" /\ Latest'.listed
              /\ Latest'.pending = <<>> /\ Spotless' /\ ~SnapshotHeard'
              => Covered'
<1> DEFINE k == Len(runs)
<1>1. PICK st : /\ Settle(st) /\ Graded(st.ps) /\ stream.ps \subseteq st.ps
                /\ st.segments = stream.segments
  BY DEF Settled
<1>2. RunsOK /\ k \in Nat /\ k >= 1 /\ k \in DOMAIN runs
  BY NextRun, SeqDomain DEF CarryInv, OnItsWay, RunsOK
<1>3. PICK S : S = stream.segments
  OBVIOUS
<1>4. SegmentsOK(S) /\ st.segments = S /\ Reads(S) /\ UNCHANGED heard
  BY <1>1, <1>3 DEF StreamInv, Reader, StreamOK, SurfaceInv, Settled
<1>5. PICK r : /\ runs' = WithLast(runs, r)
               /\ r.outcome = Ending(st, Ours(st.segments))
               /\ r.outcome \notin Failures =>
                     /\ r.pending = PartOf(st).outcome.pending
                     /\ r.listed = PartOf(st).outcome.listed
  BY <1>1, <1>2, SettleTells
<1>6. Len(runs') = k /\ Latest' = r
  BY <1>2, <1>5, SeqLast DEF Latest, RunsOK
<1>7. PICK ps : /\ violations' = violations \cup {<<k, p[1], p[2]>> : p \in ps}
                /\ st.ps \subseteq ps
                /\ Ours(st.segments) < Len(st.segments) => <<"lifecycle", "error">> \in ps
  BY <1>1, <1>2, SettleTells
<1>8. thread' = ReduceRun(thread, k, PartOf(st).events).thread
  BY <1>1, <1>2, SettleTells
<1>9. IsSeq(PartOf(st).events) /\ \A i \in DOMAIN PartOf(st).events : EventOK(PartOf(st).events[i])
  BY <1>4, PartOK DEF SegmentOK
<1>10. PICK ids : /\ Kept(thread.calls, thread'.calls, k, ids)
                  /\ ~Told(PartOf(st).events) => ids = CallsOf(PartOf(st).events)
  BY <1>8, <1>9, RunKeeps DEF FormInv
<1>11. \A i \in DOMAIN thread.calls : thread.calls[i].run \in 1 .. k /\ thread.calls[i].run # k
  BY DEF TrackInv
<1> HIDE DEF k
<1>12. \A j \in DOMAIN thread'.calls : /\ thread'.calls[j].run \in 1 .. k
                                       /\ thread'.calls[j].run = k => thread'.calls[j].id \in ids
  BY <1>2, <1>10, <1>11 DEF Kept
<1>13. ASSUME r.outcome = "success", r.listed, r.pending = <<>>, Spotless', ~SnapshotHeard'
       PROVE  ids \subseteq ResultsHeard'
  <2>1. /\ Ours(S) \in 1 .. Len(S) /\ PartOf(st) = S[Ours(S)]
        /\ PartOf(st).end = "finished"
        /\ PartOf(st).outcome.listed => PartOf(st).outcome.type = "success"
    BY <1>4, <1>5, <1>13, SuccessTells
  <2>2. NothingPending(PartOf(st).outcome)
    BY <1>5, <1>13, <2>1 DEF NothingPending, Failures
  <2>3. Clean(ps)
    <3> SUFFICES ASSUME NEW p \in ps PROVE p[2] # "error"
      BY DEF Clean
    <3> DEFINE q == <<k, p[1], p[2]>>
    <3>1. q \in violations' /\ q[1] = k /\ q[3] = p[2]
      BY <1>7
    <3> HIDE DEF q
    <3> QED BY <1>6, <1>13, <3>1 DEF Spotless
  <2>4. Clean(stream.ps) /\ <<"lifecycle", "error">> \notin ps
    <3>1. Clean(stream.ps)
      BY <1>1, <1>7, <2>3, CleanLess
    <3>2. <<"lifecycle", "error">>[2] = "error"
      OBVIOUS
    <3> QED BY <2>3, <3>1, <3>2 DEF Clean
  <2>5. Len(S) \in Nat /\ Ours(S) = Len(S) /\ Len(S) > 0
    BY <1>4, <1>7, <2>1, <2>4, SeqDomain DEF SegmentsOK
  <2>6. OursIsLast
    BY <1>4, <2>5 DEF Reads, OursIsLast
  <2>7. Tracks(stream, ResultsHeard, SnapshotHeard)
    BY <2>6 DEF TrackInv, Follows
  <2>8. /\ stream.v.results \subseteq ResultsHeard
        /\ Told(PartOf(st).events) => SnapshotHeard
        /\ CallsOf(PartOf(st).events) \subseteq stream.v.calls
        /\ stream.v.calls \subseteq stream.v.results
    BY <1>3, <2>1, <2>2, <2>4, <2>5, <2>7 DEF Tracks
  <2>9. ids \subseteq ResultsHeard
    BY <1>4, <1>10, <1>13, <2>8 DEF SnapshotHeard
  <2>10. ResultsHeard' = ResultsHeard
    BY <1>4 DEF ResultsHeard, OurEvents, Terminals, OurPart, OurStart, Starts
  <2> QED BY <2>9, <2>10
<1>14. /\ Latest'.outcome = "success" /\ Latest'.listed
       /\ Latest'.pending = <<>> /\ Spotless' /\ ~SnapshotHeard'
       => Covered'
  BY <1>6, <1>12, <1>13 DEF Covered
<1> QED BY <1>6, <1>12, <1>14 DEF k

LEMMA NoDomain == \A s : IsSeq(s) /\ DOMAIN s = {} => s = <<>>
<1> SUFFICES ASSUME NEW s, IsSeq(s), DOMAIN s = {} PROVE s = <<>>
  OBVIOUS
<1>1. Len(s) = 0
  BY SeqDomain
<1> QED BY <1>1 DEF IsSeq

\* Completing, every call of the last run has its result or came with one.
LEMMA CompleteAnswers ==
    ASSUME CarryInv, StreamInv, FormInv, TrackInv, Complete
    PROVE  CompletedMeansAnswered'
<1> SUFFICES ASSUME Spotless', ~SnapshotHeard', NEW i \in DOMAIN thread'.calls,
                    LET call == thread'.calls[i]
                    IN  call.run = Len(runs') /\ Frontend(call) /\ call.result = "none"
             PROVE  \E j \in OurEvents' : /\ heard'[j].type = "TOOL_CALL_RESULT"
                                          /\ heard'[j].id = thread'.calls[i].id
  BY Zenon DEF CompletedMeansAnswered, Spotless, SnapshotHeard, Frontend
<1>1. /\ pc = "decide" /\ Latest.outcome = "success" /\ Asked = <<>>
      /\ UNCHANGED <<thread, runs, violations, heard>>
  BY DEF Complete, RunEnded
<1>2. /\ Spotless /\ ~SnapshotHeard
      /\ i \in DOMAIN thread.calls /\ OpenAt(thread, Len(runs), i)
      /\ thread.calls[i].run = Len(runs)
  BY <1>1 DEF Spotless, SnapshotHeard, OpenAt, Frontend
<1>3. DOMAIN PendingCalls = {}
  <2>1. Asked = [j \in DOMAIN PendingCalls |->
                   [kind |-> "tool", id |-> PendingCalls[j],
                    known |-> CallAt(thread, PendingCalls[j]) # 0,
                    name |-> ToolName(PendingCalls[j])]]
    BY <1>1, Zenon DEF Asked
  <2>2. DOMAIN Asked = {}
    BY <1>1, SeqEmpty
  <2> HIDE DEF Asked
  <2> QED BY <2>1, <2>2, Zenon
<1>4. IsSeq(thread.calls)
  BY DEF FormInv, ThreadOK, CallsOK
<1>5. Latest.listed
  <2> SUFFICES ASSUME ~Latest.listed PROVE FALSE
    OBVIOUS
  <2>1. PendingCalls = OpenCalls(thread, Len(runs))
    BY Zenon DEF PendingCalls
  <2>2. IsSeq(OpenCalls(thread, Len(runs)))
    BY <1>4, OpenCallsTell
  <2>3. OpenCalls(thread, Len(runs)) = <<>>
    BY <1>3, <2>1, <2>2, NoDomain
  <2> QED BY <1>2, <1>4, <2>3, OpenCallsTell
<1>6. Latest.pending = <<>>
  <2>1. PendingCalls = Latest.pending
    BY <1>5, Zenon DEF PendingCalls
  <2>2. IsSeq(Latest.pending)
    <3>1. Len(runs) \in DOMAIN runs
      BY <1>1, NextRun, SeqDomain DEF CarryInv, OnItsWay, RunsOK
    <3> QED BY <3>1 DEF FormInv, Latest
  <2> QED BY <1>3, <2>1, <2>2, NoDomain
<1>7. Covered
  BY <1>1, <1>2, <1>5, <1>6 DEF TrackInv
<1>8. thread.calls[i].id \in ResultsHeard
  BY <1>2, <1>7 DEF Covered
<1>9. \E j \in OurEvents : /\ heard[j].type = "TOOL_CALL_RESULT"
                           /\ heard[j].id = thread.calls[i].id
  BY <1>8 DEF ResultsHeard
<1>10. OurEvents' = OurEvents
  BY <1>1 DEF OurEvents, Terminals, OurPart, OurStart, Starts
<1> QED BY <1>1, <1>9, <1>10

\* The other steps of the client change no call's run.
LEMMA CallsStay ==
    ASSUME FormInv, CarryInv,
           \A i \in DOMAIN thread.calls : thread.calls[i].run \in 1 .. Len(runs),
           thread' \in {thread, AddMessage(thread, "user", 0), EmptyThread}
           \/ (IsSeq(Asked) /\ thread' = FoldLeft(AnswerCall, thread, Asked))
    PROVE  \A i \in DOMAIN thread'.calls : thread'.calls[i].run \in 1 .. Len(runs)
<1>1. CASE thread' = thread
  BY <1>1
<1>2. CASE thread' = AddMessage(thread, "user", 0)
  BY <1>2, AddMessageThread DEF FormInv
<1>3. CASE thread' = EmptyThread
  BY <1>3, SeqEmpty DEF EmptyThread
<1>4. CASE IsSeq(Asked) /\ thread' = FoldLeft(AnswerCall, thread, Asked)
  <2>1. Kept(thread.calls, thread'.calls, Len(runs), {})
    BY <1>4, AnswersThread DEF FormInv
  <2> QED BY <2>1 DEF Kept
<1> QED BY <1>1, <1>2, <1>3, <1>4

LEMMA StepTracks ==
    ASSUME CarryInv, StreamInv, SurfaceInv, FormInv, TrackInv, [Next]_vars
    PROVE  TrackInv'
<1> USE DEF client, contexts
<1>0. /\ Len(runs) \in Nat /\ RunsOK /\ (pc \in {"reading", "decide"} => Len(runs) >= 1)
      /\ \A i \in DOMAIN thread.calls : thread.calls[i].run \in 1 .. Len(runs)
  BY NextRun DEF CarryInv, OnItsWay, TrackInv
<1>1. outcome' # "completed" => CompletedMeansAnswered'
  BY DEF CompletedMeansAnswered
<1>2. CASE Post
  <2>1. /\ pc = "send" /\ Len(runs') = Len(runs) + 1
        /\ UNCHANGED <<thread, violations, outcome>>
        /\ pc' \in {"decide", "reading"}
    BY <1>2, PostTells
  <2>2. outcome' # "completed"
    BY <2>1 DEF SurfaceInv
  <2>3. \A i \in DOMAIN thread'.calls : /\ thread'.calls[i].run \in 1 .. Len(runs')
                                        /\ thread'.calls[i].run # Len(runs')
    BY <1>0, <2>1
  <2>4. CASE PostRefused
    <3> DEFINE r == [NoRun EXCEPT !.outcome = "rejected", !.sent = sent, !.resume = resume]
    <3>1. runs' = Append(runs, r) /\ pc' = "decide"
      BY <2>4 DEF PostRefused
    <3>2. r.outcome = "rejected"
      BY DEF NoRun
    <3> HIDE DEF r
    <3>3. Latest'.outcome = "rejected"
      BY <1>0, <3>1, <3>2, SeqAppend DEF Latest, RunsOK
    <3> QED BY <1>1, <2>2, <2>3, <3>1, <3>3 DEF TrackInv
  <2>5. CASE ~PostRefused
    <3>1. PICK body \in Bodies(Len(runs) + 1), tail \in Tails : PostAccepted(body, tail)
      BY <1>2, <2>5 DEF Post
    <3> DEFINE st == [NoStream EXCEPT !.body = body, !.tail = tail]
    <3>2. stream' = st /\ pc' = "reading" /\ heard' = <<>>
      BY <3>1 DEF PostAccepted
    <3>3. st.segments = <<>> /\ st.v = NewValidator
      BY DEF NoStream
    <3> HIDE DEF st
    <3>4. Follows(stream)'
      <4>1. st.v.phase = "idle" /\ st.v.results = {} /\ DOMAIN st.v.items = {}
        BY <3>3, SeqEmpty DEF NewValidator
      <4>2. Tracks(st, ResultsHeard', SnapshotHeard')
        BY <3>3, <4>1, SeqEmpty DEF Tracks, CallsKnown
      <4> QED BY <3>2, <4>1, <4>2 DEF Follows, Tracks
    <3> QED BY <1>1, <2>2, <2>3, <3>2, <3>4 DEF TrackInv
  <2> QED BY <2>4, <2>5
<1>3. CASE Reading
  <2>1. pc = "reading" /\ outcome = "none" /\ UNCHANGED outcome
    BY <1>3, ReadingRuns DEF SurfaceInv
  <2>2. CASE Settled
    <3>1. pc' = "decide"
      BY <2>2, SettledTells
    <3>2. /\ Len(runs') = Len(runs)
          /\ \A i \in DOMAIN thread'.calls : thread'.calls[i].run \in 1 .. Len(runs)
          /\ /\ Latest'.outcome = "success" /\ Latest'.listed
             /\ Latest'.pending = <<>> /\ Spotless' /\ ~SnapshotHeard'
             => Covered'
      BY <2>1, <2>2, SettledCovers
    <3> QED BY <1>1, <2>1, <3>1, <3>2 DEF TrackInv
  <2>3. CASE UNCHANGED <<pc, thread, runs, violations>> /\ Ignored
    <3>1. /\ UNCHANGED heard /\ stream'.segments = stream.segments
          /\ stream'.v = stream.v /\ stream.ps \subseteq stream'.ps
      BY <2>3 DEF Ignored
    <3>2. /\ Starts' = Starts /\ OurStart' = OurStart /\ OurPart' = OurPart
          /\ Terminals' = Terminals /\ OurEvents' = OurEvents
          /\ OursIsLast' = OursIsLast /\ SnapshotHeard' = SnapshotHeard
          /\ ResultsHeard' = ResultsHeard
      BY <3>1 DEF ResultsHeard, OurEvents, Terminals, OurPart, OurStart, Starts, OursIsLast,
                  SnapshotHeard
    <3>3. Follows(stream)
      BY <2>1 DEF TrackInv
    <3>4. Tracks(stream, ResultsHeard, SnapshotHeard) =>
              Tracks(stream', ResultsHeard, SnapshotHeard)
      BY <3>1, TracksMore
    <3>5. Follows(stream)'
      <4>1. OursIsLast' => /\ Tracks(stream', ResultsHeard', SnapshotHeard')
                           /\ stream'.v.phase = "active" => Starts' # {} /\ Terminals' = {}
        BY <3>1, <3>2, <3>3, <3>4 DEF Follows
      <4> QED BY <4>1 DEF Follows, Tracks
    <3> QED BY <1>0, <1>1, <2>1, <2>3, <3>5 DEF TrackInv
  <2>4. CASE UNCHANGED <<pc, thread, runs, violations>> /\ Taken
    <3>1. Follows(stream)'
      BY <2>1, <2>4, TakenFollows DEF TrackInv
    <3> QED BY <1>0, <1>1, <2>1, <2>4, <3>1 DEF TrackInv
  <2> QED BY <1>3, <2>1, <2>2, <2>3, <2>4, ReadingTells DEF StreamInv
<1>4. CASE Complete
  <2>1. CompletedMeansAnswered'
    BY <1>4, CompleteAnswers
  <2>2. pc' = "over" /\ UNCHANGED <<thread, runs>>
    BY <1>4 DEF Complete, End
  <2> QED BY <1>0, <2>1, <2>2 DEF TrackInv
<1>5. CASE RejectScript \/ RunFails \/ CancelledRun \/ AnswerRequests \/ FollowUp
  <2>1. /\ pc' \in {"over", "send"} /\ outcome' # "completed" /\ UNCHANGED runs
    <3>1. pc \in {"send", "decide"} /\ outcome = "none"
      BY <1>5 DEF RejectScript, RunFails, CancelledRun, AnswerRequests, FollowUp, RunEnded,
                  SurfaceInv
    <3> QED BY <1>5, <3>1 DEF RejectScript, RunFails, CancelledRun, AnswerRequests, FollowUp,
                              End
  <2>2. \/ thread' \in {thread, AddMessage(thread, "user", 0), EmptyThread}
        \/ IsSeq(Asked) /\ thread' = FoldLeft(AnswerCall, thread, Asked)
    <3>1. CASE AnswerRequests
      <4>1. IsSeq(Asked)
        BY <1>0, <3>1, AskedSeq DEF AnswerRequests
      <4>2. thread' = thread \/ thread' = FoldLeft(AnswerCall, thread, Asked)
        BY <3>1, Zenon DEF AnswerRequests
      <4> QED BY <4>1, <4>2
    <3>2. CASE ~AnswerRequests
      BY <1>5, <3>2 DEF RejectScript, RunFails, CancelledRun, FollowUp
    <3> QED BY <3>1, <3>2
  <2>3. \A i \in DOMAIN thread'.calls : thread'.calls[i].run \in 1 .. Len(runs)
    BY <1>0, <2>2, CallsStay
  <2> QED BY <1>1, <2>1, <2>3 DEF TrackInv
<1>6. CASE Return \/ Cancel \/ Expire \/ Stopped \/ UNCHANGED vars
  <2>1. /\ UNCHANGED <<runs, heard, stream, outcome, thread, violations>>
        /\ pc' = pc \/ pc' = "returned"
    BY <1>6 DEF Return, Cancel, Expire, Stopped, vars
  <2>2. /\ Starts' = Starts /\ OurStart' = OurStart /\ OurPart' = OurPart
        /\ Terminals' = Terminals /\ OurEvents' = OurEvents
        /\ OursIsLast' = OursIsLast /\ SnapshotHeard' = SnapshotHeard
        /\ ResultsHeard' = ResultsHeard
    BY <2>1 DEF ResultsHeard, OurEvents, Terminals, OurPart, OurStart, Starts, OursIsLast,
                SnapshotHeard
  <2>3. Follows(stream) => Follows(stream)'
    <3>1. Follows(stream) =>
            (OursIsLast' => /\ Tracks(stream', ResultsHeard', SnapshotHeard')
                            /\ stream'.v.phase = "active" => Starts' # {} /\ Terminals' = {})
      BY <2>1, <2>2 DEF Follows
    <3> QED BY <3>1 DEF Follows, Tracks
  <2>4. Spotless' = Spotless /\ Covered' = Covered /\ Latest' = Latest
    BY <2>1, <2>2 DEF Spotless, Covered, Latest
  <2>5. CompletedMeansAnswered'
    <3>1. CompletedMeansAnswered
      BY DEF TrackInv
    <3> QED BY <2>1, <2>2, <3>1 DEF CompletedMeansAnswered
  <2> QED BY <1>0, <2>1, <2>2, <2>3, <2>4, <2>5 DEF TrackInv
<1> QED BY <1>2, <1>3, <1>4, <1>5, <1>6 DEF Next, Deciding

\* A conversation that completed cleanly left no call of its last run to a declared
\* tool unanswered (pending, unanswered, toolResult), whatever the agent sends.
THEOREM ConversationCompletes == Spec => []CompletedMeansAnswered
<1>1. Init => TrackInv
  <2> SUFFICES ASSUME Init PROVE TrackInv
    OBVIOUS
  <2>1. thread.calls = <<>>
    BY EmptyOK, AddMessageThread DEF Init, EmptyThread
  <2>2. pc = "send" /\ outcome = "none"
    BY DEF Init
  <2> QED BY <2>1, <2>2, SeqEmpty DEF TrackInv, CompletedMeansAnswered
<1>2. CarryInv /\ StreamInv /\ SurfaceInv /\ FormInv /\ TrackInv /\ [Next]_vars => TrackInv'
  BY StepTracks
<1>3. CarryInv /\ StreamInv /\ SurfaceInv /\ [Next]_vars => SurfaceInv'
  BY StepSurfaces
<1>4. CarryInv /\ StreamInv /\ FormInv /\ [Next]_vars => FormInv'
  BY StepForm
<1>5. TrackInv => CompletedMeansAnswered
  BY DEF TrackInv
<1>6. Init => SurfaceInv
  BY NothingHeard DEF Init, SurfaceInv
<1> QED BY StreamInvariant, InitForm, <1>1, <1>2, <1>3, <1>4, <1>5, <1>6, PTL DEF Spec

-----------------------------------------------------------------------------
(* Totals.                                                                 *)

LEMMA TotalFold ==
    ASSUME NEW seq, IsSeq(seq)
    PROVE  Folds(<<"Add", 0>>, 0, seq, Total(seq))
<1> DEFINE E(h) == h = [s \in SUBSET DOMAIN seq |->
                           IF s = {} THEN 0 ELSE h[s \ {Max(s)}] + seq[Max(s)]]
           it == CHOOSE h : E(h)
<1>1. Len(seq) \in Nat /\ DOMAIN seq = 1 .. Len(seq)
  BY SeqDomain
<1>2. \A h : E(h) <=> FoldOf(h, <<"Add", 0>>, 0, seq, Len(seq))
  BY <1>1 DEF FoldOf, Step
<1>3. E(it)
  <2>1. \E h : FoldOf(h, <<"Add", 0>>, 0, seq, Len(seq))
    BY <1>1, FoldExists
  <2> QED BY <1>2, <2>1, Zenon
<1>4. Total(seq) = it[1 .. Len(seq)]
  BY <1>1, Zenon DEF Total, FoldLeft, MapThenFoldSet
<1> HIDE DEF it
<1>5. Folds(<<"Add", 0>>, 0, seq, it[1 .. Len(seq)])
  BY <1>1, <1>2, <1>3, FoldSteps
<1> QED BY <1>4, <1>5

\* The total so far, after each element.
Running(a, seq) == a[0] = 0 /\ \A i \in 1 .. Len(seq) : a[i] = a[i - 1] + seq[i]

LEMMA TotalRuns ==
    ASSUME NEW seq, IsSeq(seq)
    PROVE  \E a : Running(a, seq) /\ a[Len(seq)] = Total(seq)
<1>1. PICK a : /\ a[0] = 0 /\ a[Len(seq)] = Total(seq)
               /\ \A i \in 1 .. Len(seq) : a[i] = Step(<<"Add", 0>>, a[i - 1], seq[i])
  BY TotalFold DEF Folds
<1> QED BY <1>1 DEF Running, Step

LEMMA TotalIs ==
    ASSUME NEW seq, IsSeq(seq), NEW a, Running(a, seq)
    PROVE  Total(seq) = a[Len(seq)]
<1> DEFINE n == Len(seq)
<1>1. n \in Nat
  BY SeqDomain
<1>2. PICK b : Running(b, seq) /\ b[n] = Total(seq)
  BY TotalRuns
<1> DEFINE G == {i \in 0 .. n : b[i] = a[i]}
<1>3. 0 \in G
  BY <1>1, <1>2 DEF Running
<1>4. ASSUME NEW i \in 1 .. n, i - 1 \in G PROVE i \in G
  BY <1>1, <1>2, <1>4 DEF Running
<1> HIDE DEF G, n
<1>5. n \in G
  BY <1>1, <1>3, <1>4, UpTo
<1> QED BY <1>2, <1>5 DEF G, n

LEMMA TotalMore ==
    ASSUME NEW seq, IsSeq(seq), NEW x
    PROVE  Total(Append(seq, x)) = Total(seq) + x
<1> DEFINE n == Len(seq)
           more == Append(seq, x)
<1>1. /\ n \in Nat /\ IsSeq(more) /\ Len(more) = n + 1 /\ more[n + 1] = x
      /\ \A i \in 1 .. n : more[i] = seq[i]
  BY SeqAppend, SeqDomain
<1> HIDE DEF more
<1>2. PICK a : Running(a, more) /\ a[n + 1] = Total(more)
  BY <1>1, TotalRuns
<1>3. /\ \A i \in 1 .. n : i \in 1 .. n + 1
      /\ n + 1 \in 1 .. n + 1 /\ (n + 1) - 1 = n
  BY <1>1
<1>4. Running(a, seq)
  BY <1>1, <1>2, <1>3 DEF Running
<1>5. a[n] = Total(seq)
  BY <1>4, TotalIs
<1>6. a[n + 1] = a[n] + x
  <2> HIDE DEF n
  <2>1. a[n + 1] = a[(n + 1) - 1] + more[n + 1]
    BY <1>1, <1>2, <1>3 DEF Running
  <2> QED BY <1>1, <1>3, <2>1
<1> QED BY <1>2, <1>5, <1>6 DEF more

LEMMA TotalNat ==
    ASSUME NEW seq, IsSeq(seq), \A i \in DOMAIN seq : seq[i] \in Nat
    PROVE  Total(seq) \in Nat
<1> DEFINE n == Len(seq)
<1>1. n \in Nat /\ DOMAIN seq = 1 .. n
  BY SeqDomain
<1>2. PICK a : Running(a, seq) /\ a[n] = Total(seq)
  BY TotalRuns
<1> DEFINE G == {i \in 0 .. n : a[i] \in Nat}
<1>3. 0 \in G
  BY <1>1, <1>2 DEF Running
<1>4. ASSUME NEW i \in 1 .. n, i - 1 \in G PROVE i \in G
  <2>1. a[i - 1] \in Nat /\ seq[i] \in Nat /\ a[i] = a[i - 1] + seq[i]
    BY <1>1, <1>2, <1>4 DEF Running
  <2> HIDE DEF n
  <2>2. a[i] \in Nat
    BY <2>1
  <2> QED BY <1>1, <2>2
<1> HIDE DEF G, n
<1>5. n \in G
  BY <1>1, <1>3, <1>4, UpTo
<1> QED BY <1>2, <1>5 DEF G, n

LEMMA TotalZero ==
    ASSUME NEW seq, IsSeq(seq), \A i \in DOMAIN seq : seq[i] = 0
    PROVE  Total(seq) = 0
<1> DEFINE a == [i \in Nat |-> 0]
<1>1. Len(seq) \in Nat /\ DOMAIN seq = 1 .. Len(seq)
  BY SeqDomain
<1>2. Running(a, seq)
  <2>1. \A i \in 1 .. Len(seq) : i \in Nat /\ i - 1 \in Nat
    BY <1>1
  <2> QED BY <1>1, <2>1 DEF Running
<1>3. a[Len(seq)] = 0
  BY <1>1
<1> HIDE DEF a
<1> QED BY <1>2, <1>3, TotalIs

-----------------------------------------------------------------------------
(* The items that the events of a run's part of the response make, and the *)
(* lengths they add to them.                                               *)

ItemKinds == {"message", "call", "reasoning"}
SnapshotMark == <<"snapshot", 0>>

Makes(p) ==
    IF p.type \in {"START", "CONTENT"} /\ p.kind \in ItemKinds THEN {<<p.kind, p.id>>}
    ELSE IF p.type = "TOOL_CALL_RESULT" THEN {<<"result", p.id>>}
    ELSE IF p.type = "MESSAGES_SNAPSHOT" THEN {SnapshotMark} ELSE {}
Adds(p, item) == IF p.type = "CONTENT" /\ <<p.kind, p.id>> = item THEN p.delta ELSE 0

Made(events) == UNION {Makes(events[i]) : i \in DOMAIN events}
Lengths(events, item) == [i \in DOMAIN events |-> Adds(events[i], item)]
Added(events, item) == Total(Lengths(events, item))
Sized(events) == \A i \in DOMAIN events : events[i].delta \in Nat

LEMMA LengthsSeq ==
    ASSUME NEW events, IsSeq(events), NEW item
    PROVE  /\ IsSeq(Lengths(events, item)) /\ Len(Lengths(events, item)) = Len(events)
           /\ DOMAIN Lengths(events, item) = DOMAIN events
<1> DEFINE t == Lengths(events, item)
<1>1. t = [i \in DOMAIN events |-> t[i]]
  BY DEF Lengths
<1> HIDE DEF t
<1>2. IsSeq(t) /\ Len(t) = Len(events) /\ DOMAIN t = DOMAIN events
  BY <1>1, SeqMapped
<1> QED BY <1>2 DEF t

LEMMA AppendIs ==
    ASSUME NEW s, IsSeq(s), NEW x, NEW t, DOMAIN t = 1 .. Len(s) + 1,
           t = [i \in DOMAIN t |-> t[i]],
           \A i \in 1 .. Len(s) : t[i] = s[i], t[Len(s) + 1] = x
    PROVE  t = Append(s, x)
<1> DEFINE n == Len(s)
           u == Append(s, x)
<1>1. /\ n \in Nat /\ IsSeq(u) /\ DOMAIN u = 1 .. n + 1
      /\ u[n + 1] = x /\ \A i \in 1 .. n : u[i] = s[i]
  BY SeqAppend, SeqDomain
<1> HIDE DEF u
<1>2. u = [i \in DOMAIN u |-> u[i]]
  BY <1>1 DEF IsSeq
<1> HIDE DEF n
<1>3. \A i \in 1 .. n + 1 : i = n + 1 \/ i \in 1 .. n
  BY <1>1
<1>4. \A i \in 1 .. n + 1 : t[i] = u[i]
  BY <1>1, <1>3 DEF n
<1>5. t = u
  <2>1. DOMAIN t = 1 .. n + 1
    BY DEF n
  <2>2. t = [i \in 1 .. n + 1 |-> t[i]]
    BY <2>1, Zenon
  <2>3. u = [i \in 1 .. n + 1 |-> u[i]]
    BY <1>1, <1>2, Zenon
  <2> QED BY <1>4, <2>2, <2>3, Zenon
<1> QED BY <1>5 DEF u

LEMMA MoreMade ==
    ASSUME NEW events, IsSeq(events), NEW e
    PROVE  /\ Made(Append(events, e)) = Made(events) \cup Makes(e)
           /\ \A item : Added(Append(events, e), item) = Added(events, item) + Adds(e, item)
           /\ Sized(events) /\ e.delta \in Nat => Sized(Append(events, e))
<1> DEFINE n == Len(events)
           more == Append(events, e)
<1>1. /\ n \in Nat /\ DOMAIN events = 1 .. n /\ DOMAIN more = 1 .. n + 1 /\ IsSeq(more)
      /\ more[n + 1] = e /\ \A i \in 1 .. n : more[i] = events[i]
  BY SeqAppend, SeqDomain
<1> HIDE DEF more
<1>2. 1 .. n + 1 = (1 .. n) \cup {n + 1}
  BY <1>1
<1>3. Made(more) = Made(events) \cup Makes(e)
  <2> HIDE DEF n
  <2>1. ASSUME NEW x PROVE x \in Made(more) <=> x \in Made(events) \cup Makes(e)
    <3>1. x \in Made(more) <=> \E i \in 1 .. n + 1 : x \in Makes(more[i])
      BY <1>1 DEF Made
    <3>2. x \in Made(events) <=> \E i \in 1 .. n : x \in Makes(events[i])
      BY <1>1 DEF Made
    <3> QED BY <1>1, <1>2, <3>1, <3>2
  <2> QED BY <2>1
<1>4. ASSUME NEW item PROVE Added(more, item) = Added(events, item) + Adds(e, item)
  <2> DEFINE s == Lengths(events, item)
             t == Lengths(more, item)
  <2>1. IsSeq(s) /\ Len(s) = n
    BY LengthsSeq
  <2>2. /\ DOMAIN t = 1 .. n + 1 /\ t = [i \in DOMAIN t |-> t[i]]
        /\ \A i \in 1 .. n + 1 : t[i] = Adds(more[i], item)
        /\ \A i \in 1 .. n : s[i] = Adds(events[i], item)
    BY <1>1 DEF Lengths
  <2> HIDE DEF s, t
  <2>3. t[n + 1] = Adds(e, item) /\ \A i \in 1 .. n : t[i] = s[i]
    BY <1>1, <1>2, <2>2
  <2>4. t = Append(s, Adds(e, item))
    BY <2>1, <2>2, <2>3, AppendIs
  <2> QED BY <2>1, <2>4, TotalMore DEF Added, s, t
<1>5. Sized(events) /\ e.delta \in Nat => Sized(more)
  BY <1>1, <1>2 DEF Sized
<1> QED BY <1>3, <1>4, <1>5 DEF more

LEMMA NoneMade == Made(<<>>) = {} /\ Sized(<<>>) /\ \A item : Added(<<>>, item) = 0
<1>1. Made(<<>>) = {} /\ Sized(<<>>)
  BY SeqEmpty DEF Made, Sized
<1>2. ASSUME NEW item PROVE Added(<<>>, item) = 0
  <2>1. IsSeq(Lengths(<<>>, item)) /\ DOMAIN Lengths(<<>>, item) = {}
    BY SeqEmpty, LengthsSeq
  <2> QED BY <2>1, TotalZero DEF Added
<1> QED BY <1>1, <1>2

LEMMA SumNat ==
    ASSUME NEW events, IsSeq(events), Sized(events), NEW item
    PROVE  Added(events, item) \in Nat
<1>1. IsSeq(Lengths(events, item)) /\ DOMAIN Lengths(events, item) = DOMAIN events
  BY LengthsSeq
<1>2. \A i \in DOMAIN events : Lengths(events, item)[i] \in Nat
  BY DEF Lengths, Adds, Sized
<1> QED BY <1>1, <1>2, TotalNat DEF Added

LEMMA ConcatOne ==
    ASSUME NEW s, IsSeq(s)
    PROVE  s \o <<>> = s /\ \A p : s \o <<p>> = Append(s, p)
<1>1. s \in Seq(ToSet(s))
  BY DEF IsSeq
<1>2. s \o <<>> = s
  BY <1>1
<1>3. ASSUME NEW p PROVE s \o <<p>> = Append(s, p)
  <2>1. /\ IsSeq(s \o <<p>>) /\ Len(s \o <<p>>) = Len(s) + 1
        /\ \A i \in 1 .. Len(s) : (s \o <<p>>)[i] = s[i]
        /\ (s \o <<p>>)[Len(s) + 1] = p
    BY SeqOne, SeqConcat
  <2> DEFINE t == s \o <<p>>
  <2>2. t = [i \in DOMAIN t |-> t[i]]
    BY <2>1 DEF IsSeq
  <2>3. DOMAIN t = 1 .. Len(s) + 1
    BY <2>1, SeqDomain
  <2> HIDE DEF t
  <2> QED BY <2>1, <2>2, <2>3, AppendIs DEF t
<1> QED BY <1>2, <1>3

\* S grown to M: the events of its last part, if that goes on, made these items more
\* and added this much to the item.
Grown(S, M, items, more, item) ==
    LET s == S[Len(S)]
        m == M[Len(S)]
    IN  /\ SegmentsOK(M) /\ Len(M) = Len(S)
        /\ \A k \in 1 .. Len(S) - 1 : M[k] = S[k]
        /\ m.end = s.end
        /\ Sized(m.events)
        /\ IF s.end = "none"
           THEN /\ Made(m.events) = Made(s.events) \cup items
                /\ Added(m.events, item) = Added(s.events, item) + more
           ELSE m.events = s.events

LEMMA GrownSame ==
    ASSUME NEW S, SegmentsOK(S), Len(S) > 0, Sized(S[Len(S)].events), NEW item
    PROVE  Grown(S, S, {}, 0, item)
<1>1. SegmentOK(S[Len(S)])
  BY SeqDomain DEF SegmentsOK
<1>2. Added(S[Len(S)].events, item) \in Nat
  BY <1>1, SumNat DEF SegmentOK
<1> QED BY <1>2 DEF Grown

LEMMA FileGrows ==
    ASSUME NEW S, SegmentsOK(S), Len(S) > 0, Sized(S[Len(S)].events), NEW item,
           NEW e, EventOK(e), e.type \notin Lifecycle, e.delta \in Nat
    PROVE  Grown(S, File(S, e), Makes(e), Adds(e, item), item)
<1> DEFINE s == S[Len(S)]
           t == File(S, e)[Len(S)]
<1>1. /\ SegmentOK(s)
      /\ IF s.end = "none" THEN t.events = Append(s.events, e) ELSE t.events = s.events
      /\ t.end = s.end
  BY FileLast DEF Lifecycle
<1>2. /\ SegmentsOK(File(S, e)) /\ Len(File(S, e)) = Len(S)
      /\ \A k \in 1 .. Len(S) - 1 : File(S, e)[k] = S[k]
  BY FileTells DEF Lifecycle
<1>3. IsSeq(s.events)
  BY <1>1 DEF SegmentOK
<1>4. Sized(s.events)
  OBVIOUS
<1> HIDE DEF s, t
<1>5. /\ Made(Append(s.events, e)) = Made(s.events) \cup Makes(e)
      /\ Added(Append(s.events, e), item) = Added(s.events, item) + Adds(e, item)
      /\ Sized(Append(s.events, e))
  BY <1>3, <1>4, MoreMade
<1>6. Grown(S, File(S, e), Makes(e), Adds(e, item), item)
  BY <1>1, <1>2, <1>4, <1>5 DEF Grown, s, t
<1> QED BY <1>6

LEMMA GrownAgain ==
    ASSUME NEW S, SegmentsOK(S), Len(S) > 0, Sized(S[Len(S)].events), NEW item,
           NEW M, NEW N, NEW A, NEW B, NEW a \in Nat, NEW b \in Nat,
           Grown(S, M, A, a, item), Grown(M, N, B, b, item)
    PROVE  Grown(S, N, A \cup B, a + b, item)
<1> DEFINE s == S[Len(S)]
           m == M[Len(S)]
           t == N[Len(S)]
<1>1. SegmentOK(s)
  BY SeqDomain DEF SegmentsOK
<1>2. Added(s.events, item) \in Nat
  BY <1>1, SumNat DEF SegmentOK
<1>3. /\ SegmentsOK(N) /\ Len(N) = Len(S) /\ Len(M) = Len(S)
      /\ \A k \in 1 .. Len(S) - 1 : N[k] = S[k]
      /\ m.end = s.end /\ t.end = s.end
      /\ Sized(t.events)
  BY DEF Grown
<1>4. CASE s.end = "none"
  <2>1. /\ Made(m.events) = Made(s.events) \cup A
        /\ Added(m.events, item) = Added(s.events, item) + a
        /\ Made(t.events) = Made(m.events) \cup B
        /\ Added(t.events, item) = Added(m.events, item) + b
    BY <1>3, <1>4 DEF Grown
  <2>2. Added(t.events, item) = Added(s.events, item) + (a + b)
    BY <1>2, <2>1
  <2>3. Made(t.events) = Made(s.events) \cup (A \cup B)
    BY <2>1
  <2> HIDE DEF s, m, t
  <2> QED BY <1>3, <1>4, <2>2, <2>3 DEF Grown, s, m, t
<1>5. CASE s.end # "none"
  <2>1. m.events = s.events /\ t.events = m.events
    BY <1>3, <1>5 DEF Grown
  <2> HIDE DEF s, m, t
  <2> QED BY <1>3, <1>5, <2>1 DEF Grown, s, m, t
<1> QED BY <1>4, <1>5

-----------------------------------------------------------------------------
(* What accepting the pieces of an event adds to the last part.            *)

\* A stream with a part that goes on.
Filing(st) == /\ StreamOK(st) /\ Len(st.segments) > 0
              /\ Sized(st.segments[Len(st.segments)].events)

\* Pieces accepted one after the other, with what they have made and added so far.
Accepts(n, a, out) ==
    \A i \in 1 .. n : /\ a[i] = Accept(a[i - 1], out[i])
                      /\ EventOK(out[i]) /\ out[i].type \notin Lifecycle
                      /\ out[i].delta \in Nat
Counts(n, out, P, t, item) ==
    /\ P[0] = {} /\ t[0] = 0
    /\ \A i \in 1 .. n : /\ P[i] = P[i - 1] \cup Makes(out[i])
                         /\ t[i] = t[i - 1] + Adds(out[i], item)

LEMMA FedGrows ==
    ASSUME NEW n \in Nat, NEW a, NEW out, NEW P, NEW t, NEW item,
           Filing(a[0]), Accepts(n, a, out), Counts(n, out, P, t, item)
    PROVE  /\ StreamOK(a[n])
           /\ Grown(a[0].segments, a[n].segments, P[n], t[n], item)
<1> DEFINE S == a[0].segments
           G == {i \in 0 .. n : /\ StreamOK(a[i]) /\ t[i] \in Nat
                                /\ Grown(S, a[i].segments, P[i], t[i], item)}
<1>1. SegmentsOK(S) /\ Len(S) > 0 /\ Sized(S[Len(S)].events)
  BY DEF Filing, StreamOK
<1>2. 0 \in G
  <2>1. Grown(S, S, {}, 0, item)
    BY <1>1, GrownSame
  <2>2. 0 \in 0 .. n /\ t[0] \in Nat /\ StreamOK(a[0])
    BY DEF Counts, Filing
  <2>3. Grown(S, a[0].segments, P[0], t[0], item)
    <3> HIDE DEF S
    <3>1. Grown(S, S, P[0], t[0], item)
      BY <2>1 DEF Counts
    <3> QED BY <3>1 DEF S
  <2> HIDE DEF S
  <2> QED BY <2>2, <2>3
<1>3. ASSUME NEW i \in 1 .. n, i - 1 \in G PROVE i \in G
  <2> DEFINE b == a[i - 1]
             o == out[i]
  <2>1. /\ StreamOK(b) /\ t[i - 1] \in Nat
        /\ Grown(S, b.segments, P[i - 1], t[i - 1], item)
    BY <1>3
  <2>2. /\ a[i] = Accept(b, o) /\ EventOK(o) /\ o.type \notin Lifecycle /\ o.delta \in Nat
        /\ P[i] = P[i - 1] \cup Makes(o) /\ t[i] = t[i - 1] + Adds(o, item)
    BY DEF Accepts, Counts
  <2> HIDE DEF b, o, S, G
  <2>3. StreamOK(a[i]) /\ a[i].segments = File(b.segments, o)
    BY <2>1, <2>2, AcceptTells
  <2>4. /\ SegmentsOK(b.segments) /\ Len(b.segments) = Len(S)
        /\ Sized(b.segments[Len(b.segments)].events)
    BY <2>1 DEF Grown
  <2> DEFINE M == b.segments
             N == File(M, o)
  <2>5. Grown(M, a[i].segments, Makes(o), Adds(o, item), item)
    <3>1. a[i].segments = N
      BY <2>3
    <3>2. SegmentsOK(M) /\ Len(M) > 0 /\ Sized(M[Len(M)].events)
      BY <1>1, <2>4
    <3> HIDE DEF M
    <3>3. Grown(M, N, Makes(o), Adds(o, item), item)
      BY <2>2, <3>2, FileGrows
    <3> QED BY <3>1, <3>3
  <2>6. Adds(o, item) \in Nat
    BY <2>2 DEF Adds
  <2>7. Grown(S, a[i].segments, P[i], t[i], item)
    <3> DEFINE K == a[i].segments
    <3>1. Grown(S, M, P[i - 1], t[i - 1], item) /\ Grown(M, K, Makes(o), Adds(o, item), item)
      BY <2>1, <2>5
    <3> HIDE DEF M, K
    <3>2. Grown(S, K, P[i - 1] \cup Makes(o), t[i - 1] + Adds(o, item), item)
      BY <1>1, <2>1, <2>6, <3>1, GrownAgain
    <3> QED BY <2>2, <3>2 DEF K
  <2>8. t[i] \in Nat /\ i \in 0 .. n
    BY <2>1, <2>2, <2>6
  <2>9. /\ i \in 0 .. n /\ StreamOK(a[i]) /\ t[i] \in Nat
        /\ Grown(S, a[i].segments, P[i], t[i], item)
    BY <2>3, <2>7, <2>8
  <2> QED BY <2>9 DEF G
<1> HIDE DEF G
<1>4. n \in G
  <2>1. \A i \in 0 .. n : i \in G
    BY <1>2, <1>3, UpTo
  <2> QED BY <2>1
<1> QED BY <1>4 DEF G, S

\* The items made by the first events.
Before(out, i) == UNION {Makes(out[j]) : j \in 1 .. i}

LEMMA BeforeTells ==
    ASSUME NEW out, IsSeq(out)
    PROVE  /\ Before(out, 0) = {} /\ Before(out, Len(out)) = Made(out)
           /\ \A i \in 1 .. Len(out) : Before(out, i) = Before(out, i - 1) \cup Makes(out[i])
<1> DEFINE n == Len(out)
<1>1. n \in Nat /\ DOMAIN out = 1 .. n
  BY SeqDomain
<1>2. Before(out, 0) = {} /\ Before(out, n) = Made(out)
  <2>1. 1 .. 0 = {}
    OBVIOUS
  <2> QED BY <1>1, <2>1 DEF Before, Made
<1>3. ASSUME NEW i \in 1 .. n PROVE Before(out, i) = Before(out, i - 1) \cup Makes(out[i])
  <2>1. 1 .. i = (1 .. i - 1) \cup {i}
    BY <1>1
  <2>2. ASSUME NEW y PROVE y \in Before(out, i) <=> y \in Before(out, i - 1) \cup Makes(out[i])
    <3>1. y \in Before(out, i) <=> \E j \in 1 .. i : y \in Makes(out[j])
      BY DEF Before
    <3>2. y \in Before(out, i - 1) <=> \E j \in 1 .. i - 1 : y \in Makes(out[j])
      BY DEF Before
    <3> QED BY <2>1, <3>1, <3>2
  <2> QED BY <2>2
<1> QED BY <1>2, <1>3

\* Closing the open item makes and adds nothing.
LEMMA CloseMakes ==
    \A x : \A i \in 1 .. Len(Close(x)) :
        LET p == Close(x)[i]
        IN  /\ p.delta = 0 /\ EventOK(p) /\ p.type \notin Lifecycle
            /\ Makes(p) = {} /\ \A item : Adds(p, item) = 0
<1> TAKE x
<1>1. CASE x.kind = "none"
  BY <1>1, SeqEmpty DEF Close
<1>2. CASE x.kind # "none"
  <2> DEFINE y == Of(x, "END")
  <2>1. y.type = "END" /\ EventOK(y)
    BY OfType
  <2>2. y.delta = 0
    BY DEF Of, Plain
  <2> HIDE DEF y
  <2>3. Close(x) = <<y>>
    BY <1>2 DEF Close, y
  <2>4. /\ y.type \notin Lifecycle /\ Makes(y) = {} /\ \A item : Adds(y, item) = 0
    BY <2>1 DEF Lifecycle, Makes, Adds
  <2> QED BY <2>1, <2>2, <2>3, <2>4, SeqOne
<1> QED BY <1>1, <1>2

\* What an event does to the last part: a run's start or end adds nothing to it.
LEMMA FedFiles ==
    ASSUME NEW st, Filing(st), NEW e, EventOK(e), NEW x, NEW item,
           \A i \in 1 .. Len(Feed(x, e).out) : Feed(x, e).out[i].delta \in Nat
    PROVE  LET T == FoldLeft(Accept, st, Feed(x, e).out).segments
           IN  IF e.type \in Lifecycle
               THEN \E M : Grown(st.segments, M, {}, 0, item) /\ T = File(M, e)
               ELSE Grown(st.segments, T, Made(Feed(x, e).out), Added(Feed(x, e).out, item), item)
<1> DEFINE out == Feed(x, e).out
           n == Len(out)
           fed == FoldLeft(Accept, st, out)
<1>1. FeedOK(out, e)
  BY FeedTells
<1>2. e.type \in Lifecycle => out = Append(Close(x), e)
  BY DEF Feed, Lifecycle
<1>0. \A i \in 1 .. n : out[i].delta \in Nat
  OBVIOUS
<1> HIDE DEF out
<1>3. IsSeq(out) /\ n \in Nat
  BY <1>1, SeqDomain DEF FeedOK
<1>4. Folds(<<"Accept", 0>>, st, out, fed)
  BY <1>3, AcceptFold
<1> HIDE DEF fed
<1>5. PICK a : /\ a[0] = st /\ a[n] = fed
               /\ \A i \in 1 .. n : a[i] = Accept(a[i - 1], out[i])
  BY <1>4 DEF Folds, Step
<1>6. \A p : IsPiece(p) => EventOK(p) /\ p.type \notin Lifecycle
  BY DEF IsPiece, Pieces, Lifecycle
<1>7. CASE e.type \in Lifecycle
  <2> DEFINE m == Len(Close(x))
             P == [i \in Nat |-> {}]
             t == [i \in Nat |-> 0]
  <2>1. /\ n = m + 1 /\ m \in Nat /\ out[n] = e
        /\ \A i \in 1 .. m : out[i] = Close(x)[i] /\ i \in 1 .. n
    BY <1>2, <1>7, CloseOK, SeqAppend, SeqDomain
  <2>2. P[m] = {} /\ t[m] = 0
    BY <2>1
  <2>3. ASSUME NEW i \in 1 .. m
        PROVE  /\ P[i] = P[i - 1] \cup Makes(out[i])
               /\ t[i] = t[i - 1] + Adds(out[i], item)
               /\ EventOK(out[i]) /\ out[i].type \notin Lifecycle
               /\ out[i].delta \in Nat
    <3> DEFINE o == out[i]
    <3>1. /\ o.delta = 0 /\ EventOK(o) /\ o.type \notin Lifecycle
          /\ Makes(o) = {} /\ Adds(o, item) = 0
      BY <2>1, CloseMakes
    <3>2. P[i] = {} /\ P[i - 1] = {} /\ t[i] = 0 /\ t[i - 1] = 0
      BY <2>1
    <3> HIDE DEF o, P, t
    <3>3. o.delta \in Nat
      BY <3>1
    <3> QED BY <3>1, <3>2, <3>3 DEF o
  <2>4. Counts(m, out, P, t, item)
    BY <2>3 DEF Counts
  <2> HIDE DEF P, t, m
  <2>8. Accepts(m, a, out)
    BY <1>5, <2>1, <2>3 DEF Accepts
  <2>9. Filing(a[0])
    BY <1>5 DEF Filing
  <2>5. StreamOK(a[m]) /\ Grown(a[0].segments, a[m].segments, P[m], t[m], item)
    BY <2>1, <2>4, <2>8, <2>9, FedGrows
  <2>6. a[n] = Accept(a[m], e)
    <3>1. n \in 1 .. n /\ n - 1 = m
      BY <2>1
    <3> QED BY <1>5, <2>1, <3>1
  <2>7. fed.segments = File(a[m].segments, e)
    BY <1>5, <2>5, <2>6, AcceptTells
  <2> QED BY <1>5, <1>7, <2>2, <2>5, <2>7 DEF fed, out
<1>8. CASE e.type \notin Lifecycle
  <2> DEFINE P == [i \in Nat |-> Before(out, i)]
  <2>1. \A i \in 1 .. n : EventOK(out[i]) /\ out[i].type \notin Lifecycle
    BY <1>1, <1>6, <1>8 DEF FeedOK
  <2>2. PICK t : Running(t, Lengths(out, item)) /\ t[n] = Added(out, item)
    BY <1>3, LengthsSeq, TotalRuns DEF Added
  <2>3. t[0] = 0 /\ \A i \in 1 .. n : t[i] = t[i - 1] + Adds(out[i], item)
    <3>1. Len(Lengths(out, item)) = n /\ DOMAIN out = 1 .. n
      BY <1>3, LengthsSeq, SeqDomain
    <3> QED BY <2>2, <3>1 DEF Running, Lengths
  <2>4. /\ P[0] = {} /\ P[n] = Made(out)
        /\ \A i \in 1 .. n : P[i] = P[i - 1] \cup Makes(out[i])
    <3>1. \A i \in 1 .. n : i \in Nat /\ i - 1 \in Nat
      BY <1>3
    <3> QED BY <1>3, <3>1, BeforeTells
  <2>6. Counts(n, out, P, t, item)
    BY <2>3, <2>4 DEF Counts
  <2> HIDE DEF P, n
  <2>7. Accepts(n, a, out)
    BY <1>0, <1>5, <2>1 DEF Accepts
  <2>8. Filing(a[0])
    BY <1>5 DEF Filing
  <2>5. Grown(a[0].segments, a[n].segments, P[n], t[n], item)
    BY <1>3, <2>6, <2>7, <2>8, FedGrows
  <2> QED BY <1>5, <1>8, <2>2, <2>4, <2>5 DEF fed, out
<1> QED BY <1>7, <1>8

-----------------------------------------------------------------------------
(* The item that an event is about, given the chunked item that is open.   *)

Produces(e) == \/ e.type \in {"START", "CONTENT", "CHUNK"} /\ e.kind # "span"
               \/ e.type \in {"TOOL_CALL_RESULT", "MESSAGES_SNAPSHOT"}

ItemIn(x, e) ==
    IF e.type = "MESSAGES_SNAPSHOT" THEN SnapshotMark
    ELSE IF e.type = "TOOL_CALL_RESULT" THEN <<"result", e.id>>
    ELSE IF e.type = "CHUNK" /\ e.id = 0 THEN <<e.kind, x.id>> ELSE <<e.kind, e.id>>

ChunkOK(x) == DOMAIN x = {"kind", "id", "name", "parent"} /\ x.kind \in ItemKinds \cup {"none"}

LEMMA EventTells ==
    ASSUME NEW e \in Events
    PROVE  /\ e.delta \in Nat /\ EventOK(e)
           /\ e.type \in {"START", "CONTENT", "END"} => e.kind \in ItemKinds \cup {"span"}
           /\ e.type = "CHUNK" => e.kind \in ItemKinds
           /\ e.type \notin {"CONTENT", "CHUNK"} => e.delta = 0
<1>1. EventOK(e)
  BY EventsOK
<1>2. e \in Fields
  BY DEF Events
<1>3. e.delta \in Nat
  BY <1>2 DEF Fields
<1> QED BY <1>1, <1>3 DEF Events, Kinds, ItemKinds

LEMMA CloseSums ==
    \A x : /\ Made(Close(x)) = {} /\ Sized(Close(x)) /\ IsSeq(Close(x))
           /\ \A item : Added(Close(x), item) = 0
<1> TAKE x
<1>1. IsSeq(Close(x)) /\ DOMAIN Close(x) = 1 .. Len(Close(x))
  BY CloseOK, SeqDomain
<1>2. \A i \in DOMAIN Close(x) : /\ Close(x)[i].delta = 0 /\ Makes(Close(x)[i]) = {}
                                 /\ \A item : Adds(Close(x)[i], item) = 0
  BY <1>1, CloseMakes
<1>3. Made(Close(x)) = {} /\ Sized(Close(x))
  BY <1>2 DEF Made, Sized
<1>4. ASSUME NEW item PROVE Added(Close(x), item) = 0
  <2>1. /\ IsSeq(Lengths(Close(x), item))
        /\ \A i \in DOMAIN Lengths(Close(x), item) : Lengths(Close(x), item)[i] = 0
    BY <1>1, <1>2, LengthsSeq DEF Lengths
  <2> QED BY <2>1, TotalZero DEF Added
<1> QED BY <1>1, <1>3, <1>4

LEMMA OfFields ==
    \A x, type : LET p == Of(x, type)
                 IN  /\ p.type = type /\ p.kind = x.kind /\ p.id = x.id /\ p.delta = 0
                     /\ DOMAIN p = DOMAIN Plain
                     /\ {"type", "kind", "id", "name", "parent", "delta"} \subseteq DOMAIN p
BY DEF Of, Plain

\* A sequence of events goes on with the text of the open item, if there is any.
LEMMA ContentMakes ==
    ASSUME NEW s, IsSeq(s), Sized(s), NEW x, x.kind \in ItemKinds, NEW e, e.delta \in Nat
    PROVE  LET t == s \o Content(x, e)
           IN  /\ IsSeq(t) /\ Sized(t)
               /\ Made(t) = Made(s) \cup IF e.delta = 0 THEN {} ELSE {<<x.kind, x.id>>}
               /\ \A item : Added(t, item) =
                                Added(s, item) + IF <<x.kind, x.id>> = item THEN e.delta ELSE 0
<1>1. CASE e.delta = 0
  <2>1. Content(x, e) = <<>>
    BY <1>1 DEF Content
  <2>2. s \o Content(x, e) = s
    BY <2>1, ConcatOne
  <2>3. \A item : Added(s, item) + (IF <<x.kind, x.id>> = item THEN e.delta ELSE 0) = Added(s, item)
    BY <1>1, SumNat
  <2> QED BY <1>1, <2>2, <2>3
<1>2. CASE e.delta # 0
  <2> DEFINE p == [Of(x, "CONTENT") EXCEPT !.delta = e.delta]
  <2>1. p.type = "CONTENT" /\ p.kind = x.kind /\ p.id = x.id /\ p.delta = e.delta
    BY OfFields
  <2>2. Content(x, e) = <<p>>
    BY <1>2 DEF Content
  <2> HIDE DEF p
  <2>3. s \o Content(x, e) = Append(s, p)
    BY <2>2, ConcatOne
  <2>4. Makes(p) = {<<x.kind, x.id>>}
    BY <2>1 DEF Makes
  <2>5. \A item : Adds(p, item) = IF <<x.kind, x.id>> = item THEN e.delta ELSE 0
    BY <2>1 DEF Adds
  <2>6. /\ Made(Append(s, p)) = Made(s) \cup Makes(p)
        /\ \A item : Added(Append(s, p), item) = Added(s, item) + Adds(p, item)
        /\ Sized(Append(s, p)) /\ IsSeq(Append(s, p))
    BY <2>1, MoreMade, SeqAppend
  <2> QED BY <1>2, <2>3, <2>4, <2>5, <2>6
<1> QED BY <1>1, <1>2

FeedsItem(x, e) ==
    LET out == Feed(x, e).out
        silent == e.type = "CHUNK" /\ Continues(x, e) /\ e.delta = 0
    IN  /\ IsSeq(out) /\ Sized(out)
        /\ Made(out) = IF Produces(e) /\ ~silent THEN {ItemIn(x, e)} ELSE {}
        /\ \A item : item[1] \in ItemKinds =>
              Added(out, item) = IF Produces(e) /\ ItemIn(x, e) = item THEN e.delta ELSE 0

\* The open item after an event.
FeedsOpen(x, e) ==
    LET y == Feed(x, e).x
    IN  /\ ChunkOK(y)
        /\ e.type = "CHUNK" => /\ y.kind = e.kind /\ y.id = IF e.id = 0 THEN x.id ELSE e.id
                               /\ ItemIn(x, e) = <<y.kind, y.id>>
                               /\ Continues(x, e) => y.kind = x.kind /\ y.id = x.id
        /\ e.type # "CHUNK" => y = x \/ y.kind = "none"

LEMMA FeedOpens ==
    ASSUME NEW e \in Events, NEW x, ChunkOK(x), ~(e.type = "CHUNK" /\ BadChunk(x, e))
    PROVE  FeedsOpen(x, e)
<1> DEFINE y == Feed(x, e).x
<1>1. CASE e.type = "CHUNK" /\ Continues(x, e)
  <2>1. y = [x EXCEPT !.parent = IF @ = 0 THEN e.parent ELSE @]
    BY <1>1 DEF Feed
  <2>2. ChunkOK(y) /\ y.kind = x.kind /\ y.id = x.id
    BY <2>1 DEF ChunkOK
  <2>3. x.kind = e.kind /\ e.id \in {0, x.id}
    BY <1>1 DEF Continues
  <2> HIDE DEF y
  <2>4. y.id = IF e.id = 0 THEN x.id ELSE e.id
    BY <2>2, <2>3
  <2>5. ItemIn(x, e) = <<y.kind, y.id>>
    BY <1>1, <2>2, <2>3, <2>4 DEF ItemIn
  <2> QED BY <1>1, <2>2, <2>3, <2>4, <2>5 DEF FeedsOpen, y
<1>2. CASE e.type = "CHUNK" /\ ~Continues(x, e)
  <2>1. y = Opened(e)
    BY <1>2 DEF Feed
  <2>2. e.id # 0
    BY <1>2 DEF BadChunk
  <2>3. ChunkOK(y) /\ y.kind = e.kind /\ y.id = e.id
    BY <1>2, <2>1, EventTells DEF Opened, ChunkOK
  <2> HIDE DEF y
  <2>4. ItemIn(x, e) = <<y.kind, y.id>>
    BY <1>2, <2>2, <2>3 DEF ItemIn
  <2> QED BY <1>2, <2>2, <2>3, <2>4 DEF FeedsOpen, y
<1>3. CASE e.type # "CHUNK"
  <2>1. y = x \/ y = NoChunk
    BY <1>3 DEF Feed
  <2>2. ChunkOK(y) /\ (y = x \/ y.kind = "none")
    BY <2>1 DEF ChunkOK, NoChunk
  <2> HIDE DEF y
  <2> QED BY <1>3, <2>2 DEF FeedsOpen, y
<1> QED BY <1>1, <1>2, <1>3

LEMMA FeedMakes ==
    ASSUME NEW e \in Events, NEW x, ChunkOK(x), ~(e.type = "CHUNK" /\ BadChunk(x, e))
    PROVE  FeedsItem(x, e)
<1> DEFINE out == Feed(x, e).out
<1>1. /\ e.delta \in Nat
      /\ e.type \in {"START", "CONTENT", "END"} => e.kind \in ItemKinds \cup {"span"}
      /\ e.type = "CHUNK" => e.kind \in ItemKinds
      /\ e.type \notin {"CONTENT", "CHUNK"} => e.delta = 0
  BY EventTells
<1>2. IsSeq(out)
  BY FeedTells DEF FeedOK
<1>3. CASE e.type = "CHUNK" /\ Continues(x, e)
  <2>1. x.kind = e.kind /\ e.id \in {0, x.id} /\ x.kind \in ItemKinds
    BY <1>1, <1>3 DEF Continues
  <2>2. ItemIn(x, e) = <<x.kind, x.id>>
    BY <1>3, <2>1 DEF ItemIn
  <2>3. out = <<>> \o Content(x, e)
    BY <1>3, ContentOK DEF Feed, IsSeq
  <2> DEFINE s == <<>>
  <2>8. out = s \o Content(x, e) /\ IsSeq(s) /\ Sized(s)
    BY <2>3, NoneMade, SeqEmpty
  <2>9. Made(s) = {} /\ \A item : Added(s, item) = 0
    BY NoneMade
  <2> HIDE DEF s, out
  <2>4. /\ Sized(out)
        /\ Made(out) = Made(s) \cup IF e.delta = 0 THEN {} ELSE {<<x.kind, x.id>>}
        /\ \A item : Added(out, item) =
                         Added(s, item) + IF <<x.kind, x.id>> = item THEN e.delta ELSE 0
    BY <1>1, <2>1, <2>8, ContentMakes
  <2>5. Produces(e)
    BY <1>1, <1>3 DEF Produces, ItemKinds
  <2>6. Made(out) = IF e.delta = 0 THEN {} ELSE {<<x.kind, x.id>>}
    BY <2>4, <2>9
  <2>7. \A item : Added(out, item) = IF <<x.kind, x.id>> = item THEN e.delta ELSE 0
    BY <1>1, <2>4, <2>9
  <2> QED BY <1>2, <1>3, <2>2, <2>4, <2>5, <2>6, <2>7 DEF FeedsItem, out
<1>4. CASE e.type = "CHUNK" /\ ~Continues(x, e)
  <2> DEFINE new == Opened(e)
             start == [Of(new, "START") EXCEPT !.name = new.name, !.parent = new.parent]
             first == Append(Close(x), start)
             key == <<new.kind, new.id>>
  <2>1. e.id # 0 /\ new.kind = e.kind /\ new.id = e.id /\ new.kind \in ItemKinds
    BY <1>1, <1>4 DEF BadChunk, Opened
  <2>2. ItemIn(x, e) = key
    BY <1>4, <2>1 DEF ItemIn
  <2>3. out = Close(x) \o <<start>> \o Content(new, e)
    BY <1>4 DEF Feed
  <2>4. /\ start.type = "START" /\ start.kind = new.kind /\ start.id = new.id
        /\ start.delta = 0
    BY OfFields
  <2> HIDE DEF start, new
  <2>5. out = first \o Content(new, e)
    BY <2>3, CloseSums, ConcatOne
  <2>6. Makes(start) = {key} /\ \A item : Adds(start, item) = 0
    BY <2>1, <2>4 DEF Makes, Adds
  <2>7. /\ IsSeq(first) /\ Sized(first) /\ Made(first) = Made(Close(x)) \cup Makes(start)
        /\ \A item : Added(first, item) = Added(Close(x), item) + Adds(start, item)
    BY <2>4, CloseSums, SeqAppend, MoreMade
  <2> HIDE DEF first
  <2>8. Made(first) = {key} /\ \A item : Added(first, item) = 0
    BY <2>6, <2>7, CloseSums
  <2>9. /\ Sized(out)
        /\ Made(out) = Made(first) \cup IF e.delta = 0 THEN {} ELSE {key}
        /\ \A item : Added(out, item) =
                         Added(first, item) + IF key = item THEN e.delta ELSE 0
    BY <1>1, <2>1, <2>5, <2>7, ContentMakes
  <2>10. Produces(e)
    BY <1>1, <1>4 DEF Produces, ItemKinds
  <2> HIDE DEF out, key
  <2>11. Made(out) = {key} /\ \A item : Added(out, item) = IF key = item THEN e.delta ELSE 0
    BY <1>1, <2>8, <2>9
  <2> QED BY <1>2, <1>4, <2>2, <2>9, <2>10, <2>11 DEF FeedsItem, out
<1>5. CASE e.type # "CHUNK"
  <2>1. out = <<e>> \/ out = Append(Close(x), e)
    BY <1>5 DEF Feed
  <2>2. <<e>> = Append(<<>>, e)
    OBVIOUS
  <2>3. PICK s : /\ out = Append(s, e) /\ IsSeq(s) /\ Sized(s) /\ Made(s) = {}
                 /\ \A item : Added(s, item) = 0
    BY <2>1, <2>2, CloseSums, NoneMade, SeqEmpty
  <2> HIDE DEF out
  <2>9. /\ Sized(out) /\ Made(out) = Made(s) \cup Makes(e)
        /\ \A item : Added(out, item) = Added(s, item) + Adds(e, item)
    BY <1>1, <2>3, MoreMade
  <2>4. /\ Sized(out) /\ Made(out) = Makes(e)
        /\ \A item : Added(out, item) = 0 + Adds(e, item)
    BY <2>3, <2>9
  <2>5. Makes(e) = IF Produces(e) THEN {ItemIn(x, e)} ELSE {}
    BY <1>1, <1>5 DEF Makes, Produces, ItemIn, ItemKinds
  <2>6. ASSUME NEW item, item[1] \in ItemKinds
        PROVE  Adds(e, item) = IF Produces(e) /\ ItemIn(x, e) = item THEN e.delta ELSE 0
    <3>1. CASE e.type = "CONTENT"
      <4>1. <<e.kind, e.id>> = item => e.kind # "span"
        BY <2>6 DEF ItemKinds
      <4>2. ItemIn(x, e) = <<e.kind, e.id>>
        BY <3>1 DEF ItemIn
      <4>3. e.kind # "span" => Produces(e)
        BY <3>1 DEF Produces
      <4> QED BY <3>1, <4>1, <4>2, <4>3 DEF Adds
    <3>2. CASE e.type # "CONTENT"
      BY <1>1, <1>5, <3>2 DEF Adds
    <3> QED BY <3>1, <3>2
  <2>7. \A item : Adds(e, item) \in Nat
    BY <1>1 DEF Adds
  <2>8. \A item : item[1] \in ItemKinds =>
            Added(out, item) = IF Produces(e) /\ ItemIn(x, e) = item THEN e.delta ELSE 0
    BY <2>4, <2>6, <2>7
  <2> QED BY <1>2, <1>5, <2>4, <2>5, <2>8 DEF FeedsItem, out
<1> QED BY <1>3, <1>4, <1>5

-----------------------------------------------------------------------------
(* What was heard of the requested run, one event more.                    *)

Marking == {i \in OurEvents : Produces(heard[i])}
MarkOf(i) == IF heard[i].type = "MESSAGES_SNAPSHOT" THEN SnapshotMark ELSE ItemOf(i)
Marks == {MarkOf(i) : i \in Marking}

NamedChunks == {j \in 1 .. Len(heard) : heard[j].type = "CHUNK" /\ heard[j].id # 0}
OpenIn(x) == x.kind # "none" => NamedChunks # {} /\ heard[Max(NamedChunks)].id = x.id

LEMMA HeardAppend ==
    ASSUME IsSeq(heard), NEW e, heard' = Append(heard, e)
    PROVE  LET L == Len(heard)
           IN  /\ L \in Nat /\ DOMAIN heard = 1 .. L /\ DOMAIN heard' = 1 .. L + 1
               /\ Len(heard') = L + 1 /\ heard'[L + 1] = e
               /\ \A i \in 1 .. L : heard'[i] = heard[i]
               /\ \A i \in OurPart : i \in 1 .. L /\ i < L + 1 /\ heard'[i] = heard[i]
<1> DEFINE L == Len(heard)
<1>1. /\ L \in Nat /\ DOMAIN heard = 1 .. L /\ DOMAIN heard' = 1 .. L + 1
      /\ Len(heard') = L + 1 /\ heard'[L + 1] = e
      /\ \A i \in 1 .. L : heard'[i] = heard[i]
  BY SeqAppend, SeqDomain
<1>2. \A i \in OurPart : i \in 1 .. L
  BY OurPartIs DEF PartTells
<1> QED BY <1>1, <1>2

LEMMA EventsHeard ==
    ASSUME IsSeq(heard), NEW e, heard' = Append(heard, e)
    PROVE  LET n == Len(heard) + 1
           IN  /\ OurPart' = {} => OurEvents' = {} /\ Terminals' = {}
               /\ OurPart' = OurPart => OurEvents' = OurEvents /\ Terminals' = Terminals
               /\ OurPart' = OurPart \cup {n} =>
                     IF e.type \in {"RUN_FINISHED", "RUN_ERROR"}
                     THEN Terminals' # {} /\ OurEvents' = OurEvents
                     ELSE /\ Terminals' = Terminals
                          /\ Terminals = {} => OurEvents' = OurEvents \cup {n}
                          /\ Terminals # {} => OurEvents' = OurEvents
<1> DEFINE L == Len(heard)
           ending == e.type \in {"RUN_FINISHED", "RUN_ERROR"}
<1>1. /\ L \in Nat /\ heard'[L + 1] = e
      /\ \A i \in OurPart : i \in 1 .. L /\ i < L + 1 /\ heard'[i] = heard[i]
  BY HeardAppend
<1> HIDE DEF L
<1>2. ASSUME OurPart' = {} PROVE OurEvents' = {} /\ Terminals' = {}
  BY <1>2 DEF OurEvents, Terminals
<1>3. ASSUME OurPart' = OurPart PROVE OurEvents' = OurEvents /\ Terminals' = Terminals
  <2>1. Terminals' = Terminals
    BY <1>1, <1>3 DEF Terminals
  <2> QED BY <1>1, <1>3, <2>1 DEF OurEvents
<1>4. ASSUME OurPart' = OurPart \cup {L + 1}, ending
      PROVE  Terminals' # {} /\ OurEvents' = OurEvents
  <2>1. Terminals' = Terminals \cup {L + 1}
    BY <1>1, <1>4 DEF Terminals
  <2>2. \A i \in OurPart : i < L + 1
    BY <1>1
  <2>3. ~(L + 1 < L + 1)
    BY <1>1
  <2>4. OurEvents' = {i \in OurPart \cup {L + 1} : \A t \in Terminals \cup {L + 1} : i < t}
    BY <1>4, <2>1 DEF OurEvents
  <2> QED BY <2>1, <2>2, <2>3, <2>4 DEF OurEvents
<1>5. ASSUME OurPart' = OurPart \cup {L + 1}, ~ending
      PROVE  /\ Terminals' = Terminals
             /\ Terminals = {} => OurEvents' = OurEvents \cup {L + 1}
             /\ Terminals # {} => OurEvents' = OurEvents
  <2>1. Terminals' = Terminals
    BY <1>1, <1>5 DEF Terminals
  <2>2. OurEvents' = {i \in OurPart \cup {L + 1} : \A t \in Terminals : i < t}
    BY <1>5, <2>1 DEF OurEvents
  <2>3. \A t \in Terminals : ~(L + 1 < t)
    BY <1>1 DEF Terminals
  <2> QED BY <2>1, <2>2, <2>3 DEF OurEvents
<1> QED BY <1>2, <1>3, <1>4, <1>5 DEF L

\* A chunk that names no item goes on with one that was named.
AllNamed == \A i \in 1 .. Len(heard) :
                heard[i].type = "CHUNK" /\ heard[i].id = 0 =>
                    \E j \in 1 .. i : heard[j].type = "CHUNK" /\ heard[j].id # 0

\* The item of an event does not depend on what is heard later.
LEMMA ItemStays ==
    ASSUME IsSeq(heard), AllNamed, NEW e, heard' = Append(heard, e),
           NEW i \in 1 .. Len(heard)
    PROVE  ItemOf(i)' = ItemOf(i) /\ MarkOf(i)' = MarkOf(i)
<1> DEFINE L == Len(heard)
<1>1. L \in Nat /\ \A j \in 1 .. L : heard'[j] = heard[j]
  BY HeardAppend
<1>2. \A j \in 1 .. i : j \in 1 .. L
  BY <1>1
<1> HIDE DEF L
<1>3. heard'[i] = heard[i]
  BY <1>1 DEF L
<1> DEFINE N == {j \in 1 .. i : heard[j].type = "CHUNK" /\ heard[j].id # 0}
           M == {j \in 1 .. i : heard'[j].type = "CHUNK" /\ heard'[j].id # 0}
<1>4. M = N
  BY <1>1, <1>2
<1>5. heard[i].type = "CHUNK" /\ heard[i].id = 0 => heard'[Max(M)] = heard[Max(N)]
  <2>1. ASSUME N # {} PROVE Max(N) \in 1 .. i
    <3>1. i \in Nat /\ N \in SUBSET (0 .. i)
      BY <1>1 DEF L
    <3> HIDE DEF N
    <3>2. Max(N) \in N
      BY <2>1, <3>1, LargestUpTo
    <3> QED BY <3>2 DEF N
  <2>2. heard[i].type = "CHUNK" /\ heard[i].id = 0 => N # {}
    BY DEF AllNamed
  <2> HIDE DEF N, M
  <2> QED BY <1>1, <1>2, <1>4, <2>1, <2>2
<1>6. ItemOf(i)' = ItemOf(i)
  <2>1. ItemOf(i) = LET f == heard[i]
                    IN  IF f.type = "TOOL_CALL_RESULT" THEN <<"result", f.id>>
                        ELSE IF f.type = "CHUNK" /\ f.id = 0 THEN <<f.kind, heard[Max(N)].id>>
                        ELSE <<f.kind, f.id>>
    BY DEF ItemOf
  <2>2. ItemOf(i)' = LET f == heard'[i]
                     IN  IF f.type = "TOOL_CALL_RESULT" THEN <<"result", f.id>>
                         ELSE IF f.type = "CHUNK" /\ f.id = 0 THEN <<f.kind, heard'[Max(M)].id>>
                         ELSE <<f.kind, f.id>>
    BY DEF ItemOf
  <2> DEFINE a == ItemOf(i)
             b == ItemOf(i)'
             u == heard[Max(N)]
             v == heard'[Max(M)]
  <2>3. a = b
    <3>1. heard[i].type = "CHUNK" /\ heard[i].id = 0 => u = v
      BY <1>5
    <3>2. a = IF heard[i].type = "TOOL_CALL_RESULT" THEN <<"result", heard[i].id>>
              ELSE IF heard[i].type = "CHUNK" /\ heard[i].id = 0 THEN <<heard[i].kind, u.id>>
              ELSE <<heard[i].kind, heard[i].id>>
      BY <2>1
    <3>3. b = IF heard[i].type = "TOOL_CALL_RESULT" THEN <<"result", heard[i].id>>
              ELSE IF heard[i].type = "CHUNK" /\ heard[i].id = 0 THEN <<heard[i].kind, v.id>>
              ELSE <<heard[i].kind, heard[i].id>>
      BY <1>3, <2>2
    <3> HIDE DEF a, b, u, v
    <3> QED BY <3>1, <3>2, <3>3
  <2> QED BY <2>3
<1> QED BY <1>3, <1>6 DEF MarkOf

HeardOK == IsSeq(heard) /\ AllNamed /\ \A i \in 1 .. Len(heard) : heard[i].delta \in Nat

\* The pieces of an item, one event more.
LEMMA PiecesMore ==
    ASSUME HeardOK, NEW e, e.delta \in Nat, heard' = Append(heard, e),
           NEW n, n = Len(heard) + 1,
           \A i \in 1 .. Len(heard) : i \in OurEvents' <=> i \in OurEvents,
           NEW item, item[1] \in ItemKinds
    PROVE  Total(PiecesOf(item))' =
               Total(PiecesOf(item))
               + IF n \in OurEvents' /\ Produces(e) /\ MarkOf(n)' = item THEN e.delta ELSE 0
<1> DEFINE L == Len(heard)
           s == PiecesOf(item)
           t == PiecesOf(item)'
           d == IF n \in Producing' /\ ItemOf(n)' = item THEN e.delta ELSE 0
<1>1. /\ L \in Nat /\ DOMAIN heard = 1 .. L /\ DOMAIN heard' = 1 .. L + 1
      /\ n = L + 1 /\ heard'[n] = e
      /\ \A i \in 1 .. L : heard'[i] = heard[i]
  BY HeardAppend DEF HeardOK
<1>2. \A i \in 1 .. L : ItemOf(i)' = ItemOf(i)
  BY ItemStays DEF HeardOK
<1> HIDE DEF L
<1>3. \A i \in 1 .. L : i \in Producing' <=> i \in Producing
  BY <1>1 DEF Producing, L
<1>4. /\ DOMAIN s = 1 .. L /\ s = [i \in DOMAIN heard |-> s[i]]
      /\ \A i \in 1 .. L : s[i] = IF i \in Producing /\ ItemOf(i) = item
                                  THEN heard[i].delta ELSE 0
  BY <1>1 DEF PiecesOf
<1>5. /\ DOMAIN t = 1 .. L + 1 /\ t = [i \in DOMAIN t |-> t[i]]
      /\ \A i \in 1 .. L + 1 : t[i] = IF i \in Producing' /\ ItemOf(i)' = item
                                      THEN heard'[i].delta ELSE 0
  BY <1>1 DEF PiecesOf
<1> HIDE DEF s, t
<1>6. \A i \in 1 .. L : t[i] = s[i]
  <2>1. \A i \in 1 .. L : i \in 1 .. L + 1
    BY <1>1
  <2> QED BY <1>1, <1>2, <1>3, <1>4, <1>5, <2>1
<1>7. t[L + 1] = d
  <2>1. L + 1 \in 1 .. L + 1
    BY <1>1
  <2> QED BY <1>1, <1>5, <2>1
<1>8. IsSeq(s) /\ Len(s) = L
  BY <1>4, SeqMapped DEF HeardOK, L
<1>9. t = Append(s, d)
  <2> HIDE DEF d
  <2> QED BY <1>5, <1>6, <1>7, <1>8, AppendIs
<1>10. Total(t) = Total(s) + d
  <2> HIDE DEF d
  <2> QED BY <1>8, <1>9, TotalMore
<1>11. n \in Producing' /\ ItemOf(n)' = item
         <=> n \in OurEvents' /\ Produces(e) /\ MarkOf(n)' = item
  <2>1. MarkOf(n)' = IF e.type = "MESSAGES_SNAPSHOT" THEN SnapshotMark ELSE ItemOf(n)'
    BY <1>1 DEF MarkOf
  <2>2. item # SnapshotMark
    BY DEF SnapshotMark, ItemKinds
  <2>3. n \in Producing' <=>
            /\ n \in OurEvents'
            /\ \/ e.type \in {"START", "CONTENT", "CHUNK"} /\ e.kind # "span"
               \/ e.type = "TOOL_CALL_RESULT"
    BY <1>1 DEF Producing
  <2> QED BY <2>1, <2>2, <2>3 DEF Produces
<1>12. Total(PiecesOf(item))' = Total(t)
  BY DEF t
<1> QED BY <1>10, <1>11, <1>12 DEF s

LEMMA PiecesNat ==
    ASSUME HeardOK, NEW item
    PROVE  Total(PiecesOf(item)) \in Nat
<1> DEFINE s == PiecesOf(item)
<1>1. DOMAIN heard = 1 .. Len(heard)
  BY SeqDomain DEF HeardOK
<1>2. s = [i \in DOMAIN heard |-> s[i]] /\ DOMAIN s = DOMAIN heard /\ \A i \in DOMAIN s : s[i] \in Nat
  BY <1>1 DEF PiecesOf, HeardOK
<1> HIDE DEF s
<1>3. IsSeq(s)
  BY <1>2, SeqMapped DEF HeardOK
<1>4. Total(s) \in Nat
  BY <1>2, <1>3, TotalNat
<1> QED BY <1>4 DEF s

LEMMA PiecesNone ==
    ASSUME IsSeq(heard)', OurEvents' = {}, NEW item
    PROVE  Total(PiecesOf(item))' = 0
<1> DEFINE t == PiecesOf(item)'
<1>1. t = [i \in DOMAIN heard' |-> t[i]] /\ DOMAIN t = DOMAIN heard' /\ \A i \in DOMAIN t : t[i] = 0
  BY DEF PiecesOf, Producing
<1>2. IsSeq(heard')
  BY DEF IsSeq
<1> HIDE DEF t
<1>3. IsSeq(t)
  BY <1>1, <1>2, SeqMapped
<1>4. Total(t) = 0
  BY <1>1, <1>3, TotalZero
<1> QED BY <1>4 DEF t

\* The items the requested run has named, one event more.
LEMMA MarksMore ==
    ASSUME HeardOK, NEW e, e.delta \in Nat, heard' = Append(heard, e),
           NEW n, n = Len(heard) + 1
    PROVE  /\ OurEvents' = {} =>
                 Marks' = {} /\ \A item : Total(PiecesOf(item))' = 0
           /\ OurEvents' = OurEvents =>
                 /\ Marks' = Marks
                 /\ \A item : item[1] \in ItemKinds =>
                        Total(PiecesOf(item))' = Total(PiecesOf(item))
           /\ OurEvents' = OurEvents \cup {n} =>
                 /\ Marks' = Marks \cup IF Produces(e) THEN {MarkOf(n)'} ELSE {}
                 /\ \A item : item[1] \in ItemKinds =>
                        Total(PiecesOf(item))' =
                            Total(PiecesOf(item))
                            + IF Produces(e) /\ MarkOf(n)' = item THEN e.delta ELSE 0
<1> DEFINE L == Len(heard)
<1>1. /\ L \in Nat /\ DOMAIN heard = 1 .. L /\ DOMAIN heard' = 1 .. L + 1
      /\ n = L + 1 /\ heard'[n] = e
      /\ \A i \in 1 .. L : heard'[i] = heard[i]
      /\ \A i \in OurPart : i \in 1 .. L /\ i < L + 1
  BY HeardAppend DEF HeardOK
<1>2. \A i \in 1 .. L : MarkOf(i)' = MarkOf(i)
  BY ItemStays DEF HeardOK
<1>3. \A i \in OurEvents : i \in 1 .. L /\ i # n
  BY <1>1 DEF OurEvents
<1>4. n \notin 1 .. L
  BY <1>1
<1>5. IsSeq(heard)'
  BY SeqAppend DEF HeardOK, IsSeq
<1> HIDE DEF L
<1>6. ASSUME OurEvents' = {}
      PROVE  Marks' = {} /\ \A item : Total(PiecesOf(item))' = 0
  <2>1. Marks' = {}
    BY <1>6 DEF Marks, Marking
  <2> QED BY <1>5, <1>6, <2>1, PiecesNone
<1>7. ASSUME OurEvents' = OurEvents
      PROVE  /\ Marks' = Marks
             /\ \A item : item[1] \in ItemKinds =>
                    Total(PiecesOf(item))' = Total(PiecesOf(item))
  <2>1. Marking' = Marking /\ \A i \in Marking : MarkOf(i)' = MarkOf(i)
    BY <1>1, <1>2, <1>3, <1>7 DEF Marking
  <2>2. Marks' = Marks
    BY <2>1 DEF Marks
  <2>3. ASSUME NEW item, item[1] \in ItemKinds
        PROVE  Total(PiecesOf(item))' = Total(PiecesOf(item))
    <3>1. Total(PiecesOf(item))' = Total(PiecesOf(item)) + 0
      BY <1>3, <1>7, <2>3, PiecesMore DEF L
    <3> QED BY <3>1, PiecesNat
  <2> QED BY <2>2, <2>3
<1>8. ASSUME OurEvents' = OurEvents \cup {n}
      PROVE  /\ Marks' = Marks \cup IF Produces(e) THEN {MarkOf(n)'} ELSE {}
             /\ \A item : item[1] \in ItemKinds =>
                    Total(PiecesOf(item))' =
                        Total(PiecesOf(item))
                        + IF Produces(e) /\ MarkOf(n)' = item THEN e.delta ELSE 0
  <2>1. /\ Marking' = Marking \cup IF Produces(e) THEN {n} ELSE {}
        /\ \A i \in Marking : MarkOf(i)' = MarkOf(i)
    BY <1>1, <1>2, <1>3, <1>8 DEF Marking
  <2>2. Marks' = Marks \cup IF Produces(e) THEN {MarkOf(n)'} ELSE {}
    <3> DEFINE more == IF Produces(e) THEN {n} ELSE {}
    <3>1. Marks' = {MarkOf(i)' : i \in Marking \cup more}
      BY <2>1 DEF Marks
    <3>2. Marks = {MarkOf(i) : i \in Marking}
      BY DEF Marks
    <3>3. {MarkOf(i)' : i \in more} = IF Produces(e) THEN {MarkOf(n)'} ELSE {}
      OBVIOUS
    <3> HIDE DEF more
    <3>4. Marks' = Marks \cup {MarkOf(i)' : i \in more}
      BY <2>1, <3>1, <3>2
    <3> QED BY <3>3, <3>4
  <2>3. ASSUME NEW item, item[1] \in ItemKinds
        PROVE  Total(PiecesOf(item))' =
                   Total(PiecesOf(item))
                   + IF Produces(e) /\ MarkOf(n)' = item THEN e.delta ELSE 0
    <3>1. \A i \in 1 .. L : i \in OurEvents' <=> i \in OurEvents
      BY <1>4, <1>8
    <3>2. n \in OurEvents'
      BY <1>8
    <3> QED BY <2>3, <3>1, <3>2, PiecesMore DEF L
  <2> QED BY <2>2, <2>3
<1> QED BY <1>6, <1>7, <1>8 DEF L

\* The next event's item, the item that is open after it.
LEMMA NextMark ==
    ASSUME HeardOK, NEW x, ChunkOK(x), OpenIn(x),
           NEW e \in Events, ~(e.type = "CHUNK" /\ BadChunk(x, e)),
           heard' = Append(heard, e), NEW n, n = Len(heard) + 1,
           NEW y, y = Feed(x, e).x
    PROVE  MarkOf(n)' = ItemIn(x, e) /\ OpenIn(y)' /\ HeardOK'
<1> DEFINE L == Len(heard)
           N == NamedChunks
           M == NamedChunks'
<1>1. /\ L \in Nat /\ DOMAIN heard' = 1 .. n /\ n = L + 1 /\ Len(heard') = n /\ heard'[n] = e
      /\ \A i \in 1 .. L : heard'[i] = heard[i]
  BY HeardAppend DEF HeardOK
<1>2. /\ e.delta \in Nat
      /\ e.type = "CHUNK" => e.kind \in ItemKinds
  BY EventTells
<1>3. /\ N = {j \in 1 .. L : heard[j].type = "CHUNK" /\ heard[j].id # 0}
      /\ M = {j \in 1 .. n : heard'[j].type = "CHUNK" /\ heard'[j].id # 0}
  BY <1>1 DEF NamedChunks
<1> HIDE DEF L, N, M
<1>4. /\ 1 .. n = (1 .. L) \cup {n} /\ n \in Nat
      /\ \A i \in 1 .. L : i < n
  BY <1>1
<1>5. M = N \cup IF e.type = "CHUNK" /\ e.id # 0 THEN {n} ELSE {}
  BY <1>1, <1>3, <1>4
<1>6. N # {} => Max(N) \in N /\ heard'[Max(N)] = heard[Max(N)]
  <2>1. N \in SUBSET (0 .. L)
    BY <1>1, <1>3
  <2>2. N # {} => Max(N) \in N
    BY <1>1, <2>1, LargestUpTo
  <2> QED BY <1>1, <1>3, <2>2
<1>7. M # {} => Max(M) \in M /\ \A i \in M : i <= Max(M)
  <2>1. M \in SUBSET (0 .. n)
    BY <1>4, <1>3
  <2> QED BY <1>4, <2>1, LargestUpTo
<1>8. FeedsOpen(x, e)
  BY FeedOpens
<1>9. e.type = "CHUNK" /\ e.id = 0 => /\ x.kind = e.kind /\ x.kind # "none" /\ N # {} /\ M = N
                                      /\ heard'[Max(M)].id = x.id
  <2> SUFFICES ASSUME e.type = "CHUNK", e.id = 0
               PROVE  /\ x.kind = e.kind /\ x.kind # "none" /\ N # {} /\ M = N
                      /\ heard'[Max(M)].id = x.id
    OBVIOUS
  <2>1. x.kind = e.kind
    BY DEF BadChunk, Continues
  <2>2. x.kind # "none"
    BY <1>2, <2>1 DEF ItemKinds
  <2>3. N # {} /\ heard[Max(N)].id = x.id
    BY <2>2 DEF OpenIn, N
  <2> QED BY <1>5, <1>6, <2>1, <2>2, <2>3
<1>10. e.type = "CHUNK" /\ e.id # 0 => M # {} /\ heard'[Max(M)].id = e.id
  <2> SUFFICES ASSUME e.type = "CHUNK", e.id # 0
               PROVE  M # {} /\ heard'[Max(M)].id = e.id
    OBVIOUS
  <2>1. n \in M
    BY <1>5
  <2>2. Max(M) \in 1 .. n /\ n <= Max(M)
    BY <1>3, <1>7, <2>1
  <2>3. Max(M) = n
    BY <1>4, <2>2
  <2> QED BY <1>1, <2>1, <2>3
<1>11. MarkOf(n)' = ItemIn(x, e)
  <2>1. MarkOf(n)' = IF e.type = "MESSAGES_SNAPSHOT" THEN SnapshotMark ELSE ItemOf(n)'
    BY <1>1 DEF MarkOf
  <2>2. ItemOf(n)' = IF e.type = "TOOL_CALL_RESULT" THEN <<"result", e.id>>
                     ELSE IF e.type = "CHUNK" /\ e.id = 0 THEN <<e.kind, heard'[Max(M)].id>>
                     ELSE <<e.kind, e.id>>
    BY <1>1, <1>3 DEF ItemOf
  <2> DEFINE k == heard'[Max(M)].id
  <2>3. e.type = "CHUNK" /\ e.id = 0 => k = x.id
    BY <1>9
  <2> HIDE DEF k
  <2>4. ItemOf(n)' = IF e.type = "TOOL_CALL_RESULT" THEN <<"result", e.id>>
                     ELSE IF e.type = "CHUNK" /\ e.id = 0 THEN <<e.kind, k>>
                     ELSE <<e.kind, e.id>>
    BY <2>2 DEF k
  <2> DEFINE b == ItemOf(n)'
  <2>5. b = IF e.type = "TOOL_CALL_RESULT" THEN <<"result", e.id>>
            ELSE IF e.type = "CHUNK" /\ e.id = 0 THEN <<e.kind, x.id>>
            ELSE <<e.kind, e.id>>
    BY <2>3, <2>4
  <2> QED BY <2>1, <2>5 DEF ItemIn
<1>12. OpenIn(y)'
  <2>1. y.kind # "none" => M # {} /\ heard'[Max(M)].id = y.id
    <3>1. CASE e.type = "CHUNK"
      BY <1>8, <1>9, <1>10, <3>1 DEF FeedsOpen
    <3>2. CASE e.type # "CHUNK"
      <4>1. y = x \/ y.kind = "none"
        BY <1>8, <3>2 DEF FeedsOpen
      <4>2. M = N
        BY <1>5, <3>2
      <4>3. x.kind # "none" => N # {} /\ heard[Max(N)].id = x.id
        BY DEF OpenIn, N
      <4> QED BY <1>6, <4>1, <4>2, <4>3
    <3> QED BY <3>1, <3>2
  <2>2. y.kind # "none" => NamedChunks' # {} /\ heard'[Max(NamedChunks')].id = y.id
    BY <2>1 DEF M
  <2> QED BY <2>2 DEF OpenIn
<1>13. HeardOK'
  <2>1. IsSeq(heard')
    BY SeqAppend DEF HeardOK
  <2>2. \A i \in 1 .. n : heard'[i].delta \in Nat
    BY <1>1, <1>2, <1>4 DEF HeardOK, L
  <2>3. ASSUME NEW i \in 1 .. n, heard'[i].type = "CHUNK", heard'[i].id = 0
        PROVE  \E j \in 1 .. i : heard'[j].type = "CHUNK" /\ heard'[j].id # 0
    <3>1. CASE i \in 1 .. L
      <4>1. PICK j \in 1 .. i : heard[j].type = "CHUNK" /\ heard[j].id # 0
        BY <1>1, <2>3, <3>1 DEF HeardOK, AllNamed, L
      <4>2. j \in 1 .. L
        BY <1>1, <3>1, <4>1
      <4> QED BY <1>1, <4>1, <4>2
    <3>2. CASE i = n
      <4>1. N # {}
        BY <1>1, <1>9, <2>3, <3>2
      <4>2. PICK j : j \in N
        BY <4>1
      <4>3. j \in 1 .. L /\ j \in 1 .. i /\ heard[j].type = "CHUNK" /\ heard[j].id # 0
        BY <1>3, <1>4, <3>2, <4>2
      <4> QED BY <1>1, <4>3
    <3> QED BY <1>4, <3>1, <3>2
  <2>4. AllNamed'
    BY <1>1, <2>3 DEF AllNamed
  <2>5. (\A i \in 1 .. Len(heard) : heard[i].delta \in Nat)'
    BY <1>1, <2>2
  <2> QED BY <2>1, <2>4, <2>5 DEF HeardOK, IsSeq
<1> QED BY <1>11, <1>12, <1>13

\* What an event e, which stands for out, does to the parts S of the stream.
Files(S, T, e, out) ==
    LET n == Len(S)
    IN  /\ SegmentsOK(T) /\ n \in Nat /\ n > 0 /\ \A k \in 1 .. n - 1 : T[k] = S[k]
        /\ Sized(T[n].events)
        /\ e.type # "RUN_STARTED" => Len(T) = n
        /\ e.type = "RUN_STARTED" => Len(T) = n + 1 /\ T[n + 1] = NewSegment(e.id)
        /\ e.type \in {"RUN_FINISHED", "RUN_ERROR"} => T[n].end # "none"
        /\ e.type \notin Lifecycle => T[n].end = S[n].end
        /\ IF e.type \notin Lifecycle /\ S[n].end = "none"
           THEN /\ Made(T[n].events) = Made(S[n].events) \cup Made(out)
                /\ \A item : Added(T[n].events, item) = Added(S[n].events, item) + Added(out, item)
           ELSE /\ Made(T[n].events) = Made(S[n].events)
                /\ \A item : Added(T[n].events, item) = Added(S[n].events, item)

LEMMA TakenFiles ==
    ASSUME Filing(stream), NEW e \in Events, FedInto(stream', e), ChunkOK(stream.x),
           ~(e.type = "CHUNK" /\ BadChunk(stream.x, e))
    PROVE  Files(stream.segments, stream'.segments, e, Feed(stream.x, e).out)
<1> PICK S, T, n, out : /\ S = stream.segments /\ T = stream'.segments /\ n = Len(S)
                        /\ out = Feed(stream.x, e).out
  OBVIOUS
<1>1. PICK st : /\ StreamOK(st) /\ st.segments = S
                /\ stream' = FoldLeft(Accept, st, out)
  BY DEF FedInto
<1>2. Filing(st)
  BY <1>1 DEF Filing
<1>3. EventOK(e)
  BY EventTells
<1>4. IsSeq(out) /\ Sized(out) /\ DOMAIN out = 1 .. Len(out)
  BY FeedMakes, SeqDomain DEF FeedsItem
<1>5. SegmentsOK(S) /\ n \in Nat /\ n > 0 /\ Sized(S[n].events) /\ n \in 1 .. n
  BY SeqDomain DEF Filing, StreamOK, SegmentsOK
<1>6. SegmentOK(S[n]) /\ \A item : Added(S[n].events, item) \in Nat
  <2>1. SegmentOK(S[n])
    BY <1>5, SeqDomain DEF SegmentsOK
  <2> QED BY <1>5, <2>1, SumNat DEF SegmentOK
<1>7. \A i \in 1 .. Len(Feed(stream.x, e).out) : Feed(stream.x, e).out[i].delta \in Nat
  BY <1>4 DEF Sized
<1>8. \A item :
         IF e.type \in Lifecycle
         THEN \E M : Grown(S, M, {}, 0, item) /\ T = File(M, e)
         ELSE Grown(S, T, Made(out), Added(out, item), item)
  BY <1>1, <1>2, <1>3, <1>7, FedFiles
<1>9. CASE e.type \in Lifecycle
  <2>1. ASSUME NEW item
        PROVE  /\ SegmentsOK(T) /\ \A k \in 1 .. n - 1 : T[k] = S[k]
               /\ Sized(T[n].events)
               /\ e.type # "RUN_STARTED" => Len(T) = n /\ T[n].end # "none"
               /\ e.type = "RUN_STARTED" => Len(T) = n + 1 /\ T[n + 1] = NewSegment(e.id)
               /\ Made(T[n].events) = Made(S[n].events)
               /\ Added(T[n].events, item) = Added(S[n].events, item)
    <3>1. PICK M : Grown(S, M, {}, 0, item) /\ T = File(M, e)
      BY <1>8, <1>9
    <3>2. /\ SegmentsOK(M) /\ Len(M) = n /\ \A k \in 1 .. n - 1 : M[k] = S[k]
          /\ Sized(M[n].events) /\ Made(M[n].events) = Made(S[n].events)
          /\ Added(M[n].events, item) = Added(S[n].events, item)
      <4>1. Added(S[n].events, item) \in Nat
        BY <1>6
      <4> QED BY <3>1, <4>1 DEF Grown
    <3>3. SegmentsOK(T)
      BY <1>3, <3>1, <3>2, FileTells
    <3>4. CASE e.type = "RUN_STARTED"
      <4>1. /\ Len(T) = n + 1 /\ T[n + 1] = NewSegment(e.id)
            /\ \A k \in 1 .. n : T[k] = M[k]
        BY <1>3, <3>1, <3>2, <3>4, FileTells
      <4>2. \A k \in 1 .. n - 1 : k \in 1 .. n
        BY <1>5
      <4> QED BY <1>5, <3>2, <3>3, <3>4, <4>1, <4>2
    <3>5. CASE e.type # "RUN_STARTED"
      <4>1. /\ Len(T) = n /\ \A k \in 1 .. n - 1 : T[k] = M[k]
        BY <1>3, <1>5, <3>1, <3>2, <3>5, FileTells
      <4>2. T[n].events = M[n].events /\ T[n].end # "none"
        BY <1>3, <1>5, <1>9, <3>1, <3>2, <3>5, FileLast
      <4> QED BY <3>2, <3>3, <3>5, <4>1, <4>2
    <3> QED BY <3>4, <3>5
  <2> QED BY <1>5, <1>9, <2>1 DEF Lifecycle, Files
<1>10. CASE e.type \notin Lifecycle
  <2>1. ASSUME NEW item
        PROVE  /\ SegmentsOK(T) /\ \A k \in 1 .. n - 1 : T[k] = S[k]
               /\ Sized(T[n].events) /\ Len(T) = n /\ T[n].end = S[n].end
               /\ IF S[n].end = "none"
                  THEN /\ Made(T[n].events) = Made(S[n].events) \cup Made(out)
                       /\ Added(T[n].events, item) = Added(S[n].events, item) + Added(out, item)
                  ELSE T[n].events = S[n].events
    <3>1. Grown(S, T, Made(out), Added(out, item), item)
      BY <1>8, <1>10
    <3> QED BY <3>1 DEF Grown
  <2> QED BY <1>5, <1>10, <2>1 DEF Lifecycle, Files
<1> QED BY <1>9, <1>10

-----------------------------------------------------------------------------
(* The requested run's part of the stream holds what was heard of it.      *)

\* The part p of the requested run, as it was heard.
Holds(p) == /\ Made(p.events) = Marks
            /\ \A item : item[1] \in ItemKinds =>
                   Added(p.events, item) = Total(PiecesOf(item))

\* While no run started after it, it goes on until its terminal event, with the
\* chunked item that is open among its items.
Open(p, x) == /\ p.end = "none" <=> Terminals = {}
              /\ p.end = "none" /\ x.kind # "none" => <<x.kind, x.id>> \in Marks

Exact(st) ==
    LET S == st.segments
    IN  /\ HeardOK /\ ChunkOK(st.x) /\ OpenIn(st.x)
        /\ \A k \in 1 .. Len(S) : Sized(S[k].events)
        /\ Starts = {} => Len(S) = 0 \/ (Len(S) = 1 /\ S[1].end # "none")
        /\ Holds(PartOf(st))
        /\ Starts # {} /\ OursIsLast => Open(PartOf(st), st.x)

\* Which part of the stream is the requested run's, after one more event.
LEMMA OursTaken ==
    ASSUME NEW S, SegmentsOK(S), NEW e, EventOK(e), NEW M, Quiet(S, M),
           NEW T, T = IF e.type \in Lifecycle THEN File(M, e) ELSE M,
           Echoed = {} <=> Echoes(S) = {}
    PROVE  /\ SegmentsOK(T) /\ Len(S) \in Nat /\ Len(T) \in Nat
           /\ e.type = "RUN_STARTED" =>
                 /\ Len(T) = Len(S) + 1 /\ T[Len(S) + 1] = NewSegment(e.id)
                 /\ Ours(T) = IF e.id = OurRun \/ Echoed = {} THEN Len(S) + 1 ELSE Ours(S)
           /\ e.type # "RUN_STARTED" /\ Len(S) > 0 => Len(T) = Len(S) /\ Ours(T) = Ours(S)
           /\ e.type # "RUN_STARTED" /\ Len(S) = 0 =>
                 \/ Len(T) = 0
                 \/ Len(T) = 1 /\ T[1] = [NewSegment(0) EXCEPT !.end = "errored"]
<1>1. /\ IsSeq(S) /\ SegmentsOK(M) /\ Len(M) = Len(S) /\ Len(S) \in Nat
      /\ \A k \in 1 .. Len(S) : M[k].run = S[k].run
  BY SeqDomain DEF Quiet, SegmentsOK
<1>2. SegmentsOK(T) /\ IsSeq(T) /\ Len(T) \in Nat
  BY <1>1, FileTells, SeqDomain DEF SegmentsOK
<1>3. CASE e.type = "RUN_STARTED"
  <2>1. T = File(M, e)
    BY <1>3 DEF Lifecycle
  <2>2. /\ Len(T) = Len(S) + 1 /\ T[Len(S) + 1] = NewSegment(e.id)
        /\ \A k \in 1 .. Len(S) : T[k].run = S[k].run
    BY <1>1, <1>3, <2>1, FileTells
  <2>3. T[Len(S) + 1].run = e.id
    BY <2>2 DEF NewSegment
  <2>4. IF e.id = OurRun THEN Ours(T) = Len(S) + 1
        ELSE Ours(T) = IF Echoes(S) = {} THEN Len(S) + 1 ELSE Ours(S)
    BY <1>1, <1>2, <2>2, <2>3, OursNext
  <2> QED BY <1>1, <1>2, <1>3, <2>2, <2>4
<1>4. CASE e.type # "RUN_STARTED" /\ Len(S) > 0
  <2>1. Len(T) = Len(S) /\ \A k \in 1 .. Len(S) : T[k].run = S[k].run
    <3>1. CASE e.type \in Lifecycle
      <4>1. /\ Len(T) = Len(S) /\ \A k \in 1 .. Len(S) - 1 : T[k] = M[k]
            /\ T[Len(S)].run = M[Len(S)].run
        BY <1>1, <1>4, <3>1, FileTells
      <4>2. \A k \in 1 .. Len(S) : k = Len(S) \/ k \in 1 .. Len(S) - 1
        BY <1>1
      <4> QED BY <1>1, <4>1, <4>2
    <3>2. CASE e.type \notin Lifecycle
      BY <1>1, <3>2
    <3> QED BY <3>1, <3>2
  <2>2. Ours(T) = Ours(S)
    BY <1>1, <1>2, <2>1, OursSame
  <2> QED BY <1>1, <1>2, <1>4, <2>1, <2>2
<1>5. CASE e.type # "RUN_STARTED" /\ Len(S) = 0
  <2>1. CASE e.type = "RUN_ERROR"
    BY <1>1, <1>2, <1>5, <2>1, FileTells DEF Lifecycle
  <2>2. CASE e.type # "RUN_ERROR"
    <3>1. T = M
      BY <1>1, <1>5, <2>2, FileTells
    <3> QED BY <1>1, <1>2, <1>5, <3>1
  <2> QED BY <2>1, <2>2
<1> QED BY <1>3, <1>4, <1>5

LEMMA NewHolds ==
    \A run : /\ Made(NewSegment(run).events) = {} /\ Sized(NewSegment(run).events)
             /\ \A item : Added(NewSegment(run).events, item) = 0
             /\ NewSegment(run).end = "none"
BY NewSegmentTells, NoneMade

\* Nothing of the requested run was heard yet.
LEMMA NoneHolds ==
    ASSUME HeardOK, NEW e, e.delta \in Nat, heard' = Append(heard, e), OurPart' = {},
           NEW p, Made(p.events) = {}, \A item : item[1] \in ItemKinds => Added(p.events, item) = 0
    PROVE  Holds(p)' /\ Terminals' = {}
<1>1. OurEvents' = {} /\ Terminals' = {}
  BY EventsHeard DEF HeardOK
<1>2. PICK n : n = Len(heard) + 1
  OBVIOUS
<1>3. Marks' = {} /\ \A item : Total(PiecesOf(item))' = 0
  BY <1>1, <1>2, MarksMore
<1> QED BY <1>1, <1>3 DEF Holds

\* Nothing more of the requested run was heard.
LEMMA SameHolds ==
    ASSUME HeardOK, NEW e, e.delta \in Nat, heard' = Append(heard, e),
           OurEvents' = OurEvents, NEW p, Holds(p),
           NEW q, Made(q.events) = Made(p.events),
           \A item : item[1] \in ItemKinds => Added(q.events, item) = Added(p.events, item)
    PROVE  Holds(q)' /\ Marks' = Marks
<1>1. PICK n : n = Len(heard) + 1
  OBVIOUS
<1>2. /\ Marks' = Marks
      /\ \A item : item[1] \in ItemKinds => Total(PiecesOf(item))' = Total(PiecesOf(item))
  BY <1>1, MarksMore
<1> QED BY <1>2 DEF Holds

\* One more event of the requested run was heard, and accepted.
LEMMA MoreHolds ==
    ASSUME HeardOK, NEW x, ChunkOK(x), OpenIn(x),
           NEW e \in Events, ~(e.type = "CHUNK" /\ BadChunk(x, e)), heard' = Append(heard, e),
           NEW y, y = Feed(x, e).x, NEW out, out = Feed(x, e).out,
           NEW n, n = Len(heard) + 1, OurEvents' = OurEvents \cup {n},
           NEW p, Holds(p), x.kind # "none" => <<x.kind, x.id>> \in Marks,
           NEW q, Made(q.events) = Made(p.events) \cup Made(out),
           \A item : Added(q.events, item) = Added(p.events, item) + Added(out, item)
    PROVE  Holds(q)' /\ (y.kind # "none" => <<y.kind, y.id>> \in Marks')
<1> DEFINE it == ItemIn(x, e)
<1>1. /\ e.delta \in Nat
      /\ e.type = "CHUNK" => e.kind \in ItemKinds
  BY EventTells
<1>2. MarkOf(n)' = it
  BY NextMark
<1>3. /\ Marks' = Marks \cup IF Produces(e) THEN {it} ELSE {}
      /\ \A item : item[1] \in ItemKinds =>
             Total(PiecesOf(item))' =
                 Total(PiecesOf(item)) + IF Produces(e) /\ it = item THEN e.delta ELSE 0
  BY <1>1, <1>2, MarksMore
<1>4. FeedsItem(x, e) /\ FeedsOpen(x, e)
  BY FeedMakes, FeedOpens
<1>5. /\ e.type = "CHUNK" /\ Continues(x, e) => it \in Marks
      /\ y.kind # "none" => <<y.kind, y.id>> \in Marks'
  <2>1. CASE e.type = "CHUNK"
    <3>1. Produces(e) /\ it = <<y.kind, y.id>>
      BY <1>1, <1>4, <2>1 DEF Produces, FeedsOpen, ItemKinds
    <3>2. Continues(x, e) => y.kind = x.kind /\ y.id = x.id /\ x.kind # "none"
      BY <1>1, <1>4, <2>1 DEF FeedsOpen, Continues, ItemKinds
    <3> HIDE DEF it
    <3> QED BY <1>3, <3>1, <3>2
  <2>2. CASE e.type # "CHUNK"
    <3>1. y = x \/ y.kind = "none"
      BY <1>4, <2>2 DEF FeedsOpen
    <3> QED BY <1>3, <2>2, <3>1
  <2> QED BY <2>1, <2>2
<1>6. Made(q.events) = Marks'
  <2>1. Made(out) = IF Produces(e) /\ ~(e.type = "CHUNK" /\ Continues(x, e) /\ e.delta = 0)
                    THEN {it} ELSE {}
    BY <1>4 DEF FeedsItem
  <2>2. Made(p.events) = Marks
    BY DEF Holds
  <2> HIDE DEF it
  <2> QED BY <1>3, <1>5, <2>1, <2>2
<1>7. ASSUME NEW item, item[1] \in ItemKinds
      PROVE  Added(q.events, item) = Total(PiecesOf(item))'
  <2>1. Added(out, item) = IF Produces(e) /\ it = item THEN e.delta ELSE 0
    BY <1>4, <1>7 DEF FeedsItem
  <2>2. Added(p.events, item) = Total(PiecesOf(item))
    BY <1>7 DEF Holds
  <2> QED BY <1>3, <1>7, <2>1, <2>2
<1> QED BY <1>5, <1>6, <1>7 DEF Holds

\* The requested run said nothing.
LEMMA NothingMarked ==
    ASSUME IsSeq(heard), OurEvents = {}
    PROVE  Marks = {} /\ \A item : Total(PiecesOf(item)) = 0
<1>1. Marks = {}
  BY DEF Marks, Marking
<1>2. ASSUME NEW item PROVE Total(PiecesOf(item)) = 0
  <2> DEFINE t == PiecesOf(item)
  <2>1. t = [i \in DOMAIN heard |-> t[i]] /\ DOMAIN t = DOMAIN heard /\ \A i \in DOMAIN t : t[i] = 0
    BY DEF PiecesOf, Producing
  <2> HIDE DEF t
  <2>2. IsSeq(t)
    BY <2>1, SeqMapped
  <2>3. Total(t) = 0
    BY <2>1, <2>2, TotalZero
  <2> QED BY <2>3 DEF t
<1> QED BY <1>1, <1>2

\* The stream goes on with one more event.
LEMMA TakenExact ==
    ASSUME StreamInv, Reader(stream), Reads(stream.segments), Exact(stream), Taken,
           Reader(stream')
    PROVE  Exact(stream)'
<1> PICK e \in Events :
           /\ heard' = Append(heard, e) /\ FedInto(stream', e)
           /\ ~(e.type = "CHUNK" /\ BadChunk(stream.x, e))
           /\ \E M : /\ Quiet(stream.segments, M)
                     /\ stream'.segments = IF e.type \in Lifecycle THEN File(M, e) ELSE M
  BY DEF Taken
<1> PICK x, y, S, T, out, n :
           /\ x = stream.x /\ y = Feed(x, e).x /\ out = Feed(x, e).out
           /\ S = stream.segments /\ T = stream'.segments /\ n = Len(heard) + 1
  OBVIOUS
<1>1. /\ EventOK(e) /\ e.delta \in Nat
      /\ SegmentsOK(S) /\ Len(S) \in Nat
      /\ HeardOK /\ IsSeq(heard) /\ ChunkOK(x) /\ OpenIn(x)
      /\ \A k \in 1 .. Len(S) : Sized(S[k].events)
      /\ Starts = {} => Len(S) = 0 \/ (Len(S) = 1 /\ S[1].end # "none")
      /\ Starts # {} => Len(S) > 0
      /\ Echoed = {} <=> Echoes(S) = {}
      /\ Starts # {} => (OursIsLast <=> Ours(S) = Len(S))
      /\ Ours(S) \in 0 .. Len(S)
      /\ Echoes(S) = {} => Ours(S) = Len(S)
  <2>1. StreamOK(stream)
    BY DEF Reader
  <2>2. SegmentsOK(S) /\ IsSeq(S)
    BY <2>1 DEF StreamOK, SegmentsOK
  <2>3. Len(S) \in Nat /\ Ours(S) \in 0 .. Len(S) /\ (Echoes(S) = {} => Ours(S) = Len(S))
    BY <2>2, OursIs
  <2>4. EventOK(e) /\ e.delta \in Nat
    BY EventTells
  <2> QED BY <2>2, <2>3, <2>4 DEF Exact, HeardOK, Reads
<1>2. OpenIn(y)' /\ HeardOK' /\ MarkOf(n)' = ItemIn(x, e)
  BY <1>1, NextMark
<1>3. ChunkOK(y) /\ (e.type = "RUN_STARTED" => y.kind = "none")
  <2>1. FeedsOpen(x, e)
    BY <1>1, FeedOpens
  <2>2. e.type = "RUN_STARTED" => y = NoChunk
    BY DEF Feed
  <2> QED BY <2>1, <2>2 DEF FeedsOpen, NoChunk
<1>4. stream'.x = y
  <2>1. PICK st : /\ StreamOK(st) /\ st.x = y /\ stream' = FoldLeft(Accept, st, Feed(x, e).out)
    BY DEF FedInto
  <2> QED BY <1>1, <2>1, FedTells
<1>5. PICK M : Quiet(S, M) /\ T = IF e.type \in Lifecycle THEN File(M, e) ELSE M
  OBVIOUS
<1>6. /\ SegmentsOK(T) /\ Len(T) \in Nat
      /\ e.type = "RUN_STARTED" =>
            /\ Len(T) = Len(S) + 1 /\ T[Len(S) + 1] = NewSegment(e.id)
            /\ Ours(T) = IF e.id = OurRun \/ Echoed = {} THEN Len(S) + 1 ELSE Ours(S)
      /\ e.type # "RUN_STARTED" /\ Len(S) > 0 => Len(T) = Len(S) /\ Ours(T) = Ours(S)
      /\ e.type # "RUN_STARTED" /\ Len(S) = 0 =>
            \/ Len(T) = 0
            \/ Len(T) = 1 /\ T[1] = [NewSegment(0) EXCEPT !.end = "errored"]
  BY <1>1, <1>5, OursTaken
<1> DEFINE N == Len(S)
           same(p, q) == /\ Made(q.events) = Made(p.events)
                         /\ \A item : Added(q.events, item) = Added(p.events, item)
<1>7. N > 0 =>
        /\ \A k \in 1 .. N - 1 : T[k] = S[k]
        /\ Sized(T[N].events)
        /\ e.type \in {"RUN_FINISHED", "RUN_ERROR"} => T[N].end # "none"
        /\ e.type \notin Lifecycle => T[N].end = S[N].end
        /\ IF e.type \notin Lifecycle /\ S[N].end = "none"
           THEN /\ Made(T[N].events) = Made(S[N].events) \cup Made(out)
                /\ \A item : Added(T[N].events, item) = Added(S[N].events, item) + Added(out, item)
           ELSE same(S[N], T[N])
  <2> SUFFICES ASSUME N > 0
               PROVE  /\ \A k \in 1 .. N - 1 : T[k] = S[k]
                      /\ Sized(T[N].events)
                      /\ e.type \in {"RUN_FINISHED", "RUN_ERROR"} => T[N].end # "none"
                      /\ e.type \notin Lifecycle => T[N].end = S[N].end
                      /\ IF e.type \notin Lifecycle /\ S[N].end = "none"
                         THEN /\ Made(T[N].events) = Made(S[N].events) \cup Made(out)
                              /\ \A item : Added(T[N].events, item) =
                                               Added(S[N].events, item) + Added(out, item)
                         ELSE same(S[N], T[N])
    OBVIOUS
  <2>1. N \in 1 .. N
    BY <1>1
  <2>2. Filing(stream)
    BY <1>1, <2>1 DEF Filing, Reader
  <2>3. ChunkOK(stream.x) /\ ~(e.type = "CHUNK" /\ BadChunk(stream.x, e))
    BY <1>1
  <2>4. Files(S, T, e, out)
    BY <2>2, <2>3, TakenFiles
  <2> QED BY <2>4 DEF Files
<1> HIDE DEF same, N
<1>8. \A k \in 1 .. Len(T) : Sized(T[k].events)
  <2>1. CASE N > 0
    <3>1. \A k \in 1 .. N : Sized(T[k].events)
      <4>1. \A k \in 1 .. N : k = N \/ k \in 1 .. N - 1
        BY <1>1 DEF N
      <4> QED BY <1>1, <1>7, <2>1, <4>1 DEF N
    <3>2. CASE e.type = "RUN_STARTED"
      <4>1. Len(T) = N + 1 /\ Sized(T[N + 1].events)
        BY <1>6, <3>2, NewHolds DEF N
      <4>2. \A k \in 1 .. N + 1 : k \in 1 .. N \/ k = N + 1
        BY <1>1 DEF N
      <4> QED BY <3>1, <4>1, <4>2
    <3>3. CASE e.type # "RUN_STARTED"
      BY <1>6, <2>1, <3>1, <3>3 DEF N
    <3> QED BY <3>2, <3>3
  <2>2. CASE N = 0
    <3>1. CASE e.type = "RUN_STARTED"
      <4>1. Len(T) = 1 /\ T[1] = NewSegment(e.id)
        BY <1>6, <2>2, <3>1 DEF N
      <4> QED BY <4>1, NewHolds
    <3>2. CASE e.type # "RUN_STARTED"
      <4>1. Len(T) = 0 \/ (Len(T) = 1 /\ T[1].events = <<>>)
        BY <1>6, <2>2, <3>2 DEF N, NewSegment
      <4> QED BY <4>1, NoneMade
    <3> QED BY <3>1, <3>2
  <2> QED BY <1>1, <2>1, <2>2 DEF N
<1>9. PICK p, q : p = PartOf(stream) /\ q = PartOf(stream')
  OBVIOUS
<1>10. /\ Ours(S) # 0 => p = S[Ours(S)]
       /\ Ours(S) = 0 => p = NewSegment(0)
       /\ Ours(T) # 0 => q = T[Ours(T)]
       /\ Ours(T) = 0 => q = NewSegment(0)
  BY <1>9 DEF PartOf
<1>11. Holds(p) /\ (Starts # {} /\ OursIsLast => Open(p, x))
  BY <1>9 DEF Exact
<1> DEFINE Goal == /\ Holds(q)'
                   /\ Starts' # {} /\ OursIsLast' => Open(q, y)'
                   /\ Starts' = {} => Len(T) = 0 \/ (Len(T) = 1 /\ T[1].end # "none")
<1>12. ASSUME e.type = "RUN_STARTED" /\ (e.id = OurRun \/ Echoed = {})
       PROVE  Goal
  <2>1. Starts' # {} /\ OursIsLast' /\ OurPart' = {}
    BY <1>1, <1>12, StartHeard
  <2>2. q = NewSegment(e.id)
    BY <1>1, <1>6, <1>10, <1>12
  <2>3. /\ Made(q.events) = {} /\ \A item : Added(q.events, item) = 0
        /\ q.end = "none"
    BY <2>2, NewHolds
  <2>4. Holds(q)' /\ Terminals' = {}
    BY <1>1, <2>1, <2>3, NoneHolds
  <2>5. Open(q, y)'
    BY <1>3, <1>12, <2>3, <2>4 DEF Open
  <2> QED BY <2>1, <2>4, <2>5
<1>13. ASSUME OurEvents' = OurEvents, same(p, q)
       PROVE  Holds(q)' /\ Marks' = Marks
  BY <1>1, <1>11, <1>13, SameHolds DEF same
<1>14. Ours(S) # 0 /\ Ours(S) < N => Ours(S) \in 1 .. N - 1 /\ N > 0
  BY <1>1 DEF N
<1>15. ASSUME e.type = "RUN_STARTED" /\ ~(e.id = OurRun \/ Echoed = {})
       PROVE  Goal
  <2>1. Starts' # {} /\ ~OursIsLast' /\ OurPart' = OurPart /\ Starts # {}
    BY <1>1, <1>15, StartHeard
  <2>2. N > 0 /\ Ours(T) = Ours(S) /\ Ours(S) # 0
    <3>1. Ours(S) \in Echoes(S)
      BY <1>1, <1>15, OursIs DEF SegmentsOK
    <3> QED BY <1>1, <1>6, <1>15, <2>1, <3>1 DEF N, Echoes
  <2>3. same(p, q)
    <3>1. CASE Ours(S) = N
      BY <1>7, <1>10, <1>15, <2>2, <3>1 DEF same, Lifecycle
    <3>2. CASE Ours(S) # N
      <4>1. Ours(S) \in 1 .. N - 1
        BY <1>1, <1>14, <2>2, <3>2 DEF N
      <4> QED BY <1>7, <1>10, <2>2, <4>1 DEF same
    <3> QED BY <3>1, <3>2
  <2>4. OurEvents' = OurEvents
    BY <1>1, <2>1, EventsHeard
  <2> QED BY <1>13, <2>1, <2>3, <2>4
<1>16. ASSUME e.type # "RUN_STARTED" /\ Starts = {}
       PROVE  Goal
  <2>1. Starts' = {} /\ OurPart' = {} /\ Echoed = {} /\ Ours(S) = N
    BY <1>1, <1>16, MoreHeard DEF Echoed, N
  <2>2. /\ Ours(T) = Len(T)
        /\ Len(T) = 0 \/ (Len(T) = 1 /\ T[1].end # "none")
    <3>1. CASE N = 0
      <4>1. Len(T) = 0 \/ (Len(T) = 1 /\ T[1] = [NewSegment(0) EXCEPT !.end = "errored"])
        BY <1>6, <1>16, <3>1 DEF N
      <4>2. Len(T) = 1 => T[1].run = 0 /\ T[1].end = "errored"
        BY <4>1 DEF NewSegment
      <4>3. Echoes(T) = {}
        BY <1>6, <4>1, <4>2 DEF Echoes, OurRun
      <4>4. Ours(T) = Len(T)
        BY <1>6, <4>3, OursIs DEF SegmentsOK
      <4> QED BY <4>1, <4>2, <4>4
    <3>2. CASE N > 0
      <4>1. N = 1 /\ S[1].end # "none"
        BY <1>1, <1>16, <3>2 DEF N
      <4>2. Len(T) = 1 /\ Ours(T) = 1
        BY <1>6, <1>16, <2>1, <4>1 DEF N
      <4>3. T[1].end # "none"
        BY <1>7, <1>16, <4>1 DEF Lifecycle
      <4> QED BY <4>2, <4>3
    <3> QED BY <1>1, <3>1, <3>2 DEF N
  <2>3. Made(q.events) = {} /\ \A item : item[1] \in ItemKinds => Added(q.events, item) = 0
    <3>1. CASE N = 0
      <4>1. q.events = <<>>
        <5>1. Len(T) = 0 \/ (Len(T) = 1 /\ T[1].events = <<>>)
          BY <1>6, <1>16, <3>1 DEF N, NewSegment
        <5>2. NewSegment(0).events = <<>>
          BY DEF NewSegment
        <5> QED BY <1>10, <2>2, <5>1, <5>2
      <4> QED BY <4>1, NoneMade
    <3>2. CASE N > 0
      <4>1. N = 1 /\ S[1].end # "none"
        BY <1>1, <1>16, <3>2 DEF N
      <4>2. Ours(T) = 1 /\ Ours(S) = 1
        BY <1>6, <1>16, <2>1, <3>2, <4>1 DEF N
      <4>3. same(p, q)
        BY <1>7, <1>10, <4>1, <4>2
      <4>4. OurEvents = {}
        BY <1>1, <1>16, OurPartIs DEF PartTells, OurEvents
      <4>5. Marks = {} /\ \A item : Total(PiecesOf(item)) = 0
        BY <1>1, <4>4, NothingMarked
      <4>6. Made(p.events) = {} /\ \A item : item[1] \in ItemKinds => Added(p.events, item) = 0
        BY <1>11, <4>5 DEF Holds
      <4> QED BY <4>3, <4>6 DEF same
    <3> QED BY <1>1, <3>1, <3>2 DEF N
  <2>4. Holds(q)'
    BY <1>1, <2>1, <2>3, NoneHolds
  <2> QED BY <2>1, <2>2, <2>4
<1>17. ASSUME e.type # "RUN_STARTED" /\ Starts # {} /\ ~OursIsLast
       PROVE  Goal
  <2>1. ~OursIsLast' /\ Starts' # {} /\ OurPart' = OurPart
    BY <1>1, <1>17, MoreHeard
  <2>2. Echoed # {}
    BY <1>1, <1>17, OurPartIs DEF PartTells, OursIsLast
  <2>3. /\ N > 0 /\ Ours(T) = Ours(S) /\ Ours(S) \in 1 .. N - 1
    <3>1. Ours(S) \in Echoes(S)
      BY <1>1, <2>2, OursIs DEF SegmentsOK
    <3> QED BY <1>1, <1>6, <1>14, <1>17, <3>1 DEF N, Echoes
  <2>4. same(p, q)
    BY <1>7, <1>10, <2>3 DEF same
  <2>5. OurEvents' = OurEvents
    BY <1>1, <2>1, EventsHeard
  <2> QED BY <1>13, <2>1, <2>4, <2>5
<1>18. ASSUME e.type # "RUN_STARTED" /\ Starts # {} /\ OursIsLast
       PROVE  Goal
  <2>1. OursIsLast' /\ Starts' # {} /\ OurPart' = OurPart \cup {n}
    BY <1>1, <1>18, MoreHeard
  <2>2. N > 0 /\ Ours(T) = N /\ Ours(S) = N /\ p = S[N] /\ q = T[N]
    BY <1>1, <1>6, <1>10, <1>18 DEF N
  <2>3. Open(p, x)
    BY <1>11, <1>18
  <2>4. IF e.type \in {"RUN_FINISHED", "RUN_ERROR"}
        THEN Terminals' # {} /\ OurEvents' = OurEvents
        ELSE /\ Terminals' = Terminals
             /\ Terminals = {} => OurEvents' = OurEvents \cup {n}
             /\ Terminals # {} => OurEvents' = OurEvents
    BY <1>1, <2>1, EventsHeard
  <2>5. CASE e.type \in Lifecycle
    <3>1. Terminals' # {} /\ OurEvents' = OurEvents /\ q.end # "none" /\ same(p, q)
      BY <1>7, <1>18, <2>2, <2>4, <2>5 DEF Lifecycle
    <3>2. Holds(q)'
      BY <1>13, <3>1
    <3> QED BY <2>1, <3>1, <3>2 DEF Open
  <2>6. CASE e.type \notin Lifecycle /\ p.end # "none"
    <3>1. /\ Terminals' = Terminals /\ Terminals # {} /\ OurEvents' = OurEvents
          /\ q.end # "none" /\ same(p, q)
      BY <1>7, <2>2, <2>3, <2>4, <2>6 DEF Lifecycle, Open
    <3>2. Holds(q)'
      BY <1>13, <3>1
    <3> QED BY <2>1, <3>1, <3>2 DEF Open
  <2>7. CASE e.type \notin Lifecycle /\ p.end = "none"
    <3>1. /\ Terminals' = {} /\ OurEvents' = OurEvents \cup {n} /\ q.end = "none"
          /\ Made(q.events) = Made(p.events) \cup Made(out)
          /\ \A item : Added(q.events, item) = Added(p.events, item) + Added(out, item)
      BY <1>7, <2>2, <2>3, <2>4, <2>7 DEF Lifecycle, Open
    <3>2. x.kind # "none" => <<x.kind, x.id>> \in Marks
      BY <2>3, <2>7 DEF Open
    <3>3. Holds(q)' /\ (y.kind # "none" => <<y.kind, y.id>> \in Marks')
      BY <1>1, <1>11, <3>1, <3>2, MoreHolds
    <3> QED BY <2>1, <3>1, <3>3 DEF Open
  <2> QED BY <2>5, <2>6, <2>7
<1>19. Goal
  BY <1>12, <1>15, <1>16, <1>17, <1>18
<1> QED BY <1>1, <1>2, <1>3, <1>4, <1>8, <1>9, <1>19 DEF Exact

\* What was heard stays, and so does what it says of the requested run.
LEMMA HeardStays ==
    ASSUME UNCHANGED heard
    PROVE  /\ HeardOK' = HeardOK /\ (Starts = Starts') /\ (OursIsLast = OursIsLast')
           /\ OurEvents' = OurEvents /\ Marks' = Marks /\ Terminals' = Terminals
           /\ Named' = Named
           /\ \A item : Total(PiecesOf(item))' = Total(PiecesOf(item))
<1>1. /\ Starts' = Starts /\ OurStart' = OurStart /\ OurPart' = OurPart
      /\ Terminals' = Terminals /\ OurEvents' = OurEvents /\ OursIsLast' = OursIsLast
  BY DEF OurEvents, Terminals, OurPart, OurStart, Starts, OursIsLast
<1>2. HeardOK' = HeardOK
  BY DEF HeardOK, AllNamed
<1>3. Marks' = Marks /\ Named' = Named
  BY <1>1 DEF Marks, Marking, MarkOf, ItemOf, Named, Producing
<1>4. \A item : PiecesOf(item)' = PiecesOf(item)
  BY <1>1 DEF PiecesOf, ItemOf, Producing
<1>5. \A item : Total(PiecesOf(item))' = Total(PiecesOf(item))
  BY <1>4
<1> QED BY <1>1, <1>2, <1>3, <1>5

LEMMA HoldsStays == UNCHANGED heard => \A p : Holds(p) => Holds(p)'
BY HeardStays DEF Holds

\* Nothing more joined a run.
LEMMA IgnoredExact ==
    ASSUME Exact(stream), UNCHANGED heard, stream'.segments = stream.segments,
           stream'.x = stream.x
    PROVE  Exact(stream)'
<1> PICK S, x : S = stream.segments /\ x = stream.x
  OBVIOUS
<1> PICK p : p = PartOf(stream)
  OBVIOUS
<1>1. p = PartOf(stream')
  BY DEF PartOf
<1>2. Holds(p) /\ Holds(p)'
  BY HoldsStays DEF Exact
<1>3. OpenIn(x) => OpenIn(x)'
  BY DEF OpenIn, NamedChunks
<1>4. /\ HeardOK /\ ChunkOK(x) /\ OpenIn(x)
      /\ \A k \in 1 .. Len(S) : Sized(S[k].events)
      /\ Starts = {} => Len(S) = 0 \/ (Len(S) = 1 /\ S[1].end # "none")
      /\ Starts # {} /\ OursIsLast => Open(p, x)
  BY DEF Exact
<1>5. Open(p, x) => Open(p, x)'
  BY HeardStays DEF Open
<1>6. HeardOK' /\ Starts' = Starts /\ OursIsLast' = OursIsLast
  BY <1>4, HeardStays
<1> QED BY <1>1, <1>2, <1>3, <1>4, <1>5, <1>6 DEF Exact

\* Nothing was heard yet.
LEMMA FreshExact ==
    ASSUME heard' = <<>>, stream'.segments = <<>>, stream'.x = NoChunk
    PROVE  Exact(stream)'
<1> PICK p : p = PartOf(stream')
  OBVIOUS
<1>1. IsSeq(heard') /\ Len(heard') = 0 /\ DOMAIN heard' = {}
  BY SeqEmpty, SeqDomain
<1>2. HeardOK'
  BY <1>1 DEF HeardOK, AllNamed
<1>3. ChunkOK(NoChunk) /\ NoChunk.kind = "none"
  BY DEF ChunkOK, NoChunk
<1>4. OpenIn(NoChunk)'
  BY <1>3 DEF OpenIn
<1>5. Starts' = {}
  BY <1>1 DEF Starts
<1>6. OurPart' = {}
  <2>1. PartTells'
    BY <1>1, OurPartIsNext
  <2> QED BY <1>5, <2>1 DEF PartTells
<1>7. OurEvents' = {}
  BY <1>6 DEF OurEvents
<1>8. Marks' = {} /\ \A item : Total(PiecesOf(item))' = 0
  BY <1>1, <1>7, PiecesNone DEF Marks, Marking
<1>9. p = NewSegment(0)
  <2>1. Ours(<<>>) = 0
    BY OursIs, SeqEmpty DEF Echoes
  <2> QED BY <2>1 DEF PartOf
<1>10. Holds(p)'
  BY <1>8, <1>9, NewHolds DEF Holds
<1>11. Len(<<>>) = 0
  BY SeqEmpty
<1> QED BY <1>2, <1>3, <1>4, <1>5, <1>10, <1>11 DEF Exact

\* The requested run's part of the stream is what was heard of it, all the while
\* the stream is read.
ExactInv == pc = "reading" => Exact(stream)

LEMMA StepExact ==
    ASSUME CarryInv, StreamInv, SurfaceInv, ExactInv, [Next]_vars
    PROVE  ExactInv'
<1>1. CASE Post
  <2>1. CASE PostRefused
    BY <2>1 DEF PostRefused, ExactInv
  <2>2. CASE ~PostRefused
    <3>1. PICK body \in Bodies(Len(runs) + 1), tail \in Tails : PostAccepted(body, tail)
      BY <1>1, <2>2 DEF Post
    <3> DEFINE st == [NoStream EXCEPT !.body = body, !.tail = tail]
    <3>2. stream' = st /\ heard' = <<>>
      BY <3>1 DEF PostAccepted
    <3>3. st.segments = <<>> /\ st.x = NoChunk
      BY DEF NoStream
    <3> HIDE DEF st
    <3> QED BY <3>2, <3>3, FreshExact DEF ExactInv
  <2> QED BY <2>1, <2>2
<1>2. CASE Reading
  <2>1. pc = "reading" /\ Reader(stream) /\ Exact(stream) /\ Reads(stream.segments)
    BY <1>2, ReadingRuns DEF StreamInv, ExactInv, SurfaceInv, CarryInv
  <2>2. CASE Settled
    BY <2>2, SettledTells DEF ExactInv
  <2>3. CASE Ignored
    BY <2>1, <2>3, IgnoredExact DEF ExactInv, Ignored
  <2>4. CASE Reader(stream') /\ Taken
    BY <2>1, <2>4, TakenExact DEF ExactInv
  <2> QED BY <1>2, <2>1, <2>2, <2>3, <2>4, ReadingTells
<1>3. CASE ~Post /\ ~Reading
  <2>1. pc' # "reading" \/ UNCHANGED <<pc, stream, heard>>
    BY <1>3 DEF Next, Cancel, Expire, RejectScript, Deciding, RunFails, CancelledRun,
                Complete, AnswerRequests, FollowUp, Return, Stopped, End, vars, client
  <2> QED BY <2>1, IgnoredExact DEF ExactInv
<1> QED BY <1>1, <1>2, <1>3

-----------------------------------------------------------------------------
(* Reducing: the messages of a thread, and what an event does to them.     *)

MessageOK(m) == DOMAIN m = {"id", "role", "len", "calls", "tool"}
HistoryOK(h) == IsSeq(h) /\ \A i \in DOMAIN h : MessageOK(h[i])

LEMMA FindIs ==
    ASSUME NEW h, IsSeq(h), NEW id
    PROVE  /\ Find(h, id) # 0 => Find(h, id) \in DOMAIN h /\ h[Find(h, id)].id = id
           /\ Find(h, id) = 0 => \A i \in DOMAIN h : h[i].id # id
<1> DEFINE I == {i \in 1 .. Len(h) : h[i].id = id}
<1>1. Len(h) \in Nat /\ DOMAIN h = 1 .. Len(h)
  BY SeqDomain
<1>2. Find(h, id) = IF I # {} THEN Max(I) ELSE 0
  BY Zenon DEF Find, SelectLastInSeq
<1>3. I # {} => Max(I) \in I
  <2>1. I \in SUBSET (0 .. Len(h))
    BY <1>1
  <2> HIDE DEF I
  <2> QED BY <1>1, <2>1, LargestUpTo
<1>4. \A i \in I : i # 0
  BY <1>1
<1>5. \A i \in DOMAIN h : h[i].id = id => I # {}
  BY <1>1
<1>6. \A i \in I : i \in DOMAIN h /\ h[i].id = id
  BY <1>1
<1> HIDE DEF I
<1> QED BY <1>2, <1>3, <1>4, <1>5, <1>6

LEMMA CallAtIs ==
    ASSUME NEW c, IsSeq(c.calls), NEW id
    PROVE  /\ CallAt(c, id) # 0 =>
                 CallAt(c, id) \in DOMAIN c.calls /\ c.calls[CallAt(c, id)].id = id
           /\ CallAt(c, id) = 0 => \A i \in DOMAIN c.calls : c.calls[i].id # id
<1> DEFINE h == c.calls
           I == {i \in 1 .. Len(h) : h[i].id = id}
<1>1. Len(h) \in Nat /\ DOMAIN h = 1 .. Len(h)
  BY SeqDomain
<1>2. CallAt(c, id) = IF I # {} THEN Min(I) ELSE 0
  BY Zenon DEF CallAt, SelectInSeq
<1>3. I # {} => Min(I) \in I
  <2>1. I \in SUBSET Nat
    BY <1>1
  <2> HIDE DEF I
  <2> QED BY <2>1, SmallestUpTo
<1>4. \A i \in I : i # 0
  BY <1>1
<1>5. \A i \in DOMAIN h : h[i].id = id => I # {}
  BY <1>1
<1>6. \A i \in I : i \in DOMAIN h /\ h[i].id = id
  BY <1>1
<1> HIDE DEF I
<1> QED BY <1>2, <1>3, <1>4, <1>5, <1>6

\* No message of g has more text than one with its id has in h.
Lighter(h, g) ==
    /\ HistoryOK(g)
    /\ \A j \in DOMAIN g : \/ g[j].len = 0
                           \/ \E i \in DOMAIN h : h[i].id = g[j].id /\ h[i].len = g[j].len

LEMMA LighterSame == \A h : HistoryOK(h) => Lighter(h, h)
BY DEF Lighter

LEMMA LighterAgain ==
    \A f, g, h : Lighter(f, g) /\ Lighter(g, h) => Lighter(f, h)
<1> SUFFICES ASSUME NEW f, NEW g, NEW h, Lighter(f, g), Lighter(g, h) PROVE Lighter(f, h)
  OBVIOUS
<1>1. ASSUME NEW j \in DOMAIN h
      PROVE  h[j].len = 0 \/ \E i \in DOMAIN f : f[i].id = h[j].id /\ f[i].len = h[j].len
  <2>1. CASE \E k \in DOMAIN g : g[k].id = h[j].id /\ g[k].len = h[j].len
    <3>1. PICK k \in DOMAIN g : g[k].id = h[j].id /\ g[k].len = h[j].len
      BY <2>1
    <3>2. g[k].len = 0 \/ \E i \in DOMAIN f : f[i].id = g[k].id /\ f[i].len = g[k].len
      BY DEF Lighter
    <3> QED BY <3>1, <3>2
  <2> QED BY <2>1 DEF Lighter
<1> QED BY <1>1 DEF Lighter

LEMMA LighterNew ==
    ASSUME NEW h, HistoryOK(h), NEW m, MessageOK(m), m.len = 0
    PROVE  Lighter(h, Append(h, m))
<1> DEFINE g == Append(h, m)
           n == Len(h)
<1>1. /\ IsSeq(g) /\ DOMAIN g = 1 .. n + 1 /\ g[n + 1] = m
      /\ \A i \in 1 .. n : g[i] = h[i] /\ i \in DOMAIN h
      /\ n \in Nat
  BY SeqAppend, SeqDomain DEF HistoryOK
<1> HIDE DEF g
<1>2. \A i \in 1 .. n + 1 : i = n + 1 \/ i \in 1 .. n
  BY <1>1
<1>3. Lighter(h, g)
  BY <1>1, <1>2 DEF Lighter, HistoryOK
<1> QED BY <1>3 DEF g

LEMMA LighterPut ==
    ASSUME NEW h, HistoryOK(h), NEW k \in DOMAIN h, NEW m, MessageOK(m),
           m.len = 0 \/ (m.id = h[k].id /\ m.len = h[k].len)
    PROVE  Lighter(h, [h EXCEPT ![k] = m])
<1> DEFINE g == [h EXCEPT ![k] = m]
<1>1. /\ IsSeq(g) /\ DOMAIN g = DOMAIN h /\ g[k] = m
      /\ \A i \in DOMAIN h \ {k} : g[i] = h[i]
  BY SeqExcept, SeqDomain DEF HistoryOK
<1> HIDE DEF g
<1>2. Lighter(h, g)
  BY <1>1 DEF Lighter, HistoryOK
<1> QED BY <1>2 DEF g

LEMMA LighterCalls ==
    ASSUME NEW h, HistoryOK(h), NEW k, NEW x
    PROVE  Lighter(h, [h EXCEPT ![k].calls = x])
<1> DEFINE g == [h EXCEPT ![k].calls = x]
<1>1. CASE k \in DOMAIN h
  <2> DEFINE m == [h[k] EXCEPT !.calls = x]
  <2>1. g = [h EXCEPT ![k] = m]
    OBVIOUS
  <2>2. MessageOK(m) /\ m.id = h[k].id /\ m.len = h[k].len
    BY <1>1 DEF HistoryOK, MessageOK
  <2> HIDE DEF m
  <2>3. Lighter(h, [h EXCEPT ![k] = m])
    BY <1>1, <2>2, LighterPut
  <2> QED BY <2>1, <2>3
<1>2. CASE k \notin DOMAIN h
  <2>1. g = h
    BY <1>2 DEF HistoryOK, IsSeq
  <2> QED BY <2>1, LighterSame
<1> QED BY <1>1, <1>2

\* No call of ds has more arguments than one with its id has in cs, and no call of
\* cs is lost.
Leaner(cs, ds) ==
    /\ CallsOK(ds)
    /\ \A j \in DOMAIN ds : \/ ds[j].args = 0
                            \/ \E i \in DOMAIN cs : cs[i].id = ds[j].id /\ cs[i].args = ds[j].args
    /\ \A i \in DOMAIN cs : \E j \in DOMAIN ds : ds[j].id = cs[i].id

LEMMA LeanerSame == \A cs : CallsOK(cs) => Leaner(cs, cs)
BY DEF Leaner

LEMMA LeanerAgain ==
    \A cs, ds, es : Leaner(cs, ds) /\ Leaner(ds, es) => Leaner(cs, es)
<1> SUFFICES ASSUME NEW cs, NEW ds, NEW es, Leaner(cs, ds), Leaner(ds, es)
             PROVE  Leaner(cs, es)
  OBVIOUS
<1>1. ASSUME NEW j \in DOMAIN es
      PROVE  \/ es[j].args = 0
             \/ \E i \in DOMAIN cs : cs[i].id = es[j].id /\ cs[i].args = es[j].args
  <2>1. CASE \E k \in DOMAIN ds : ds[k].id = es[j].id /\ ds[k].args = es[j].args
    <3>1. PICK k \in DOMAIN ds : ds[k].id = es[j].id /\ ds[k].args = es[j].args
      BY <2>1
    <3>2. ds[k].args = 0 \/ \E i \in DOMAIN cs : cs[i].id = ds[k].id /\ cs[i].args = ds[k].args
      BY DEF Leaner
    <3> QED BY <3>1, <3>2
  <2> QED BY <2>1 DEF Leaner
<1>2. ASSUME NEW i \in DOMAIN cs PROVE \E j \in DOMAIN es : es[j].id = cs[i].id
  <2>1. PICK k \in DOMAIN ds : ds[k].id = cs[i].id
    BY DEF Leaner
  <2>2. PICK j \in DOMAIN es : es[j].id = ds[k].id
    BY DEF Leaner
  <2> QED BY <2>1, <2>2
<1> QED BY <1>1, <1>2 DEF Leaner

LEMMA LeanerNew ==
    ASSUME NEW cs, CallsOK(cs), NEW run, NEW id, NEW name
    PROVE  /\ Leaner(cs, Append(cs, NewCall(run, id, name, 0)))
           /\ \E j \in DOMAIN Append(cs, NewCall(run, id, name, 0)) :
                  Append(cs, NewCall(run, id, name, 0))[j].id = id
<1> DEFINE tc == NewCall(run, id, name, 0)
           ds == Append(cs, tc)
           n == Len(cs)
<1>1. CallOK(tc) /\ tc.args = 0 /\ tc.id = id
  BY DEF CallOK, NewCall
<1> HIDE DEF tc
<1>2. /\ IsSeq(ds) /\ DOMAIN ds = 1 .. n + 1 /\ ds[n + 1] = tc
      /\ \A i \in 1 .. n : ds[i] = cs[i] /\ i \in 1 .. n + 1
      /\ n + 1 \in 1 .. n + 1
      /\ n \in Nat /\ DOMAIN cs = 1 .. n
  BY SeqAppend, SeqDomain DEF CallsOK
<1> HIDE DEF ds, n
<1>3. \A i \in 1 .. n + 1 : i = n + 1 \/ i \in 1 .. n
  BY <1>2
<1>4. CallsOK(ds)
  BY <1>1, <1>2, <1>3 DEF CallsOK
<1>5. Leaner(cs, ds) /\ \E j \in DOMAIN ds : ds[j].id = id
  BY <1>1, <1>2, <1>3, <1>4 DEF Leaner
<1> QED BY <1>5 DEF ds, tc

LEMMA LeanerResult ==
    ASSUME NEW cs, CallsOK(cs), NEW at, NEW x
    PROVE  Leaner(cs, [cs EXCEPT ![at].result = x])
<1> DEFINE ds == [cs EXCEPT ![at].result = x]
<1>1. CASE at \in DOMAIN cs
  <2> DEFINE tc == [cs[at] EXCEPT !.result = x]
  <2>1. ds = [cs EXCEPT ![at] = tc]
    OBVIOUS
  <2>2. CallOK(tc) /\ tc.id = cs[at].id /\ tc.args = cs[at].args
    BY <1>1 DEF CallsOK, CallOK
  <2> HIDE DEF tc
  <2>3. /\ IsSeq(ds) /\ DOMAIN ds = DOMAIN cs /\ ds[at] = tc
        /\ \A i \in DOMAIN cs \ {at} : ds[i] = cs[i]
    BY <1>1, <2>1, SeqExcept, SeqDomain DEF CallsOK
  <2> HIDE DEF ds
  <2>4. CallsOK(ds)
    BY <2>2, <2>3 DEF CallsOK
  <2>5. Leaner(cs, ds)
    BY <1>1, <2>2, <2>3, <2>4 DEF Leaner
  <2> QED BY <2>5 DEF ds
<1>2. CASE at \notin DOMAIN cs
  <2>1. ds = cs
    BY <1>2 DEF CallsOK, IsSeq
  <2> QED BY <2>1, LeanerSame
<1> QED BY <1>1, <1>2

Whole(r) == ReducingOK(r) /\ HistoryOK(r.c.history) /\ IsSeq(r.refs)

\* r goes on as q, with these items more.
Moves(r, q, items) ==
    /\ Whole(q) /\ Lighter(r.c.history, q.c.history) /\ Leaner(r.c.calls, q.c.calls)
    /\ ToSet(q.refs) = ToSet(r.refs) \cup items

LEMMA MovesAgain ==
    \A r, q, s, A, B : Moves(r, q, A) /\ Moves(q, s, B) => Moves(r, s, A \cup B)
<1> SUFFICES ASSUME NEW r, NEW q, NEW s, NEW A, NEW B, Moves(r, q, A), Moves(q, s, B)
             PROVE  Moves(r, s, A \cup B)
  OBVIOUS
<1>1. ToSet(s.refs) = ToSet(r.refs) \cup (A \cup B)
  BY DEF Moves
<1> QED BY <1>1, LighterAgain, LeanerAgain DEF Moves

\* Nothing changes but what the items do not depend on.
LEMMA MovesAside ==
    \A r, q : /\ Whole(r) /\ Aside(r, q) /\ q.refs = r.refs
              /\ Lighter(r.c.history, q.c.history)
              => Moves(r, q, {})
<1> SUFFICES ASSUME NEW r, NEW q, Whole(r), Aside(r, q), q.refs = r.refs,
                    Lighter(r.c.history, q.c.history)
             PROVE  Moves(r, q, {})
  OBVIOUS
<1>1. ReducingOK(q)
  BY AsideReduces DEF Whole, Reduces
<1>2. Leaner(r.c.calls, q.c.calls)
  BY LeanerSame DEF Whole, ReducingOK, ThreadOK, Aside
<1> QED BY <1>1, <1>2 DEF Moves, Whole, Lighter

LEMMA MovesSelf == \A r : Whole(r) => Moves(r, r, {})
BY LighterSame, LeanerSame DEF Moves, Whole, ReducingOK, ThreadOK

LEMMA SetAppend ==
    ASSUME NEW s, IsSeq(s), NEW x
    PROVE  IsSeq(Append(s, x)) /\ ToSet(Append(s, x)) = ToSet(s) \cup {x}
<1> DEFINE t == Append(s, x)
           n == Len(s)
<1>1. /\ IsSeq(t) /\ DOMAIN t = 1 .. n + 1 /\ t[n + 1] = x
      /\ \A i \in 1 .. n : t[i] = s[i]
      /\ DOMAIN s = 1 .. n /\ n \in Nat
  BY SeqAppend, SeqDomain
<1> HIDE DEF t, n
<1>2. 1 .. n + 1 = (1 .. n) \cup {n + 1}
  BY <1>1
<1>3. ToSet(t) = ToSet(s) \cup {x}
  BY <1>1, <1>2 DEF ToSet
<1> QED BY <1>1, <1>3 DEF t

LEMMA RefMoves ==
    \A r, kind, id : Whole(r) =>
        /\ Moves(r, Ref(r, kind, id), {<<kind, id>>}) /\ Ref(r, kind, id).c = r.c
<1> SUFFICES ASSUME NEW r, NEW kind, NEW id, Whole(r)
             PROVE  /\ Moves(r, Ref(r, kind, id), {<<kind, id>>})
                    /\ Ref(r, kind, id).c = r.c
  OBVIOUS
<1> DEFINE item == <<kind, id>>
           q == [r EXCEPT !.refs = Append(@, item)]
<1>1. Ref(r, kind, id) = IF item \in ToSet(r.refs) THEN r ELSE q
  BY DEF Ref
<1>2. CASE item \in ToSet(r.refs)
  <2>1. ToSet(r.refs) = ToSet(r.refs) \cup {item}
    BY <1>2
  <2> HIDE DEF item
  <2> QED BY <1>1, <1>2, <2>1, MovesSelf DEF Moves, item
<1>3. CASE item \notin ToSet(r.refs)
  <2> HIDE DEF item
  <2>1. q.c = r.c /\ q.refs = Append(r.refs, item) /\ DOMAIN q = DOMAIN r
    BY DEF Whole, ReducingOK
  <2> HIDE DEF q
  <2>2. IsSeq(q.refs) /\ ToSet(q.refs) = ToSet(r.refs) \cup {item}
    BY <2>1, SetAppend DEF Whole
  <2>3. Whole(q)
    BY <2>1, <2>2 DEF Whole, ReducingOK
  <2>4. Moves(r, q, {item})
    BY <2>1, <2>2, <2>3, LighterSame, LeanerSame DEF Moves, Whole, ReducingOK, ThreadOK
  <2> QED BY <1>1, <1>3, <2>1, <2>4 DEF item
<1> QED BY <1>2, <1>3

\* The builders g are the builders f with this value for id.
Grows(f, g, id, value) ==
    /\ DOMAIN g = DOMAIN f \cup {id} /\ g[id] = value
    /\ \A x \in DOMAIN f \ {id} : g[x] = f[x]

Going(f, id, base) == IF id \in DOMAIN f THEN f[id] ELSE base
TextHeld(c, id) == LET i == Find(c.history, id) IN IF i = 0 THEN 0 ELSE c.history[i].len
ArgsHeld(c, id) == LET at == CallAt(c, id) IN IF at = 0 THEN 0 ELSE c.calls[at].args

LEMMA BuilderGrows ==
    \A f, id, base : Grows(f, WithBuilder(f, id, base), id, Going(f, id, base))
BY DEF Grows, WithBuilder, Going

LEMMA WrittenGrows ==
    ASSUME NEW f, NEW g, NEW id, NEW value, Grows(f, g, id, value), NEW d
    PROVE  Grows(f, [g EXCEPT ![id] = @ + d], id, value + d)
BY DEF Grows

LEMMA NewMessage ==
    \A id, role, tool : MessageOK(Message(id, role, tool)) /\ Message(id, role, tool).len = 0
BY DEF MessageOK, Message

LEMMA OpenMessageMoves ==
    ASSUME NEW r, Whole(r), NEW id, NEW role, NEW kind,
           NEW q, q = OpenMessage(r, id, role, kind)
    PROVE  /\ Moves(r, q, {<<kind, id>>}) /\ q.c.args = r.c.args
           /\ Grows(r.c.text, q.c.text, id, Going(r.c.text, id, TextHeld(r.c, id)))
<1> DEFINE c == r.c
           i == Find(c.history, id)
           base == IF i = 0 THEN 0 ELSE c.history[i].len
           h == IF i = 0 THEN Append(c.history, Message(id, role, 0)) ELSE c.history
           s == [r EXCEPT !.c.history = IF i = 0 THEN Append(@, Message(id, role, 0)) ELSE @,
                          !.c.text = WithBuilder(@, id, base),
                          !.opened = @ \cup {id},
                          !.roles = @ @@ (id :> role)]
<1>1. q = Ref(s, kind, id)
  BY Zenon DEF OpenMessage
<1>2. base = TextHeld(c, id)
  BY DEF TextHeld
<1> HIDE DEF i, base
<1>3. /\ Aside(r, s) /\ s.refs = r.refs /\ s.c.history = h
      /\ s.c.text = WithBuilder(c.text, id, base) /\ s.c.args = c.args
  BY DEF Aside, Whole, ReducingOK, ThreadOK
<1> HIDE DEF s
<1>4. Lighter(c.history, h) /\ HistoryOK(h)
  <2>1. Lighter(c.history, c.history)
    BY LighterSame DEF Whole
  <2>2. Lighter(c.history, Append(c.history, Message(id, role, 0)))
    BY LighterNew, NewMessage DEF Whole
  <2> QED BY <2>1, <2>2 DEF Lighter
<1>5. Moves(r, s, {})
  BY <1>3, <1>4, MovesAside
<1>6. Moves(s, q, {<<kind, id>>}) /\ q.c = s.c
  BY <1>1, <1>5, RefMoves DEF Moves
<1>7. Moves(r, q, {} \cup {<<kind, id>>})
  BY <1>5, <1>6, MovesAgain
<1>8. Grows(c.text, q.c.text, id, Going(c.text, id, base))
  BY <1>3, <1>6, BuilderGrows
<1> QED BY <1>2, <1>3, <1>6, <1>7, <1>8

\* Only the text or the arguments being streamed change.
LEMMA MovesBuilders ==
    ASSUME NEW r, Whole(r), NEW q, Aside(r, q), q.refs = r.refs, q.c.history = r.c.history
    PROVE  Moves(r, q, {})
BY MovesAside, LighterSame DEF Whole

\* The item of a builder that is not open yet.
Fresh(f, kind, id) == IF id \in DOMAIN f THEN {} ELSE {<<kind, id>>}

LEMMA WriteTextMoves ==
    ASSUME NEW r, Whole(r), NEW e, NEW role, NEW q, q = WriteText(r, e, role)
    PROVE  /\ Moves(r, q, Fresh(r.c.text, e.kind, e.id))
           /\ q.c.args = r.c.args
           /\ Grows(r.c.text, q.c.text, e.id,
                    Going(r.c.text, e.id, TextHeld(r.c, e.id)) + e.delta)
<1> DEFINE items == IF e.id \in DOMAIN r.c.text THEN {} ELSE {<<e.kind, e.id>>}
           value == Going(r.c.text, e.id, TextHeld(r.c, e.id))
<1>1. PICK s : /\ Moves(r, s, items) /\ s.c.args = r.c.args
               /\ Grows(r.c.text, s.c.text, e.id, value)
               /\ q = [s EXCEPT !.c.text[e.id] = @ + e.delta]
  <2>1. CASE e.id \in DOMAIN r.c.text
    <3>1. Moves(r, r, items)
      BY <2>1, MovesSelf
    <3>2. Grows(r.c.text, r.c.text, e.id, value)
      BY <2>1 DEF Grows, Going
    <3>3. q = [r EXCEPT !.c.text[e.id] = @ + e.delta]
      BY <2>1 DEF WriteText
    <3> HIDE DEF items, value
    <3> QED BY <3>1, <3>2, <3>3
  <2>2. CASE e.id \notin DOMAIN r.c.text
    <3> DEFINE s == OpenMessage(r, e.id, role, e.kind)
    <3>1. /\ Moves(r, s, {<<e.kind, e.id>>}) /\ s.c.args = r.c.args
          /\ Grows(r.c.text, s.c.text, e.id, value)
      BY OpenMessageMoves
    <3>2. q = [s EXCEPT !.c.text[e.id] = @ + e.delta]
      BY <2>2, Zenon DEF WriteText
    <3>3. items = {<<e.kind, e.id>>}
      BY <2>2
    <3> HIDE DEF s, items, value
    <3> QED BY <3>1, <3>2, <3>3
  <2> QED BY <2>1, <2>2
<1> HIDE DEF items, value
<1>2. Whole(s)
  BY <1>1 DEF Moves
<1>3. /\ Aside(s, q) /\ q.refs = s.refs /\ q.c.history = s.c.history
      /\ q.c.text = [s.c.text EXCEPT ![e.id] = @ + e.delta] /\ q.c.args = s.c.args
  BY <1>1, <1>2 DEF Aside, Whole, ReducingOK, ThreadOK
<1>4. Moves(s, q, {})
  BY <1>2, <1>3, MovesBuilders
<1>5. Moves(r, q, items \cup {})
  BY <1>1, <1>4, MovesAgain
<1>6. items \cup {} = items
  OBVIOUS
<1>7. Grows(r.c.text, q.c.text, e.id, value + e.delta)
  BY <1>1, <1>3, WrittenGrows
<1>8. Moves(r, q, items)
  BY <1>5, <1>6
<1> QED BY <1>1, <1>3, <1>7, <1>8 DEF items, value, Fresh

HasCall(c, id) == \E i \in DOMAIN c.calls : c.calls[i].id = id

LEMMA WithParentMoves ==
    ASSUME NEW r, Whole(r), NEW parent
    PROVE  LET s == WithParent(r, parent).r
           IN  /\ Moves(r, s, {}) /\ Aside(r, s) /\ s.refs = r.refs
               /\ s.c.text = r.c.text /\ s.c.args = r.c.args
<1> DEFINE s == WithParent(r, parent).r
           id == IF parent # 0 /\ Find(r.c.history, parent) = 0 THEN parent ELSE r.c.fresh + 1
           q == [r EXCEPT !.c.history = Append(@, Message(id, "assistant", 0)),
                          !.c.fresh = IF id > ClientIds THEN id ELSE @,
                          !.opened = @ \cup {id},
                          !.roles = (id :> "assistant") @@ @]
<1>1. s \in {r, q}
  BY DEF WithParent
<1>2. Aside(r, s)
  BY WithParentAside DEF Whole
<1>3. /\ q.refs = r.refs /\ q.c.history = Append(r.c.history, Message(id, "assistant", 0))
      /\ q.c.text = r.c.text /\ q.c.args = r.c.args
  BY DEF Whole, ReducingOK, ThreadOK
<1> HIDE DEF s, q, id
<1>4. /\ Lighter(r.c.history, r.c.history)
      /\ Lighter(r.c.history, Append(r.c.history, Message(id, "assistant", 0)))
  BY LighterSame, LighterNew, NewMessage DEF Whole
<1>5. Lighter(r.c.history, s.c.history) /\ s.refs = r.refs
  BY <1>1, <1>3, <1>4
<1>6. Moves(r, s, {})
  BY <1>2, <1>5, MovesAside
<1> QED BY <1>1, <1>2, <1>3, <1>5, <1>6 DEF s

LEMMA OpenCallMoves ==
    ASSUME NEW r, Whole(r), NEW id, NEW name, NEW parent,
           NEW q, q = OpenCall(r, id, name, parent)
    PROVE  /\ Moves(r, q, {<<"call", id>>}) /\ q.c.text = r.c.text
           /\ Grows(r.c.args, q.c.args, id, Going(r.c.args, id, ArgsHeld(r.c, id)))
           /\ HasCall(q.c, id)
<1> DEFINE at == CallAt(r.c, id)
           base == IF at = 0 THEN 0 ELSE r.c.calls[at].args
           host == WithParent(r, parent)
           new == [host.r EXCEPT !.c.calls = Append(@, NewCall(r.run, id, name, 0)),
                                 !.c.history[host.at].calls = Append(@, id)]
           known == IF at # 0 THEN r ELSE new
           s == [known EXCEPT !.c.args = WithBuilder(@, id, base)]
<1>1. q = Ref(s, "call", id)
  BY Zenon DEF OpenCall
<1>2. base = ArgsHeld(r.c, id)
  BY DEF ArgsHeld
<1>3. at # 0 => HasCall(r.c, id)
  BY CallAtIs DEF HasCall, Whole, ReducingOK, ThreadOK, CallsOK
<1> HIDE DEF at, base
<1>4. /\ Moves(r, host.r, {}) /\ Aside(r, host.r) /\ host.r.refs = r.refs
      /\ host.r.c.text = r.c.text /\ host.r.c.args = r.c.args
  BY WithParentMoves
<1> HIDE DEF host
<1>5. /\ Moves(r, new, {}) /\ new.c.text = r.c.text /\ new.c.args = r.c.args
      /\ HasCall(new.c, id)
  <2> DEFINE h == host.r.c.history
             x == Append(h[host.at].calls, id)
             cs == r.c.calls
             tc == NewCall(r.run, id, name, 0)
  <2>1. Whole(host.r) /\ host.r.c.calls = cs /\ HistoryOK(h)
    BY <1>4 DEF Moves, Aside, Whole
  <2>2. /\ DOMAIN new = DOMAIN host.r /\ DOMAIN new.c = DOMAIN host.r.c
        /\ new.c.calls = Append(cs, tc)
        /\ new.c.history = [h EXCEPT ![host.at].calls = x]
        /\ new.refs = host.r.refs /\ new.c.text = host.r.c.text /\ new.c.args = host.r.c.args
    BY <2>1 DEF Whole, ReducingOK, ThreadOK
  <2> HIDE DEF new, x, tc
  <2>3. Lighter(h, new.c.history)
    <3> HIDE DEF h
    <3>1. \A k, y : Lighter(h, [h EXCEPT ![k].calls = y])
      BY <2>1, LighterCalls
    <3>2. Lighter(h, [h EXCEPT ![host.at].calls = x])
      BY <3>1, Zenon
    <3> QED BY <2>2, <3>2
  <2>4. HistoryOK(new.c.history)
    BY <2>3 DEF Lighter
  <2>5. CallsOK(cs)
    BY DEF Whole, ReducingOK, ThreadOK
  <2>6. /\ Leaner(cs, new.c.calls)
        /\ HasCall(new.c, id)
    <3> HIDE DEF cs, h
    <3>1. /\ Leaner(cs, Append(cs, tc))
          /\ \E j \in DOMAIN Append(cs, tc) : Append(cs, tc)[j].id = id
      BY <2>5, LeanerNew DEF tc
    <3> QED BY <2>2, <3>1 DEF HasCall
  <2>7. CallsOK(new.c.calls)
    BY <2>6 DEF Leaner
  <2>8. Whole(new)
    BY <2>1, <2>2, <2>4, <2>7 DEF Whole, ReducingOK, ThreadOK
  <2>9. Moves(host.r, new, {})
    BY <2>1, <2>2, <2>3, <2>6, <2>8 DEF Moves
  <2>10. Moves(r, new, {} \cup {})
    BY <1>4, <2>9, MovesAgain
  <2> QED BY <1>4, <2>2, <2>6, <2>10
<1> HIDE DEF new
<1>6. /\ Moves(r, known, {}) /\ known.c.text = r.c.text /\ known.c.args = r.c.args
      /\ HasCall(known.c, id)
  BY <1>3, <1>5, MovesSelf
<1> HIDE DEF known
<1>7. Whole(known)
  BY <1>6 DEF Moves
<1>8. /\ Aside(known, s) /\ s.refs = known.refs /\ s.c.history = known.c.history
      /\ s.c.text = known.c.text /\ s.c.args = WithBuilder(known.c.args, id, base)
      /\ s.c.calls = known.c.calls
  BY <1>7 DEF Aside, Whole, ReducingOK, ThreadOK
<1> HIDE DEF s
<1>9. Moves(known, s, {})
  BY <1>7, <1>8, MovesBuilders
<1>10. Moves(s, q, {<<"call", id>>}) /\ q.c = s.c
  BY <1>1, <1>9, RefMoves DEF Moves
<1>11. Moves(r, q, ({} \cup {}) \cup {<<"call", id>>})
  BY <1>6, <1>9, <1>10, MovesAgain
<1>12. Grows(r.c.args, q.c.args, id, Going(r.c.args, id, base))
  BY <1>6, <1>8, <1>10, BuilderGrows
<1> QED BY <1>2, <1>6, <1>8, <1>10, <1>11, <1>12 DEF HasCall

LEMMA WriteArgsMoves ==
    ASSUME NEW r, Whole(r), NEW e, NEW q, q = WriteArgs(r, e)
    PROVE  /\ Moves(r, q, Fresh(r.c.args, "call", e.id))
           /\ q.c.text = r.c.text
           /\ Grows(r.c.args, q.c.args, e.id,
                    Going(r.c.args, e.id, ArgsHeld(r.c, e.id)) + e.delta)
           /\ e.id \notin DOMAIN r.c.args => HasCall(q.c, e.id)
<1> DEFINE items == IF e.id \in DOMAIN r.c.args THEN {} ELSE {<<"call", e.id>>}
           value == Going(r.c.args, e.id, ArgsHeld(r.c, e.id))
<1>1. PICK s : /\ Moves(r, s, items) /\ s.c.text = r.c.text
               /\ Grows(r.c.args, s.c.args, e.id, value)
               /\ e.id \notin DOMAIN r.c.args => HasCall(s.c, e.id)
               /\ q = [s EXCEPT !.c.args[e.id] = @ + e.delta]
  <2>1. CASE e.id \in DOMAIN r.c.args
    <3>1. Moves(r, r, items)
      BY <2>1, MovesSelf
    <3>2. Grows(r.c.args, r.c.args, e.id, value)
      BY <2>1 DEF Grows, Going
    <3>3. q = [r EXCEPT !.c.args[e.id] = @ + e.delta]
      BY <2>1 DEF WriteArgs
    <3> HIDE DEF items, value
    <3> QED BY <2>1, <3>1, <3>2, <3>3
  <2>2. CASE e.id \notin DOMAIN r.c.args
    <3> DEFINE s == OpenCall(r, e.id, "none", 0)
    <3>1. /\ Moves(r, s, {<<"call", e.id>>}) /\ s.c.text = r.c.text
          /\ Grows(r.c.args, s.c.args, e.id, value) /\ HasCall(s.c, e.id)
      BY OpenCallMoves
    <3>2. q = [s EXCEPT !.c.args[e.id] = @ + e.delta]
      BY <2>2, Zenon DEF WriteArgs
    <3>3. items = {<<"call", e.id>>}
      BY <2>2
    <3> HIDE DEF s, items, value
    <3> QED BY <3>1, <3>2, <3>3
  <2> QED BY <2>1, <2>2
<1> HIDE DEF items, value
<1>2. Whole(s)
  BY <1>1 DEF Moves
<1>3. /\ Aside(s, q) /\ q.refs = s.refs /\ q.c.history = s.c.history
      /\ q.c.args = [s.c.args EXCEPT ![e.id] = @ + e.delta] /\ q.c.text = s.c.text
      /\ q.c.calls = s.c.calls
  BY <1>1, <1>2 DEF Aside, Whole, ReducingOK, ThreadOK
<1>4. Moves(s, q, {})
  BY <1>2, <1>3, MovesBuilders
<1>5. Moves(r, q, items \cup {})
  BY <1>1, <1>4, MovesAgain
<1>6. items \cup {} = items
  OBVIOUS
<1>7. Grows(r.c.args, q.c.args, e.id, value + e.delta)
  BY <1>1, <1>3, WrittenGrows
<1>8. Moves(r, q, items) /\ (e.id \notin DOMAIN r.c.args => HasCall(q.c, e.id))
  BY <1>1, <1>3, <1>5, <1>6 DEF HasCall
<1> QED BY <1>1, <1>3, <1>7, <1>8 DEF items, value, Fresh

LEMMA SetResultMoves ==
    ASSUME NEW r, Whole(r), NEW id, NEW q, q = SetResult(r, id)
    PROVE  Moves(r, q, {}) /\ q.c.text = r.c.text /\ q.c.args = r.c.args
<1> DEFINE at == CallAt(r.c, id)
           s == [r EXCEPT !.c.calls[at].result = "agent"]
           cs == r.c.calls
<1>1. q \in {r, s}
  BY DEF SetResult
<1> HIDE DEF at
<1>2. /\ DOMAIN s = DOMAIN r /\ DOMAIN s.c = DOMAIN r.c /\ s.c.history = r.c.history
      /\ s.refs = r.refs /\ s.c.text = r.c.text /\ s.c.args = r.c.args
      /\ s.c.calls = [cs EXCEPT ![at].result = "agent"]
  BY DEF Whole, ReducingOK, ThreadOK
<1> HIDE DEF s
<1>3. CallsOK(cs)
  BY DEF Whole, ReducingOK, ThreadOK
<1>4. Leaner(cs, s.c.calls) /\ CallsOK(s.c.calls)
  <2>1. Leaner(cs, [cs EXCEPT ![at].result = "agent"])
    <3> HIDE DEF cs
    <3> QED BY <1>3, LeanerResult
  <2> QED BY <1>2, <2>1 DEF Leaner
<1>5. Moves(r, s, {})
  BY <1>2, <1>4, LighterSame DEF Moves, Whole, ReducingOK, ThreadOK
<1>6. Moves(r, r, {})
  BY MovesSelf
<1> QED BY <1>1, <1>2, <1>5, <1>6

LEMMA ToolResultMoves ==
    ASSUME NEW r, Whole(r), NEW e, NEW q, q = ToolResult(r, e)
    PROVE  /\ Moves(r, q, {<<"result", e.id>>})
           /\ q.c.text = r.c.text /\ q.c.args = r.c.args
<1> DEFINE h == r.c.history
           i == Find(h, e.message)
           msg == Message(e.message, "tool", e.id)
           g == IF i = 0 THEN Append(h, msg) ELSE [h EXCEPT ![i] = msg]
           kept == [r EXCEPT !.c.history = IF i = 0 THEN Append(@, msg)
                                           ELSE [@ EXCEPT ![i] = msg]]
           s == SetResult(kept, e.id)
<1>1. q = Ref(s, "result", e.id)
  BY Zenon DEF ToolResult
<1>2. /\ MessageOK(msg) /\ msg.len = 0 /\ HistoryOK(h)
      /\ i # 0 => i \in DOMAIN h
  BY NewMessage, FindIs DEF Whole, HistoryOK
<1> HIDE DEF i, msg
<1>3. /\ Aside(r, kept) /\ kept.refs = r.refs /\ kept.c.history = g
      /\ kept.c.text = r.c.text /\ kept.c.args = r.c.args
  BY DEF Aside, Whole, ReducingOK, ThreadOK
<1> HIDE DEF kept
<1>4. Lighter(h, g)
  <2> HIDE DEF h
  <2>1. CASE i = 0
    BY <1>2, <2>1, LighterNew
  <2>2. CASE i # 0
    BY <1>2, <2>2, LighterPut
  <2> QED BY <2>1, <2>2
<1>5. Moves(r, kept, {})
  BY <1>3, <1>4, MovesAside
<1>6. Moves(kept, s, {}) /\ s.c.text = kept.c.text /\ s.c.args = kept.c.args
  BY <1>5, SetResultMoves DEF Moves
<1> HIDE DEF s
<1>7. Moves(s, q, {<<"result", e.id>>}) /\ q.c = s.c
  BY <1>1, <1>6, RefMoves DEF Moves
<1>8. Moves(r, q, ({} \cup {}) \cup {<<"result", e.id>>})
  BY <1>5, <1>6, <1>7, MovesAgain
<1> QED BY <1>3, <1>6, <1>7, <1>8

-----------------------------------------------------------------------------
(* Reducing a run: its items, and the length of one that nothing was left  *)
(* of before it.                                                           *)

Streams(r, item) == IF item[1] = "call" THEN r.c.args[item[2]] ELSE r.c.text[item[2]]

\* After the items P the builder of item, if it has one, holds t.
Fits(r, P, item, t) ==
    /\ Whole(r) /\ ToSet(r.refs) = P
    /\ \A j : j \in DOMAIN r.c.text <=> (<<"message", j>> \in P \/ <<"reasoning", j>> \in P)
    /\ \A j : j \in DOMAIN r.c.args <=> <<"call", j>> \in P
    /\ \A j \in DOMAIN r.c.args : HasCall(r.c, j)
    /\ Blank(r.c, item)
    /\ IF item \in P THEN Streams(r, item) = t ELSE t = 0

\* An item whose text is its own among the items A.
Among(item, A) == /\ Unmixed(A) /\ (item \in A \/ item[1] = "call")
                  /\ item = <<item[1], item[2]>>
                  /\ item[1] \in ItemKinds

LEMMA BlankCalls ==
    \A c, item : item[1] = "call" =>
        (Blank(c, item) <=> \A i \in DOMAIN c.calls : c.calls[i].id = item[2] => c.calls[i].args = 0)
BY DEF Blank, ToSet

LEMMA BlankHistory ==
    \A c, item : item[1] # "call" =>
        (Blank(c, item) <=> \A i \in DOMAIN c.history :
                                c.history[i].id = item[2] => c.history[i].len = 0)
BY DEF Blank, ToSet

LEMMA BlankHeld ==
    \A r, item : Whole(r) /\ Blank(r.c, item) =>
        IF item[1] = "call" THEN ArgsHeld(r.c, item[2]) = 0 ELSE TextHeld(r.c, item[2]) = 0
<1> SUFFICES ASSUME NEW r, NEW item, Whole(r), Blank(r.c, item)
             PROVE  IF item[1] = "call" THEN ArgsHeld(r.c, item[2]) = 0
                    ELSE TextHeld(r.c, item[2]) = 0
  OBVIOUS
<1> DEFINE id == item[2]
           i == Find(r.c.history, id)
           at == CallAt(r.c, id)
<1>1. CASE item[1] = "call"
  <2>1. at # 0 => at \in DOMAIN r.c.calls /\ r.c.calls[at].id = id
    BY CallAtIs DEF Whole, ReducingOK, ThreadOK, CallsOK
  <2>2. ArgsHeld(r.c, id) = IF at = 0 THEN 0 ELSE r.c.calls[at].args
    BY DEF ArgsHeld
  <2> HIDE DEF at
  <2> QED BY <1>1, <2>1, <2>2, BlankCalls
<1>2. CASE item[1] # "call"
  <2>1. i # 0 => i \in DOMAIN r.c.history /\ r.c.history[i].id = id
    BY FindIs DEF Whole, HistoryOK
  <2>2. TextHeld(r.c, id) = IF i = 0 THEN 0 ELSE r.c.history[i].len
    BY DEF TextHeld
  <2> HIDE DEF i
  <2> QED BY <1>2, <2>1, <2>2, BlankHistory
<1> QED BY <1>1, <1>2

LEMMA BlankStays ==
    \A r, q, items, item : Moves(r, q, items) /\ Blank(r.c, item) => Blank(q.c, item)
<1> SUFFICES ASSUME NEW r, NEW q, NEW items, NEW item, Moves(r, q, items), Blank(r.c, item)
             PROVE  Blank(q.c, item)
  OBVIOUS
<1>1. CASE item[1] = "call"
  <2>1. Leaner(r.c.calls, q.c.calls)
    BY DEF Moves
  <2>2. \A i \in DOMAIN r.c.calls : r.c.calls[i].id = item[2] => r.c.calls[i].args = 0
    BY <1>1, BlankCalls
  <2>3. \A i \in DOMAIN q.c.calls : q.c.calls[i].id = item[2] => q.c.calls[i].args = 0
    BY <2>1, <2>2 DEF Leaner
  <2> QED BY <1>1, <2>3, BlankCalls
<1>2. CASE item[1] # "call"
  <2>1. Lighter(r.c.history, q.c.history)
    BY DEF Moves
  <2>2. \A i \in DOMAIN r.c.history : r.c.history[i].id = item[2] => r.c.history[i].len = 0
    BY <1>2, BlankHistory
  <2>3. \A i \in DOMAIN q.c.history : q.c.history[i].id = item[2] => q.c.history[i].len = 0
    BY <2>1, <2>2 DEF Lighter
  <2> QED BY <1>2, <2>3, BlankHistory
<1> QED BY <1>1, <1>2

\* The calls that are being streamed are never lost.
LEMMA CallsRemain ==
    \A r, q, items, j : Moves(r, q, items) /\ HasCall(r.c, j) => HasCall(q.c, j)
<1> SUFFICES ASSUME NEW r, NEW q, NEW items, NEW j, Moves(r, q, items), HasCall(r.c, j)
             PROVE  HasCall(q.c, j)
  OBVIOUS
<1>1. PICK i \in DOMAIN r.c.calls : r.c.calls[i].id = j
  BY DEF HasCall
<1>2. Leaner(r.c.calls, q.c.calls)
  BY DEF Moves
<1> QED BY <1>1, <1>2 DEF Leaner, HasCall

LEMMA FitsAside ==
    ASSUME NEW r, NEW P, NEW item, NEW t, Fits(r, P, item, t),
           NEW q, NEW items, Moves(r, q, items), q.c.text = r.c.text, q.c.args = r.c.args,
           \A x \in items : x[1] \notin ItemKinds
    PROVE  item[1] \in ItemKinds => Fits(q, P \cup items, item, t)
<1> HAVE item[1] \in ItemKinds
<1>1. Whole(q) /\ ToSet(q.refs) = P \cup items
  BY DEF Moves, Fits
<1>2. \A j : \A kind \in ItemKinds : <<kind, j>> \in P \cup items <=> <<kind, j>> \in P
  OBVIOUS
<1>3. item \in P \cup items <=> item \in P
  OBVIOUS
<1>4. Blank(q.c, item)
  BY BlankStays DEF Fits
<1>5. \A j \in DOMAIN q.c.args : HasCall(q.c, j)
  BY CallsRemain DEF Fits
<1>6. Streams(q, item) = Streams(r, item)
  BY DEF Streams
<1>7. \A j : j \in DOMAIN q.c.text <=> (<<"message", j>> \in P \cup items
                                        \/ <<"reasoning", j>> \in P \cup items)
  BY <1>2 DEF Fits, ItemKinds
<1>8. \A j : j \in DOMAIN q.c.args <=> <<"call", j>> \in P \cup items
  BY <1>2 DEF Fits, ItemKinds
<1> QED BY <1>1, <1>3, <1>4, <1>5, <1>6, <1>7, <1>8 DEF Fits

\* A text goes on: the item's, or another one's.
LEMMA FitsText ==
    ASSUME NEW r, NEW P, NEW item, NEW t, Fits(r, P, item, t),
           NEW A, Among(item, A), P \subseteq A,
           NEW kind \in {"message", "reasoning"}, NEW j, <<kind, j>> \in A, NEW value,
           NEW q, NEW items, Moves(r, q, items), q.c.args = r.c.args,
           items = {<<kind, j>>} \/ (items = {} /\ j \in DOMAIN r.c.text),
           Grows(r.c.text, q.c.text, j, value), NEW u,
           IF <<kind, j>> = item THEN Going(r.c.text, j, TextHeld(r.c, j)) = t => value = u
           ELSE u = t
    PROVE  Fits(q, P \cup {<<kind, j>>}, item, u)
<1> DEFINE new == <<kind, j>>
           id == item[2]
           other == IF kind = "message" THEN "reasoning" ELSE "message"
<1>1. <<other, j>> \notin A
  BY DEF Among, Unmixed
<1>2. j \in DOMAIN r.c.text <=> new \in P
  <2>1. other # kind /\ \A k : k \in {"message", "reasoning"} => k \in {kind, other}
    OBVIOUS
  <2>2. <<other, j>> \notin P
    BY <1>1
  <2> QED BY <2>1, <2>2 DEF Fits
<1>3. Whole(q) /\ ToSet(q.refs) = P \cup {new}
  BY <1>2 DEF Moves, Fits
<1>4. Blank(q.c, item)
  BY BlankStays DEF Fits
<1>5. \A x \in DOMAIN q.c.args : HasCall(q.c, x)
  BY CallsRemain DEF Fits
<1>6. \A x : x \in DOMAIN q.c.args <=> <<"call", x>> \in P \cup {new}
  BY DEF Fits
<1>7. \A x : x \in DOMAIN q.c.text <=> (<<"message", x>> \in P \cup {new}
                                        \/ <<"reasoning", x>> \in P \cup {new})
  BY DEF Fits, Grows
<1>8. CASE new = item
  <2>1. item[1] = kind /\ id = j
    BY <1>8
  <2>2. TextHeld(r.c, j) = 0
    BY <2>1, BlankHeld DEF Fits
  <2>3. Streams(q, item) = value
    BY <2>1 DEF Streams, Grows
  <2>4. Going(r.c.text, j, 0) = t
    BY <1>2, <1>8, <2>1 DEF Fits, Going, Streams
  <2>5. Streams(q, item) = u
    BY <1>8, <2>2, <2>3, <2>4
  <2> QED BY <1>3, <1>4, <1>5, <1>6, <1>7, <1>8, <2>5 DEF Fits
<1>9. CASE new # item
  <2>1. item \in P \cup {new} <=> item \in P
    BY <1>9
  <2>2. item \in P => Streams(q, item) = Streams(r, item)
    <3>1. CASE item[1] = "call"
      BY <3>1 DEF Streams
    <3>2. CASE item[1] # "call"
      <4>1. /\ item[1] \in {"message", "reasoning"} /\ item = <<item[1], id>> /\ item \in A
            /\ item = <<"message", id>> \/ item = <<"reasoning", id>>
        BY <3>2 DEF Among, ItemKinds
      <4>2. id # j
        BY <1>1, <1>9, <4>1
      <4>3. item \in P => id \in DOMAIN r.c.text
        BY <4>1 DEF Fits
      <4> QED BY <3>2, <4>2, <4>3 DEF Streams, Grows
    <3> QED BY <3>1, <3>2
  <2> QED BY <1>3, <1>4, <1>5, <1>6, <1>7, <1>9, <2>1, <2>2 DEF Fits
<1> QED BY <1>8, <1>9

\* The arguments of a call go on: the item's, or another one's.
LEMMA FitsArgs ==
    ASSUME NEW r, NEW P, NEW item, NEW t, Fits(r, P, item, t), item = <<item[1], item[2]>>,
           NEW j, NEW value,
           NEW q, NEW items, Moves(r, q, items), q.c.text = r.c.text,
           items = {<<"call", j>>} \/ (items = {} /\ j \in DOMAIN r.c.args),
           HasCall(q.c, j) \/ j \in DOMAIN r.c.args,
           Grows(r.c.args, q.c.args, j, value), NEW u,
           IF <<"call", j>> = item THEN Going(r.c.args, j, ArgsHeld(r.c, j)) = t => value = u
           ELSE u = t
    PROVE  Fits(q, P \cup {<<"call", j>>}, item, u)
<1> DEFINE new == <<"call", j>>
           id == item[2]
<1>1. j \in DOMAIN r.c.args <=> new \in P
  BY DEF Fits
<1>2. Whole(q) /\ ToSet(q.refs) = P \cup {new}
  BY <1>1 DEF Moves, Fits
<1>3. Blank(q.c, item)
  BY BlankStays DEF Fits
<1>4. \A x \in DOMAIN q.c.args : HasCall(q.c, x)
  <2>1. HasCall(q.c, j)
    BY CallsRemain DEF Fits
  <2> QED BY <2>1, CallsRemain DEF Fits, Grows
<1>5. \A x : x \in DOMAIN q.c.args <=> <<"call", x>> \in P \cup {new}
  BY DEF Fits, Grows
<1>6. \A x : x \in DOMAIN q.c.text <=> (<<"message", x>> \in P \cup {new}
                                        \/ <<"reasoning", x>> \in P \cup {new})
  BY DEF Fits
<1>7. CASE new = item
  <2>1. item[1] = "call" /\ id = j
    BY <1>7
  <2>2. ArgsHeld(r.c, j) = 0
    BY <2>1, BlankHeld DEF Fits
  <2>3. Streams(q, item) = value
    BY <2>1 DEF Streams, Grows
  <2>4. Going(r.c.args, j, 0) = t
    BY <1>1, <1>7, <2>1 DEF Fits, Going, Streams
  <2>5. Streams(q, item) = u
    BY <1>7, <2>2, <2>3, <2>4
  <2> QED BY <1>2, <1>3, <1>4, <1>5, <1>6, <1>7, <2>5 DEF Fits
<1>8. CASE new # item
  <2>1. item \in P \cup {new} <=> item \in P
    BY <1>8
  <2>2. item \in P => Streams(q, item) = Streams(r, item)
    <3>1. CASE item[1] # "call"
      BY <3>1 DEF Streams
    <3>2. CASE item[1] = "call"
      <4>1. item = <<"call", id>>
        BY <3>2
      <4>2. id # j
        BY <1>8, <4>1
      <4>3. item \in P => id \in DOMAIN r.c.args
        BY <4>1 DEF Fits
      <4> QED BY <3>2, <4>2, <4>3 DEF Streams, Grows
    <3> QED BY <3>1, <3>2
  <2> QED BY <1>2, <1>3, <1>4, <1>5, <1>6, <1>8, <2>1, <2>2 DEF Fits
<1> QED BY <1>7, <1>8

LEMMA ApplyFits ==
    ASSUME NEW r, NEW P, NEW item, NEW t \in Nat, Fits(r, P, item, t),
           NEW A, Among(item, A), NEW e, P \cup Makes(e) \subseteq A,
           e.delta \in Nat, e.type # "MESSAGES_SNAPSHOT",
           NEW q, q = Apply(r, e)
    PROVE  Fits(q, P \cup Makes(e), item, t + Adds(e, item))
<1> DEFINE j == e.id
           kind == e.kind
           Goal == Fits(q, P \cup Makes(e), item, t + Adds(e, item))
<1>1. Whole(r)
  BY DEF Fits
<1>2. \A x : x = t => x + 0 = t /\ x + e.delta = t + e.delta
  OBVIOUS
<1>3. ASSUME e.type = "START", kind \in {"message", "reasoning"} PROVE Goal
  <2>1. PICK role : q = OpenMessage(r, j, role, kind)
    BY <1>3, Zenon DEF Apply
  <2>2. Makes(e) = {<<kind, j>>} /\ t + Adds(e, item) = t
    BY <1>3 DEF Makes, Adds, ItemKinds
  <2>3. /\ Moves(r, q, {<<kind, j>>}) /\ q.c.args = r.c.args
        /\ Grows(r.c.text, q.c.text, j, Going(r.c.text, j, TextHeld(r.c, j)))
    BY <1>1, <2>1, OpenMessageMoves
  <2> HIDE DEF j, kind
  <2>4. Fits(q, P \cup {<<kind, j>>}, item, t)
    BY <1>3, <2>2, <2>3, FitsText
  <2> QED BY <2>2, <2>4
<1>4. ASSUME e.type = "CONTENT", kind \in {"message", "reasoning"} PROVE Goal
  <2> DEFINE items == Fresh(r.c.text, kind, j)
             was == Going(r.c.text, j, TextHeld(r.c, j))
  <2>1. PICK role : q = WriteText(r, e, role)
    BY <1>4, Zenon DEF Apply
  <2>2. Makes(e) = {<<kind, j>>} /\ Adds(e, item) = IF <<kind, j>> = item THEN e.delta ELSE 0
    BY <1>4 DEF Makes, Adds, ItemKinds
  <2>3. /\ Moves(r, q, items) /\ q.c.args = r.c.args
        /\ Grows(r.c.text, q.c.text, j, was + e.delta)
    BY <1>1, <2>1, WriteTextMoves
  <2>4. items = {<<kind, j>>} \/ (items = {} /\ j \in DOMAIN r.c.text)
    BY DEF Fresh
  <2> HIDE DEF j, kind, items, was
  <2>5. IF <<kind, j>> = item THEN was = t => was + e.delta = t + Adds(e, item)
        ELSE t + Adds(e, item) = t
    BY <2>2
  <2>6. Fits(q, P \cup {<<kind, j>>}, item, t + Adds(e, item))
    BY <1>4, <2>2, <2>3, <2>4, <2>5, FitsText DEF was
  <2> QED BY <2>2, <2>6
<1>5. ASSUME e.type = "START", kind = "call" PROVE Goal
  <2>1. q = OpenCall(r, j, e.name, e.parent)
    BY <1>5 DEF Apply
  <2>2. Makes(e) = {<<"call", j>>} /\ t + Adds(e, item) = t
    BY <1>5 DEF Makes, Adds, ItemKinds
  <2>3. /\ Moves(r, q, {<<"call", j>>}) /\ q.c.text = r.c.text
        /\ Grows(r.c.args, q.c.args, j, Going(r.c.args, j, ArgsHeld(r.c, j)))
        /\ HasCall(q.c, j)
    BY <1>1, <2>1, OpenCallMoves
  <2> HIDE DEF j, kind
  <2>4. Fits(q, P \cup {<<"call", j>>}, item, t)
    BY <2>2, <2>3, FitsArgs DEF Among
  <2> QED BY <2>2, <2>4
<1>6. ASSUME e.type = "CONTENT", kind = "call" PROVE Goal
  <2> DEFINE items == Fresh(r.c.args, "call", j)
             was == Going(r.c.args, j, ArgsHeld(r.c, j))
  <2>1. q = WriteArgs(r, e)
    BY <1>6 DEF Apply
  <2>2. Makes(e) = {<<"call", j>>} /\ Adds(e, item) = IF <<"call", j>> = item THEN e.delta ELSE 0
    BY <1>6 DEF Makes, Adds, ItemKinds
  <2>3. /\ Moves(r, q, items) /\ q.c.text = r.c.text
        /\ Grows(r.c.args, q.c.args, j, was + e.delta)
        /\ j \notin DOMAIN r.c.args => HasCall(q.c, j)
    BY <1>1, <2>1, WriteArgsMoves
  <2>4. items = {<<"call", j>>} \/ (items = {} /\ j \in DOMAIN r.c.args)
    BY DEF Fresh
  <2> HIDE DEF j, kind, items, was
  <2>5. IF <<"call", j>> = item THEN was = t => was + e.delta = t + Adds(e, item)
        ELSE t + Adds(e, item) = t
    BY <2>2
  <2>6. Fits(q, P \cup {<<"call", j>>}, item, t + Adds(e, item))
    BY <2>3, <2>4, <2>5, FitsArgs DEF was, Among
  <2> QED BY <2>2, <2>6
<1>7. ASSUME e.type = "TOOL_CALL_RESULT" PROVE Goal
  <2>1. q = ToolResult(r, e)
    BY <1>7 DEF Apply
  <2>2. Makes(e) = {<<"result", j>>} /\ t + Adds(e, item) = t
    BY <1>7 DEF Makes, Adds
  <2>3. Moves(r, q, {<<"result", j>>}) /\ q.c.text = r.c.text /\ q.c.args = r.c.args
    BY <1>1, <2>1, ToolResultMoves
  <2> HIDE DEF j
  <2>4. \A x \in {<<"result", j>>} : x[1] \notin ItemKinds
    BY DEF ItemKinds
  <2>5. Fits(q, P \cup {<<"result", j>>}, item, t)
    BY <2>3, <2>4, FitsAside DEF Among
  <2> QED BY <2>2, <2>5
<1>8. ASSUME e.type # "TOOL_CALL_RESULT", ~(e.type \in {"START", "CONTENT"} /\ kind \in ItemKinds)
      PROVE  Goal
  <2> DEFINE set == [r EXCEPT !.c.state = e.id]
             not == [r EXCEPT !.unpatched = TRUE]
  <2>1. q \in {set, not, r}
    BY <1>8, Zenon DEF Apply, ItemKinds
  <2>2. /\ Aside(r, set) /\ Aside(r, not) /\ Aside(r, r)
        /\ set.refs = r.refs /\ not.refs = r.refs
        /\ set.c.history = r.c.history /\ not.c.history = r.c.history
        /\ set.c.text = r.c.text /\ not.c.text = r.c.text
        /\ set.c.args = r.c.args /\ not.c.args = r.c.args
    BY <1>1 DEF Aside, Whole, ReducingOK, ThreadOK
  <2> HIDE DEF set, not
  <2>3. Moves(r, q, {}) /\ q.c.text = r.c.text /\ q.c.args = r.c.args
    BY <1>1, <2>1, <2>2, MovesBuilders
  <2>4. Makes(e) = {} /\ t + Adds(e, item) = t
    BY <1>8 DEF Makes, Adds, Among
  <2>5. Fits(q, P \cup {}, item, t)
    BY <2>3, FitsAside DEF Among
  <2> QED BY <2>4, <2>5
<1> QED BY <1>3, <1>4, <1>5, <1>6, <1>7, <1>8 DEF ItemKinds

\* A thread between two runs: nothing is being streamed.
Resting(c) == ThreadOK(c) /\ HistoryOK(c.history) /\ c.text = <<>> /\ c.args = <<>>

Start(c, run) == [c |-> c, run |-> run, before |-> {c.history[i].id : i \in DOMAIN c.history},
                  opened |-> {}, roles |-> <<>>, refs |-> <<>>, unpatched |-> FALSE]

Untold(events) == \A i \in DOMAIN events : events[i].type # "MESSAGES_SNAPSHOT"

LEMMA StartFits ==
    ASSUME NEW c, Resting(c), NEW run, NEW item, Blank(c, item)
    PROVE  Fits(Start(c, run), {}, item, 0)
<1> DEFINE r == Start(c, run)
<1>1. DOMAIN r = {"c", "run", "before", "opened", "roles", "refs", "unpatched"}
      /\ r.c = c /\ r.refs = <<>>
  BY DEF Start
<1> HIDE DEF r
<1>2. Whole(r) /\ ToSet(r.refs) = {}
  BY <1>1, SeqEmpty DEF Resting, Whole, ReducingOK
<1>3. DOMAIN r.c.text = {} /\ DOMAIN r.c.args = {}
  BY <1>1, SeqEmpty DEF Resting
<1>4. Fits(r, {}, item, 0)
  BY <1>1, <1>2, <1>3 DEF Fits
<1> QED BY <1>4 DEF r

LEMMA RunFits ==
    ASSUME NEW c, Resting(c), NEW run, NEW events, IsSeq(events), Sized(events), Untold(events),
           NEW item, Among(item, Made(events)), Blank(c, item)
    PROVE  Fits(FoldLeft(Apply, Start(c, run), events), Made(events), item, Added(events, item))
<1> DEFINE r0 == Start(c, run)
           n == Len(events)
           end == FoldLeft(Apply, r0, events)
           ls == Lengths(events, item)
<1>1. n \in Nat /\ DOMAIN events = 1 .. n
  BY SeqDomain
<1>2. Fits(r0, {}, item, 0)
  BY StartFits
<1> HIDE DEF r0
<1>3. Folds(<<"Apply", 0>>, r0, events, end)
  BY ApplyFold
<1> HIDE DEF end
<1>4. PICK a : a[0] = r0 /\ a[n] = end /\ \A i \in 1 .. n : a[i] = Apply(a[i - 1], events[i])
  BY <1>3 DEF Folds, Step
<1>5. IsSeq(ls) /\ Len(ls) = n /\ \A i \in 1 .. n : ls[i] = Adds(events[i], item)
  BY <1>1, LengthsSeq DEF Lengths
<1> HIDE DEF ls
<1>6. PICK b : Running(b, ls) /\ b[n] = Total(ls)
  BY <1>5, TotalRuns
<1>7. b[0] = 0 /\ \A i \in 1 .. n : b[i] = b[i - 1] + Adds(events[i], item)
  BY <1>5, <1>6 DEF Running
<1>8. /\ Before(events, 0) = {} /\ Before(events, n) = Made(events)
      /\ \A i \in 1 .. n : Before(events, i) = Before(events, i - 1) \cup Makes(events[i])
  BY BeforeTells
<1>9. \A i \in 1 .. n : \A j \in 1 .. i : j \in 1 .. n
  BY <1>1
<1>10. \A i \in 1 .. n : Before(events, i) \subseteq Made(events)
  BY <1>1, <1>9 DEF Before, Made
<1> DEFINE G == {i \in 0 .. n : Fits(a[i], Before(events, i), item, b[i]) /\ b[i] \in Nat}
<1>11. 0 \in G
  <2>1. Fits(a[0], Before(events, 0), item, b[0])
    BY <1>2, <1>4, <1>7, <1>8
  <2>2. b[0] \in Nat /\ 0 \in 0 .. n
    BY <1>1, <1>7
  <2> QED BY <2>1, <2>2
<1>12. ASSUME NEW i \in 1 .. n, i - 1 \in G PROVE i \in G
  <2> DEFINE e == events[i]
             r == a[i - 1]
             t == b[i - 1]
             P == Before(events, i - 1)
  <2>1. /\ Fits(r, P, item, t) /\ t \in Nat
        /\ e.delta \in Nat /\ e.type # "MESSAGES_SNAPSHOT"
        /\ P \cup Makes(e) \subseteq Made(events)
        /\ a[i] = Apply(r, e) /\ b[i] = t + Adds(e, item)
        /\ Before(events, i) = P \cup Makes(e)
        /\ i \in 0 .. n
    BY <1>1, <1>4, <1>7, <1>8, <1>10, <1>12 DEF Sized, Untold
  <2> HIDE DEF e, r, t, P, G
  <2>2. Fits(a[i], P \cup Makes(e), item, t + Adds(e, item))
    BY <2>1, ApplyFits
  <2>3. t + Adds(e, item) \in Nat
    BY <2>1 DEF Adds
  <2> QED BY <2>1, <2>2, <2>3 DEF G
<1> HIDE DEF G, n
<1>13. n \in G
  BY <1>1, <1>11, <1>12, UpTo
<1>14. Fits(a[n], Before(events, n), item, b[n])
  BY <1>13 DEF G
<1>15. Fits(end, Made(events), item, Total(ls))
  BY <1>4, <1>6, <1>8, <1>14
<1> QED BY <1>15 DEF Added, ls, end, r0, n

\* What the streams hold is written into the thread.
LEMMA Materialized ==
    ASSUME NEW c, ThreadOK(c), HistoryOK(c.history), NEW m, m = Materialize(c)
    PROVE  /\ Resting(m) /\ \A id \in DOMAIN c.text : m.texts[id] = c.text[id]
           /\ \A id \in DOMAIN c.args : HasCall(c, id) => m.calls[CallAt(m, id)].args = c.args[id]
<1> DEFINE Text(x) == IF x.id \in DOMAIN c.text /\ Find(c.history, x.id) # 0
                      THEN [x EXCEPT !.len = c.text[x.id]] ELSE x
           Args(tc) == IF tc.id \in DOMAIN c.args
                       THEN [tc EXCEPT !.args = c.args[tc.id]] ELSE tc
           h == c.history
           cs == c.calls
           g == [i \in DOMAIN h |-> IF i = Find(h, h[i].id) THEN Text(h[i]) ELSE h[i]]
           ds == [i \in DOMAIN cs |-> Args(cs[i])]
           texts == [id \in DOMAIN c.text \cup DOMAIN c.texts |->
                        IF id \in DOMAIN c.text THEN c.text[id] ELSE c.texts[id]]
<1>1. /\ DOMAIN m = DOMAIN c /\ m.history = g /\ m.calls = ds /\ m.texts = texts
      /\ m.text = <<>> /\ m.args = <<>>
  BY Zenon DEF Materialize, ThreadOK
<1>2. ThreadOK(m)
  BY MaterializeKept
<1>3. HistoryOK(g)
  <2>1. \A x : MessageOK(x) => MessageOK(Text(x))
    BY DEF MessageOK
  <2>2. /\ DOMAIN g = DOMAIN h /\ g = [i \in DOMAIN h |-> g[i]]
        /\ \A i \in DOMAIN h : g[i] \in {h[i], Text(h[i])}
    OBVIOUS
  <2> HIDE DEF g, Text
  <2>3. \A i \in DOMAIN h : MessageOK(g[i])
    BY <2>1, <2>2 DEF HistoryOK
  <2>4. IsSeq(g)
    BY <2>2, SeqMapped DEF HistoryOK
  <2> QED BY <2>2, <2>3, <2>4 DEF HistoryOK
<1>4. Resting(m)
  BY <1>1, <1>2, <1>3 DEF Resting
<1>5. \A id \in DOMAIN c.text : m.texts[id] = c.text[id]
  BY <1>1
<1>6. ASSUME NEW id \in DOMAIN c.args, HasCall(c, id)
      PROVE  m.calls[CallAt(m, id)].args = c.args[id]
  <2> DEFINE at == CallAt(m, id)
  <2>1. /\ DOMAIN m.calls = DOMAIN cs /\ \A i \in DOMAIN cs : m.calls[i] = Args(cs[i])
        /\ \A i \in DOMAIN cs : CallOK(cs[i])
    BY <1>1 DEF ThreadOK, CallsOK
  <2>2. \A tc : CallOK(tc) => /\ Args(tc).id = tc.id
                              /\ tc.id \in DOMAIN c.args => Args(tc).args = c.args[tc.id]
    BY DEF CallOK
  <2> HIDE DEF Args
  <2>3. PICK i \in DOMAIN cs : cs[i].id = id
    BY <1>6 DEF HasCall
  <2>4. m.calls[i].id = id
    BY <2>1, <2>2, <2>3
  <2>5. at \in DOMAIN cs /\ m.calls[at].id = id
    BY <1>2, <2>1, <2>3, <2>4, CallAtIs DEF ThreadOK, CallsOK
  <2> HIDE DEF at
  <2>6. cs[at].id = id /\ m.calls[at].args = c.args[id]
    BY <2>1, <2>2, <2>5
  <2> QED BY <2>6 DEF at
<1> QED BY <1>4, <1>5, <1>6

LEMMA SomethingElse == \A S : \E x : x \notin S
<1> TAKE S
<1> DEFINE R == {x \in S : x \notin x}
<1>1. R \notin S
  OBVIOUS
<1> QED BY <1>1

LEMMA BlankSomewhere == \A c : \E id : Blank(c, <<"call", id>>)
<1> TAKE c
<1>1. PICK id : id \notin {c.calls[i].id : i \in DOMAIN c.calls}
  BY SomethingElse
<1>2. \A i \in DOMAIN c.calls : c.calls[i].id # id
  BY <1>1
<1> DEFINE item == <<"call", id>>
<1>3. item[1] = "call" /\ item[2] = id
  OBVIOUS
<1> HIDE DEF item
<1>4. Blank(c, item)
  BY <1>2, <1>3, BlankCalls
<1> QED BY <1>4 DEF item

LEMMA MadeKinds ==
    ASSUME NEW events, Untold(events), NEW item \in Made(events)
    PROVE  item = <<item[1], item[2]>> /\ (item[1] \in ItemKinds \/ item[1] = "result")
<1>1. PICK i \in DOMAIN events : item \in Makes(events[i])
  BY DEF Made
<1>2. events[i].type # "MESSAGES_SNAPSHOT"
  BY DEF Untold
<1>3. \/ events[i].kind \in ItemKinds /\ item = <<events[i].kind, events[i].id>>
      \/ item = <<"result", events[i].id>>
  BY <1>1, <1>2 DEF Makes
<1> QED BY <1>3

KeysOf(items) == {<<items[i].kind, items[i].id>> : i \in DOMAIN items}

\* The items of a run are exactly what its events make, with the text of their pieces.
LEMMA RunExact ==
    ASSUME NEW c, Resting(c), NEW run, NEW events, IsSeq(events), Sized(events), Untold(events),
           Unmixed(Made(events)), NEW items, items = ReduceRun(c, run, events).items
    PROVE  /\ KeysOf(items) = Made(events)
           /\ \A i \in DOMAIN items :
                 LET item == <<items[i].kind, items[i].id>>
                 IN  items[i].kind # "result" /\ Blank(c, item)
                     => items[i].len = Added(events, item)
<1> DEFINE end == FoldLeft(Apply, Start(c, run), events)
           m == Materialize(end.c)
           r == [end EXCEPT !.c = Materialize(@)]
           made == Made(events)
<1>1. items = Items(r)
  BY Zenon DEF ReduceRun, Reduced, Start
<1>2. Whole(end) /\ ToSet(end.refs) = made
  <2>1. PICK id : Blank(c, <<"call", id>>)
    BY BlankSomewhere
  <2>2. Among(<<"call", id>>, made)
    BY DEF Among, ItemKinds
  <2>3. Fits(end, made, <<"call", id>>, Added(events, <<"call", id>>))
    BY <2>1, <2>2, RunFits
  <2> QED BY <2>3 DEF Fits
<1>3. ASSUME NEW item \in made, item[1] \in ItemKinds, Blank(c, item)
      PROVE  Fits(end, made, item, Added(events, item))
  <2>1. Among(item, made)
    BY <1>3, MadeKinds DEF Among
  <2> QED BY <1>3, <2>1, RunFits
<1> HIDE DEF end
<1>4. r.c = m /\ r.refs = end.refs
  BY <1>2 DEF Whole, ReducingOK
<1>5. /\ Resting(m) /\ \A id \in DOMAIN end.c.text : m.texts[id] = end.c.text[id]
      /\ \A id \in DOMAIN end.c.args :
             HasCall(end.c, id) => m.calls[CallAt(m, id)].args = end.c.args[id]
  BY <1>2, Materialized DEF Whole, ReducingOK
<1> HIDE DEF m, r
<1>6. /\ DOMAIN items = DOMAIN r.refs
      /\ \A i \in DOMAIN r.refs :
            LET ref == r.refs[i]
                at == CallAt(r.c, ref[2])
            IN  /\ items[i].kind = ref[1] /\ items[i].id = ref[2]
                /\ ref[1] \in {"message", "reasoning"} => items[i].len = r.c.texts[ref[2]]
                /\ ref[1] = "call" => items[i].len = r.c.calls[at].args
  <2> DEFINE Length(ref) == CASE ref[1] \in {"message", "reasoning"} -> r.c.texts[ref[2]]
                              [] ref[1] = "call" -> r.c.calls[CallAt(r.c, ref[2])].args
                              [] OTHER -> 0
             Role(ref) == IF ref[1] \in {"message", "reasoning"} THEN r.roles[ref[2]] ELSE "none"
  <2>1. items = [i \in DOMAIN r.refs |-> [kind |-> r.refs[i][1], id |-> r.refs[i][2],
                                         role |-> Role(r.refs[i]), len |-> Length(r.refs[i])]]
    BY <1>1, Zenon DEF Items
  <2> HIDE DEF Role
  <2>2. \A ref : /\ ref[1] \in {"message", "reasoning"} => Length(ref) = r.c.texts[ref[2]]
                 /\ ref[1] = "call" => Length(ref) = r.c.calls[CallAt(r.c, ref[2])].args
    BY Zenon
  <2> HIDE DEF Length
  <2> QED BY <2>1, <2>2
<1>7. \A i \in DOMAIN r.refs : r.refs[i] \in made
  BY <1>2, <1>4 DEF ToSet
<1> HIDE DEF made
<1>8. \A i \in DOMAIN items : <<items[i].kind, items[i].id>> = r.refs[i]
  BY <1>6, <1>7, MadeKinds DEF made
<1>9. KeysOf(items) = made
  <2>1. \A x : x \in made <=> \E i \in DOMAIN items : x = r.refs[i]
    BY <1>2, <1>4, <1>6 DEF ToSet
  <2>2. \A x : x \in KeysOf(items) <=> \E i \in DOMAIN items : x = r.refs[i]
    BY <1>8 DEF KeysOf
  <2> QED BY <2>1, <2>2
<1>10. ASSUME NEW i \in DOMAIN items, items[i].kind # "result",
              Blank(c, <<items[i].kind, items[i].id>>)
       PROVE  items[i].len = Added(events, <<items[i].kind, items[i].id>>)
  <2> DEFINE item == r.refs[i]
  <2>1. /\ item = <<items[i].kind, items[i].id>> /\ item \in made /\ Blank(c, item)
        /\ item[1] = items[i].kind
    BY <1>6, <1>7, <1>8, <1>10
  <2> HIDE DEF item
  <2>2. item = <<item[1], item[2]>> /\ item[1] \in ItemKinds
    BY <1>10, <2>1, MadeKinds DEF made
  <2>3. Fits(end, made, item, Added(events, item))
    BY <1>3, <2>1, <2>2
  <2>4. Streams(end, item) = Added(events, item)
    BY <2>1, <2>3 DEF Fits
  <2>5. CASE item[1] = "call"
    <3>1. item[2] \in DOMAIN end.c.args
      BY <2>1, <2>2, <2>3, <2>5 DEF Fits
    <3>2. HasCall(end.c, item[2])
      BY <2>3, <3>1 DEF Fits
    <3>3. items[i].len = m.calls[CallAt(m, item[2])].args
      BY <1>4, <1>6, <2>5 DEF item
    <3> QED BY <1>5, <2>1, <2>4, <2>5, <3>1, <3>2, <3>3 DEF Streams
  <2>6. CASE item[1] # "call"
    <3>1. item[1] \in {"message", "reasoning"}
      BY <2>2, <2>6 DEF ItemKinds
    <3>2. item = <<"message", item[2]>> \/ item = <<"reasoning", item[2]>>
      BY <2>2, <3>1
    <3>3. item[2] \in DOMAIN end.c.text
      BY <2>1, <2>3, <3>2 DEF Fits
    <3>4. items[i].len = m.texts[item[2]]
      BY <1>4, <1>6, <3>1 DEF item
    <3> QED BY <1>5, <2>1, <2>4, <2>6, <3>3, <3>4 DEF Streams
  <2> QED BY <2>5, <2>6
<1> QED BY <1>9, <1>10 DEF made

-----------------------------------------------------------------------------
(* The memory: between two runs the thread rests.                          *)

LEMMA AllHold ==
    ASSUME NEW n \in Nat, NEW S, 0 \in S, \A i \in 1 .. n : i - 1 \in S => i \in S
    PROVE  n \in S
BY UpTo

LEMMA WholeRef == \A r, kind, id : Whole(r) => Whole(Ref(r, kind, id))
BY RefMoves DEF Moves

LEMMA WholeResult == \A r, id : Whole(r) => Whole(SetResult(r, id))
BY SetResultMoves DEF Moves

LEMMA LearnCallWhole == \A r, id, m : Whole(r) => Whole(LearnCall(r, id, m))
<1> SUFFICES ASSUME NEW r, NEW id, NEW m, Whole(r) PROVE Whole(LearnCall(r, id, m))
  OBVIOUS
<1> DEFINE tc == NewCall(r.run, id, m.name, m.len)
           new == [r EXCEPT !.c.calls = Append(@, tc)]
<1>1. PICK q \in {r, new} : LearnCall(r, id, m) = Ref(q, "call", id)
  BY Zenon DEF LearnCall
<1>2. Whole(new)
  <2>1. /\ DOMAIN new = DOMAIN r /\ DOMAIN new.c = DOMAIN r.c
        /\ new.c.calls = Append(r.c.calls, tc)
        /\ new.c.history = r.c.history /\ new.refs = r.refs
    BY DEF Whole, ReducingOK, ThreadOK
  <2> HIDE DEF new
  <2>2. CallsOK(new.c.calls)
    BY <2>1, KeptNew DEF Whole, ReducingOK, ThreadOK, Kept
  <2> QED BY <2>1, <2>2 DEF Whole, ReducingOK, ThreadOK
<1> HIDE DEF new
<1> QED BY <1>1, <1>2, WholeRef

LEMMA LearnWhole == \A r, m : Whole(r) /\ IsSeq(m.calls) => Whole(Learn(r, m))
<1> SUFFICES ASSUME NEW r, NEW m, Whole(r), IsSeq(m.calls) PROVE Whole(Learn(r, m))
  OBVIOUS
<1> DEFINE kind == IF m.role = "reasoning" THEN "reasoning" ELSE "message"
           told == [r EXCEPT !.c.texts = (m.id :> m.len) @@ @,
                             !.roles = @ @@ (m.id :> m.role)]
           base == IF m.len > 0 THEN Ref(told, kind, m.id) ELSE told
           all == LearnCalls(base, m)
           q == SetResult(r, m.tool)
<1>1. Learn(r, m) \in {r, all, Ref(q, "result", m.tool)}
  BY Zenon DEF Learn
<1>2. Whole(base)
  <2>1. /\ DOMAIN told = DOMAIN r /\ DOMAIN told.c = DOMAIN r.c /\ told.c.calls = r.c.calls
        /\ told.c.history = r.c.history /\ told.refs = r.refs
    BY DEF Whole, ReducingOK, ThreadOK
  <2> HIDE DEF told
  <2>2. Whole(told)
    BY <2>1 DEF Whole, ReducingOK, ThreadOK
  <2> QED BY <2>2, WholeRef
<1> HIDE DEF base
<1>3. Whole(all)
  <2>1. Folds(<<"LearnCall", m>>, base, m.calls, all)
    BY LearnCallFold
  <2> HIDE DEF all
  <2> DEFINE n == Len(m.calls)
  <2>2. PICK a : /\ a[0] = base /\ a[n] = all
                 /\ \A i \in 1 .. n : a[i] = LearnCall(a[i - 1], m.calls[i], m)
    BY <2>1 DEF Folds, Step
  <2>3. n \in Nat
    BY SeqDomain
  <2> HIDE DEF n
  <2> DEFINE S == {i \in 0 .. n : Whole(a[i])}
  <2>4. 0 \in S
    BY <1>2, <2>2, <2>3
  <2>5. ASSUME NEW i \in 1 .. n, i - 1 \in S PROVE i \in S
    BY <2>2, <2>3, <2>5, LearnCallWhole
  <2> HIDE DEF S
  <2>6. n \in S
    BY <2>3, <2>4, <2>5, AllHold
  <2> QED BY <2>2, <2>6 DEF S
<1> HIDE DEF all
<1>4. Whole(Ref(q, "result", m.tool))
  BY WholeRef, WholeResult
<1> QED BY <1>1, <1>3, <1>4

LEMMA KeepsHistory ==
    ASSUME NEW msgs, IsSeq(msgs)
    PROVE  HistoryOK(FoldLeft(Keep, <<>>, msgs))
<1> DEFINE kept == FoldLeft(Keep, <<>>, msgs)
           n == Len(msgs)
<1>1. Folds(<<"Keep", 0>>, <<>>, msgs, kept)
  BY KeepFold
<1> HIDE DEF kept
<1>2. PICK a : a[0] = <<>> /\ a[n] = kept /\ \A i \in 1 .. n : a[i] = Keep(a[i - 1], msgs[i])
  BY <1>1 DEF Folds, Step
<1>3. n \in Nat
  BY SeqDomain
<1> HIDE DEF n
<1> DEFINE S == {i \in 0 .. n : HistoryOK(a[i])}
<1>4. 0 \in S
  BY <1>2, <1>3, SeqEmpty DEF HistoryOK
<1>5. \A h, m : HistoryOK(h) => HistoryOK(Keep(h, m))
  <2> SUFFICES ASSUME NEW h, NEW m, HistoryOK(h) PROVE HistoryOK(Keep(h, m))
    OBVIOUS
  <2> DEFINE x == [id |-> m.id, role |-> m.role, len |-> m.len, calls |-> m.calls,
                   tool |-> m.tool]
             g == Append(h, x)
  <2>1. MessageOK(x)
    BY DEF MessageOK
  <2>2. Keep(h, m) = h \/ Keep(h, m) = g
    BY DEF Keep
  <2> HIDE DEF x
  <2>3. /\ IsSeq(g) /\ DOMAIN g = 1 .. Len(h) + 1 /\ g[Len(h) + 1] = x
        /\ \A i \in 1 .. Len(h) : g[i] = h[i] /\ i \in DOMAIN h
        /\ Len(h) \in Nat
    BY SeqAppend, SeqDomain DEF HistoryOK
  <2> HIDE DEF g
  <2>4. \A i \in 1 .. Len(h) + 1 : i = Len(h) + 1 \/ i \in 1 .. Len(h)
    BY <2>3
  <2>5. HistoryOK(g)
    BY <2>1, <2>3, <2>4 DEF HistoryOK
  <2> QED BY <2>2, <2>5
<1>6. ASSUME NEW i \in 1 .. n, i - 1 \in S PROVE i \in S
  BY <1>2, <1>3, <1>5, <1>6
<1> HIDE DEF S
<1>7. n \in S
  BY <1>3, <1>4, <1>6, AllHold
<1> QED BY <1>2, <1>7 DEF S, kept

LEMMA SnapshotWhole ==
    \A r, msgs : Whole(r) /\ MessagesOK(msgs) => Whole(Snapshot(r, msgs))
<1> SUFFICES ASSUME NEW r, NEW msgs, Whole(r), MessagesOK(msgs)
             PROVE  Whole(Snapshot(r, msgs))
  OBVIOUS
<1> DEFINE h == FoldLeft(Keep, <<>>, msgs)
           q == [r EXCEPT !.c = [Materialize(r.c) EXCEPT !.history = h]]
           all == FoldLeft(Learn, q, msgs)
           n == Len(msgs)
<1>1. Snapshot(r, msgs) = all
  BY Zenon DEF Snapshot
<1>2. HistoryOK(h)
  BY KeepsHistory DEF MessagesOK
<1> HIDE DEF h
<1>3. Whole(q)
  <2>1. ThreadOK(Materialize(r.c))
    BY MaterializeKept DEF Whole, ReducingOK
  <2>2. /\ DOMAIN q = DOMAIN r /\ DOMAIN q.c = DOMAIN Materialize(r.c)
        /\ q.c.calls = Materialize(r.c).calls /\ q.c.history = h /\ q.refs = r.refs
    BY <2>1 DEF Whole, ReducingOK, ThreadOK
  <2> HIDE DEF q
  <2> QED BY <1>2, <2>1, <2>2 DEF Whole, ReducingOK, ThreadOK
<1> HIDE DEF q
<1>4. Folds(<<"Learn", 0>>, q, msgs, all)
  BY LearnFold DEF MessagesOK
<1> HIDE DEF all
<1>5. PICK a : a[0] = q /\ a[n] = all /\ \A i \in 1 .. n : a[i] = Learn(a[i - 1], msgs[i])
  BY <1>4 DEF Folds, Step
<1>6. n \in Nat /\ \A i \in 1 .. n : IsSeq(msgs[i].calls)
  BY SeqDomain DEF MessagesOK
<1> HIDE DEF n
<1> DEFINE S == {i \in 0 .. n : Whole(a[i])}
<1>7. 0 \in S
  BY <1>3, <1>5, <1>6
<1>8. ASSUME NEW i \in 1 .. n, i - 1 \in S PROVE i \in S
  BY <1>5, <1>6, <1>8, LearnWhole
<1> HIDE DEF S
<1>9. n \in S
  BY <1>6, <1>7, <1>8, AllHold
<1> QED BY <1>1, <1>5, <1>9 DEF S

LEMMA ApplyWhole == \A r, e : Whole(r) /\ EventOK(e) => Whole(Apply(r, e))
<1> SUFFICES ASSUME NEW r, NEW e, Whole(r), EventOK(e) PROVE Whole(Apply(r, e))
  OBVIOUS
<1> DEFINE set == [r EXCEPT !.c.state = e.id]
           not == [r EXCEPT !.unpatched = TRUE]
<1>1. \/ \E id, role, kind : Apply(r, e) = OpenMessage(r, id, role, kind)
      \/ \E role : Apply(r, e) = WriteText(r, e, role)
      \/ \E id, name, parent : Apply(r, e) = OpenCall(r, id, name, parent)
      \/ Apply(r, e) \in {WriteArgs(r, e), ToolResult(r, e), Snapshot(r, e.messages), set, not, r}
  BY Zenon DEF Apply
<1>2. Whole(set) /\ Whole(not)
  BY DEF Whole, ReducingOK, ThreadOK
<1> HIDE DEF set, not
<1>3. \A id, role, kind : Whole(OpenMessage(r, id, role, kind))
  BY OpenMessageMoves DEF Moves
<1>4. \A role : Whole(WriteText(r, e, role))
  BY WriteTextMoves DEF Moves
<1>5. \A id, name, parent : Whole(OpenCall(r, id, name, parent))
  BY OpenCallMoves DEF Moves
<1>6. Whole(WriteArgs(r, e)) /\ Whole(ToolResult(r, e))
  BY WriteArgsMoves, ToolResultMoves DEF Moves
<1>7. Whole(Snapshot(r, e.messages))
  BY SnapshotWhole DEF EventOK
<1> QED BY <1>1, <1>2, <1>3, <1>4, <1>5, <1>6, <1>7

\* A run leaves nothing streaming behind.
LEMMA RunRests ==
    ASSUME NEW c, Resting(c), NEW run, NEW events, IsSeq(events),
           \A i \in DOMAIN events : EventOK(events[i])
    PROVE  Resting(ReduceRun(c, run, events).thread)
<1> DEFINE r0 == Start(c, run)
           end == FoldLeft(Apply, r0, events)
           n == Len(events)
<1>1. ReduceRun(c, run, events).thread = [end EXCEPT !.c = Materialize(@)].c
  BY DEF ReduceRun, Reduced, Start
<1>2. Whole(r0)
  BY SeqEmpty DEF Start, Whole, ReducingOK, Resting
<1> HIDE DEF r0
<1>3. Folds(<<"Apply", 0>>, r0, events, end)
  BY ApplyFold
<1> HIDE DEF end
<1>4. PICK a : a[0] = r0 /\ a[n] = end /\ \A i \in 1 .. n : a[i] = Apply(a[i - 1], events[i])
  BY <1>3 DEF Folds, Step
<1>5. n \in Nat /\ \A i \in 1 .. n : EventOK(events[i])
  BY SeqDomain
<1> HIDE DEF n
<1> DEFINE S == {i \in 0 .. n : Whole(a[i])}
<1>6. 0 \in S
  BY <1>2, <1>4, <1>5
<1>7. ASSUME NEW i \in 1 .. n, i - 1 \in S PROVE i \in S
  BY <1>4, <1>5, <1>7, ApplyWhole
<1> HIDE DEF S
<1>8. n \in S
  BY <1>5, <1>6, <1>7, AllHold
<1>9. Whole(end)
  BY <1>4, <1>8 DEF S
<1>10. ReduceRun(c, run, events).thread = Materialize(end.c)
  BY <1>1, <1>9 DEF Whole, ReducingOK
<1> QED BY <1>9, <1>10, Materialized DEF Whole, ReducingOK

LEMMA AddMessageRests ==
    \A c, role, tool : Resting(c) => Resting(AddMessage(c, role, tool))
<1> SUFFICES ASSUME NEW c, NEW role, NEW tool, Resting(c)
             PROVE  Resting(AddMessage(c, role, tool))
  OBVIOUS
<1> DEFINE d == AddMessage(c, role, tool)
           m == Message(c.fresh + 1, role, tool)
<1>1. /\ ThreadOK(d) /\ d.text = c.text /\ d.args = c.args
      /\ d.history = Append(c.history, m)
  BY AddMessageThread DEF AddMessage, Resting, ThreadOK
<1> HIDE DEF d
<1>2. MessageOK(m) /\ m.len = 0
  BY NewMessage
<1> HIDE DEF m
<1>3. HistoryOK(Append(c.history, m))
  BY <1>2, LighterNew DEF Lighter, Resting
<1>4. Resting(d)
  BY <1>1, <1>3 DEF Resting
<1> QED BY <1>4 DEF d

LEMMA AnswerCallRests ==
    \A c, q : Resting(c) => Resting(AnswerCall(c, q))
<1> SUFFICES ASSUME NEW c, NEW q, Resting(c) PROVE Resting(AnswerCall(c, q))
  OBVIOUS
<1> DEFINE m == AddMessage(c, "tool", q.id)
           d == AnswerCall(c, q)
<1>1. Resting(m)
  BY AddMessageRests
<1>2. ThreadOK(d)
  BY AnswerCallThread DEF Resting
<1>3. d.history = m.history /\ d.text = m.text /\ d.args = m.args
  <2>1. d = [m EXCEPT !.calls[CallAt(c, q.id)].result = "client"]
    BY DEF AnswerCall
  <2> HIDE DEF d, m
  <2> QED BY <1>1, <2>1 DEF Resting, ThreadOK
<1> HIDE DEF d, m
<1>4. Resting(d)
  BY <1>1, <1>2, <1>3 DEF Resting
<1> QED BY <1>4 DEF d

LEMMA AnswersRest ==
    ASSUME NEW c, Resting(c), NEW qs, IsSeq(qs)
    PROVE  Resting(FoldLeft(AnswerCall, c, qs))
<1> DEFINE n == Len(qs)
           all == FoldLeft(AnswerCall, c, qs)
<1>1. n \in Nat
  BY SeqDomain
<1>2. Folds(<<"AnswerCall", 0>>, c, qs, all)
  BY AnswerCallFold
<1> HIDE DEF all
<1>3. PICK a : a[0] = c /\ a[n] = all /\ \A i \in 1 .. n : a[i] = AnswerCall(a[i - 1], qs[i])
  BY <1>2 DEF Folds, Step
<1> HIDE DEF n
<1> DEFINE S == {i \in 0 .. n : Resting(a[i])}
<1>4. 0 \in S
  BY <1>1, <1>3
<1>5. ASSUME NEW i \in 1 .. n, i - 1 \in S PROVE i \in S
  BY <1>1, <1>3, <1>5, AnswerCallRests
<1> HIDE DEF S
<1>6. n \in S
  BY <1>1, <1>4, <1>5, AllHold
<1> QED BY <1>3, <1>6 DEF S, all

LEMMA EmptyRests == Resting(EmptyThread)
<1>1. /\ EmptyThread.history = <<>> /\ EmptyThread.text = <<>> /\ EmptyThread.args = <<>>
  BY DEF EmptyThread
<1> QED BY <1>1, EmptyOK, SeqEmpty DEF Resting, HistoryOK

MemoryInv == Resting(thread)

LEMMA InitMemory == Init => MemoryInv
BY EmptyRests, AddMessageRests DEF Init, MemoryInv

LEMMA SettledRests ==
    ASSUME CarryInv, StreamInv, MemoryInv, pc = "reading", Settled
    PROVE  MemoryInv'
<1>1. PICK st : Settle(st) /\ st.segments = stream.segments
  BY DEF Settled
<1>2. RunsOK /\ Len(runs) >= 1
  BY NextRun DEF CarryInv, OnItsWay
<1>3. SegmentOK(PartOf(st))
  BY <1>1, PartOK DEF StreamInv, Reader, StreamOK
<1>4. thread' = ReduceRun(thread, Len(runs), PartOf(st).events).thread
  BY <1>1, <1>2, SettleTells
<1>5. Resting(ReduceRun(thread, Len(runs), PartOf(st).events).thread)
  BY <1>3, RunRests DEF SegmentOK, MemoryInv
<1> QED BY <1>4, <1>5 DEF MemoryInv

LEMMA StepMemory ==
    ASSUME CarryInv, StreamInv, FormInv, MemoryInv, [Next]_vars
    PROVE  MemoryInv'
<1> USE DEF client, contexts
<1>1. CASE UNCHANGED thread
  BY <1>1 DEF MemoryInv
<1>2. CASE Cancel \/ Expire \/ Stopped \/ UNCHANGED vars \/ RunFails \/ CancelledRun \/ Complete
           \/ Return
  <2>1. UNCHANGED thread
    BY <1>2 DEF Cancel, Expire, Stopped, vars, RunFails, CancelledRun, Complete, Return
  <2> QED BY <1>1, <2>1
<1>3. CASE RejectScript
  BY <1>3, EmptyRests DEF RejectScript, MemoryInv
<1>4. CASE Post
  BY <1>1, <1>4, PostTells
<1>5. CASE Reading
  <2>1. pc = "reading"
    BY <1>5, ReadingRuns
  <2> QED BY <1>1, <1>5, <2>1, SettledRests, ReadingTells DEF StreamInv
<1>6. CASE AnswerRequests
  <2>1. pc = "decide"
    BY <1>6 DEF AnswerRequests
  <2>2. RunsOK /\ Len(runs) >= 1
    BY <2>1, NextRun DEF CarryInv, OnItsWay
  <2>3. IsSeq(Asked)
    BY <2>1, <2>2, AskedSeq DEF CarryInv, OnItsWay
  <2>4. thread' = thread \/ thread' = FoldLeft(AnswerCall, thread, Asked)
    BY <1>6, Zenon DEF AnswerRequests
  <2> QED BY <2>3, <2>4, AnswersRest DEF MemoryInv
<1>7. CASE FollowUp
  <2>1. thread' = thread \/ thread' = AddMessage(thread, "user", 0)
    BY <1>7 DEF FollowUp
  <2> QED BY <2>1, AddMessageRests DEF MemoryInv
<1> QED BY <1>2, <1>3, <1>4, <1>5, <1>6, <1>7 DEF Next, Deciding

NotTold == \A i \in OurEvents : heard[i].type # "MESSAGES_SNAPSHOT"

\* A recorded run holds what its events name, each new item whole.
HoldsExactly(r) ==
    /\ {<<it.kind, it.id>> : it \in ToSet(r.items)} = Named
    /\ \A it \in ToSet(r.items) :
          LET item == <<it.kind, it.id>>
          IN  it.kind # "result" /\ Blank(thread, item) => it.len = Total(PiecesOf(item))

LEMMA NamedMarks ==
    ASSUME StreamInv, NotTold
    PROVE  Marks = Named /\ \A item \in Named : item[1] \in ItemKinds \cup {"result"}
<1>1. \A i \in OurEvents : i \in DOMAIN heard /\ heard[i] \in Events
  BY OurPartIs, SeqDomain DEF StreamInv, PartTells, OurEvents
<1>2. Marking = Producing
  BY DEF Marking, Producing, Produces, NotTold
<1>3. \A i \in Producing : MarkOf(i) = ItemOf(i)
  BY DEF MarkOf, Producing, NotTold
<1>4. ASSUME NEW i \in Producing PROVE ItemOf(i)[1] \in ItemKinds \cup {"result"}
  <2>1. heard[i] \in Events
    BY <1>1 DEF Producing
  <2>2. CASE heard[i].type = "TOOL_CALL_RESULT"
    BY <2>2 DEF ItemOf
  <2>3. CASE heard[i].type \in {"START", "CONTENT", "CHUNK"} /\ heard[i].kind # "span"
    <3>1. heard[i].kind \in ItemKinds
      BY <2>1, <2>3 DEF Events, Fields, Kinds, ItemKinds
    <3>2. ItemOf(i)[1] = heard[i].kind
      BY <2>3 DEF ItemOf
    <3> QED BY <3>1, <3>2
  <2> QED BY <2>2, <2>3 DEF Producing
<1> QED BY <1>2, <1>3, <1>4 DEF Marks, Named

LEMMA SettledExact ==
    ASSUME CarryInv, StreamInv, ExactInv, MemoryInv, pc = "reading", Settled,
           Unmixed(Named), NotTold
    PROVE  \E r : runs' = WithLast(runs, r) /\ HoldsExactly(r)
<1>1. PICK st : Settle(st) /\ st.segments = stream.segments
  BY DEF Settled
<1>2. RunsOK /\ Len(runs) >= 1
  BY NextRun DEF CarryInv, OnItsWay
<1>3. PICK p : p = PartOf(st)
  OBVIOUS
<1>4. p = PartOf(stream)
  BY <1>1, <1>3 DEF PartOf
<1>5. SegmentOK(p)
  BY <1>1, <1>3, PartOK DEF StreamInv, Reader, StreamOK
<1>6. PICK events : events = p.events
  OBVIOUS
<1>7. IsSeq(events) /\ Sized(events)
  <2>1. \A k \in 1 .. Len(stream.segments) : Sized(stream.segments[k].events)
    BY DEF ExactInv, Exact
  <2>2. Ours(stream.segments) \in 0 .. Len(stream.segments) /\ Len(stream.segments) \in Nat
    BY OursIs, SeqDomain DEF StreamInv, Reader, StreamOK, SegmentsOK
  <2>3. Sized(NewSegment(0).events)
    BY NewHolds
  <2>4. Sized(p.events)
    BY <1>4, <2>1, <2>2, <2>3 DEF PartOf
  <2> QED BY <1>5, <1>6, <2>4 DEF SegmentOK
<1>8. /\ Made(events) = Named
      /\ \A item : item[1] \in ItemKinds => Added(events, item) = Total(PiecesOf(item))
  BY <1>4, <1>6, NamedMarks DEF ExactInv, Exact, Holds
<1>9. Untold(events)
  <2>1. SnapshotMark \notin Named
    BY NamedMarks DEF SnapshotMark, ItemKinds
  <2>2. \A i \in DOMAIN events :
            events[i].type = "MESSAGES_SNAPSHOT" => SnapshotMark \in Made(events)
    BY DEF Made, Makes
  <2> QED BY <1>8, <2>1, <2>2 DEF Untold
<1>10. PICK r : /\ runs' = WithLast(runs, r)
                /\ r.items = ReduceRun(thread, Len(runs), p.events).items
  BY <1>1, <1>2, <1>3, SettleTells
<1>11. PICK items : items = r.items
  OBVIOUS
<1>12. /\ KeysOf(items) = Made(events)
       /\ \A i \in DOMAIN items :
             LET item == <<items[i].kind, items[i].id>>
             IN  items[i].kind # "result" /\ Blank(thread, item)
                 => items[i].len = Added(events, item)
  BY <1>6, <1>7, <1>8, <1>9, <1>10, <1>11, RunExact DEF MemoryInv
<1>13. {<<it.kind, it.id>> : it \in ToSet(items)} = KeysOf(items)
  BY DEF ToSet, KeysOf
<1>14. ASSUME NEW it \in ToSet(items), it.kind # "result", Blank(thread, <<it.kind, it.id>>)
       PROVE  it.len = Total(PiecesOf(<<it.kind, it.id>>))
  <2>1. PICK i \in DOMAIN items : it = items[i]
    BY DEF ToSet
  <2>2. <<it.kind, it.id>> \in Named
    BY <1>8, <1>12, <2>1 DEF KeysOf
  <2>3. it.kind \in ItemKinds
    <3> DEFINE item == <<it.kind, it.id>>
    <3>1. item[1] = it.kind
      OBVIOUS
    <3> HIDE DEF item
    <3>2. item[1] \in ItemKinds \cup {"result"}
      BY <2>2, NamedMarks DEF item
    <3> QED BY <1>14, <3>1, <3>2
  <2>4. it.len = Added(events, <<it.kind, it.id>>)
    BY <1>12, <1>14, <2>1
  <2> QED BY <1>8, <2>3, <2>4
<1>15. HoldsExactly(r)
  BY <1>8, <1>11, <1>12, <1>13, <1>14 DEF HoldsExactly
<1> QED BY <1>10, <1>15

\* A transcript's run holds the requested run of the response and nothing else
\* (settle, reduceRun).
THEOREM ConversationExact == Spec => TranscriptExact
<1> DEFINE A == /\ pc = "reading" /\ pc' = "decide"
                /\ Unmixed(Named) /\ \A i \in OurEvents : heard[i].type # "MESSAGES_SNAPSHOT"
                => /\ {<<it.kind, it.id>> : it \in ToSet(Latest'.items)} = Named
                   /\ \A it \in ToSet(Latest'.items) :
                          LET item == <<it.kind, it.id>>
                          IN  it.kind # "result" /\ Blank(thread, item)
                              => it.len = Total(PiecesOf(item))
<1>1. CarryInv /\ StreamInv /\ ExactInv /\ MemoryInv /\ [Next]_vars => A
  <2> SUFFICES ASSUME CarryInv, StreamInv, ExactInv, MemoryInv, [Next]_vars,
                      pc = "reading", pc' = "decide", Unmixed(Named), NotTold
               PROVE  HoldsExactly(Latest')
    BY DEF HoldsExactly, NotTold
  <2>1. Settled
    <3>1. Reading
      BY DEF Next, Deciding, Cancel, Expire, RejectScript, Post, Posting, PostRefused,
             PostAccepted, RunFails, CancelledRun, AnswerRequests, FollowUp, Complete,
             RunEnded, Return, Stopped, vars, client, contexts
    <3> QED BY <3>1, ReadingTells DEF StreamInv
  <2>2. PICK r : runs' = WithLast(runs, r) /\ HoldsExactly(r)
    BY <2>1, SettledExact
  <2>3. RunsOK /\ Len(runs) >= 1
    BY NextRun DEF CarryInv, OnItsWay
  <2>4. Latest' = r
    BY <2>2, <2>3, SeqLast DEF Latest, RunsOK
  <2> QED BY <2>2, <2>4
<1>2. Init => SurfaceInv
  BY NothingHeard DEF Init, SurfaceInv
<1>3. Init => ExactInv
  BY DEF Init, ExactInv
<1>4. CarryInv /\ StreamInv /\ SurfaceInv /\ [Next]_vars => SurfaceInv'
  BY StepSurfaces
<1>5. CarryInv /\ StreamInv /\ FormInv /\ [Next]_vars => FormInv'
  BY StepForm
<1>6. CarryInv /\ StreamInv /\ SurfaceInv /\ ExactInv /\ [Next]_vars => ExactInv'
  BY StepExact
<1>7. CarryInv /\ StreamInv /\ FormInv /\ MemoryInv /\ [Next]_vars => MemoryInv'
  BY StepMemory
<1> QED BY StreamInvariant, InitForm, InitMemory, <1>1, <1>2, <1>3, <1>4, <1>5, <1>6, <1>7,
           PTL DEF Spec, TranscriptExact
==============================================================================
