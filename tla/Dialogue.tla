------------------------------ MODULE Dialogue -------------------------------
(***************************************************************************)
(* What a hosted conversation promises its agent: turns alternate, and     *)
(* after a turn that asked the client something the client either answers  *)
(* all of it with the next turn or says nothing more.  Conversation        *)
(* implements it.                                                          *)
(***************************************************************************)
VARIABLES turn, \* "agent", "client" or "over"
          asked, \* what the agent's last turn asked
          given  \* what the client's next turn answers

vars == <<turn, asked, given>>

Init == turn = "agent" /\ asked = {} /\ given = {}

AgentTurn == /\ turn = "agent"
             /\ turn' = "client" /\ given' = {} \* and asked' is the agent's to say

ClientTurn == /\ turn = "client"
              /\ turn' = "agent" /\ given' = asked /\ UNCHANGED asked

\* The conversation ends: it is complete, cut off, or awaits an answer.
Hang == turn # "over" /\ turn' = "over" /\ UNCHANGED <<asked, given>>

Next == AgentTurn \/ ClientTurn \/ Hang

Spec == Init /\ [][Next]_vars
=============================================================================
