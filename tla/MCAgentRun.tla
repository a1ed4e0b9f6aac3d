------------------------------ MODULE MCAgentRun ------------------------------
(* The three ways a run is watched, and up to three lines of output: one in  *)
(* the pipe, one in the channel, one still to come.                          *)
EXTENDS AgentRun

MCModes == {"scan", "sideChannel", "collect"}
=============================================================================
