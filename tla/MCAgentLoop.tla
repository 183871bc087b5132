---------------------------- MODULE MCAgentLoop ----------------------------
(* Small instances of AgentLoop for TLC.                                    *)
EXTENDS AgentLoop

CONSTANTS a, b, c, agent, conv

MCInAgent == [r \in Req |-> agent]
\* a is a message, the others answer an approval request.
MCInput == [r \in Req |-> IF r = a THEN "message" ELSE "approval"]
=============================================================================
