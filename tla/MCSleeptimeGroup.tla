-------------------------- MODULE MCSleeptimeGroup --------------------------
(* Small instances of SleeptimeGroup for TLC.                               *)
EXTENDS SleeptimeGroup

CONSTANTS a, b, c, agent, conv

MCInConversation == [r \in Req |-> conv]
\* a is a message, the others answer an approval request.
MCInput == [r \in Req |-> IF r = a THEN "message" ELSE "approval"]
=============================================================================
