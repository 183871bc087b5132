--------------------------- MODULE MCRunLifecycle ---------------------------
(* Small instances of RunLifecycle for TLC.                                 *)
EXTENDS RunLifecycle

CONSTANTS a, b, c, conv, t1, t2

\* a and b send the same messages; c sends others to the same conversation.
MCKeyOf == [r \in Req |-> conv]
MCTokenOf == [r \in Req |-> IF r = c THEN t2 ELSE t1]
MCAllBackground == [r \in Req |-> "background"]
MCSyncLast == [r \in Req |-> IF r = c THEN "sync" ELSE "background"]
MCForegroundFirst == [r \in Req |-> IF r = a THEN "foreground" ELSE "background"]
=============================================================================
