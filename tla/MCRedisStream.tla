--------------------------- MODULE MCRedisStream ---------------------------
(* Small instances of RedisStream for TLC.                                  *)
EXTENDS RedisStream

CONSTANT r1

MCFromStart == [r \in Reader |-> 0]
=============================================================================
