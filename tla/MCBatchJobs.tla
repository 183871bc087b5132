---------------------------- MODULE MCBatchJobs ----------------------------
(* Small instances of BatchJobs for TLC.                                    *)
EXTENDS BatchJobs

CONSTANTS s1, s2, j1, a1, a2

MCAllAgents == [j \in Job |-> Agent]
=============================================================================
