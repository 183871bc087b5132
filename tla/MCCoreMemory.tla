---------------------------- MODULE MCCoreMemory ----------------------------
(* Small instances of CoreMemory for TLC.                                   *)
EXTENDS CoreMemory, TLC

CONSTANTS a1, a2, c1, t1

MCPast == {<< >>, <<{}, {t1}>>}
MCNoPast == {<< >>}
MCSymmetry == Permutations(Agent)
=============================================================================
