---------------------------- MODULE MCOpenFiles ----------------------------
(* Small instances of OpenFiles for TLC.                                    *)
EXTENDS OpenFiles

CONSTANTS f1, f2, f3, p1, p2

MCFolders == {<<f3, f1>>}
MCSymmetry == Permutations({p1, p2})

MCOneFolder == {<<f1>>}
=============================================================================
