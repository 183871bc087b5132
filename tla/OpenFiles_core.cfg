SPECIFICATION Spec
CONSTANTS
  f1 = f1
  f2 = f2
  f3 = f3
  p1 = p1
  p2 = p2
  File = {f1, f2, f3}
  Proc = {p1, p2}
  Limits = {1, 2}
  Folders <- MCFolders
INVARIANTS TypeOK WithinLimit
 
SYMMETRY MCSymmetry
CHECK_DEADLOCK FALSE
