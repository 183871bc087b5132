SPECIFICATION Spec
CONSTANTS
  a1 = a1
  a2 = a2
  c1 = c1
  t1 = t1
  Agent = {a1, a2}
  Client = {c1}
  Text = {t1}
  Past <- MCPast
  MaxVersion = 3
  MaxFaults = 1
SYMMETRY MCSymmetry
INVARIANTS TypeOK PromptFollowsRow
PROPERTY HistoryIsLinear
CHECK_DEADLOCK FALSE
