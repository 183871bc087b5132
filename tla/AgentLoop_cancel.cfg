SPECIFICATION Spec
CONSTANTS
  a = a
  b = b
  c = c
  agent = agent
  conv = conv
  Req = {a, b}
  Thread = {agent, conv}
  Default = agent
  ThreadOf <- MCInAgent
  InputOf <- MCInput
  FollowUps = {b}
  Locked = {a, b}
  MayCancel = {a}
  MayCrash = {b}
  Replies = {"terminal", "gated", "tool"}
  Modes = {"all", "sliding"}
  Faults = {"llm", "save"}
  MaxSteps = 2
  MaxTries = 1
INVARIANTS
  TypeOK
  WellFormed
  OnlyUnsavedInputDangles
CHECK_DEADLOCK FALSE
