SPECIFICATION Spec
CONSTANTS
  a = a
  b = b
  c = c
  agent = agent
  conv = conv
  Req = {a, b, c}
  Thread = {agent, conv}
  Default = agent
  ThreadOf <- MCInAgent
  InputOf <- MCInput
  FollowUps = {}
  Locked = {a, b, c}
  MayCancel = {}
  MayCrash = {}
  Replies = {"gated"}
  Modes = {}
  Faults = {}
  MaxSteps = 1
  MaxTries = 0
INVARIANTS
  CallRunsOnce
CHECK_DEADLOCK FALSE
